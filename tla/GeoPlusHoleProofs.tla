------------------------- MODULE GeoPlusHoleProofs --------------------------
(***************************************************************************)
(* What the search for hole boundaries guarantees in every network, with   *)
(* any angles and gaps, for any number of walks, whatever the radio loses. *)
(***************************************************************************)
EXTENDS GeoPlusHole, GeoNeighborsProofs

USE GeoNeighborsAssumption, GeoPlusHoleAssumption

(***************************************************************************)
(* The sort of findBaseNode, on keys K of 1..l: what a swap, a pass and    *)
(* all of them make of an arrangement o of 1..l.                           *)
(***************************************************************************)
Arrangements(l) == {o \in [1..l -> 1..l] : \A i \in 1..l : \E r \in 1..l : o[r] = i}

\* Equal keys are in the order of their indices.
Stable(K, l, o) ==
    \A r, q \in 1..l : r < q /\ K[o[r]] = K[o[q]] => o[r] < o[q]

\* What is before place i is settled.
SettledTo(K, l, o, i) ==
    \A r, q \in 1..l : r < i /\ r < q => K[o[r]] <= K[o[q]]

LeastFrom(K, l, o, j) == \A q \in j..l : K[o[j]] <= K[o[q]]

SwapOf(K, o, j) ==
    IF K[o[j+1]] < K[o[j]] THEN [o EXCEPT ![j] = o[j+1], ![j+1] = o[j]] ELSE o

LEMMA SwapKeeps ==
    ASSUME NEW l \in Nat, NEW K \in [1..l -> Nat], NEW o \in Arrangements(l),
           NEW j \in 1..l-1
    PROVE  SwapOf(K, o, j) \in Arrangements(l)
<1> DEFINE s == [o EXCEPT ![j] = o[j+1], ![j+1] = o[j]]
<1>1. j \in 1..l /\ j + 1 \in 1..l /\ j # j + 1
  OBVIOUS
<1>2. o \in [1..l -> 1..l] /\ \A i \in 1..l : \E r \in 1..l : o[r] = i
  BY DEF Arrangements
<1>3. /\ s \in [1..l -> 1..l] /\ s[j] = o[j+1] /\ s[j+1] = o[j]
      /\ \A r \in 1..l : r # j /\ r # j + 1 => s[r] = o[r]
  BY <1>1, <1>2
<1> HIDE DEF s
<1>4. ASSUME NEW i \in 1..l PROVE \E r \in 1..l : s[r] = i
  <2>1. PICK r \in 1..l : o[r] = i
    BY <1>2
  <2>2. CASE r = j
    BY <1>1, <1>3, <2>1, <2>2
  <2>3. CASE r = j + 1
    BY <1>1, <1>3, <2>1, <2>3
  <2>4. CASE r # j /\ r # j + 1
    BY <1>3, <2>1, <2>4
  <2> QED BY <2>2, <2>3, <2>4
<1>5. s \in Arrangements(l)
  BY <1>3, <1>4 DEF Arrangements
<1> QED BY <1>5 DEF SwapOf, s

LEMMA SwapSorts ==
    ASSUME NEW l \in Nat, NEW K \in [1..l -> Nat], NEW o \in Arrangements(l),
           NEW i \in 1..l, NEW j \in i..l-1,
           Stable(K, l, o), SettledTo(K, l, o, i), LeastFrom(K, l, o, j + 1)
    PROVE  LET s == SwapOf(K, o, j)
           IN  Stable(K, l, s) /\ SettledTo(K, l, s, i) /\ LeastFrom(K, l, s, j)
<1> DEFINE s == SwapOf(K, o, j)
<1>1. /\ j \in 1..l /\ j + 1 \in 1..l /\ j # j + 1 /\ i <= j
      /\ i \in Nat /\ j \in Nat
  OBVIOUS
<1>2. /\ o \in [1..l -> 1..l]
      /\ \A r \in 1..l : o[r] \in 1..l /\ K[o[r]] \in Nat
  BY DEF Arrangements
<1>3. \A q \in j..l : q = j \/ q \in j+1..l
  OBVIOUS
<1>4. /\ K[o[j]] \in Nat /\ K[o[j+1]] \in Nat
      /\ \A q \in 1..l : K[o[q]] \in Nat
  BY ONLY <1>1, <1>2
<1>a. \A x, y \in Nat : x <= x /\ (x < y => x <= y) /\ (~ (x < y) => y <= x)
  OBVIOUS
<1>b. \A x, y, z \in Nat : x <= y /\ y <= z => x <= z
  OBVIOUS
<1>5. CASE K[o[j+1]] < K[o[j]]
  <2>1. /\ s[j] = o[j+1] /\ s[j+1] = o[j]
        /\ \A r \in 1..l : r # j /\ r # j + 1 => s[r] = o[r]
    BY <1>1, <1>2, <1>5 DEF SwapOf
  <2> HIDE DEF s
  <2>2. LeastFrom(K, l, s, j)
    <3> SUFFICES ASSUME NEW q \in j..l PROVE K[s[j]] <= K[s[q]]
      BY DEF LeastFrom
    <3>1. CASE q = j
      BY ONLY <1>4, <1>a, <2>1, <3>1
    <3>2. CASE q = j + 1
      BY ONLY <1>4, <1>5, <1>a, <2>1, <3>2
    <3>3. CASE q # j /\ q # j + 1
      <4>1. q \in j+1..l /\ q \in 1..l
        BY <1>1, <3>3
      <4>2. K[o[j+1]] <= K[o[q]]
        BY <4>1 DEF LeastFrom
      <4> QED BY <2>1, <3>3, <4>1, <4>2
    <3> QED BY <3>1, <3>2, <3>3
  <2>3. SettledTo(K, l, s, i)
    <3> SUFFICES ASSUME NEW r \in 1..l, NEW q \in 1..l, r < i, r < q
                 PROVE  K[s[r]] <= K[s[q]]
      BY DEF SettledTo
    <3>1. r # j /\ r # j + 1 /\ r < j /\ r < j + 1
      BY <1>1
    <3>2. s[r] = o[r]
      BY <2>1, <3>1
    <3>3. \A x \in 1..l : r < x => K[o[r]] <= K[o[x]]
      BY DEF SettledTo
    <3>4. CASE q = j
      BY <1>1, <2>1, <3>1, <3>2, <3>3, <3>4
    <3>5. CASE q = j + 1
      BY <1>1, <2>1, <3>1, <3>2, <3>3, <3>5
    <3>6. CASE q # j /\ q # j + 1
      BY <2>1, <3>2, <3>3, <3>6
    <3> QED BY <3>4, <3>5, <3>6
  <2>4. Stable(K, l, s)
    <3> SUFFICES ASSUME NEW r \in 1..l, NEW q \in 1..l, r < q,
                        K[s[r]] = K[s[q]]
                 PROVE  s[r] < s[q]
      BY DEF Stable
    <3>1. \A x, y \in 1..l : x < y /\ K[o[x]] = K[o[y]] => o[x] < o[y]
      BY DEF Stable
    <3>2. K[o[j]] # K[o[j+1]]
      BY <1>1, <1>2, <1>5
    <3>3. CASE r # j /\ r # j + 1 /\ q # j /\ q # j + 1
      BY <2>1, <3>1, <3>3
    <3>4. CASE r = j /\ q = j + 1
      BY <2>1, <3>2, <3>4
    <3>5. CASE r = j /\ q # j + 1
      <4>1. j + 1 < q /\ s[r] = o[j+1] /\ s[q] = o[q]
        BY <1>1, <2>1, <3>5
      <4> QED BY <1>1, <3>1, <4>1
    <3>6. CASE r = j + 1
      <4>1. j < q /\ s[r] = o[j] /\ s[q] = o[q]
        BY <1>1, <2>1, <3>6
      <4> QED BY <1>1, <3>1, <4>1
    <3>7. CASE r # j /\ r # j + 1 /\ q = j
      <4>1. r < j + 1 /\ s[r] = o[r] /\ s[q] = o[j+1]
        BY <1>1, <2>1, <3>7
      <4> QED BY <1>1, <3>1, <4>1
    <3>8. CASE r # j /\ r # j + 1 /\ q = j + 1
      <4>1. r < j /\ s[r] = o[r] /\ s[q] = o[j]
        BY <1>1, <2>1, <3>8
      <4> QED BY <1>1, <3>1, <4>1
    <3>9. r = j /\ q = j => FALSE
      OBVIOUS
    <3> QED BY <3>3, <3>4, <3>5, <3>6, <3>7, <3>8, <3>9
  <2> QED BY <2>2, <2>3, <2>4 DEF s
<1>6. CASE ~ (K[o[j+1]] < K[o[j]])
  <2>1. s = o
    BY <1>6 DEF SwapOf
  <2>2. K[o[j]] <= K[o[j+1]]
    BY ONLY <1>4, <1>6, <1>a
  <2>3. LeastFrom(K, l, o, j)
    <3> SUFFICES ASSUME NEW q \in j..l PROVE K[o[j]] <= K[o[q]]
      BY DEF LeastFrom
    <3>1. CASE q = j
      BY ONLY <1>4, <1>a, <3>1
    <3>2. CASE q \in j+1..l
      <4>1. K[o[j+1]] <= K[o[q]] /\ q \in 1..l
        BY <1>1, <3>2 DEF LeastFrom
      <4>2. K[o[q]] \in Nat
        BY <1>4, <4>1
      <4> QED BY ONLY <1>4, <1>b, <2>2, <4>1, <4>2
    <3> QED BY <1>3, <3>1, <3>2
  <2> QED BY <2>1, <2>3
<1> QED BY <1>5, <1>6

(***************************************************************************)
(* There is one order at most: places of two that differ first would have  *)
(* each of the two entries there before the other.                         *)
(***************************************************************************)
Earlier(K, i, j) == K[i] < K[j] \/ (K[i] = K[j] /\ i < j)

InOrder(K, l, o) ==
    /\ o \in Arrangements(l)
    /\ \A r, q \in 1..l : r < q => Earlier(K, o[r], o[q])

LEMMA OneOrder ==
    ASSUME NEW l \in Nat, NEW K \in [1..l -> Nat], NEW o, NEW u,
           InOrder(K, l, o), InOrder(K, l, u)
    PROVE  o = u
<1> DEFINE D == {r \in 1..l : o[r] # u[r]}
<1>1. /\ o \in [1..l -> 1..l] /\ u \in [1..l -> 1..l]
      /\ \A i \in 1..l : \E r \in 1..l : o[r] = i
      /\ \A i \in 1..l : \E r \in 1..l : u[r] = i
  BY DEF InOrder, Arrangements
<1>2. SUFFICES ASSUME D # {} PROVE FALSE
  BY <1>1
<1>3. D \in SUBSET Nat
  OBVIOUS
<1>4. PICK r \in D : \A y \in D : r <= y
  <2> HIDE DEF D
  <2> QED BY <1>2, <1>3, LeastDistance
<1>5. r \in 1..l /\ o[r] # u[r] /\ \A y \in 1..l : y < r => o[y] = u[y]
  BY <1>4
<1>6. \A i, j \in 1..l : ~ (Earlier(K, i, j) /\ Earlier(K, j, i)) /\ ~ Earlier(K, i, i)
  <2>1. \A i \in 1..l : K[i] \in Nat /\ i \in Nat
    OBVIOUS
  <2> QED BY <2>1 DEF Earlier
<1>7. PICK q \in 1..l : u[q] = o[r]
  BY <1>1, <1>5
<1>8. PICK p \in 1..l : o[p] = u[r]
  BY <1>1, <1>5
<1> HIDE DEF D
<1>9. r < q
  <2>1. q # r
    BY <1>5, <1>7
  <2>2. ASSUME q < r PROVE FALSE
    <3>1. o[q] = o[r]
      BY <1>5, <1>7, <2>2
    <3>2. Earlier(K, o[q], o[r])
      BY <1>5, <2>2 DEF InOrder
    <3> QED BY <1>1, <1>5, <1>6, <3>1, <3>2
  <2> QED BY <1>5, <2>1, <2>2
<1>10. r < p
  <2>1. p # r
    BY <1>5, <1>8
  <2>2. ASSUME p < r PROVE FALSE
    <3>1. u[p] = u[r]
      BY <1>5, <1>8, <2>2
    <3>2. Earlier(K, u[p], u[r])
      BY <1>5, <2>2 DEF InOrder
    <3> QED BY <1>1, <1>5, <1>6, <3>1, <3>2
  <2> QED BY <1>5, <2>1, <2>2
<1>11. Earlier(K, u[r], o[r])
  BY <1>5, <1>7, <1>9 DEF InOrder
<1>12. Earlier(K, o[r], u[r])
  BY <1>5, <1>8, <1>10 DEF InOrder
<1> QED BY <1>1, <1>5, <1>6, <1>11, <1>12

-----------------------------------------------------------------------------
\* The keys that findBaseNode sorts a table by.
Keys(n, t) == [i \in 1..Len(t) |-> Angle[n][t[i]]]

LEMMA KeysType ==
    ASSUME NEW n \in Node, NEW t \in Seq(Node)
    PROVE  /\ Len(t) \in Nat
           /\ Keys(n, t) \in [1..Len(t) -> Nat]
           /\ \A i \in 1..Len(t) : Keys(n, t)[i] = Angle[n][t[i]]
<1>1. Len(t) \in Nat /\ \A i \in 1..Len(t) : t[i] \in Node
  BY SeqEntries
<1>2. \A m \in Node : Angle[n][m] \in Nat
  <2>1. Angle[n] \in [Node -> 0..359]
    OBVIOUS
  <2>2. \A m \in Node : Angle[n][m] \in 0..359
    BY ONLY <2>1
  <2>3. \A x \in 0..359 : x \in Nat
    OBVIOUS
  <2> QED BY ONLY <2>2, <2>3
<1> QED BY <1>1, <1>2 DEF Keys

LEMMA SwapNextIsSwap ==
    ASSUME NEW n \in Node, NEW t \in Seq(Node), NEW o \in Arrangements(Len(t)),
           NEW j \in 1..Len(t) - 1
    PROVE  SwapNext(n, t, o, j) = SwapOf(Keys(n, t), o, j)
<1>1. Len(t) \in Nat /\ \A i \in 1..Len(t) : Keys(n, t)[i] = Angle[n][t[i]]
  BY KeysType
<1>2. j \in 1..Len(t) /\ j + 1 \in 1..Len(t)
  BY <1>1
<1>3. o[j] \in 1..Len(t) /\ o[j+1] \in 1..Len(t)
  BY <1>2 DEF Arrangements
<1> QED BY <1>1, <1>3 DEF SwapNext, SwapOf

(***************************************************************************)
(* One pass: it settles one place more.                                    *)
(***************************************************************************)
Swaps(n, t, o, i, f) ==
    f = [k \in 0..Len(t) - i |->
            IF k = 0 THEN o ELSE SwapNext(n, t, f[k-1], Len(t) - k)]

LEMMA SwapsExist ==
    ASSUME NEW n \in Node, NEW t \in Seq(Node), NEW o \in Arrangements(Len(t)),
           NEW i \in 1..Len(t)
    PROVE  \E f \in [0..Len(t) - i -> Arrangements(Len(t))] : Swaps(n, t, o, i, f)
<1> DEFINE l == Len(t)
           m == l - i
           X == Arrangements(l)
           G == [k \in 1..m |-> [x \in X |-> SwapNext(n, t, x, l - k)]]
<1>1. l \in Nat /\ Keys(n, t) \in [1..l -> Nat] /\ i \in 1..l
  BY KeysType
<1>2. m \in Nat /\ \A k \in 1..m : l - k \in 1..l-1
  BY ONLY <1>1
<1>3. \A k \in 1..m : \A x \in X : SwapNext(n, t, x, l - k) \in X
  <2> SUFFICES ASSUME NEW k \in 1..m, NEW x \in X
               PROVE  SwapNext(n, t, x, l - k) \in X
    OBVIOUS
  <2>1. SwapNext(n, t, x, l - k) = SwapOf(Keys(n, t), x, l - k)
    BY <1>2, SwapNextIsSwap
  <2>2. SwapOf(Keys(n, t), x, l - k) \in X
    <3>1. l - k \in 1..l-1
      BY <1>2
    <3> DEFINE j == l - k
    <3> HIDE DEF l, j
    <3>2. SwapOf(Keys(n, t), x, j) \in X
      BY <1>1, <3>1, SwapKeeps DEF j
    <3> QED BY <3>2 DEF j
  <2> QED BY <2>1, <2>2
<1>4. G \in [1..m -> [X -> X]]
  BY <1>3
<1>5. \A k \in 1..m : \A x \in X : G[k][x] = SwapNext(n, t, x, l - k)
  OBVIOUS
<1>6. o \in X
  OBVIOUS
<1> HIDE DEF X, G, m
<1>7. PICK f \in [0..m -> X] : IsLoop(f, m, o, G)
  BY <1>2, <1>4, <1>6, LoopExists
<1>8. f[0] = o /\ \A k \in 1..m : f[k] = SwapNext(n, t, f[k-1], l - k)
  <2>1. \A k \in 1..m : k - 1 \in 0..m
    BY <1>2
  <2> QED BY <1>5, <1>7, <2>1 DEF IsLoop
<1>9. f = [k \in 0..m |-> IF k = 0 THEN o ELSE SwapNext(n, t, f[k-1], l - k)]
  <2>1. \A k \in 0..m : k = 0 \/ k \in 1..m
    BY <1>2
  <2> QED BY <1>7, <1>8, <2>1
<1> QED BY <1>7, <1>9 DEF Swaps, m, X

LEMMA PassSwaps ==
    ASSUME NEW n \in Node, NEW t \in Seq(Node), NEW o \in Arrangements(Len(t)),
           NEW i \in 1..Len(t)
    PROVE  \E f : /\ f[0] = o
                  /\ \A k \in 1..Len(t) - i :
                        f[k] = SwapNext(n, t, f[k-1], Len(t) - k)
                  /\ SortPass(n, t, o, i) = f[Len(t) - i]
<1> DEFINE f == CHOOSE g : Swaps(n, t, o, i, g)
<1>1. Swaps(n, t, o, i, f)
  BY SwapsExist
<1>2. SortPass(n, t, o, i) = f[Len(t) - i]
  BY DEF SortPass, Swaps
<1> HIDE DEF f
<1>3. Len(t) - i \in Nat
  <2>1. Len(t) \in Nat
    BY KeysType
  <2> QED BY <2>1
<1>4. 0 \in 0..Len(t) - i /\ \A k \in 1..Len(t) - i : k \in 0..Len(t) - i /\ k # 0
  BY <1>3
<1>5. f[0] = o /\ \A k \in 1..Len(t) - i : f[k] = SwapNext(n, t, f[k-1], Len(t) - k)
  BY ONLY <1>1, <1>4 DEF Swaps
<1> QED BY <1>2, <1>5

LEMMA PassSorts ==
    ASSUME NEW n \in Node, NEW t \in Seq(Node), NEW o \in Arrangements(Len(t)),
           NEW i \in 1..Len(t)
    PROVE  LET s == SortPass(n, t, o, i)
               l == Len(t)
               K == Keys(n, t)
           IN  /\ s \in Arrangements(l)
               /\ Stable(K, l, o) /\ SettledTo(K, l, o, i) =>
                    Stable(K, l, s) /\ SettledTo(K, l, s, i + 1)
<1> DEFINE l == Len(t)
           K == Keys(n, t)
           m == l - i
           Good == Stable(K, l, o) /\ SettledTo(K, l, o, i)
           Sorts(k, x) == /\ Stable(K, l, x) /\ SettledTo(K, l, x, i)
                          /\ LeastFrom(K, l, x, l - k)
<1>1. l \in Nat /\ K \in [1..l -> Nat] /\ i \in 1..l
  BY KeysType
<1>2. PICK f : /\ f[0] = o
               /\ \A k \in 1..m : f[k] = SwapNext(n, t, f[k-1], l - k)
               /\ SortPass(n, t, o, i) = f[m]
  BY PassSwaps
<1>3. m \in Nat /\ l - m = i /\ l - 0 = l
  BY ONLY <1>1
<1>4. \A k \in 1..m : /\ l - k \in i..l-1 /\ l - k \in 1..l-1
                      /\ l - (k - 1) = (l - k) + 1 /\ k \in 0..m
  BY ONLY <1>1
<1>5. \A k \in 1..m : \A x \in Arrangements(l) :
         SwapNext(n, t, x, l - k) = SwapOf(K, x, l - k)
  BY <1>4, SwapNextIsSwap
<1>6. o \in Arrangements(l)
  OBVIOUS
<1> DEFINE S == {k \in 0..m : f[k] \in Arrangements(l) /\ (Good => Sorts(k, f[k]))}
<1> HIDE DEF K, m, l
<1>7. 0 \in S
  <2>1. LeastFrom(K, l, o, l)
    <3>1. \A q \in l..l : q = l
      BY <1>1
    <3>2. l \in 1..l
      BY <1>1
    <3>3. o[l] \in 1..l
      BY <3>2, <1>6 DEF Arrangements
    <3>4. K[o[l]] \in Nat
      BY <1>1, <3>3
    <3>5. K[o[l]] <= K[o[l]]
      BY <3>4
    <3> QED BY <3>1, <3>5 DEF LeastFrom
  <2>2. 0 \in 0..m
    BY <1>3
  <2> QED BY <1>2, <1>3, <1>6, <2>1, <2>2
<1>8. ASSUME NEW k \in 1..m, k - 1 \in S PROVE k \in S
  <2> DEFINE x == f[k-1]
             j == l - k
  <2>1. x \in Arrangements(l) /\ (Good => Sorts(k - 1, x))
    BY <1>8
  <2>2. j \in i..l-1 /\ j \in 1..l-1 /\ l - (k - 1) = j + 1 /\ k \in 0..m
    BY <1>4
  <2>3. f[k] = SwapOf(K, x, j)
    BY <1>2, <1>5, <2>1
  <2> HIDE DEF x, j, S
  <2>4. f[k] \in Arrangements(l)
    <3>1. SwapOf(K, x, j) \in Arrangements(l)
      BY ONLY <1>1, <2>1, <2>2, SwapKeeps
    <3> QED BY ONLY <2>3, <3>1
  <2>5. ASSUME Good PROVE Sorts(k, f[k])
    <3>1. Stable(K, l, x) /\ SettledTo(K, l, x, i) /\ LeastFrom(K, l, x, j + 1)
      BY <2>1, <2>2, <2>5
    <3> HIDE DEF Good
    <3>2. /\ Stable(K, l, f[k]) /\ SettledTo(K, l, f[k], i)
          /\ LeastFrom(K, l, f[k], j)
      <4>1. LET s == SwapOf(K, x, j)
            IN  Stable(K, l, s) /\ SettledTo(K, l, s, i) /\ LeastFrom(K, l, s, j)
        BY ONLY <1>1, <2>1, <2>2, <3>1, SwapSorts
      <4> QED BY ONLY <2>3, <4>1
    <3> QED BY <3>2 DEF j
  <2> QED BY <2>2, <2>4, <2>5 DEF S
<1>9. f[m] \in Arrangements(l) /\ (Good => Sorts(m, f[m]))
  <2>1. \A k \in 0..m : k \in S
    <3> HIDE DEF S
    <3> QED BY ONLY <1>3, <1>7, <1>8, Induct
  <2>2. m \in S
    <3> HIDE DEF S
    <3> QED BY <1>3, <2>1
  <2> QED BY <2>2
<1>10. ASSUME NEW s, s \in Arrangements(l), SettledTo(K, l, s, i), LeastFrom(K, l, s, i)
       PROVE  SettledTo(K, l, s, i + 1)
  <2> SUFFICES ASSUME NEW r \in 1..l, NEW q \in 1..l, r < i + 1, r < q
               PROVE  K[s[r]] <= K[s[q]]
    BY DEF SettledTo
  <2>1. r < i \/ (r = i /\ q \in i..l)
    BY <1>1
  <2> QED BY <1>10, <2>1 DEF SettledTo, LeastFrom
<1>11. Good => Stable(K, l, f[m]) /\ SettledTo(K, l, f[m], i + 1)
  BY <1>3, <1>9, <1>10
<1> QED BY <1>2, <1>9, <1>11 DEF l, K, m

-----------------------------------------------------------------------------
(***************************************************************************)
(* All passes: everything is settled, and the order is the one of Order.   *)
(***************************************************************************)
AsHeard(t) == [r \in 1..Len(t) |-> r]

Passes(n, t, f) ==
    f = [i \in 0..Len(t) |->
            IF i = 0 THEN [r \in 1..Len(t) |-> r]
            ELSE SortPass(n, t, f[i-1], i)]

LEMMA AsHeardArranged ==
    ASSUME NEW n \in Node, NEW t \in Seq(Node)
    PROVE  /\ AsHeard(t) \in Arrangements(Len(t))
           /\ Stable(Keys(n, t), Len(t), AsHeard(t))
           /\ SettledTo(Keys(n, t), Len(t), AsHeard(t), 1)
<1> DEFINE l == Len(t)
           o == AsHeard(t)
<1>1. l \in Nat
  BY KeysType
<1>2. o \in [1..l -> 1..l] /\ \A r \in 1..l : o[r] = r
  BY DEF AsHeard
<1> HIDE DEF o, l
<1>3. o \in Arrangements(l)
  BY <1>2 DEF Arrangements
<1>4. Stable(Keys(n, t), l, o)
  BY <1>2 DEF Stable
<1>5. SettledTo(Keys(n, t), l, o, 1)
  <2>1. \A r \in 1..l : ~ (r < 1)
    BY <1>1
  <2> QED BY <2>1 DEF SettledTo
<1> QED BY <1>3, <1>4, <1>5 DEF o, l

LEMMA PassesExist ==
    ASSUME NEW n \in Node, NEW t \in Seq(Node)
    PROVE  \E f \in [0..Len(t) -> Arrangements(Len(t))] : Passes(n, t, f)
<1> DEFINE l == Len(t)
           X == Arrangements(l)
           G == [i \in 1..l |-> [x \in X |-> SortPass(n, t, x, i)]]
<1>1. l \in Nat
  BY KeysType
<1>2. \A i \in 1..l : \A x \in X : SortPass(n, t, x, i) \in X
  BY PassSorts
<1>3. G \in [1..l -> [X -> X]]
  BY <1>2
<1>4. \A i \in 1..l : \A x \in X : G[i][x] = SortPass(n, t, x, i)
  OBVIOUS
<1>5. AsHeard(t) \in X
  BY AsHeardArranged
<1> HIDE DEF l, X, G
<1>6. PICK f \in [0..l -> X] : IsLoop(f, l, AsHeard(t), G)
  BY <1>1, <1>3, <1>5, LoopExists
<1>7. f[0] = AsHeard(t) /\ \A i \in 1..l : f[i] = SortPass(n, t, f[i-1], i)
  <2>1. \A i \in 1..l : i - 1 \in 0..l
    BY <1>1
  <2> QED BY <1>4, <1>6, <2>1 DEF IsLoop
<1>8. f = [i \in 0..l |-> IF i = 0 THEN AsHeard(t) ELSE SortPass(n, t, f[i-1], i)]
  <2>1. \A i \in 0..l : i = 0 \/ i \in 1..l
    BY <1>1
  <2> QED BY <1>6, <1>7, <2>1
<1> QED BY <1>6, <1>8 DEF Passes, AsHeard, l, X

\* What the sort leaves is in order.
LEMMA LoopSorts ==
    ASSUME NEW n \in Node, NEW t \in Seq(Node)
    PROVE  InOrder(Keys(n, t), Len(t), LoopOrder(n, t))
<1> DEFINE l == Len(t)
           K == Keys(n, t)
           f == CHOOSE g : Passes(n, t, g)
           o == LoopOrder(n, t)
<1>1. Passes(n, t, f)
  BY PassesExist
<1>2. LoopOrder(n, t) = IF Len(t) < 2 THEN f[0] ELSE f[Len(t) - 1]
  BY DEF LoopOrder, Passes
<1>3. l \in Nat /\ K \in [1..l -> Nat]
  BY KeysType
<1> HIDE DEF f
<1>4. f[0] = AsHeard(t) /\ \A i \in 1..l : f[i] = SortPass(n, t, f[i-1], i)
  <2>1. 0 \in 0..l /\ \A i \in 1..l : i \in 0..l /\ i # 0
    BY <1>3
  <2>2. f = [i \in 0..l |-> IF i = 0 THEN AsHeard(t) ELSE SortPass(n, t, f[i-1], i)]
    BY <1>1 DEF Passes, AsHeard
  <2> QED BY ONLY <2>1, <2>2
<1> DEFINE Good(i, x) == /\ x \in Arrangements(l)
                         /\ Stable(K, l, x) /\ SettledTo(K, l, x, i + 1)
           S == {i \in 0..l : Good(i, f[i])}
<1>5. 0 \in S
  <2>1. Good(0, f[0])
    BY <1>4, AsHeardArranged
  <2> QED BY <1>3, <2>1
<1>6. ASSUME NEW i \in 1..l, i - 1 \in S PROVE i \in S
  <2>1. Good(i - 1, f[i-1]) /\ (i - 1) + 1 = i /\ i \in 0..l
    BY <1>3, <1>6
  <2>2. Good(i, SortPass(n, t, f[i-1], i))
    BY <2>1, PassSorts
  <2>3. Good(i, f[i])
    BY <1>4, <2>2
  <2> QED BY <2>1, <2>3
<1>7. \A i \in 0..l : i \in S
  <2> HIDE DEF l, S
  <2> QED BY ONLY <1>3, <1>5, <1>6, Induct
<1>8. PICK i \in 0..l : o = f[i] /\ \A r, q \in 1..l : r < q => r < i + 1
  <2>1. CASE l < 2
    <3>1. 0 \in 0..l /\ \A r, q \in 1..l : r < q => r < 0 + 1
      BY <1>3, <2>1
    <3> QED BY <1>2, <2>1, <3>1
  <2>2. CASE ~ (l < 2)
    <3>1. l - 1 \in 0..l /\ \A r, q \in 1..l : r < q => r < (l - 1) + 1
      BY <1>3, <2>2
    <3> QED BY <1>2, <2>2, <3>1
  <2> QED BY <2>1, <2>2
<1>9. Good(i, o)
  BY <1>7, <1>8
<1> HIDE DEF l, K, o, S
<1>10. ASSUME NEW r \in 1..l, NEW q \in 1..l, r < q PROVE Earlier(K, o[r], o[q])
  <2>1. K[o[r]] <= K[o[q]]
    BY <1>8, <1>9, <1>10 DEF SettledTo
  <2>2. K[o[r]] = K[o[q]] => o[r] < o[q]
    BY <1>9, <1>10 DEF Stable
  <2>3. o[r] \in 1..l /\ o[q] \in 1..l
    BY <1>9 DEF Arrangements
  <2>4. K[o[r]] \in Nat /\ K[o[q]] \in Nat
    BY <1>3, <2>3
  <2>5. K[o[r]] = K[o[q]] \/ K[o[r]] < K[o[q]]
    BY ONLY <2>1, <2>4, NotEqualLess
  <2> QED BY <2>2, <2>5 DEF Earlier
<1> QED BY <1>9, <1>10 DEF InOrder, l, K, o

\* Order is such an order, and there is no other.
LEMMA OrderIsLoopOrder ==
    ASSUME NEW n \in Node, NEW t \in Seq(Node)
    PROVE  /\ Order(n, t) = LoopOrder(n, t)
           /\ Order(n, t) \in [1..Len(t) -> 1..Len(t)]
<1> DEFINE l == Len(t)
           K == Keys(n, t)
           IsOrder(o) == /\ \A r, q \in 1..l : r < q => Before(n, t, o[r], o[q])
                         /\ \A i \in 1..l : \E r \in 1..l : o[r] = i
<1>1. l \in Nat /\ K \in [1..l -> Nat] /\ \A i \in 1..l : K[i] = Angle[n][t[i]]
  BY KeysType
<1>2. \A o \in [1..l -> 1..l] : IsOrder(o) <=> InOrder(K, l, o)
  <2>1. \A i, j \in 1..l : Before(n, t, i, j) <=> Earlier(K, i, j)
    BY <1>1 DEF Before, Earlier
  <2> SUFFICES ASSUME NEW o \in [1..l -> 1..l]
               PROVE  IsOrder(o) <=> InOrder(K, l, o)
    OBVIOUS
  <2>2. \A r \in 1..l : o[r] \in 1..l
    OBVIOUS
  <2> HIDE DEF l, K
  <2>3. \A r, q \in 1..l : Before(n, t, o[r], o[q]) <=> Earlier(K, o[r], o[q])
    BY <2>1, <2>2
  <2> QED BY <2>3 DEF InOrder, Arrangements
<1>3. InOrder(K, l, LoopOrder(n, t)) /\ LoopOrder(n, t) \in [1..l -> 1..l]
  <2>1. InOrder(K, l, LoopOrder(n, t))
    BY LoopSorts
  <2> QED BY <2>1 DEF InOrder, Arrangements
<1>4. Order(n, t) = CHOOSE o \in [1..l -> 1..l] : IsOrder(o)
  BY DEF Order
<1> HIDE DEF IsOrder, K, l
<1>5. Order(n, t) \in [1..l -> 1..l] /\ IsOrder(Order(n, t))
  <2>1. \E o \in [1..l -> 1..l] : IsOrder(o)
    BY <1>2, <1>3, Zenon
  <2> QED BY ONLY <1>4, <2>1, Zenon
<1>6. InOrder(K, l, Order(n, t))
  BY <1>2, <1>5
<1>7. Order(n, t) = LoopOrder(n, t)
  BY ONLY <1>1, <1>3, <1>6, OneOrder
<1> QED BY <1>5, <1>7 DEF l

-----------------------------------------------------------------------------
(***************************************************************************)
(* What the packets of a host are cloned for: its relays are in its table. *)
(***************************************************************************)
LEMMA RelayIsHeard ==
    ASSUME NEW n \in Node, NEW t \in Seq(Node), NEW r \in Gaps(n, t)
    PROVE  /\ r \in Node \X Node
           /\ RelayOf(n, r) \in {t[i] : i \in 1..Len(t)}
           /\ RelayOf(n, r) \in Node
<1> DEFINE l == Len(t)
           count == Order(n, t)
           last == IF l > 2 THEN l ELSE l - 1
<1>1. count \in [1..l -> 1..l] /\ l \in Nat /\ \A i \in 1..l : t[i] \in Node
  BY OrderIsLoopOrder, SeqEntries
<1>2. NextPairs(n, t) =
        {<<t[count[x]], t[count[(x % l) + 1]]>> : x \in 1..last}
  BY DEF NextPairs
<1>3. PICK x \in 1..last : r = <<t[count[x]], t[count[(x % l) + 1]]>>
  BY <1>2 DEF Gaps
<1> DEFINE next == (x % l) + 1
<1> HIDE DEF l, count
<1>4. last \in Int /\ last <= l
  BY <1>1
<1>5. x \in 1..l
  BY <1>1, <1>4
<1>6. next \in 1..l
  <2>1. l \in Nat \ {0} /\ x \in Int
    BY <1>1, <1>5
  <2>2. x % l \in 0..l-1
    BY ONLY <2>1
  <2> QED BY <2>1, <2>2
<1>7. r = <<t[count[x]], t[count[next]]>>
  BY <1>3 DEF next
<1> HIDE DEF last, next
<1>8. count[x] \in 1..l /\ count[next] \in 1..l
  BY <1>1, <1>5, <1>6
<1>9. t[count[x]] \in Node /\ t[count[next]] \in Node
  BY <1>1, <1>8
<1>10. RelayOf(n, r) = t[count[x]] \/ RelayOf(n, r) = t[count[next]]
  BY <1>7 DEF RelayOf
<1> QED BY <1>7, <1>8, <1>9, <1>10 DEF l

LEMMA FirstCloneFields ==
    ASSUME NEW n \in Node, nbTable[n] \in Seq(Node),
           NEW v \in FirstClones(n, nbTable[n])
    PROVE  \E r \in Node \X Node : \E x \in Node :
             /\ x = RelayOf(n, r) /\ x \in Heard(n)
             /\ v = [start |-> starts + 1, turns |-> <<r>>, base |-> n,
                     interNode |-> x, routers |-> <<x>>]
<1>1. PICK r \in Gaps(n, nbTable[n]) :
         v = [start |-> starts + 1, turns |-> <<r>>, base |-> n,
              interNode |-> RelayOf(n, r),
              routers |-> <<RelayOf(n, r)>>]
  BY DEF FirstClones
<1>2. /\ r \in Node \X Node /\ RelayOf(n, r) \in Node
      /\ RelayOf(n, r) \in Heard(n)
  BY RelayIsHeard DEF Heard
<1> QED BY <1>1, <1>2

LEMMA NextCloneFields ==
    ASSUME NEW w \in Walk, nbTable[w.interNode] \in Seq(Node),
           NEW v \in NextClones(w)
    PROVE  \E r \in Node \X Node : \E x \in Node :
             /\ x = RelayOf(w.interNode, r)
             /\ x \in Heard(w.interNode)
             /\ v = [start |-> w.start, turns |-> Append(w.turns, r),
                     base |-> w.base, interNode |-> x,
                     routers |-> Append(w.routers, x)]
<1> DEFINE n == w.interNode
           t == nbTable[n]
<1>1. PICK r \in Gaps(n, t) :
         v = [w EXCEPT !.turns = Append(@, r), !.interNode = RelayOf(n, r),
                       !.routers = Append(w.routers, RelayOf(n, r))]
  BY DEF NextClones, LongerRouters
<1>2. n \in Node
  BY DEF Walk
<1>3. r \in Node \X Node /\ RelayOf(n, r) \in Node /\ RelayOf(n, r) \in Heard(n)
  BY <1>2, RelayIsHeard DEF Heard
<1>4. v = [start |-> w.start, turns |-> Append(w.turns, r), base |-> w.base,
           interNode |-> RelayOf(n, r),
           routers |-> Append(w.routers, RelayOf(n, r))]
  <2>1. w = [start |-> w.start, turns |-> w.turns, base |-> w.base,
             interNode |-> w.interNode, routers |-> w.routers]
    BY DEF Walk
  <2> QED BY <1>1, <2>1
<1> QED BY <1>3, <1>4

\* What a step does to the walks: tables grow, and a host starts walks, logs
\* one it holds, or relays one.
Started(n) ==
    /\ starts' = starts + 1
    /\ \A v \in walks' : v \in walks \/ v \in FirstClones(n, nbTable[n])
    /\ logged' = logged

Relayed(w) ==
    /\ ~ Recognised(w)
    /\ \A v \in walks' : (v \in walks /\ v # w) \/ v \in NextClones(w)
    /\ UNCHANGED <<starts, logged, nbTable>>

LogStep(w) ==
    /\ Recognised(w)
    /\ walks' = walks \ {w}
    /\ logged' = logged \cup {w}
    /\ UNCHANGED <<starts, nbTable>>

LEMMA StepEffect ==
    ASSUME NbTypeOK, [Next]_vars
    PROVE  /\ \A n \in Node : Heard(n) \subseteq Heard(n)'
           /\ \/ UNCHANGED holeVars
              \/ \E n \in Node : Started(n)
              \/ \E w \in walks : LogStep(w)
              \/ \E w \in walks : Relayed(w)
<1>1. CASE UNCHANGED vars
  BY <1>1 DEF vars, nbVars, Heard
<1>2. ASSUME NEW n \in Node, HandleSelfMsg(n), UNCHANGED holeVars
      PROVE  UNCHANGED holeVars /\ UNCHANGED nbTable
  BY <1>2 DEF HandleSelfMsg
<1>3. ASSUME NEW n \in Node, NEW m \in Node, HandleBeacon(n, m)
      PROVE  /\ \A k \in Node : Heard(k) \subseteq Heard(k)'
             /\ UNCHANGED holeVars \/ Started(n)
  <2>1. \A k \in Node : Heard(k) \subseteq Heard(k)'
    BY <1>3, HeardGrows DEF HandleBeacon
  <2>2. StartWalks(n, nbTable[n]) /\ logged' = logged
    BY <1>3 DEF HandleBeacon
  <2>3. CASE UNCHANGED <<walks, starts>>
    BY <2>1, <2>2, <2>3 DEF holeVars
  <2>4. CASE ~ UNCHANGED <<walks, starts>>
    <3>1. PICK sent \in Transmitted(n, FirstClones(n, nbTable[n])) :
             walks' = walks \cup sent
      BY <2>2, <2>4 DEF StartWalks
    <3>2. sent \subseteq FirstClones(n, nbTable[n])
      BY <3>1 DEF Transmitted
    <3>3. starts' = starts + 1
      BY <2>2, <2>4 DEF StartWalks
    <3> QED BY <2>1, <2>2, <3>1, <3>2, <3>3 DEF Started
  <2> QED BY <2>3, <2>4
<1>4. ASSUME NEW w \in walks, LogBoundary(w), UNCHANGED nbVars
      PROVE  LogStep(w)
  BY <1>4 DEF LogBoundary, LogStep, Handled, nbVars
<1>5. ASSUME NEW w \in walks, RelayWalk(w), UNCHANGED nbVars
      PROVE  Relayed(w)
  <2>1. PICK sent \in Transmitted(w.interNode, NextClones(w)) :
           walks' = (walks \ {w}) \cup sent
    BY <1>5 DEF RelayWalk, Handled
  <2>2. sent \subseteq NextClones(w)
    BY <2>1 DEF Transmitted
  <2> QED BY <1>5, <2>1, <2>2 DEF RelayWalk, Relayed, nbVars
<1>6. UNCHANGED nbTable => \A n \in Node : Heard(n) \subseteq Heard(n)'
  BY DEF Heard
<1>7. \A w : LogStep(w) \/ Relayed(w) => UNCHANGED nbTable
  BY DEF LogStep, Relayed
<1> QED BY <1>1, <1>2, <1>3, <1>4, <1>5, <1>6, <1>7 DEF Next

-----------------------------------------------------------------------------
(***************************************************************************)
(* Walks.  What RoutersAreWalk says, router by router; a packet has passed *)
(* one host at least when it is on its way.                                *)
(***************************************************************************)
Typed(w) ==
    /\ w \in Walk /\ w.start \in 1..starts
    /\ Len(w.routers) = Len(w.turns) /\ Len(w.turns) >= 1
    /\ w.interNode = w.routers[Len(w.routers)]

OverTables(w) ==
    /\ w.routers[1] \in Heard(w.base)
    /\ \A i \in 1..Len(w.routers) - 1 : w.routers[i+1] \in Heard(w.routers[i])

Held == walks \cup logged

WalkInv == /\ starts \in Nat
           /\ \A w \in Held : Typed(w) /\ OverTables(w)

LEMMA WalkFields ==
    ASSUME NEW w \in Walk
    PROVE  /\ w.start \in Nat /\ w.turns \in Seq(Node \X Node) /\ w.base \in Node
           /\ w.interNode \in Node /\ w.routers \in Seq(Node)
           /\ Len(w.turns) \in Nat /\ Len(w.routers) \in Nat
           /\ \A i \in 1..Len(w.routers) : w.routers[i] \in Node
<1>1. /\ w.start \in Nat /\ w.turns \in Seq(Node \X Node) /\ w.base \in Node
      /\ w.interNode \in Node /\ w.routers \in Seq(Node)
  BY DEF Walk
<1> QED BY <1>1, SeqEntries

\* Tables that grow keep a walk, and no start is forgotten.
LEMMA WalkKept ==
    ASSUME NEW w \in Walk, Typed(w), OverTables(w), starts \in Nat,
           starts' = starts \/ starts' = starts + 1,
           \A n \in Node : Heard(n) \subseteq Heard(n)'
    PROVE  Typed(w)' /\ OverTables(w)'
<1>1. Typed(w)'
  BY DEF Typed
<1>2. OverTables(w)'
  <2>1. /\ w.base \in Node /\ Len(w.routers) \in Nat
        /\ \A i \in 1..Len(w.routers) : w.routers[i] \in Node
    BY WalkFields
  <2>2. \A i \in 1..Len(w.routers) - 1 : i \in 1..Len(w.routers)
    BY <2>1
  <2> QED BY <2>1, <2>2 DEF OverTables
<1> QED BY <1>1, <1>2

LEMMA FirstWalk ==
    ASSUME NEW n \in Node, NEW r \in Node \X Node, NEW x \in Node, x \in Heard(n)',
           starts \in Nat, starts' = starts + 1, NEW v,
           v = [start |-> starts + 1, turns |-> <<r>>, base |-> n,
                interNode |-> x, routers |-> <<x>>]
    PROVE  Typed(v)' /\ OverTables(v)'
<1>1. /\ <<r>> \in Seq(Node \X Node) /\ <<x>> \in Seq(Node)
      /\ Len(<<r>>) = 1 /\ Len(<<x>>) = 1 /\ <<x>>[1] = x
  OBVIOUS
<1>2. /\ v \in Walk /\ v.start = starts + 1 /\ v.turns = <<r>> /\ v.base = n
      /\ v.interNode = x /\ v.routers = <<x>>
  BY <1>1 DEF Walk
<1>3. Typed(v)'
  BY <1>1, <1>2 DEF Typed
<1>4. \A i \in 1..Len(v.routers) - 1 : FALSE
  BY <1>1, <1>2
<1>5. v.routers[1] = x
  BY <1>2
<1>6. OverTables(v)'
  BY <1>2, <1>4, <1>5 DEF OverTables
<1> QED BY <1>3, <1>6

LEMMA NextWalk ==
    ASSUME NEW w \in Walk, Typed(w), OverTables(w), NEW r \in Node \X Node, NEW x \in Node,
           x \in Heard(w.interNode), UNCHANGED <<starts, nbTable>>, NEW v,
           v = [start |-> w.start, turns |-> Append(w.turns, r), base |-> w.base,
                interNode |-> x, routers |-> Append(w.routers, x)]
    PROVE  Typed(v)' /\ OverTables(v)'
<1> DEFINE l == Len(w.routers)
           u == Append(w.routers, x)
           s == Append(w.turns, r)
<1>1. /\ w.start \in Nat /\ w.turns \in Seq(Node \X Node) /\ w.base \in Node
      /\ w.routers \in Seq(Node) /\ l \in Nat
  BY WalkFields
<1>2. /\ s \in Seq(Node \X Node) /\ Len(s) = Len(w.turns) + 1 /\ Len(w.turns) \in Nat
  BY <1>1
<1>3. /\ u \in Seq(Node) /\ Len(u) = l + 1 /\ u[l + 1] = x
      /\ \A i \in 1..l : u[i] = w.routers[i]
  <2>1. u \in Seq(Node)
    BY <1>1
  <2> QED BY <1>1, <2>1, AppendEntries
<1> HIDE DEF u, s
<1>4. /\ v \in Walk /\ v.start = w.start /\ v.turns = s /\ v.base = w.base
      /\ v.interNode = x /\ v.routers = u
  BY <1>1, <1>2, <1>3 DEF Walk, u, s
<1>5. /\ w.start \in 1..starts /\ l = Len(w.turns) /\ l >= 1
      /\ w.interNode = w.routers[l]
  BY DEF Typed
<1> HIDE DEF l
<1>6. Typed(v)'
  <2>1. Len(u) = Len(s) /\ Len(s) >= 1 /\ u[Len(u)] = x
    BY <1>1, <1>2, <1>3, <1>5
  <2> QED BY <1>4, <1>5, <2>1 DEF Typed
<1>7. u[1] \in Heard(w.base)
  <2>1. 1 \in 1..l
    BY <1>1, <1>5
  <2> QED BY <1>3, <2>1 DEF OverTables
<1>8. ASSUME NEW i \in 1..Len(u) - 1 PROVE u[i+1] \in Heard(u[i])
  <2>1. i \in 1..l /\ (i = l \/ (i \in 1..l-1 /\ i + 1 \in 1..l))
    BY <1>1, <1>3
  <2>2. CASE i = l
    BY <1>3, <1>5, <2>1, <2>2
  <2>3. CASE i \in 1..l-1 /\ i + 1 \in 1..l
    <3>1. w.routers[i+1] \in Heard(w.routers[i])
      BY <2>3 DEF OverTables, l
    <3> QED BY <1>3, <2>1, <2>3, <3>1
  <2> QED BY <2>1, <2>2, <2>3
<1>9. OverTables(v)'
  <2>1. \A n : Heard(n)' = Heard(n)
    BY DEF Heard
  <2> QED BY <1>4, <1>7, <1>8, <2>1 DEF OverTables
<1> QED BY <1>6, <1>9

LEMMA WalkInit == Init => WalkInv
BY DEF Init, WalkInv, Held

LEMMA WalkStep == NbTypeOK /\ WalkInv /\ [Next]_vars => WalkInv'
<1> SUFFICES ASSUME NbTypeOK, WalkInv, [Next]_vars PROVE WalkInv'
  OBVIOUS
<1>1. starts \in Nat /\ \A w \in Held : w \in Walk /\ Typed(w) /\ OverTables(w)
  BY DEF WalkInv, Typed
<1>2. \A n \in Node : Heard(n) \subseteq Heard(n)'
  BY StepEffect
<1>3. ASSUME starts' = starts \/ starts' = starts + 1
      PROVE  starts' \in Nat /\ \A w \in Held : Typed(w)' /\ OverTables(w)'
  BY <1>1, <1>2, <1>3, WalkKept
<1>4. nbTable \in [Node -> Seq(Node)]
  BY DEF NbTypeOK
<1>5. CASE UNCHANGED holeVars
  BY <1>3, <1>5 DEF holeVars, WalkInv, Held
<1>6. ASSUME NEW n \in Node, Started(n) PROVE WalkInv'
  <2>1. /\ starts' = starts + 1 /\ logged' = logged
        /\ \A v \in walks' : v \in walks \/ v \in FirstClones(n, nbTable[n])
    BY <1>6 DEF Started
  <2>2. ASSUME NEW v \in FirstClones(n, nbTable[n])
        PROVE  Typed(v)' /\ OverTables(v)'
    <3>1. nbTable[n] \in Seq(Node)
      BY <1>4
    <3>2. PICK r \in Node \X Node, x \in Node :
             /\ x = RelayOf(n, r) /\ x \in Heard(n)
             /\ v = [start |-> starts + 1, turns |-> <<r>>, base |-> n,
                     interNode |-> x, routers |-> <<x>>]
      BY <2>2, <3>1, FirstCloneFields
    <3>3. x \in Heard(n)'
      BY <1>2, <3>2
    <3> QED BY <1>1, <2>1, <3>2, <3>3, FirstWalk
  <2> QED BY <1>3, <2>1, <2>2 DEF WalkInv, Held
<1>7. ASSUME NEW w \in walks, LogStep(w) PROVE WalkInv'
  <2>1. starts' = starts /\ Held' = Held
    BY <1>7 DEF LogStep, Held
  <2> QED BY <1>3, <2>1 DEF WalkInv
<1>8. ASSUME NEW w \in walks, Relayed(w) PROVE WalkInv'
  <2>1. /\ UNCHANGED <<starts, logged, nbTable>>
        /\ \A v \in walks' : v \in walks \/ v \in NextClones(w)
    BY <1>8 DEF Relayed
  <2>2. w \in Walk /\ Typed(w) /\ OverTables(w) /\ nbTable[w.interNode] \in Seq(Node)
    <3>1. w \in Walk /\ Typed(w) /\ OverTables(w)
      BY <1>1 DEF Held
    <3> QED BY <1>4, <3>1, WalkFields
  <2>3. ASSUME NEW v \in NextClones(w) PROVE Typed(v)' /\ OverTables(v)'
    <3>1. PICK r \in Node \X Node, x \in Node :
             /\ x = RelayOf(w.interNode, r)
             /\ x \in Heard(w.interNode)
             /\ v = [start |-> w.start, turns |-> Append(w.turns, r),
                     base |-> w.base, interNode |-> x,
                     routers |-> Append(w.routers, x)]
      BY <2>2, <2>3, NextCloneFields
    <3> QED BY <2>1, <2>2, <3>1, NextWalk
  <2> QED BY <1>3, <2>1, <2>3 DEF WalkInv, Held
<1> QED BY <1>5, <1>6, <1>7, <1>8, StepEffect

-----------------------------------------------------------------------------
\* The tables under the walks are those of GeoNeighbors.
LEMMA TypeStep == NbTypeInv /\ [Next]_vars => NbTypeInv'
<1> SUFFICES ASSUME NbTypeInv, [Next]_vars PROVE NbTypeInv'
  OBVIOUS
<1>1. CASE UNCHANGED nbVars
  BY <1>1, NbTypeStutter
<1>2. ASSUME NEW n \in Node, HandleSelfMsg(n) PROVE NbTypeInv'
  BY <1>2, NbTypeSend
<1>3. ASSUME NEW n \in Node, NEW m \in Node, HandleNbBroadcast(n, m)
      PROVE  NbTypeInv'
  BY <1>3, NbTypeHear
<1> QED BY <1>1, <1>2, <1>3 DEF Next, vars, HandleBeacon

LEMMA Tables == Spec => []NbTypeOK
<1>1. Init => NbTypeInv
  BY NbTypeInit DEF Init
<1>2. NbTypeInv => NbTypeOK
  BY DEF NbTypeInv
<1> QED BY <1>1, <1>2, TypeStep, PTL DEF Spec

(***************************************************************************)
(* The order in which a host looks for gaps is the one its sort leaves     *)
(* (the two loops of findBaseNode), whatever its table and the angles.     *)
(***************************************************************************)
THEOREM OrderIsSorted == Spec => []OrderIsLoop
<1>1. NbTypeOK => OrderIsLoop
  BY OrderIsLoopOrder DEF NbTypeOK, OrderIsLoop
<1> QED BY <1>1, Tables, PTL

LEMMA WalkInvariant == Spec => []WalkInv
<1> QED BY WalkInit, WalkStep, Tables, PTL DEF Spec

LEMMA WalkMeans == WalkInv => RoutersAreWalk
<1> SUFFICES ASSUME WalkInv, NEW w \in walks \cup logged
             PROVE  LET hops == <<w.base>> \o w.routers
                    IN  /\ w \in Walk /\ w.start \in 1..starts
                        /\ Len(w.routers) = Len(w.turns)
                        /\ w.interNode = hops[Len(hops)]
                        /\ \A i \in 1..Len(hops) - 1 :
                              hops[i+1] \in Heard(hops[i])
  BY DEF RoutersAreWalk
<1> DEFINE l == Len(w.routers)
           hops == <<w.base>> \o w.routers
<1>1. w \in Walk /\ Typed(w) /\ OverTables(w)
  BY DEF WalkInv, Held, Typed
<1>2. w.base \in Node /\ w.routers \in Seq(Node) /\ l \in Nat
  BY <1>1, WalkFields
<1>3. /\ Len(hops) = l + 1 /\ hops[1] = w.base
      /\ \A i \in 1..l : hops[i+1] = w.routers[i]
  BY <1>2
<1>4. /\ w.start \in 1..starts /\ l = Len(w.turns) /\ l >= 1
      /\ w.interNode = w.routers[l]
  BY <1>1 DEF Typed
<1> HIDE DEF hops, l
<1>5. w.interNode = hops[Len(hops)]
  <2>1. l \in 1..l
    BY <1>2, <1>4
  <2> QED BY <1>3, <1>4, <2>1
<1>6. ASSUME NEW i \in 1..l PROVE hops[i+1] \in Heard(hops[i])
  <2>1. CASE i = 1
    BY <1>1, <1>3, <2>1 DEF OverTables
  <2>2. CASE i # 1
    <3>1. i - 1 \in 1..l-1 /\ i - 1 \in 1..l /\ (i - 1) + 1 = i
      BY <1>2, <2>2
    <3>2. w.routers[(i-1)+1] \in Heard(w.routers[i-1])
      BY <1>1, <3>1 DEF OverTables, l
    <3>3. hops[(i-1)+1] = w.routers[i-1]
      BY <1>3, <3>1
    <3> QED BY <1>3, <3>1, <3>2, <3>3
  <2> QED BY <2>1, <2>2
<1>7. Len(hops) - 1 = l
  BY <1>2, <1>3
<1> QED BY <1>1, <1>4, <1>5, <1>6, <1>7 DEF hops, l

(***************************************************************************)
(* The routers a GreedyPlusPkt carries are a walk over tables from its     *)
(* base to the host it is on its way to (findBaseNode, handleLowerMsg),    *)
(* however tables grow and whatever is lost while it walks.                *)
(***************************************************************************)
THEOREM Walks == Spec => []RoutersAreWalk
<1> QED BY WalkInvariant, WalkMeans, PTL

-----------------------------------------------------------------------------
(***************************************************************************)
(* A packet on its way has not passed its base since it had more than      *)
(* RouterLimit routers: its base would have recognised it there.           *)
(***************************************************************************)
LEMMA InTimeInit == Init => RecognisedInTime
BY DEF Init, RecognisedInTime

LEMMA InTimeStep ==
    NbTypeOK /\ WalkInv /\ RecognisedInTime /\ [Next]_vars => RecognisedInTime'
<1> SUFFICES ASSUME NbTypeOK, WalkInv, RecognisedInTime, [Next]_vars
             PROVE  RecognisedInTime'
  OBVIOUS
<1> DEFINE NotPassed(w) == \A i \in RouterLimit + 1..Len(w.routers) - 1 :
                              w.routers[i] # w.base
           AtBase(w) == w.routers[Len(w.routers)] = w.base
<1>1. (\A w \in Held : NotPassed(w)) /\ (\A w \in logged : AtBase(w))
  BY DEF RecognisedInTime, Held
<1>2. SUFFICES (\A w \in Held' : NotPassed(w)) /\ (\A w \in logged' : AtBase(w))
  BY DEF RecognisedInTime, Held
<1>3. nbTable \in [Node -> Seq(Node)]
  BY DEF NbTypeOK
<1>4. CASE UNCHANGED holeVars
  BY <1>1, <1>4 DEF holeVars, Held
<1>5. ASSUME NEW n \in Node, Started(n)
      PROVE  (\A w \in Held' : NotPassed(w)) /\ (\A w \in logged' : AtBase(w))
  <2>1. ASSUME NEW v \in FirstClones(n, nbTable[n]) PROVE NotPassed(v)
    <3>1. nbTable[n] \in Seq(Node)
      BY <1>3
    <3>2. PICK r \in Node \X Node, x \in Node :
             /\ x = RelayOf(n, r) /\ x \in Heard(n)
             /\ v = [start |-> starts + 1, turns |-> <<r>>, base |-> n,
                     interNode |-> x, routers |-> <<x>>]
      BY <2>1, <3>1, FirstCloneFields
    <3>3. Len(v.routers) = 1
      BY <3>2
    <3>4. \A i \in RouterLimit + 1..1 - 1 : FALSE
      OBVIOUS
    <3> QED BY <3>3, <3>4
  <2> QED BY <1>1, <1>5, <2>1 DEF Started, Held
<1>6. ASSUME NEW w \in walks, LogStep(w)
      PROVE  (\A v \in Held' : NotPassed(v)) /\ (\A v \in logged' : AtBase(v))
  <2>1. Held' = Held
    BY <1>6 DEF LogStep, Held
  <2>2. AtBase(w)
    BY <1>6 DEF LogStep, Recognised, WalkInv, Held, Typed
  <2> QED BY <1>1, <1>6, <2>1, <2>2 DEF LogStep
<1>7. ASSUME NEW w \in walks, Relayed(w)
      PROVE  (\A v \in Held' : NotPassed(v)) /\ (\A v \in logged' : AtBase(v))
  <2>1. w \in Walk /\ Typed(w) /\ NotPassed(w) /\ w.base \in Node
    <3>1. w \in Walk /\ Typed(w) /\ NotPassed(w)
      BY <1>1 DEF WalkInv, Held, Typed
    <3> QED BY <3>1, WalkFields
  <2> DEFINE l == Len(w.routers)
  <2>2. /\ w.routers \in Seq(Node) /\ l \in Nat
        /\ w.interNode = w.routers[l]
    BY <2>1, WalkFields DEF Typed
  <2>3. w.interNode # w.base \/ ~ (l > RouterLimit)
    BY <1>7 DEF Relayed, Recognised
  <2>4. ASSUME NEW v \in NextClones(w) PROVE NotPassed(v)
    <3>1. nbTable[w.interNode] \in Seq(Node)
      BY <1>3, <2>1, WalkFields
    <3>2. PICK r \in Node \X Node, x \in Node :
             /\ x = RelayOf(w.interNode, r)
             /\ x \in Heard(w.interNode)
             /\ v = [start |-> w.start, turns |-> Append(w.turns, r),
                     base |-> w.base, interNode |-> x,
                     routers |-> Append(w.routers, x)]
      BY <2>1, <2>4, <3>1, NextCloneFields
    <3>3. /\ v.base = w.base /\ Len(v.routers) = l + 1
          /\ \A i \in 1..l : v.routers[i] = w.routers[i]
      BY <2>2, <3>2, AppendEntries
    <3> HIDE DEF l
    <3>4. ASSUME NEW i \in RouterLimit + 1..(l + 1) - 1
          PROVE  v.routers[i] # v.base
      <4>1. i \in 1..l /\ (i = l \/ i \in RouterLimit + 1..l - 1)
        BY <2>2
      <4>2. CASE i = l
        <5>1. l > RouterLimit
          BY <2>2, <4>2
        <5> QED BY <2>2, <2>3, <3>3, <4>1, <4>2, <5>1
      <4>3. CASE i \in RouterLimit + 1..l - 1
        BY <2>1, <3>3, <4>1, <4>3 DEF l
      <4> QED BY <4>1, <4>2, <4>3
    <3> QED BY <3>3, <3>4
  <2> QED BY <1>1, <1>7, <2>4 DEF Relayed, Held
<1> QED BY <1>4, <1>5, <1>6, <1>7, StepEffect

(***************************************************************************)
(* A boundary is recognised the first time its base holds the packet with  *)
(* more than RouterLimit routers in it (handleLowerMsg).                   *)
(***************************************************************************)
THEOREM InTime == Spec => []RecognisedInTime
<1> QED BY InTimeInit, InTimeStep, Tables, WalkInvariant, PTL DEF Spec

-----------------------------------------------------------------------------
(***************************************************************************)
(* Cloning.  turns is the path of a packet in the tree of the clones of a  *)
(* start; what is on its way or logged are leaves of it.                   *)
(***************************************************************************)
LEMMA SeqsEqual ==
    ASSUME NEW S, NEW s \in Seq(S), NEW u \in Seq(S), Len(s) = Len(u),
           \A i \in 1..Len(s) : s[i] = u[i]
    PROVE  s = u
OBVIOUS

LEMMA AncestorMeans ==
    ASSUME NEW v \in Walk, NEW w \in Walk
    PROVE  Ancestor(v, w) <=>
             /\ v.start = w.start
             /\ Len(v.turns) <= Len(w.turns)
             /\ \A i \in 1..Len(v.turns) : v.turns[i] = w.turns[i]
<1> DEFINE s == v.turns
           u == w.turns
<1>1. s \in Seq(Node \X Node) /\ u \in Seq(Node \X Node)
  BY WalkFields
<1>2. Ancestor(v, w) <=> /\ v.start = w.start /\ Len(s) <= Len(u)
                         /\ s = SubSeq(u, 1, Len(s))
  BY DEF Ancestor
<1> HIDE DEF s, u
<1>3. ASSUME Len(s) <= Len(u)
      PROVE  s = SubSeq(u, 1, Len(s)) <=> \A i \in 1..Len(s) : s[i] = u[i]
  <2> DEFINE b == SubSeq(u, 1, Len(s))
  <2>1. b \in Seq(Node \X Node) /\ Len(b) = Len(s) /\ \A i \in 1..Len(s) : b[i] = u[i]
    BY <1>1, <1>3
  <2> HIDE DEF b
  <2>2. (\A i \in 1..Len(s) : s[i] = b[i]) => s = b
    BY ONLY <1>1, <2>1, SeqsEqual
  <2>3. s = b => \A i \in 1..Len(s) : s[i] = u[i]
    BY <2>1
  <2> QED BY <2>2, <2>3 DEF b
<1> QED BY <1>2, <1>3 DEF s, u

\* A clone and the packet it was made from have the same ancestors before it,
\* and what a clone is an ancestor of, that packet is too.
LEMMA CloneAncestors ==
    ASSUME NEW w \in Walk, NEW c \in Walk, NEW r \in Node \X Node, c.start = w.start,
           c.turns = Append(w.turns, r)
    PROVE  /\ Len(c.turns) = Len(w.turns) + 1 /\ Ancestor(w, c)
           /\ \A v \in Walk : Ancestor(v, c) =>
                Ancestor(v, w) \/ (v.start = c.start /\ v.turns = c.turns)
           /\ \A v \in Walk : Ancestor(c, v) =>
                Ancestor(w, v) /\ Len(v.turns) >= Len(w.turns) + 1
<1> DEFINE s == w.turns
           u == c.turns
           l == Len(s)
<1>1. s \in Seq(Node \X Node) /\ u \in Seq(Node \X Node) /\ l \in Nat
  BY WalkFields
<1>2. Len(u) = l + 1 /\ \A i \in 1..l : u[i] = s[i]
  BY <1>1
<1>3. Ancestor(w, c)
  <2>1. l <= Len(u)
    <3> HIDE DEF l, u
    <3> QED BY ONLY <1>1, <1>2
  <2> QED BY <1>2, <2>1, AncestorMeans
<1>4. ASSUME NEW v \in Walk, Ancestor(v, c)
      PROVE  Ancestor(v, w) \/ (v.start = c.start /\ v.turns = c.turns)
  <2> DEFINE x == v.turns
  <2>1. x \in Seq(Node \X Node) /\ Len(x) \in Nat
    BY WalkFields
  <2>2. /\ v.start = c.start /\ Len(x) <= Len(u)
        /\ \A i \in 1..Len(x) : x[i] = u[i]
    BY <1>4, AncestorMeans
  <2> HIDE DEF x, u, s, l
  <2>3. CASE Len(x) = l + 1
    <3>1. x = u
      BY <1>1, <1>2, <2>1, <2>2, <2>3
    <3> QED BY <2>2, <3>1 DEF x, u
  <2>4. CASE Len(x) # l + 1
    <3>1. Len(x) <= l
      BY <1>1, <1>2, <2>1, <2>2, <2>4
    <3>2. \A i \in 1..Len(x) : i \in 1..l
      BY <1>1, <2>1, <3>1
    <3>3. \A i \in 1..Len(x) : x[i] = s[i]
      BY <1>2, <2>2, <3>2
    <3> QED BY <2>2, <3>1, <3>3, AncestorMeans DEF x, s, l
  <2> QED BY <2>3, <2>4
<1>5. ASSUME NEW v \in Walk, Ancestor(c, v)
      PROVE  Ancestor(w, v) /\ Len(v.turns) >= l + 1
  <2> DEFINE x == v.turns
  <2>1. x \in Seq(Node \X Node) /\ Len(x) \in Nat
    BY WalkFields
  <2>2. /\ v.start = c.start /\ Len(u) <= Len(x)
        /\ \A i \in 1..Len(u) : u[i] = x[i]
    BY <1>5, AncestorMeans
  <2> HIDE DEF x, u, s, l
  <2>3. Len(x) >= l + 1 /\ l <= Len(x) /\ \A i \in 1..l : i \in 1..Len(u)
    BY <1>1, <1>2, <2>1, <2>2
  <2>4. \A i \in 1..l : s[i] = x[i]
    BY <1>2, <2>2, <2>3
  <2> QED BY <2>2, <2>3, <2>4, AncestorMeans DEF x, s, l
<1> QED BY <1>2, <1>3, <1>4, <1>5

\* The clone for pair r: nothing else tells the clones of a sender apart.
FirstClone(n, r) ==
    LET x == RelayOf(n, r)
    IN  [start |-> starts + 1, turns |-> <<r>>, base |-> n, interNode |-> x,
         routers |-> <<x>>]

NextClone(w, r) ==
    LET x == RelayOf(w.interNode, r)
    IN  [start |-> w.start, turns |-> Append(w.turns, r), base |-> w.base,
         interNode |-> x, routers |-> Append(w.routers, x)]

LEMMA NoRepeatsInit == Init => NoRepeats
BY DEF Init, NoRepeats

\* The clones of a start are of a start that was not there, one for each gap.
LEMMA NoRepeatsStart ==
    ASSUME NbTypeOK, WalkInv, WalkInv', NoRepeats, NEW n \in Node, Started(n)
    PROVE  NoRepeats'
<1> DEFINE New(v) == v \in FirstClones(n, nbTable[n])
<1>1. /\ \A v \in walks' : v \in walks \/ New(v)
      /\ logged' = logged
  BY DEF Started
<1>2. /\ starts \in Nat
      /\ \A v \in Held : v \in Walk /\ v.start \in 1..starts
      /\ \A v \in Held' : v \in Walk
  BY DEF WalkInv, Typed
<1>3. ASSUME NEW v, New(v)
      PROVE  /\ v.start = starts + 1 /\ v \notin Held
             /\ \E r \in Node \X Node : v.turns = <<r>> /\ v = FirstClone(n, r)
  <2>1. nbTable[n] \in Seq(Node)
    BY DEF NbTypeOK
  <2>2. PICK r \in Node \X Node, x \in Node :
           /\ x = RelayOf(n, r) /\ x \in Heard(n)
           /\ v = [start |-> starts + 1, turns |-> <<r>>, base |-> n,
                   interNode |-> x, routers |-> <<x>>]
    BY <1>3, <2>1, FirstCloneFields
  <2>3. v.start = starts + 1 /\ v.turns = <<r>>
    BY <2>2
  <2>4. v \notin Held
    BY <1>2, <2>3
  <2>5. v = FirstClone(n, r)
    BY <2>2 DEF FirstClone
  <2> QED BY <2>3, <2>4, <2>5
<1> HIDE DEF New
<1>4. ASSUME NEW v \in Held', NEW w \in Held', Ancestor(v, w) PROVE v = w
  <2>1. v \in Walk /\ w \in Walk /\ v.start = w.start
    BY <1>2, <1>4 DEF Ancestor
  <2>2. (v \in Held \/ New(v)) /\ (w \in Held \/ New(w))
    BY <1>1 DEF Held
  <2>3. CASE v \in Held /\ w \in Held
    BY <1>4, <2>3 DEF NoRepeats, Held
  <2>4. CASE (v \in Held /\ New(w)) \/ (New(v) /\ w \in Held)
    <3>1. \A i \in 1..starts : i # starts + 1
      BY <1>2
    <3> QED BY <1>2, <1>3, <2>1, <2>4, <3>1
  <2>5. CASE New(v) /\ New(w)
    <3>1. PICK r \in Node \X Node : v.turns = <<r>> /\ v = FirstClone(n, r)
      BY <1>3, <2>5
    <3>2. PICK q \in Node \X Node : w.turns = <<q>> /\ w = FirstClone(n, q)
      BY <1>3, <2>5
    <3>3. \A i \in 1..Len(v.turns) : v.turns[i] = w.turns[i]
      BY <1>4, <2>1, AncestorMeans
    <3>4. r = q
      <4>1. 1 \in 1..Len(v.turns) /\ v.turns[1] = r /\ w.turns[1] = q
        BY <3>1, <3>2
      <4> QED BY <3>3, <4>1
    <3> QED BY <3>1, <3>2, <3>4
  <2> QED BY <2>2, <2>3, <2>4, <2>5
<1>5. walks' \cap logged' = {}
  BY <1>1, <1>3 DEF NoRepeats, Held
<1> QED BY <1>4, <1>5 DEF NoRepeats, Held

\* The clones a relay sends take the place of the packet it holds.
LEMMA NoRepeatsRelay ==
    ASSUME NbTypeOK, WalkInv, WalkInv', NoRepeats, NEW w \in walks, Relayed(w)
    PROVE  NoRepeats'
<1> DEFINE New(v) == v \in NextClones(w)
<1>1. /\ \A v \in walks' : (v \in walks /\ v # w) \/ New(v)
      /\ logged' = logged /\ w \notin logged
  BY DEF Relayed, NoRepeats
<1>2. /\ \A v \in Held : v \in Walk
      /\ \A v \in Held' : v \in Walk
      /\ w \in Held
  BY DEF WalkInv, Typed, Held
<1>3. \A v, x \in Held : Ancestor(v, x) => v = x
  BY DEF NoRepeats, Held
<1>4. w \in Walk /\ Len(w.turns) \in Nat
  BY <1>2, WalkFields
<1>5. ASSUME NEW c, New(c), c \in Walk
      PROVE  /\ \E r \in Node \X Node : c.turns = Append(w.turns, r) /\ c = NextClone(w, r)
             /\ Len(c.turns) = Len(w.turns) + 1 /\ Ancestor(w, c)
             /\ \A v \in Walk : Ancestor(v, c) =>
                  Ancestor(v, w) \/ (v.start = c.start /\ v.turns = c.turns)
             /\ \A v \in Walk : Ancestor(c, v) =>
                  Ancestor(w, v) /\ Len(v.turns) >= Len(w.turns) + 1
  <2>1. nbTable[w.interNode] \in Seq(Node)
    BY <1>4, WalkFields DEF NbTypeOK
  <2>2. PICK r \in Node \X Node, x \in Node :
           /\ x = RelayOf(w.interNode, r)
           /\ x \in Heard(w.interNode)
           /\ c = [start |-> w.start, turns |-> Append(w.turns, r),
                   base |-> w.base, interNode |-> x,
                   routers |-> Append(w.routers, x)]
    BY <1>4, <1>5, <2>1, NextCloneFields
  <2>3. c.start = w.start /\ c.turns = Append(w.turns, r)
    BY <2>2
  <2>4. /\ Len(c.turns) = Len(w.turns) + 1 /\ Ancestor(w, c)
        /\ \A v \in Walk : Ancestor(v, c) =>
             Ancestor(v, w) \/ (v.start = c.start /\ v.turns = c.turns)
        /\ \A v \in Walk : Ancestor(c, v) =>
             Ancestor(w, v) /\ Len(v.turns) >= Len(w.turns) + 1
    BY ONLY <1>4, <1>5, <2>3, CloneAncestors
  <2>5. c = NextClone(w, r)
    BY <2>2 DEF NextClone
  <2> QED BY <2>3, <2>4, <2>5
<1> HIDE DEF New
<1>6. \A c \in Walk : New(c) => c \notin Held
  <2> SUFFICES ASSUME NEW c \in Walk, New(c), c \in Held PROVE FALSE
    OBVIOUS
  <2>1. Ancestor(w, c) /\ Len(c.turns) = Len(w.turns) + 1
    BY <1>5
  <2>2. w = c
    BY <1>2, <1>3, <2>1
  <2> QED BY <1>4, <2>1, <2>2
<1>7. ASSUME NEW v \in Held', NEW x \in Held', Ancestor(v, x) PROVE v = x
  <2>1. v \in Walk /\ x \in Walk
    BY <1>2
  <2>2. /\ (v \in Held /\ v # w) \/ New(v)
        /\ (x \in Held /\ x # w) \/ New(x)
    BY <1>1 DEF Held
  <2>3. CASE v \in Held /\ x \in Held
    BY <1>3, <1>7, <2>3
  <2>4. CASE v \in Held /\ v # w /\ New(x)
    <3>1. Ancestor(v, w) \/ (v.start = x.start /\ v.turns = x.turns)
      BY <1>5, <1>7, <2>1, <2>4
    <3>2. ~ Ancestor(v, w)
      BY <1>2, <1>3, <2>4
    <3>3. Ancestor(w, x) /\ Ancestor(w, x) = Ancestor(w, v)
      BY <1>5, <2>1, <2>4, <3>1, <3>2 DEF Ancestor
    <3>4. w = v
      BY <1>2, <1>3, <2>4, <3>3
    <3> QED BY <2>4, <3>4
  <2>5. CASE New(v) /\ x \in Held /\ x # w
    <3>1. Ancestor(w, x)
      BY <1>5, <1>7, <2>1, <2>5
    <3> QED BY <1>2, <1>3, <2>5, <3>1
  <2>6. CASE New(v) /\ New(x)
    <3>1. /\ Len(v.turns) = Len(x.turns)
          /\ v.turns \in Seq(Node \X Node) /\ x.turns \in Seq(Node \X Node)
      BY <1>5, <2>1, <2>6, WalkFields
    <3>2. \A i \in 1..Len(v.turns) : v.turns[i] = x.turns[i]
      BY <1>7, <2>1, AncestorMeans
    <3>3. v.turns = x.turns
      <4> DEFINE s == v.turns
                 u == x.turns
      <4> HIDE DEF s, u
      <4>1. s \in Seq(Node \X Node) /\ u \in Seq(Node \X Node) /\ Len(s) = Len(u)
        BY <3>1 DEF s, u
      <4>2. \A i \in 1..Len(s) : s[i] = u[i]
        BY <3>2 DEF s, u
      <4>3. s = u
        BY ONLY <4>1, <4>2, SeqsEqual
      <4> QED BY <4>3 DEF s, u
    <3>4. PICK r \in Node \X Node : v.turns = Append(w.turns, r) /\ v = NextClone(w, r)
      BY <1>5, <2>1, <2>6
    <3>5. PICK q \in Node \X Node : x.turns = Append(w.turns, q) /\ x = NextClone(w, q)
      BY <1>5, <2>1, <2>6
    <3>6. r = q
      <4>1. w.turns \in Seq(Node \X Node)
        BY <1>4, WalkFields
      <4>2. Append(w.turns, r) = Append(w.turns, q)
        BY <3>3, <3>4, <3>5
      <4>3. /\ Append(w.turns, r)[Len(w.turns) + 1] = r
            /\ Append(w.turns, q)[Len(w.turns) + 1] = q
        BY <4>1
      <4> QED BY <4>2, <4>3
    <3> QED BY <3>4, <3>5, <3>6
  <2> QED BY <2>2, <2>3, <2>4, <2>5, <2>6
<1>8. walks' \cap logged' = {}
  <2>1. \A v \in walks' : v \in Walk
    BY <1>2 DEF Held
  <2> QED BY <1>1, <1>6, <2>1 DEF NoRepeats, Held
<1> QED BY <1>7, <1>8 DEF NoRepeats, Held

LEMMA NoRepeatsStep ==
    NbTypeOK /\ WalkInv /\ WalkInv' /\ NoRepeats /\ [Next]_vars => NoRepeats'
<1> SUFFICES ASSUME NbTypeOK, WalkInv, WalkInv', NoRepeats, [Next]_vars
             PROVE  NoRepeats'
  OBVIOUS
<1>1. CASE UNCHANGED holeVars
  BY <1>1 DEF holeVars, NoRepeats
<1>2. ASSUME NEW w \in walks, LogStep(w) PROVE NoRepeats'
  <2>1. /\ walks' = walks \ {w} /\ logged' = logged \cup {w}
        /\ walks' \cup logged' = walks \cup logged
    BY <1>2 DEF LogStep
  <2> QED BY <2>1 DEF NoRepeats
<1> QED BY <1>1, <1>2, StepEffect, NoRepeatsStart, NoRepeatsRelay

(***************************************************************************)
(* Cloning at every gap (handleLowerMsg) multiplies a packet but never     *)
(* repeats it: no packet on its way or logged was cloned from another one. *)
(***************************************************************************)
THEOREM NeverRepeated == Spec => []NoRepeats
<1> QED BY NoRepeatsInit, NoRepeatsStep, Tables, WalkInvariant, PTL DEF Spec

=============================================================================
