--------------------------- MODULE RowClustersProofs ---------------------------
(***************************************************************************)
(* The rows of the new solver are legal for every row, every order of      *)
(* placing and every change of cells: the clusters stay in order and       *)
(* apart, but for the one that is being placed.                            *)
(***************************************************************************)
EXTENDS RowClusters, FiniteLemmas, TLAPS

-----------------------------------------------------------------------------
(***************************************************************************)
(* The inductive invariant                                                 *)
(***************************************************************************)

Partition ==
  /\ UNION clusters = nodes
  /\ {} \notin clusters
  /\ \A c, d \in clusters : c # d => c \cap d = {}

IsPlacing == stage \in {"right", "left"}

TypeInv ==
  /\ stage \in {"idle", "right", "left", "write"}
  /\ original_x \in [Cells -> Int]
  /\ width \in [Cells -> Nat]
  /\ nodes \subseteq Cells
  /\ flag \in BOOLEAN
  /\ stage # "left" => ~flag
  /\ IsPlacing => current \in nodes
  /\ SumW(nodes) <= max_x_length
  /\ DOMAIN x \subseteq nodes
  /\ stage # "write" => DOMAIN x = {}
  /\ Partition

AllBefore(c, d) == \A a \in c, b \in d : Before(a, b)

Ordered(c, d) == AllBefore(c, d) \/ AllBefore(d, c)

\* The clusters do_placeat is not at work on.
Settled == {c \in clusters : ~(IsPlacing /\ current \in c)}

SettledApart ==
  \A c, d \in Settled :
    /\ c # d => Ordered(c, d)
    /\ AllBefore(c, d) => ~Touches(c, d)

\* A gate that has just been placed may lie between the gates of a cluster.
RootOrdered ==
  \A c \in clusters \ Settled :
    \/ c = {current} /\ ~flag
    \/ \A d \in clusters \ {c} : Ordered(c, d)

RightPassed ==
  stage = "left" /\ ~flag =>
    \A c, d \in clusters : IsRoot(c) /\ IsRightOf(d, c) => ~Touches(c, d)

ClustersApart == SettledApart /\ RootOrdered /\ RightPassed

Written ==
  \A n \in DOMAIN x : \E c \in clusters : n \in c /\ x[n] = Start(c) + Prefix(c, n)

IInv == TypeInv /\ Written /\ (DistinctKeys => ClustersApart)

-----------------------------------------------------------------------------
(***************************************************************************)
(* The order of the gates                                                  *)
(***************************************************************************)

\* The clusters are non-empty sets of gates of the row.
LEMMA ClustersOfNodes ==
  ASSUME TypeInv
  PROVE  /\ IsFiniteSet(nodes)
         /\ \A c \in clusters : c \subseteq nodes /\ c # {} /\ IsFiniteSet(c)
         /\ \A n \in nodes : \E c \in clusters : n \in c
         /\ \A c, d \in clusters : \A n : n \in c /\ n \in d => c = d
         /\ \A n \in nodes : n \in Cells /\ n \in Int /\ original_x[n] \in Int /\ width[n] \in Nat
<1>1. IsFiniteSet(nodes)
  BY FS_Subset, CellsAssumption DEF TypeInv
<1>2. \A c \in clusters : c \subseteq nodes /\ c # {}
  BY DEF TypeInv, Partition
<1>3. \A c \in clusters : IsFiniteSet(c)
  BY <1>1, <1>2, FS_Subset
<1>. QED  BY <1>1, <1>2, <1>3, CellsAssumption DEF TypeInv, Partition

\* treapnode::operator< orders them strictly.
LEMMA BeforeOrders ==
  ASSUME TypeInv
  PROVE  /\ \A a \in nodes : ~Before(a, a)
         /\ \A a, b \in nodes : a = b \/ Before(a, b) \/ Before(b, a)
         /\ \A a, b \in nodes : ~(Before(a, b) /\ Before(b, a))
         /\ \A a, b, e \in nodes : Before(a, b) /\ Before(b, e) => Before(a, e)
         /\ \A a, b \in nodes : BeforeKey(a, b) => Before(a, b)
         /\ DistinctKeys => \A a, b \in nodes : Before(a, b) => BeforeKey(a, b)
<1>1. \A n \in nodes : n \in Int /\ original_x[n] \in Int /\ width[n] \in Int
  BY ClustersOfNodes
<1>2. /\ \A a \in nodes : ~Before(a, a)
      /\ \A a, b \in nodes : a = b \/ Before(a, b) \/ Before(b, a)
      /\ \A a, b \in nodes : ~(Before(a, b) /\ Before(b, a))
      /\ \A a, b \in nodes : BeforeKey(a, b) => Before(a, b)
  BY <1>1 DEF Before, BeforeKey
<1>3. \A a, b, e \in nodes : Before(a, b) /\ Before(b, e) => Before(a, e)
  BY <1>1 DEF Before
<1>4. DistinctKeys => \A a, b \in nodes : Before(a, b) => BeforeKey(a, b)
  BY <1>1, <1>2 DEF Before, BeforeKey, DistinctKeys
<1>. QED  BY <1>2, <1>3, <1>4

\* Of some gates of the row one is the first, and one the last.
LEMMA FirstAndLast ==
  ASSUME TypeInv, NEW S \in SUBSET nodes, S # {}
  PROVE  /\ \E m \in S : \A k \in S : k = m \/ Before(m, k)
         /\ \E m \in S : \A k \in S : k = m \/ Before(k, m)
<1> DEFINE Good(U) == U # {} => /\ \E m \in U : \A k \in U : k = m \/ Before(m, k)
                                /\ \E m \in U : \A k \in U : k = m \/ Before(k, m)
           B == {U \in SUBSET S : ~Good(U)}
<1>1. SUFFICES B = {}
  OBVIOUS
<1>2. IsFiniteSet(S)
  BY ClustersOfNodes, FS_Subset
<1>3. SUFFICES ASSUME B # {} PROVE FALSE
  OBVIOUS
<1>4. {} \notin B /\ B \in SUBSET (SUBSET S)
  OBVIOUS
<1>5. PICK U \in B : U # {} /\ \A y \in U : U \ {y} \notin B
  <2>. HIDE DEF B
  <2>. QED  BY <1>2, <1>3, <1>4, SmallestBadSet
<1>6. PICK y \in U : Good(U \ {y})
  BY <1>5
<1>7. CASE U = {y}
  BY <1>5, <1>7
<1>8. CASE U \ {y} # {}
  <2>1. PICK m \in U \ {y} : \A k \in U \ {y} : k = m \/ Before(m, k)
    BY <1>6, <1>8
  <2>2. PICK l \in U \ {y} : \A k \in U \ {y} : k = l \/ Before(k, l)
    BY <1>6, <1>8
  <2>3. U \subseteq nodes
    BY <1>5
  <2>4. \E z \in U : \A k \in U : k = z \/ Before(z, k)
    <3>1. CASE Before(y, m)
      BY <2>1, <2>3, <3>1, BeforeOrders
    <3>2. CASE Before(m, y)
      BY <2>1, <2>3, <3>2
    <3>. QED  BY <2>1, <2>3, <3>1, <3>2, BeforeOrders
  <2>5. \E z \in U : \A k \in U : k = z \/ Before(k, z)
    <3>1. CASE Before(l, y)
      BY <2>2, <2>3, <3>1, BeforeOrders
    <3>2. CASE Before(y, l)
      BY <2>2, <2>3, <3>2
    <3>. QED  BY <2>2, <2>3, <3>1, <3>2, BeforeOrders
  <2>. QED  BY <1>5, <2>4, <2>5
<1>. QED  BY <1>6, <1>7, <1>8

-----------------------------------------------------------------------------
(***************************************************************************)
(* The place of a cluster                                                  *)
(***************************************************************************)

Shift(c, n) == original_x[n] - Prefix(c, n)

Shifts(c) == MapThenSumSet(LAMBDA n : Shift(c, n), c)

Shifted(c) == [n \in c |-> Shift(c, n)]

\* The widths of a cluster and the place it wants are sums over its gates.
LEMMA PlaceIsSum ==
  ASSUME NEW c
  PROVE  /\ SumW(c) = SumFunctionOnSet(width, c)
         /\ X1(c) = Truncated(SumFunctionOnSet(Shifted(c), c), Cardinality(c))
<1>1. SumW(c) = SumFunctionOnSet(width, c)
  BY DEF SumW, SumFunctionOnSet, FoldFunctionOnSet, MapThenFoldSet, MapThenSumSet
<1>2. Shifts(c) = SumFunctionOnSet(Shifted(c), c)
  BY DEF Shifts, Shifted, SumFunctionOnSet, FoldFunctionOnSet, MapThenFoldSet, MapThenSumSet
<1>3. X1(c) = Truncated(Shifts(c), Cardinality(c))
  BY DEF X1, Shifts, Shift
<1>. QED  BY <1>1, <1>2, <1>3

\* They are numbers, and the widths grow with the cluster.
LEMMA PlaceType ==
  ASSUME TypeInv, NEW c \in SUBSET nodes, c # {}
  PROVE  /\ SumW(c) \in Nat /\ SumW(c) <= max_x_length
         /\ X1(c) \in Int
         /\ \A n \in c : Prefix(c, n) \in Nat /\ Prefix(c, n) + width[n] <= SumW(c)
         /\ \A a, b \in c : Before(a, b) => Prefix(c, a) + width[a] <= Prefix(c, b)
<1>1. /\ IsFiniteSet(nodes) /\ IsFiniteSet(c)
      /\ \A n \in nodes : width[n] \in Int /\ width[n] >= 0 /\ original_x[n] \in Int
  BY ClustersOfNodes, FS_Subset
<1>2. \A S \in SUBSET nodes : /\ IsFiniteSet(S) /\ SumW(S) \in Int /\ SumW(S) >= 0
                              /\ SumW(S) = SumFunctionOnSet(width, S)
  <2> TAKE S \in SUBSET nodes
  <2>1. IsFiniteSet(S)
    BY <1>1, FS_Subset
  <2>. QED  BY <1>1, <2>1, PlaceIsSum, SumType
<1>3. \A S \in SUBSET nodes : \A T \in SUBSET S : SumW(T) <= SumW(S)
  BY <1>1, <1>2, SumGrows
<1>4. SumW(c) \in Nat /\ SumW(c) <= max_x_length
  BY <1>2, <1>3, CellsAssumption DEF TypeInv
<1>5. \A T \in SUBSET c : \A n \in c \ T : SumW(T) + width[n] <= SumW(c)
  <2> TAKE T \in SUBSET c
  <2> TAKE n \in c \ T
  <2>1. SumFunctionOnSet(width, T \cup {n}) = SumFunctionOnSet(width, T) + width[n]
    BY <1>1, <1>2, SumAdd
  <2>. QED  BY <1>2, <1>3, <2>1
<1>6. \A n \in c : {m \in c : Before(m, n)} \in SUBSET c /\ Prefix(c, n) \in Nat
  BY <1>2 DEF Prefix
<1>7. \A n \in c : Prefix(c, n) + width[n] <= SumW(c)
  BY <1>5, <1>6, BeforeOrders DEF Prefix
<1>8. ASSUME NEW a \in c, NEW b \in c, Before(a, b)
      PROVE  Prefix(c, a) + width[a] <= Prefix(c, b)
  <2> DEFINE A == {m \in c : Before(m, a)}
             D == {m \in c : Before(m, b)}
  <2>1. A \in SUBSET nodes /\ D \in SUBSET nodes /\ a \notin A /\ a \in nodes
    BY BeforeOrders
  <2>2. A \cup {a} \in SUBSET D
    BY <1>8, BeforeOrders
  <2>3. Prefix(c, a) = SumW(A) /\ Prefix(c, b) = SumW(D)
    BY DEF Prefix
  <2>. HIDE DEF A, D
  <2>4. SumFunctionOnSet(width, A \cup {a}) = SumFunctionOnSet(width, A) + width[a]
    BY <1>1, <1>2, <2>1, SumAdd
  <2>5. SumW(A \cup {a}) <= SumW(D) /\ SumW(A \cup {a}) = SumW(A) + width[a]
    BY <1>2, <1>3, <2>1, <2>2, <2>4
  <2>. QED  BY <2>3, <2>5
<1>9. X1(c) \in Int
  <2>1. SumFunctionOnSet(Shifted(c), c) \in Int
    <3>1. \A n \in c : Shifted(c)[n] \in Int
      BY <1>1, <1>6 DEF Shifted, Shift
    <3>. QED  BY <1>1, <3>1, SumType
  <2>2. Cardinality(c) \in Nat /\ Cardinality(c) > 0
    BY <1>1, FS_CardinalityType, FS_EmptySet
  <2>. QED  BY <2>1, <2>2, PlaceIsSum DEF Truncated
<1>. QED  BY <1>4, <1>6, <1>7, <1>8, <1>9

\* Two clusters are far enough from each other if their neighbours are.
LEMMA ApartGoesOn ==
  ASSUME TypeInv, NEW c \in clusters, NEW d \in clusters, NEW e \in clusters,
         ~Touches(c, d), ~Touches(d, e)
  PROVE  ~Touches(c, e)
<1>1. /\ X1(c) \in Int /\ X1(d) \in Int /\ X1(e) \in Int /\ max_x_length \in Nat
      /\ SumW(c) \in Nat /\ SumW(d) \in Nat /\ SumW(e) \in Nat
  BY ClustersOfNodes, PlaceType, CellsAssumption
<1>. QED  BY <1>1 DEF Touches, AtLeast0, AtMostEnd

\* Clusters that do not touch on one side touch on the other.
LEMMA TouchesOneSide ==
  ASSUME TypeInv, NEW c \in clusters, NEW d \in clusters,
         ~Touches(c, d)
  PROVE  Touches(d, c)
<1>1. /\ X1(c) \in Int /\ X1(d) \in Int /\ max_x_length \in Nat
      /\ SumW(c) \in Nat /\ SumW(d) \in Nat
  BY ClustersOfNodes, PlaceType, CellsAssumption
<1>. QED  BY <1>1 DEF Touches, AtLeast0, AtMostEnd

\* A cluster that is far enough from another one is written behind it.
LEMMA ApartStarts ==
  ASSUME TypeInv, NEW c \in clusters, NEW d \in clusters
  PROVE  /\ Start(c) \in Int /\ 0 <= Start(c) /\ Start(c) + SumW(c) <= max_x_length
         /\ ~Touches(c, d) => Start(c) + SumW(c) <= Start(d)
<1>1. /\ X1(c) \in Int /\ X1(d) \in Int /\ max_x_length \in Nat
      /\ SumW(c) \in Nat /\ SumW(d) \in Nat
      /\ SumW(c) <= max_x_length /\ SumW(d) <= max_x_length
  BY ClustersOfNodes, PlaceType, CellsAssumption
<1>. QED  BY <1>1 DEF Touches, Start, AtLeast0, AtMostEnd

-----------------------------------------------------------------------------
(***************************************************************************)
(* Neighbours                                                              *)
(***************************************************************************)

\* The first gate behind a cluster, and the last one before it.
LEMMA NeighboursExist ==
  ASSUME TypeInv, DistinctKeys, NEW c \in clusters, NEW b \in nodes
  PROVE  /\ (\A k \in c : Before(k, b)) =>
              \E d \in clusters : \E n \in d :
                IsRightOf(d, c) /\ (n = b \/ Before(n, b)) /\ \A k \in c : Before(k, n)
         /\ (\A k \in c : Before(b, k)) =>
              \E d \in clusters : \E n \in d :
                IsLeftOf(d, c) /\ (n = b \/ Before(b, n)) /\ \A k \in c : Before(n, k)
<1>1. c \subseteq nodes /\ c # {} /\ (\A n \in nodes : \E d \in clusters : n \in d)
  BY ClustersOfNodes
<1>2. ASSUME \A k \in c : Before(k, b)
      PROVE  \E d \in clusters : \E n \in d :
                IsRightOf(d, c) /\ (n = b \/ Before(n, b)) /\ \A k \in c : Before(k, n)
  <2> DEFINE S == {n \in nodes : \A k \in c : Before(k, n)}
  <2>1. S \in SUBSET nodes /\ b \in S
    BY <1>2
  <2>2. PICK n \in S : \A k \in S : k = n \/ Before(n, k)
    <3>. HIDE DEF S
    <3>. QED  BY <2>1, FirstAndLast
  <2>3. PICK d \in clusters : n \in d
    BY <1>1, <2>1
  <2>4. \A m \in nodes : Before(m, n) => \E k \in c : m = k \/ Before(m, k)
    <3>1. SUFFICES ASSUME NEW m \in nodes, Before(m, n), \A k \in c : Before(k, m)
                   PROVE  FALSE
      BY <1>1, BeforeOrders
    <3>. QED  BY <2>2, <3>1, BeforeOrders
  <2>. QED  BY <2>1, <2>2, <2>3, <2>4 DEF IsRightOf
<1>3. ASSUME \A k \in c : Before(b, k)
      PROVE  \E d \in clusters : \E n \in d :
                IsLeftOf(d, c) /\ (n = b \/ Before(b, n)) /\ \A k \in c : Before(n, k)
  <2> DEFINE S == {n \in nodes : \A k \in c : Before(n, k)}
  <2>1. S \in SUBSET nodes /\ b \in S
    BY <1>3
  <2>2. PICK n \in S : \A k \in S : k = n \/ Before(k, n)
    <3>. HIDE DEF S
    <3>. QED  BY <2>1, FirstAndLast
  <2>3. PICK d \in clusters : n \in d
    BY <1>1, <2>1
  <2>4. PICK first \in c : \A m \in c : m = first \/ Before(first, m)
    BY <1>1, FirstAndLast
  <2>5. ASSUME NEW m \in nodes, BeforeKey(m, first)
        PROVE  m = n \/ Before(m, n)
    <3>1. \A k \in c : Before(m, k)
      BY <1>1, <2>4, <2>5, BeforeOrders
    <3>. QED  BY <2>2, <3>1
  <2>6. BeforeKey(n, first)
    BY <1>1, <2>2, <2>4, BeforeOrders
  <2>. QED  BY <2>1, <2>2, <2>3, <2>4, <2>5, <2>6 DEF IsLeftOf
<1>. QED  BY <1>2, <1>3

\* A cluster that takes in its neighbour lies on one side of any other.
LEMMA UnionOrdered ==
  ASSUME TypeInv, DistinctKeys,
         NEW c \in clusters, NEW d \in clusters, NEW e \in clusters, e # c, e # d,
         IsRightOf(d, c) \/ IsLeftOf(d, c),
         Ordered(d, e), Ordered(c, e) \/ \E k : c = {k}
  PROVE  Ordered(c \cup d, e)
<1>1. /\ c \subseteq nodes /\ d \subseteq nodes /\ e \subseteq nodes
      /\ e # {} /\ c \cap e = {} /\ d \cap e = {}
  BY ClustersOfNodes
<1>2. CASE IsRightOf(d, c)
  <2>1. PICK n \in d :
          /\ \A m \in c : Before(m, n)
          /\ \A m \in nodes : Before(m, n) => \E k \in c : m = k \/ Before(m, k)
    BY <1>2 DEF IsRightOf
  <2>2. CASE AllBefore(d, e)
    <3>1. \A m \in c, b \in e : Before(m, b)
      BY <1>1, <2>1, <2>2, BeforeOrders DEF AllBefore
    <3>. QED  BY <2>2, <3>1 DEF Ordered, AllBefore
  <2>3. CASE AllBefore(e, d)
    <3>1. \A m \in e : \E k \in c : Before(m, k)
      BY <1>1, <2>1, <2>3 DEF AllBefore
    <3>2. AllBefore(e, c)
      <4>1. CASE \E k : c = {k}
        BY <3>1, <4>1 DEF AllBefore
      <4>2. CASE AllBefore(c, e)
        BY <1>1, <3>1, <4>2, BeforeOrders DEF AllBefore
      <4>. QED  BY <4>1, <4>2 DEF Ordered
    <3>. QED  BY <2>3, <3>2 DEF Ordered, AllBefore
  <2>. QED  BY <2>2, <2>3 DEF Ordered
<1>3. CASE IsLeftOf(d, c)
  <2>1. PICK n \in d, first \in c :
          /\ \A m \in c : m = first \/ Before(first, m)
          /\ BeforeKey(n, first)
          /\ \A m \in nodes : BeforeKey(m, first) => m = n \/ Before(m, n)
    BY <1>3 DEF IsLeftOf
  <2>2. n \in nodes /\ first \in nodes /\ Before(n, first)
    BY <1>1, <2>1, BeforeOrders
  <2>3. CASE AllBefore(e, d)
    <3>1. \A b \in e : Before(b, first)
      BY <1>1, <2>2, <2>3, BeforeOrders DEF AllBefore
    <3>2. \A b \in e, m \in c : Before(b, m)
      BY <1>1, <2>1, <2>2, <3>1, BeforeOrders
    <3>. QED  BY <2>3, <3>2 DEF Ordered, AllBefore
  <2>4. CASE AllBefore(d, e)
    <3>1. \A m \in e : Before(first, m)
      <4> TAKE m \in e
      <4>1. m \in nodes /\ m # first /\ Before(n, m)
        BY <1>1, <2>4 DEF AllBefore
      <4>2. ~Before(m, first)
        BY <2>1, <2>2, <4>1, BeforeOrders
      <4>. QED  BY <2>2, <4>1, <4>2, BeforeOrders
    <3>2. AllBefore(c, e)
      <4>1. CASE \E k : c = {k}
        BY <3>1, <4>1 DEF AllBefore
      <4>2. CASE AllBefore(e, c)
        BY <1>1, <2>2, <3>1, <4>2, BeforeOrders DEF AllBefore
      <4>. QED  BY <4>1, <4>2 DEF Ordered
    <3>. QED  BY <2>4, <3>2 DEF Ordered, AllBefore
  <2>. QED  BY <2>3, <2>4 DEF Ordered
<1>. QED  BY <1>2, <1>3

\* When neither neighbour of the cluster at work touches it, no cluster does.
LEMMA RootSettles ==
  ASSUME TypeInv, DistinctKeys, SettledApart, RootOrdered,
         NEW c \in clusters, IsPlacing, current \in c,
         \A d \in clusters : IsRightOf(d, c) => ~Touches(c, d),
         \A d \in clusters : IsLeftOf(d, c) => ~Touches(d, c),
         NEW e \in clusters, e # c
  PROVE  /\ Ordered(c, e)
         /\ AllBefore(c, e) => ~Touches(c, e)
         /\ AllBefore(e, c) => ~Touches(e, c)
<1>1. /\ c \subseteq nodes /\ e \subseteq nodes /\ c # {} /\ e # {} /\ c \cap e = {}
      /\ \A d \in clusters : d \subseteq nodes
      /\ current \in nodes /\ c \notin Settled
  BY ClustersOfNodes DEF Settled
<1>2. ASSUME NEW d \in clusters, d # c
      PROVE  /\ d # e => Ordered(d, e)
             /\ AllBefore(d, e) => ~Touches(d, e)
             /\ AllBefore(e, d) => ~Touches(e, d)
  <2>1. d \in Settled /\ e \in Settled
    BY <1>2, ClustersOfNodes DEF Settled
  <2>. QED  BY <2>1 DEF SettledApart
<1>3. ASSUME NEW b \in e, \A k \in c : Before(k, b)
      PROVE  /\ AllBefore(c, e) => ~Touches(c, e)
             /\ \A a \in e, k \in c : Before(a, k) => ~Touches(c, e)
  <2>0. PICK d \in clusters : \E n \in d :
          IsRightOf(d, c) /\ (n = b \/ Before(n, b)) /\ \A k \in c : Before(k, n)
    BY <1>1, <1>3, NeighboursExist
  <2>1. PICK n \in d :
          IsRightOf(d, c) /\ (n = b \/ Before(n, b)) /\ \A k \in c : Before(k, n)
    BY <2>0
  <2>2. d # c /\ n \in nodes /\ ~Touches(c, d)
    BY <1>1, <2>1, BeforeOrders
  <2>3. CASE d = e
    BY <2>2, <2>3
  <2>4. CASE d # e
    <3>1. AllBefore(d, e)
      <4>1. n # b
        BY <2>1, <2>4, ClustersOfNodes
      <4>2. ~AllBefore(e, d)
        BY <1>1, <2>1, <2>2, <4>1, BeforeOrders DEF AllBefore
      <4>. QED  BY <1>2, <2>2, <2>4, <4>2 DEF Ordered
    <3>2. ~Touches(c, e)
      BY <1>2, <2>2, <3>1, ApartGoesOn
    <3>. QED  BY <3>2
  <2>. QED  BY <2>3, <2>4
<1>4. ASSUME NEW b \in e, \A k \in c : Before(b, k)
      PROVE  /\ AllBefore(e, c) => ~Touches(e, c)
             /\ \A a \in e, k \in c : Before(k, a) => ~Touches(e, c)
  <2>0. PICK d \in clusters : \E n \in d :
          IsLeftOf(d, c) /\ (n = b \/ Before(b, n)) /\ \A k \in c : Before(n, k)
    BY <1>1, <1>4, NeighboursExist
  <2>1. PICK n \in d :
          IsLeftOf(d, c) /\ (n = b \/ Before(b, n)) /\ \A k \in c : Before(n, k)
    BY <2>0
  <2>2. d # c /\ n \in nodes /\ ~Touches(d, c)
    BY <1>1, <2>1, BeforeOrders
  <2>3. CASE d = e
    BY <2>2, <2>3
  <2>4. CASE d # e
    <3>1. AllBefore(e, d)
      <4>1. n # b
        BY <2>1, <2>4, ClustersOfNodes
      <4>2. ~AllBefore(d, e)
        BY <1>1, <2>1, <2>2, <4>1, BeforeOrders DEF AllBefore
      <4>. QED  BY <1>2, <2>2, <2>4, <4>2 DEF Ordered
    <3>2. ~Touches(e, c)
      BY <1>2, <2>2, <3>1, ApartGoesOn
    <3>. QED  BY <3>2
  <2>. QED  BY <2>3, <2>4
<1>5. Ordered(c, e)
  <2>1. CASE c = {current} /\ ~Ordered(c, e)
    <3>1. PICK a \in e : ~Before(current, a)
      BY <2>1 DEF Ordered, AllBefore
    <3>2. PICK b \in e : ~Before(b, current)
      BY <2>1 DEF Ordered, AllBefore
    <3>3. Before(a, current) /\ Before(current, b)
      BY <1>1, <3>1, <3>2, BeforeOrders
    <3>4. ~Touches(c, e) /\ ~Touches(e, c)
      BY <1>3, <1>4, <2>1, <3>3
    <3>. QED  BY <3>4, TouchesOneSide
  <2>2. \/ c = {current}
        \/ Ordered(c, e)
    BY <1>1 DEF RootOrdered
  <2>. QED  BY <2>1, <2>2
<1>6. AllBefore(c, e) => ~Touches(c, e)
  BY <1>1, <1>3 DEF AllBefore
<1>7. AllBefore(e, c) => ~Touches(e, c)
  BY <1>1, <1>4 DEF AllBefore
<1>. QED  BY <1>5, <1>6, <1>7

-----------------------------------------------------------------------------
(***************************************************************************)
(* The steps                                                               *)
(***************************************************************************)

\* As long as the gates of the row keep their cells, everything that is read
\* of them stays.
LEMMA GatesKept ==
  ASSUME TypeInv,
         original_x' = original_x, \A n \in nodes : width'[n] = width[n]
  PROVE  /\ \A a, b \in nodes : Before(a, b)' <=> Before(a, b)
         /\ \A c \in SUBSET nodes : SumW(c)' = SumW(c)
         /\ \A c \in SUBSET nodes : \A n \in c : Prefix(c, n)' = Prefix(c, n)
         /\ \A c, d \in SUBSET nodes : Touches(c, d)' <=> Touches(c, d)
         /\ \A c \in SUBSET nodes : Start(c)' = Start(c)
<1>1. \A a, b \in nodes : Before(a, b)' <=> Before(a, b)
  BY DEF Before
<1>2. \A c \in SUBSET nodes : IsFiniteSet(c)
  BY ClustersOfNodes, FS_Subset
<1>3. ASSUME NEW c \in SUBSET nodes
      PROVE  SumW(c)' = SumW(c)
  <2>1. SumFunctionOnSet(width', c) = SumFunctionOnSet(width, c)
    BY <1>2, SumSame
  <2>2. SumW(c)' = SumFunctionOnSet(width', c)
    BY DEF SumW, SumFunctionOnSet, FoldFunctionOnSet, MapThenFoldSet, MapThenSumSet
  <2>. QED  BY <2>1, <2>2, PlaceIsSum
<1>4. ASSUME NEW c \in SUBSET nodes, NEW n \in c
      PROVE  Prefix(c, n)' = Prefix(c, n)
  <2>1. {m \in c : Before(m, n)'} = {m \in c : Before(m, n)}
    BY <1>1
  <2>2. Prefix(c, n)' = SumFunctionOnSet(width', {m \in c : Before(m, n)'})
    BY DEF Prefix, SumW, SumFunctionOnSet, FoldFunctionOnSet, MapThenFoldSet, MapThenSumSet
  <2>3. IsFiniteSet({m \in c : Before(m, n)})
    BY <1>2
  <2>4. SumFunctionOnSet(width', {m \in c : Before(m, n)})
          = SumFunctionOnSet(width, {m \in c : Before(m, n)})
    BY <2>3, SumSame
  <2>. QED  BY <2>1, <2>2, <2>4, PlaceIsSum DEF Prefix
<1>5. ASSUME NEW c \in SUBSET nodes
      PROVE  X1(c)' = X1(c)
  <2>1. [n \in c |-> Shift(c, n)'] = Shifted(c)
    BY <1>4 DEF Shifted, Shift
  <2>2. Shifts(c)' = SumFunctionOnSet([n \in c |-> Shift(c, n)'], c)
    BY DEF Shifts, SumFunctionOnSet, FoldFunctionOnSet, MapThenFoldSet, MapThenSumSet
  <2>3. X1(c)' = Truncated(Shifts(c)', Cardinality(c))
    BY DEF X1, Shifts, Shift, Truncated
  <2>. QED  BY <2>1, <2>2, <2>3, PlaceIsSum
<1>6. \A c, d \in SUBSET nodes : Touches(c, d)' <=> Touches(c, d)
  BY <1>3, <1>5 DEF Touches, AtMostEnd, AtLeast0
<1>7. \A c \in SUBSET nodes : Start(c)' = Start(c)
  BY <1>3, <1>5 DEF Start, AtMostEnd, AtLeast0
<1>. QED  BY <1>1, <1>3, <1>4, <1>6, <1>7

\* What the clusters are read of does not change with the step.
LEMMA ClustersKept ==
  ASSUME TypeInv,
         original_x' = original_x, \A n \in nodes : width'[n] = width[n],
         NEW c \in SUBSET nodes, NEW d \in SUBSET nodes
  PROVE  /\ AllBefore(c, d)' <=> AllBefore(c, d)
         /\ Ordered(c, d)' <=> Ordered(c, d)
         /\ Touches(c, d)' <=> Touches(c, d)
BY GatesKept DEF Ordered, AllBefore

\* The invariant holds at the start.
LEMMA InitIInv == ASSUME Init PROVE IInv
<1>1. SumW({}) = 0
  BY PlaceIsSum, SumEmpty
<1>2. width \in [Cells -> Nat]
  BY CellsAssumption DEF Init
<1>3. Partition /\ ~IsPlacing
  BY DEF Init, Partition, IsPlacing
<1>4. original_x \in [Cells -> Int] /\ SumW(nodes) <= max_x_length
  BY <1>1, CellsAssumption DEF Init
<1>5. DOMAIN x = {}
  BY DEF Init
<1>6. TypeInv
  BY <1>2, <1>3, <1>4, <1>5 DEF Init, TypeInv
<1>. QED  BY <1>5, <1>6 DEF Init, IInv, Written, ClustersApart, SettledApart, RootOrdered,
                      RightPassed, Settled

\* A merge of two clusters, seen by the others.
LEMMA JoinKeeps ==
  ASSUME IInv, IsPlacing, IsPlacing',
         NEW c \in clusters, NEW d \in clusters, IsRoot(c),
         IsRightOf(d, c) \/ IsLeftOf(d, c), Join(c, d),
         UNCHANGED <<original_x, width, nodes, current, x>>,
         stage' \in {"right", "left"}, flag' \in BOOLEAN, stage' # "left" => ~flag',
         stage' = "left" => flag'
  PROVE  IInv'
<1>0. TypeInv
  BY DEF IInv
<1>1. /\ c \subseteq nodes /\ d \subseteq nodes /\ c # {} /\ current \in c /\ current \in nodes
      /\ \A e \in clusters : e \subseteq nodes /\ e # {}
  BY <1>0, ClustersOfNodes DEF IsRoot
<1>2. c # d
  <2>1. CASE IsRightOf(d, c)
    BY <1>0, <1>1, <2>1, BeforeOrders DEF IsRightOf
  <2>2. CASE IsLeftOf(d, c)
    <3>1. PICK n \in d, first \in c : BeforeKey(n, first) /\ \A m \in c : m = first \/ Before(first, m)
      BY <2>2 DEF IsLeftOf
    <3>. QED  BY <1>0, <1>1, <3>1, BeforeOrders
  <2>. QED  BY <2>1, <2>2
<1>3. clusters' = (clusters \ {c, d}) \cup {c \cup d}
  BY DEF Join
<1>4. TypeInv'
  <2>1. Partition'
    <3>1. UNION clusters' = nodes
      <4>1. UNION clusters = nodes
        BY <1>0 DEF TypeInv, Partition
      <4>2. \A n : (\E e \in clusters' : n \in e) <=> \E e \in clusters : n \in e
        BY <1>3
      <4>. QED  BY <4>1, <4>2
    <3>2. {} \notin clusters'
      BY <1>0, <1>1, <1>3 DEF TypeInv, Partition
    <3>3. \A e, f \in clusters' : e # f => e \cap f = {}
      BY <1>0, <1>1, <1>3, ClustersOfNodes
    <3>. QED  BY <3>1, <3>2, <3>3 DEF Partition
  <2>2. SumW(nodes)' = SumW(nodes)
    BY <1>0, GatesKept
  <2>. QED  BY <1>0, <2>1, <2>2 DEF TypeInv, IsPlacing
<1>5. Written'
  BY <1>0 DEF TypeInv, IsPlacing, Written
<1>6. ASSUME DistinctKeys' PROVE ClustersApart'
  <2>0. DistinctKeys /\ SettledApart /\ RootOrdered
    BY <1>6 DEF DistinctKeys, IInv, ClustersApart
  <2>1. \A e \in clusters' : e # c \cup d => e \in Settled /\ e # c /\ e # d /\ e \in clusters
    BY <1>0, <1>1, <1>3, ClustersOfNodes DEF Settled
  <2>2. Settled' \subseteq clusters' \ {c \cup d}
    BY <1>1 DEF Settled
  <2>3. SettledApart'
    <3> SUFFICES ASSUME NEW e \in Settled', NEW f \in Settled'
                 PROVE  (e # f => Ordered(e, f)') /\ (AllBefore(e, f)' => ~Touches(e, f)')
      BY DEF SettledApart
    <3>1. e \in Settled /\ f \in Settled /\ e \in SUBSET nodes /\ f \in SUBSET nodes
      BY <1>1, <2>1, <2>2
    <3>2. /\ AllBefore(e, f)' <=> AllBefore(e, f)
          /\ Ordered(e, f)' <=> Ordered(e, f)
          /\ Touches(e, f)' <=> Touches(e, f)
      BY <1>0, <3>1, ClustersKept
    <3>. QED  BY <2>0, <3>1, <3>2 DEF SettledApart
  <2>4. ASSUME NEW e \in clusters', e # c \cup d
        PROVE  Ordered(c \cup d, e)'
    <3>1. e \in Settled /\ e # c /\ e # d /\ e \in clusters
      BY <2>1, <2>4
    <3>2. d \in Settled /\ c \notin Settled
      BY <1>0, <1>1, <1>2, ClustersOfNodes DEF Settled
    <3>3. Ordered(d, e)
      BY <2>0, <3>1, <3>2 DEF SettledApart
    <3>4. Ordered(c, e) \/ \E k : c = {k}
      BY <2>0, <3>1, <3>2 DEF RootOrdered
    <3>5. Ordered(c \cup d, e)
      BY <1>0, <2>0, <3>1, <3>3, <3>4, UnionOrdered
    <3>. QED  BY <1>0, <1>1, <3>1, <3>5, ClustersKept
  <2>5. RootOrdered'
    <3>1. clusters' \ Settled' \subseteq {c \cup d}
      BY <1>0, <1>1, <2>1, ClustersOfNodes DEF Settled
    <3>. QED  BY <2>4, <3>1 DEF RootOrdered
  <2>. QED  BY <2>3, <2>5 DEF ClustersApart, RightPassed
<1>. QED  BY <1>4, <1>5, <1>6 DEF IInv

\* Clusters that were apart stay so while nothing is done to them.
LEMMA SettledKept ==
  ASSUME TypeInv, SettledApart,
         original_x' = original_x, \A n \in nodes : width'[n] = width[n],
         Settled' \subseteq Settled
  PROVE  SettledApart'
<1> SUFFICES ASSUME NEW e \in Settled', NEW f \in Settled'
             PROVE  (e # f => Ordered(e, f)') /\ (AllBefore(e, f)' => ~Touches(e, f)')
  BY DEF SettledApart
<1>1. e \in Settled /\ f \in Settled /\ e \in SUBSET nodes /\ f \in SUBSET nodes
  BY ClustersOfNodes DEF Settled
<1>2. /\ AllBefore(e, f)' <=> AllBefore(e, f)
      /\ Ordered(e, f)' <=> Ordered(e, f)
      /\ Touches(e, f)' <=> Touches(e, f)
  BY <1>1, ClustersKept
<1>. QED  BY <1>1, <1>2 DEF SettledApart

\* So does the cluster at work, when its stage alone changes.
LEMMA RootKept ==
  ASSUME TypeInv, RootOrdered, ~flag' \/ flag,
         UNCHANGED <<original_x, width, nodes, clusters, current>>, Settled' = Settled,
         flag /\ ~flag' => \A c \in clusters \ Settled : \A d \in clusters \ {c} : Ordered(c, d)
  PROVE  RootOrdered'
<1> SUFFICES ASSUME NEW c \in clusters \ Settled, ~(c = {current} /\ ~flag'),
                    NEW d \in clusters \ {c}
             PROVE  Ordered(c, d)'
  BY DEF RootOrdered
<1>1. Ordered(c, d)
  BY DEF RootOrdered
<1>2. c \in SUBSET nodes /\ d \in SUBSET nodes
  BY ClustersOfNodes
<1>. QED  BY <1>1, <1>2, ClustersKept

\* The candidate of a gate that is not placed is exchanged.
LEMMA BindIInv ==
  ASSUME IInv, NEW n \in Cells, NEW w \in Widths, Bind(n, w)
  PROVE  IInv'
<1>1. /\ TypeInv /\ w \in Nat /\ width \in [Cells -> Nat] /\ nodes \subseteq Cells
      /\ width' = [width EXCEPT ![n] = w] /\ n \notin nodes /\ stage = "idle"
      /\ UNCHANGED <<stage, original_x, nodes, clusters, current, flag, x>>
  BY CellsAssumption DEF IInv, TypeInv, Bind
<1>2. width' \in [Cells -> Nat] /\ \A m \in nodes : width'[m] = width[m]
  BY <1>1
<1>3. SumW(nodes)' = SumW(nodes)
  BY <1>1, <1>2, GatesKept
<1>4. TypeInv'
  BY <1>1, <1>2, <1>3 DEF TypeInv, Partition, IsPlacing
<1>5. Written'
  BY <1>1 DEF TypeInv, Written
<1>6. ASSUME DistinctKeys' PROVE ClustersApart'
  <2>1. SettledApart
    BY <1>1, <1>2, <1>6 DEF IInv, ClustersApart, DistinctKeys
  <2>2. Settled' = Settled /\ clusters' \ Settled' = {}
    BY <1>1 DEF Settled, IsPlacing
  <2>3. SettledApart'
    BY <1>1, <1>2, <2>1, <2>2, SettledKept
  <2>. QED  BY <1>1, <2>2, <2>3 DEF ClustersApart, RootOrdered, RightPassed
<1>. QED  BY <1>4, <1>5, <1>6 DEF IInv

\* A gate becomes a cluster of its own.
LEMMA InsertIInv ==
  ASSUME IInv, NEW n \in Cells, Insert(n)
  PROVE  IInv'
<1>1. /\ TypeInv /\ n \notin nodes /\ HasRoom(n) /\ stage = "idle"
      /\ nodes' = nodes \cup {n} /\ clusters' = clusters \cup {{n}}
      /\ current' = n /\ flag' = FALSE /\ stage' = "right"
      /\ UNCHANGED <<original_x, width, x>>
  BY DEF IInv, Insert
<1>2. SumW(nodes)' <= max_x_length
  <2>1. IsFiniteSet(nodes) /\ (\A m \in nodes : width[m] \in Int) /\ width[n] \in Int
    BY <1>1, ClustersOfNodes DEF TypeInv
  <2>2. SumFunctionOnSet(width, nodes \cup {n}) = SumFunctionOnSet(width, nodes) + width[n]
    BY <1>1, <2>1, SumAdd
  <2>3. SumW(nodes)' = SumFunctionOnSet(width', nodes')
    BY DEF SumW, SumFunctionOnSet, FoldFunctionOnSet, MapThenFoldSet, MapThenSumSet
  <2>. QED  BY <1>1, <2>2, <2>3, PlaceIsSum DEF HasRoom
<1>3. Partition'
  <2>1. \A c \in clusters : n \notin c
    BY <1>1, ClustersOfNodes
  <2>2. UNION clusters' = nodes'
    <3>1. UNION clusters = nodes
      BY <1>1 DEF TypeInv, Partition
    <3>2. \A m : (\E e \in clusters' : m \in e) <=> (\E e \in clusters : m \in e) \/ m = n
      BY <1>1
    <3>. QED  BY <1>1, <3>1, <3>2
  <2>3. {} \notin clusters'
    BY <1>1, ClustersOfNodes
  <2>4. \A c, d \in clusters' : c # d => c \cap d = {}
    <3>1. \A c, d \in clusters : c # d => c \cap d = {}
      BY <1>1 DEF TypeInv, Partition
    <3>2. \A c \in clusters : c \cap {n} = {} /\ {n} \cap c = {}
      BY <2>1
    <3>. QED  BY <1>1, <3>1, <3>2
  <2>. QED  BY <2>2, <2>3, <2>4 DEF Partition
<1>4. TypeInv'
  BY <1>1, <1>2, <1>3 DEF TypeInv, IsPlacing
<1>5. Written'
  BY <1>1 DEF TypeInv, Written
<1>6. ASSUME DistinctKeys' PROVE ClustersApart'
  <2>1. SettledApart
    BY <1>1, <1>6 DEF IInv, ClustersApart, DistinctKeys
  <2>2. Settled' \subseteq Settled /\ clusters' \ Settled' \subseteq {{n}}
    <3>1. \A c \in clusters : n \notin c
      BY <1>1, ClustersOfNodes
    <3>. QED  BY <1>1, <3>1 DEF Settled, IsPlacing
  <2>3. SettledApart'
    BY <1>1, <2>1, <2>2, SettledKept
  <2>. QED  BY <1>1, <2>2, <2>3 DEF ClustersApart, RootOrdered, RightPassed
<1>. QED  BY <1>4, <1>5, <1>6 DEF IInv

\* The neighbour to the right is taken in or passed.
LEMMA RightIInv ==
  ASSUME IInv, MergeRight \/ PassRight
  PROVE  IInv'
<1>0. TypeInv
  BY DEF IInv
<1>1. CASE MergeRight
  <2>1. PICK c \in clusters, d \in clusters : IsRoot(c) /\ IsRightOf(d, c) /\ Join(c, d)
    BY <1>1 DEF MergeRight
  <2>2. /\ IsPlacing /\ IsPlacing' /\ stage' = "left" /\ flag' = TRUE
        /\ UNCHANGED <<original_x, width, nodes, current, x>>
    BY <1>1 DEF MergeRight, IsPlacing
  <2>. QED  BY <2>1, <2>2, JoinKeeps
<1>2. CASE PassRight
  <2>1. /\ stage = "right" /\ stage' = "left" /\ ~flag
        /\ UNCHANGED <<original_x, width, nodes, clusters, current, flag, x>>
        /\ \A c, d \in clusters : IsRoot(c) /\ IsRightOf(d, c) => ~Touches(c, d)
    BY <1>0, <1>2 DEF PassRight, TypeInv
  <2>2. SumW(nodes)' = SumW(nodes)
    BY <1>0, <2>1, GatesKept
  <2>3. TypeInv'
    BY <1>0, <2>1, <2>2 DEF TypeInv, Partition, IsPlacing
  <2>4. Written'
    BY <1>0, <2>1 DEF TypeInv, Written
  <2>5. ASSUME DistinctKeys' PROVE ClustersApart'
    <3>1. SettledApart /\ RootOrdered /\ Settled' = Settled
      BY <2>1, <2>5 DEF IInv, ClustersApart, DistinctKeys, Settled, IsPlacing
    <3>2. SettledApart' /\ RootOrdered'
      BY <1>0, <2>1, <3>1, SettledKept, RootKept
    <3>3. ASSUME NEW c \in clusters, NEW d \in clusters, IsRoot(c)', IsRightOf(d, c)'
          PROVE  ~Touches(c, d)'
      <4>1. c \in SUBSET nodes /\ d \in SUBSET nodes
        BY <1>0, ClustersOfNodes
      <4>2. IsRoot(c) /\ IsRightOf(d, c)
        BY <2>1, <3>3 DEF IsRoot, IsRightOf, Before
      <4>. QED  BY <1>0, <2>1, <4>1, <4>2, ClustersKept
    <3>. QED  BY <2>1, <3>2, <3>3 DEF ClustersApart, RightPassed
  <2>. QED  BY <2>3, <2>4, <2>5 DEF IInv
<1>. QED  BY <1>1, <1>2

\* The neighbour to the left is taken in or passed; a round in which nothing
\* was taken in is the last one.
LEMMA LeftIInv ==
  ASSUME IInv, MergeLeft \/ PassLeft
  PROVE  IInv'
<1>0. TypeInv
  BY DEF IInv
<1>1. CASE MergeLeft
  <2>1. PICK c \in clusters, d \in clusters : IsRoot(c) /\ IsLeftOf(d, c) /\ Join(c, d)
    BY <1>1 DEF MergeLeft
  <2>2. /\ IsPlacing /\ IsPlacing' /\ stage' = "right" /\ flag' = FALSE
        /\ UNCHANGED <<original_x, width, nodes, current, x>>
    BY <1>1 DEF MergeLeft, IsPlacing, NextRound
  <2>. QED  BY <2>1, <2>2, JoinKeeps
<1>2. CASE PassLeft
  <2>1. /\ stage = "left" /\ flag \in BOOLEAN /\ flag' = FALSE
        /\ flag => stage' = "right" /\ current' = current
        /\ ~flag => stage' = "idle"
        /\ UNCHANGED <<original_x, width, nodes, clusters, x>>
        /\ \A c, d \in clusters : IsRoot(c) /\ IsLeftOf(d, c) => ~Touches(d, c)
    BY <1>0, <1>2 DEF PassLeft, NextRound, TypeInv
  <2>2. SumW(nodes)' = SumW(nodes)
    BY <1>0, <2>1, GatesKept
  <2>3. TypeInv'
    <3>1. stage' \in {"idle", "right"} /\ (IsPlacing' => current' \in nodes)
      BY <1>0, <2>1 DEF TypeInv, IsPlacing
    <3>2. Partition'
      BY <1>0, <2>1 DEF TypeInv, Partition
    <3>3. DOMAIN x' = {} /\ flag' \in BOOLEAN
      <4>1. DOMAIN x = {}
        BY <1>0, <2>1 DEF TypeInv
      <4>. QED  BY <2>1, <4>1
    <3>4. /\ original_x' \in [Cells -> Int] /\ width' \in [Cells -> Nat] /\ nodes' \subseteq Cells
          /\ SumW(nodes)' <= max_x_length
      BY <1>0, <2>1, <2>2 DEF TypeInv
    <3>. QED  BY <2>1, <3>1, <3>2, <3>3, <3>4 DEF TypeInv
  <2>4. Written'
    BY <1>0, <2>1 DEF TypeInv, Written
  <2>5. ASSUME DistinctKeys' PROVE ClustersApart'
    <3>1. DistinctKeys /\ SettledApart /\ RootOrdered /\ RightPassed
      BY <2>1, <2>5 DEF IInv, ClustersApart, DistinctKeys
    <3>2. CASE flag
      <4>1. Settled' = Settled
        BY <2>1, <3>2 DEF Settled, IsPlacing
      <4>2. \A c \in clusters \ Settled : \A d \in clusters \ {c} : Ordered(c, d)
        BY <3>1, <3>2 DEF RootOrdered
      <4>3. SettledApart' /\ RootOrdered'
        BY <1>0, <2>1, <3>1, <3>2, <4>1, <4>2, SettledKept, RootKept
      <4>. QED  BY <2>1, <3>2, <4>3 DEF ClustersApart, RightPassed
    <3>3. CASE ~flag
      <4>1. /\ IsPlacing /\ Settled' = clusters
            /\ \A c \in clusters : c \in Settled \/ current \in c
        BY <2>1, <3>3 DEF Settled, IsPlacing
      <4>2. ASSUME NEW c \in clusters, NEW e \in clusters
            PROVE  /\ c # e => Ordered(c, e)
                   /\ AllBefore(c, e) => ~Touches(c, e)
        <5>1. ASSUME NEW a \in clusters, NEW b \in clusters, a # b, current \in a
              PROVE  /\ Ordered(a, b)
                     /\ AllBefore(a, b) => ~Touches(a, b)
                     /\ AllBefore(b, a) => ~Touches(b, a)
          <6>1. IsRoot(a)
            BY <5>1 DEF IsRoot
          <6>2. /\ \A d \in clusters : IsRightOf(d, a) => ~Touches(a, d)
                /\ \A d \in clusters : IsLeftOf(d, a) => ~Touches(d, a)
            BY <2>1, <3>1, <3>3, <6>1 DEF RightPassed
          <6>. QED  BY <1>0, <3>1, <4>1, <5>1, <6>2, RootSettles
        <5>2. ~AllBefore(c, c)
          BY <1>0, ClustersOfNodes, BeforeOrders DEF AllBefore
        <5>3. CASE c \in Settled /\ e \in Settled
          BY <3>1, <5>3 DEF SettledApart
        <5>4. CASE c # e /\ current \in c
          BY <5>1, <5>4
        <5>5. CASE c # e /\ current \in e
          BY <5>1, <5>5 DEF Ordered
        <5>. QED  BY <4>1, <5>2, <5>3, <5>4, <5>5
      <4>3. SettledApart'
        <5> SUFFICES ASSUME NEW e \in clusters, NEW f \in clusters
                     PROVE  (e # f => Ordered(e, f)') /\ (AllBefore(e, f)' => ~Touches(e, f)')
          BY <2>1, <4>1 DEF SettledApart
        <5>1. e \in SUBSET nodes /\ f \in SUBSET nodes
          BY <1>0, ClustersOfNodes
        <5>2. /\ AllBefore(e, f)' <=> AllBefore(e, f)
              /\ Ordered(e, f)' <=> Ordered(e, f)
              /\ Touches(e, f)' <=> Touches(e, f)
          BY <1>0, <2>1, <5>1, ClustersKept
        <5>. QED  BY <4>2, <5>2
      <4>. QED  BY <2>1, <3>3, <4>1, <4>3 DEF ClustersApart, RootOrdered, RightPassed
    <3>. QED  BY <2>1, <3>2, <3>3
  <2>. QED  BY <2>3, <2>4, <2>5 DEF IInv
<1>. QED  BY <1>1, <1>2

\* The positions are written, and a new pass begins.
LEMMA WriteIInv ==
  ASSUME IInv, EndPass \/ (\E n \in Cells : Write(n)) \/ NewPass \/ UNCHANGED vars
  PROVE  IInv'
<1>0. TypeInv
  BY DEF IInv
<1>1. CASE NewPass
  <2>1. /\ stage' = "idle" /\ nodes' = {} /\ clusters' = {} /\ DOMAIN x' = {}
        /\ UNCHANGED <<original_x, width, current, flag>> /\ stage = "write"
    BY <1>1 DEF NewPass
  <2>2. SumW(nodes)' <= max_x_length
    <3>1. SumW(nodes)' = SumFunctionOnSet(width', nodes')
      BY DEF SumW, SumFunctionOnSet, FoldFunctionOnSet, MapThenFoldSet, MapThenSumSet
    <3>. QED  BY <2>1, <3>1, SumEmpty, CellsAssumption
  <2>3. Partition'
    BY <2>1 DEF Partition
  <2>4. TypeInv'
    BY <1>0, <2>1, <2>2, <2>3 DEF TypeInv, IsPlacing
  <2>. QED  BY <2>1, <2>4 DEF IInv, Written, ClustersApart, SettledApart, RootOrdered,
                              RightPassed, Settled
<1>2. CASE EndPass \/ (\E n \in Cells : Write(n)) \/ UNCHANGED vars
  <2>1. /\ UNCHANGED <<original_x, width, nodes, clusters, current, flag>>
        /\ stage' = stage \/ (stage = "idle" /\ stage' = "write")
    BY <1>2 DEF EndPass, Write, vars
  <2>2. /\ DOMAIN x' \subseteq nodes /\ (stage' # "write" => DOMAIN x' = {})
        /\ Written'
    <3>1. ASSUME NEW c \in clusters, NEW n \in c
          PROVE  Start(c)' = Start(c) /\ Prefix(c, n)' = Prefix(c, n)
      BY <1>0, <2>1, GatesKept, ClustersOfNodes
    <3>2. CASE x' = x
      BY <1>0, <2>1, <3>1, <3>2 DEF TypeInv, IInv, Written
    <3>3. ASSUME NEW n \in Cells, Write(n)
          PROVE  /\ DOMAIN x' \subseteq nodes /\ stage' = "write"
                 /\ Written'
      <4>1. PICK c \in clusters :
              /\ n \in c
              /\ x' = [m \in DOMAIN x \cup {n} |->
                         IF m = n THEN Start(c) + Prefix(c, n) ELSE x[m]]
        BY <3>3 DEF Write
      <4>2. \A m \in DOMAIN x' : \E e \in clusters :
              m \in e /\ x'[m] = Start(e) + Prefix(e, m)
        BY <4>1 DEF IInv, Written
      <4>3. Written'
        BY <2>1, <3>1, <4>2 DEF Written
      <4>. QED  BY <1>0, <3>3, <4>1, <4>3 DEF Write, TypeInv
    <3>. QED  BY <1>2, <3>2, <3>3 DEF EndPass, vars
  <2>3. SumW(nodes)' = SumW(nodes)
    BY <1>0, <2>1, GatesKept
  <2>4. TypeInv'
    BY <1>0, <2>1, <2>2, <2>3 DEF TypeInv, Partition, IsPlacing
  <2>5. ASSUME DistinctKeys' PROVE ClustersApart'
    <3>1. SettledApart /\ RootOrdered /\ RightPassed /\ Settled' = Settled
      BY <2>1, <2>5 DEF IInv, ClustersApart, DistinctKeys, Settled, IsPlacing
    <3>2. SettledApart' /\ RootOrdered'
      BY <1>0, <2>1, <3>1, SettledKept, RootKept
    <3>3. ASSUME NEW c \in clusters, NEW d \in clusters, IsRoot(c)', IsRightOf(d, c)',
                 stage' = "left", ~flag'
          PROVE  ~Touches(c, d)'
      <4>1. c \in SUBSET nodes /\ d \in SUBSET nodes
        BY <1>0, ClustersOfNodes
      <4>2. IsRoot(c) /\ IsRightOf(d, c) /\ stage = "left" /\ ~flag
        BY <2>1, <3>3 DEF IsRoot, IsRightOf, Before
      <4>. QED  BY <1>0, <2>1, <3>1, <4>1, <4>2, ClustersKept DEF RightPassed
    <3>. QED  BY <2>1, <3>2, <3>3 DEF ClustersApart, RightPassed
  <2>. QED  BY <2>2, <2>4, <2>5 DEF IInv
<1>. QED  BY <1>1, <1>2

\* Every step keeps the invariant.
LEMMA NextIInv == ASSUME IInv, [Next]_vars PROVE IInv'
BY BindIInv, InsertIInv, RightIInv, LeftIInv, WriteIInv DEF Next

\* It always holds.
LEMMA AlwaysIInv == Spec => []IInv
<1>1. Init => IInv
  BY InitIInv
<1>2. IInv /\ [Next]_vars => IInv'
  BY NextIInv
<1>. QED  BY <1>1, <1>2, PTL DEF Spec

-----------------------------------------------------------------------------
(***************************************************************************)
(* The positions at the end of a pass are a legal row, whatever gates were *)
(* placed in whatever order: no two gates of one x and width are told      *)
(* apart by do_placeat, so they are excluded.                              *)
(***************************************************************************)
THEOREM RowsAreLegal == Spec => []LegalRow
<1>1. ASSUME IInv PROVE LegalRow
  <2> SUFFICES ASSUME DistinctKeys, NEW a \in DOMAIN x
               PROVE  /\ 0 <= x[a] /\ x[a] + width[a] <= max_x_length
                      /\ \A b \in DOMAIN x : Before(a, b) => x[a] + width[a] <= x[b]
    BY DEF LegalRow
  <2>1. TypeInv /\ SettledApart /\ Settled = clusters /\ max_x_length \in Nat
    BY <1>1, CellsAssumption DEF IInv, TypeInv, ClustersApart, Settled, IsPlacing
  <2>2. ASSUME NEW n \in DOMAIN x
        PROVE  \E c \in clusters :
                 /\ n \in c /\ c \in SUBSET nodes /\ n \in nodes /\ x[n] = Start(c) + Prefix(c, n)
                 /\ Start(c) \in Int /\ 0 <= Start(c) /\ Start(c) + SumW(c) <= max_x_length
                 /\ Prefix(c, n) \in Nat /\ width[n] \in Nat /\ SumW(c) \in Nat
                 /\ Prefix(c, n) + width[n] <= SumW(c)
    <3>1. PICK c \in clusters : n \in c /\ x[n] = Start(c) + Prefix(c, n)
      BY <1>1 DEF IInv, Written
    <3>2. c \in SUBSET nodes /\ c # {} /\ n \in nodes /\ width[n] \in Nat
      BY <2>1, <3>1, ClustersOfNodes
    <3>. QED  BY <2>1, <3>1, <3>2, ApartStarts, PlaceType
  <2>3. PICK c \in clusters :
          /\ a \in c /\ c \in SUBSET nodes /\ a \in nodes /\ x[a] = Start(c) + Prefix(c, a)
          /\ Start(c) \in Int /\ 0 <= Start(c) /\ Start(c) + SumW(c) <= max_x_length
          /\ Prefix(c, a) \in Nat /\ width[a] \in Nat /\ SumW(c) \in Nat
          /\ Prefix(c, a) + width[a] <= SumW(c)
    BY <2>2
  <2>4. ASSUME NEW b \in DOMAIN x, Before(a, b)
        PROVE  x[a] + width[a] <= x[b]
    <3>1. PICK d \in clusters :
            /\ b \in d /\ d \in SUBSET nodes /\ b \in nodes /\ x[b] = Start(d) + Prefix(d, b)
            /\ Start(d) \in Int /\ Prefix(d, b) \in Nat
      BY <2>2
    <3>2. CASE c = d
      <4>1. Prefix(c, a) + width[a] <= Prefix(c, b)
        BY <2>1, <2>3, <2>4, <3>1, <3>2, PlaceType
      <4>. QED  BY <2>3, <3>1, <3>2, <4>1
    <3>3. CASE c # d
      <4>1. ~AllBefore(d, c)
        BY <2>1, <2>3, <2>4, <3>1, BeforeOrders DEF AllBefore
      <4>2. ~Touches(c, d)
        BY <2>1, <3>3, <4>1 DEF SettledApart, Ordered
      <4>3. Start(c) + SumW(c) <= Start(d)
        BY <2>1, <4>2, ApartStarts
      <4>. QED  BY <2>3, <3>1, <4>3
    <3>. QED  BY <3>2, <3>3
  <2>. QED  BY <2>1, <2>3, <2>4
<1>. QED  BY <1>1, AlwaysIInv, PTL

-----------------------------------------------------------------------------
(***************************************************************************)
(* Rows that need not be disturbed                                         *)
(***************************************************************************)

AllUndisturbed == \A a \in nodes : Undisturbed(a)

Singles == AllUndisturbed => \A c \in clusters : \E a \in nodes : c = {a}

\* A gate on its own wants to be where it came from.
LEMMA SinglePlace ==
  ASSUME TypeInv, NEW a \in nodes
  PROVE  /\ SumW({a}) = width[a] /\ Prefix({a}, a) = 0 /\ X1({a}) = original_x[a]
         /\ original_x[a] \in Int /\ width[a] \in Nat
<1>1. original_x[a] \in Int /\ width[a] \in Nat
  BY ClustersOfNodes
<1>2. \A f : f[a] \in Int => SumFunctionOnSet(f, {a}) = f[a]
  <2> TAKE f
  <2>1. IsFiniteSet({}) /\ a \notin {} /\ {} \cup {a} = {a}
    BY FS_EmptySet
  <2>2. f[a] \in Int => SumFunctionOnSet(f, {} \cup {a}) = SumFunctionOnSet(f, {}) + f[a]
    BY <2>1, SumAdd
  <2>. QED  BY <2>1, <2>2, SumEmpty
<1>3. SumW({a}) = width[a]
  BY <1>1, <1>2, PlaceIsSum
<1>4. Prefix({a}, a) = 0
  <2>1. {m \in {a} : Before(m, a)} = {}
    BY BeforeOrders
  <2>. QED  BY <2>1, PlaceIsSum, SumEmpty DEF Prefix
<1>5. SumFunctionOnSet(Shifted({a}), {a}) = original_x[a]
  <2>1. Shifted({a})[a] = original_x[a]
    BY <1>1, <1>4 DEF Shifted, Shift
  <2>. QED  BY <1>1, <1>2, <2>1
<1>6. X1({a}) = original_x[a]
  <2>1. X1({a}) = Truncated(original_x[a], 1)
    BY <1>5, PlaceIsSum, FS_Singleton
  <2>. QED  BY <1>1, <2>1 DEF Truncated
<1>. QED  BY <1>1, <1>3, <1>4, <1>6

\* Gates that were apart do not touch.
LEMMA UndisturbedApart ==
  ASSUME TypeInv, AllUndisturbed, NEW a \in nodes, NEW b \in nodes, Before(a, b)
  PROVE  ~Touches({a}, {b})
<1>1. /\ original_x[a] \in Int /\ width[a] \in Nat /\ X1({a}) = original_x[a] /\ SumW({a}) = width[a]
      /\ original_x[b] \in Int /\ width[b] \in Nat /\ X1({b}) = original_x[b] /\ SumW({b}) = width[b]
      /\ max_x_length \in Nat
  BY SinglePlace, CellsAssumption
<1>2. /\ original_x[a] >= 0 /\ original_x[a] + width[a] + 1 < original_x[b]
      /\ original_x[b] + width[b] <= max_x_length
  BY DEF AllUndisturbed, Undisturbed
<1>. QED  BY <1>1, <1>2 DEF Touches, AtLeast0, AtMostEnd

\* Every step leaves them on their own.
LEMMA NextSingles == ASSUME TypeInv, Singles, [Next]_vars PROVE Singles'
<1>1. SUFFICES ASSUME AllUndisturbed'
               PROVE  \A c \in clusters' : \E a \in nodes' : c = {a}
  BY DEF Singles
<1>2. ASSUME original_x' = original_x, nodes \subseteq nodes',
             \A m \in nodes : width'[m] = width[m]
      PROVE  \A c \in clusters : \E a \in nodes : c = {a}
  <2>1. \A a, b \in nodes : Before(a, b)' <=> Before(a, b)
    BY <1>2, GatesKept
  <2>2. AllUndisturbed
    BY <1>1, <1>2, <2>1 DEF AllUndisturbed, Undisturbed
  <2>. QED  BY <2>2 DEF Singles
<1>3. CASE \E n \in Cells, w \in Widths : Bind(n, w)
  <2>1. /\ UNCHANGED <<original_x, nodes, clusters>>
        /\ \A m \in nodes : width'[m] = width[m]
    BY <1>3 DEF Bind, TypeInv
  <2>. QED  BY <1>2, <2>1
<1>4. CASE \E n \in Cells : Insert(n)
  BY <1>2, <1>4 DEF Insert
<1>5. CASE MergeRight \/ MergeLeft
  <2>1. UNCHANGED <<original_x, width, nodes>>
    BY <1>5 DEF MergeRight, MergeLeft
  <2>2. AllUndisturbed /\ \A c \in clusters : \E a \in nodes : c = {a}
    BY <1>1, <1>2, <2>1 DEF AllUndisturbed, Undisturbed, Before
  <2>3. \A c, d \in clusters : IsRightOf(d, c) => ~Touches(c, d)
    <3> SUFFICES ASSUME NEW a \in nodes, NEW b \in nodes, IsRightOf({b}, {a})
                 PROVE  ~Touches({a}, {b})
      BY <2>2
    <3>1. Before(a, b)
      BY DEF IsRightOf
    <3>. QED  BY <2>2, <3>1, UndisturbedApart
  <2>4. \A c, d \in clusters : IsLeftOf(d, c) => ~Touches(d, c)
    <3> SUFFICES ASSUME NEW a \in nodes, NEW b \in nodes, IsLeftOf({b}, {a})
                 PROVE  ~Touches({b}, {a})
      BY <2>2
    <3>1. BeforeKey(b, a)
      BY DEF IsLeftOf
    <3>2. Before(b, a)
      BY <3>1, BeforeOrders
    <3>. QED  BY <2>2, <3>2, UndisturbedApart
  <2>. QED  BY <1>5, <2>3, <2>4 DEF MergeRight, MergeLeft
<1>6. CASE NewPass
  BY <1>6 DEF NewPass
<1>7. CASE PassRight \/ PassLeft \/ EndPass \/ (\E n \in Cells : Write(n)) \/ UNCHANGED vars
  <2>1. UNCHANGED <<original_x, width, nodes, clusters>>
    BY <1>7 DEF PassRight, PassLeft, EndPass, Write, vars
  <2>. QED  BY <1>2, <2>1
<1>. QED  BY <1>3, <1>4, <1>5, <1>6, <1>7 DEF Next

(***************************************************************************)
(* Gates that were apart where they came from are written where they were, *)
(* however many passes and exchanges of candidates went before.            *)
(***************************************************************************)
THEOREM UndisturbedRowsStay == Spec => []LegalRowStays
<1>1. Init => Singles
  BY DEF Init, Singles
<1>2. IInv /\ Singles /\ [Next]_vars => Singles'
  BY NextSingles DEF IInv
<1>3. IInv /\ Singles => LegalRowStays
  <2> SUFFICES ASSUME IInv, Singles, AllUndisturbed, NEW a \in DOMAIN x
               PROVE  x[a] = original_x[a]
    BY DEF LegalRowStays, AllUndisturbed
  <2>1. TypeInv /\ a \in nodes
    BY DEF IInv, TypeInv
  <2>2. x[a] = Start({a}) + Prefix({a}, a)
    BY DEF IInv, Written, Singles
  <2>3. /\ original_x[a] \in Int /\ width[a] \in Nat /\ Prefix({a}, a) = 0
        /\ X1({a}) = original_x[a] /\ SumW({a}) = width[a] /\ max_x_length \in Nat
    BY <2>1, SinglePlace, CellsAssumption
  <2>4. original_x[a] >= 0 /\ original_x[a] + width[a] <= max_x_length
    BY <2>1 DEF AllUndisturbed, Undisturbed
  <2>. QED  BY <2>2, <2>3, <2>4 DEF Start, AtLeast0, AtMostEnd
<1>. QED  BY <1>1, <1>2, <1>3, AlwaysIInv, PTL DEF Spec
================================================================================
