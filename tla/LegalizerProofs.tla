--------------------------- MODULE LegalizerProofs ---------------------------
(***************************************************************************)
(* What the legalizer guarantees for every design: for any cells, rows and *)
(* assignment of heights to the rows, any number of each.                  *)
(*                                                                         *)
(* The inductive invariant comes in layers, each proved with those before: *)
(*   BaseInv        the types, and what is known in each phase             *)
(*   AccountingInv  the accounts of a row are sums over its cells          *)
(*   Located        an unplaced cell lies on the row it is accounted to    *)
(*   GoodInv        the clusters of a row hold its placed cells once each, *)
(*                  with the sums of their members                         *)
(*   PackedInv      clusters do not overlap, and stand inside a row they   *)
(*                  fit in                                                 *)
(*   TightInv       a cluster that fits stands where its members ask it    *)
(*                  to, and none of them would rather be on its own        *)
(*   LegalInv       the rows that are written out are legal                *)
(***************************************************************************)
EXTENDS Legalizer, FiniteLemmas

-----------------------------------------------------------------------------
(***************************************************************************)
(* Rounds of the packing.  placeRowFinal and placeRowTrail go through the  *)
(* clusters of a row from right to left; FoldRight is what they return.    *)
(***************************************************************************)

\* A round of placeRowFinal makes clusters of clusters.
LEMMA RepositionType ==
  ASSUME NEW r \in Rows, NEW k \in Cluster
  PROVE  Reposition(r, k) \in Cluster
<1>1. /\ k.q \in Int /\ k.weight \in Int /\ k.width \in Int
      /\ MinX[r] \in Int /\ MaxX[r] - k.width \in Int
  BY RowsAssumption DEF Cluster, Positive
<1>2. MinX[r] * k.weight \in Int /\ (MaxX[r] - k.width) * k.weight \in Int
  BY <1>1
<1>3. ClampedQ(r, k.q, k.weight, k.width) \in Int
  BY <1>1, <1>2 DEF ClampedQ
<1>. QED  BY <1>3 DEF Reposition, Cluster

\* Merging two clusters makes a cluster.
LEMMA AddClusterType ==
  ASSUME NEW prev \in Cluster, NEW k \in Cluster
  PROVE  AddCluster(prev, k) \in Cluster
<1>1. /\ prev.q + k.q - k.weight * prev.width \in Int
      /\ prev.weight + k.weight \in Positive /\ prev.width + k.width \in Positive
      /\ prev.member \o k.member \in Seq(Cells)
  BY DEF Cluster, Positive
<1>. QED  BY <1>1 DEF AddCluster, Cluster

Rounds == Seq(Cluster) \ {<<>>}

\* A round makes a row of clusters, never an empty one, of another.
LEMMA CollapseStepType ==
  ASSUME NEW r \in Rows, NEW prev \in Cluster, NEW done \in Rounds
  PROVE  CollapseStep(r, prev, done) \in Rounds
<1>1. <<prev>> \o done \in Rounds
  BY DEF Rounds
<1>2. Head(done) \in Cluster
  BY DEF Rounds
<1>3. <<Reposition(r, AddCluster(prev, Head(done)))>> \in Rounds
  BY <1>2, RepositionType, AddClusterType DEF Rounds
<1>. QED  BY <1>1, <1>3 DEF CollapseStep

\* Collapse goes through the clusters from right to left: h[i] is what is done
\* when the clusters from i on have been looked at.
LEMMA CollapseRounds ==
  ASSUME NEW r \in Rows, NEW front \in Seq(Cluster), NEW b \in Rounds
  PROVE  \E h :
           /\ h[Len(front) + 1] = b
           /\ \A i \in 1 .. Len(front) : h[i] = CollapseStep(r, front[i], h[i + 1])
           /\ FoldRight(LAMBDA prev, done : CollapseStep(r, prev, done), front, b) = h[1]
<1> DEFINE n == Len(front)
           D == DOMAIN front
           op == [a \in (1 .. n) \X Rounds |-> CollapseStep(r, front[a[1]], a[2])]
           iter == CHOOSE it : it = [s \in SUBSET D |->
                     IF s = {} THEN b ELSE CollapseStep(r, front[Min(s)], it[s \ {Min(s)}])]
<1>1. n \in Nat /\ D = 1 .. n /\ op \in [(1 .. n) \X Rounds -> Rounds]
  BY CollapseStepType
<1>2. PICK it : RightFold(it, n, Rounds, b, op)
  <2>. HIDE DEF op, n
  <2>. QED  BY <1>1, RightFoldExists
<1>3. it = [s \in SUBSET D |->
             IF s = {} THEN b ELSE CollapseStep(r, front[Min(s)], it[s \ {Min(s)}])]
  <2>1. ASSUME NEW s \in SUBSET D, s # {}
        PROVE  op[<<Min(s), it[s \ {Min(s)}]>>] = CollapseStep(r, front[Min(s)], it[s \ {Min(s)}])
    <3>1. s \in SUBSET Nat
      BY <1>1
    <3>2. Min(s) \in D
      BY <2>1, <3>1, LeastOfNats
    <3>3. it[s \ {Min(s)}] \in Rounds
      BY <1>1, <1>2 DEF RightFold
    <3>. QED  BY <1>1, <3>2, <3>3
  <2>2. it = [s \in SUBSET D |->
               IF s = {} THEN b ELSE op[<<Min(s), it[s \ {Min(s)}]>>]]
    <3>. HIDE DEF op
    <3>. QED  BY <1>1, <1>2 DEF RightFold
  <2>. HIDE DEF op, D
  <2>. QED  BY <2>1, <2>2
<1>4. iter = [s \in SUBSET D |->
               IF s = {} THEN b ELSE CollapseStep(r, front[Min(s)], iter[s \ {Min(s)}])]
  <2>. HIDE DEF D
  <2>. QED  BY <1>3
<1>5. FoldRight(LAMBDA prev, done : CollapseStep(r, prev, done), front, b) = iter[D]
  BY DEF FoldRight, MapThenFoldSet
<1>. HIDE DEF iter, D, op, n
<1> DEFINE h == [i \in 1 .. Len(front) + 1 |-> iter[i .. Len(front)]]
<1>6. h[Len(front) + 1] = b
  <2>1. Len(front) + 1 .. Len(front) = {} /\ Len(front) \in Nat
    OBVIOUS
  <2>. QED  BY <1>4, <2>1
<1>7. ASSUME NEW i \in 1 .. Len(front)
      PROVE  h[i] = CollapseStep(r, front[i], h[i + 1])
  <2>1. PICK s : s = i .. Len(front)
    OBVIOUS
  <2>2. s \in SUBSET D
    BY <1>1, <2>1 DEF n
  <2>3. s # {} /\ Min(s) = i /\ s \ {i} = i + 1 .. Len(front)
    <3>1. i \in Nat /\ Len(front) \in Nat /\ i =< Len(front)
      OBVIOUS
    <3>. QED  BY <2>1, <3>1, LeastOfInterval
  <2>4. iter[s] = CollapseStep(r, front[i], iter[i + 1 .. Len(front)])
    BY <1>4, <2>2, <2>3
  <2>5. h[i] = iter[s] /\ h[i + 1] = iter[i + 1 .. Len(front)]
    BY <2>1
  <2>. HIDE DEF h
  <2>. QED  BY <2>4, <2>5
<1>8. h[1] = iter[D]
  BY <1>1 DEF n
<1>. HIDE DEF h
<1>. QED  BY <1>5, <1>6, <1>7, <1>8

-----------------------------------------------------------------------------
(***************************************************************************)
(* Clusters.  wd gives the width of every cell and cx the x it asks for in *)
(* its row; Before(s, c) are the members of s in front of c.               *)
(***************************************************************************)
Before(s, c) ==
  {d \in ToSet(s) : \E i, j \in DOMAIN s : s[i] = d /\ s[j] = c /\ i < j}

Pull(wd, cx, s) ==
  [c \in Cells |-> wd[c] * (cx[c] - SumFunctionOnSet(wd, Before(s, c)))]

Distinct(s) == \A i, j \in DOMAIN s : i # j => s[i] # s[j]

GoodCluster(wd, cx, k) ==
  /\ k \in Cluster
  /\ k.member # <<>> /\ Distinct(k.member)
  /\ k.weight = SumFunctionOnSet(wd, ToSet(k.member))
  /\ k.width = SumFunctionOnSet(wd, ToSet(k.member))
  /\ k.q = SumFunctionOnSet(Pull(wd, cx, k.member), ToSet(k.member))

\* The widths and positions the lemmas are about.
Measures(wd, cx) == wd \in [Cells -> Positive] /\ cx \in [Cells -> Int]

\* The sets of members are finite sets of cells.
LEMMA MembersFinite ==
  ASSUME NEW s \in Seq(Cells)
  PROVE  /\ ToSet(s) \in SUBSET Cells /\ IsFiniteSet(ToSet(s))
         /\ \A c : Before(s, c) \in SUBSET ToSet(s) /\ IsFiniteSet(Before(s, c))
<1>1. ToSet(s) \in SUBSET Cells
  BY DEF ToSet
<1>2. IsFiniteSet(ToSet(s))
  BY <1>1, CellsAssumption, FS_Subset
<1>. QED  BY <1>1, <1>2, FS_Subset DEF Before

\* Sums of widths, and what the members of a cluster ask for, are integers.
LEMMA MeasureTypes ==
  ASSUME NEW wd, NEW cx, Measures(wd, cx), NEW s \in Seq(Cells)
  PROVE  /\ \A c \in Cells : wd[c] \in Int /\ wd[c] >= 1 /\ cx[c] \in Int
         /\ \A c \in Cells : SumFunctionOnSet(wd, Before(s, c)) \in Int
         /\ \A c \in Cells : Pull(wd, cx, s)[c] \in Int
<1>1. \A c \in Cells : wd[c] \in Int /\ wd[c] >= 1 /\ cx[c] \in Int
  BY DEF Measures, Positive
<1>2. \A c \in Cells : SumFunctionOnSet(wd, Before(s, c)) \in Int
  <2> TAKE c \in Cells
  <2>1. IsFiniteSet(Before(s, c)) /\ Before(s, c) \in SUBSET Cells
    BY MembersFinite
  <2>. QED  BY <1>1, <2>1, SumType
<1>3. \A c \in Cells : Pull(wd, cx, s)[c] \in Int
  BY <1>1, <1>2 DEF Pull
<1>. QED  BY <1>1, <1>2, <1>3

\* u is s followed by t, and no cell is a member of both.
Joins(s, t, u) ==
  /\ s \in Seq(Cells) /\ t \in Seq(Cells) /\ u = s \o t
  /\ Distinct(s) /\ Distinct(t) /\ ToSet(s) \cap ToSet(t) = {}

\* Appending one sequence of members to another.
LEMMA MembersOfBoth ==
  ASSUME NEW s, NEW t, NEW u, Joins(s, t, u)
  PROVE  /\ u \in Seq(Cells) /\ Distinct(u)
         /\ ToSet(u) = ToSet(s) \cup ToSet(t)
         /\ \A c \in ToSet(s) : Before(u, c) = Before(s, c)
         /\ \A c \in ToSet(t) : Before(u, c) = ToSet(s) \cup Before(t, c)
<1>0. /\ s \in Seq(Cells) /\ t \in Seq(Cells) /\ u = s \o t
      /\ Distinct(s) /\ Distinct(t) /\ ToSet(s) \cap ToSet(t) = {}
  BY DEF Joins
<1>1. /\ Len(s) \in Nat /\ Len(t) \in Nat /\ u \in Seq(Cells)
      /\ DOMAIN s = 1 .. Len(s) /\ DOMAIN t = 1 .. Len(t)
      /\ DOMAIN u = 1 .. Len(s) + Len(t)
      /\ \A i \in 1 .. Len(s) : u[i] = s[i] /\ i \in DOMAIN u
      /\ \A i \in 1 .. Len(t) : u[Len(s) + i] = t[i] /\ Len(s) + i \in DOMAIN u
  BY <1>0
<1>2. ASSUME NEW i \in DOMAIN u
      PROVE  \/ i \in DOMAIN s /\ u[i] = s[i]
             \/ i - Len(s) \in DOMAIN t /\ u[i] = t[i - Len(s)] /\ i > Len(s)
  <2>1. CASE i =< Len(s)
    BY <1>1, <2>1
  <2>2. CASE i > Len(s)
    <3>1. i - Len(s) \in 1 .. Len(t) /\ Len(s) + (i - Len(s)) = i
      BY <1>1, <2>2
    <3>. QED  BY <1>1, <2>2, <3>1
  <2>. QED  BY <1>1, <2>1, <2>2
<1>3. \A i \in DOMAIN s, j \in DOMAIN t : s[i] # t[j]
  BY <1>0 DEF ToSet
<1>4. ToSet(u) = ToSet(s) \cup ToSet(t)
  <2>1. \A c \in ToSet(u) : c \in ToSet(s) \/ c \in ToSet(t)
    BY <1>2 DEF ToSet
  <2>2. \A c \in ToSet(s) : c \in ToSet(u)
    BY <1>1 DEF ToSet
  <2>3. \A c \in ToSet(t) : c \in ToSet(u)
    BY <1>1 DEF ToSet
  <2>. QED  BY <2>1, <2>2, <2>3
<1>5. Distinct(u)
  <2>. SUFFICES ASSUME NEW i \in DOMAIN u, NEW j \in DOMAIN u, i # j
                PROVE  u[i] # u[j]
    BY DEF Distinct
  <2>1. i - Len(s) # j - Len(s)
    BY <1>1
  <2>. QED  BY <1>0, <1>2, <1>3, <2>1 DEF Distinct
<1>6. ASSUME NEW c \in ToSet(s)
      PROVE  Before(u, c) = Before(s, c)
  <2>0. \A j \in DOMAIN u : u[j] = c => j \in DOMAIN s
    BY <1>2, <1>3 DEF ToSet
  <2>1. ASSUME NEW d \in Before(u, c)
        PROVE  d \in Before(s, c)
    <3>1. PICK i \in DOMAIN u, j \in DOMAIN u : u[i] = d /\ u[j] = c /\ i < j
      BY DEF Before
    <3>2. j \in DOMAIN s /\ i \in DOMAIN s
      BY <1>1, <2>0, <3>1
    <3>. QED  BY <1>1, <3>1, <3>2 DEF Before, ToSet
  <2>2. ASSUME NEW d \in Before(s, c)
        PROVE  d \in Before(u, c)
    <3>1. PICK i \in DOMAIN s, j \in DOMAIN s : s[i] = d /\ s[j] = c /\ i < j
      BY DEF Before
    <3>. QED  BY <1>1, <3>1 DEF Before, ToSet
  <2>. QED  BY <2>1, <2>2
<1>7. ASSUME NEW c \in ToSet(t)
      PROVE  Before(u, c) = ToSet(s) \cup Before(t, c)
  <2>0. \A j \in DOMAIN u : u[j] = c => j - Len(s) \in DOMAIN t /\ u[j] = t[j - Len(s)]
    BY <1>2, <1>3 DEF ToSet
  <2>1. ASSUME NEW d \in Before(u, c)
        PROVE  d \in ToSet(s) \cup Before(t, c)
    <3>1. PICK i \in DOMAIN u, j \in DOMAIN u : u[i] = d /\ u[j] = c /\ i < j
      BY DEF Before
    <3>2. CASE i \in DOMAIN s /\ u[i] = s[i]
      BY <3>1, <3>2 DEF ToSet
    <3>3. CASE i - Len(s) \in DOMAIN t /\ u[i] = t[i - Len(s)]
      <4>1. j - Len(s) \in DOMAIN t /\ u[j] = t[j - Len(s)] /\ i - Len(s) < j - Len(s)
        BY <1>1, <2>0, <3>1
      <4>. QED  BY <3>1, <3>3, <4>1 DEF Before, ToSet
    <3>. QED  BY <1>2, <3>2, <3>3
  <2>2. ASSUME NEW d \in ToSet(s)
        PROVE  d \in Before(u, c)
    <3>1. PICK i \in DOMAIN s : s[i] = d
      BY DEF ToSet
    <3>2. PICK j \in DOMAIN t : t[j] = c
      BY DEF ToSet
    <3>3. i \in DOMAIN u /\ Len(s) + j \in DOMAIN u /\ i < Len(s) + j
      BY <1>1
    <3>. QED  BY <1>1, <3>1, <3>2, <3>3 DEF Before, ToSet
  <2>3. ASSUME NEW d \in Before(t, c)
        PROVE  d \in Before(u, c)
    <3>1. PICK i \in DOMAIN t, j \in DOMAIN t : t[i] = d /\ t[j] = c /\ i < j
      BY DEF Before
    <3>2. Len(s) + i \in DOMAIN u /\ Len(s) + j \in DOMAIN u /\ Len(s) + i < Len(s) + j
      BY <1>1, <3>1
    <3>. QED  BY <1>1, <3>1, <3>2 DEF Before, ToSet
  <2>. QED  BY <2>1, <2>2, <2>3
<1>. QED  BY <1>1, <1>4, <1>5, <1>6, <1>7

\* Absorbing the cluster on its right makes a good cluster good again.
LEMMA MergeGood ==
  ASSUME NEW wd, NEW cx, Measures(wd, cx),
         NEW a, GoodCluster(wd, cx, a), NEW b, GoodCluster(wd, cx, b),
         ToSet(a.member) \cap ToSet(b.member) = {}
  PROVE  /\ GoodCluster(wd, cx, AddCluster(a, b))
         /\ ToSet(AddCluster(a, b).member) = ToSet(a.member) \cup ToSet(b.member)
<1>1. PICK s, t, u : s = a.member /\ t = b.member /\ u = s \o t
  OBVIOUS
<1>2. PICK S, T : S = ToSet(s) /\ T = ToSet(t)
  OBVIOUS
<1>3. PICK k : k = AddCluster(a, b)
  OBVIOUS
<1>4. a \in Cluster /\ b \in Cluster /\ s \in Seq(Cells) /\ t \in Seq(Cells)
  BY <1>1 DEF GoodCluster, Cluster
<1>5. /\ k \in Cluster
      /\ k.member = u /\ k.weight = a.weight + b.weight /\ k.width = a.width + b.width
      /\ k.q = a.q + b.q - b.weight * a.width
  BY <1>1, <1>3, <1>4, AddClusterType DEF AddCluster, Cluster
<1>6. /\ u \in Seq(Cells) /\ Distinct(u) /\ ToSet(u) = S \cup T /\ S \cap T = {}
      /\ \A c \in S : Before(u, c) = Before(s, c)
      /\ \A c \in T : Before(u, c) = S \cup Before(t, c)
  <2>1. Distinct(s) /\ Distinct(t) /\ ToSet(s) \cap ToSet(t) = {}
    BY <1>1 DEF GoodCluster
  <2>2. /\ u \in Seq(Cells) /\ Distinct(u)
        /\ ToSet(u) = ToSet(s) \cup ToSet(t)
        /\ \A c \in ToSet(s) : Before(u, c) = Before(s, c)
        /\ \A c \in ToSet(t) : Before(u, c) = ToSet(s) \cup Before(t, c)
    <3>1. Joins(s, t, u)
      BY <1>1, <1>4, <2>1 DEF Joins
    <3>. QED  BY <3>1, MembersOfBoth
  <2>. QED  BY <1>2, <2>1, <2>2
<1>7. IsFiniteSet(S) /\ IsFiniteSet(T) /\ S \in SUBSET Cells /\ T \in SUBSET Cells
  BY <1>2, <1>4, MembersFinite
<1>8. \A c \in Cells : wd[c] \in Int /\ cx[c] \in Int
  BY <1>4, MeasureTypes
<1>9. /\ SumFunctionOnSet(wd, S) = a.width /\ SumFunctionOnSet(wd, S) = a.weight
      /\ SumFunctionOnSet(wd, T) = b.width /\ SumFunctionOnSet(wd, T) = b.weight
      /\ a.width \in Int /\ b.width \in Int
  BY <1>1, <1>2, <1>4 DEF GoodCluster, Cluster, Positive
<1>10. SumFunctionOnSet(wd, S \cup T) = a.width + b.width
  BY <1>6, <1>7, <1>8, <1>9, SumUnion
<1>11. PICK f, g, h : /\ f = Pull(wd, cx, s) /\ g = Pull(wd, cx, t) /\ h = Pull(wd, cx, u)
  OBVIOUS
<1>12. \A c \in Cells : f[c] \in Int /\ g[c] \in Int /\ h[c] \in Int
  BY <1>4, <1>6, <1>11, MeasureTypes
<1>13. SumFunctionOnSet(h, S \cup T) = SumFunctionOnSet(h, S) + SumFunctionOnSet(h, T)
  BY <1>6, <1>7, <1>12, SumUnion
<1>14. SumFunctionOnSet(h, S) = SumFunctionOnSet(f, S)
  <2>1. \A c \in S : h[c] = f[c]
    BY <1>6, <1>7, <1>11 DEF Pull
  <2>. QED  BY <1>7, <2>1, SumSame
<1>15. SumFunctionOnSet(h, T) = SumFunctionOnSet(g, T) + (-a.width) * SumFunctionOnSet(wd, T)
  <2>1. ASSUME NEW c \in T
        PROVE  h[c] = g[c] + (-a.width) * wd[c]
    <3>1. PICK B : B = Before(t, c)
      OBVIOUS
    <3>2. B \in SUBSET T /\ IsFiniteSet(B) /\ S \cap B = {}
      BY <1>2, <1>4, <1>6, <3>1, MembersFinite
    <3>3. SumFunctionOnSet(wd, S \cup B) = SumFunctionOnSet(wd, S) + SumFunctionOnSet(wd, B)
      BY <1>7, <1>8, <3>2, SumUnion
    <3>4. PICK o, w, x, W : /\ o = SumFunctionOnSet(wd, B) /\ w = wd[c] /\ x = cx[c]
                           /\ W = a.width
      OBVIOUS
    <3>5. o \in Int /\ w \in Int /\ x \in Int /\ W \in Int
      BY <1>7, <1>8, <1>9, <3>2, <3>4, SumType
    <3>6. h[c] = w * (x - (W + o)) /\ g[c] = w * (x - o)
      <4>1. Before(u, c) = S \cup B /\ c \in Cells
        BY <1>6, <1>7, <3>1
      <4>2. SumFunctionOnSet(wd, Before(u, c)) = W + o
        BY <1>9, <3>3, <3>4, <4>1
      <4>3. h[c] = wd[c] * (cx[c] - SumFunctionOnSet(wd, Before(u, c)))
        BY <1>11, <4>1 DEF Pull
      <4>4. g[c] = wd[c] * (cx[c] - SumFunctionOnSet(wd, Before(t, c)))
        BY <1>11, <4>1 DEF Pull
      <4>. QED  BY <3>1, <3>4, <4>2, <4>3, <4>4
    <3>7. w * (x - (W + o)) = w * (x - o) + (-W) * w
      BY <3>5
    <3>. QED  BY <3>4, <3>6, <3>7
  <2>2. -a.width \in Int
    BY <1>9
  <2>. QED  BY <1>7, <1>8, <1>12, <2>1, <2>2, SumLinear
<1>16. a.q = SumFunctionOnSet(f, S) /\ b.q = SumFunctionOnSet(g, T)
  BY <1>1, <1>2, <1>11 DEF GoodCluster
<1>17. k.q = SumFunctionOnSet(h, S \cup T)
  <2>1. PICK p, q, w, v : p = a.q /\ q = b.q /\ w = a.width /\ v = b.weight
    OBVIOUS
  <2>2. p \in Int /\ q \in Int /\ w \in Int /\ v \in Int
    BY <1>4, <2>1 DEF Cluster, Positive
  <2>3. SumFunctionOnSet(h, S \cup T) = p + (q + (-w) * v)
    BY <1>9, <1>13, <1>14, <1>15, <1>16, <2>1
  <2>4. p + (q + (-w) * v) = p + q - v * w
    BY <2>2
  <2>. QED  BY <1>5, <2>1, <2>3, <2>4
<1>18. u # <<>>
  BY <1>1, <1>4 DEF GoodCluster
<1>19. /\ k.weight = SumFunctionOnSet(wd, S \cup T) /\ k.width = SumFunctionOnSet(wd, S \cup T)
  BY <1>5, <1>9, <1>10
<1>20. GoodCluster(wd, cx, k)
  BY <1>5, <1>6, <1>11, <1>17, <1>18, <1>19 DEF GoodCluster
<1>. QED  BY <1>1, <1>2, <1>3, <1>5, <1>6, <1>20

\* A cluster of one cell.
LEMMA SingleGood ==
  ASSUME NEW wd, NEW cx, Measures(wd, cx), NEW c \in Cells, NEW k,
         k = [x |-> cx[c] * wd[c], q |-> wd[c] * cx[c], weight |-> wd[c],
              width |-> wd[c], member |-> <<c>>]
  PROVE  GoodCluster(wd, cx, k) /\ ToSet(k.member) = {c}
<1>1. wd[c] \in Positive /\ cx[c] \in Int /\ wd[c] \in Int
  BY DEF Measures, Positive
<1>2. k \in Cluster /\ k.member = <<c>> /\ k.q = wd[c] * cx[c] /\ k.weight = wd[c]
      /\ k.width = wd[c]
  BY <1>1 DEF Cluster
<1>3. PICK s : s = <<c>>
  OBVIOUS
<1>4. s \in Seq(Cells) /\ s # <<>> /\ Distinct(s) /\ ToSet(s) = {c} /\ Before(s, c) = {}
  BY <1>3 DEF Distinct, ToSet, Before
<1>5. \A f : f[c] \in Int => SumFunctionOnSet(f, {c}) = f[c]
  <2>. SUFFICES ASSUME NEW f, f[c] \in Int PROVE SumFunctionOnSet(f, {c}) = f[c]
    OBVIOUS
  <2>1. SumFunctionOnSet(f, {} \cup {c}) = SumFunctionOnSet(f, {}) + f[c]
    BY FS_EmptySet, SumAdd
  <2>2. {} \cup {c} = {c}
    OBVIOUS
  <2>. QED  BY <2>1, <2>2, SumEmpty
<1>6. Pull(wd, cx, s)[c] = wd[c] * cx[c]
  <2>1. Pull(wd, cx, s)[c] = wd[c] * (cx[c] - 0)
    BY <1>4, SumEmpty DEF Pull
  <2>. QED  BY <1>1, <2>1
<1>7. SumFunctionOnSet(wd, {c}) = wd[c]
  BY <1>1, <1>5
<1>8. SumFunctionOnSet(Pull(wd, cx, s), {c}) = wd[c] * cx[c]
  <2>1. PICK f : f = Pull(wd, cx, s)
    OBVIOUS
  <2>2. f[c] \in Int
    BY <1>1, <1>6, <2>1
  <2>. QED  BY <1>5, <1>6, <2>1, <2>2
<1>. QED  BY <1>2, <1>3, <1>4, <1>7, <1>8 DEF GoodCluster

-----------------------------------------------------------------------------
(***************************************************************************)
(* The trial.  After as many rounds the trial is the cluster the placement *)
(* has, so it predicts where the cell ends.                                *)
(***************************************************************************)

\* What placeRowTrail keeps of the cluster it tries.
Trial == [q : Int, weight : Positive, width : Positive, stop : BOOLEAN]

\* A round of placeRowTrail makes trials of trials.
LEMMA TrialStepType ==
  ASSUME NEW r \in Rows, NEW prev \in Cluster, NEW trial \in Trial
  PROVE  TrialStep(r, prev, trial) \in Trial
<1>1. /\ prev.q + trial.q - trial.weight * prev.width \in Int
      /\ prev.weight + trial.weight \in Positive /\ prev.width + trial.width \in Positive
  BY DEF Cluster, Positive, Trial
<1>. QED  BY <1>1 DEF TrialStep, Trial

\* The trial goes through the clusters in the same order.
LEMMA TrialRounds ==
  ASSUME NEW r \in Rows, NEW front \in Seq(Cluster), NEW b \in Trial
  PROVE  \E h :
           /\ h[Len(front) + 1] = b
           /\ \A i \in 1 .. Len(front) : h[i] = TrialStep(r, front[i], h[i + 1])
           /\ FoldRight(LAMBDA prev, trial : TrialStep(r, prev, trial), front, b) = h[1]
<1> DEFINE n == Len(front)
           D == DOMAIN front
           op == [a \in (1 .. n) \X Trial |-> TrialStep(r, front[a[1]], a[2])]
           iter == CHOOSE it : it = [s \in SUBSET D |->
                     IF s = {} THEN b ELSE TrialStep(r, front[Min(s)], it[s \ {Min(s)}])]
<1>1. n \in Nat /\ D = 1 .. n /\ op \in [(1 .. n) \X Trial -> Trial]
  BY TrialStepType
<1>2. PICK it : RightFold(it, n, Trial, b, op)
  <2>. HIDE DEF op, n
  <2>. QED  BY <1>1, RightFoldExists
<1>3. it = [s \in SUBSET D |->
             IF s = {} THEN b ELSE TrialStep(r, front[Min(s)], it[s \ {Min(s)}])]
  <2>1. ASSUME NEW s \in SUBSET D, s # {}
        PROVE  op[<<Min(s), it[s \ {Min(s)}]>>] = TrialStep(r, front[Min(s)], it[s \ {Min(s)}])
    <3>1. s \in SUBSET Nat
      BY <1>1
    <3>2. Min(s) \in D
      BY <2>1, <3>1, LeastOfNats
    <3>3. it[s \ {Min(s)}] \in Trial
      BY <1>1, <1>2 DEF RightFold
    <3>. QED  BY <1>1, <3>2, <3>3
  <2>2. it = [s \in SUBSET D |->
               IF s = {} THEN b ELSE op[<<Min(s), it[s \ {Min(s)}]>>]]
    <3>. HIDE DEF op
    <3>. QED  BY <1>1, <1>2 DEF RightFold
  <2>. HIDE DEF op, D
  <2>. QED  BY <2>1, <2>2
<1>4. iter = [s \in SUBSET D |->
               IF s = {} THEN b ELSE TrialStep(r, front[Min(s)], iter[s \ {Min(s)}])]
  <2>. HIDE DEF D
  <2>. QED  BY <1>3
<1>5. FoldRight(LAMBDA prev, trial : TrialStep(r, prev, trial), front, b) = iter[D]
  BY DEF FoldRight, MapThenFoldSet
<1>. HIDE DEF iter, D, op, n
<1> DEFINE h == [i \in 1 .. Len(front) + 1 |-> iter[i .. Len(front)]]
<1>6. h[Len(front) + 1] = b
  <2>1. Len(front) + 1 .. Len(front) = {} /\ Len(front) \in Nat
    OBVIOUS
  <2>. QED  BY <1>4, <2>1
<1>7. ASSUME NEW i \in 1 .. Len(front)
      PROVE  h[i] = TrialStep(r, front[i], h[i + 1])
  <2>1. PICK s : s = i .. Len(front)
    OBVIOUS
  <2>2. s \in SUBSET D
    BY <1>1, <2>1 DEF n
  <2>3. s # {} /\ Min(s) = i /\ s \ {i} = i + 1 .. Len(front)
    <3>1. i \in Nat /\ Len(front) \in Nat /\ i =< Len(front)
      OBVIOUS
    <3>. QED  BY <2>1, <3>1, LeastOfInterval
  <2>4. iter[s] = TrialStep(r, front[i], iter[i + 1 .. Len(front)])
    BY <1>4, <2>2, <2>3
  <2>5. h[i] = iter[s] /\ h[i + 1] = iter[i + 1 .. Len(front)]
    BY <2>1
  <2>. HIDE DEF h
  <2>. QED  BY <2>4, <2>5
<1>8. h[1] = iter[D]
  BY <1>1 DEF n
<1>. HIDE DEF h
<1>. QED  BY <1>5, <1>6, <1>7, <1>8

(***************************************************************************)
(* The trial and the placement go through the same rounds: trial holds the *)
(* sums of the last cluster of done, which stands where they put it.       *)
(***************************************************************************)
Matches(r, trial, done) ==
  /\ done \in Rounds /\ trial \in Trial
  /\ done[Len(done)].q = trial.q
  /\ done[Len(done)].weight = trial.weight
  /\ done[Len(done)].width = trial.width
  /\ done[Len(done)].x = ClampedQ(r, trial.q, trial.weight, trial.width)
  /\ trial.stop <=> Len(done) > 1

\* One round of the trial and of the placement keep them alike.
LEMMA MatchingStep ==
  ASSUME NEW r \in Rows, NEW prev \in Cluster, NEW trial, NEW done,
         Matches(r, trial, done)
  PROVE  Matches(r, TrialStep(r, prev, trial), CollapseStep(r, prev, done))
<1>1. PICK n, k : n = Len(done) /\ k = done[n]
  OBVIOUS
<1>2. /\ n \in Nat /\ n >= 1 /\ k \in Cluster /\ trial \in Trial /\ done \in Seq(Cluster)
      /\ k.q = trial.q /\ k.weight = trial.weight /\ k.width = trial.width
      /\ k.x = ClampedQ(r, trial.q, trial.weight, trial.width)
      /\ trial.stop <=> n > 1
  BY <1>1 DEF Matches, Rounds
<1> DEFINE stops == trial.stop \/ EndsBy(prev, k.x, trial.weight)
<1>3. Len(done) = n /\ (n = 1 => Head(done) = k)
  BY <1>1, <1>2
<1>4. /\ TrialStep(r, prev, trial) \in Trial
      /\ CollapseStep(r, prev, done) \in Rounds
  BY TrialStepType, CollapseStepType DEF Matches
<1>5. (Len(done) > 1 \/ EndsBy(prev, Head(done).x, Head(done).weight)) <=> stops
  BY <1>2, <1>3
<1>6. CASE stops
  <2>1. CollapseStep(r, prev, done) = <<prev>> \o done
    BY <1>5, <1>6 DEF CollapseStep
  <2>2. TrialStep(r, prev, trial) = [trial EXCEPT !.stop = TRUE]
    BY <1>2, <1>3, <1>6 DEF TrialStep
  <2>3. PICK u : u = <<prev>> \o done
    OBVIOUS
  <2>4. Len(u) = n + 1 /\ u[Len(u)] = k
    BY <1>1, <1>2, <2>3
  <2>5. PICK t : t = [trial EXCEPT !.stop = TRUE]
    OBVIOUS
  <2>6. t.q = trial.q /\ t.weight = trial.weight /\ t.width = trial.width /\ t.stop = TRUE
    BY <1>2, <2>5 DEF Trial
  <2>7. t = TrialStep(r, prev, trial) /\ u = CollapseStep(r, prev, done)
    BY <2>1, <2>2, <2>3, <2>5
  <2>8. t \in Trial /\ u \in Rounds
    BY <1>4, <2>7
  <2>9. Len(u) > 1
    BY <1>2, <2>4
  <2>10. Matches(r, t, u)
    BY <1>2, <2>4, <2>6, <2>8, <2>9 DEF Matches
  <2>. QED  BY <2>7, <2>10
<1>7. CASE ~stops
  <2>1. n = 1 /\ Head(done) = k
    BY <1>2, <1>3, <1>7
  <2>2. CollapseStep(r, prev, done) = <<Reposition(r, AddCluster(prev, k))>>
    BY <1>5, <1>7, <2>1 DEF CollapseStep
  <2>3. PICK t : t = TrialStep(r, prev, trial)
    OBVIOUS
  <2>4. /\ t.q = prev.q + trial.q - trial.weight * prev.width
        /\ t.weight = prev.weight + trial.weight
        /\ t.width = prev.width + trial.width /\ t.stop = FALSE
    BY <1>2, <1>3, <1>7, <2>3 DEF TrialStep
  <2>5. PICK a : a = AddCluster(prev, k)
    OBVIOUS
  <2>6. a.q = t.q /\ a.weight = t.weight /\ a.width = t.width /\ a \in Cluster
    BY <1>2, <2>4, <2>5, AddClusterType DEF AddCluster, Cluster
  <2>7. PICK b : b = Reposition(r, a)
    OBVIOUS
  <2>8. /\ b.q = t.q /\ b.weight = t.weight /\ b.width = t.width
        /\ b.x = ClampedQ(r, t.q, t.weight, t.width)
    BY <2>6, <2>7 DEF Reposition, Cluster
  <2>9. PICK u : u = <<b>>
    OBVIOUS
  <2>10. Len(u) = 1 /\ u[Len(u)] = b /\ u = CollapseStep(r, prev, done)
    BY <2>2, <2>5, <2>7, <2>9
  <2>11. t \in Trial /\ u \in Rounds /\ ~(Len(u) > 1)
    BY <1>4, <2>3, <2>10
  <2>12. Matches(r, t, u)
    BY <2>4, <2>8, <2>10, <2>11 DEF Matches
  <2>. QED  BY <2>3, <2>10, <2>12
<1>. QED  BY <1>6, <1>7

\* Both loops end with the same last cluster.
LEMMA TrialMatches ==
  ASSUME NEW r \in Rows, NEW front \in Seq(Cluster), NEW t, NEW b, Matches(r, t, b)
  PROVE  Matches(r, FoldRight(LAMBDA prev, trial : TrialStep(r, prev, trial), front, t),
                 FoldRight(LAMBDA prev, done : CollapseStep(r, prev, done), front, b))
<1>1. t \in Trial /\ b \in Rounds
  BY DEF Matches
<1>2. PICK h :
           /\ h[Len(front) + 1] = b
           /\ \A i \in 1 .. Len(front) : h[i] = CollapseStep(r, front[i], h[i + 1])
           /\ FoldRight(LAMBDA prev, done : CollapseStep(r, prev, done), front, b) = h[1]
  BY <1>1, CollapseRounds
<1>3. PICK g :
           /\ g[Len(front) + 1] = t
           /\ \A i \in 1 .. Len(front) : g[i] = TrialStep(r, front[i], g[i + 1])
           /\ FoldRight(LAMBDA prev, trial : TrialStep(r, prev, trial), front, t) = g[1]
  BY <1>1, TrialRounds
<1> DEFINE n == Len(front)
           G == {i \in 1 .. n + 1 : Matches(r, g[i], h[i])}
<1>4. n \in Nat /\ n + 1 \in G
  <2>1. Matches(r, g[n + 1], h[n + 1])
    BY <1>2, <1>3
  <2>. QED  BY <2>1
<1>5. ASSUME NEW i \in 1 .. n, i + 1 \in G
      PROVE  i \in G
  <2>1. Matches(r, g[i + 1], h[i + 1]) /\ front[i] \in Cluster /\ i \in 1 .. n + 1
    BY <1>4, <1>5
  <2>2. Matches(r, TrialStep(r, front[i], g[i + 1]), CollapseStep(r, front[i], h[i + 1]))
    BY <2>1, MatchingStep
  <2>. QED  BY <1>2, <1>3, <2>1, <2>2
<1>6. 1 \in G
  <2>. HIDE DEF G, n
  <2>. QED  BY <1>4, <1>5, InductionFromRight
<1>. QED  BY <1>2, <1>3, <1>6

-----------------------------------------------------------------------------
\* The last element of a sequence and what is in front of it.
LEMMA FrontAndLast ==
  ASSUME NEW S, NEW s \in Seq(S), s # <<>>
  PROVE  /\ Front(s) \in Seq(S) /\ Last(s) \in S /\ Last(s) = s[Len(s)]
         /\ Len(Front(s)) = Len(s) - 1 /\ Len(s) >= 1
         /\ \A i \in 1 .. Len(s) - 1 : Front(s)[i] = s[i]
<1>1. PICK n, m, f : n = Len(s) /\ m = n - 1 /\ f = SubSeq(s, 1, m)
  OBVIOUS
<1>2. n \in Nat /\ n >= 1 /\ m \in Nat /\ m =< n /\ s[n] \in S
  BY <1>1
<1>3. f \in Seq(S) /\ Len(f) = m /\ \A i \in 1 .. m : f[i] = s[i]
  BY <1>1, <1>2
<1>4. f = Front(s) /\ Last(s) = s[n]
  BY <1>1 DEF Front, Last
<1>. QED  BY <1>1, <1>2, <1>3, <1>4

\* What is in front of an appended element.
LEMMA FrontOfAppend ==
  ASSUME NEW S, NEW s \in Seq(S), NEW e \in S
  PROVE  Front(Append(s, e)) = s /\ Last(Append(s, e)) = e
<1>1. PICK u : u = Append(s, e)
  OBVIOUS
<1>2. u \in Seq(S) /\ Len(u) = Len(s) + 1 /\ u[Len(u)] = e /\ \A i \in 1 .. Len(s) : u[i] = s[i]
  BY <1>1
<1>3. PICK f : f = Front(u)
  OBVIOUS
<1>4. f \in Seq(S) /\ Len(f) = Len(s) /\ \A i \in 1 .. Len(s) : f[i] = s[i]
  <2>1. u # <<>>
    BY <1>2
  <2>2. f \in Seq(S) /\ Len(f) = Len(u) - 1 /\ \A i \in 1 .. Len(u) - 1 : f[i] = u[i]
    BY <1>2, <1>3, <2>1, FrontAndLast
  <2>3. Len(u) - 1 = Len(s)
    BY <1>2
  <2>. QED  BY <1>2, <2>2, <2>3
<1>5. f = s
  BY <1>4
<1>. QED  BY <1>1, <1>2, <1>3, <1>5 DEF Last

-----------------------------------------------------------------------------
(***************************************************************************)
(* Placing a cell in a row.  What the trial returns and what the placement *)
(* makes of the row come out of the same rounds.                           *)
(***************************************************************************)
CellRead(c) == cell[c] \in CellInputs

Extended(r, c) == AddCell(Last(clusters[r]), ClampedX(r, c), c)

TrialStart(r, c) ==
  LET x == ClampedX(r, c)
      w == cell[c].width
      k == Last(clusters[r])
  IN [q |-> k.q + w * (x - k.width), weight |-> k.weight + w,
      width |-> k.width + w, stop |-> FALSE]

\* The x a cell asks for and its width.
LEMMA AskedFor ==
  ASSUME NEW r \in Rows, NEW c \in Cells, CellRead(c)
  PROVE  /\ ClampedX(r, c) \in Int /\ cell[c].width \in Positive /\ cell[c].width \in Int
         /\ cell[c].width >= 1 /\ cell[c].x \in Int /\ cell[c].y \in Int
<1>1. cell[c].x \in Int /\ cell[c].y \in Int /\ cell[c].width \in Positive
  BY CellsAssumption DEF CellRead, Positive
<1>2. MinX[r] \in Int /\ MaxX[r] \in Int
  BY RowsAssumption
<1>. QED  BY <1>1, <1>2 DEF ClampedX, Positive

\* A cluster that a cell is added to is a cluster.
LEMMA ExtendedType ==
  ASSUME TypeOK, NEW r \in Rows, NEW c \in Cells, CellRead(c), clusters[r] # <<>>
  PROVE  /\ Extended(r, c) \in Cluster
         /\ Matches(r, TrialStart(r, c), <<Reposition(r, Extended(r, c))>>)
<1>1. clusters[r] \in Seq(Cluster)
  BY DEF TypeOK
<1>2. PICK k, x, w : k = Last(clusters[r]) /\ x = ClampedX(r, c) /\ w = cell[c].width
  OBVIOUS
<1>3. k \in Cluster /\ x \in Int /\ w \in Positive /\ w \in Int
  BY <1>1, <1>2, AskedFor, FrontAndLast
<1>4. PICK e, t : e = Extended(r, c) /\ t = TrialStart(r, c)
  OBVIOUS
<1>5. k.q + w * (x - k.width) \in Int
  <2>1. PICK y : y = x - k.width
    OBVIOUS
  <2>2. y \in Int /\ w * y \in Int /\ k.q \in Int
    BY <1>3, <2>1 DEF Cluster, Positive
  <2>. QED  BY <2>1, <2>2
<1>6. k.weight + w \in Positive /\ k.width + w \in Positive /\ Append(k.member, c) \in Seq(Cells)
  BY <1>3 DEF Cluster, Positive
<1>7. /\ e = [k EXCEPT !.q = @ + w * (x - k.width), !.weight = @ + w,
                       !.width = @ + w, !.member = Append(@, c)]
      /\ t = [q |-> k.q + w * (x - k.width), weight |-> k.weight + w,
              width |-> k.width + w, stop |-> FALSE]
  BY <1>2, <1>4 DEF Extended, TrialStart, AddCell
<1>8. e \in Cluster /\ t \in Trial
  BY <1>3, <1>5, <1>6, <1>7 DEF Cluster, Trial
<1>9. e.q = t.q /\ e.weight = t.weight /\ e.width = t.width /\ t.stop = FALSE
  BY <1>3, <1>7 DEF Cluster
<1>10. PICK b : b = Reposition(r, e)
  OBVIOUS
<1>11. /\ b \in Cluster /\ b.q = t.q /\ b.weight = t.weight /\ b.width = t.width
       /\ b.x = ClampedQ(r, t.q, t.weight, t.width)
  BY <1>8, <1>9, <1>10, RepositionType DEF Reposition, Cluster
<1>12. PICK u : u = <<b>>
  OBVIOUS
<1>13. u \in Rounds /\ Len(u) = 1 /\ u[Len(u)] = b
  BY <1>11, <1>12 DEF Rounds
<1>14. Matches(r, t, u)
  BY <1>8, <1>9, <1>11, <1>13 DEF Matches
<1>. QED  BY <1>4, <1>8, <1>10, <1>12, <1>14

\* What happens to a row and to its cell.
LEMMA Placement ==
  ASSUME TypeOK, NEW r \in Rows, NEW c \in Cells, CellRead(c)
  PROVE  LET x == ClampedX(r, c)
             w == cell[c].width
         IN \/ /\ StartsCluster(r, x)
               /\ placeRowTrail(r, c) = <<x, 1>>
               /\ WithCell(r, c) = Append(clusters[r], NewCluster(x, c))
            \/ /\ ~StartsCluster(r, x) /\ clusters[r] # <<>>
               /\ \E t, done :
                    /\ Matches(r, t, done)
                    /\ placeRowTrail(r, c) =
                         <<ClampedQ(r, t.q, t.weight, t.width) + (t.width - w) * t.weight,
                           t.weight>>
                    /\ WithCell(r, c) = done
                    /\ done = FoldRight(LAMBDA prev, d : CollapseStep(r, prev, d),
                                Front(clusters[r]), <<Reposition(r, Extended(r, c))>>)
<1> DEFINE x == ClampedX(r, c)
           w == cell[c].width
<1>1. CASE StartsCluster(r, x)
  BY <1>1 DEF placeRowTrail, WithCell
<1>2. CASE ~StartsCluster(r, x)
  <2>1. clusters[r] # <<>> /\ clusters[r] \in Seq(Cluster)
    BY <1>2 DEF StartsCluster, TypeOK
  <2>2. PICK front, e : front = Front(clusters[r]) /\ e = Extended(r, c)
    OBVIOUS
  <2>3. front \in Seq(Cluster) /\ e \in Cluster
    BY <2>1, <2>2, ExtendedType, FrontAndLast
  <2>4. Front(Append(front, e)) = front /\ Last(Append(front, e)) = e
    BY <2>3, FrontOfAppend
  <2>5. WithCell(r, c) = Collapse(r, Append(front, e))
    BY <1>2, <2>2 DEF WithCell, Extended
  <2>6. Collapse(r, Append(front, e)) =
          FoldRight(LAMBDA prev, done : CollapseStep(r, prev, done), front,
                    <<Reposition(r, e)>>)
    BY <2>4 DEF Collapse
  <2>7. PICK t, s, b, done :
          /\ s = TrialStart(r, c) /\ b = <<Reposition(r, e)>>
          /\ t = FoldRight(LAMBDA prev, trial : TrialStep(r, prev, trial), front, s)
          /\ done = FoldRight(LAMBDA prev, d : CollapseStep(r, prev, d), front, b)
    OBVIOUS
  <2>8. Matches(r, s, b)
    BY <2>1, <2>2, <2>7, ExtendedType
  <2>9. Matches(r, t, done)
    BY <2>3, <2>7, <2>8, TrialMatches
  <2>10. placeRowTrail(r, c)
           = <<ClampedQ(r, t.q, t.weight, t.width) + (t.width - w) * t.weight, t.weight>>
    BY <1>2, <2>2, <2>7 DEF placeRowTrail, TrialStart
  <2>11. WithCell(r, c) = done
    BY <2>5, <2>6, <2>7
  <2>12. done = FoldRight(LAMBDA prev, d : CollapseStep(r, prev, d),
                                Front(clusters[r]), <<Reposition(r, Extended(r, c))>>)
    BY <2>2, <2>7
  <2>. QED  BY <1>2, <2>1, <2>9, <2>10, <2>11, <2>12
<1>. QED  BY <1>1, <1>2

-----------------------------------------------------------------------------
(***************************************************************************)
(* The types of the variables, with what the phases of the program say of  *)
(* them: cells are read before one is placed, placed before a row is       *)
(* written, and the rows are written one by one.                           *)
(***************************************************************************)
Phases ==
  /\ \A c \in Cells :
       IF phase = "read" /\ c \in todo
       THEN row_index[c] = NoRow ELSE row_index[c] \in Rows /\ CellRead(c)
  /\ phase = "read" => \A r \in Rows : clusters[r] = <<>>
  /\ phase \in {"write", "done"} => todo = {}
  /\ phase \in {"read", "place"} => nextRow = 0
  /\ phase = "write" => nextRow < NumRows
  /\ phase = "done" => nextRow = NumRows

BaseInv == TypeOK /\ Phases

Widths == [c \in Cells |-> cell[c].width]

\* The width of some cells as a sum over them.
LEMMA WidthOfSum ==
  ASSUME TypeOK, NEW S \in SUBSET Cells
  PROVE  /\ WidthOf(S) = SumFunctionOnSet(Widths, S)
         /\ IsFiniteSet(S) /\ WidthOf(S) \in Int
         /\ \A c \in Cells : Widths[c] \in Int /\ Widths[c] >= 0
<1>1. WidthOf(S) = SumFunctionOnSet([c \in S |-> cell[c].width], S)
  BY DEF WidthOf, SumFunctionOnSet, FoldFunctionOnSet, MapThenFoldSet, MapThenSumSet
<1>2. IsFiniteSet(S)
  BY CellsAssumption, FS_Subset
<1>3. SumFunctionOnSet([c \in S |-> cell[c].width], S) = SumFunctionOnSet(Widths, S)
  BY <1>2, SumSame DEF Widths
<1>4. \A c \in Cells : Widths[c] \in Int /\ Widths[c] >= 0
  BY CellsAssumption DEF Widths, TypeOK, Unread
<1>5. SumFunctionOnSet(Widths, S) \in Int
  BY <1>2, <1>4, SumType
<1>. QED  BY <1>1, <1>2, <1>3, <1>4, <1>5

\* The site a cluster is moved to has an integer coordinate.
LEMMA SnappedType ==
  ASSUME NEW r \in Rows, NEW k \in Cluster
  PROVE  SnappedX(r, k) \in Int /\ Snapped(r, k) \in Cluster
<1>1. PICK y, w, m, s : y = k.x /\ w = k.weight /\ m = MinX[r] /\ s = SiteWidth
  OBVIOUS
<1>2. y \in Int /\ w \in Int /\ w > 0 /\ m \in Int /\ s \in Int /\ s > 0
  BY <1>1, RowsAssumption DEF Cluster, Positive
<1>3. PICK shift, site : shift = y - m * w /\ site = s * w
  OBVIOUS
<1>4. shift \in Int /\ site \in Int /\ site > 0
  BY <1>2, <1>3
<1>5. PICK left, rest : left = shift \div site /\ rest = shift % site
  OBVIOUS
<1>6. left \in Int /\ rest \in Int
  BY <1>4, <1>5
<1>7. PICK index : index = IF 2 * rest <= site THEN left ELSE left + 1
  OBVIOUS
<1>8. index \in Int /\ m + index * s \in Int
  BY <1>2, <1>6, <1>7
<1>9. SnappedX(r, k) = m + index * s
  BY <1>1, <1>3, <1>5, <1>7 DEF SnappedX
<1>10. PICK x : x = SnappedX(r, k)
  OBVIOUS
<1>11. x \in Int /\ x * w \in Int
  BY <1>2, <1>8, <1>9, <1>10
<1>12. Snapped(r, k) \in Cluster
  BY <1>1, <1>10, <1>11 DEF Snapped, Cluster
<1>. QED  BY <1>10, <1>11, <1>12

\* The members of the clusters of a row, and the place of one in its cluster.
LEMMA MemberOfRow ==
  ASSUME TypeOK, NEW r \in Rows
  PROVE  /\ MembersOf(r) \in SUBSET Cells
         /\ \A c \in MembersOf(r) :
              /\ \E j \in DOMAIN clusters[r] : ClusterOf(r, c) = clusters[r][j]
              /\ ClusterOf(r, c) \in Cluster
              /\ c \in ToSet(ClusterOf(r, c).member)
<1>1. clusters[r] \in Seq(Cluster)
  BY DEF TypeOK
<1>2. \A k \in ToSet(clusters[r]) :
        k \in Cluster /\ \E j \in DOMAIN clusters[r] : k = clusters[r][j]
  BY <1>1 DEF ToSet
<1>3. \A k \in Cluster : ToSet(k.member) \in SUBSET Cells
  BY DEF Cluster, ToSet
<1>4. MembersOf(r) \in SUBSET Cells
  BY <1>2, <1>3 DEF MembersOf
<1>5. ASSUME NEW c \in MembersOf(r)
      PROVE  ClusterOf(r, c) \in ToSet(clusters[r]) /\ c \in ToSet(ClusterOf(r, c).member)
  <2>1. \E k \in ToSet(clusters[r]) : c \in ToSet(k.member)
    BY <1>5 DEF MembersOf
  <2>. QED  BY <2>1 DEF ClusterOf
<1>. QED  BY <1>2, <1>4, <1>5

\* The place of a member in its cluster.
LEMMA PlaceInCluster ==
  ASSUME NEW k \in Cluster, NEW c \in ToSet(k.member)
  PROVE  /\ IndexIn(k, c) \in 1 .. Len(k.member) /\ k.member[IndexIn(k, c)] = c
         /\ {k.member[i] : i \in 1 .. IndexIn(k, c) - 1} \in SUBSET Cells
<1>1. k.member \in Seq(Cells)
  BY DEF Cluster
<1>2. \E i \in 1 .. Len(k.member) : k.member[i] = c
  BY <1>1 DEF ToSet
<1>3. IndexIn(k, c) \in 1 .. Len(k.member) /\ k.member[IndexIn(k, c)] = c
  BY <1>2 DEF IndexIn
<1>4. \A i \in 1 .. IndexIn(k, c) - 1 : i \in 1 .. Len(k.member)
  BY <1>1, <1>3
<1>. QED  BY <1>1, <1>3, <1>4

\* A cell is written at an integer coordinate.
LEMMA WrittenType ==
  ASSUME TypeOK, NEW r \in Rows, NEW c \in MembersOf(r)
  PROVE  WrittenX(r, c) \in Int
<1>1. PICK k : k = ClusterOf(r, c)
  OBVIOUS
<1>2. k \in Cluster /\ c \in ToSet(k.member)
  BY <1>1, MemberOfRow
<1>3. PICK S : S = {k.member[i] : i \in 1 .. IndexIn(k, c) - 1}
  OBVIOUS
<1>4. S \in SUBSET Cells
  BY <1>2, <1>3, PlaceInCluster
<1>5. OffsetIn(k, c) \in Int
  BY <1>3, <1>4, WidthOfSum DEF OffsetIn
<1>. QED  BY <1>1, <1>2, <1>5, SnappedType DEF WrittenX

\* getRowIdx chooses a row (see ChosenRow).
LEMMA PlacementType ==
  ASSUME TypeOK, NEW r \in Rows, NEW c \in Cells, CellRead(c)
  PROVE  /\ placeRowTrail(r, c) \in Int \X Positive
         /\ WithCell(r, c) \in Seq(Cluster)
<1>1. PICK x, w : x = ClampedX(r, c) /\ w = cell[c].width
  OBVIOUS
<1>2. x \in Int /\ w \in Int /\ w \in Positive
  BY <1>1, AskedFor
<1>3. CASE placeRowTrail(r, c) = <<x, 1>> /\ WithCell(r, c) = Append(clusters[r], NewCluster(x, c))
  <2>1. x * w \in Int /\ w * x \in Int
    BY <1>2
  <2>2. NewCluster(x, c) \in Cluster
    BY <1>1, <1>2, <2>1 DEF NewCluster, Cluster
  <2>3. clusters[r] \in Seq(Cluster)
    BY DEF TypeOK
  <2>. QED  BY <1>2, <1>3, <2>2, <2>3 DEF Positive
<1>4. CASE \E t, done :
             /\ Matches(r, t, done)
             /\ placeRowTrail(r, c) =
                  <<ClampedQ(r, t.q, t.weight, t.width) + (t.width - w) * t.weight,
                    t.weight>>
             /\ WithCell(r, c) = done
  <2>1. PICK t, done :
             /\ Matches(r, t, done)
             /\ placeRowTrail(r, c) =
                  <<ClampedQ(r, t.q, t.weight, t.width) + (t.width - w) * t.weight,
                    t.weight>>
             /\ WithCell(r, c) = done
    BY <1>4
  <2>2. PICK k : k = done[Len(done)]
    OBVIOUS
  <2>3. /\ done \in Seq(Cluster) /\ t \in Trial /\ k \in Cluster
        /\ k.x = ClampedQ(r, t.q, t.weight, t.width)
    BY <2>1, <2>2 DEF Matches, Rounds
  <2>4. PICK d, v : d = t.width - w /\ v = t.weight
    OBVIOUS
  <2>5. d \in Int /\ v \in Int /\ v \in Positive /\ k.x \in Int
    BY <1>2, <2>3, <2>4 DEF Trial, Cluster, Positive
  <2>6. k.x + d * v \in Int
    BY <2>5
  <2>. QED  BY <2>1, <2>3, <2>4, <2>5, <2>6
<1>. QED  BY <1>1, <1>3, <1>4, Placement

-----------------------------------------------------------------------------
(***************************************************************************)
(* Choosing a row.  What Min and Max of the rows found name are rows with  *)
(* room, and the rows chosen are those the code looks for first.           *)
(***************************************************************************)

\* Min names the lowest of a non-empty set of rows.
LEMMA MinOfRows ==
  ASSUME NEW S \in SUBSET Rows, S # {}
  PROVE  Min(S) \in S /\ \A y \in S : Min(S) =< y
<1>1. S \in SUBSET Nat
  BY RowsAssumption DEF Rows
<1>. QED  BY <1>1, LeastOfNats

\* Max names the highest of a non-empty set of rows.
LEMMA MaxOfRows ==
  ASSUME NEW S \in SUBSET Rows, S # {}
  PROVE  Max(S) \in S /\ \A y \in S : y =< Max(S)
<1>. DEFINE T == {r \in Rows : NumRows - 1 - r \in S}
<1>1. \A r \in S : r \in Rows /\ NumRows - 1 - r \in T
  BY RowsAssumption DEF Rows
<1>2. T \in SUBSET Rows /\ T # {}
  BY <1>1
<1>3. Min(T) \in T
  <2>. HIDE DEF T
  <2>. QED  BY <1>2, MinOfRows
<1>4. \A t \in T : Min(T) =< t
  <2>. HIDE DEF T
  <2>. QED  BY <1>2, MinOfRows
<1>. DEFINE m == NumRows - 1 - Min(T)
<1>5. m \in S
  BY <1>3
<1>6. ASSUME NEW y \in S
      PROVE  m >= y
  <2>1. y \in Rows /\ NumRows - 1 - y \in T
    BY <1>1
  <2>2. Min(T) =< NumRows - 1 - y
    BY <1>4, <2>1
  <2>3. Min(T) \in Int /\ y \in Int /\ NumRows \in Int
    BY <1>3, <2>1, RowsAssumption DEF Rows
  <2>. QED  BY <2>2, <2>3
<1>. HIDE DEF m
<1>. QED  BY <1>5, <1>6 DEF Max

\* getRowIdx returns the cell's own row, or a row of the cell's height that
\* has room for it.
LEMMA ChosenRow ==
  ASSUME BaseInv, NEW c \in Cells, phase # "read"
  PROVE  /\ getRowIdx(c) \in Rows
         /\ getRowIdx(c) # row_index[c] => HasRoom(c, getRowIdx(c))
         /\ getRowIdx(c) = row_index[c] =>
              StaysInRow(c) \/ (UpperRows(c) = {} /\ LowerRows(c) = {})
<1>1. row_index[c] \in Rows
  BY DEF BaseInv, Phases
<1>2. UpperRows(c) \in SUBSET Rows /\ LowerRows(c) \in SUBSET Rows
  BY DEF UpperRows, LowerRows
<1>3. UpperRows(c) # {} =>
        /\ Min(UpperRows(c)) \in Rows
        /\ HasRoom(c, Min(UpperRows(c)))
        /\ Min(UpperRows(c)) # row_index[c]
  <2>1. UpperRows(c) # {} => Min(UpperRows(c)) \in UpperRows(c)
    BY <1>2, MinOfRows
  <2>2. \A r \in UpperRows(c) : r \in Rows /\ HasRoom(c, r) /\ r # row_index[c]
    BY <1>1, RowsAssumption DEF UpperRows, Rows
  <2>. QED  BY <2>1, <2>2
<1>4. LowerRows(c) # {} =>
        /\ Max(LowerRows(c)) \in Rows
        /\ HasRoom(c, Max(LowerRows(c)))
        /\ Max(LowerRows(c)) # row_index[c]
  <2>1. LowerRows(c) # {} => Max(LowerRows(c)) \in LowerRows(c)
    BY <1>2, MaxOfRows
  <2>2. \A r \in LowerRows(c) : r \in Rows /\ HasRoom(c, r) /\ r # row_index[c]
    BY <1>1, RowsAssumption DEF LowerRows, Rows
  <2>. QED  BY <2>1, <2>2
<1>5. UpperIsCloser(c) => UpperRows(c) # {}
  BY DEF UpperIsCloser
<1>6. LowerRows(c) = {} /\ UpperRows(c) # {} => UpperIsCloser(c)
  BY DEF UpperIsCloser
<1>7. CASE StaysInRow(c)
  BY <1>1, <1>7 DEF getRowIdx
<1>8. CASE ~StaysInRow(c) /\ UpperIsCloser(c)
  <2>1. getRowIdx(c) = Min(UpperRows(c))
    BY <1>8 DEF getRowIdx
  <2>. QED  BY <2>1, <1>8, <1>3, <1>5
<1>9. CASE ~StaysInRow(c) /\ ~UpperIsCloser(c) /\ LowerRows(c) # {}
  <2>1. getRowIdx(c) = Max(LowerRows(c))
    BY <1>9 DEF getRowIdx
  <2>. QED  BY <2>1, <1>9, <1>4
<1>10. CASE ~StaysInRow(c) /\ ~UpperIsCloser(c) /\ LowerRows(c) = {}
  <2>1. getRowIdx(c) = row_index[c]
    BY <1>10 DEF getRowIdx
  <2>. QED  BY <2>1, <1>1, <1>6, <1>10
<1>. QED  BY <1>7, <1>8, <1>9, <1>10

-----------------------------------------------------------------------------
\* The types hold, and the phases come, as declared at the start.
LEMMA InitBase == Init => BaseInv
<1>. SUFFICES ASSUME Init PROVE BaseInv
  OBVIOUS
<1>1. \A r \in Rows : MaxX[r] - MinX[r] \in Int
  BY RowsAssumption
<1>2. 0 \in 0 .. NumRows /\ "8T" \in Heights /\ <<0, 1>> \in Int \X Positive
      /\ Unwritten \in [x : Int, y : Int, written : BOOLEAN]
      /\ <<>> \in Seq(Cluster)
  BY RowsAssumption DEF Heights, Positive, Unwritten
<1>3. TypeOK
  BY <1>1, <1>2 DEF Init, TypeOK
<1>4. Phases
  BY DEF Init, Phases
<1>. QED  BY <1>3, <1>4 DEF BaseInv

\* Every step keeps them: one step per action.
LEMMA NextBase == BaseInv /\ [Next]_vars => BaseInv'
<1>. SUFFICES ASSUME BaseInv, [Next]_vars PROVE BaseInv'
  OBVIOUS
<1>. USE DEF BaseInv
<1>1. ASSUME NEW c \in Cells, NEW i \in CellInputs, NEW r \in Rows,
             ReadCell(c, i, r)
      PROVE  BaseInv'
  <2>1. i.width \in Int
    BY CellsAssumption
  <2>2. TypeOK'
    BY <1>1, <2>1 DEF ReadCell, TypeOK
  <2>3. Phases'
    <3>1. \A d \in Cells : (phase = "read" /\ d \in todo)' => row_index'[d] = NoRow
      BY <1>1 DEF ReadCell, TypeOK, Phases
    <3>2. \A d \in Cells : ~(phase = "read" /\ d \in todo)' => row_index'[d] \in Rows /\ CellRead(d)'
      BY <1>1 DEF ReadCell, TypeOK, Phases, CellRead
    <3>. QED  BY <1>1, <3>1, <3>2 DEF ReadCell, Phases
  <2>. QED  BY <2>2, <2>3
<1>2. ASSUME SetRowHeights
      PROVE  BaseInv'
  <2>1. TypeOK'
    BY <1>2, RowsAssumption DEF SetRowHeights, TypeOK
  <2>2. Phases'
    BY <1>2 DEF SetRowHeights, Phases, CellRead
  <2>. QED  BY <2>1, <2>2
<1>3. ASSUME NEW c \in Cells, PlaceCell(c)
      PROVE  BaseInv'
  <2>1. PICK r : r = getRowIdx(c)
    OBVIOUS
  <2>2. r \in Rows /\ row_index[c] \in Rows /\ CellRead(c) /\ phase = "place"
    BY <1>3, <2>1, ChosenRow DEF PlaceCell, Phases
  <2>3. cell[c].width \in Int
    BY <2>2, AskedFor
  <2>4. PICK p, ks : p = placeRowTrail(r, c) /\ ks = WithCell(r, c)
    OBVIOUS
  <2>5. p \in Int \X Positive /\ ks \in Seq(Cluster)
    BY <2>2, <2>4, PlacementType
  <2>6. /\ optimalX' = [optimalX EXCEPT ![c] = p]
        /\ clusters' = [clusters EXCEPT ![r] = ks]
        /\ row_index' = [row_index EXCEPT ![c] = r]
        /\ freeWidth' = [freeWidth EXCEPT ![r] = @ - cell[c].width]
        /\ row_density_map' = [row_density_map EXCEPT
                           ![row_index[c]] = @ - cell[c].width,
                           ![r] = @ + cell[c].width]
        /\ todo' = todo \ {c}
        /\ phase' = IF todo = {c} THEN "write" ELSE "place"
        /\ UNCHANGED <<cell, cell_height, nextRow, def_data>>
    BY <1>3, <2>1, <2>4 DEF PlaceCell, placeRowFinal, input
  <2>7. TypeOK'
    <3>0. row_density_map \in [Rows -> Int] /\ freeWidth \in [Rows -> Int]
      BY DEF TypeOK
    <3>1. row_density_map' \in [Rows -> Int]
      <4>1. PICK w, from : w = cell[c].width /\ from = row_index[c]
        OBVIOUS
      <4>2. /\ row_density_map' = [row_density_map EXCEPT ![from] = @ - w, ![r] = @ + w]
            /\ w \in Int /\ from \in Rows
        BY <2>2, <2>3, <2>6, <4>1
      <4>. QED  BY <2>2, <3>0, <4>2
    <3>2. freeWidth' \in [Rows -> Int]
      BY <2>2, <2>3, <2>6, <3>0
    <3>3. optimalX' \in [Cells -> Int \X Positive] /\ clusters' \in [Rows -> Seq(Cluster)]
      BY <2>5, <2>6 DEF TypeOK
    <3>. QED  BY <2>2, <2>6, <3>1, <3>2, <3>3 DEF TypeOK
  <2>8. Phases'
    <3>1. \A d \in Cells : row_index'[d] \in Rows /\ CellRead(d)'
      BY <2>2, <2>6 DEF Phases, TypeOK, CellRead
    <3>2. nextRow' = 0 /\ 0 < NumRows /\ phase' \in {"write", "place"}
      BY <2>2, <2>6, RowsAssumption DEF Phases
    <3>3. phase' = "write" => todo' = {}
      BY <2>6
    <3>. QED  BY <3>1, <3>2, <3>3 DEF Phases
  <2>. QED  BY <2>7, <2>8
<1>4. ASSUME NEW r \in Rows, DeterminePosition(r)
      PROVE  BaseInv'
  <2>1. \A c \in MembersOf(r) : WrittenX(r, c) \in Int /\ RowY[r] \in Int
    BY WrittenType, RowsAssumption
  <2>2. PICK ks : ks = [i \in 1 .. Len(clusters[r]) |-> Snapped(r, clusters[r][i])]
    OBVIOUS
  <2>3. ks \in Seq(Cluster)
    <3>1. clusters[r] \in Seq(Cluster)
      BY DEF TypeOK
    <3>2. \A i \in 1 .. Len(clusters[r]) : Snapped(r, clusters[r][i]) \in Cluster
      BY <3>1, SnappedType
    <3>. QED  BY <2>2, <3>1, <3>2
  <2>4. /\ clusters' = [clusters EXCEPT ![r] = ks]
        /\ optimalX' = [c \in Cells |->
             IF c \in MembersOf(r) THEN <<WrittenX(r, c), 1>> ELSE optimalX[c]]
        /\ def_data' = [c \in Cells |->
             IF c \in MembersOf(r)
             THEN [x |-> WrittenX(r, c), y |-> RowY[r], written |-> TRUE]
             ELSE def_data[c]]
        /\ phase = "write" /\ nextRow = r
        /\ nextRow' = nextRow + 1
        /\ phase' = IF nextRow' = NumRows THEN "done" ELSE "write"
        /\ UNCHANGED <<cell, cell_height, todo, row_index, row_density_map, freeWidth>>
    BY <1>4, <2>2 DEF DeterminePosition, input
  <2>5. nextRow' \in 0 .. NumRows
    BY <2>4, RowsAssumption DEF Rows
  <2>6. optimalX' \in [Cells -> Int \X Positive]
    <3>1. \A c \in MembersOf(r) : <<WrittenX(r, c), 1>> \in Int \X Positive
      BY <2>1 DEF Positive
    <3>. QED  BY <2>4, <3>1 DEF TypeOK
  <2>7. def_data' \in [Cells -> [x : Int, y : Int, written : BOOLEAN]]
    BY <2>1, <2>4 DEF TypeOK
  <2>8. TypeOK'
    BY <2>3, <2>4, <2>5, <2>6, <2>7 DEF TypeOK
  <2>9. Phases'
    <3>1. \A d \in Cells : row_index'[d] \in Rows /\ CellRead(d)'
      BY <2>4 DEF Phases, CellRead
    <3>2. phase' \in {"write", "done"} /\ todo' = {}
      BY <2>4 DEF Phases
    <3>3. phase' = "write" => nextRow' < NumRows
      BY <2>4, <2>5, RowsAssumption
    <3>4. phase' = "done" => nextRow' = NumRows
      BY <2>4
    <3>. QED  BY <3>1, <3>2, <3>3, <3>4 DEF Phases
  <2>. QED  BY <2>8, <2>9
<1>5. CASE Stop \/ UNCHANGED vars
  <2>1. UNCHANGED vars
    BY <1>5 DEF Stop
  <2>2. TypeOK'
    BY <2>1 DEF vars, TypeOK
  <2>3. Phases'
    BY <2>1 DEF vars, Phases, CellRead
  <2>. QED  BY <2>2, <2>3
<1>. QED  BY <1>1, <1>2, <1>3, <1>4, <1>5 DEF Next

\* The types and the phases hold in every state.
THEOREM BaseAlways == Spec => []BaseInv
BY InitBase, NextBase, PTL DEF Spec

\* TypeOK.
THEOREM TypeCorrect == Spec => []TypeOK
<1>1. BaseInv => TypeOK
  BY DEF BaseInv
<1>. QED  BY <1>1, BaseAlways, PTL

-----------------------------------------------------------------------------
(***************************************************************************)
(* Row accounting, as sums over the cells of a row.                        *)
(***************************************************************************)
Accounted(r) ==
  /\ row_density_map[r] = SumFunctionOnSet(Widths, CellsOf(r))
  /\ freeWidth[r] = MaxX[r] - MinX[r] - SumFunctionOnSet(Widths, CellsOf(r) \cap Placed)

AccountingInv == \A r \in Rows : Accounted(r)

\* The cells of a row are finitely many cells.
LEMMA RowCells ==
  ASSUME TypeOK
  PROVE  /\ \A r : CellsOf(r) \in SUBSET Cells /\ IsFiniteSet(CellsOf(r))
         /\ \A r : IsFiniteSet(CellsOf(r) \cap Placed)
         /\ \A c \in Cells : Widths[c] \in Int /\ Widths[c] >= 0
<1>1. \A r : CellsOf(r) \in SUBSET Cells /\ CellsOf(r) \cap Placed \in SUBSET Cells
  BY DEF CellsOf
<1>2. \A S \in SUBSET Cells : IsFiniteSet(S)
  BY CellsAssumption, FS_Subset
<1>. QED  BY <1>1, <1>2, WidthOfSum

\* A step that moves no cell keeps the accounts.
LEMMA AccountsKept ==
  ASSUME AccountingInv,
         UNCHANGED <<cell, row_index, row_density_map, freeWidth>>, Placed' = Placed
  PROVE  AccountingInv'
<1>1. Widths' = Widths /\ \A r : CellsOf(r)' = CellsOf(r)
  BY DEF Widths, CellsOf
<1>. QED  BY <1>1 DEF AccountingInv, Accounted

\* Reading a cell adds its width to the row it lies on.
LEMMA AccountsReadCell ==
  ASSUME BaseInv, AccountingInv, NEW c \in Cells, NEW i \in CellInputs, NEW s \in Rows,
         ReadCell(c, i, s)
  PROVE  AccountingInv'
<1>1. /\ phase = "read" /\ phase' = "read" /\ c \in todo
      /\ cell' = [cell EXCEPT ![c] = i] /\ row_index' = [row_index EXCEPT ![c] = s]
      /\ row_density_map' = [row_density_map EXCEPT ![s] = @ + i.width]
      /\ freeWidth' = freeWidth
  BY DEF ReadCell
<1>2. i.width \in Int /\ row_index[c] = NoRow /\ NoRow \notin Rows
  BY <1>1, CellsAssumption DEF BaseInv, Phases, NoRow, Rows
<1>3. Widths'[c] = i.width /\ \A d \in Cells \ {c} : Widths'[d] = Widths[d]
  BY <1>1 DEF Widths, BaseInv, TypeOK
<1>. SUFFICES ASSUME NEW r \in Rows PROVE Accounted(r)'
  BY DEF AccountingInv
<1>4. PICK S : S = CellsOf(r)
  OBVIOUS
<1>5. /\ S \in SUBSET Cells /\ IsFiniteSet(S) /\ c \notin S
      /\ \A d \in S : Widths'[d] = Widths[d] /\ Widths'[d] \in Int
  BY <1>2, <1>3, <1>4, RowCells DEF BaseInv, CellsOf
<1>6. SumFunctionOnSet(Widths, S) = SumFunctionOnSet(Widths', S)
  BY <1>5, SumSame
<1>7. row_density_map'[r] = SumFunctionOnSet(Widths', CellsOf(r)')
  <2>1. CASE r = s
    <3>1. CellsOf(r)' = S \cup {c}
      BY <1>1, <1>4, <2>1 DEF CellsOf, BaseInv, TypeOK
    <3>2. SumFunctionOnSet(Widths', S \cup {c}) = SumFunctionOnSet(Widths', S) + i.width
      BY <1>2, <1>3, <1>5, SumAdd
    <3>3. row_density_map'[r] = row_density_map[r] + i.width
      BY <1>1, <2>1 DEF BaseInv, TypeOK
    <3>. QED  BY <1>4, <1>6, <3>1, <3>2, <3>3 DEF AccountingInv, Accounted
  <2>2. CASE r # s
    <3>1. CellsOf(r)' = S
      BY <1>1, <1>2, <1>4, <2>2 DEF CellsOf, BaseInv, TypeOK
    <3>2. row_density_map'[r] = row_density_map[r]
      BY <1>1, <2>2 DEF BaseInv, TypeOK
    <3>. QED  BY <1>4, <1>6, <3>1, <3>2 DEF AccountingInv, Accounted
  <2>. QED  BY <2>1, <2>2
<1>8. Placed = {} /\ Placed' = {}
  BY <1>1 DEF Placed
<1>9. freeWidth'[r] = MaxX[r] - MinX[r] - SumFunctionOnSet(Widths', (CellsOf(r) \cap Placed)')
  <2>1. CellsOf(r) \cap Placed = {} /\ (CellsOf(r) \cap Placed)' = {}
    BY <1>8
  <2>2. SumFunctionOnSet(Widths, {}) = 0 /\ SumFunctionOnSet(Widths', {}) = 0
    BY SumEmpty
  <2>3. freeWidth[r] = MaxX[r] - MinX[r] - SumFunctionOnSet(Widths, CellsOf(r) \cap Placed)
    BY DEF AccountingInv, Accounted
  <2>. QED  BY <1>1, <2>1, <2>2, <2>3
<1>. QED  BY <1>7, <1>9 DEF Accounted

\* Placing a cell moves its width to the row it is placed in.
LEMMA AccountsPlaceCell ==
  ASSUME BaseInv, AccountingInv, NEW c \in Cells, PlaceCell(c)
  PROVE  AccountingInv'
<1>1. PICK s, d, w : s = getRowIdx(c) /\ d = row_index[c] /\ w = cell[c].width
  OBVIOUS
<1>2. /\ phase = "place" /\ phase' = IF todo = {c} THEN "write" ELSE "place"
      /\ c \in todo /\ todo' = todo \ {c}
      /\ cell' = cell /\ row_index' = [row_index EXCEPT ![c] = s]
      /\ row_density_map' = [row_density_map EXCEPT ![d] = @ - w, ![s] = @ + w]
      /\ freeWidth' = [freeWidth EXCEPT ![s] = @ - w]
  BY <1>1 DEF PlaceCell, placeRowFinal, input
<1>3. s \in Rows /\ d \in Rows /\ w \in Int
  BY <1>1, <1>2, ChosenRow, RowCells DEF BaseInv, Phases, Widths
<1>4. Widths' = Widths /\ Widths[c] = w
  BY <1>1, <1>2 DEF Widths
<1>5. Placed' = Placed \cup {c} /\ c \notin Placed
  BY <1>2 DEF Placed
<1>. SUFFICES ASSUME NEW r \in Rows PROVE Accounted(r)'
  BY DEF AccountingInv
<1>6. PICK S, T : S = CellsOf(r) /\ T = CellsOf(r) \cap Placed
  OBVIOUS
<1>7. /\ S \in SUBSET Cells /\ IsFiniteSet(S) /\ (c \in S <=> r = d)
      /\ T \in SUBSET Cells /\ IsFiniteSet(T) /\ c \notin T
      /\ \A e \in Cells : Widths[e] \in Int
  BY <1>1, <1>5, <1>6, RowCells DEF BaseInv, CellsOf
<1>8. /\ row_density_map[r] = SumFunctionOnSet(Widths, S) /\ row_density_map[r] \in Int
      /\ freeWidth[r] = MaxX[r] - MinX[r] - SumFunctionOnSet(Widths, T)
      /\ MaxX[r] - MinX[r] \in Int /\ SumFunctionOnSet(Widths, T) \in Int
  <2>1. Accounted(r)
    BY DEF AccountingInv
  <2>2. SumFunctionOnSet(Widths, T) \in Int
    BY <1>7, SumType
  <2>. QED  BY <1>6, <2>1, <2>2, RowsAssumption DEF Accounted, BaseInv, TypeOK
<1>9. row_density_map'[r] = SumFunctionOnSet(Widths, CellsOf(r)')
  <2>1. CASE r = s /\ r # d
    <3>1. CellsOf(r)' = S \cup {c}
      BY <1>2, <1>6, <2>1 DEF CellsOf, BaseInv, TypeOK
    <3>2. SumFunctionOnSet(Widths, S \cup {c}) = SumFunctionOnSet(Widths, S) + w
      BY <1>3, <1>4, <1>7, <2>1, SumAdd
    <3>3. row_density_map'[r] = row_density_map[r] + w
      BY <1>2, <1>3, <2>1 DEF BaseInv, TypeOK
    <3>. QED  BY <1>8, <3>1, <3>2, <3>3
  <2>2. CASE r # s /\ r = d
    <3>1. CellsOf(r)' = S \ {c}
      BY <1>2, <1>6, <2>2 DEF CellsOf, BaseInv, TypeOK
    <3>2. SumFunctionOnSet(Widths, S \ {c}) = SumFunctionOnSet(Widths, S) - w
      BY <1>3, <1>4, <1>7, <2>2, SumRemove
    <3>3. row_density_map'[r] = row_density_map[r] - w
      BY <1>2, <1>3, <2>2 DEF BaseInv, TypeOK
    <3>. QED  BY <1>8, <3>1, <3>2, <3>3
  <2>3. CASE r = s <=> r = d
    <3>1. CellsOf(r)' = S
      BY <1>1, <1>2, <1>3, <1>6, <2>3 DEF CellsOf, BaseInv, TypeOK
    <3>2. row_density_map'[r] = row_density_map[r]
      <4>1. CASE r # s /\ r # d
        BY <1>2, <1>3, <4>1 DEF BaseInv, TypeOK
      <4>2. CASE r = s /\ r = d
        <5>1. row_density_map'[r] = row_density_map[r] - w + w
          BY <1>2, <1>3, <4>2 DEF BaseInv, TypeOK
        <5>. QED  BY <1>3, <1>8, <5>1
      <4>. QED  BY <2>3, <4>1, <4>2
    <3>. QED  BY <1>8, <3>1, <3>2
  <2>. QED  BY <2>1, <2>2, <2>3
<1>10. freeWidth'[r] = MaxX[r] - MinX[r] - SumFunctionOnSet(Widths, (CellsOf(r) \cap Placed)')
  <2>1. CASE r = s
    <3>1. (CellsOf(r) \cap Placed)' = T \cup {c}
      BY <1>1, <1>2, <1>5, <1>6, <2>1 DEF CellsOf, BaseInv, TypeOK
    <3>2. SumFunctionOnSet(Widths, T \cup {c}) = SumFunctionOnSet(Widths, T) + w
      BY <1>3, <1>4, <1>7, SumAdd
    <3>3. freeWidth'[r] = freeWidth[r] - w
      BY <1>2, <1>3, <2>1 DEF BaseInv, TypeOK
    <3>4. PICK m, v : m = MaxX[r] - MinX[r] /\ v = SumFunctionOnSet(Widths, T)
      OBVIOUS
    <3>5. m \in Int /\ v \in Int /\ freeWidth[r] = m - v
      BY <1>8, <3>4
    <3>6. freeWidth'[r] = m - (v + w)
      BY <1>3, <3>3, <3>5
    <3>. QED  BY <3>1, <3>2, <3>4, <3>6
  <2>2. CASE r # s
    <3>1. (CellsOf(r) \cap Placed)' = T
      BY <1>1, <1>2, <1>5, <1>6, <2>2 DEF CellsOf, BaseInv, TypeOK
    <3>2. freeWidth'[r] = freeWidth[r]
      BY <1>2, <1>3, <2>2 DEF BaseInv, TypeOK
    <3>. QED  BY <1>8, <3>1, <3>2
  <2>. QED  BY <2>1, <2>2
<1>. QED  BY <1>4, <1>9, <1>10 DEF Accounted

\* The accounts are exact at the start, with no cell read.
LEMMA InitAccounts == Init => AccountingInv
<1>. SUFFICES ASSUME Init, NEW r \in Rows PROVE Accounted(r)
  BY DEF AccountingInv
<1>1. CellsOf(r) = {} /\ CellsOf(r) \cap Placed = {}
  BY DEF Init, CellsOf, NoRow, Rows
<1>2. SumFunctionOnSet(Widths, {}) = 0
  BY SumEmpty
<1>3. MaxX[r] - MinX[r] \in Int
  BY RowsAssumption
<1>. QED  BY <1>1, <1>2, <1>3 DEF Init, Accounted

\* Every step keeps them exact.
LEMMA NextAccounts == BaseInv /\ AccountingInv /\ [Next]_vars => AccountingInv'
<1>. SUFFICES ASSUME BaseInv, AccountingInv, [Next]_vars PROVE AccountingInv'
  OBVIOUS
<1>1. CASE SetRowHeights
  <2>1. Placed = {} /\ Placed' = {}
    BY <1>1 DEF SetRowHeights, Placed
  <2>. QED  BY <1>1, <2>1, AccountsKept DEF SetRowHeights
<1>2. ASSUME NEW r \in Rows, DeterminePosition(r)
      PROVE  AccountingInv'
  <2>1. Placed' = Placed
    BY <1>2 DEF DeterminePosition, Placed
  <2>. QED  BY <1>2, <2>1, AccountsKept DEF DeterminePosition, input
<1>3. CASE Stop \/ UNCHANGED vars
  <2>1. Placed' = Placed
    BY <1>3 DEF Stop, vars, Placed
  <2>. QED  BY <1>3, <2>1, AccountsKept DEF Stop, vars
<1>. QED  BY <1>1, <1>2, <1>3, AccountsReadCell, AccountsPlaceCell DEF Next

\* The sums are those of RowAccounting.
LEMMA AccountsAreExact == BaseInv /\ AccountingInv => RowAccounting
<1>. SUFFICES ASSUME BaseInv, AccountingInv, NEW r \in Rows
              PROVE  /\ row_density_map[r] = WidthOf(CellsOf(r))
                     /\ freeWidth[r] = MaxX[r] - MinX[r] - WidthOf(CellsOf(r) \cap Placed)
  BY DEF RowAccounting
<1>1. CellsOf(r) \in SUBSET Cells /\ CellsOf(r) \cap Placed \in SUBSET Cells
  BY DEF CellsOf
<1>2. PICK S, T : S = CellsOf(r) /\ T = CellsOf(r) \cap Placed
  OBVIOUS
<1>3. WidthOf(S) = SumFunctionOnSet(Widths, S) /\ WidthOf(T) = SumFunctionOnSet(Widths, T)
  BY <1>1, <1>2, WidthOfSum DEF BaseInv
<1>. QED  BY <1>2, <1>3 DEF AccountingInv, Accounted

(***************************************************************************)
(* Whatever moves between the rows, row_density_map is the width of the    *)
(* cells that belong to a row, freeWidth what the placed ones leave.       *)
(***************************************************************************)
THEOREM RowsAccounted == Spec => []RowAccounting
<1>1. Spec => []AccountingInv
  BY BaseAlways, InitAccounts, NextAccounts, PTL DEF Spec
<1>. QED  BY <1>1, BaseAlways, AccountsAreExact, PTL

-----------------------------------------------------------------------------
(***************************************************************************)
(* The nearest row.  getRowIdx looks at one row above and one below; with  *)
(* rows in order (RowsApart) these two are the nearest with room.          *)
(***************************************************************************)

\* A cell that is not placed yet lies on the row it is accounted to.
Located ==
  \A c \in Cells :
    IF phase = "read" THEN c \notin todo => RowAt(cell[c].y, row_index[c])
    ELSE phase = "place" /\ c \in todo => RowAt(cell[c].y, row_index[c])

\* At the start no cell is read.
LEMMA InitLocated == Init => Located
BY DEF Init, Located

\* A cell is read to the row it lies on, and only moved when it is placed.
LEMMA NextLocated == BaseInv /\ Located /\ [Next]_vars => Located'
<1>. SUFFICES ASSUME BaseInv, Located, [Next]_vars PROVE Located'
  OBVIOUS
<1>1. ASSUME NEW c \in Cells, NEW i \in CellInputs, NEW r \in Rows, ReadCell(c, i, r)
      PROVE  Located'
  <2>1. cell'[c] = i /\ row_index'[c] = r /\ RowAt(i.y, r)
    BY <1>1 DEF ReadCell, BaseInv, TypeOK
  <2>2. \A d \in Cells \ {c} : cell'[d] = cell[d] /\ row_index'[d] = row_index[d]
    BY <1>1 DEF ReadCell, BaseInv, TypeOK
  <2>3. phase = "read" /\ phase' = "read" /\ todo' = todo \ {c}
    BY <1>1 DEF ReadCell
  <2>. QED  BY <2>1, <2>2, <2>3 DEF Located
<1>2. CASE SetRowHeights
  BY <1>2 DEF SetRowHeights, Located
<1>3. ASSUME NEW c \in Cells, PlaceCell(c)
      PROVE  Located'
  <2>1. \A d \in Cells \ {c} : cell'[d] = cell[d] /\ row_index'[d] = row_index[d]
    BY <1>3 DEF PlaceCell, placeRowFinal, input, BaseInv, TypeOK
  <2>2. phase = "place" /\ phase' # "read" /\ todo' = todo \ {c}
    BY <1>3 DEF PlaceCell
  <2>. QED  BY <2>1, <2>2 DEF Located
<1>4. ASSUME NEW r \in Rows, DeterminePosition(r)
      PROVE  Located'
  BY <1>4 DEF DeterminePosition, Located
<1>5. CASE Stop \/ UNCHANGED vars
  BY <1>5 DEF Stop, vars, Located
<1>. QED  BY <1>1, <1>2, <1>3, <1>4, <1>5 DEF Next

\* The distances to the rows above and below a cell.
LEMMA RowDistances ==
  ASSUME RowsApart, BaseInv, NEW c \in Cells, CellRead(c), RowAt(cell[c].y, row_index[c]),
         row_index[c] \in Rows
  PROVE  \A r, s \in Rows :
           /\ Distance(c, r) \in Int
           /\ row_index[c] < r /\ r <= s => Distance(c, r) <= Distance(c, s)
           /\ row_index[c] > r /\ r >= s => Distance(c, r) <= Distance(c, s)
<1>. SUFFICES ASSUME NEW r \in Rows, NEW s \in Rows
              PROVE  /\ Distance(c, r) \in Int
                     /\ row_index[c] < r /\ r <= s => Distance(c, r) <= Distance(c, s)
                     /\ row_index[c] > r /\ r >= s => Distance(c, r) <= Distance(c, s)
  OBVIOUS
<1>1. PICK y, d, a, b, o : y = cell[c].y /\ d = row_index[c] /\ a = RowY[r] /\ b = RowY[s] /\ o = RowY[d]
  OBVIOUS
<1>2. /\ y \in Int /\ a \in Int /\ b \in Int /\ o \in Int /\ y \in {o, o + 512}
      /\ r \in Int /\ s \in Int /\ d \in Int /\ d \in Rows
  BY <1>1, AskedFor, RowsAssumption DEF RowAt, RowOffset, Rows
<1>3. Distance(c, r) = Abs(y - a) /\ Distance(c, s) = Abs(y - b)
  BY <1>1 DEF Distance
<1>4. /\ d < r => o + 512 <= a
      /\ r < d => a + 512 <= o
      /\ r < s => a + 512 <= b
      /\ s < r => b + 512 <= a
      /\ r = s => a = b
  BY <1>1, <1>2 DEF RowsApart, RowOffset
<1>5. y = o \/ y = o + 512
  BY <1>2
<1>6. Abs(y - a) \in Int
  BY <1>2 DEF Abs
<1>7. ASSUME d < r, r <= s
      PROVE  Abs(y - a) <= Abs(y - b)
  <2>1. y <= a /\ a <= b
    BY <1>2, <1>4, <1>5, <1>7
  <2>. QED  BY <1>2, <2>1 DEF Abs
<1>8. ASSUME d > r, r >= s
      PROVE  Abs(y - a) <= Abs(y - b)
  <2>1. y >= a /\ a >= b
    BY <1>2, <1>4, <1>5, <1>8
  <2>. QED  BY <1>2, <2>1 DEF Abs
<1>. QED  BY <1>1, <1>3, <1>6, <1>7, <1>8

\* A cell that leaves its row goes to the nearest row with room for it.
LEMMA NearestOfStep ==
  ASSUME RowsApart, BaseInv, Located, [Next]_vars, phase = "place", NEW c \in Cells,
         row_index'[c] # row_index[c], NEW r \in Rows \ {row_index[c]}, HasRoom(c, r)
  PROVE  Distance(c, row_index'[c]) <= Distance(c, r)
<1>1. PlaceCell(c) /\ row_index'[c] = getRowIdx(c)
  <2>1. PICK e \in Cells : PlaceCell(e)
    BY DEF Next, ReadCell, SetRowHeights, DeterminePosition, Stop, vars
  <2>2. row_index' = [row_index EXCEPT ![e] = getRowIdx(e)]
    BY <2>1 DEF PlaceCell, placeRowFinal
  <2>3. e = c
    BY <2>2 DEF BaseInv, TypeOK
  <2>. QED  BY <2>1, <2>2, <2>3 DEF BaseInv, TypeOK
<1>2. row_index[c] \in Rows /\ CellRead(c) /\ RowAt(cell[c].y, row_index[c])
  BY <1>1 DEF PlaceCell, BaseInv, Phases, Located
<1>3. UpperRows(c) \in SUBSET Rows /\ LowerRows(c) \in SUBSET Rows
  BY DEF UpperRows, LowerRows
<1>4. PICK U, L, u, l, d : /\ U = UpperRows(c) /\ L = LowerRows(c) /\ u = Min(U) /\ l = Max(L)
                           /\ d = row_index[c]
  OBVIOUS
<1>5. U # {} => /\ u \in Rows /\ u > d
                /\ \A s \in U : s \in Rows /\ Distance(c, u) <= Distance(c, s)
  <2>1. U # {} => u \in U /\ \A s \in U : u =< s
    BY <1>3, <1>4, MinOfRows
  <2>2. \A s \in U : s \in Rows /\ s > d
    BY <1>4 DEF UpperRows
  <2>. QED  BY <1>2, <1>4, <2>1, <2>2, RowDistances, RowsAssumption DEF Rows
<1>6. L # {} => /\ l \in Rows /\ l < d
                /\ \A s \in L : s \in Rows /\ Distance(c, l) <= Distance(c, s)
  <2>1. L # {} => l \in L /\ \A s \in L : s =< l
    BY <1>3, <1>4, MaxOfRows
  <2>2. \A s \in L : s \in Rows /\ s < d
    BY <1>4 DEF LowerRows
  <2>. QED  BY <1>2, <1>4, <2>1, <2>2, RowDistances, RowsAssumption DEF Rows
<1>7. r \in U \/ r \in L
  <2>1. r > d \/ r < d
    BY <1>2, <1>4, RowsAssumption DEF Rows
  <2>. QED  BY <1>4, <2>1 DEF UpperRows, LowerRows
<1>8. UpperIsCloser(c) <=> U # {} /\ (L # {} => Distance(c, u) < Distance(c, l))
  BY <1>4 DEF UpperIsCloser
<1>9. \A s \in Rows : Distance(c, s) \in Int
  BY <1>2, RowDistances
<1>10. CASE UpperIsCloser(c)
  <2>1. getRowIdx(c) = u
    BY <1>1, <1>4, <1>10 DEF getRowIdx
  <2>2. CASE r \in U
    BY <1>1, <1>5, <2>1, <2>2
  <2>3. CASE r \in L
    <3>1. Distance(c, u) < Distance(c, l) /\ Distance(c, l) <= Distance(c, r)
      BY <1>6, <1>8, <1>10, <2>3
    <3>2. u \in Rows /\ l \in Rows
      BY <1>5, <1>6, <1>8, <1>10, <2>3
    <3>. QED  BY <1>1, <1>9, <2>1, <3>1, <3>2
  <2>. QED  BY <1>7, <2>2, <2>3
<1>11. CASE ~UpperIsCloser(c)
  <2>1. L # {}
    BY <1>7, <1>8, <1>11
  <2>2. getRowIdx(c) = l
    BY <1>1, <1>4, <1>11, <2>1 DEF getRowIdx
  <2>3. CASE r \in L
    BY <1>1, <1>6, <2>2, <2>3
  <2>4. CASE r \in U
    <3>1. ~(Distance(c, u) < Distance(c, l)) /\ Distance(c, u) <= Distance(c, r)
      BY <1>5, <1>8, <1>11, <2>1, <2>4
    <3>2. u \in Rows /\ l \in Rows
      BY <1>5, <1>6, <2>1, <2>4
    <3>. QED  BY <1>1, <1>9, <2>2, <3>1, <3>2
  <2>. QED  BY <1>7, <2>3, <2>4
<1>. QED  BY <1>10, <1>11

(***************************************************************************)
(* Looking at one row above and one below is enough to find the nearest    *)
(* row that has room, wherever the rows are full.                          *)
(***************************************************************************)
THEOREM NearestChosen ==
  ASSUME RowsApart
  PROVE  Spec => NearestRow
<1>1. BaseInv /\ Located /\ [Next]_vars =>
        [phase = "place" => \A c \in Cells : row_index'[c] # row_index[c] =>
           \A r \in Rows \ {row_index[c]} :
             HasRoom(c, r) => Distance(c, row_index'[c]) <= Distance(c, r)]_vars
  BY NearestOfStep
<1>2. Spec => []Located
  BY BaseAlways, InitLocated, NextLocated, PTL DEF Spec
<1>. QED  BY <1>1, <1>2, BaseAlways, PTL DEF Spec, NearestRow

-----------------------------------------------------------------------------
(***************************************************************************)
(* Capacity: a row never gains a cell that takes it beyond the width of a  *)
(* row (placeRowFinal on the row getRowIdx chose).                         *)
(***************************************************************************)
LEMMA CapacityOfStep == BaseInv /\ [Next]_vars => CapacityStep
<1>. SUFFICES ASSUME BaseInv, [Next]_vars, phase = "place", NEW r \in Rows,
                     row_density_map'[r] > row_density_map[r]
              PROVE  row_density_map'[r] <= row_width
  BY DEF CapacityStep
<1>. USE DEF BaseInv, TypeOK
<1>1. row_density_map' # row_density_map
  BY DEF BaseInv, TypeOK
<1>2. PICK c \in Cells : PlaceCell(c)
  BY <1>1 DEF Next, ReadCell, SetRowHeights, DeterminePosition, Stop, vars
<1>. DEFINE s == getRowIdx(c)
            d == row_index[c]
            w == cell[c].width
<1>3. d \in Rows /\ s \in Rows /\ (s # d => HasRoom(c, s))
  BY ChosenRow DEF Phases
<1>4. w \in Nat
  BY RowCells DEF Widths
<1>5. row_density_map' = [row_density_map EXCEPT ![d] = @ - w, ![s] = @ + w]
  BY <1>2 DEF PlaceCell, placeRowFinal
<1>6. s # d /\ r = s
  <2>. HIDE DEF s, d, w
  <2>. QED  BY <1>3, <1>4, <1>5
<1>7. w + row_density_map[s] <= row_width
  BY <1>3, <1>6 DEF HasRoom
<1>8. row_density_map'[r] = row_density_map[s] + w
  <2>. HIDE DEF s, d, w
  <2>. QED  BY <1>3, <1>4, <1>5, <1>6
<1>. QED  BY <1>3, <1>4, <1>7, <1>8

\* No step fills a row beyond row_width, whatever the cells and the rows.
THEOREM Capacity == Spec => CapacityRespected
<1>1. BaseInv /\ [Next]_vars => [CapacityStep]_vars
  BY CapacityOfStep
<1>. QED  BY <1>1, BaseAlways, PTL DEF Spec, CapacityRespected

(***************************************************************************)
(* Heights: a cell is put in a row of the other height only if no row of   *)
(* its own height has room for it, so the message "error for cell" always  *)
(* means a design that does not fit.                                       *)
(***************************************************************************)
LEMMA HeightOfStep == BaseInv /\ [Next]_vars => HeightStep
<1>. SUFFICES ASSUME BaseInv, [Next]_vars, phase = "place", NEW c \in todo \ todo',
                     cell[c].gate_height # cell_height[row_index'[c]],
                     NEW r \in Rows, HasRoom(c, r)
              PROVE  FALSE
  BY DEF HeightStep
<1>. USE DEF BaseInv, TypeOK
<1>1. PlaceCell(c)
  BY DEF Next, ReadCell, SetRowHeights, PlaceCell, DeterminePosition, Stop, vars
<1>2. row_index'[c] = getRowIdx(c)
  BY <1>1 DEF PlaceCell, placeRowFinal
<1>3. getRowIdx(c) = row_index[c]
  BY <1>2, ChosenRow DEF HasRoom, SameHeight
<1>4. ~SameHeight(c, row_index[c])
  BY <1>2, <1>3 DEF SameHeight
<1>5. UpperRows(c) = {} /\ LowerRows(c) = {}
  BY <1>3, <1>4, ChosenRow DEF StaysInRow
<1>6. r = row_index[c]
  <2>1. row_index[c] \in Int /\ r \in Int
    BY RowsAssumption DEF Rows, Phases
  <2>2. ~(r > row_index[c]) /\ ~(r < row_index[c])
    BY <1>5 DEF UpperRows, LowerRows
  <2>. QED  BY <2>1, <2>2
<1>. QED  BY <1>4, <1>6 DEF HasRoom

\* A cell gets a row of the wrong height only when no row of its height has room.
THEOREM HeightsRespected == Spec => HeightRespected
<1>1. BaseInv /\ [Next]_vars => [HeightStep]_vars
  BY HeightOfStep
<1>. QED  BY <1>1, BaseAlways, PTL DEF Spec, HeightRespected

-----------------------------------------------------------------------------
\* What a cell's step does to its row.
LEMMA PlacedCell ==
  ASSUME BaseInv, [Next]_vars, phase = "place", NEW c \in todo \ todo'
  PROVE  /\ PlaceCell(c) /\ c \in Cells /\ CellRead(c)
         /\ row_index'[c] \in Rows /\ row_index'[c] = getRowIdx(c)
         /\ clusters'[row_index'[c]] = WithCell(row_index'[c], c)
         /\ optimalX'[c] = placeRowTrail(row_index'[c], c)
<1>. USE DEF BaseInv, TypeOK
<1>1. PlaceCell(c) /\ c \in Cells
  BY DEF Next, ReadCell, SetRowHeights, PlaceCell, DeterminePosition, Stop, vars
<1>2. CellRead(c) /\ getRowIdx(c) \in Rows
  BY <1>1, ChosenRow DEF Phases
<1>3. row_index'[c] = getRowIdx(c)
  BY <1>1 DEF PlaceCell, placeRowFinal
<1>4. /\ clusters' = [clusters EXCEPT ![getRowIdx(c)] = WithCell(getRowIdx(c), c)]
      /\ optimalX' = [optimalX EXCEPT ![c] = placeRowTrail(getRowIdx(c), c)]
  BY <1>1 DEF PlaceCell, placeRowFinal
<1>. QED  BY <1>1, <1>2, <1>3, <1>4

\* The trial ends where the last cluster of the row ends.
LEMMA TrialOfStep ==
  ASSUME BaseInv, [Next]_vars, phase = "place", NEW c \in todo \ todo'
  PROVE  LET k == Last(clusters'[row_index'[c]])
             p == optimalX'[c]
         IN (p[1] + cell[c].width * p[2]) * k.weight
              = (k.x + k.width * k.weight) * p[2]
<1>1. PICK r, x, w : r = row_index'[c] /\ x = ClampedX(r, c) /\ w = cell[c].width
  OBVIOUS
<1>2. /\ r \in Rows /\ c \in Cells /\ CellRead(c) /\ TypeOK
      /\ clusters'[r] = WithCell(r, c) /\ optimalX'[c] = placeRowTrail(r, c)
  BY <1>1, PlacedCell DEF BaseInv
<1>3. x \in Int /\ w \in Int /\ clusters[r] \in Seq(Cluster)
  BY <1>1, <1>2, AskedFor DEF TypeOK
<1>4. PICK k, p : k = Last(clusters'[r]) /\ p = optimalX'[c]
  OBVIOUS
<1>5. CASE /\ placeRowTrail(r, c) = <<x, 1>>
           /\ WithCell(r, c) = Append(clusters[r], NewCluster(x, c))
  <2>1. PICK e : e = NewCluster(x, c)
    OBVIOUS
  <2>2. Last(Append(clusters[r], e)) = e
    <3>1. Len(Append(clusters[r], e)) = Len(clusters[r]) + 1
      BY <1>3
    <3>. QED  BY <1>3, <3>1 DEF Last
  <2>3. k = e /\ p[1] = x /\ p[2] = 1
    BY <1>2, <1>4, <1>5, <2>1, <2>2
  <2>4. k.x = x * w /\ k.weight = w /\ k.width = w
    BY <1>1, <2>1, <2>3 DEF NewCluster
  <2>5. (x + w * 1) * w = (x * w + w * w) * 1
    BY <1>3
  <2>. QED  BY <1>1, <1>4, <2>3, <2>4, <2>5
<1>6. CASE \E t, done :
             /\ Matches(r, t, done)
             /\ placeRowTrail(r, c) =
                  <<ClampedQ(r, t.q, t.weight, t.width) + (t.width - w) * t.weight,
                    t.weight>>
             /\ WithCell(r, c) = done
  <2>1. PICK t, done :
             /\ Matches(r, t, done)
             /\ placeRowTrail(r, c) =
                  <<ClampedQ(r, t.q, t.weight, t.width) + (t.width - w) * t.weight,
                    t.weight>>
             /\ WithCell(r, c) = done
    BY <1>6
  <2>2. k = done[Len(done)]
    BY <1>2, <1>4, <2>1 DEF Last
  <2>3. PICK y, d, v : y = k.x /\ d = t.width /\ v = t.weight
    OBVIOUS
  <2>4. /\ t \in Trial /\ k \in Cluster /\ k.weight = v /\ k.width = d
        /\ y = ClampedQ(r, t.q, t.weight, t.width)
    BY <2>1, <2>2, <2>3 DEF Matches, Rounds
  <2>5. y \in Int /\ d \in Int /\ v \in Int
    BY <2>3, <2>4 DEF Trial, Cluster, Positive
  <2>6. p[1] = y + (d - w) * v /\ p[2] = v
    BY <1>2, <1>4, <2>1, <2>3, <2>4
  <2>7. (y + (d - w) * v + w * v) * v = (y + d * v) * v
    BY <1>3, <2>5
  <2>. QED  BY <1>1, <1>4, <2>3, <2>4, <2>6, <2>7
<1>. QED  BY <1>1, <1>2, <1>5, <1>6, Placement

(***************************************************************************)
(* placeRowTrail predicts what placeRowFinal does, however many clusters   *)
(* the cell makes collapse.                                                *)
(***************************************************************************)
THEOREM TrialsAreFinal == Spec => TrialIsFinal
<1>1. BaseInv /\ [Next]_vars =>
        [phase = "place" => \A c \in todo \ todo' :
           LET k == Last(clusters'[row_index'[c]])
               p == optimalX'[c]
           IN (p[1] + cell[c].width * p[2]) * k.weight
                = (k.x + k.width * k.weight) * p[2]]_vars
  BY TrialOfStep
<1>. QED  BY <1>1, BaseAlways, PTL DEF Spec, TrialIsFinal

-----------------------------------------------------------------------------
(***************************************************************************)
(* Rows.  The clusters ks hold the cells of M, every cell once.            *)
(***************************************************************************)
RowOf(wd, cx, M, ks) ==
  /\ ks \in Seq(Cluster)
  /\ \A i \in DOMAIN ks : GoodCluster(wd, cx, ks[i])
  /\ \A i, j \in DOMAIN ks : i # j => ToSet(ks[i].member) \cap ToSet(ks[j].member) = {}
  /\ \A c \in Cells : c \in M <=> \E i \in DOMAIN ks : c \in ToSet(ks[i].member)

\* Where a cluster stands does not matter for what it sums up.
LEMMA RepositionGood ==
  ASSUME NEW wd, NEW cx, NEW r \in Rows, NEW k, GoodCluster(wd, cx, k)
  PROVE  GoodCluster(wd, cx, Reposition(r, k)) /\ Reposition(r, k).member = k.member
<1>1. k \in Cluster /\ Reposition(r, k) \in Cluster
  BY RepositionType DEF GoodCluster
<1>2. PICK e : e = Reposition(r, k)
  OBVIOUS
<1>3. e.member = k.member /\ e.q = k.q /\ e.weight = k.weight /\ e.width = k.width
  BY <1>1, <1>2 DEF Reposition, Cluster
<1>. QED  BY <1>1, <1>2, <1>3 DEF GoodCluster

\* A row of one cluster.
LEMMA OneCluster ==
  ASSUME NEW wd, NEW cx, NEW k, GoodCluster(wd, cx, k), NEW M,
         M \in SUBSET Cells, M = ToSet(k.member)
  PROVE  RowOf(wd, cx, M, <<k>>)
<1>1. PICK u : u = <<k>>
  OBVIOUS
<1>2. k \in Cluster
  BY DEF GoodCluster
<1>3. u \in Seq(Cluster) /\ DOMAIN u = {1} /\ u[1] = k
  BY <1>1, <1>2
<1>4. RowOf(wd, cx, M, u)
  BY <1>3 DEF RowOf
<1>. QED  BY <1>1, <1>4

\* A cluster more at the left end of a row.
LEMMA ClusterInFront ==
  ASSUME NEW wd, NEW cx, NEW k, GoodCluster(wd, cx, k), NEW M, NEW ks,
         RowOf(wd, cx, M, ks), NEW P, P = ToSet(k.member), P \cap M = {}, NEW N, N = M \cup P
  PROVE  RowOf(wd, cx, N, <<k>> \o ks)
<1>1. PICK u : u = <<k>> \o ks
  OBVIOUS
<1>2. k \in Cluster /\ ks \in Seq(Cluster) /\ k.member \in Seq(Cells)
  BY DEF GoodCluster, RowOf, Cluster
<1>3. /\ u \in Seq(Cluster) /\ u[1] = k /\ 1 \in DOMAIN u
      /\ \A i \in DOMAIN ks : u[i + 1] = ks[i] /\ i + 1 \in DOMAIN u /\ i \in Nat /\ i >= 1
      /\ \A i \in DOMAIN u : i \in Nat /\ (i # 1 => i - 1 \in DOMAIN ks /\ u[i] = ks[i - 1])
  BY <1>1, <1>2
<1>4. \A i \in DOMAIN u : GoodCluster(wd, cx, u[i])
  BY <1>3 DEF RowOf
<1>5. \A i \in DOMAIN ks : ToSet(ks[i].member) \cap P = {}
  <2>1. \A i \in DOMAIN ks : ks[i].member \in Seq(Cells)
    <3>1. \A i \in DOMAIN ks : ks[i] \in Cluster
      BY <1>2
    <3>2. \A e \in Cluster : e.member \in Seq(Cells)
      BY DEF Cluster
    <3>. QED  BY <3>1, <3>2
  <2>2. \A i \in DOMAIN ks : ToSet(ks[i].member) \in SUBSET Cells
    BY <2>1, MembersFinite
  <2>. QED  BY <2>2 DEF RowOf
<1>6. ASSUME NEW i \in DOMAIN u, NEW j \in DOMAIN u, i # j
      PROVE  ToSet(u[i].member) \cap ToSet(u[j].member) = {}
  <2>1. CASE i = 1
    <3>1. j - 1 \in DOMAIN ks /\ u[j] = ks[j - 1]
      BY <1>3, <1>6, <2>1
    <3>. QED  BY <1>3, <1>5, <2>1, <3>1
  <2>2. CASE j = 1
    <3>1. i - 1 \in DOMAIN ks /\ u[i] = ks[i - 1]
      BY <1>3, <1>6, <2>2
    <3>. QED  BY <1>3, <1>5, <2>2, <3>1
  <2>3. CASE i # 1 /\ j # 1
    <3>1. PICK a \in DOMAIN ks, b \in DOMAIN ks : a = i - 1 /\ b = j - 1 /\ u[i] = ks[a] /\ u[j] = ks[b]
      BY <1>3, <2>3
    <3>2. a # b
      BY <1>3, <1>6, <2>3, <3>1
    <3>. QED  BY <3>1, <3>2 DEF RowOf
  <2>. QED  BY <2>1, <2>2, <2>3
<1>7. ASSUME NEW c \in Cells
      PROVE  c \in N <=> \E i \in DOMAIN u : c \in ToSet(u[i].member)
  <2>1. ASSUME c \in P
        PROVE  \E i \in DOMAIN u : c \in ToSet(u[i].member)
    BY <1>3, <2>1
  <2>2. ASSUME c \in M
        PROVE  \E i \in DOMAIN u : c \in ToSet(u[i].member)
    <3>1. PICK i \in DOMAIN ks : c \in ToSet(ks[i].member)
      BY <2>2 DEF RowOf
    <3>. QED  BY <1>3, <3>1
  <2>3. ASSUME NEW i \in DOMAIN u, c \in ToSet(u[i].member)
        PROVE  c \in N
    <3>1. CASE i = 1
      BY <1>3, <2>3, <3>1
    <3>2. CASE i # 1
      <4>1. PICK a \in DOMAIN ks : u[i] = ks[a]
        BY <1>3, <3>2
      <4>. QED  BY <2>3, <4>1 DEF RowOf
    <3>. QED  BY <3>1, <3>2
  <2>. QED  BY <2>1, <2>2, <2>3
<1>. QED  BY <1>1, <1>3, <1>4, <1>6, <1>7 DEF RowOf

\* A round of placeRowFinal keeps the cells of the row and its sums.
LEMMA CollapseStepGood ==
  ASSUME NEW r \in Rows, NEW wd, NEW cx, Measures(wd, cx),
         NEW prev, GoodCluster(wd, cx, prev),
         NEW M, NEW done, RowOf(wd, cx, M, done), done # <<>>, M \in SUBSET Cells,
         NEW P, P = ToSet(prev.member), P \cap M = {}, NEW N, N = M \cup P
  PROVE  RowOf(wd, cx, N, CollapseStep(r, prev, done))
<1>1. PICK k : k = Head(done)
  OBVIOUS
<1>2. done \in Seq(Cluster) /\ 1 \in DOMAIN done /\ k = done[1]
  BY <1>1 DEF RowOf
<1>3. CASE Len(done) > 1 \/ EndsBy(prev, k.x, k.weight)
  <2>1. CollapseStep(r, prev, done) = <<prev>> \o done
    BY <1>1, <1>3 DEF CollapseStep
  <2>. QED  BY <2>1, ClusterInFront
<1>4. CASE ~(Len(done) > 1 \/ EndsBy(prev, k.x, k.weight))
  <2>1. CollapseStep(r, prev, done) = <<Reposition(r, AddCluster(prev, k))>>
    BY <1>1, <1>4 DEF CollapseStep
  <2>2. DOMAIN done = {1}
    <3>1. PICK n : n = Len(done)
      OBVIOUS
    <3>2. n \in Nat /\ DOMAIN done = 1 .. n /\ n >= 1
      BY <1>2, <3>1
    <3>3. ~(n > 1)
      BY <1>4, <3>1
    <3>4. n = 1
      BY <3>2, <3>3
    <3>. QED  BY <3>2, <3>4
  <2>3. GoodCluster(wd, cx, k) /\ ToSet(k.member) = M
    <3>1. GoodCluster(wd, cx, k)
      BY <1>2 DEF RowOf
    <3>2. ToSet(k.member) \in SUBSET Cells
      BY <3>1, MembersFinite DEF GoodCluster, Cluster
    <3>3. \A c \in Cells : c \in M <=> c \in ToSet(k.member)
      BY <1>2, <2>2 DEF RowOf
    <3>. QED  BY <3>1, <3>2, <3>3
  <2>4. PICK a, e : a = AddCluster(prev, k) /\ e = Reposition(r, a)
    OBVIOUS
  <2>5. GoodCluster(wd, cx, a) /\ ToSet(a.member) = N
    BY <2>3, <2>4, MergeGood
  <2>6. GoodCluster(wd, cx, e) /\ ToSet(e.member) = N
    BY <2>4, <2>5, RepositionGood
  <2>7. N \in SUBSET Cells
    BY <2>6, MembersFinite DEF GoodCluster, Cluster
  <2>8. RowOf(wd, cx, N, <<e>>)
    BY <2>6, <2>7, OneCluster
  <2>. QED  BY <2>1, <2>4, <2>8
<1>. QED  BY <1>3, <1>4

-----------------------------------------------------------------------------
(***************************************************************************)
(* Clusters of a row that do not overlap, and stand inside the row if they *)
(* fit in it.                                                              *)
(***************************************************************************)
Within(r, k) ==
  k.width <= MaxX[r] - MinX[r] =>
    MinX[r] * k.weight <= k.x /\ k.x <= (MaxX[r] - k.width) * k.weight

Packed(r, ks) ==
  /\ \A i \in DOMAIN ks : Within(r, ks[i])
  /\ \A i, j \in DOMAIN ks : i < j => EndsBy(ks[i], ks[j].x, ks[j].weight)

\* A common positive factor does not change which of two numbers is greater.
LEMMA CommonFactor ==
  ASSUME NEW a \in Int, NEW b \in Int, NEW c \in Int, c > 0
  PROVE  a * c <= b * c <=> a <= b
OBVIOUS

\* A cluster that ends by another one ends by all that follows.
LEMMA EndsByTransitive ==
  ASSUME NEW a \in Cluster, NEW b \in Cluster, NEW n \in Int, NEW d \in Positive,
         EndsBy(a, b.x, b.weight), EndsBy(b, n, d)
  PROVE  EndsBy(a, n, d)
<1>1. PICK e, f, u, v, y, w : /\ e = a.x + a.width * a.weight /\ v = a.weight
                              /\ f = b.x + b.width * b.weight /\ u = b.weight
                              /\ y = b.x /\ w = b.width * b.weight
  OBVIOUS
<1>2. /\ e \in Int /\ f \in Int /\ u \in Int /\ u > 0 /\ v \in Int /\ v > 0 /\ y \in Int
      /\ d \in Int /\ d > 0 /\ w \in Int /\ w > 0
  <2>1. /\ a.x \in Int /\ a.width \in Int /\ v \in Int /\ v > 0
        /\ y \in Int /\ b.width \in Int /\ b.width > 0 /\ u \in Int /\ u > 0
        /\ d \in Int /\ d > 0
    <3>1. a.width \in Positive /\ v \in Positive /\ b.width \in Positive /\ u \in Positive
          /\ a.x \in Int /\ b.x \in Int
      BY <1>1 DEF Cluster
    <3>. QED  BY <1>1, <3>1 DEF Positive
  <2>2. a.width * v \in Int /\ b.width * u \in Int /\ b.width * u > 0
    BY <2>1
  <2>. QED  BY <1>1, <2>1, <2>2
<1>3. e * u <= y * v /\ f * d <= n * u /\ f = y + w
  BY <1>1 DEF EndsBy
<1>4. y * d <= f * d
  BY <1>2, <1>3, CommonFactor
<1>5. y * d <= n * u
  <2>1. y * d \in Int /\ f * d \in Int /\ n * u \in Int
    BY <1>2
  <2>. QED  BY <1>3, <1>4, <2>1
<1>6. (e * u) * d <= (y * v) * d
  <2>1. e * u \in Int /\ y * v \in Int
    BY <1>2
  <2>. QED  BY <1>2, <1>3, <2>1, CommonFactor
<1>7. (y * d) * v <= (n * u) * v
  <2>1. y * d \in Int /\ n * u \in Int
    BY <1>2
  <2>. QED  BY <1>2, <1>5, <2>1, CommonFactor
<1>8. (e * d) * u <= (n * v) * u
  <2>1. (e * u) * d = (e * d) * u /\ (y * v) * d = (y * d) * v /\ (n * u) * v = (n * v) * u
    BY <1>2
  <2>2. (e * d) * u \in Int /\ (y * d) * v \in Int /\ (n * v) * u \in Int
    BY <1>2
  <2>. QED  BY <1>6, <1>7, <2>1, <2>2
<1>9. e * d <= n * v
  <2>1. e * d \in Int /\ n * v \in Int
    BY <1>2
  <2>. QED  BY <1>2, <1>8, <2>1, CommonFactor
<1>. QED  BY <1>1, <1>9 DEF EndsBy

\* Reposition moves a cluster into its row.
LEMMA RepositionWithin ==
  ASSUME NEW r \in Rows, NEW k \in Cluster
  PROVE  Within(r, Reposition(r, k))
<1>1. PICK q, w, d, m, n : /\ q = k.q /\ w = k.weight /\ d = k.width
                           /\ m = MinX[r] /\ n = MaxX[r] - k.width
  OBVIOUS
<1>2. q \in Int /\ w \in Int /\ w > 0 /\ m \in Int /\ n \in Int /\ d \in Int /\ MaxX[r] \in Int
  BY <1>1, RowsAssumption DEF Cluster, Positive
<1>3. PICK e, x : e = Reposition(r, k) /\ x = ClampedQ(r, q, w, d)
  OBVIOUS
<1>4. e.x = x /\ e.weight = w /\ e.width = d
  BY <1>1, <1>3 DEF Reposition, Cluster
<1>5. SUFFICES ASSUME m <= n PROVE m * w <= x /\ x <= n * w
  BY <1>1, <1>2, <1>3, <1>4 DEF Within
<1>6. m * w <= n * w /\ m * w \in Int /\ n * w \in Int
  BY <1>2, <1>5, CommonFactor
<1>7. x = LET y == IF q < m * w THEN m * w ELSE q IN IF y > n * w THEN n * w ELSE y
  BY <1>1, <1>3 DEF ClampedQ
<1>. QED  BY <1>2, <1>6, <1>7

\* A round of placeRowFinal leaves the clusters packed.
LEMMA CollapseStepPacked ==
  ASSUME NEW r \in Rows, NEW prev \in Cluster, Within(r, prev),
         NEW done \in Rounds, Packed(r, done),
         Len(done) > 1 => EndsBy(prev, done[1].x, done[1].weight)
  PROVE  /\ Packed(r, CollapseStep(r, prev, done))
         /\ Len(CollapseStep(r, prev, done)) > 1 => CollapseStep(r, prev, done)[1] = prev
<1>1. PICK k : k = Head(done)
  OBVIOUS
<1>2. done \in Seq(Cluster) /\ 1 \in DOMAIN done /\ k = done[1] /\ k \in Cluster
  BY <1>1 DEF Rounds
<1>3. CASE Len(done) > 1 \/ EndsBy(prev, k.x, k.weight)
  <2>1. PICK u : u = <<prev>> \o done
    OBVIOUS
  <2>2. CollapseStep(r, prev, done) = u
    BY <1>1, <1>3, <2>1 DEF CollapseStep
  <2>3. EndsBy(prev, k.x, k.weight)
    BY <1>2, <1>3
  <2>4. /\ u[1] = prev
        /\ \A i \in DOMAIN u : i \in Nat /\ (i # 1 => i - 1 \in DOMAIN done /\ u[i] = done[i - 1])
    BY <1>2, <2>1
  <2>5. \A j \in DOMAIN done : EndsBy(prev, done[j].x, done[j].weight)
    <3>. TAKE j \in DOMAIN done
    <3>1. CASE j = 1
      BY <1>2, <2>3, <3>1
    <3>2. CASE j # 1
      <4>1. j > 1 /\ done[j] \in Cluster
        BY <1>2, <3>2
      <4>2. EndsBy(k, done[j].x, done[j].weight)
        BY <1>2, <4>1 DEF Packed
      <4>3. PICK n, d : n = done[j].x /\ d = done[j].weight
        OBVIOUS
      <4>4. n \in Int /\ d \in Positive
        BY <4>1, <4>3 DEF Cluster
      <4>. QED  BY <1>2, <2>3, <4>2, <4>3, <4>4, EndsByTransitive
    <3>. QED  BY <3>1, <3>2
  <2>6. \A i \in DOMAIN u : Within(r, u[i])
    BY <2>4 DEF Packed
  <2>7. ASSUME NEW i \in DOMAIN u, NEW j \in DOMAIN u, i < j
        PROVE  EndsBy(u[i], u[j].x, u[j].weight)
    <3>0. i \in Nat /\ j \in Nat /\ i >= 1
      BY <1>2, <2>1
    <3>1. j - 1 \in DOMAIN done /\ u[j] = done[j - 1]
      BY <2>4, <2>7, <3>0
    <3>2. CASE i = 1
      BY <2>4, <2>5, <3>1, <3>2
    <3>3. CASE i # 1
      <4>1. PICK a \in DOMAIN done, b \in DOMAIN done :
              a = i - 1 /\ b = j - 1 /\ u[i] = done[a] /\ u[j] = done[b]
        BY <2>4, <3>1, <3>3
      <4>2. a < b
        BY <2>7, <3>0, <4>1
      <4>. QED  BY <4>1, <4>2 DEF Packed
    <3>. QED  BY <3>2, <3>3
  <2>. QED  BY <2>2, <2>4, <2>6, <2>7 DEF Packed
<1>4. CASE ~(Len(done) > 1 \/ EndsBy(prev, k.x, k.weight))
  <2>1. CollapseStep(r, prev, done) = <<Reposition(r, AddCluster(prev, k))>>
    BY <1>1, <1>4 DEF CollapseStep
  <2>2. PICK e, u : e = Reposition(r, AddCluster(prev, k)) /\ u = <<e>>
    OBVIOUS
  <2>3. Within(r, e)
    BY <1>2, <2>2, AddClusterType, RepositionWithin
  <2>4. DOMAIN u = {1} /\ u[1] = e /\ Len(u) = 1
    BY <2>2
  <2>5. Packed(r, u) /\ ~(Len(u) > 1)
    BY <2>3, <2>4 DEF Packed
  <2>. QED  BY <2>1, <2>2, <2>5
<1>. QED  BY <1>3, <1>4

-----------------------------------------------------------------------------
(***************************************************************************)
(* Where a cluster stands best.  x is q moved between lo and hi.           *)
(***************************************************************************)
Clamps(x, q, lo, hi) ==
  /\ lo <= x /\ x <= hi
  /\ x < q => x = hi
  /\ x > q => x = lo

\* A factor that is not negative keeps the order of two numbers.
LEMMA Scaled ==
  ASSUME NEW a \in Int, NEW b \in Int, NEW c \in Int, c >= 0, a <= b
  PROVE  a * c <= b * c
OBVIOUS

\* The left ends and targets of two clusters of widths u and v that overlap,
\* and those of the cluster they become, in a row from L to R.
Overlap(L, R, u, v, qa, xa, qb, xb, q, x) ==
  /\ L \in Int /\ R \in Int /\ u \in Int /\ v \in Int /\ u > 0 /\ v > 0
  /\ qa \in Int /\ xa \in Int /\ qb \in Int /\ xb \in Int /\ q \in Int /\ x \in Int
  /\ L <= R - (u + v)
  /\ Clamps(xa, qa, L * u, (R - u) * u)
  /\ Clamps(xb, qb, L * v, (R - v) * v)
  /\ xb * u < (xa + u * u) * v
  /\ q = qa + qb - v * u
  /\ Clamps(x, q, L * (u + v), (R - (u + v)) * (u + v))

\* The left cluster moves to the left, or stays.
LEMMA MovesLeft ==
  ASSUME NEW L, NEW R, NEW u, NEW v, NEW qa, NEW xa, NEW qb, NEW xb, NEW q, NEW x,
         Overlap(L, R, u, v, qa, xa, qb, xb, q, x)
  PROVE  x * u <= xa * (u + v)
<1>1. /\ L \in Int /\ R \in Int /\ u \in Int /\ v \in Int /\ u > 0 /\ v > 0
      /\ qa \in Int /\ xa \in Int /\ qb \in Int /\ xb \in Int /\ q \in Int /\ x \in Int
      /\ L <= R - (u + v)
      /\ xb * u < (xa + u * u) * v /\ q = qa + qb - v * u
  BY DEF Overlap
<1>2. /\ L * u <= xa /\ (xa < qa => xa = (R - u) * u)
      /\ (xb < qb => xb = (R - v) * v)
      /\ x <= (R - (u + v)) * (u + v) /\ (x > q => x = L * (u + v))
  BY DEF Overlap, Clamps
<1>3. PICK S, W : S = R - (u + v) /\ W = u + v
  OBVIOUS
<1>4. S \in Int /\ W \in Int /\ W > 0 /\ S * u \in Int /\ R = S + u + v
  BY <1>1, <1>3
<1>5. CASE S * u <= xa
  <2>1. x * u <= (S * W) * u
    <3>1. x <= S * W /\ S * W \in Int
      BY <1>2, <1>3, <1>4
    <3>. QED  BY <1>1, <3>1, Scaled
  <2>2. (S * u) * W <= xa * W
    BY <1>1, <1>4, <1>5, Scaled
  <2>3. (S * W) * u = (S * u) * W /\ (S * W) * u \in Int /\ x * u \in Int /\ xa * W \in Int
    BY <1>1, <1>4
  <2>. QED  BY <1>3, <2>1, <2>2, <2>3
<1>6. CASE xa < S * u
  <2>1. qa <= xa
    <3>1. (R - u) * u = S * u + v * u /\ v * u \in Int /\ v * u > 0
      BY <1>1, <1>4
    <3>2. xa # (R - u) * u
      BY <1>1, <1>4, <1>6, <3>1
    <3>. QED  BY <1>1, <1>2, <3>2
  <2>2. xb < (S + u) * v
    <3>1. xa * v <= (S * u) * v
      BY <1>1, <1>4, <1>6, Scaled
    <3>2. (xa + u * u) * v = xa * v + (u * u) * v
      BY <1>1
    <3>3. (S * u) * v + (u * u) * v = ((S + u) * v) * u
      BY <1>1, <1>4
    <3>4. /\ xa * v \in Int /\ (S * u) * v \in Int /\ (u * u) * v \in Int /\ xb * u \in Int
          /\ ((S + u) * v) * u \in Int /\ (S + u) * v \in Int
      BY <1>1, <1>4
    <3>5. xb * u < ((S + u) * v) * u
      BY <1>1, <3>1, <3>2, <3>3, <3>4
    <3>6. ~((S + u) * v <= xb)
      <4>1. (S + u) * v <= xb => ((S + u) * v) * u <= xb * u
        BY <1>1, <3>4, CommonFactor
      <4>. QED  BY <3>4, <3>5, <4>1
    <3>. QED  BY <1>1, <3>4, <3>6
  <2>3. qb <= xb
    <3>1. R - v = S + u
      BY <1>1, <1>4
    <3>2. (S + u) * v \in Int
      BY <1>1, <1>4
    <3>. QED  BY <1>1, <1>2, <2>2, <3>1, <3>2
  <2>4. q * u <= xa * W
    <3>1. q <= xa + (xb - v * u) /\ xa + (xb - v * u) \in Int
      <4>1. v * u \in Int
        BY <1>1
      <4>. QED  BY <1>1, <2>1, <2>3, <4>1
    <3>2. q * u <= (xa + (xb - v * u)) * u
      BY <1>1, <3>1, Scaled
    <3>3. (xa + (xb - v * u)) * u = xa * u + xb * u - (u * u) * v
      BY <1>1
    <3>4. (xa + u * u) * v = xa * v + (u * u) * v
      BY <1>1
    <3>5. xa * W = xa * u + xa * v
      BY <1>1, <1>3
    <3>6. /\ xa * u \in Int /\ xa * v \in Int /\ (u * u) * v \in Int /\ xb * u \in Int
          /\ q * u \in Int
      BY <1>1
    <3>. QED  BY <1>1, <3>2, <3>3, <3>4, <3>5, <3>6
  <2>5. CASE x <= q
    <3>1. x * u <= q * u
      BY <1>1, <2>5, Scaled
    <3>2. x * u \in Int /\ q * u \in Int /\ xa * W \in Int
      BY <1>1, <1>4
    <3>. QED  BY <1>3, <2>4, <3>1, <3>2
  <2>6. CASE x > q
    <3>1. x = L * W
      BY <1>2, <1>3, <2>6
    <3>2. (L * u) * W <= xa * W
      <4>1. L * u \in Int
        BY <1>1
      <4>. QED  BY <1>1, <1>2, <1>4, <4>1, Scaled
    <3>3. (L * W) * u = (L * u) * W
      BY <1>1, <1>4
    <3>. QED  BY <1>3, <3>1, <3>2, <3>3
  <2>. QED  BY <1>1, <2>5, <2>6
<1>. QED  BY <1>1, <1>4, <1>5, <1>6

\* The right cluster moves to the right, or stays.
LEMMA MovesRight ==
  ASSUME NEW L, NEW R, NEW u, NEW v, NEW qa, NEW xa, NEW qb, NEW xb, NEW q, NEW x,
         Overlap(L, R, u, v, qa, xa, qb, xb, q, x)
  PROVE  (xb - v * u) * (u + v) <= x * v
<1>1. /\ L \in Int /\ R \in Int /\ u \in Int /\ v \in Int /\ u > 0 /\ v > 0
      /\ qa \in Int /\ xa \in Int /\ qb \in Int /\ xb \in Int /\ q \in Int /\ x \in Int
      /\ L <= R - (u + v)
      /\ xb * u < (xa + u * u) * v /\ q = qa + qb - v * u
  BY DEF Overlap
<1>2. /\ (xa > qa => xa = L * u)
      /\ (xb > qb => xb = L * v) /\ xb <= (R - v) * v
      /\ L * (u + v) <= x /\ (x < q => x = (R - (u + v)) * (u + v))
  BY DEF Overlap, Clamps
<1>3. PICK S, W, y : S = R - (u + v) /\ W = u + v /\ y = xb - v * u
  OBVIOUS
<1>4. /\ S \in Int /\ W \in Int /\ W > 0 /\ R = S + u + v /\ y \in Int /\ L * v \in Int
      /\ v * u \in Int /\ v * u > 0 /\ xb = y + v * u
  BY <1>1, <1>3
<1>5. CASE y <= L * v
  <2>1. (L * W) * v <= x * v
    <3>1. L * W <= x /\ L * W \in Int
      BY <1>1, <1>2, <1>3, <1>4
    <3>. QED  BY <1>1, <3>1, Scaled
  <2>2. y * W <= (L * v) * W
    BY <1>1, <1>4, <1>5, Scaled
  <2>3. (L * W) * v = (L * v) * W /\ (L * W) * v \in Int /\ x * v \in Int /\ y * W \in Int
    BY <1>1, <1>4
  <2>. QED  BY <1>3, <2>1, <2>2, <2>3
<1>6. CASE y > L * v
  <2>1. xb <= qb
    BY <1>1, <1>2, <1>4, <1>6
  <2>2. y * u < xa * v
    <3>1. (xa + u * u) * v = xa * v + (v * u) * u /\ (y + v * u) * u = y * u + (v * u) * u
      BY <1>1, <1>4
    <3>2. xa * v \in Int /\ y * u \in Int /\ (v * u) * u \in Int
      BY <1>1, <1>4
    <3>. QED  BY <1>1, <1>4, <3>1, <3>2
  <2>3. xa # L * u
    <3>1. (L * v) * u <= y * u
      BY <1>1, <1>4, <1>6, Scaled
    <3>2. (L * v) * u = (L * u) * v
      BY <1>1
    <3>3. (L * v) * u \in Int /\ y * u \in Int /\ xa * v \in Int
      BY <1>1, <1>4
    <3>4. (L * u) * v < xa * v
      BY <2>2, <3>1, <3>2, <3>3
    <3>. QED  BY <3>2, <3>3, <3>4
  <2>4. xa <= qa
    BY <1>1, <1>2, <2>3
  <2>5. y * W <= q * v
    <3>1. xa + y <= q /\ xa + y \in Int
      BY <1>1, <1>3, <1>4, <2>1, <2>4
    <3>2. (xa + y) * v <= q * v
      BY <1>1, <3>1, Scaled
    <3>3. (xa + y) * v = xa * v + y * v /\ y * W = y * u + y * v
      BY <1>1, <1>3, <1>4
    <3>4. xa * v \in Int /\ y * v \in Int /\ y * u \in Int /\ q * v \in Int
      BY <1>1, <1>4
    <3>. QED  BY <2>2, <3>2, <3>3, <3>4
  <2>6. CASE q <= x
    <3>1. q * v <= x * v
      BY <1>1, <2>6, Scaled
    <3>2. x * v \in Int /\ q * v \in Int /\ y * W \in Int
      BY <1>1, <1>4
    <3>. QED  BY <1>3, <2>5, <3>1, <3>2
  <2>7. CASE x < q
    <3>1. x = S * W
      BY <1>2, <1>3, <2>7
    <3>2. y <= S * v
      <4>1. (R - v) * v = S * v + v * u
        BY <1>1, <1>4
      <4>2. S * v \in Int
        BY <1>1, <1>4
      <4>. QED  BY <1>1, <1>2, <1>4, <4>1, <4>2
    <3>3. y * W <= (S * v) * W
      <4>1. S * v \in Int
        BY <1>1, <1>4
      <4>. QED  BY <1>1, <1>4, <3>2, <4>1, Scaled
    <3>4. (S * v) * W = (S * W) * v
      BY <1>1, <1>4
    <3>. QED  BY <1>3, <3>1, <3>3, <3>4
  <2>. QED  BY <1>1, <2>6, <2>7
<1>. QED  BY <1>1, <1>4, <1>5, <1>6

\* s is the width of the members in front of one, p the sum of what they ask
\* for: the cluster of weight w is not pulled to the left harder at that
\* member than it is as a whole.
HeldAt(s, p, w, x, q) ==
  s * x - w * p <= 0 \/ s * x - w * p <= w * (x - q)

\* The members of the left cluster stay held.
LEMMA HeldOnTheLeft ==
  ASSUME NEW L, NEW R, NEW u, NEW v, NEW qa, NEW xa, NEW qb, NEW xb, NEW q, NEW x,
         Overlap(L, R, u, v, qa, xa, qb, xb, q, x),
         NEW s \in Int, NEW p \in Int, s >= 0, HeldAt(s, p, u, xa, qa)
  PROVE  HeldAt(s, p, u + v, x, q)
<1>1. /\ L \in Int /\ R \in Int /\ u \in Int /\ v \in Int /\ u > 0 /\ v > 0
      /\ qa \in Int /\ xa \in Int /\ qb \in Int /\ xb \in Int /\ q \in Int /\ x \in Int
      /\ L <= R - (u + v)
      /\ xb * u < (xa + u * u) * v /\ q = qa + qb - v * u
  BY DEF Overlap
<1>2. /\ (xa > qa => xa = L * u)
      /\ (xb < qb => xb = (R - v) * v)
      /\ L * (u + v) <= x /\ (x > q => x = L * (u + v))
  BY DEF Overlap, Clamps
<1>3. PICK W : W = u + v
  OBVIOUS
<1>4. W \in Int /\ W > 0
  BY <1>1, <1>3
<1>5. CASE s * xa - u * p <= 0
  <2>1. (x * u) * s <= (xa * W) * s
    <3>1. x * u <= xa * W /\ x * u \in Int /\ xa * W \in Int
      BY <1>1, <1>3, <1>4, MovesLeft
    <3>. QED  BY <3>1, Scaled
  <2>2. (s * xa) * W <= (u * p) * W
    <3>1. s * xa \in Int /\ u * p \in Int /\ s * xa <= u * p
      BY <1>1, <1>5
    <3>. QED  BY <1>4, <3>1, Scaled
  <2>3. (s * x) * u <= (W * p) * u
    <3>1. (x * u) * s = (s * x) * u /\ (xa * W) * s = (s * xa) * W /\ (u * p) * W = (W * p) * u
      BY <1>1, <1>4
    <3>2. (s * x) * u \in Int /\ (s * xa) * W \in Int /\ (W * p) * u \in Int
      BY <1>1, <1>4
    <3>. QED  BY <2>1, <2>2, <3>1, <3>2
  <2>4. s * x <= W * p
    <3>1. s * x \in Int /\ W * p \in Int
      BY <1>1, <1>4
    <3>. QED  BY <1>1, <2>3, <3>1, CommonFactor
  <2>5. s * x - W * p <= 0
    <3>1. s * x \in Int /\ W * p \in Int
      BY <1>1, <1>4
    <3>. QED  BY <2>4, <3>1
  <2>. QED  BY <1>3, <2>5 DEF HeldAt
<1>6. CASE s * xa - u * p > 0
  <2>1. s * xa - u * p <= u * (xa - qa)
    <3>1. s * xa \in Int /\ u * p \in Int
      BY <1>1
    <3>. QED  BY <1>6, <3>1 DEF HeldAt
  <2>2. xa > qa
    <3>1. PICK d : d = xa - qa
      OBVIOUS
    <3>2. d \in Int /\ s * xa \in Int /\ u * p \in Int /\ u * d \in Int
      BY <1>1, <3>1
    <3>3. u * d > 0
      BY <1>6, <2>1, <3>1, <3>2
    <3>4. d > 0
      BY <1>1, <3>2, <3>3
    <3>. QED  BY <1>1, <3>1, <3>4
  <2>3. xa = L * u
    BY <1>2, <2>2
  <2>4. s * L - p <= L * u - qa
    <3>1. PICK e, f : e = s * L - p /\ f = L * u - qa
      OBVIOUS
    <3>2. e \in Int /\ f \in Int
      BY <1>1, <3>1
    <3>3. s * xa - u * p = e * u
      BY <1>1, <2>3, <3>1
    <3>4. u * (xa - qa) = f * u
      BY <1>1, <2>3, <3>1
    <3>5. e <= f
      BY <1>1, <2>1, <3>2, <3>3, <3>4, CommonFactor
    <3>. QED  BY <3>1, <3>5
  <2>5. xb < (L + u) * v
    <3>1. (xa + u * u) * v = ((L + u) * v) * u /\ (L + u) * v \in Int
      BY <1>1, <2>3
    <3>2. xb * u \in Int /\ ((L + u) * v) * u \in Int
      BY <1>1
    <3>3. ~((L + u) * v <= xb)
      <4>1. (L + u) * v <= xb => ((L + u) * v) * u <= xb * u
        BY <1>1, <3>1, CommonFactor
      <4>. QED  BY <1>1, <3>1, <3>2, <4>1
    <3>. QED  BY <1>1, <3>1, <3>3
  <2>6. qb <= xb
    <3>1. (L + u) * v <= (R - v) * v
      <4>1. L + u <= R - v /\ L + u \in Int /\ R - v \in Int
        BY <1>1
      <4>. QED  BY <1>1, <4>1, Scaled
    <3>2. (L + u) * v \in Int /\ (R - v) * v \in Int
      BY <1>1
    <3>. QED  BY <1>1, <1>2, <2>5, <3>1, <3>2
  <2>7. qb - v * u < L * v
    <3>1. (L + u) * v = L * v + v * u /\ L * v \in Int /\ v * u \in Int
      BY <1>1
    <3>. QED  BY <1>1, <2>5, <2>6, <3>1
  <2>8. L * W = L * u + L * v /\ L * u \in Int /\ L * v \in Int /\ v * u \in Int
    BY <1>1, <1>3
  <2>9. x = L * W
    <3>1. q < L * W
      BY <1>1, <2>2, <2>3, <2>7, <2>8
    <3>2. L * W <= x
      BY <1>2, <1>3
    <3>3. x > q
      BY <1>1, <2>8, <3>1, <3>2
    <3>. QED  BY <1>2, <1>3, <3>3
  <2>10. s * L - p <= x - q
    <3>1. s * L \in Int
      BY <1>1
    <3>. QED  BY <1>1, <2>4, <2>7, <2>8, <2>9, <3>1
  <2>11. s * x - W * p = (s * L - p) * W
    BY <1>1, <1>4, <2>9
  <2>12. (s * L - p) * W <= (x - q) * W
    <3>1. s * L - p \in Int /\ x - q \in Int
      BY <1>1
    <3>. QED  BY <1>4, <2>10, <3>1, Scaled
  <2>13. (x - q) * W = W * (x - q)
    BY <1>1, <1>4
  <2>14. s * x - W * p <= W * (x - q)
    BY <2>11, <2>12, <2>13
  <2>. QED  BY <1>3, <2>14 DEF HeldAt
<1>7. s * xa - u * p \in Int
  BY <1>1
<1>. QED  BY <1>5, <1>6, <1>7

\* The members of the right cluster stay held.
LEMMA HeldOnTheRight ==
  ASSUME NEW L, NEW R, NEW u, NEW v, NEW qa, NEW xa, NEW qb, NEW xb, NEW q, NEW x,
         Overlap(L, R, u, v, qa, xa, qb, xb, q, x),
         NEW s \in Int, NEW p \in Int, s <= v, HeldAt(s, p, v, xb, qb)
  PROVE  HeldAt(u + s, qa + p - u * s, u + v, x, q)
<1>1. /\ L \in Int /\ R \in Int /\ u \in Int /\ v \in Int /\ u > 0 /\ v > 0
      /\ qa \in Int /\ xa \in Int /\ qb \in Int /\ xb \in Int /\ q \in Int /\ x \in Int
      /\ L <= R - (u + v)
      /\ xb * u < (xa + u * u) * v /\ q = qa + qb - v * u
  BY DEF Overlap
<1>2. /\ (xa > qa => xa = L * u)
      /\ (xb < qb => xb = (R - v) * v)
      /\ x <= (R - (u + v)) * (u + v)
      /\ (x < q => x = (R - (u + v)) * (u + v))
  BY DEF Overlap, Clamps
<1>3. PICK S, W, P : S = R - (u + v) /\ W = u + v /\ P = qa + p - u * s
  OBVIOUS
<1>4. S \in Int /\ W \in Int /\ W > 0 /\ R = S + u + v /\ P \in Int /\ u * s \in Int
  BY <1>1, <1>3
<1>5. CASE s * xb - v * p <= v * (xb - qb)
  <2>1. PICK t, z : t = v - s /\ z = x + u * W
    OBVIOUS
  <2>2. t \in Int /\ t >= 0 /\ z \in Int /\ s = v - t
    BY <1>1, <1>4, <2>1
  <2>3. xb * W <= z * v
    <3>1. (xb - v * u) * W <= x * v
      BY <1>3, MovesRight
    <3>2. (xb - v * u) * W = xb * W - (u * W) * v /\ z * v = x * v + (u * W) * v
      BY <1>1, <1>4, <2>1
    <3>3. xb * W \in Int /\ (u * W) * v \in Int /\ x * v \in Int
      BY <1>1, <1>4
    <3>. QED  BY <3>1, <3>2, <3>3
  <2>4. (qb - p) * v <= xb * t
    <3>1. xb * t = xb * v - s * xb /\ (qb - p) * v = qb * v - v * p /\ v * (xb - qb) = xb * v - qb * v
      BY <1>1, <2>1
    <3>2. xb * v \in Int /\ s * xb \in Int /\ qb * v \in Int /\ v * p \in Int
      BY <1>1
    <3>. QED  BY <1>5, <3>1, <3>2
  <2>5. (qb - p) * W <= z * t
    <3>1. ((qb - p) * v) * W <= (xb * t) * W
      <4>1. (qb - p) * v \in Int /\ xb * t \in Int
        BY <1>1, <2>2
      <4>. QED  BY <1>4, <2>4, <4>1, Scaled
    <3>2. (xb * W) * t <= (z * v) * t
      <4>1. xb * W \in Int /\ z * v \in Int
        BY <1>1, <1>4, <2>2
      <4>. QED  BY <2>2, <2>3, <4>1, Scaled
    <3>3. /\ ((qb - p) * v) * W = ((qb - p) * W) * v
          /\ (xb * t) * W = (xb * W) * t /\ (z * v) * t = (z * t) * v
      BY <1>1, <1>4, <2>2
    <3>4. ((qb - p) * W) * v \in Int /\ (xb * W) * t \in Int /\ (z * t) * v \in Int
          /\ (qb - p) * W \in Int /\ z * t \in Int
      BY <1>1, <1>4, <2>2
    <3>5. ((qb - p) * W) * v <= (z * t) * v
      BY <3>1, <3>2, <3>3, <3>4
    <3>. QED  BY <1>1, <3>4, <3>5, CommonFactor
  <2>6. (u + s) * x - W * P <= W * (x - q)
    <3>1. z * t = W * x - (u + s) * x + (u * v) * W - (u * s) * W
      BY <1>1, <1>3, <2>1
    <3>2. W * P = qa * W + p * W - (u * s) * W
      BY <1>1, <1>3, <1>4
    <3>3. W * (x - q) = W * x - qa * W - qb * W + (u * v) * W
      <4>1. x - q = x - qa - qb + u * v
        BY <1>1
      <4>2. u * v \in Int
        BY <1>1
      <4>. QED  BY <1>1, <1>4, <4>1, <4>2
    <3>4. (qb - p) * W = qb * W - p * W
      BY <1>1, <1>4
    <3>5. /\ W * x \in Int /\ (u + s) * x \in Int /\ (u * v) * W \in Int /\ (u * s) * W \in Int
          /\ qa * W \in Int /\ qb * W \in Int /\ p * W \in Int
      BY <1>1, <1>4
    <3>. QED  BY <2>5, <3>1, <3>2, <3>3, <3>4, <3>5
  <2>. QED  BY <1>3, <2>6 DEF HeldAt
<1>6. CASE s * xb - v * p > v * (xb - qb)
  <2>0. s * xb \in Int /\ v * p \in Int
    BY <1>1
  <2>1. s * xb - v * p <= 0
    <3>1. v * (xb - qb) \in Int
      BY <1>1
    <3>. QED  BY <1>6, <2>0, <3>1 DEF HeldAt
  <2>2. xb < qb
    <3>1. PICK d : d = xb - qb
      OBVIOUS
    <3>2. d \in Int /\ v * d \in Int
      BY <1>1, <3>1
    <3>3. v * d < 0
      BY <1>6, <2>0, <2>1, <3>1, <3>2
    <3>4. d < 0
      BY <1>1, <3>2, <3>3
    <3>. QED  BY <1>1, <3>1, <3>4
  <2>3. xb = (S + u) * v
    BY <1>1, <1>2, <1>4, <2>2
  <2>4. s * (S + u) <= p
    <3>1. PICK e : e = s * (S + u)
      OBVIOUS
    <3>2. e \in Int
      BY <1>1, <1>4, <3>1
    <3>3. s * xb = e * v /\ v * p = p * v
      BY <1>1, <1>4, <2>3, <3>1
    <3>4. e * v <= p * v
      BY <2>0, <2>1, <3>3
    <3>5. e <= p
      BY <1>1, <3>2, <3>4, CommonFactor
    <3>. QED  BY <3>1, <3>5
  <2>5. S * u < xa
    <3>1. (xa + u * u) * v = (xa + u * u) * v /\ xb * u = (S * u + u * u) * v
      BY <1>1, <1>4, <2>3
    <3>2. xa + u * u \in Int /\ S * u + u * u \in Int /\ u * u \in Int /\ S * u \in Int
      BY <1>1, <1>4
    <3>3. ~(xa + u * u <= S * u + u * u)
      <4>1. xa + u * u <= S * u + u * u => (xa + u * u) * v <= (S * u + u * u) * v
        BY <1>1, <3>2, CommonFactor
      <4>2. (xa + u * u) * v \in Int /\ (S * u + u * u) * v \in Int
        BY <1>1, <3>2
      <4>. QED  BY <1>1, <3>1, <4>1, <4>2
    <3>. QED  BY <1>1, <3>2, <3>3
  <2>6. S * u < qa
    <3>1. L * u <= S * u
      BY <1>1, <1>3, <1>4, Scaled
    <3>2. L * u \in Int /\ S * u \in Int
      BY <1>1, <1>4
    <3>. QED  BY <1>1, <1>2, <2>5, <3>1, <3>2
  <2>7. x = S * W
    <3>1. S * W < q
      <4>1. S * W = S * u + ((S + u) * v - v * u)
        BY <1>1, <1>3, <1>4
      <4>2. S * u \in Int /\ (S + u) * v \in Int /\ v * u \in Int
        BY <1>1, <1>4
      <4>. QED  BY <1>1, <2>2, <2>3, <2>6, <4>1, <4>2
    <3>2. x <= S * W /\ S * W \in Int
      BY <1>1, <1>2, <1>3, <1>4
    <3>3. x < q
      BY <1>1, <3>1, <3>2
    <3>. QED  BY <1>2, <1>3, <3>3
  <2>8. (u + s) * x - W * P <= 0
    <3>1. PICK e : e = s * (S + u)
      OBVIOUS
    <3>2. e \in Int /\ e = s * S + u * s /\ e <= p
      BY <1>1, <1>4, <2>4, <3>1
    <3>3. (u + s) * S <= P
      <4>1. (u + s) * S = S * u + s * S /\ S * u \in Int /\ s * S \in Int
        BY <1>1, <1>4
      <4>. QED  BY <1>1, <1>3, <1>4, <2>6, <3>2, <4>1
    <3>4. ((u + s) * S) * W <= P * W
      <4>1. (u + s) * S \in Int
        BY <1>1, <1>4
      <4>. QED  BY <1>4, <3>3, <4>1, Scaled
    <3>5. (u + s) * x = ((u + s) * S) * W /\ P * W = W * P
      BY <1>1, <1>4, <2>7
    <3>6. (u + s) * x \in Int /\ W * P \in Int
      BY <1>1, <1>4
    <3>. QED  BY <3>4, <3>5, <3>6
  <2>. QED  BY <1>3, <2>8 DEF HeldAt
<1>7. s * xb - v * p \in Int /\ v * (xb - qb) \in Int
  BY <1>1
<1>. QED  BY <1>5, <1>6, <1>7

\* A cluster stands where the sum of what its members ask for is best served,
\* as far as the row allows it.
Settled(r, k) ==
  Clamps(k.x, k.q, MinX[r] * k.weight, (MaxX[r] - k.width) * k.weight)

\* No group of members at the left end of a cluster would be better off apart
\* from the rest.
Held(wd, cx, k) ==
  \A c \in ToSet(k.member) :
    HeldAt(SumFunctionOnSet(wd, Before(k.member, c)),
           SumFunctionOnSet(Pull(wd, cx, k.member), Before(k.member, c)),
           k.weight, k.x, k.q)

Tight(r, wd, cx, k) ==
  k.width <= MaxX[r] - MinX[r] => Settled(r, k) /\ Held(wd, cx, k)

\* Reposition settles a cluster that fits in its row.
LEMMA RepositionSettled ==
  ASSUME NEW r \in Rows, NEW k \in Cluster, k.width <= MaxX[r] - MinX[r]
  PROVE  Settled(r, Reposition(r, k))
<1>1. PICK q, w, d, m, n : /\ q = k.q /\ w = k.weight /\ d = k.width
                           /\ m = MinX[r] /\ n = MaxX[r] - k.width
  OBVIOUS
<1>2. q \in Int /\ w \in Int /\ w > 0 /\ m \in Int /\ n \in Int /\ d \in Int /\ MaxX[r] \in Int
  BY <1>1, RowsAssumption DEF Cluster, Positive
<1>3. PICK e, x : e = Reposition(r, k) /\ x = ClampedQ(r, q, w, d)
  OBVIOUS
<1>4. e.x = x /\ e.weight = w /\ e.width = d /\ e.q = q
  BY <1>1, <1>3 DEF Reposition, Cluster
<1>5. PICK a, b : a = m * w /\ b = n * w
  OBVIOUS
<1>6. a <= b /\ a \in Int /\ b \in Int
  <2>1. m <= n
    BY <1>1, <1>2
  <2>. QED  BY <1>2, <1>5, <2>1, CommonFactor
<1>7. x = LET y == IF q < a THEN a ELSE q IN IF y > b THEN b ELSE y
  BY <1>1, <1>3, <1>5 DEF ClampedQ
<1>8. Clamps(x, q, a, b)
  BY <1>2, <1>6, <1>7 DEF Clamps
<1>. QED  BY <1>1, <1>3, <1>4, <1>5, <1>8 DEF Settled

\* What is in front of a member is at most the width of the cluster.
LEMMA AheadTypes ==
  ASSUME NEW wd, NEW cx, Measures(wd, cx), NEW k, GoodCluster(wd, cx, k),
         NEW c \in ToSet(k.member), NEW B, B = Before(k.member, c),
         NEW f, f = Pull(wd, cx, k.member)
  PROVE  /\ SumFunctionOnSet(wd, B) \in Int /\ SumFunctionOnSet(wd, B) >= 0
         /\ SumFunctionOnSet(wd, B) <= k.weight
         /\ SumFunctionOnSet(f, B) \in Int
         /\ B \in SUBSET ToSet(k.member) /\ IsFiniteSet(B)
<1>1. PICK s, S : s = k.member /\ S = ToSet(s)
  OBVIOUS
<1>2. s \in Seq(Cells) /\ k.weight = SumFunctionOnSet(wd, S)
  BY <1>1 DEF GoodCluster, Cluster
<1>3. S \in SUBSET Cells /\ IsFiniteSet(S) /\ B \in SUBSET S /\ IsFiniteSet(B)
  BY <1>1, <1>2, MembersFinite
<1>4. \A d \in S : wd[d] \in Int /\ wd[d] >= 0 /\ f[d] \in Int
  <2>1. \A d \in Cells : wd[d] \in Int /\ wd[d] >= 1 /\ f[d] \in Int
    BY <1>1, <1>2, MeasureTypes
  <2>. QED  BY <1>3, <2>1
<1>5. SumFunctionOnSet(wd, B) \in Int /\ SumFunctionOnSet(wd, B) >= 0
  BY <1>3, <1>4, SumType
<1>6. SumFunctionOnSet(f, B) \in Int
  BY <1>3, <1>4, SumType
<1>7. SumFunctionOnSet(wd, B) <= SumFunctionOnSet(wd, S)
  BY <1>3, <1>4, SumGrows
<1>. QED  BY <1>1, <1>2, <1>3, <1>5, <1>6, <1>7

\* A cluster that absorbs the tight one it overlaps is tight again.
LEMMA MergeTight ==
  ASSUME NEW r \in Rows, NEW wd, NEW cx, Measures(wd, cx),
         NEW a, GoodCluster(wd, cx, a), Tight(r, wd, cx, a),
         NEW b, GoodCluster(wd, cx, b), Tight(r, wd, cx, b),
         ToSet(a.member) \cap ToSet(b.member) = {}, ~EndsBy(a, b.x, b.weight),
         NEW e, e = Reposition(r, AddCluster(a, b))
  PROVE  Tight(r, wd, cx, e)
<1>1. PICK s, t, m, k : s = a.member /\ t = b.member /\ m = s \o t /\ k = AddCluster(a, b)
  OBVIOUS
<1>2. PICK S, T : S = ToSet(s) /\ T = ToSet(t)
  OBVIOUS
<1>3. a \in Cluster /\ b \in Cluster /\ s \in Seq(Cells) /\ t \in Seq(Cells) /\ k \in Cluster
  BY <1>1, AddClusterType DEF GoodCluster, Cluster
<1>4. PICK L, R, u, v, qa, xa, qb, xb, q, x :
        /\ L = MinX[r] /\ R = MaxX[r] /\ u = a.weight /\ v = b.weight
        /\ qa = a.q /\ xa = a.x /\ qb = b.q /\ xb = b.x /\ q = e.q /\ x = e.x
  OBVIOUS
<1>5. /\ e \in Cluster /\ e.member = m /\ e.weight = u + v /\ e.width = u + v
      /\ q = qa + qb - v * u
  <2>1. e \in Cluster
    BY <1>1, <1>3, RepositionType
  <2>2. e.member = k.member /\ e.weight = k.weight /\ e.width = k.width /\ e.q = k.q
    BY <1>1, <1>3 DEF Reposition, Cluster
  <2>3. a.width = u /\ b.width = v
    BY <1>4 DEF GoodCluster
  <2>4. k.member = m /\ k.weight = u + v /\ k.width = u + v /\ k.q = qa + qb - v * u
    BY <1>1, <1>3, <1>4, <2>3 DEF AddCluster, Cluster
  <2>. QED  BY <1>4, <2>1, <2>2, <2>4
<1>6. a.width = u /\ b.width = v
  BY <1>4 DEF GoodCluster
<1>7. /\ L \in Int /\ R \in Int /\ u \in Int /\ u > 0 /\ v \in Int /\ v > 0
      /\ qa \in Int /\ xa \in Int /\ qb \in Int /\ xb \in Int /\ q \in Int /\ x \in Int
  <2>1. u \in Positive /\ v \in Positive /\ qa \in Int /\ xa \in Int /\ qb \in Int /\ xb \in Int
        /\ q \in Int /\ x \in Int
    BY <1>3, <1>4, <1>5 DEF Cluster
  <2>. QED  BY <1>4, <2>1, RowsAssumption DEF Positive
<1>. SUFFICES ASSUME u + v <= R - L PROVE Settled(r, e) /\ Held(wd, cx, e)
  BY <1>4, <1>5 DEF Tight
<1>8. Settled(r, a) /\ Held(wd, cx, a) /\ Settled(r, b) /\ Held(wd, cx, b)
  <2>1. u <= R - L /\ v <= R - L
    BY <1>7
  <2>. QED  BY <1>4, <1>6, <2>1 DEF Tight
<1>9. Settled(r, e)
  <2>1. k.width <= MaxX[r] - MinX[r]
    <3>1. e.width = k.width
      BY <1>1, <1>3 DEF Reposition, Cluster
    <3>. QED  BY <1>4, <1>5, <3>1
  <2>. QED  BY <1>1, <1>3, <2>1, RepositionSettled
<1>10. Overlap(L, R, u, v, qa, xa, qb, xb, q, x)
  <2>1. Clamps(xa, qa, L * u, (R - u) * u) /\ Clamps(xb, qb, L * v, (R - v) * v)
    BY <1>4, <1>6, <1>8 DEF Settled
  <2>2. Clamps(x, q, L * (u + v), (R - (u + v)) * (u + v))
    BY <1>4, <1>5, <1>9 DEF Settled
  <2>3. xb * u < (xa + u * u) * v
    <3>1. ~((xa + u * u) * v <= xb * u)
      BY <1>4, <1>6 DEF EndsBy
    <3>2. xb * u \in Int /\ (xa + u * u) * v \in Int
      BY <1>7
    <3>. QED  BY <3>1, <3>2
  <2>4. L <= R - (u + v)
    BY <1>7
  <2>. QED  BY <1>5, <1>7, <2>1, <2>2, <2>3, <2>4 DEF Overlap
<1>11. /\ m \in Seq(Cells) /\ ToSet(m) = S \cup T /\ S \cap T = {}
       /\ \A c \in S : Before(m, c) = Before(s, c)
       /\ \A c \in T : Before(m, c) = S \cup Before(t, c)
  <2>1. Joins(s, t, m)
    <3>1. Distinct(s) /\ Distinct(t) /\ ToSet(s) \cap ToSet(t) = {}
      BY <1>1 DEF GoodCluster
    <3>. QED  BY <1>1, <1>3, <3>1 DEF Joins
  <2>2. S \cap T = {}
    BY <1>1, <1>2
  <2>3. /\ m \in Seq(Cells) /\ ToSet(m) = ToSet(s) \cup ToSet(t)
        /\ \A c \in ToSet(s) : Before(m, c) = Before(s, c)
        /\ \A c \in ToSet(t) : Before(m, c) = ToSet(s) \cup Before(t, c)
    BY <2>1, MembersOfBoth
  <2>. QED  BY <1>2, <2>2, <2>3
<1>12. PICK f, g, h : /\ f = Pull(wd, cx, s) /\ g = Pull(wd, cx, t) /\ h = Pull(wd, cx, m)
  OBVIOUS
<1>13. IsFiniteSet(S) /\ IsFiniteSet(T) /\ S \in SUBSET Cells /\ T \in SUBSET Cells
  BY <1>2, <1>3, MembersFinite
<1>14. \A c \in Cells : /\ wd[c] \in Int /\ wd[c] >= 1 /\ cx[c] \in Int
                        /\ f[c] \in Int /\ g[c] \in Int /\ h[c] \in Int
  BY <1>3, <1>11, <1>12, MeasureTypes
<1>15. \A c \in S : h[c] = f[c]
  BY <1>11, <1>12, <1>13 DEF Pull
<1>16. SumFunctionOnSet(wd, S) = u
  BY <1>1, <1>2, <1>4 DEF GoodCluster
<1>17. ASSUME NEW c \in T
       PROVE  h[c] = g[c] + (-u) * wd[c]
  <2>1. PICK B : B = Before(t, c)
    OBVIOUS
  <2>2. B \in SUBSET T /\ IsFiniteSet(B) /\ S \cap B = {} /\ c \in Cells
    BY <1>2, <1>3, <1>11, <1>13, <2>1, MembersFinite
  <2>3. SumFunctionOnSet(wd, S \cup B) = SumFunctionOnSet(wd, S) + SumFunctionOnSet(wd, B)
    <3>1. \A d \in S \cup B : wd[d] \in Int
      BY <1>13, <1>14, <2>2
    <3>. QED  BY <1>13, <2>2, <3>1, SumUnion
  <2>4. PICK o, w, y : o = SumFunctionOnSet(wd, B) /\ w = wd[c] /\ y = cx[c]
    OBVIOUS
  <2>5. o \in Int /\ w \in Int /\ y \in Int
    <3>1. \A d \in B : wd[d] \in Int
      BY <1>13, <1>14, <2>2
    <3>. QED  BY <1>14, <2>2, <2>4, <3>1, SumType
  <2>6. h[c] = w * (y - (u + o))
    <3>1. SumFunctionOnSet(wd, Before(m, c)) = u + o
      BY <1>11, <1>16, <2>1, <2>3, <2>4
    <3>2. h[c] = wd[c] * (cx[c] - SumFunctionOnSet(wd, Before(m, c)))
      BY <1>12, <2>2 DEF Pull
    <3>. QED  BY <2>4, <3>1, <3>2
  <2>7. g[c] = w * (y - o)
    <3>1. g[c] = wd[c] * (cx[c] - SumFunctionOnSet(wd, Before(t, c)))
      BY <1>12, <2>2 DEF Pull
    <3>. QED  BY <2>1, <2>4, <3>1
  <2>8. w * (y - (u + o)) = w * (y - o) + (-u) * w
    BY <1>7, <2>5
  <2>. QED  BY <2>4, <2>6, <2>7, <2>8
<1>18. ASSUME NEW c \in S
       PROVE  HeldAt(SumFunctionOnSet(wd, Before(m, c)), SumFunctionOnSet(h, Before(m, c)),
                     u + v, x, q)
  <2>1. PICK B, o, p : B = Before(s, c) /\ o = SumFunctionOnSet(wd, B) /\ p = SumFunctionOnSet(f, B)
    OBVIOUS
  <2>2. o \in Int /\ o >= 0 /\ p \in Int /\ B \in SUBSET S /\ IsFiniteSet(B)
    BY <1>1, <1>2, <1>12, <2>1, AheadTypes
  <2>3. HeldAt(o, p, u, xa, qa)
    BY <1>1, <1>2, <1>4, <1>8, <1>12, <2>1 DEF Held
  <2>4. HeldAt(o, p, u + v, x, q)
    BY <1>10, <2>2, <2>3, HeldOnTheLeft
  <2>5. SumFunctionOnSet(h, B) = SumFunctionOnSet(f, B)
    <3>1. \A d \in B : h[d] = f[d]
      BY <1>15, <2>2
    <3>. QED  BY <2>2, <3>1, SumSame
  <2>. QED  BY <1>11, <2>1, <2>4, <2>5
<1>19. ASSUME NEW c \in T
       PROVE  HeldAt(SumFunctionOnSet(wd, Before(m, c)), SumFunctionOnSet(h, Before(m, c)),
                     u + v, x, q)
  <2>1. PICK B, o, p : B = Before(t, c) /\ o = SumFunctionOnSet(wd, B) /\ p = SumFunctionOnSet(g, B)
    OBVIOUS
  <2>2. o \in Int /\ o <= v /\ p \in Int /\ B \in SUBSET T /\ IsFiniteSet(B)
    <3>1. c \in ToSet(b.member) /\ B = Before(b.member, c) /\ g = Pull(wd, cx, b.member)
      BY <1>1, <1>2, <1>12, <2>1
    <3>2. SumFunctionOnSet(wd, B) \in Int /\ SumFunctionOnSet(wd, B) <= b.weight
          /\ SumFunctionOnSet(g, B) \in Int /\ B \in SUBSET ToSet(b.member) /\ IsFiniteSet(B)
      BY <3>1, AheadTypes
    <3>. QED  BY <1>1, <1>2, <1>4, <2>1, <3>2
  <2>3. HeldAt(o, p, v, xb, qb)
    BY <1>1, <1>2, <1>4, <1>8, <1>12, <2>1 DEF Held
  <2>4. HeldAt(u + o, qa + p - u * o, u + v, x, q)
    BY <1>10, <2>2, <2>3, HeldOnTheRight
  <2>5. S \cap B = {} /\ \A d \in S \cup B : d \in Cells
    BY <1>11, <1>13, <2>2
  <2>6. SumFunctionOnSet(wd, S \cup B) = u + o
    <3>1. \A d \in S \cup B : wd[d] \in Int
      BY <1>14, <2>5
    <3>. QED  BY <1>13, <1>16, <2>1, <2>2, <2>5, <3>1, SumUnion
  <2>7. SumFunctionOnSet(h, S \cup B) = qa + p - u * o
    <3>1. \A d \in S \cup B : h[d] \in Int
      BY <1>14, <2>5
    <3>2. SumFunctionOnSet(h, S \cup B) = SumFunctionOnSet(h, S) + SumFunctionOnSet(h, B)
      BY <1>13, <2>2, <2>5, <3>1, SumUnion
    <3>3. SumFunctionOnSet(h, S) = SumFunctionOnSet(f, S)
      BY <1>13, <1>15, SumSame
    <3>4. SumFunctionOnSet(f, S) = qa
      BY <1>1, <1>2, <1>4, <1>12 DEF GoodCluster
    <3>5. SumFunctionOnSet(h, B) = p + (-u) * o
      <4>1. PICK z : z = -u
        OBVIOUS
      <4>2. z \in Int
        BY <1>7, <4>1
      <4>3. \A d \in B : g[d] \in Int /\ wd[d] \in Int /\ h[d] = g[d] + z * wd[d]
        BY <1>14, <1>17, <2>2, <2>5, <4>1
      <4>4. SumFunctionOnSet(h, B) = SumFunctionOnSet(g, B) + z * SumFunctionOnSet(wd, B)
        BY <2>2, <4>2, <4>3, SumLinear
      <4>. QED  BY <2>1, <4>1, <4>4
    <3>6. qa + (p + (-u) * o) = qa + p - u * o
      BY <1>7, <2>2
    <3>. QED  BY <3>2, <3>3, <3>4, <3>5, <3>6
  <2>. QED  BY <1>11, <2>1, <2>4, <2>6, <2>7
<1>20. Held(wd, cx, e)
  BY <1>4, <1>5, <1>11, <1>12, <1>18, <1>19 DEF Held
<1>. QED  BY <1>9, <1>20

TightRow(r, wd, cx, ks) == \A i \in DOMAIN ks : Tight(r, wd, cx, ks[i])

\* A round of placeRowFinal leaves the clusters tight.
LEMMA CollapseStepTight ==
  ASSUME NEW r \in Rows, NEW wd, NEW cx, Measures(wd, cx),
         NEW prev, GoodCluster(wd, cx, prev), Tight(r, wd, cx, prev),
         NEW M, NEW done, RowOf(wd, cx, M, done), done # <<>>, TightRow(r, wd, cx, done),
         NEW P, P = ToSet(prev.member), P \cap M = {}
  PROVE  TightRow(r, wd, cx, CollapseStep(r, prev, done))
<1>1. PICK k, next : k = Head(done) /\ next = CollapseStep(r, prev, done)
  OBVIOUS
<1>2. done \in Seq(Cluster) /\ 1 \in DOMAIN done /\ k = done[1] /\ prev \in Cluster
  BY <1>1 DEF RowOf, GoodCluster
<1>3. CASE Len(done) > 1 \/ EndsBy(prev, k.x, k.weight)
  <2>1. next = <<prev>> \o done
    BY <1>1, <1>3 DEF CollapseStep
  <2>2. /\ next[1] = prev
        /\ \A i \in DOMAIN next : i # 1 => i - 1 \in DOMAIN done /\ next[i] = done[i - 1]
    BY <1>2, <2>1
  <2>3. TightRow(r, wd, cx, next)
    BY <2>2 DEF TightRow
  <2>. QED  BY <1>1, <2>3
<1>4. CASE ~(Len(done) > 1 \/ EndsBy(prev, k.x, k.weight))
  <2>1. PICK e : e = Reposition(r, AddCluster(prev, k))
    OBVIOUS
  <2>2. next = <<e>>
    BY <1>1, <1>4, <2>1 DEF CollapseStep
  <2>3. GoodCluster(wd, cx, k) /\ Tight(r, wd, cx, k)
    BY <1>2 DEF RowOf, TightRow
  <2>4. ToSet(prev.member) \cap ToSet(k.member) = {}
    <3>1. ToSet(k.member) \in SUBSET Cells
      BY <2>3, MembersFinite DEF GoodCluster, Cluster
    <3>2. \A c \in ToSet(k.member) : c \in M
      BY <1>2, <3>1 DEF RowOf
    <3>. QED  BY <3>2
  <2>5. Tight(r, wd, cx, e)
    BY <1>4, <2>1, <2>3, <2>4, MergeTight
  <2>6. DOMAIN next = {1} /\ next[1] = e
    BY <2>2
  <2>7. TightRow(r, wd, cx, next)
    BY <2>5, <2>6 DEF TightRow
  <2>. QED  BY <1>1, <2>7
<1>. QED  BY <1>3, <1>4

\* A cluster of one cell that stands where the cell asks to be is tight.
LEMMA SingleTight ==
  ASSUME NEW r \in Rows, NEW wd, NEW cx, Measures(wd, cx), NEW c \in Cells, NEW k,
         k = [x |-> cx[c] * wd[c], q |-> wd[c] * cx[c], weight |-> wd[c],
              width |-> wd[c], member |-> <<c>>],
         wd[c] <= MaxX[r] - MinX[r] => MinX[r] <= cx[c] /\ cx[c] <= MaxX[r] - wd[c]
  PROVE  Tight(r, wd, cx, k)
<1>. SUFFICES ASSUME k.width <= MaxX[r] - MinX[r] PROVE Settled(r, k) /\ Held(wd, cx, k)
  BY DEF Tight
<1>1. PICK w, x, m, n, s : w = wd[c] /\ x = cx[c] /\ m = MinX[r] /\ n = MaxX[r] - w /\ s = <<c>>
  OBVIOUS
<1>2. w \in Int /\ w > 0 /\ x \in Int /\ m \in Int /\ n \in Int /\ MaxX[r] \in Int
  BY <1>1, RowsAssumption DEF Measures, Positive
<1>3. /\ k.width = w /\ k.weight = w /\ k.x = x * w /\ k.q = w * x /\ k.member = s
  BY <1>1
<1>4. m <= x /\ x <= n
  BY <1>1, <1>2, <1>3
<1>5. Clamps(x * w, w * x, m * w, n * w)
  <2>1. m * w <= x * w /\ x * w <= n * w
    BY <1>2, <1>4, CommonFactor
  <2>2. x * w = w * x /\ x * w \in Int
    BY <1>2
  <2>. QED  BY <2>1, <2>2 DEF Clamps
<1>6. Settled(r, k)
  BY <1>1, <1>3, <1>5 DEF Settled
<1>7. ASSUME NEW d \in ToSet(s)
      PROVE  HeldAt(SumFunctionOnSet(wd, Before(s, d)),
                    SumFunctionOnSet(Pull(wd, cx, s), Before(s, d)), w, k.x, k.q)
  <2>1. Before(s, d) = {}
    BY <1>1 DEF Before, ToSet
  <2>2. PICK y, q : y = k.x /\ q = k.q
    OBVIOUS
  <2>3. y \in Int
    BY <1>2, <1>3, <2>2
  <2>4. HeldAt(0, 0, w, y, q)
    BY <1>2, <2>3 DEF HeldAt
  <2>. QED  BY <2>1, <2>2, <2>4, SumEmpty
<1>8. Held(wd, cx, k)
  BY <1>3, <1>7 DEF Held
<1>. QED  BY <1>6, <1>8

-----------------------------------------------------------------------------
(***************************************************************************)
(* All rounds of placeRowFinal together keep the clusters good, packed and  *)
(* tight.                                                                  *)
(***************************************************************************)

\* All rounds together, on a row of which e is the last cluster.
LEMMA CollapsedRow ==
  ASSUME NEW r \in Rows, NEW wd, NEW cx, Measures(wd, cx),
         NEW M, M \in SUBSET Cells, NEW front, RowOf(wd, cx, M, front), Packed(r, front),
         NEW e, GoodCluster(wd, cx, e), NEW L, L = ToSet(e.member), L \cap M = {},
         NEW N, N = M \cup L
  PROVE  LET done == FoldRight(LAMBDA prev, d : CollapseStep(r, prev, d), front,
                               <<Reposition(r, e)>>)
         IN /\ RowOf(wd, cx, N, done) /\ Packed(r, done)
            /\ TightRow(r, wd, cx, front) /\ Tight(r, wd, cx, Reposition(r, e)) =>
                 TightRow(r, wd, cx, done)
<1>1. PICK k, b : k = Reposition(r, e) /\ b = <<k>>
  OBVIOUS
<1>2. e \in Cluster /\ k \in Cluster /\ front \in Seq(Cluster)
  BY <1>1, RepositionType DEF GoodCluster, RowOf
<1>3. GoodCluster(wd, cx, k) /\ ToSet(k.member) = L /\ Within(r, k) /\ L \in SUBSET Cells
  BY <1>1, <1>2, RepositionGood, RepositionWithin, MembersFinite DEF Cluster
<1>4. b \in Rounds /\ Len(b) = 1 /\ DOMAIN b = {1} /\ b[1] = k
  BY <1>1, <1>2 DEF Rounds
<1>5. PICK h :
           /\ h[Len(front) + 1] = b
           /\ \A i \in 1 .. Len(front) : h[i] = CollapseStep(r, front[i], h[i + 1])
           /\ FoldRight(LAMBDA prev, d : CollapseStep(r, prev, d), front, b) = h[1]
  BY <1>2, <1>4, CollapseRounds
<1>6. PICK n : n = Len(front)
  OBVIOUS
<1>7. n \in Nat /\ DOMAIN front = 1 .. n /\ \A i \in 1 .. n : front[i] \in Cluster
  BY <1>2, <1>6
<1> DEFINE Rest(i) == {c \in Cells : c \in L \/ \E j \in i .. n : c \in ToSet(front[j].member)}
           Good(i) == /\ RowOf(wd, cx, Rest(i), h[i]) /\ Packed(r, h[i]) /\ h[i] \in Rounds
                      /\ Len(h[i]) > 1 => i =< n /\ h[i][1] = front[i]
                      /\ TightRow(r, wd, cx, front) /\ Tight(r, wd, cx, k) =>
                           TightRow(r, wd, cx, h[i])
           G == {i \in 1 .. n + 1 : Good(i)}
<1>8. n + 1 \in G
  <2>1. Rest(n + 1) = L
    BY <1>3, <1>7
  <2>2. RowOf(wd, cx, L, b)
    BY <1>1, <1>3, OneCluster
  <2>3. Packed(r, b)
    BY <1>3, <1>4 DEF Packed
  <2>4. h[n + 1] = b /\ n + 1 \in 1 .. n + 1
    <3>1. h[n + 1] = b
      BY <1>5, <1>6
    <3>2. n + 1 \in 1 .. n + 1
      BY <1>7
    <3>. QED  BY <3>1, <3>2
  <2>5. Good(n + 1)
    <3>1. RowOf(wd, cx, Rest(n + 1), h[n + 1])
      BY <2>1, <2>2, <2>4
    <3>2. Packed(r, h[n + 1]) /\ h[n + 1] \in Rounds
      BY <1>4, <2>3, <2>4
    <3>3. ~(Len(h[n + 1]) > 1)
      <4>1. PICK g : g = h[n + 1]
        OBVIOUS
      <4>2. g = b
        BY <2>4, <4>1
      <4>3. Len(g) = 1
        BY <1>4, <4>2
      <4>. QED  BY <4>1, <4>3
    <3>4. Tight(r, wd, cx, k) => TightRow(r, wd, cx, h[n + 1])
      BY <1>4, <2>4 DEF TightRow
    <3>. HIDE DEF Rest
    <3>. QED  BY <3>1, <3>2, <3>3, <3>4
  <2>. HIDE DEF Good
  <2>. QED  BY <2>4, <2>5
<1>9. ASSUME NEW i \in 1 .. n, i + 1 \in G
      PROVE  i \in G
  <2>1. PICK prev, done, P, R, S : /\ prev = front[i] /\ done = h[i + 1]
                                   /\ P = ToSet(prev.member)
                                   /\ R = Rest(i + 1) /\ S = Rest(i)
    OBVIOUS
  <2>2. /\ RowOf(wd, cx, R, done) /\ Packed(r, done) /\ done \in Rounds
        /\ Len(done) > 1 => i + 1 =< n /\ done[1] = front[i + 1]
        /\ TightRow(r, wd, cx, front) /\ Tight(r, wd, cx, k) => TightRow(r, wd, cx, done)
    BY <1>9, <2>1
  <2>3. GoodCluster(wd, cx, prev) /\ Within(r, prev) /\ prev \in Cluster
    BY <1>7, <2>1 DEF RowOf, Packed
  <2>4. R \in SUBSET Cells
    BY <2>1
  <2>5. P \in SUBSET Cells
    BY <2>1, <2>3, MembersFinite DEF Cluster
  <2>6. P \cap R = {}
    <3>1. \A j \in i + 1 .. n : P \cap ToSet(front[j].member) = {}
      BY <1>7, <2>1 DEF RowOf
    <3>2. \A c \in P : c \in M
      BY <1>7, <2>1, <2>5 DEF RowOf
    <3>. QED  BY <2>1, <3>1, <3>2
  <2>7. S = R \cup P
    <3>1. \A c \in Cells : c \in S <=> c \in L \/ \E j \in i .. n : c \in ToSet(front[j].member)
      BY <2>1
    <3>2. \A c \in Cells : c \in R <=> c \in L \/ \E j \in i + 1 .. n : c \in ToSet(front[j].member)
      BY <2>1
    <3>3. \A j : j \in i .. n <=> j = i \/ j \in i + 1 .. n
      BY <1>7
    <3>4. S \in SUBSET Cells
      BY <2>1
    <3>5. \A c \in Cells : c \in S <=> c \in R \/ c \in P
      BY <2>1, <3>1, <3>2, <3>3
    <3>. QED  BY <2>4, <2>5, <3>4, <3>5
  <2>8. Len(done) > 1 => EndsBy(prev, done[1].x, done[1].weight)
    BY <1>7, <2>1, <2>2 DEF Packed
  <2>9. PICK step : step = CollapseStep(r, prev, done)
    OBVIOUS
  <2>10. step \in Rounds
    BY <2>2, <2>3, <2>9, CollapseStepType
  <2>11. RowOf(wd, cx, S, step)
    <3>1. done # <<>>
      BY <2>2 DEF Rounds
    <3>. QED  BY <2>1, <2>2, <2>3, <2>4, <2>6, <2>7, <2>9, <3>1, CollapseStepGood
  <2>12. Packed(r, step) /\ (Len(step) > 1 => step[1] = prev)
    BY <2>2, <2>3, <2>8, <2>9, CollapseStepPacked
  <2>13. h[i] = step
    BY <1>5, <1>6, <2>1, <2>9
  <2>14. i \in 1 .. n + 1 /\ i =< n
    BY <1>7
  <2>15. ASSUME TightRow(r, wd, cx, front), Tight(r, wd, cx, k)
         PROVE  TightRow(r, wd, cx, step)
    <3>1. done # <<>>
      BY <2>2 DEF Rounds
    <3>2. TightRow(r, wd, cx, done) /\ Tight(r, wd, cx, prev)
      BY <1>7, <2>1, <2>2, <2>15 DEF TightRow
    <3>. QED  BY <2>2, <2>3, <2>1, <2>6, <2>9, <3>1, <3>2, CollapseStepTight
  <2>16. Good(i)
    BY <2>1, <2>10, <2>11, <2>12, <2>13, <2>14, <2>15
  <2>. HIDE DEF Good
  <2>. QED  BY <2>14, <2>16
<1>10. 1 \in G
  <2>. HIDE DEF G
  <2>. QED  BY <1>7, <1>8, <1>9, InductionFromRight
<1>11. Rest(1) = N
  <2>1. \A c \in Cells : c \in M <=> \E j \in 1 .. n : c \in ToSet(front[j].member)
    BY <1>7 DEF RowOf
  <2>. QED  BY <1>3, <2>1
<1>12. /\ RowOf(wd, cx, N, h[1]) /\ Packed(r, h[1])
       /\ TightRow(r, wd, cx, front) /\ Tight(r, wd, cx, k) => TightRow(r, wd, cx, h[1])
  BY <1>10, <1>11
<1>. QED  BY <1>1, <1>5, <1>12

\* A row without its last cluster.
LEMMA FrontOfRow ==
  ASSUME NEW r \in Rows, NEW wd, NEW cx, NEW M, M \in SUBSET Cells,
         NEW ks, RowOf(wd, cx, M, ks), Packed(r, ks), ks # <<>>
  PROVE  /\ GoodCluster(wd, cx, Last(ks)) /\ ToSet(Last(ks).member) \in SUBSET M
         /\ RowOf(wd, cx, M \ ToSet(Last(ks).member), Front(ks)) /\ Packed(r, Front(ks))
         /\ TightRow(r, wd, cx, ks) =>
              TightRow(r, wd, cx, Front(ks)) /\ Tight(r, wd, cx, Last(ks))
<1>1. PICK n, k, f, L : n = Len(ks) /\ k = Last(ks) /\ f = Front(ks) /\ L = ToSet(k.member)
  OBVIOUS
<1>2. /\ ks \in Seq(Cluster) /\ n \in Nat /\ n >= 1 /\ DOMAIN ks = 1 .. n
      /\ f \in Seq(Cluster) /\ k = ks[n] /\ DOMAIN f = 1 .. n - 1
      /\ \A i \in 1 .. n - 1 : f[i] = ks[i] /\ i \in DOMAIN ks /\ i # n
  <2>1. ks \in Seq(Cluster)
    BY DEF RowOf
  <2>. QED  BY <1>1, <2>1, FrontAndLast
<1>3. GoodCluster(wd, cx, k) /\ L \in SUBSET Cells
  <2>1. GoodCluster(wd, cx, k)
    BY <1>2 DEF RowOf
  <2>. QED  BY <1>1, <2>1, MembersFinite DEF GoodCluster, Cluster
<1>4. L \in SUBSET M
  BY <1>1, <1>2, <1>3 DEF RowOf
<1>5. ASSUME NEW c \in Cells
      PROVE  c \in M \ L <=> \E i \in DOMAIN f : c \in ToSet(f[i].member)
  <2>1. ASSUME c \in M \ L
        PROVE  \E i \in DOMAIN f : c \in ToSet(f[i].member)
    <3>1. PICK i \in DOMAIN ks : c \in ToSet(ks[i].member)
      BY <2>1 DEF RowOf
    <3>2. i # n
      BY <1>1, <1>2, <2>1, <3>1
    <3>3. i \in 1 .. n - 1
      BY <1>2, <3>2
    <3>. QED  BY <1>2, <3>1, <3>3
  <2>2. ASSUME NEW i \in DOMAIN f, c \in ToSet(f[i].member)
        PROVE  c \in M \ L
    <3>1. f[i] = ks[i] /\ i \in DOMAIN ks /\ n \in DOMAIN ks /\ i # n
      BY <1>2
    <3>. QED  BY <1>1, <1>2, <2>2, <3>1 DEF RowOf
  <2>. QED  BY <2>1, <2>2
<1>6. RowOf(wd, cx, M \ L, f)
  <2>1. \A i \in DOMAIN f : GoodCluster(wd, cx, f[i])
    BY <1>2 DEF RowOf
  <2>2. \A i, j \in DOMAIN f : i # j => ToSet(f[i].member) \cap ToSet(f[j].member) = {}
    BY <1>2 DEF RowOf
  <2>. QED  BY <1>2, <1>5, <2>1, <2>2 DEF RowOf
<1>7. Packed(r, f)
  BY <1>2 DEF Packed
<1>8. TightRow(r, wd, cx, ks) => TightRow(r, wd, cx, f) /\ Tight(r, wd, cx, k)
  BY <1>2 DEF TightRow
<1>. QED  BY <1>1, <1>3, <1>4, <1>6, <1>7, <1>8

\* A cluster more at the right end of a row.
LEMMA ClusterAtEnd ==
  ASSUME NEW r \in Rows, NEW wd, NEW cx, NEW M, M \in SUBSET Cells,
         NEW ks, RowOf(wd, cx, M, ks), Packed(r, ks),
         NEW k, GoodCluster(wd, cx, k), Within(r, k), NEW P, P = ToSet(k.member), P \cap M = {},
         ks # <<>> => EndsBy(Last(ks), k.x, k.weight), NEW N, N = M \cup P
  PROVE  /\ RowOf(wd, cx, N, Append(ks, k)) /\ Packed(r, Append(ks, k))
         /\ TightRow(r, wd, cx, ks) /\ Tight(r, wd, cx, k) => TightRow(r, wd, cx, Append(ks, k))
<1>1. PICK u, n : u = Append(ks, k) /\ n = Len(ks)
  OBVIOUS
<1>2. k \in Cluster /\ ks \in Seq(Cluster) /\ k.member \in Seq(Cells)
  BY DEF GoodCluster, RowOf, Cluster
<1>3. /\ u \in Seq(Cluster) /\ n \in Nat /\ DOMAIN ks = 1 .. n /\ DOMAIN u = 1 .. n + 1
      /\ u[n + 1] = k /\ \A i \in 1 .. n : u[i] = ks[i] /\ i # n + 1 /\ i \in DOMAIN u
      /\ n + 1 \in DOMAIN u /\ \A i \in DOMAIN u : i # n + 1 => i \in DOMAIN ks
  BY <1>1, <1>2
<1>4. \A i \in DOMAIN u : GoodCluster(wd, cx, u[i]) /\ Within(r, u[i])
  BY <1>3 DEF RowOf, Packed
<1>5. \A i \in DOMAIN ks : ToSet(ks[i].member) \cap P = {}
  <2>1. \A i \in DOMAIN ks : ks[i].member \in Seq(Cells)
    <3>1. \A i \in DOMAIN ks : ks[i] \in Cluster
      BY <1>2
    <3>2. \A e \in Cluster : e.member \in Seq(Cells)
      BY DEF Cluster
    <3>. QED  BY <3>1, <3>2
  <2>2. \A i \in DOMAIN ks : ToSet(ks[i].member) \in SUBSET Cells
    BY <2>1, MembersFinite
  <2>. QED  BY <2>2 DEF RowOf
<1>6. ASSUME NEW i \in DOMAIN u, NEW j \in DOMAIN u, i # j
      PROVE  ToSet(u[i].member) \cap ToSet(u[j].member) = {}
  <2>1. CASE i = n + 1
    <3>1. j \in DOMAIN ks /\ u[j] = ks[j]
      BY <1>3, <1>6, <2>1
    <3>. QED  BY <1>3, <1>5, <2>1, <3>1
  <2>2. CASE j = n + 1
    <3>1. i \in DOMAIN ks /\ u[i] = ks[i]
      BY <1>3, <1>6, <2>2
    <3>. QED  BY <1>3, <1>5, <2>2, <3>1
  <2>3. CASE i # n + 1 /\ j # n + 1
    <3>1. i \in DOMAIN ks /\ j \in DOMAIN ks /\ u[i] = ks[i] /\ u[j] = ks[j]
      BY <1>3, <2>3
    <3>. QED  BY <1>6, <3>1 DEF RowOf
  <2>. QED  BY <2>1, <2>2, <2>3
<1>7. ASSUME NEW c \in Cells
      PROVE  c \in N <=> \E i \in DOMAIN u : c \in ToSet(u[i].member)
  <2>1. c \in M <=> \E i \in DOMAIN ks : c \in ToSet(ks[i].member)
    BY DEF RowOf
  <2>2. c \in P <=> c \in ToSet(u[n + 1].member)
    BY <1>3
  <2>3. (\E i \in DOMAIN u : c \in ToSet(u[i].member))
          <=> (\E i \in DOMAIN ks : c \in ToSet(ks[i].member)) \/ c \in ToSet(u[n + 1].member)
    BY <1>3
  <2>. QED  BY <2>1, <2>2, <2>3
<1>8. ASSUME NEW i \in DOMAIN u, NEW j \in DOMAIN u, i < j
      PROVE  EndsBy(u[i], u[j].x, u[j].weight)
  <2>1. i \in DOMAIN ks /\ u[i] = ks[i] /\ i \in Nat /\ j \in Nat
    <3>1. i # n + 1 /\ i \in Nat /\ j \in Nat
      BY <1>3, <1>8
    <3>. QED  BY <1>3, <3>1
  <2>2. CASE j # n + 1
    <3>1. j \in DOMAIN ks /\ u[j] = ks[j]
      BY <1>3, <2>2
    <3>. QED  BY <1>8, <2>1, <3>1 DEF Packed
  <2>3. CASE j = n + 1
    <3>1. ks # <<>> /\ Last(ks) = ks[n]
      BY <1>1, <1>3, <2>1 DEF Last
    <3>2. EndsBy(ks[n], k.x, k.weight)
      BY <3>1
    <3>3. CASE i = n
      BY <1>3, <2>1, <2>3, <3>2, <3>3
    <3>4. CASE i # n
      <4>1. i < n /\ n \in DOMAIN ks
        BY <1>3, <2>1, <3>4
      <4>2. EndsBy(ks[i], ks[n].x, ks[n].weight)
        BY <2>1, <4>1 DEF Packed
      <4>3. PICK a, b, x, w : a = ks[i] /\ b = ks[n] /\ x = k.x /\ w = k.weight
        OBVIOUS
      <4>4. a \in Cluster /\ b \in Cluster /\ x \in Int /\ w \in Positive
        <5>1. a \in Cluster /\ b \in Cluster
          BY <1>2, <2>1, <4>1, <4>3
        <5>2. k.x \in Int /\ k.weight \in Positive
          BY <1>2 DEF Cluster
        <5>. QED  BY <4>3, <5>1, <5>2
      <4>5. EndsBy(a, x, w)
        BY <3>2, <4>2, <4>3, <4>4, EndsByTransitive
      <4>. QED  BY <1>3, <2>1, <2>3, <4>3, <4>5
    <3>. QED  BY <3>3, <3>4
  <2>. QED  BY <2>2, <2>3
<1>9. RowOf(wd, cx, N, u)
  BY <1>3, <1>4, <1>6, <1>7 DEF RowOf
<1>10. Packed(r, u)
  BY <1>4, <1>8 DEF Packed
<1>11. TightRow(r, wd, cx, ks) /\ Tight(r, wd, cx, k) => TightRow(r, wd, cx, u)
  BY <1>3 DEF TightRow
<1>. QED  BY <1>1, <1>9, <1>10, <1>11

-----------------------------------------------------------------------------
(***************************************************************************)
(* The clusters of every row hold its placed cells, every cell once, with  *)
(* the sums of their members; until the row is written out they are packed *)
(* and tight.                                                              *)
(***************************************************************************)
Asked(r) == [c \in Cells |-> ClampedX(r, c)]

PlacedIn(r) == CellsOf(r) \cap Placed

GoodInv == \A r \in Rows : RowOf(Widths, Asked(r), PlacedIn(r), clusters[r])

PackedInv == \A r \in Rows : nextRow <= r => Packed(r, clusters[r])

TightInv == \A r \in Rows : nextRow <= r => TightRow(r, Widths, Asked(r), clusters[r])

\* Widths and positions are known once all cells are read.
LEMMA AllMeasured ==
  ASSUME BaseInv, phase # "read", NEW r \in Rows
  PROVE  Measures(Widths, Asked(r))
<1>1. \A c \in Cells : CellRead(c)
  BY DEF BaseInv, Phases
<1>2. \A c \in Cells : cell[c].width \in Positive /\ ClampedX(r, c) \in Int
  BY <1>1, AskedFor
<1>. QED  BY <1>2 DEF Measures, Widths, Asked

\* A new cluster is good and lies in its row.
LEMMA NewClusterGood ==
  ASSUME BaseInv, phase # "read", NEW r \in Rows, NEW c \in Cells,
         NEW k, k = NewCluster(ClampedX(r, c), c)
  PROVE  /\ GoodCluster(Widths, Asked(r), k) /\ ToSet(k.member) = {c} /\ Within(r, k)
         /\ Tight(r, Widths, Asked(r), k)
<1>1. PICK wd, cx : wd = Widths /\ cx = Asked(r)
  OBVIOUS
<1>2. Measures(wd, cx)
  BY <1>1, AllMeasured
<1>3. wd[c] = cell[c].width /\ cx[c] = ClampedX(r, c)
  BY <1>1 DEF Widths, Asked
<1>4. k = [x |-> cx[c] * wd[c], q |-> wd[c] * cx[c], weight |-> wd[c],
           width |-> wd[c], member |-> <<c>>]
  BY <1>3 DEF NewCluster
<1>5. GoodCluster(wd, cx, k) /\ ToSet(k.member) = {c}
  BY <1>2, <1>4, SingleGood
<1>6. Within(r, k)
  <2>1. PICK x, w, m, n : x = cx[c] /\ w = wd[c] /\ m = MinX[r] /\ n = MaxX[r] - w
    OBVIOUS
  <2>2. CellRead(c)
    BY DEF BaseInv, Phases
  <2>3. /\ x \in Int /\ w \in Int /\ w > 0 /\ m \in Int /\ n \in Int /\ MaxX[r] \in Int
        /\ cell[c].x \in Int
    BY <1>3, <2>1, <2>2, AskedFor, RowsAssumption
  <2>4. SUFFICES ASSUME m <= n PROVE m * w <= x * w /\ x * w <= n * w
    BY <1>4, <2>1, <2>3 DEF Within
  <2>5. m <= x /\ x <= n
    BY <1>3, <2>1, <2>3, <2>4 DEF ClampedX
  <2>. QED  BY <2>3, <2>5, CommonFactor
<1>7. Tight(r, wd, cx, k)
  <2>1. CellRead(c)
    BY DEF BaseInv, Phases
  <2>2. wd[c] \in Int /\ cell[c].x \in Int /\ MinX[r] \in Int /\ MaxX[r] \in Int
    BY <1>3, <2>1, AskedFor, RowsAssumption
  <2>3. wd[c] <= MaxX[r] - MinX[r] => MinX[r] <= cx[c] /\ cx[c] <= MaxX[r] - wd[c]
    BY <1>3, <2>2 DEF ClampedX
  <2>. QED  BY <1>2, <1>4, <2>3, SingleTight
<1>. QED  BY <1>1, <1>5, <1>6, <1>7

\* Adding a cell to a cluster is absorbing a cluster of that cell.
LEMMA AddCellGood ==
  ASSUME BaseInv, phase # "read", NEW r \in Rows, NEW c \in Cells,
         NEW k, GoodCluster(Widths, Asked(r), k), c \notin ToSet(k.member),
         NEW e, e = AddCell(k, ClampedX(r, c), c)
  PROVE  /\ GoodCluster(Widths, Asked(r), e) /\ ToSet(e.member) = ToSet(k.member) \cup {c}
         /\ Tight(r, Widths, Asked(r), k) /\ ~EndsBy(k, ClampedX(r, c), 1) =>
              Tight(r, Widths, Asked(r), Reposition(r, e))
<1>1. PICK x, w, b : x = ClampedX(r, c) /\ w = cell[c].width /\ b = NewCluster(x, c)
  OBVIOUS
<1>2. /\ GoodCluster(Widths, Asked(r), b) /\ ToSet(b.member) = {c}
      /\ Tight(r, Widths, Asked(r), b)
  BY <1>1, NewClusterGood
<1>3. /\ b.q = w * x /\ b.weight = w /\ b.width = w /\ b.member = <<c>>
  BY <1>1 DEF NewCluster
<1>4. k \in Cluster /\ k.member \in Seq(Cells)
  BY DEF GoodCluster, Cluster
<1>5. x \in Int /\ w \in Int /\ w > 0
  <2>1. CellRead(c)
    BY DEF BaseInv, Phases
  <2>. QED  BY <1>1, <2>1, AskedFor
<1>6. k.q + w * x - w * k.width = k.q + w * (x - k.width)
  <2>1. PICK q, d : q = k.q /\ d = k.width
    OBVIOUS
  <2>2. q \in Int /\ d \in Int
    BY <1>4, <2>1 DEF Cluster, Positive
  <2>3. q + w * x - w * d = q + w * (x - d)
    BY <1>5, <2>2
  <2>. QED  BY <2>1, <2>3
<1>7. Append(k.member, c) = k.member \o <<c>>
  BY <1>4
<1>8. e = AddCluster(k, b)
  BY <1>1, <1>3, <1>4, <1>6, <1>7 DEF AddCell, AddCluster, Cluster
<1>9. ToSet(k.member) \cap ToSet(b.member) = {}
  BY <1>2
<1>10. PICK wd, cx : wd = Widths /\ cx = Asked(r)
  OBVIOUS
<1>11. Measures(wd, cx)
  BY <1>10, AllMeasured
<1>12. GoodCluster(wd, cx, AddCluster(k, b))
       /\ ToSet(AddCluster(k, b).member) = ToSet(k.member) \cup ToSet(b.member)
  BY <1>2, <1>9, <1>10, <1>11, MergeGood
<1>13. ASSUME Tight(r, wd, cx, k), ~EndsBy(k, x, 1)
       PROVE  Tight(r, wd, cx, Reposition(r, e))
  <2>1. PICK f, v, y : f = k.x + k.width * k.weight /\ v = k.weight /\ y = x * v
    OBVIOUS
  <2>2. f \in Int /\ v \in Int /\ y \in Int
    <3>1. k.x \in Int /\ k.width \in Int /\ v \in Int
      BY <1>4, <2>1 DEF Cluster, Positive
    <3>. QED  BY <1>5, <2>1, <3>1
  <2>3. ~(f <= y)
    <3>1. ~(f * 1 <= y)
      BY <1>13, <2>1 DEF EndsBy
    <3>. QED  BY <2>2, <3>1
  <2>4. b.x = x * w /\ b.weight = w
    BY <1>1 DEF NewCluster
  <2>5. ~EndsBy(k, b.x, b.weight)
    <3>1. ~(f * w <= y * w)
      BY <1>5, <2>2, <2>3, CommonFactor
    <3>2. y * w = (x * w) * v
      BY <1>5, <2>1, <2>2
    <3>. QED  BY <2>1, <2>4, <3>1, <3>2 DEF EndsBy
  <2>6. PICK d : d = Reposition(r, AddCluster(k, b))
    OBVIOUS
  <2>7. Tight(r, wd, cx, d)
    BY <1>2, <1>9, <1>10, <1>11, <1>13, <2>5, <2>6, MergeTight
  <2>. QED  BY <1>8, <2>6, <2>7
<1>. QED  BY <1>1, <1>2, <1>8, <1>10, <1>12, <1>13

\* Placing a cell in a row adds it to the clusters and leaves them packed.
LEMMA PlacementGood ==
  ASSUME BaseInv, phase # "read", NEW r \in Rows, NEW c \in Cells,
         NEW M, M \in SUBSET Cells, c \notin M,
         RowOf(Widths, Asked(r), M, clusters[r]), Packed(r, clusters[r]),
         NEW N, N = M \cup {c}
  PROVE  /\ RowOf(Widths, Asked(r), N, WithCell(r, c)) /\ Packed(r, WithCell(r, c))
         /\ TightRow(r, Widths, Asked(r), clusters[r]) =>
              TightRow(r, Widths, Asked(r), WithCell(r, c))
<1>1. PICK wd, cx, ks, x : /\ wd = Widths /\ cx = Asked(r) /\ ks = clusters[r]
                           /\ x = ClampedX(r, c)
  OBVIOUS
<1>2. /\ Measures(wd, cx) /\ RowOf(wd, cx, M, ks) /\ Packed(r, ks) /\ CellRead(c)
      /\ TypeOK /\ ks \in Seq(Cluster)
  BY <1>1, AllMeasured DEF BaseInv, Phases, TypeOK
<1>3. CASE StartsCluster(r, x) /\ WithCell(r, c) = Append(ks, NewCluster(x, c))
  <2>1. PICK k, P : k = NewCluster(x, c) /\ P = ToSet(k.member)
    OBVIOUS
  <2>2. GoodCluster(wd, cx, k) /\ P = {c} /\ Within(r, k) /\ Tight(r, wd, cx, k)
    BY <1>1, <2>1, NewClusterGood
  <2>3. ks # <<>> => EndsBy(Last(ks), k.x, k.weight)
    <3>. SUFFICES ASSUME ks # <<>> PROVE EndsBy(Last(ks), k.x, k.weight)
      OBVIOUS
    <3>1. PICK l, w, f : l = Last(ks) /\ w = cell[c].width /\ f = l.x + l.width * l.weight
      OBVIOUS
    <3>2. EndsBy(l, x, 1)
      BY <1>1, <1>3, <3>1 DEF StartsCluster
    <3>3. l \in Cluster /\ x \in Int /\ w \in Int /\ w > 0
      BY <1>1, <1>2, <3>1, AskedFor, FrontAndLast
    <3>4. k.x = x * w /\ k.weight = w
      BY <2>1, <3>1 DEF NewCluster
    <3>5. PICK v : v = l.weight
      OBVIOUS
    <3>6. f \in Int /\ v \in Int
      <4>1. l.x \in Int /\ l.width \in Int /\ l.weight \in Int
        BY <3>3 DEF Cluster, Positive
      <4>. QED  BY <3>1, <3>5, <4>1
    <3>7. f * 1 <= x * v
      BY <3>1, <3>2, <3>5 DEF EndsBy
    <3>8. f <= x * v /\ x * v \in Int
      BY <3>3, <3>6, <3>7
    <3>9. f * w <= (x * v) * w
      BY <3>3, <3>6, <3>8, CommonFactor
    <3>10. (x * v) * w = (x * w) * v
      BY <3>3, <3>6
    <3>. QED  BY <3>1, <3>4, <3>5, <3>9, <3>10 DEF EndsBy
  <2>4. P \cap M = {} /\ N = M \cup P
    BY <2>2
  <2>5. /\ RowOf(wd, cx, N, Append(ks, k)) /\ Packed(r, Append(ks, k))
        /\ TightRow(r, wd, cx, ks) => TightRow(r, wd, cx, Append(ks, k))
    BY <1>2, <2>1, <2>2, <2>3, <2>4, ClusterAtEnd
  <2>. QED  BY <1>1, <1>3, <2>1, <2>5
<1>4. CASE /\ ~StartsCluster(r, x) /\ ks # <<>>
           /\ WithCell(r, c) = FoldRight(LAMBDA prev, d : CollapseStep(r, prev, d),
                                Front(ks), <<Reposition(r, Extended(r, c))>>)
  <2>1. PICK l, e, K, L, front, R : /\ l = Last(ks) /\ e = Extended(r, c) /\ K = ToSet(l.member)
                                    /\ L = ToSet(e.member) /\ front = Front(ks) /\ R = M \ K
    OBVIOUS
  <2>2. /\ GoodCluster(wd, cx, l) /\ K \in SUBSET M /\ RowOf(wd, cx, R, front) /\ Packed(r, front)
        /\ TightRow(r, wd, cx, ks) => TightRow(r, wd, cx, front) /\ Tight(r, wd, cx, l)
    BY <1>2, <1>4, <2>1, FrontOfRow
  <2>3. c \notin K
    BY <2>2
  <2>4. GoodCluster(wd, cx, e) /\ L = K \cup {c}
    BY <1>1, <2>1, <2>2, <2>3, AddCellGood DEF Extended
  <2>4a. Tight(r, wd, cx, l) => Tight(r, wd, cx, Reposition(r, e))
    <3>1. ~EndsBy(l, x, 1)
      BY <1>1, <1>4, <2>1 DEF StartsCluster
    <3>2. e = AddCell(l, ClampedX(r, c), c)
      BY <1>1, <2>1 DEF Extended
    <3>. QED  BY <1>1, <2>1, <2>2, <2>3, <3>1, <3>2, AddCellGood
  <2>5. R \in SUBSET Cells /\ L \cap R = {} /\ N = R \cup L
    BY <2>1, <2>2, <2>4
  <2>6. LET done == FoldRight(LAMBDA prev, d : CollapseStep(r, prev, d), front,
                               <<Reposition(r, e)>>)
        IN /\ RowOf(wd, cx, N, done) /\ Packed(r, done)
           /\ TightRow(r, wd, cx, front) /\ Tight(r, wd, cx, Reposition(r, e)) =>
                TightRow(r, wd, cx, done)
    BY <1>2, <2>1, <2>2, <2>4, <2>5, CollapsedRow
  <2>. QED  BY <1>1, <1>4, <2>1, <2>2, <2>4a, <2>6
<1>. QED  BY <1>1, <1>2, <1>3, <1>4, Placement

\* Snapping a cluster to its site changes no sums.
LEMMA SnappedRow ==
  ASSUME NEW r \in Rows, NEW wd, NEW cx, NEW M, NEW ks, RowOf(wd, cx, M, ks),
         NEW ls, ls = [i \in 1 .. Len(ks) |-> Snapped(r, ks[i])]
  PROVE  RowOf(wd, cx, M, ls)
<1>1. ks \in Seq(Cluster) /\ DOMAIN ks = 1 .. Len(ks) /\ DOMAIN ls = 1 .. Len(ks)
      /\ \A i \in DOMAIN ks : ks[i] \in Cluster
  BY DEF RowOf
<1>2. \A i \in DOMAIN ks : Snapped(r, ks[i]) \in Cluster
  BY <1>1, SnappedType
<1>3. ls \in Seq(Cluster)
  BY <1>1, <1>2
<1>4. ASSUME NEW i \in DOMAIN ks
      PROVE  ls[i].member = ks[i].member /\ GoodCluster(wd, cx, ls[i])
  <2>1. PICK k, l : k = ks[i] /\ l = ls[i]
    OBVIOUS
  <2>2. k \in Cluster /\ l \in Cluster /\ l = [k EXCEPT !.x = SnappedX(r, k) * k.weight]
    BY <1>1, <1>2, <2>1 DEF Snapped
  <2>3. l.member = k.member /\ l.q = k.q /\ l.weight = k.weight /\ l.width = k.width
    BY <2>2 DEF Cluster
  <2>4. GoodCluster(wd, cx, k)
    BY <2>1 DEF RowOf
  <2>. QED  BY <2>1, <2>2, <2>3, <2>4 DEF GoodCluster
<1>5. DOMAIN ls = DOMAIN ks
  BY <1>1
<1>6. \A i, j \in DOMAIN ls : i # j => ToSet(ls[i].member) \cap ToSet(ls[j].member) = {}
  <2>1. \A i, j \in DOMAIN ks : i # j => ToSet(ks[i].member) \cap ToSet(ks[j].member) = {}
    BY DEF RowOf
  <2>2. \A i \in DOMAIN ks : ToSet(ls[i].member) = ToSet(ks[i].member)
    BY <1>4
  <2>. SUFFICES ASSUME NEW i \in DOMAIN ls, NEW j \in DOMAIN ls, i # j
                PROVE  ToSet(ls[i].member) \cap ToSet(ls[j].member) = {}
    OBVIOUS
  <2>3. i \in DOMAIN ks /\ j \in DOMAIN ks
    BY <1>5
  <2>4. /\ ToSet(ls[i].member) = ToSet(ks[i].member)
        /\ ToSet(ls[j].member) = ToSet(ks[j].member)
    BY <2>2, <2>3
  <2>5. ToSet(ks[i].member) \cap ToSet(ks[j].member) = {}
    BY <2>1, <2>3
  <2>. QED  BY <2>4, <2>5
<1>7. \A c \in Cells : c \in M <=> \E i \in DOMAIN ls : c \in ToSet(ls[i].member)
  <2>1. \A c \in Cells : c \in M <=> \E i \in DOMAIN ks : c \in ToSet(ks[i].member)
    BY DEF RowOf
  <2>. QED  BY <1>4, <1>5, <2>1
<1>8. \A i \in DOMAIN ls : GoodCluster(wd, cx, ls[i])
  BY <1>4, <1>5
<1>. QED  BY <1>3, <1>6, <1>7, <1>8 DEF RowOf

-----------------------------------------------------------------------------
(***************************************************************************)
(* Every step keeps the clusters of every row.                             *)
(***************************************************************************)

\* No clusters, no cells.
LEMMA InitGood == Init => GoodInv /\ PackedInv /\ TightInv
<1>. SUFFICES ASSUME Init, NEW r \in Rows
              PROVE  /\ RowOf(Widths, Asked(r), PlacedIn(r), clusters[r])
                     /\ Packed(r, clusters[r])
                     /\ TightRow(r, Widths, Asked(r), clusters[r])
  BY DEF GoodInv, PackedInv, TightInv
<1>1. PICK ks, M : ks = clusters[r] /\ M = PlacedIn(r)
  OBVIOUS
<1>2. ks \in Seq(Cluster) /\ DOMAIN ks = {} /\ M = {}
  BY <1>1 DEF Init, PlacedIn, Placed
<1>3. RowOf(Widths, Asked(r), M, ks)
  BY <1>2 DEF RowOf
<1>4. Packed(r, ks) /\ TightRow(r, Widths, Asked(r), ks)
  BY <1>2 DEF Packed, TightRow
<1>. QED  BY <1>1, <1>3, <1>4

\* What a step that leaves a row alone needs to keep.
LEMMA RowKept ==
  ASSUME NEW r \in Rows, RowOf(Widths, Asked(r), PlacedIn(r), clusters[r]),
         UNCHANGED <<cell, PlacedIn(r), clusters[r]>>
  PROVE  RowOf(Widths, Asked(r), PlacedIn(r), clusters[r])'
<1>1. Widths' = Widths
  BY DEF Widths
<1>2. Asked(r)' = Asked(r)
  BY DEF Asked, ClampedX
<1>. QED  BY <1>1, <1>2

\* What a step that leaves the clusters of a row alone keeps of it.
LEMMA TightKept ==
  ASSUME NEW r \in Rows, TightRow(r, Widths, Asked(r), clusters[r]),
         UNCHANGED <<cell, clusters[r]>>
  PROVE  TightRow(r, Widths, Asked(r), clusters[r])'
<1>1. Widths' = Widths
  BY DEF Widths
<1>2. Asked(r)' = Asked(r)
  BY DEF Asked, ClampedX
<1>. QED  BY <1>1, <1>2

\* The cells of the rows after a cell is placed.
LEMMA PlacedCells ==
  ASSUME BaseInv, NEW c \in Cells, PlaceCell(c), NEW r \in Rows
  PROVE  /\ PlacedIn(r)' = IF r = getRowIdx(c) THEN PlacedIn(r) \cup {c} ELSE PlacedIn(r)
         /\ c \notin PlacedIn(r) /\ PlacedIn(r) \in SUBSET Cells
         /\ clusters'[r] = IF r = getRowIdx(c) THEN WithCell(r, c) ELSE clusters[r]
         /\ cell' = cell /\ phase = "place" /\ nextRow = 0 /\ nextRow' = 0
         /\ getRowIdx(c) \in Rows
<1>1. PICK s, ks : s = getRowIdx(c) /\ ks = WithCell(s, c)
  OBVIOUS
<1>2. /\ phase = "place" /\ phase' = IF todo = {c} THEN "write" ELSE "place"
      /\ c \in todo /\ todo' = todo \ {c} /\ nextRow' = nextRow
      /\ cell' = cell /\ row_index' = [row_index EXCEPT ![c] = s]
      /\ clusters' = [clusters EXCEPT ![s] = ks]
  BY <1>1 DEF PlaceCell, placeRowFinal, input
<1>3. s \in Rows
  BY <1>1, <1>2, ChosenRow
<1>4. Placed' = Placed \cup {c} /\ c \notin Placed
  BY <1>2 DEF Placed
<1>5. CellsOf(r)' = IF r = s THEN CellsOf(r) \cup {c} ELSE CellsOf(r) \ {c}
  BY <1>2 DEF CellsOf, BaseInv, TypeOK
<1>6. PlacedIn(r)' = IF r = s THEN PlacedIn(r) \cup {c} ELSE PlacedIn(r)
  BY <1>4, <1>5 DEF PlacedIn
<1>7. c \notin PlacedIn(r) /\ PlacedIn(r) \in SUBSET Cells
  BY <1>4 DEF PlacedIn, CellsOf
<1>8. nextRow = 0
  BY <1>2 DEF BaseInv, Phases
<1>9. clusters'[r] = IF r = s THEN ks ELSE clusters[r]
  BY <1>2, <1>3 DEF BaseInv, TypeOK
<1>. QED  BY <1>1, <1>2, <1>3, <1>6, <1>7, <1>8, <1>9

\* Placing a cell keeps the sums of all clusters, and the clusters packed.
LEMMA GoodPlaceCell ==
  ASSUME BaseInv, GoodInv, PackedInv, TightInv, NEW c \in Cells, PlaceCell(c)
  PROVE  GoodInv' /\ PackedInv' /\ TightInv'
<1>. SUFFICES ASSUME NEW r \in Rows
              PROVE  /\ RowOf(Widths, Asked(r), PlacedIn(r), clusters[r])'
                     /\ Packed(r, clusters[r])'
                     /\ TightRow(r, Widths, Asked(r), clusters[r])'
  BY DEF GoodInv, PackedInv, TightInv
<1>1. /\ RowOf(Widths, Asked(r), PlacedIn(r), clusters[r])
      /\ Packed(r, clusters[r]) /\ phase # "read"
      /\ TightRow(r, Widths, Asked(r), clusters[r])
  <2>1. nextRow = 0 /\ phase # "read" /\ 0 <= r
    BY PlacedCells, RowsAssumption DEF Rows
  <2>. QED  BY <2>1 DEF GoodInv, PackedInv, TightInv
<1>2. CASE r # getRowIdx(c)
  <2>1. UNCHANGED <<cell, PlacedIn(r), clusters[r]>>
    BY <1>2, PlacedCells
  <2>2. TightRow(r, Widths, Asked(r), clusters[r])'
    BY <1>1, <2>1, TightKept
  <2>. QED  BY <1>1, <2>1, <2>2, RowKept
<1>3. CASE r = getRowIdx(c)
  <2>1. PICK M, N, wd, cx, ks : /\ M = PlacedIn(r) /\ N = M \cup {c} /\ ks = WithCell(r, c)
                               /\ wd = Widths /\ cx = Asked(r)
    OBVIOUS
  <2>2. M \in SUBSET Cells /\ c \notin M
    BY <2>1, PlacedCells
  <2>3. RowOf(wd, cx, N, ks) /\ Packed(r, ks) /\ TightRow(r, wd, cx, ks)
    BY <1>1, <2>1, <2>2, PlacementGood
  <2>4. PlacedIn(r)' = N /\ clusters'[r] = ks /\ cell' = cell
    BY <1>3, <2>1, PlacedCells
  <2>5. Widths' = wd /\ Asked(r)' = cx
    BY <2>1, <2>4 DEF Widths, Asked, ClampedX
  <2>. QED  BY <2>3, <2>4, <2>5 DEF Packed, Within, EndsBy
<1>. QED  BY <1>2, <1>3

\* Writing a row keeps the sums of all clusters, and the later rows.
LEMMA GoodDeterminePosition ==
  ASSUME BaseInv, GoodInv, PackedInv, TightInv, NEW s \in Rows, DeterminePosition(s)
  PROVE  GoodInv' /\ PackedInv' /\ TightInv'
<1>1. PICK ls : ls = [i \in 1 .. Len(clusters[s]) |-> Snapped(s, clusters[s][i])]
  OBVIOUS
<1>2. /\ clusters' = [clusters EXCEPT ![s] = ls] /\ cell' = cell /\ row_index' = row_index
      /\ phase = "write" /\ phase' \in {"write", "done"} /\ nextRow = s /\ nextRow' = s + 1
  BY <1>1 DEF DeterminePosition, input
<1>3. \A r : PlacedIn(r)' = PlacedIn(r)
  BY <1>2 DEF PlacedIn, CellsOf, Placed
<1>4. ASSUME NEW r \in Rows
      PROVE  RowOf(Widths, Asked(r), PlacedIn(r), clusters[r])'
  <2>1. RowOf(Widths, Asked(r), PlacedIn(r), clusters[r])
    BY DEF GoodInv
  <2>2. CASE r # s
    <3>1. UNCHANGED <<cell, PlacedIn(r), clusters[r]>>
      BY <1>2, <1>3, <2>2 DEF BaseInv, TypeOK
    <3>. QED  BY <2>1, <3>1, RowKept
  <2>3. CASE r = s
    <3>1. PICK M, wd, cx : M = PlacedIn(r) /\ wd = Widths /\ cx = Asked(r)
      OBVIOUS
    <3>2. RowOf(wd, cx, M, ls)
      BY <1>1, <2>1, <2>3, <3>1, SnappedRow
    <3>3. Widths' = wd /\ Asked(r)' = cx /\ PlacedIn(r)' = M
      BY <1>2, <1>3, <3>1 DEF Widths, Asked, ClampedX
    <3>4. clusters'[r] = ls
      BY <1>2, <2>3 DEF BaseInv, TypeOK
    <3>. QED  BY <3>2, <3>3, <3>4
  <2>. QED  BY <2>2, <2>3
<1>5. ASSUME NEW r \in Rows, nextRow' <= r
      PROVE  Packed(r, clusters[r])' /\ TightRow(r, Widths, Asked(r), clusters[r])'
  <2>1. r # s /\ nextRow <= r
    BY <1>2, <1>5, RowsAssumption DEF Rows
  <2>2. clusters'[r] = clusters[r]
    BY <1>2, <2>1 DEF BaseInv, TypeOK
  <2>3. Packed(r, clusters[r])
    BY <2>1 DEF PackedInv
  <2>4. TightRow(r, Widths, Asked(r), clusters[r])'
    <3>1. TightRow(r, Widths, Asked(r), clusters[r])
      BY <2>1 DEF TightInv
    <3>. QED  BY <1>2, <2>2, <3>1, TightKept
  <2>. QED  BY <2>2, <2>3, <2>4 DEF Packed, Within, EndsBy
<1>. QED  BY <1>4, <1>5 DEF GoodInv, PackedInv, TightInv

\* Every step keeps the clusters good and packed.
LEMMA NextGood ==
  BaseInv /\ BaseInv' /\ GoodInv /\ PackedInv /\ TightInv /\ [Next]_vars =>
    GoodInv' /\ PackedInv' /\ TightInv'
<1>. SUFFICES ASSUME BaseInv, BaseInv', GoodInv, PackedInv, TightInv, [Next]_vars
              PROVE  GoodInv' /\ PackedInv' /\ TightInv'
  OBVIOUS
<1>1. ASSUME NEW c \in Cells, NEW i \in CellInputs, NEW s \in Rows, ReadCell(c, i, s)
      PROVE  GoodInv' /\ PackedInv' /\ TightInv'
  <2>1. phase' = "read"
    BY <1>1 DEF ReadCell
  <2>2. ASSUME NEW r \in Rows
        PROVE  /\ RowOf(Widths, Asked(r), PlacedIn(r), clusters[r])'
               /\ Packed(r, clusters[r])'
               /\ TightRow(r, Widths, Asked(r), clusters[r])'
    <3>1. PICK ks, M, wd, cx : ks = clusters'[r] /\ M = PlacedIn(r)' /\ wd = Widths' /\ cx = Asked(r)'
      OBVIOUS
    <3>2. ks = <<>> /\ M = {}
      BY <2>1, <3>1 DEF BaseInv, Phases, PlacedIn, Placed
    <3>3. ks \in Seq(Cluster) /\ DOMAIN ks = {}
      BY <3>2
    <3>4. RowOf(wd, cx, M, ks) /\ Packed(r, ks) /\ TightRow(r, wd, cx, ks)
      BY <3>2, <3>3 DEF RowOf, Packed, TightRow
    <3>. QED  BY <3>1, <3>4 DEF Packed, Within, EndsBy
  <2>. QED  BY <2>2 DEF GoodInv, PackedInv, TightInv
<1>2. ASSUME UNCHANGED <<cell, clusters, nextRow>>, \A r : PlacedIn(r)' = PlacedIn(r)
      PROVE  GoodInv' /\ PackedInv' /\ TightInv'
  <2>1. \A r \in Rows : UNCHANGED <<cell, PlacedIn(r), clusters[r]>>
    BY <1>2
  <2>2. GoodInv'
    BY <2>1, RowKept DEF GoodInv
  <2>3. PackedInv'
    BY <1>2 DEF PackedInv, Packed, Within, EndsBy
  <2>4. TightInv'
    BY <1>2, <2>1, TightKept DEF TightInv
  <2>. QED  BY <2>2, <2>3, <2>4
<1>3. CASE SetRowHeights
  <2>1. Placed = {} /\ Placed' = {}
    BY <1>3 DEF SetRowHeights, Placed
  <2>. QED  BY <1>2, <1>3, <2>1 DEF SetRowHeights, PlacedIn
<1>4. CASE Stop \/ UNCHANGED vars
  BY <1>2, <1>4 DEF Stop, vars, PlacedIn, CellsOf, Placed
<1>. QED  BY <1>1, <1>3, <1>4, GoodPlaceCell, GoodDeterminePosition DEF Next

\* In every state the clusters hold the placed cells of their row.
THEOREM RowsHoldTheirCells == Spec => [](GoodInv /\ PackedInv /\ TightInv)
<1>1. Init => GoodInv /\ PackedInv /\ TightInv
  BY InitGood
<1>2. BaseInv /\ BaseInv' /\ GoodInv /\ PackedInv /\ TightInv /\ [Next]_vars =>
        (GoodInv /\ PackedInv /\ TightInv)'
  BY NextGood
<1>. QED  BY <1>1, <1>2, BaseAlways, PTL DEF Spec

-----------------------------------------------------------------------------
\* The members in front of a member.
LEMMA OffsetOfMember ==
  ASSUME TypeOK, NEW cx, NEW k, GoodCluster(Widths, cx, k), NEW c \in ToSet(k.member)
  PROVE  OffsetIn(k, c) = SumFunctionOnSet(Widths, Before(k.member, c))
<1>1. k \in Cluster /\ Distinct(k.member)
  BY DEF GoodCluster
<1>2. PICK m, n : m = k.member /\ n = IndexIn(k, c)
  OBVIOUS
<1>3. m \in Seq(Cells) /\ n \in 1 .. Len(m) /\ m[n] = c /\ DOMAIN m = 1 .. Len(m)
  BY <1>1, <1>2, PlaceInCluster DEF Cluster
<1>4. PICK S, B : S = {m[i] : i \in 1 .. n - 1} /\ B = Before(m, c)
  OBVIOUS
<1>5. S = B
  <2>1. ASSUME NEW d \in S
        PROVE  d \in B
    <3>1. PICK i \in 1 .. n - 1 : d = m[i]
      BY <1>4
    <3>2. i \in DOMAIN m /\ n \in DOMAIN m /\ i < n
      BY <1>3
    <3>. QED  BY <1>3, <1>4, <3>1, <3>2 DEF Before, ToSet
  <2>2. ASSUME NEW d \in B
        PROVE  d \in S
    <3>1. PICK i \in DOMAIN m, j \in DOMAIN m : m[i] = d /\ m[j] = c /\ i < j
      BY <1>4 DEF Before
    <3>2. j = n
      BY <1>1, <1>2, <1>3, <3>1 DEF Distinct
    <3>3. i \in 1 .. n - 1
      BY <1>3, <3>1, <3>2
    <3>. QED  BY <1>4, <3>1, <3>3
  <2>. QED  BY <2>1, <2>2
<1>6. OffsetIn(k, c) = WidthOf(S)
  BY <1>2, <1>4 DEF OffsetIn
<1>7. B \in SUBSET Cells
  BY <1>3, <1>4, MembersFinite
<1>8. WidthOf(B) = SumFunctionOnSet(Widths, B)
  BY <1>7, WidthOfSum
<1>. QED  BY <1>2, <1>4, <1>5, <1>6, <1>8

\* The sums of good clusters are those of QIsExact.
LEMMA GoodIsExact == BaseInv /\ GoodInv => QIsExact
<1>. SUFFICES ASSUME BaseInv, GoodInv, NEW r \in Rows, NEW k \in ToSet(clusters[r])
              PROVE  /\ k.weight = WidthOf(ToSet(k.member))
                     /\ k.width = WidthOf(ToSet(k.member))
                     /\ k.q = MapThenSumSet(
                          LAMBDA c : cell[c].width * (ClampedX(r, c) - OffsetIn(k, c)),
                          ToSet(k.member))
  BY DEF QIsExact
<1>1. PICK wd, cx, m, S : wd = Widths /\ cx = Asked(r) /\ m = k.member /\ S = ToSet(m)
  OBVIOUS
<1>2. GoodCluster(wd, cx, k)
  BY <1>1 DEF GoodInv, RowOf, ToSet
<1>3. m \in Seq(Cells) /\ S \in SUBSET Cells /\ IsFiniteSet(S)
  BY <1>1, <1>2, MembersFinite DEF GoodCluster, Cluster
<1>4. WidthOf(S) = SumFunctionOnSet(wd, S)
  BY <1>1, <1>3, WidthOfSum DEF BaseInv
<1>5. k.weight = WidthOf(S) /\ k.width = WidthOf(S) /\ k.q = SumFunctionOnSet(Pull(wd, cx, m), S)
  BY <1>1, <1>2, <1>4 DEF GoodCluster
<1>6. MapThenSumSet(LAMBDA c : cell[c].width * (ClampedX(r, c) - OffsetIn(k, c)), S)
        = SumFunctionOnSet([c \in S |-> cell[c].width * (ClampedX(r, c) - OffsetIn(k, c))], S)
  BY DEF SumFunctionOnSet, FoldFunctionOnSet, MapThenFoldSet, MapThenSumSet
<1>7. PICK f : f = [c \in S |-> cell[c].width * (ClampedX(r, c) - OffsetIn(k, c))]
  OBVIOUS
<1>8. PICK g : g = Pull(wd, cx, m)
  OBVIOUS
<1>9. ASSUME NEW c \in S
      PROVE  f[c] = g[c]
  <2>1. OffsetIn(k, c) = SumFunctionOnSet(wd, Before(m, c))
    BY <1>1, <1>2, OffsetOfMember DEF BaseInv
  <2>2. wd[c] = cell[c].width /\ cx[c] = ClampedX(r, c) /\ c \in Cells
    BY <1>1, <1>3 DEF Widths, Asked
  <2>3. g[c] = wd[c] * (cx[c] - SumFunctionOnSet(wd, Before(m, c)))
    BY <1>8, <2>2 DEF Pull
  <2>4. f[c] = cell[c].width * (ClampedX(r, c) - OffsetIn(k, c))
    BY <1>7
  <2>. QED  BY <2>1, <2>2, <2>3, <2>4
<1>10. SumFunctionOnSet(f, S) = SumFunctionOnSet(g, S)
  BY <1>3, <1>9, SumSame
<1>. QED  BY <1>1, <1>5, <1>6, <1>7, <1>8, <1>10

(***************************************************************************)
(* The q that the two formulas of placeRowFinal maintain is, for every     *)
(* row and every way its clusters collapse, what the members ask for.      *)
(***************************************************************************)
THEOREM QStaysExact == Spec => []QIsExact
BY RowsHoldTheirCells, BaseAlways, GoodIsExact, PTL

-----------------------------------------------------------------------------
(***************************************************************************)
(* The best place for the members of a tight cluster.                      *)
(***************************************************************************)
\* The first j members of s.
Upto(s, j) == {s[i] : i \in 1 .. j}

\* The members in front of a member are those up to the one before it.
LEMMA MembersUpTo ==
  ASSUME NEW s \in Seq(Cells), Distinct(s), NEW j \in Nat, j < Len(s)
  PROVE  /\ Upto(s, j + 1) = Upto(s, j) \cup {s[j + 1]} /\ s[j + 1] \notin Upto(s, j)
         /\ Upto(s, j) = Before(s, s[j + 1]) /\ s[j + 1] \in ToSet(s)
         /\ Upto(s, j) \in SUBSET ToSet(s) /\ IsFiniteSet(Upto(s, j))
<1>1. PICK n, c, U : n = Len(s) /\ c = s[j + 1] /\ U = Upto(s, j)
  OBVIOUS
<1>2. n \in Nat /\ DOMAIN s = 1 .. n /\ j + 1 \in 1 .. n /\ \A i \in 1 .. j : i \in 1 .. n
  BY <1>1
<1>3. c \in ToSet(s) /\ U \in SUBSET ToSet(s)
  BY <1>1, <1>2 DEF ToSet, Upto
<1>4. c \notin U
  <2>. SUFFICES ASSUME NEW i \in 1 .. j PROVE s[i] # c
    BY <1>1 DEF Upto
  <2>1. i # j + 1 /\ i \in DOMAIN s /\ j + 1 \in DOMAIN s
    BY <1>2
  <2>. QED  BY <1>1, <2>1 DEF Distinct
<1>5. Upto(s, j + 1) = U \cup {c}
  <2>1. \A i : i \in 1 .. j + 1 <=> i \in 1 .. j \/ i = j + 1
    OBVIOUS
  <2>. QED  BY <1>1, <2>1 DEF Upto
<1>6. U = Before(s, c)
  <2>1. ASSUME NEW d \in U
        PROVE  d \in Before(s, c)
    <3>1. PICK i \in 1 .. j : d = s[i]
      BY <1>1 DEF Upto
    <3>2. i \in DOMAIN s /\ j + 1 \in DOMAIN s /\ i < j + 1
      BY <1>2
    <3>. QED  BY <1>1, <1>3, <3>1, <3>2 DEF Before
  <2>2. ASSUME NEW d \in Before(s, c)
        PROVE  d \in U
    <3>1. PICK i \in DOMAIN s, l \in DOMAIN s : s[i] = d /\ s[l] = c /\ i < l
      BY DEF Before
    <3>2. l = j + 1
      BY <1>1, <1>2, <3>1 DEF Distinct
    <3>3. i \in 1 .. j
      BY <1>2, <3>1, <3>2
    <3>. QED  BY <1>1, <3>1, <3>3 DEF Upto
  <2>. QED  BY <2>1, <2>2 DEF Before
<1>7. IsFiniteSet(U)
  BY <1>3, MembersFinite, FS_Subset
<1>. QED  BY <1>1, <1>3, <1>4, <1>5, <1>6, <1>7

\* Sums of products, added up from the left: what is in front of every member
\* weighs at most b, and the second factor grows from member to member.
LEMMA ChainSum ==
  ASSUME NEW s \in Seq(Cells), Distinct(s), NEW n \in Nat, n = Len(s), n >= 1,
         NEW g, NEW D, NEW h, NEW b \in Int,
         \A c \in ToSet(s) : g[c] \in Int /\ D[c] \in Int /\ h[c] = g[c] * D[c],
         \A j \in 1 .. n - 1 : /\ SumFunctionOnSet(g, Upto(s, j)) <= b
                               /\ D[s[j]] <= D[s[j + 1]]
  PROVE  (SumFunctionOnSet(g, ToSet(s)) - b) * D[s[n]] + b * D[s[1]]
           <= SumFunctionOnSet(h, ToSet(s))
<1> DEFINE GS(j) == SumFunctionOnSet(g, Upto(s, j))
           HS(j) == SumFunctionOnSet(h, Upto(s, j))
           Holds(j) == (GS(j) - b) * D[s[j]] + b * D[s[1]] <= HS(j)
           G == {i \in Nat : i < n => Holds(i + 1)}
<1>1. \A i \in 1 .. n : s[i] \in ToSet(s)
  BY DEF ToSet
<1>2. ASSUME NEW j \in Nat, j < n
      PROVE  /\ GS(j) \in Int /\ HS(j) \in Int
             /\ g[s[j + 1]] \in Int /\ D[s[j + 1]] \in Int
             /\ GS(j + 1) = GS(j) + g[s[j + 1]]
             /\ HS(j + 1) = HS(j) + g[s[j + 1]] * D[s[j + 1]]
  <2>1. PICK U, V, c : U = Upto(s, j) /\ V = Upto(s, j + 1) /\ c = s[j + 1]
    OBVIOUS
  <2>2. /\ V = U \cup {c} /\ c \notin U /\ c \in ToSet(s)
        /\ U \in SUBSET ToSet(s) /\ IsFiniteSet(U)
    BY <1>2, <2>1, MembersUpTo
  <2>3. \A d \in ToSet(s) : g[d] \in Int /\ h[d] \in Int
    OBVIOUS
  <2>4. SumFunctionOnSet(g, U) \in Int /\ SumFunctionOnSet(h, U) \in Int
    BY <2>2, <2>3, SumType
  <2>5. SumFunctionOnSet(g, U \cup {c}) = SumFunctionOnSet(g, U) + g[c]
    BY <2>2, <2>3, SumAdd
  <2>6. SumFunctionOnSet(h, U \cup {c}) = SumFunctionOnSet(h, U) + h[c]
    BY <2>2, <2>3, SumAdd
  <2>7. h[c] = g[c] * D[c] /\ g[c] \in Int /\ D[c] \in Int
    BY <2>2
  <2>. QED  BY <2>1, <2>2, <2>4, <2>5, <2>6, <2>7
<1>. HIDE DEF GS, HS
<1>3. 0 \in G
  <2>1. GS(0) = 0 /\ HS(0) = 0
    <3>1. Upto(s, 0) = {}
      BY DEF Upto
    <3>. QED  BY <3>1, SumEmpty DEF GS, HS
  <2>2. PICK x, y : x = g[s[1]] /\ y = D[s[1]]
    OBVIOUS
  <2>3. x \in Int /\ y \in Int /\ GS(1) = x /\ HS(1) = x * y
    <3>1. /\ g[s[0 + 1]] \in Int /\ D[s[0 + 1]] \in Int
          /\ GS(0 + 1) = GS(0) + g[s[0 + 1]]
          /\ HS(0 + 1) = HS(0) + g[s[0 + 1]] * D[s[0 + 1]]
      BY <1>2
    <3>2. x \in Int /\ y \in Int /\ GS(1) = 0 + x /\ HS(1) = 0 + x * y
      BY <2>1, <2>2, <3>1
    <3>. QED  BY <3>2
  <2>4. (x - b) * y + b * y <= x * y
    BY <2>3
  <2>5. Holds(1)
    BY <2>2, <2>3, <2>4
  <2>. QED  BY <2>5
<1>4. ASSUME NEW i \in G
      PROVE  i + 1 \in G
  <2>. SUFFICES ASSUME i + 1 < n PROVE Holds((i + 1) + 1)
    OBVIOUS
  <2>1. PICK j : j = i + 1
    OBVIOUS
  <2>2. j \in Nat /\ j >= 1 /\ j < n /\ j \in 1 .. n - 1 /\ i \in Nat /\ i < n
    BY <2>1
  <2>3. Holds(j)
    BY <2>1, <2>2
  <2>4. PICK t, u, x, d, e, a : /\ t = GS(j) /\ u = HS(j) /\ x = g[s[j + 1]]
                                /\ d = D[s[j]] /\ e = D[s[j + 1]] /\ a = D[s[1]]
    OBVIOUS
  <2>5. /\ t \in Int /\ u \in Int /\ x \in Int /\ e \in Int
        /\ GS(j + 1) = t + x /\ HS(j + 1) = u + x * e
    BY <1>2, <2>2, <2>4
  <2>6. d \in Int /\ a \in Int
    <3>1. s[j] \in ToSet(s) /\ s[1] \in ToSet(s)
      BY <1>1, <2>2
    <3>. QED  BY <2>4, <3>1
  <2>7. t <= b /\ d <= e
    BY <2>2, <2>4 DEF GS
  <2>8. (t - b) * d + b * a <= u
    BY <2>3, <2>4
  <2>9. (t - b) * e <= (t - b) * d
    <3>1. d * (b - t) <= e * (b - t)
      <4>1. b - t \in Int /\ b - t >= 0
        BY <2>5, <2>7
      <4>. QED  BY <2>5, <2>6, <2>7, <4>1, Scaled
    <3>2. (t - b) * e = -(e * (b - t)) /\ (t - b) * d = -(d * (b - t))
      BY <2>5, <2>6
    <3>3. e * (b - t) \in Int /\ d * (b - t) \in Int
      BY <2>5, <2>6
    <3>. QED  BY <3>1, <3>2, <3>3
  <2>10. ((t + x) - b) * e + b * a <= u + x * e
    <3>1. ((t + x) - b) * e = (t - b) * e + x * e
      BY <2>5
    <3>2. (t - b) * e \in Int /\ (t - b) * d \in Int /\ x * e \in Int /\ b * a \in Int
      BY <2>5, <2>6
    <3>. QED  BY <2>5, <2>8, <2>9, <3>1, <3>2
  <2>11. Holds(j + 1)
    BY <2>4, <2>5, <2>10
  <2>. QED  BY <2>1, <2>11
<1>5. G = Nat
  <2>. HIDE DEF Holds
  <2>. QED  BY <1>3, <1>4, InductionOnNat
<1>6. Holds(n)
  <2>1. n - 1 \in Nat /\ n - 1 < n /\ (n - 1) + 1 = n
    OBVIOUS
  <2>2. n - 1 \in G
    BY <1>5, <2>1
  <2>. HIDE DEF Holds
  <2>. QED  BY <2>1, <2>2
<1>7. Upto(s, n) = ToSet(s)
  BY DEF Upto, ToSet
<1>. QED  BY <1>6, <1>7 DEF GS, HS

\* p gives the members of k places in the row r in their order.
Legally(r, wd, p, k) ==
  \A c \in ToSet(k.member) :
    /\ p[c] \in Int /\ MinX[r] <= p[c] /\ p[c] + wd[c] <= MaxX[r]
    /\ \A d \in ToSet(k.member) : c \in Before(k.member, d) => p[c] + wd[c] <= p[d]

\* The distance from the place of a member to the x it asks for, times the
\* weight of the cluster.
Gap(wd, cx, k, c) ==
  k.x + (SumFunctionOnSet(wd, Before(k.member, c)) - cx[c]) * k.weight

\* What a member costs and what it would cost.
Costs(wd, cx, k, e) ==
  \A c \in ToSet(k.member) : e[c] = wd[c] * Gap(wd, cx, k, c) * Gap(wd, cx, k, c)

WouldCost(wd, cx, p, k, f) ==
  \A c \in ToSet(k.member) : f[c] = wd[c] * (p[c] - cx[c]) * (p[c] - cx[c])

\* w wide, o behind the left end of a cluster at x / W, d off the a it asks for.
MemberAt(w, W, x, o, a, p, d) ==
  /\ w \in Int /\ w > 0 /\ W \in Int /\ x \in Int /\ o \in Int /\ a \in Int /\ p \in Int
  /\ d = x + (o - a) * W

\* For one member: the square of a sum is at least the square of the one and
\* twice the product.
LEMMA CostOfMember ==
  ASSUME NEW w, NEW W, NEW x, NEW o, NEW a, NEW p, NEW d, MemberAt(w, W, x, o, a, p, d)
  PROVE  /\ w * d * d \in Int /\ w * (p - a) * (p - a) \in Int
         /\ w * d * d + 2 * ((w * x - W * (w * (a - o))) * (W * p - x - o * W))
              <= (W * W) * (w * (p - a) * (p - a))
<1>0. /\ w \in Int /\ w > 0 /\ W \in Int /\ x \in Int /\ o \in Int /\ a \in Int /\ p \in Int
      /\ d = x + (o - a) * W
  BY DEF MemberAt
<1>1. PICK z, y : z = W * p - x - o * W /\ y = p - a
  OBVIOUS
<1>2. d \in Int /\ z \in Int /\ y \in Int
  BY <1>0, <1>1
<1>3. w * x - W * (w * (a - o)) = w * d
  BY <1>0, <1>2
<1>4. W * y = d + z
  BY <1>0, <1>1
<1>5. (W * W) * (w * y * y) = w * ((W * y) * (W * y))
  BY <1>0, <1>2
<1>6. w * ((d + z) * (d + z)) = w * d * d + 2 * ((w * d) * z) + w * (z * z)
  BY <1>0, <1>2
<1>7. w * (z * z) >= 0
  <2>1. PICK y2 : y2 = z * z
    OBVIOUS
  <2>2. y2 \in Int /\ y2 >= 0
    BY <1>0, <1>2, <2>1
  <2>3. w * y2 >= 0
    BY <1>0, <2>2
  <2>. QED  BY <2>1, <2>3
<1>8. w * d * d \in Int /\ (w * d) * z \in Int /\ w * (z * z) \in Int /\ w * y * y \in Int
  BY <1>0, <1>2
<1>. QED  BY <1>0, <1>1, <1>3, <1>4, <1>5, <1>6, <1>7, <1>8

\* The widths in front of the members: nothing in front of the first one, one
\* width more from member to member, the width of all behind the last one.
LEMMA Offsets ==
  ASSUME NEW wd, NEW cx, Measures(wd, cx), NEW s \in Seq(Cells), Distinct(s),
         NEW n, n = Len(s), n >= 1
  PROVE  /\ s[1] \in ToSet(s) /\ s[n] \in ToSet(s)
         /\ SumFunctionOnSet(wd, Before(s, s[1])) = 0
         /\ SumFunctionOnSet(wd, Before(s, s[n])) + wd[s[n]] = SumFunctionOnSet(wd, ToSet(s))
         /\ \A j \in 1 .. n - 1 :
              /\ s[j] \in ToSet(s) /\ s[j + 1] \in ToSet(s)
              /\ Upto(s, j) = Before(s, s[j + 1]) /\ s[j] \in Before(s, s[j + 1])
              /\ SumFunctionOnSet(wd, Before(s, s[j + 1]))
                   = SumFunctionOnSet(wd, Before(s, s[j])) + wd[s[j]]
<1>1. n \in Nat
  OBVIOUS
<1>2. ASSUME NEW j \in 1 .. n
      PROVE  /\ s[j] \in ToSet(s) /\ Upto(s, j - 1) = Before(s, s[j]) /\ s[j] \in Upto(s, j)
             /\ SumFunctionOnSet(wd, Upto(s, j))
                  = SumFunctionOnSet(wd, Before(s, s[j])) + wd[s[j]]
  <2>1. PICK i, c, U : i = j - 1 /\ c = s[j] /\ U = Upto(s, i)
    OBVIOUS
  <2>2. i \in Nat /\ i < Len(s) /\ i + 1 = j
    BY <1>1, <2>1
  <2>3. /\ Upto(s, j) = U \cup {c} /\ c \notin U /\ U = Before(s, c) /\ c \in ToSet(s)
        /\ U \in SUBSET ToSet(s) /\ IsFiniteSet(U)
    <3>1. /\ Upto(s, i + 1) = Upto(s, i) \cup {s[i + 1]} /\ s[i + 1] \notin Upto(s, i)
          /\ Upto(s, i) = Before(s, s[i + 1]) /\ s[i + 1] \in ToSet(s)
          /\ Upto(s, i) \in SUBSET ToSet(s) /\ IsFiniteSet(Upto(s, i))
      BY <2>2, MembersUpTo
    <3>. QED  BY <2>1, <2>2, <3>1
  <2>4. \A d \in ToSet(s) : wd[d] \in Int
    <3>1. ToSet(s) \in SUBSET Cells
      BY MembersFinite
    <3>. QED  BY <3>1, MeasureTypes
  <2>5. SumFunctionOnSet(wd, U \cup {c}) = SumFunctionOnSet(wd, U) + wd[c]
    <3>1. (\A d \in U : wd[d] \in Int) /\ wd[c] \in Int
      BY <2>3, <2>4
    <3>. QED  BY <2>3, <3>1, SumAdd
  <2>. QED  BY <2>1, <2>3, <2>5
<1>3. SumFunctionOnSet(wd, Before(s, s[1])) = 0 /\ s[1] \in ToSet(s)
  <2>1. 1 \in 1 .. n /\ 1 - 1 = 0
    BY <1>1
  <2>2. Upto(s, 0) = {}
    BY DEF Upto
  <2>3. Upto(s, 1 - 1) = Before(s, s[1]) /\ s[1] \in ToSet(s)
    BY <1>2, <2>1
  <2>. QED  BY <2>1, <2>2, <2>3, SumEmpty
<1>4. /\ SumFunctionOnSet(wd, Before(s, s[n])) + wd[s[n]] = SumFunctionOnSet(wd, ToSet(s))
      /\ s[n] \in ToSet(s)
  <2>1. n \in 1 .. n
    BY <1>1
  <2>2. Upto(s, n) = ToSet(s)
    BY DEF Upto, ToSet
  <2>3. SumFunctionOnSet(wd, Upto(s, n)) = SumFunctionOnSet(wd, Before(s, s[n])) + wd[s[n]]
        /\ s[n] \in ToSet(s)
    BY <1>2, <2>1
  <2>. QED  BY <2>2, <2>3
<1>5. ASSUME NEW j \in 1 .. n - 1
      PROVE  /\ s[j] \in ToSet(s) /\ s[j + 1] \in ToSet(s)
             /\ Upto(s, j) = Before(s, s[j + 1]) /\ s[j] \in Before(s, s[j + 1])
             /\ SumFunctionOnSet(wd, Before(s, s[j + 1]))
                  = SumFunctionOnSet(wd, Before(s, s[j])) + wd[s[j]]
  <2>1. j \in 1 .. n /\ j + 1 \in 1 .. n /\ (j + 1) - 1 = j
    BY <1>1
  <2>2. Upto(s, (j + 1) - 1) = Before(s, s[j + 1]) /\ s[j + 1] \in ToSet(s)
    BY <1>2, <2>1
  <2>3. Upto(s, j) = Before(s, s[j + 1])
    BY <2>1, <2>2
  <2>. QED  BY <1>2, <2>1, <2>2, <2>3
<1>. QED  BY <1>3, <1>4, <1>5

\* A row in which the members of a cluster have legal places is wide enough
\* for the cluster.
LEMMA FitsIfLegal ==
  ASSUME NEW r \in Rows, NEW wd, NEW cx, Measures(wd, cx), NEW k, GoodCluster(wd, cx, k),
         NEW p, Legally(r, wd, p, k)
  PROVE  k.width <= MaxX[r] - MinX[r]
<1>1. PICK s, S, n, W, L, R : /\ s = k.member /\ S = ToSet(s) /\ n = Len(s) /\ W = k.width
                              /\ L = MinX[r] /\ R = MaxX[r]
  OBVIOUS
<1>2. /\ s \in Seq(Cells) /\ Distinct(s) /\ n \in Nat /\ n >= 1 /\ W \in Int
      /\ W = SumFunctionOnSet(wd, S) /\ L \in Int /\ R \in Int
      /\ S \in SUBSET Cells /\ IsFiniteSet(S)
  <2>1. /\ s \in Seq(Cells) /\ Distinct(s) /\ s # <<>> /\ W \in Positive
        /\ W = SumFunctionOnSet(wd, S)
    BY <1>1 DEF GoodCluster, Cluster
  <2>2. S \in SUBSET Cells /\ IsFiniteSet(S)
    BY <1>1, <2>1, MembersFinite
  <2>3. n \in Nat /\ n >= 1
    BY <1>1, <2>1
  <2>. QED  BY <1>1, <2>1, <2>2, <2>3, RowsAssumption DEF Positive
<1>3. PICK g, D : /\ g = [c \in S |-> 0]
                  /\ D = [c \in S |-> p[c] - SumFunctionOnSet(wd, Before(s, c))]
  OBVIOUS
<1>4. ASSUME NEW c \in S
      PROVE  /\ wd[c] \in Int /\ p[c] \in Int /\ SumFunctionOnSet(wd, Before(s, c)) \in Int
             /\ L <= p[c] /\ p[c] + wd[c] <= R
             /\ D[c] = p[c] - SumFunctionOnSet(wd, Before(s, c)) /\ D[c] \in Int
  <2>1. PICK o, y : o = SumFunctionOnSet(wd, Before(s, c)) /\ y = p[c]
    OBVIOUS
  <2>2. o \in Int /\ wd[c] \in Int
    BY <1>2, <2>1, MeasureTypes
  <2>3. y \in Int /\ L <= y /\ p[c] + wd[c] <= R
    BY <1>1, <2>1 DEF Legally
  <2>4. D[c] = y - o
    BY <1>3, <2>1
  <2>. QED  BY <2>1, <2>2, <2>3, <2>4
<1>5. ASSUME NEW B \in SUBSET S
      PROVE  SumFunctionOnSet(g, B) = 0
  <2>1. IsFiniteSet(B)
    BY <1>2, FS_Subset
  <2>2. \A c \in B : g[c] \in Int /\ g[c] = 0 * g[c]
    BY <1>3
  <2>3. SumFunctionOnSet(g, B) = 0 * SumFunctionOnSet(g, B)
    BY <2>1, <2>2, SumScale
  <2>4. SumFunctionOnSet(g, B) \in Int
    BY <2>1, <2>2, SumType
  <2>. QED  BY <2>3, <2>4
<1>6. ASSUME NEW j \in 1 .. n - 1
      PROVE  SumFunctionOnSet(g, Upto(s, j)) <= 1 /\ D[s[j]] <= D[s[j + 1]]
  <2>1. PICK c, d : c = s[j + 1] /\ d = s[j]
    OBVIOUS
  <2>2. /\ d \in S /\ c \in S /\ Upto(s, j) = Before(s, c) /\ d \in Before(s, c)
        /\ SumFunctionOnSet(wd, Before(s, c)) = SumFunctionOnSet(wd, Before(s, d)) + wd[d]
    BY <1>1, <1>2, <2>1, Offsets
  <2>3. SumFunctionOnSet(g, Upto(s, j)) = 0
    BY <1>1, <1>2, <1>5, <2>2, MembersFinite
  <2>4. p[d] + wd[d] <= p[c]
    BY <1>1, <2>2 DEF Legally
  <2>5. D[d] <= D[c]
    BY <1>4, <2>2, <2>4
  <2>. QED  BY <2>1, <2>3, <2>5
<1>7. PICK a, e : a = D[s[1]] /\ e = D[s[n]]
  OBVIOUS
<1>8. (0 - 1) * e + 1 * a <= 0
  <2>1. \A c \in S : g[c] \in Int /\ D[c] \in Int /\ g[c] = g[c] * D[c]
    BY <1>3, <1>4
  <2>2. (SumFunctionOnSet(g, ToSet(s)) - 1) * D[s[n]] + 1 * D[s[1]]
           <= SumFunctionOnSet(g, ToSet(s))
    <3>1. PICK b : b = 1
      OBVIOUS
    <3>2. b \in Int
      BY <3>1
    <3>3. \A j \in 1 .. n - 1 : SumFunctionOnSet(g, Upto(s, j)) <= b /\ D[s[j]] <= D[s[j + 1]]
      BY <1>6, <3>1
    <3>4. (SumFunctionOnSet(g, ToSet(s)) - b) * D[s[n]] + b * D[s[1]]
           <= SumFunctionOnSet(g, ToSet(s))
      BY <1>1, <1>2, <2>1, <3>2, <3>3, ChainSum
    <3>. QED  BY <3>1, <3>4
  <2>3. SumFunctionOnSet(g, S) = 0
    BY <1>5
  <2>. QED  BY <1>1, <1>7, <2>2, <2>3
<1>9. /\ s[1] \in S /\ s[n] \in S /\ SumFunctionOnSet(wd, Before(s, s[1])) = 0
      /\ SumFunctionOnSet(wd, Before(s, s[n])) + wd[s[n]] = W
  BY <1>1, <1>2, Offsets
<1>10. a \in Int /\ e \in Int /\ L <= a
  BY <1>4, <1>7, <1>9
<1>11. e <= R - W
  <2>1. PICK c, y, o, w : /\ c = s[n] /\ y = p[c] /\ o = SumFunctionOnSet(wd, Before(s, c))
                          /\ w = wd[c]
    OBVIOUS
  <2>2. y \in Int /\ o \in Int /\ w \in Int /\ y + w <= R /\ e = y - o /\ o + w = W
    BY <1>4, <1>7, <1>9, <2>1
  <2>. QED  BY <1>2, <2>2
<1>12. W <= R - L
  BY <1>2, <1>8, <1>10, <1>11
<1>. QED  BY <1>1, <1>12

\* What pulls a member to the right, and how far it would go there.
Tension(wd, cx, k, c) == wd[c] * k.x - k.weight * Pull(wd, cx, k.member)[c]

Moved(wd, p, k, c) ==
  k.weight * p[c] - k.x - SumFunctionOnSet(wd, Before(k.member, c)) * k.weight

\* The tensions of a set of members add up to that of the set.
LEMMA TensionOfSet ==
  ASSUME NEW wd, NEW cx, Measures(wd, cx), NEW k, GoodCluster(wd, cx, k),
         NEW B, B \in SUBSET ToSet(k.member),
         NEW g, \A c \in ToSet(k.member) : g[c] = Tension(wd, cx, k, c)
  PROVE  /\ SumFunctionOnSet(g, B) = SumFunctionOnSet(wd, B) * k.x
                - k.weight * SumFunctionOnSet(Pull(wd, cx, k.member), B)
         /\ \A c \in ToSet(k.member) : g[c] \in Int
<1>1. PICK s, S, f, W, x : /\ s = k.member /\ S = ToSet(s) /\ f = Pull(wd, cx, s)
                           /\ W = k.weight /\ x = k.x
  OBVIOUS
<1>2. s \in Seq(Cells) /\ W \in Int /\ x \in Int /\ S \in SUBSET Cells /\ IsFiniteSet(S)
  <2>1. s \in Seq(Cells) /\ W \in Int /\ x \in Int
    BY <1>1 DEF GoodCluster, Cluster, Positive
  <2>. QED  BY <1>1, <2>1, MembersFinite
<1>3. IsFiniteSet(B) /\ B \in SUBSET S
  BY <1>1, <1>2, FS_Subset
<1>4. \A c \in S : wd[c] \in Int /\ f[c] \in Int
  BY <1>1, <1>2, MeasureTypes
<1>5. PICK e, z : e = [c \in S |-> x * wd[c]] /\ z = -W
  OBVIOUS
<1>6. z \in Int
  BY <1>2, <1>5
<1>7. \A c \in B : wd[c] \in Int /\ e[c] = x * wd[c]
  BY <1>3, <1>4, <1>5
<1>8. SumFunctionOnSet(e, B) = x * SumFunctionOnSet(wd, B)
  BY <1>2, <1>3, <1>7, SumScale
<1>9. ASSUME NEW c \in S
      PROVE  e[c] \in Int /\ f[c] \in Int /\ g[c] = e[c] + z * f[c] /\ g[c] \in Int
  <2>1. PICK w, y : w = wd[c] /\ y = f[c]
    OBVIOUS
  <2>2. w \in Int /\ y \in Int
    BY <1>4, <2>1
  <2>3. g[c] = w * x - W * y
    BY <1>1, <2>1 DEF Tension
  <2>4. e[c] = x * w
    BY <1>5, <2>1
  <2>5. w * x - W * y = x * w + z * y /\ x * w \in Int /\ x * w + z * y \in Int
    BY <1>2, <1>5, <2>2
  <2>. QED  BY <2>1, <2>2, <2>3, <2>4, <2>5
<1>10. SumFunctionOnSet(g, B) = SumFunctionOnSet(e, B) + z * SumFunctionOnSet(f, B)
  <2>1. \A c \in B : e[c] \in Int /\ f[c] \in Int /\ g[c] = e[c] + z * f[c]
    BY <1>3, <1>9
  <2>. QED  BY <1>3, <1>6, <2>1, SumLinear
<1>11. PICK o, y : o = SumFunctionOnSet(wd, B) /\ y = SumFunctionOnSet(f, B)
  OBVIOUS
<1>12. o \in Int /\ y \in Int
  BY <1>3, <1>4, <1>11, SumType
<1>13. x * o + z * y = o * x - W * y
  BY <1>2, <1>5, <1>12
<1>. QED  BY <1>1, <1>8, <1>9, <1>10, <1>11, <1>13

\* No legal move of the members of a tight cluster is a gain.
LEMMA NoGain ==
  ASSUME NEW r \in Rows, NEW wd, NEW cx, Measures(wd, cx),
         NEW k, GoodCluster(wd, cx, k), Tight(r, wd, cx, k), k.width <= MaxX[r] - MinX[r],
         NEW p, Legally(r, wd, p, k), NEW h,
         \A c \in ToSet(k.member) : h[c] = Tension(wd, cx, k, c) * Moved(wd, p, k, c)
  PROVE  SumFunctionOnSet(h, ToSet(k.member)) >= 0
<1>1. PICK s, S, n, W, x, q, L, R :
        /\ s = k.member /\ S = ToSet(s) /\ n = Len(s)
        /\ W = k.weight /\ x = k.x /\ q = k.q /\ L = MinX[r] /\ R = MaxX[r]
  OBVIOUS
<1>2. /\ s \in Seq(Cells) /\ Distinct(s) /\ n \in Nat /\ n >= 1
      /\ W \in Int /\ W > 0 /\ x \in Int /\ q \in Int /\ L \in Int /\ R \in Int
      /\ S \in SUBSET Cells /\ IsFiniteSet(S) /\ k.width = W
  <2>1. /\ s \in Seq(Cells) /\ Distinct(s) /\ s # <<>> /\ W \in Positive /\ x \in Int /\ q \in Int
        /\ k.width = W
    BY <1>1 DEF GoodCluster, Cluster
  <2>2. S \in SUBSET Cells /\ IsFiniteSet(S)
    BY <1>1, <2>1, MembersFinite
  <2>3. n \in Nat /\ n >= 1
    BY <1>1, <2>1
  <2>. QED  BY <1>1, <2>1, <2>2, <2>3, RowsAssumption DEF Positive
<1>3. PICK g, D : /\ g = [c \in S |-> Tension(wd, cx, k, c)]
                  /\ D = [c \in S |-> Moved(wd, p, k, c)]
  OBVIOUS
<1>4. \A c \in S : g[c] = Tension(wd, cx, k, c) /\ D[c] = Moved(wd, p, k, c)
  BY <1>3
<1>5. \A c \in S : g[c] \in Int
  <2>1. PICK B : B = ToSet(k.member)
    OBVIOUS
  <2>2. B \in SUBSET ToSet(k.member) /\ \A c \in ToSet(k.member) : g[c] = Tension(wd, cx, k, c)
    BY <1>1, <1>4, <2>1
  <2>3. \A c \in ToSet(k.member) : g[c] \in Int
    BY <2>2, TensionOfSet
  <2>. QED  BY <1>1, <2>3
<1>6. ASSUME NEW c \in S
      PROVE  /\ wd[c] \in Int /\ p[c] \in Int /\ D[c] \in Int
             /\ SumFunctionOnSet(wd, Before(s, c)) \in Int
             /\ L <= p[c] /\ p[c] + wd[c] <= R
             /\ D[c] = W * p[c] - x - SumFunctionOnSet(wd, Before(s, c)) * W
  <2>1. PICK o, y : o = SumFunctionOnSet(wd, Before(s, c)) /\ y = p[c]
    OBVIOUS
  <2>2. o \in Int /\ wd[c] \in Int
    BY <1>2, <2>1, MeasureTypes
  <2>3. y \in Int /\ L <= y /\ p[c] + wd[c] <= R
    BY <1>1, <2>1 DEF Legally
  <2>4. D[c] = W * y - x - o * W
    BY <1>1, <1>4, <2>1 DEF Moved
  <2>5. D[c] \in Int
    BY <1>2, <2>2, <2>3, <2>4
  <2>. QED  BY <2>1, <2>2, <2>3, <2>4, <2>5
<1>7. PICK t, b : t = W * (x - q) /\ b = IF t > 0 THEN t ELSE 0
  OBVIOUS
<1>8. t \in Int /\ b \in Int /\ 0 <= b /\ t <= b
  BY <1>2, <1>7
<1>9. Settled(r, k) /\ Held(wd, cx, k)
  BY DEF Tight
<1>10. SumFunctionOnSet(g, S) = t
  <2>1. S \in SUBSET ToSet(k.member)
    BY <1>1
  <2>2. SumFunctionOnSet(g, S) = SumFunctionOnSet(wd, S) * k.x
                - k.weight * SumFunctionOnSet(Pull(wd, cx, k.member), S)
    BY <1>1, <1>4, <2>1, TensionOfSet
  <2>3. SumFunctionOnSet(wd, S) = W /\ SumFunctionOnSet(Pull(wd, cx, k.member), S) = q
    BY <1>1 DEF GoodCluster
  <2>4. W * x - W * q = W * (x - q)
    BY <1>2
  <2>. QED  BY <1>1, <1>7, <2>2, <2>3, <2>4
<1>11. ASSUME NEW j \in 1 .. n - 1
       PROVE  /\ SumFunctionOnSet(g, Upto(s, j)) <= b
              /\ D[s[j]] <= D[s[j + 1]]
  <2>1. PICK U, c, d, i : U = Upto(s, j) /\ c = s[j + 1] /\ d = s[j] /\ i = j - 1
    OBVIOUS
  <2>2. j \in Nat /\ j < n /\ i \in Nat /\ i < n /\ i + 1 = j
    BY <1>2, <2>1
  <2>3. /\ U = Before(s, c) /\ c \in S /\ U \in SUBSET S
    BY <1>1, <1>2, <2>1, <2>2, MembersUpTo
  <2>4. /\ U = Upto(s, i) \cup {d} /\ d \notin Upto(s, i) /\ Upto(s, i) = Before(s, d)
        /\ d \in S /\ IsFiniteSet(Upto(s, i)) /\ Upto(s, i) \in SUBSET S
    <3>1. /\ Upto(s, i + 1) = Upto(s, i) \cup {s[i + 1]} /\ s[i + 1] \notin Upto(s, i)
          /\ Upto(s, i) = Before(s, s[i + 1]) /\ s[i + 1] \in ToSet(s)
          /\ Upto(s, i) \in SUBSET ToSet(s) /\ IsFiniteSet(Upto(s, i))
      BY <1>1, <1>2, <2>2, MembersUpTo
    <3>. QED  BY <1>1, <2>1, <2>2, <3>1
  <2>5. SumFunctionOnSet(g, U) <= b
    <3>1. U \in SUBSET ToSet(k.member)
      BY <1>1, <2>3
    <3>2. SumFunctionOnSet(g, U) = SumFunctionOnSet(wd, U) * k.x
                - k.weight * SumFunctionOnSet(Pull(wd, cx, k.member), U)
      BY <1>1, <1>4, <3>1, TensionOfSet
    <3>3. PICK o, y : o = SumFunctionOnSet(wd, U) /\ y = SumFunctionOnSet(Pull(wd, cx, k.member), U)
      OBVIOUS
    <3>4. HeldAt(o, y, W, x, q)
      BY <1>1, <1>9, <2>3, <3>3 DEF Held
    <3>5. o * x - W * y <= 0 \/ o * x - W * y <= t
      BY <1>7, <3>4 DEF HeldAt
    <3>6. o \in Int /\ y \in Int
      BY <1>1, <2>3, <3>3, AheadTypes
    <3>7. o * x - W * y \in Int
      BY <1>2, <3>6
    <3>. QED  BY <1>1, <1>8, <3>2, <3>3, <3>5, <3>7
  <2>6. D[d] <= D[c]
    <3>1. PICK o, w, y, z : /\ o = SumFunctionOnSet(wd, Before(s, d)) /\ w = wd[d]
                            /\ y = p[d] /\ z = p[c]
      OBVIOUS
    <3>2. o \in Int /\ w \in Int /\ y \in Int /\ z \in Int /\ D[d] = W * y - x - o * W
      BY <1>6, <2>3, <2>4, <3>1
    <3>3. SumFunctionOnSet(wd, U) = o + w
      <4>1. PICK V : V = Upto(s, i)
        OBVIOUS
      <4>2. /\ IsFiniteSet(V) /\ V \in SUBSET S /\ d \notin V
            /\ V = Before(s, d) /\ U = V \cup {d}
        BY <2>4, <4>1
      <4>3. (\A e \in V : wd[e] \in Int) /\ wd[d] \in Int
        BY <1>6, <2>4, <4>2
      <4>4. SumFunctionOnSet(wd, V \cup {d}) = SumFunctionOnSet(wd, V) + wd[d]
        BY <4>2, <4>3, SumAdd
      <4>. QED  BY <3>1, <4>2, <4>4
    <3>4. D[c] = W * z - x - (o + w) * W
      BY <1>6, <2>3, <3>1, <3>3
    <3>5. y + w <= z
      <4>1. d \in Before(s, c)
        BY <2>3, <2>4
      <4>. QED  BY <1>1, <2>3, <2>4, <3>1, <4>1 DEF Legally
    <3>6. (y + w) * W <= z * W
      BY <1>2, <3>2, <3>5, Scaled
    <3>7. (y + w) * W = W * y + w * W /\ (o + w) * W = o * W + w * W /\ z * W = W * z
      BY <1>2, <3>2
    <3>8. W * y \in Int /\ w * W \in Int /\ o * W \in Int /\ W * z \in Int
      BY <1>2, <3>2
    <3>. QED  BY <1>2, <3>2, <3>4, <3>6, <3>7, <3>8
  <2>. QED  BY <2>1, <2>5, <2>6
<1>12. PICK a, e, y : a = D[s[1]] /\ e = D[s[n]] /\ y = SumFunctionOnSet(h, S)
  OBVIOUS
<1>13. (t - b) * e + b * a <= y
  <2>1. \A c \in S : g[c] \in Int /\ D[c] \in Int /\ h[c] = g[c] * D[c]
    BY <1>1, <1>4, <1>5, <1>6
  <2>2. (SumFunctionOnSet(g, ToSet(s)) - b) * D[s[n]] + b * D[s[1]]
           <= SumFunctionOnSet(h, ToSet(s))
    BY <1>1, <1>2, <1>8, <1>11, <2>1, ChainSum
  <2>. QED  BY <1>1, <1>10, <1>12, <2>2
<1>14. a \in Int /\ e \in Int
  <2>1. s[1] \in S /\ s[n] \in S
    BY <1>1, <1>2 DEF ToSet
  <2>. QED  BY <1>6, <1>12, <2>1
<1>15. y \in Int
  <2>1. \A c \in S : h[c] \in Int
    <3>1. \A c \in S : g[c] \in Int /\ D[c] \in Int /\ h[c] = g[c] * D[c]
      BY <1>1, <1>4, <1>5, <1>6
    <3>. QED  BY <3>1
  <2>. QED  BY <1>2, <1>12, <2>1, SumType
<1>16. t > 0 => a >= 0
  <2>. SUFFICES ASSUME t > 0 PROVE a >= 0
    OBVIOUS
  <2>1. x > q
    <3>1. PICK z : z = x - q
      OBVIOUS
    <3>2. z \in Int /\ W * z > 0
      BY <1>2, <1>7, <3>1
    <3>3. z > 0
      BY <1>2, <3>2
    <3>. QED  BY <1>2, <3>1, <3>3
  <2>2. x = L * W
    BY <1>1, <1>9, <2>1 DEF Settled, Clamps
  <2>3. PICK c, z : c = s[1] /\ z = p[c]
    OBVIOUS
  <2>4. c \in S /\ SumFunctionOnSet(wd, Before(s, c)) = 0
    BY <1>1, <1>2, <2>3, Offsets
  <2>5. z \in Int /\ L <= z /\ a = W * z - x - 0 * W
    BY <1>6, <1>12, <2>3, <2>4
  <2>6. L * W <= z * W
    BY <1>2, <2>5, Scaled
  <2>7. z * W = W * z /\ W * z \in Int /\ 0 * W = 0
    BY <1>2, <2>5
  <2>. QED  BY <1>2, <2>2, <2>5, <2>6, <2>7
<1>17. t < 0 => e <= 0
  <2>. SUFFICES ASSUME t < 0 PROVE e <= 0
    OBVIOUS
  <2>1. x < q
    <3>1. PICK z : z = x - q
      OBVIOUS
    <3>2. z \in Int /\ W * z < 0
      BY <1>2, <1>7, <3>1
    <3>3. z < 0
      BY <1>2, <3>2
    <3>. QED  BY <1>2, <3>1, <3>3
  <2>2. x = (R - W) * W
    BY <1>1, <1>2, <1>9, <2>1 DEF Settled, Clamps
  <2>3. PICK c, z, o, w : c = s[n] /\ z = p[c] /\ o = SumFunctionOnSet(wd, Before(s, c)) /\ w = wd[c]
    OBVIOUS
  <2>4. c \in S /\ o + w = W
    <3>1. SumFunctionOnSet(wd, S) = W
      BY <1>1 DEF GoodCluster
    <3>. QED  BY <1>1, <1>2, <2>3, <3>1, Offsets
  <2>5. /\ z \in Int /\ o \in Int /\ w \in Int /\ z + w <= R /\ e = W * z - x - o * W
    BY <1>6, <1>12, <2>3, <2>4
  <2>6. (z + w) * W <= R * W
    BY <1>2, <2>5, Scaled
  <2>7. (z + w) * W = W * z + w * W /\ (R - W) * W = R * W - W * W /\ W * W = o * W + w * W
    <3>1. (o + w) * W = o * W + w * W
      BY <1>2, <2>5
    <3>. QED  BY <1>2, <2>4, <2>5, <3>1
  <2>8. W * z \in Int /\ w * W \in Int /\ R * W \in Int /\ W * W \in Int /\ o * W \in Int
    BY <1>2, <2>5
  <2>. QED  BY <1>2, <2>2, <2>5, <2>6, <2>7, <2>8
<1>18. 0 <= (t - b) * e + b * a
  <2>1. CASE t > 0
    <3>1. b = t /\ 0 <= a
      BY <1>7, <1>16, <2>1
    <3>2. 0 <= b * a /\ (t - b) * e = 0
      BY <1>8, <1>14, <3>1
    <3>3. b * a \in Int
      BY <1>8, <1>14
    <3>. QED  BY <3>2, <3>3
  <2>2. CASE t = 0
    <3>1. (t - b) * e + b * a = 0
      BY <1>7, <1>14, <2>2
    <3>. QED  BY <3>1
  <2>3. CASE t < 0
    <3>1. b = 0 /\ e <= 0
      BY <1>7, <1>8, <1>17, <2>3
    <3>2. PICK u, v : u = -t /\ v = -e
      OBVIOUS
    <3>3. u \in Int /\ v \in Int /\ u >= 0 /\ v >= 0
      BY <1>8, <1>14, <2>3, <3>1, <3>2
    <3>4. u * v >= 0
      BY <3>3
    <3>5. (t - b) * e + b * a = u * v
      BY <1>8, <1>14, <3>1, <3>2
    <3>. QED  BY <3>4, <3>5
  <2>. QED  BY <1>8, <2>1, <2>2, <2>3
<1>19. 0 <= y
  <2>1. (t - b) * e + b * a \in Int
    BY <1>8, <1>14
  <2>. QED  BY <1>13, <1>15, <1>18, <2>1
<1>. QED  BY <1>1, <1>12, <1>15, <1>19

\* A tight cluster costs at most what its members would cost in any legal
\* placement in their order.
LEMMA TightIsBest ==
  ASSUME NEW r \in Rows, NEW wd, NEW cx, Measures(wd, cx),
         NEW k, GoodCluster(wd, cx, k), Tight(r, wd, cx, k), k.width <= MaxX[r] - MinX[r],
         NEW p, Legally(r, wd, p, k),
         NEW e, Costs(wd, cx, k, e), NEW f, WouldCost(wd, cx, p, k, f)
  PROVE  SumFunctionOnSet(e, ToSet(k.member))
           <= (k.weight * k.weight) * SumFunctionOnSet(f, ToSet(k.member))
<1>1. PICK s, S, W, V, x, u : /\ s = k.member /\ S = ToSet(s) /\ W = k.weight /\ V = W * W
                              /\ x = k.x /\ u = Pull(wd, cx, s)
  OBVIOUS
<1>2. /\ s \in Seq(Cells) /\ W \in Int /\ V \in Int /\ x \in Int
      /\ S \in SUBSET Cells /\ IsFiniteSet(S)
  <2>1. s \in Seq(Cells) /\ W \in Int /\ x \in Int
    BY <1>1 DEF GoodCluster, Cluster, Positive
  <2>2. V \in Int
    BY <1>1, <2>1
  <2>. QED  BY <1>1, <2>1, <2>2, MembersFinite
<1>3. PICK h, y, z : /\ h = [c \in S |-> Tension(wd, cx, k, c) * Moved(wd, p, k, c)]
                     /\ y = [c \in S |-> e[c] + 2 * h[c]]
                     /\ z = [c \in S |-> V * f[c]]
  OBVIOUS
<1>4. ASSUME NEW c \in S
      PROVE  /\ e[c] \in Int /\ f[c] \in Int /\ h[c] \in Int /\ y[c] \in Int /\ z[c] \in Int
             /\ y[c] <= z[c]
  <2>1. PICK w, o, a, b, d : /\ w = wd[c] /\ o = SumFunctionOnSet(wd, Before(s, c))
                             /\ a = cx[c] /\ b = p[c] /\ d = Gap(wd, cx, k, c)
    OBVIOUS
  <2>2. w \in Int /\ w > 0 /\ o \in Int /\ a \in Int
    <3>1. c \in Cells
      BY <1>2
    <3>. QED  BY <1>2, <2>1, <3>1, MeasureTypes
  <2>3. b \in Int
    BY <1>1, <2>1 DEF Legally
  <2>4. d = x + (o - a) * W
    BY <1>1, <2>1 DEF Gap
  <2>5. e[c] = w * d * d /\ f[c] = w * (b - a) * (b - a)
    BY <1>1, <2>1 DEF Costs, WouldCost
  <2>6. h[c] = (w * x - W * (w * (a - o))) * (W * b - x - o * W)
    <3>1. u[c] = w * (a - o)
      BY <1>1, <1>2, <2>1 DEF Pull
    <3>2. Tension(wd, cx, k, c) = w * x - W * (w * (a - o))
      BY <1>1, <2>1, <3>1 DEF Tension
    <3>3. Moved(wd, p, k, c) = W * b - x - o * W
      BY <1>1, <2>1 DEF Moved
    <3>. QED  BY <1>3, <3>2, <3>3
  <2>7. /\ w * d * d \in Int /\ w * (b - a) * (b - a) \in Int
        /\ w * d * d + 2 * ((w * x - W * (w * (a - o))) * (W * b - x - o * W))
             <= (W * W) * (w * (b - a) * (b - a))
    <3>1. MemberAt(w, W, x, o, a, b, d)
      BY <1>2, <2>2, <2>3, <2>4 DEF MemberAt
    <3>. QED  BY <3>1, CostOfMember
  <2>8. h[c] \in Int
    BY <1>2, <2>2, <2>3, <2>6
  <2>9. y[c] = e[c] + 2 * h[c] /\ z[c] = V * f[c]
    BY <1>3
  <2>10. e[c] + 2 * h[c] <= V * f[c]
    BY <1>1, <2>5, <2>6, <2>7
  <2>11. PICK i, j : i = e[c] /\ j = f[c]
    OBVIOUS
  <2>12. i \in Int /\ j \in Int
    BY <2>5, <2>7, <2>11
  <2>13. i + 2 * h[c] \in Int /\ V * j \in Int
    BY <1>2, <2>8, <2>12
  <2>. QED  BY <2>8, <2>9, <2>10, <2>11, <2>12, <2>13
<1>5. SumFunctionOnSet(y, S) = SumFunctionOnSet(e, S) + 2 * SumFunctionOnSet(h, S)
  <2>1. \A c \in S : e[c] \in Int /\ h[c] \in Int /\ y[c] = e[c] + 2 * h[c]
    BY <1>3, <1>4
  <2>. QED  BY <1>2, <2>1, SumLinear
<1>6. SumFunctionOnSet(z, S) = V * SumFunctionOnSet(f, S)
  <2>1. \A c \in S : f[c] \in Int /\ z[c] = V * f[c]
    BY <1>3, <1>4
  <2>. QED  BY <1>2, <2>1, SumScale
<1>7. SumFunctionOnSet(y, S) <= SumFunctionOnSet(z, S)
  BY <1>2, <1>4, SumOrder
<1>8. SumFunctionOnSet(h, S) >= 0
  <2>1. \A c \in ToSet(k.member) : h[c] = Tension(wd, cx, k, c) * Moved(wd, p, k, c)
    BY <1>1, <1>3
  <2>. QED  BY <1>1, <2>1, NoGain
<1>9. PICK a, b, c : /\ a = SumFunctionOnSet(e, S) /\ b = SumFunctionOnSet(h, S)
                     /\ c = V * SumFunctionOnSet(f, S)
  OBVIOUS
<1>10. a \in Int /\ b \in Int /\ c \in Int
  <2>1. SumFunctionOnSet(f, S) \in Int
    BY <1>2, <1>4, SumType
  <2>2. V * SumFunctionOnSet(f, S) \in Int
    BY <1>2, <2>1
  <2>. QED  BY <1>2, <1>4, <1>9, <2>2, SumType
<1>11. a <= c
  BY <1>5, <1>6, <1>7, <1>8, <1>9, <1>10
<1>. QED  BY <1>1, <1>9, <1>11

-----------------------------------------------------------------------------
(***************************************************************************)
(* The best place for a row: that of its clusters.                         *)
(***************************************************************************)
\* The displacement of the members of the cluster k, times its squared weight.
CostOf(r, k) ==
  MapThenSumSet(LAMBDA c :
                  LET d == k.x + (OffsetIn(k, c) - ClampedX(r, c)) * k.weight
                  IN cell[c].width * d * d,
                ToSet(k.member))

\* What the i-th cluster adds to the displacement of the clusters of r.
Share(r, i) == CostOf(r, clusters[r][i]) * SquaredWeights(r, DOMAIN clusters[r] \ {i})

Weights(r) == [i \in DOMAIN clusters[r] |-> clusters[r][i].weight]

\* The two sides of RowOptimal as sums over sets.
LEMMA DisplacementSums ==
  ASSUME NEW r, NEW p, NEW all, all = DOMAIN clusters[r]
  PROVE  /\ ClusterDisplacement(r)
              = SumFunctionOnSet(
                  [i \in all |-> Share(r, i)], all)
         /\ Displacement(r, p)
              = SumFunctionOnSet(
                  [c \in MembersOf(r) |->
                     cell[c].width * (p[c] - ClampedX(r, c)) * (p[c] - ClampedX(r, c))],
                  MembersOf(r))
         /\ \A k : CostOf(r, k)
              = SumFunctionOnSet(
                  [c \in ToSet(k.member) |->
                     cell[c].width
                       * (k.x + (OffsetIn(k, c) - ClampedX(r, c)) * k.weight)
                       * (k.x + (OffsetIn(k, c) - ClampedX(r, c)) * k.weight)],
                  ToSet(k.member))
<1>1. ClusterDisplacement(r)
        = MapThenSumSet(LAMBDA i : Share(r, i), all)
  BY DEF ClusterDisplacement, CostOf, Share
<1>2. MapThenSumSet(LAMBDA i : Share(r, i), DOMAIN clusters[r])
        = SumFunctionOnSet([i \in DOMAIN clusters[r] |-> Share(r, i)], DOMAIN clusters[r])
  BY ZenonT(30) DEF SumFunctionOnSet, FoldFunctionOnSet, MapThenFoldSet, MapThenSumSet
<1>3. Displacement(r, p)
        = SumFunctionOnSet(
            [c \in MembersOf(r) |->
               cell[c].width * (p[c] - ClampedX(r, c)) * (p[c] - ClampedX(r, c))],
            MembersOf(r))
  BY DEF Displacement, SumFunctionOnSet, FoldFunctionOnSet, MapThenFoldSet, MapThenSumSet
<1>4. ASSUME NEW k
      PROVE  CostOf(r, k)
               = SumFunctionOnSet(
                   [c \in ToSet(k.member) |->
                      cell[c].width
                        * (k.x + (OffsetIn(k, c) - ClampedX(r, c)) * k.weight)
                        * (k.x + (OffsetIn(k, c) - ClampedX(r, c)) * k.weight)],
                   ToSet(k.member))
  BY DEF CostOf, SumFunctionOnSet, FoldFunctionOnSet, MapThenFoldSet, MapThenSumSet
<1>. QED  BY <1>1, <1>2, <1>3, <1>4

\* The products of RowOptimal.
LEMMA SquaredWeightsOf ==
  ASSUME NEW r, NEW S, S \in SUBSET DOMAIN clusters[r], IsFiniteSet(S),
         \A i \in S : clusters[r][i].weight \in Int
  PROVE  SquaredWeights(r, S) = SquaresOf(Weights(r), S)
<1> DEFINE Same(h) ==
             h = [s \in SUBSET S |->
                   IF s = {} THEN 1
                   ELSE h[s \ {Chosen(s)}] * clusters[r][Chosen(s)].weight
                                           * clusters[r][Chosen(s)].weight]
           iter == CHOOSE h : Same(h)
<1>1. SquaredWeights(r, S) = iter[S]
  BY DEF SquaredWeights, FoldSet, MapThenFoldSet, Chosen
<1>2. PICK v : v = Weights(r)
  OBVIOUS
<1>3. \A i \in S : v[i] = clusters[r][i].weight /\ v[i] \in Int
  BY <1>2 DEF Weights
<1>4. PICK g : Multiplies(v, S, g) /\ SquaresOf(v, S) = g[S]
  BY <1>3, SquaresExist
<1>5. \A s \in SUBSET S : s # {} => Chosen(s) \in S
  BY DEF Chosen
<1>6. \A h : Same(h) <=> Multiplies(v, S, h)
  BY <1>3, <1>5 DEF Multiplies
<1>7. Multiplies(v, S, iter)
  BY <1>4, <1>6
<1>. HIDE DEF iter
<1>8. iter[S] = g[S]
  <2>1. S \in SUBSET S
    OBVIOUS
  <2>. QED  BY <1>4, <1>7, <2>1, SquaresUnique
<1>. QED  BY <1>1, <1>2, <1>4, <1>8

\* A legal placement of the row r places the members of each cluster legally.
LEMMA LegalInCluster ==
  ASSUME TypeOK, NEW r \in Rows, NEW p \in LegalPlacements(r),
         NEW i \in DOMAIN clusters[r], NEW k, k = clusters[r][i]
  PROVE  Legally(r, Widths, p, k) /\ ToSet(k.member) \in SUBSET MembersOf(r)
<1>1. PICK S, M : S = ToSet(k.member) /\ M = MembersOf(r)
  OBVIOUS
<1>2. S \in SUBSET M /\ M \in SUBSET Cells
  BY <1>1, MemberOfRow DEF MembersOf, ToSet
<1>3. /\ p \in [M -> MinX[r] .. MaxX[r]]
      /\ \A c \in M : p[c] + cell[c].width <= MaxX[r]
      /\ \A c, d \in M : LeftOf(r, c, d) => p[c] + cell[c].width <= p[d]
  <2>1. PICK order : order = {o \in M \X M : LeftOf(r, o[1], o[2])}
    OBVIOUS
  <2>2. /\ p \in [M -> MinX[r] .. MaxX[r]]
        /\ \A c \in M : p[c] + cell[c].width <= MaxX[r]
        /\ \A o \in order : p[o[1]] + cell[o[1]].width <= p[o[2]]
    BY <1>1, <2>1 DEF LegalPlacements
  <2>3. \A c, d \in M : LeftOf(r, c, d) => <<c, d>> \in order
    BY <2>1
  <2>. QED  BY <2>2, <2>3
<1>4. ASSUME NEW c \in S
      PROVE  /\ p[c] \in Int /\ MinX[r] <= p[c] /\ p[c] + Widths[c] <= MaxX[r]
             /\ \A d \in S : c \in Before(k.member, d) => p[c] + Widths[c] <= p[d]
  <2>1. c \in M /\ Widths[c] = cell[c].width
    BY <1>2 DEF Widths
  <2>2. p[c] \in MinX[r] .. MaxX[r]
    BY <1>3, <2>1
  <2>3. p[c] \in Int /\ MinX[r] <= p[c]
    BY <2>2, RowsAssumption
  <2>4. ASSUME NEW d \in S, c \in Before(k.member, d)
        PROVE  LeftOf(r, c, d)
    <3>1. PICK a \in DOMAIN k.member, b \in DOMAIN k.member :
             k.member[a] = c /\ k.member[b] = d /\ a < b
      BY <2>4 DEF Before
    <3>. QED  BY <3>1 DEF LeftOf
  <2>. QED  BY <1>2, <1>3, <2>1, <2>3, <2>4
<1>. QED  BY <1>1, <1>2, <1>4 DEF Legally

\* What a cluster costs is the sum of what its members cost.
LEMMA CostsOfCluster ==
  ASSUME TypeOK, NEW r \in Rows, NEW k, GoodCluster(Widths, Asked(r), k)
  PROVE  \E e : Costs(Widths, Asked(r), k, e) /\ CostOf(r, k) = SumFunctionOnSet(e, ToSet(k.member))
<1>1. PICK e, S : /\ S = ToSet(k.member)
                  /\ e = [c \in S |->
                            cell[c].width
                              * (k.x + (OffsetIn(k, c) - ClampedX(r, c)) * k.weight)
                              * (k.x + (OffsetIn(k, c) - ClampedX(r, c)) * k.weight)]
  OBVIOUS
<1>2. CostOf(r, k) = SumFunctionOnSet(e, S)
  BY <1>1, DisplacementSums
<1>3. S \in SUBSET Cells
  BY <1>1, MembersFinite DEF GoodCluster, Cluster
<1>4. Costs(Widths, Asked(r), k, e)
  <2>1. ASSUME NEW c \in S
        PROVE  e[c] = Widths[c] * Gap(Widths, Asked(r), k, c) * Gap(Widths, Asked(r), k, c)
    <3>1. OffsetIn(k, c) = SumFunctionOnSet(Widths, Before(k.member, c))
      BY <1>1, OffsetOfMember
    <3>2. Widths[c] = cell[c].width /\ Asked(r)[c] = ClampedX(r, c)
      BY <1>3 DEF Widths, Asked
    <3>3. Gap(Widths, Asked(r), k, c) = k.x + (OffsetIn(k, c) - ClampedX(r, c)) * k.weight
      BY <3>1, <3>2 DEF Gap
    <3>. QED  BY <1>1, <3>2, <3>3
  <2>. QED  BY <1>1, <2>1 DEF Costs
<1>. QED  BY <1>1, <1>2, <1>4

\* What the members of a row would cost in the placement p.
Expense(r, p) ==
  [c \in MembersOf(r) |->
     cell[c].width * (p[c] - ClampedX(r, c)) * (p[c] - ClampedX(r, c))]

\* Neither a cluster nor its share of the displacement is ahead of p.
LEMMA ShareIsLeast ==
  ASSUME BaseInv, GoodInv, TightInv, phase # "read", NEW r \in Rows, nextRow <= r,
         NEW p \in LegalPlacements(r), NEW i \in DOMAIN clusters[r],
         NEW all, all = DOMAIN clusters[r],
         NEW T, T = ToSet(clusters[r][i].member),
         NEW f, f = Expense(r, p)
  PROVE  /\ Share(r, i) \in Int /\ IsFiniteSet(T) /\ \A c \in T : f[c] \in Int
         /\ SumFunctionOnSet(f, T) \in Int /\ SquaredWeights(r, all) \in Int
         /\ Share(r, i) <= SquaredWeights(r, all) * SumFunctionOnSet(f, T)
<1>1. PICK k, wd, cx, v : k = clusters[r][i] /\ wd = Widths /\ cx = Asked(r) /\ v = Weights(r)
  OBVIOUS
<1>2. /\ GoodCluster(wd, cx, k) /\ Tight(r, wd, cx, k) /\ Measures(wd, cx)
      /\ clusters[r] \in Seq(Cluster) /\ T = ToSet(k.member)
  BY <1>1, AllMeasured DEF GoodInv, RowOf, TightInv, TightRow
<1>3. /\ T \in SUBSET MembersOf(r) /\ T \in SUBSET Cells /\ IsFiniteSet(T)
      /\ Legally(r, wd, p, k)
  <2>1. T \in SUBSET Cells /\ IsFiniteSet(T)
    BY <1>2, MembersFinite DEF GoodCluster, Cluster
  <2>. QED  BY <1>1, <1>2, <2>1, LegalInCluster DEF BaseInv
<1>4. WouldCost(wd, cx, p, k, f) /\ \A c \in T : f[c] \in Int
  <2>1. ASSUME NEW c \in T
        PROVE  f[c] = wd[c] * (p[c] - cx[c]) * (p[c] - cx[c]) /\ f[c] \in Int
    <3>1. wd[c] = cell[c].width /\ cx[c] = ClampedX(r, c)
      BY <1>1, <1>3 DEF Widths, Asked
    <3>2. PICK a, b, d : a = wd[c] /\ b = p[c] /\ d = cx[c]
      OBVIOUS
    <3>3. a \in Int /\ b \in Int /\ d \in Int
      BY <1>2, <1>3, <3>2 DEF Measures, Legally, Positive
    <3>4. f[c] = a * (b - d) * (b - d)
      BY <1>3, <3>1, <3>2 DEF Expense
    <3>5. a * (b - d) * (b - d) \in Int
      BY <3>3
    <3>. QED  BY <3>2, <3>4, <3>5
  <2>. QED  BY <1>2, <2>1 DEF WouldCost
<1>5. PICK e : Costs(wd, cx, k, e) /\ CostOf(r, k) = SumFunctionOnSet(e, T)
  BY <1>1, <1>2, CostsOfCluster DEF BaseInv
<1>6. PICK a, b, w : /\ a = CostOf(r, k) /\ b = SumFunctionOnSet(f, T) /\ w = k.weight
  OBVIOUS
<1>7. a <= (w * w) * b
  <2>1. k.width <= MaxX[r] - MinX[r]
    BY <1>2, <1>3, FitsIfLegal
  <2>. QED  BY <1>2, <1>3, <1>4, <1>5, <1>6, <2>1, TightIsBest
<1>8. a \in Int /\ b \in Int /\ w \in Int
  <2>1. \A c \in T : e[c] \in Int
    <3> TAKE c \in T
    <3>1. PICK x, y : x = wd[c] /\ y = Gap(wd, cx, k, c)
      OBVIOUS
    <3>2. PICK z, g, u, o : /\ z = k.x /\ g = k.weight /\ u = cx[c]
                            /\ o = SumFunctionOnSet(wd, Before(k.member, c))
      OBVIOUS
    <3>3. x \in Int /\ z \in Int /\ g \in Int /\ u \in Int /\ o \in Int
      BY <1>2, <1>3, <3>1, <3>2, MeasureTypes DEF GoodCluster, Cluster, Positive
    <3>4. y = z + (o - u) * g
      BY <3>1, <3>2 DEF Gap
    <3>5. y \in Int
      BY <3>3, <3>4
    <3>6. e[c] = x * y * y
      BY <1>2, <1>5, <3>1 DEF Costs
    <3>. QED  BY <3>3, <3>5, <3>6
  <2>2. w \in Int
    BY <1>2, <1>6 DEF GoodCluster, Cluster, Positive
  <2>. QED  BY <1>3, <1>4, <1>5, <1>6, <2>1, <2>2, SumType
<1>9. PICK rest : rest = all \ {i}
  OBVIOUS
<1>10. /\ IsFiniteSet(all) /\ IsFiniteSet(rest) /\ i \notin rest /\ rest \cup {i} = all
       /\ rest \in SUBSET DOMAIN clusters[r] /\ all \in SUBSET DOMAIN clusters[r]
  <2>1. IsFiniteSet(all)
    <3>1. PICK n : n = Len(clusters[r])
      OBVIOUS
    <3>2. n \in Nat /\ all = 1 .. n
      BY <1>2, <3>1
    <3>3. IsFiniteSet(1 .. n)
      BY <3>2, FS_Interval
    <3>. QED  BY <3>2, <3>3
  <2>. QED  BY <1>9, <2>1, FS_Subset
<1>11. \A j \in all : clusters[r][j].weight \in Int /\ v[j] = clusters[r][j].weight
  <2>1. ASSUME NEW j \in all
        PROVE  clusters[r][j].weight \in Int
    <3>1. PICK g : g = clusters[r][j]
      OBVIOUS
    <3>2. g \in Cluster
      BY <1>2, <3>1
    <3>. QED  BY <3>1, <3>2 DEF Cluster, Positive
  <2>. QED  BY <1>1, <2>1 DEF Weights
<1>12. PICK q, all2 : q = SquaredWeights(r, rest) /\ all2 = SquaredWeights(r, all)
  OBVIOUS
<1>13. q \in Int /\ q >= 0 /\ all2 = q * (w * w)
  <2>1. q = SquaresOf(v, rest) /\ all2 = SquaresOf(v, all)
    BY <1>1, <1>10, <1>11, <1>12, SquaredWeightsOf
  <2>2. v[i] \in Int /\ v[i] = w /\ \A j \in rest : v[j] \in Int
    BY <1>1, <1>6, <1>9, <1>11
  <2>3. SquaresOf(v, rest \cup {i}) = SquaresOf(v, rest) * (v[i] * v[i])
    BY <1>10, <2>2, SquaresAdd
  <2>4. SquaresOf(v, rest) \in Int /\ SquaresOf(v, rest) >= 0
    BY <1>10, <2>2, SquaresType
  <2>. QED  BY <1>10, <2>1, <2>2, <2>3, <2>4
<1>14. Share(r, i) = a * q
  BY <1>1, <1>6, <1>9, <1>12 DEF Share
<1>15. a * q <= all2 * b
  <2>1. PICK c : c = (w * w) * b
    OBVIOUS
  <2>2. c \in Int /\ a <= c
    BY <1>7, <1>8, <2>1
  <2>3. a * q <= c * q
    BY <1>8, <1>13, <2>2, Scaled
  <2>4. c * q = (q * (w * w)) * b
    BY <1>8, <1>13, <2>1
  <2>. QED  BY <1>13, <2>3, <2>4
<1>16. a * q \in Int /\ all2 \in Int
  <2>1. w * w \in Int
    BY <1>8
  <2>. QED  BY <1>8, <1>13, <2>1
<1>. QED  BY <1>3, <1>4, <1>6, <1>8, <1>12, <1>14, <1>15, <1>16

\* The clusters of a row that is not written out yet are as close as any legal
\* placement.
LEMMA ClustersAreBest ==
  ASSUME BaseInv, GoodInv, TightInv, NEW r \in Rows, nextRow <= r,
         NEW p \in LegalPlacements(r)
  PROVE  ClusterDisplacement(r)
           <= Displacement(r, p) * SquaredWeights(r, DOMAIN clusters[r])
<1>1. PICK all, M, f, n : /\ all = DOMAIN clusters[r] /\ M = MembersOf(r)
                          /\ f = Expense(r, p) /\ n = Len(clusters[r])
  OBVIOUS
<1>2. n \in Nat /\ all = 1 .. n
  BY <1>1 DEF BaseInv, TypeOK
<1>3. CASE all = {}
  <2>1. M = {}
    BY <1>1, <1>3 DEF MembersOf, ToSet
  <2>2. Displacement(r, p) = 0 /\ ClusterDisplacement(r) = 0
    <3>1. ClusterDisplacement(r) = SumFunctionOnSet([i \in all |-> Share(r, i)], all)
      BY <1>1, DisplacementSums
    <3>2. Displacement(r, p) = SumFunctionOnSet(f, M)
      BY <1>1, DisplacementSums DEF Expense
    <3>. QED  BY <1>3, <2>1, <3>1, <3>2, SumEmpty
  <2>3. SquaredWeights(r, all) = 1
    <3>1. IsFiniteSet(all) /\ all \in SUBSET DOMAIN clusters[r]
      BY <1>1, <1>3, FS_EmptySet
    <3>2. SquaredWeights(r, all) = SquaresOf(Weights(r), all)
      BY <1>1, <1>3, <3>1, SquaredWeightsOf
    <3>3. SquaresOf(Weights(r), {}) = 1
      BY <1>3, <3>1, SquaresStep
    <3>. QED  BY <1>3, <3>2, <3>3
  <2>. QED  BY <1>1, <2>2, <2>3
<1>4. CASE all # {}
  <2>1. phase # "read"
    BY <1>1, <1>4 DEF BaseInv, Phases
  <2>2. PICK share, t, b, d : /\ share = [i \in all |-> Share(r, i)]
                              /\ t = [i \in all |-> ToSet(clusters[r][i].member)]
                              /\ b = [i \in all |-> SumFunctionOnSet(f, ToSet(clusters[r][i].member))]
                              /\ d = SquaredWeights(r, all)
    OBVIOUS
  <2>3. ASSUME NEW i \in all
        PROVE  /\ share[i] \in Int /\ IsFiniteSet(t[i]) /\ \A c \in t[i] : f[c] \in Int
               /\ b[i] = SumFunctionOnSet(f, t[i]) /\ b[i] \in Int
               /\ share[i] <= d * b[i]
    <3>1. t[i] = ToSet(clusters[r][i].member) /\ share[i] = Share(r, i)
      BY <2>2
    <3>2. b[i] = SumFunctionOnSet(f, t[i])
      BY <2>2, <3>1
    <3>3. /\ Share(r, i) \in Int /\ IsFiniteSet(t[i]) /\ \A c \in t[i] : f[c] \in Int
          /\ SumFunctionOnSet(f, t[i]) \in Int
          /\ Share(r, i) <= SquaredWeights(r, all) * SumFunctionOnSet(f, t[i])
      BY <1>1, <2>1, <3>1, ShareIsLeast
    <3>. QED  BY <2>2, <3>1, <3>2, <3>3
  <2>4. d \in Int
    <3>1. PICK i : i \in all
      BY <1>4
    <3>2. PICK T : T = ToSet(clusters[r][i].member)
      OBVIOUS
    <3>3. SquaredWeights(r, all) \in Int
      BY <1>1, <2>1, <3>1, <3>2, ShareIsLeast
    <3>. QED  BY <2>2, <3>3
  <2>5. PICK g : g = [i \in all |-> d * b[i]]
    OBVIOUS
  <2>6. \A i \in all : g[i] = d * b[i] /\ g[i] \in Int /\ share[i] <= g[i]
    <3> TAKE i \in all
    <3>1. PICK x : x = b[i]
      OBVIOUS
    <3>2. x \in Int /\ g[i] = d * x /\ share[i] <= d * x
      BY <2>3, <2>5, <3>1
    <3>3. d * x \in Int
      BY <2>4, <3>2
    <3>. QED  BY <3>1, <3>2, <3>3
  <2>7. IsFiniteSet(all)
    BY <1>2, FS_Interval
  <2>8. SumFunctionOnSet(share, all) <= SumFunctionOnSet(g, all)
    BY <2>3, <2>6, <2>7, SumOrder
  <2>9. SumFunctionOnSet(g, all) = d * SumFunctionOnSet(b, all)
    BY <2>3, <2>4, <2>6, <2>7, SumScale
  <2>10. SumFunctionOnSet(b, all) = SumFunctionOnSet(f, M)
    <3>1. \A c : c \in M <=> \E i \in 1 .. n : c \in t[i]
      <4>1. ASSUME NEW c
            PROVE  c \in M <=> \E i \in 1 .. n : c \in t[i]
        <5>1. c \in M <=> \E i \in all : c \in ToSet(clusters[r][i].member)
          BY <1>1 DEF MembersOf, ToSet
        <5>2. \A i \in all : t[i] = ToSet(clusters[r][i].member)
          BY <2>2
        <5>. QED  BY <1>2, <5>1, <5>2
      <4>. QED  BY <4>1
    <3>2. \A i, j \in 1 .. n : i # j => t[i] \cap t[j] = {}
      BY <1>1, <1>2, <2>2 DEF GoodInv, RowOf
    <3>3. \A i \in 1 .. n : IsFiniteSet(t[i]) /\ b[i] = SumFunctionOnSet(f, t[i])
      BY <1>2, <2>3
    <3>4. \A i \in 1 .. n : \A c \in t[i] : f[c] \in Int
      BY <1>2, <2>3
    <3>5. Blocks(n, f, t, b, M)
      BY <1>2, <3>1, <3>2, <3>3, <3>4 DEF Blocks
    <3>. QED  BY <1>2, <3>5, SumOfBlocks
  <2>11. ClusterDisplacement(r) = SumFunctionOnSet(share, all)
    BY <1>1, <2>2, DisplacementSums
  <2>12. Displacement(r, p) = SumFunctionOnSet(f, M)
    BY <1>1, DisplacementSums DEF Expense
  <2>13. PICK y : y = SumFunctionOnSet(f, M)
    OBVIOUS
  <2>14. y \in Int
    BY <2>3, <2>7, <2>10, <2>13, SumType
  <2>15. ClusterDisplacement(r) <= d * y
    BY <2>8, <2>9, <2>10, <2>11, <2>13
  <2>16. d * y = y * d
    BY <2>4, <2>14
  <2>. QED  BY <1>1, <2>2, <2>12, <2>13, <2>15, <2>16
<1>. QED  BY <1>3, <1>4

(***************************************************************************)
(* However the cells arrive and however the clusters of a row collapse, no *)
(* legal placement of the placed cells in their order has a smaller        *)
(* weighted squared displacement than placeRowFinal's clusters.            *)
(***************************************************************************)
THEOREM PackingIsOptimal == Spec => []RowOptimal
<1>1. BaseInv /\ GoodInv /\ TightInv => RowOptimal
  BY ClustersAreBest DEF RowOptimal
<1>. QED  BY <1>1, BaseAlways, RowsHoldTheirCells, PTL

-----------------------------------------------------------------------------
(***************************************************************************)
(* Sites.  index is the site nearest to the left end of k, the left one of *)
(* two that are equally near.                                              *)
(***************************************************************************)
SnapsTo(r, k, index) ==
  /\ index \in Int
  /\ SnappedX(r, k) = MinX[r] + index * SiteWidth
  /\ (SiteWidth * k.weight) * (2 * index - 1) < 2 * (k.x - MinX[r] * k.weight)
  /\ 2 * (k.x - MinX[r] * k.weight) <= (SiteWidth * k.weight) * (2 * index + 1)

\* determinePosition finds such a site.
LEMMA SnapExists ==
  ASSUME NEW r \in Rows, NEW k \in Cluster
  PROVE  \E index : SnapsTo(r, k, index)
<1>1. PICK y, w, m, s : y = k.x /\ w = k.weight /\ m = MinX[r] /\ s = SiteWidth
  OBVIOUS
<1>2. y \in Int /\ w \in Int /\ w > 0 /\ m \in Int /\ s \in Int /\ s > 0
  BY <1>1, RowsAssumption DEF Cluster, Positive
<1>3. PICK shift, site : shift = y - m * w /\ site = s * w
  OBVIOUS
<1>4. shift \in Int /\ site \in Int /\ site > 0
  BY <1>2, <1>3
<1>5. PICK left, rest : left = shift \div site /\ rest = shift % site
  OBVIOUS
<1>6. left \in Int /\ rest \in Int /\ shift = site * left + rest /\ 0 <= rest /\ rest < site
  BY <1>4, <1>5
<1>7. PICK index : index = IF 2 * rest <= site THEN left ELSE left + 1
  OBVIOUS
<1>8. PICK a : a = site * left
  OBVIOUS
<1>9. a \in Int /\ shift = a + rest
  BY <1>4, <1>6, <1>8
<1>10. site * (2 * index - 1) < 2 * shift /\ 2 * shift <= site * (2 * index + 1)
  <2>1. CASE 2 * rest <= site
    <3>1. site * (2 * index - 1) = 2 * a - site /\ site * (2 * index + 1) = 2 * a + site
      BY <1>4, <1>6, <1>7, <1>8, <2>1
    <3>. QED  BY <1>4, <1>6, <1>9, <2>1, <3>1
  <2>2. CASE ~(2 * rest <= site)
    <3>1. site * (2 * index - 1) = 2 * a + site /\ site * (2 * index + 1) = 2 * a + 3 * site
      BY <1>4, <1>6, <1>7, <1>8, <2>2
    <3>. QED  BY <1>4, <1>6, <1>9, <2>2, <3>1
  <2>. QED  BY <2>1, <2>2
<1>11. SnappedX(r, k) = m + index * s
  BY <1>1, <1>3, <1>5, <1>7 DEF SnappedX
<1>12. index \in Int
  BY <1>6, <1>7
<1>. QED  BY <1>1, <1>3, <1>10, <1>11, <1>12 DEF SnapsTo

\* Two clusters that do not overlap do not overlap on their sites, when the
\* width of the first is that of m sites.
LEMMA SnapKeepsOrder ==
  ASSUME NEW r \in Rows, NEW a \in Cluster, NEW b \in Cluster,
         EndsBy(a, b.x, b.weight), NEW i, SnapsTo(r, a, i), NEW j, SnapsTo(r, b, j),
         NEW m \in Int, a.width = m * SiteWidth
  PROVE  i + m <= j
<1>1. PICK x, y, u, v, o, s : /\ x = a.x /\ y = b.x /\ u = a.weight /\ v = b.weight
                              /\ o = MinX[r] /\ s = SiteWidth
  OBVIOUS
<1>2. /\ x \in Int /\ y \in Int /\ u \in Int /\ u > 0 /\ v \in Int /\ v > 0
      /\ o \in Int /\ s \in Int /\ s > 0 /\ i \in Int /\ j \in Int
  <2>1. a.weight \in Positive /\ b.weight \in Positive /\ a.x \in Int /\ b.x \in Int
    BY DEF Cluster
  <2>. QED  BY <1>1, <2>1, RowsAssumption DEF Positive, SnapsTo
<1>3. PICK p, q : p = x - o * u /\ q = y - o * v
  OBVIOUS
<1>4. p \in Int /\ q \in Int
  BY <1>2, <1>3
<1>5. (s * u) * (2 * i - 1) < 2 * p /\ 2 * q <= (s * v) * (2 * j + 1)
  BY <1>1, <1>3 DEF SnapsTo
<1>6. (p + (m * s) * u) * v <= q * u
  <2>1. (x + (m * s) * u) * v <= y * u
    BY <1>1 DEF EndsBy
  <2>2. PICK e, f : e = (m * s) * u /\ f = o * u
    OBVIOUS
  <2>3. e \in Int /\ f \in Int /\ p = x - f
    BY <1>2, <1>3, <2>2
  <2>4. (p + e) * v = (x + e) * v - f * v
    BY <1>2, <1>4, <2>3
  <2>5. q * u = y * u - f * v
    BY <1>2, <1>3, <2>2
  <2>6. (x + e) * v \in Int /\ f * v \in Int /\ y * u \in Int
    BY <1>2, <2>3
  <2>. QED  BY <2>1, <2>2, <2>4, <2>5, <2>6
<1>7. SUFFICES ASSUME j + 1 <= i + m PROVE FALSE
  BY <1>2
<1>8. PICK t : t = 2 * i + 2 * m - 1
  OBVIOUS
<1>9. t \in Int /\ 2 * j + 1 <= t
  BY <1>2, <1>7, <1>8
<1>10. 2 * q <= (s * v) * t
  <2>1. PICK g : g = s * v
    OBVIOUS
  <2>2. g \in Int /\ g > 0
    BY <1>2, <2>1
  <2>3. g * (2 * j + 1) <= g * t
    BY <1>2, <1>9, <2>2
  <2>4. g * (2 * j + 1) \in Int /\ g * t \in Int
    BY <1>2, <1>9, <2>2
  <2>. QED  BY <1>4, <1>5, <2>1, <2>3, <2>4
<1>11. (s * u) * t < 2 * (p + (m * s) * u)
  <2>1. (s * u) * t = (s * u) * (2 * i - 1) + 2 * ((m * s) * u)
    BY <1>2, <1>8
  <2>2. (s * u) * (2 * i - 1) \in Int /\ (m * s) * u \in Int
    BY <1>2
  <2>. QED  BY <1>4, <1>5, <2>1, <2>2
<1>12. PICK e, h : e = p + (m * s) * u /\ h = (s * u) * t
  OBVIOUS
<1>13. e \in Int /\ h \in Int
  BY <1>2, <1>4, <1>9, <1>12
<1>14. h * v < (2 * e) * v
  BY <1>2, <1>11, <1>12, <1>13
<1>15. (2 * q) * u <= ((s * v) * t) * u
  <2>1. (s * v) * t \in Int
    BY <1>2, <1>9
  <2>. QED  BY <1>2, <1>4, <1>10, <2>1, CommonFactor
<1>16. ((s * v) * t) * u = h * v
  BY <1>2, <1>9, <1>12
<1>17. (2 * e) * v = 2 * (e * v) /\ (2 * q) * u = 2 * (q * u)
  BY <1>2, <1>4, <1>13
<1>18. e * v \in Int /\ q * u \in Int /\ h * v \in Int
  BY <1>2, <1>4, <1>13
<1>. QED  BY <1>6, <1>12, <1>14, <1>15, <1>16, <1>17, <1>18

\* A cluster that stands inside its row does so on its site, when the row is n
\* sites longer than the cluster.
LEMMA SnapStaysInside ==
  ASSUME NEW r \in Rows, NEW k \in Cluster, NEW i, SnapsTo(r, k, i), NEW n \in Int,
         MaxX[r] - k.width = MinX[r] + n * SiteWidth,
         MinX[r] * k.weight <= k.x, k.x <= (MaxX[r] - k.width) * k.weight
  PROVE  0 <= i /\ i <= n
<1>1. PICK x, w, o, s : x = k.x /\ w = k.weight /\ o = MinX[r] /\ s = SiteWidth
  OBVIOUS
<1>2. x \in Int /\ w \in Int /\ w > 0 /\ o \in Int /\ s \in Int /\ s > 0 /\ i \in Int
  <2>1. k.weight \in Positive /\ k.x \in Int
    BY DEF Cluster
  <2>. QED  BY <1>1, <2>1, RowsAssumption DEF Positive, SnapsTo
<1>3. PICK g, p : g = s * w /\ p = x - o * w
  OBVIOUS
<1>4. g \in Int /\ g > 0 /\ p \in Int
  BY <1>2, <1>3
<1>5. g * (2 * i - 1) < 2 * p /\ 2 * p <= g * (2 * i + 1)
  BY <1>1, <1>3 DEF SnapsTo
<1>6. 0 <= p
  <2>1. o * w <= x /\ o * w \in Int
    BY <1>1, <1>2
  <2>. QED  BY <1>2, <1>3, <2>1
<1>7. p <= g * n
  <2>1. x <= (o + n * s) * w
    BY <1>1
  <2>2. (o + n * s) * w = o * w + g * n
    BY <1>2, <1>3
  <2>3. o * w \in Int /\ g * n \in Int
    BY <1>2, <1>4
  <2>. QED  BY <1>2, <1>3, <2>1, <2>2, <2>3
<1>8. 0 <= i
  <2>. SUFFICES ASSUME i <= -1 PROVE FALSE
    BY <1>2
  <2>1. 2 * i + 1 <= -1
    BY <1>2
  <2>2. g * (2 * i + 1) <= g * (-1)
    BY <1>2, <1>4, <2>1
  <2>3. g * (2 * i + 1) \in Int
    BY <1>2, <1>4
  <2>. QED  BY <1>4, <1>5, <1>6, <2>2, <2>3
<1>9. i <= n
  <2>. SUFFICES ASSUME n + 1 <= i PROVE FALSE
    BY <1>2
  <2>1. 2 * n + 1 <= 2 * i - 1
    BY <1>2
  <2>2. g * (2 * n + 1) <= g * (2 * i - 1)
    BY <1>2, <1>4, <2>1
  <2>3. g * (2 * n + 1) = 2 * (g * n) + g
    BY <1>4
  <2>4. g * (2 * i - 1) \in Int /\ g * n \in Int
    BY <1>2, <1>4
  <2>. QED  BY <1>4, <1>5, <1>7, <2>2, <2>3, <2>4
<1>. QED  BY <1>8, <1>9

\* Multiples of the site width.
LEMMA MultipleOf ==
  ASSUME NEW s \in Int, s > 0, NEW n \in Int
  PROVE  (n * s) % s = 0 /\ (n % s = 0 => n = (n \div s) * s /\ n \div s \in Int)
<1>1. PICK a, q, t : a = n * s /\ q = a \div s /\ t = a % s
  OBVIOUS
<1>2. a \in Int /\ q \in Int /\ t \in Int /\ a = s * q + t /\ 0 <= t /\ t < s
  BY <1>1
<1>3. (n - q) * s = t
  BY <1>1, <1>2
<1>4. t = 0
  <2>1. PICK d : d = n - q
    OBVIOUS
  <2>2. d \in Int /\ d * s = t
    BY <1>2, <1>3, <2>1
  <2>3. d >= 1 => d * s >= s
    BY <2>2
  <2>4. d <= -1 => d * s <= -s
    BY <2>2
  <2>5. d = 0 => d * s = 0
    BY <2>2
  <2>. QED  BY <1>2, <2>2, <2>3, <2>4, <2>5
<1>5. n % s = 0 => n = (n \div s) * s /\ n \div s \in Int
  OBVIOUS
<1>. QED  BY <1>1, <1>4, <1>5

\* A sum of multiples is a multiple.
LEMMA SumOfMultiples ==
  ASSUME NEW s \in Int, NEW f, NEW g, NEW S, IsFiniteSet(S),
         \A x \in S : g[x] \in Int /\ f[x] = g[x] * s
  PROVE  SumFunctionOnSet(f, S) = SumFunctionOnSet(g, S) * s /\ SumFunctionOnSet(g, S) \in Int
<1>1. s - 1 \in Int
  OBVIOUS
<1>2. ASSUME NEW x \in S
      PROVE  g[x] \in Int /\ f[x] = g[x] + (s - 1) * g[x]
  <2>1. PICK v : v = g[x]
    OBVIOUS
  <2>2. v \in Int /\ f[x] = v * s
    BY <2>1
  <2>3. v * s = v + (s - 1) * v
    BY <2>2
  <2>. QED  BY <2>1, <2>2, <2>3
<1>3. PICK a : a = s - 1
  OBVIOUS
<1>4. \A x \in S : g[x] \in Int /\ g[x] \in Int /\ f[x] = g[x] + a * g[x]
  BY <1>2, <1>3
<1>5. SumFunctionOnSet(f, S) = SumFunctionOnSet(g, S) + a * SumFunctionOnSet(g, S)
  BY <1>1, <1>3, <1>4, SumLinear
<1>6. SumFunctionOnSet(g, S) \in Int
  BY <1>4, SumType
<1>7. PICK t : t = SumFunctionOnSet(g, S)
  OBVIOUS
<1>8. t + (s - 1) * t = t * s
  BY <1>6, <1>7
<1>. QED  BY <1>3, <1>5, <1>6, <1>7, <1>8

-----------------------------------------------------------------------------
(***************************************************************************)
(* Places counted in sites, for cells and rows as wide as some number of   *)
(* sites (OnSites).                                                        *)
(***************************************************************************)

\* The width of every cell in sites.
Units == [c \in Cells |-> cell[c].width \div SiteWidth]

SiteOf(r, k) == CHOOSE index : SnapsTo(r, k, index)

\* A cell is as wide as its units.
LEMMA UnitsOfCells ==
  ASSUME OnSites, BaseInv, phase # "read"
  PROVE  \A c \in Cells : /\ Units[c] \in Int /\ Units[c] >= 1 /\ Widths[c] = Units[c] * SiteWidth
                          /\ cell[c].width = Units[c] * SiteWidth
<1>. SUFFICES ASSUME NEW c \in Cells
              PROVE  /\ Units[c] \in Int /\ Units[c] >= 1 /\ Widths[c] = Units[c] * SiteWidth
                     /\ cell[c].width = Units[c] * SiteWidth
  OBVIOUS
<1>1. PICK w, s, u : w = cell[c].width /\ s = SiteWidth /\ u = w \div s
  OBVIOUS
<1>2. CellRead(c)
  BY DEF BaseInv, Phases
<1>3. w \in Int /\ w >= 1 /\ s \in Int /\ s > 0 /\ w % s = 0
  <2>1. s \in Int /\ s > 0
    BY <1>1, RowsAssumption
  <2>2. w \in Int /\ w >= 1
    <3>1. NumRows \in Nat /\ NumRows # 0
      BY RowsAssumption
    <3>2. \E r : r \in Rows
      BY <3>1 DEF Rows
    <3>. QED  BY <1>1, <1>2, <3>2, AskedFor
  <2>3. \E i \in CellInputs : cell[c] = i
    BY <1>2 DEF CellRead
  <2>4. cell[c].width % SiteWidth = 0
    BY <2>3 DEF OnSites
  <2>. QED  BY <1>1, <2>1, <2>2, <2>4
<1>4. w = u * s /\ u \in Int
  BY <1>1, <1>3, MultipleOf
<1>5. u >= 1
  <2>1. u <= 0 => u * s <= 0
    BY <1>3, <1>4
  <2>. QED  BY <1>3, <1>4, <2>1
<1>. QED  BY <1>1, <1>4, <1>5 DEF Units, Widths

\* The widths of some cells in sites.
LEMMA UnitsOfCluster ==
  ASSUME OnSites, BaseInv, phase # "read", NEW S \in SUBSET Cells
  PROVE  /\ SumFunctionOnSet(Widths, S) = SumFunctionOnSet(Units, S) * SiteWidth
         /\ SumFunctionOnSet(Units, S) \in Int /\ SumFunctionOnSet(Units, S) >= 0
<1>1. IsFiniteSet(S)
  BY CellsAssumption, FS_Subset
<1>2. \A c \in S : Units[c] \in Int /\ Units[c] >= 0 /\ Widths[c] = Units[c] * SiteWidth
  <2>1. \A c \in Cells : Units[c] \in Int /\ Units[c] >= 1 /\ Widths[c] = Units[c] * SiteWidth
    BY UnitsOfCells
  <2>. QED  BY <2>1
<1>3. SiteWidth \in Int
  BY RowsAssumption
<1>4. PICK s : s = SiteWidth
  OBVIOUS
<1>5. SumFunctionOnSet(Widths, S) = SumFunctionOnSet(Units, S) * s
  BY <1>1, <1>2, <1>3, <1>4, SumOfMultiples
<1>. QED  BY <1>1, <1>2, <1>4, <1>5, SumType

\* Where a member of a cluster stands, in sites from the left end of the row.
Stands(r, k, c) == SiteOf(r, k) + SumFunctionOnSet(Units, Before(k.member, c))

\* The place of a cell that is written out.
LEMMA WrittenOnSite ==
  ASSUME OnSites, BaseInv, GoodInv, phase # "read", NEW r \in Rows, NEW c \in MembersOf(r)
  PROVE  /\ c \in Cells
         /\ \E i \in DOMAIN clusters[r] :
              LET k == clusters[r][i]
              IN /\ c \in ToSet(k.member)
                 /\ SnapsTo(r, k, SiteOf(r, k))
                 /\ Stands(r, k, c) \in Int
                 /\ WrittenX(r, c) = MinX[r] + Stands(r, k, c) * SiteWidth
<1>1. PICK i \in DOMAIN clusters[r] : ClusterOf(r, c) = clusters[r][i]
  BY MemberOfRow DEF BaseInv
<1>2. PICK k, m, o, B : /\ k = clusters[r][i] /\ m = k.member /\ B = Before(m, c)
                        /\ o = SumFunctionOnSet(Units, B)
  OBVIOUS
<1>3. k \in Cluster /\ c \in ToSet(m) /\ GoodCluster(Widths, Asked(r), k) /\ c \in Cells
  <2>1. GoodCluster(Widths, Asked(r), k)
    BY <1>1, <1>2 DEF GoodInv, RowOf
  <2>. QED  BY <1>1, <1>2, <2>1, MemberOfRow DEF BaseInv
<1>4. B \in SUBSET Cells
  <2>1. m \in Seq(Cells)
    BY <1>2, <1>3 DEF Cluster
  <2>. QED  BY <1>2, <2>1, MembersFinite
<1>5. OffsetIn(k, c) = SumFunctionOnSet(Widths, B)
  BY <1>2, <1>3, OffsetOfMember DEF BaseInv
<1>6. SumFunctionOnSet(Widths, B) = o * SiteWidth /\ o \in Int
  BY <1>2, <1>4, UnitsOfCluster
<1>7. PICK a : a = SiteOf(r, k)
  OBVIOUS
<1>8. SnapsTo(r, k, a)
  BY <1>3, <1>7, SnapExists DEF SiteOf
<1>9. a \in Int /\ SnappedX(r, k) = MinX[r] + a * SiteWidth
  BY <1>8 DEF SnapsTo
<1>10. WrittenX(r, c) = MinX[r] + a * SiteWidth + o * SiteWidth
  BY <1>1, <1>2, <1>5, <1>6, <1>9 DEF WrittenX
<1>11. MinX[r] + a * SiteWidth + o * SiteWidth = MinX[r] + (a + o) * SiteWidth
  <2>1. MinX[r] \in Int /\ SiteWidth \in Int
    BY RowsAssumption
  <2>. QED  BY <1>6, <1>9, <2>1
<1>12. Stands(r, k, c) = a + o
  BY <1>2, <1>7 DEF Stands
<1>. QED  BY <1>1, <1>2, <1>3, <1>6, <1>7, <1>8, <1>9, <1>10, <1>11, <1>12

\* Members of one cluster stand side by side, inside the cluster.
LEMMA MembersSideBySide ==
  ASSUME OnSites, BaseInv, phase # "read", NEW r \in Rows, NEW cx,
         NEW k, GoodCluster(Widths, cx, k), NEW a, a = SiteOf(r, k), a \in Int,
         NEW c \in ToSet(k.member), NEW m, m = SumFunctionOnSet(Units, ToSet(k.member))
  PROVE  /\ a <= Stands(r, k, c) /\ Stands(r, k, c) + Units[c] <= a + m
         /\ \A d \in ToSet(k.member) :
              c \in Before(k.member, d) => Stands(r, k, c) + Units[c] <= Stands(r, k, d)
<1>1. PICK s, S, B : s = k.member /\ S = ToSet(s) /\ B = Before(s, c)
  OBVIOUS
<1>2. s \in Seq(Cells) /\ Distinct(s) /\ c \in S
  BY <1>1 DEF GoodCluster, Cluster
<1>3. /\ S \in SUBSET Cells /\ IsFiniteSet(S) /\ B \in SUBSET S /\ IsFiniteSet(B)
      /\ \A d : Before(s, d) \in SUBSET S /\ IsFiniteSet(Before(s, d))
  BY <1>1, <1>2, MembersFinite
<1>4. \A d \in Cells : Units[d] \in Int /\ Units[d] >= 1
  BY UnitsOfCells
<1>5. c \notin B
  <2>. SUFFICES ASSUME c \in B PROVE FALSE
    OBVIOUS
  <2>1. PICK i \in DOMAIN s, j \in DOMAIN s : s[i] = c /\ s[j] = c /\ i < j
    BY <1>1 DEF Before
  <2>2. i # j
    BY <1>2, <2>1
  <2>. QED  BY <1>2, <2>1, <2>2 DEF Distinct
<1>6. PICK T : T = B \cup {c}
  OBVIOUS
<1>7. SumFunctionOnSet(Units, T) = SumFunctionOnSet(Units, B) + Units[c]
  <2>1. \A d \in B : Units[d] \in Int
    BY <1>3, <1>4
  <2>2. Units[c] \in Int
    BY <1>2, <1>3, <1>4
  <2>. QED  BY <1>3, <1>5, <1>6, <2>1, <2>2, SumAdd
<1>8. \A d \in S : Units[d] \in Int /\ Units[d] >= 0
  BY <1>3, <1>4
<1>9. SumFunctionOnSet(Units, T) <= m
  <2>1. T \in SUBSET S
    BY <1>2, <1>3, <1>6
  <2>2. SumFunctionOnSet(Units, T) <= SumFunctionOnSet(Units, S)
    BY <1>3, <1>8, <2>1, SumGrows
  <2>. QED  BY <1>1, <2>2
<1>10. /\ SumFunctionOnSet(Units, B) \in Int /\ SumFunctionOnSet(Units, B) >= 0
       /\ m \in Int /\ Units[c] \in Int /\ SumFunctionOnSet(Units, T) \in Int
  <2>1. \A d \in B : Units[d] \in Int /\ Units[d] >= 0
    BY <1>3, <1>8
  <2>2. SumFunctionOnSet(Units, B) \in Int /\ SumFunctionOnSet(Units, B) >= 0
    BY <1>3, <2>1, SumType
  <2>3. Units[c] \in Int
    BY <1>2, <1>8
  <2>4. m \in Int
    BY <1>1, <1>3, <1>8, SumType
  <2>. QED  BY <1>7, <2>2, <2>3, <2>4
<1>11. Stands(r, k, c) = a + SumFunctionOnSet(Units, B)
  BY <1>1 DEF Stands
<1>12. ASSUME NEW d \in S, c \in Before(s, d)
       PROVE  Stands(r, k, c) + Units[c] <= Stands(r, k, d)
  <2>1. PICK D : D = Before(s, d)
    OBVIOUS
  <2>2. T \in SUBSET D
    <3>1. PICK i \in DOMAIN s, j \in DOMAIN s : s[i] = c /\ s[j] = d /\ i < j
      BY <1>12 DEF Before
    <3>2. ASSUME NEW b \in B
          PROVE  b \in D
      <4>1. PICK p \in DOMAIN s, q \in DOMAIN s : s[p] = b /\ s[q] = c /\ p < q
        BY <1>1 DEF Before
      <4>2. q = i
        BY <1>2, <3>1, <4>1 DEF Distinct
      <4>3. p < j
        BY <1>2, <3>1, <4>1, <4>2
      <4>4. b \in ToSet(s)
        BY <1>1, <1>3
      <4>. QED  BY <2>1, <3>1, <4>1, <4>3, <4>4 DEF Before
    <3>. QED  BY <1>6, <1>12, <2>1, <3>2
  <2>3. IsFiniteSet(D) /\ \A b \in D : Units[b] \in Int /\ Units[b] >= 0
    BY <1>3, <1>8, <2>1
  <2>4. SumFunctionOnSet(Units, T) <= SumFunctionOnSet(Units, D)
    BY <2>2, <2>3, SumGrows
  <2>5. SumFunctionOnSet(Units, D) \in Int
    BY <2>3, SumType
  <2>6. Stands(r, k, d) = a + SumFunctionOnSet(Units, D)
    BY <1>1, <2>1 DEF Stands
  <2>. QED  BY <1>7, <1>10, <1>11, <2>4, <2>5, <2>6
<1>. QED  BY <1>1, <1>7, <1>9, <1>10, <1>11, <1>12

\* Two cells of one row do not overlap when they are written out.
LEMMA WrittenApart ==
  ASSUME OnSites, BaseInv, GoodInv, phase # "read", NEW r \in Rows, Packed(r, clusters[r]),
         NEW c \in MembersOf(r), NEW d \in MembersOf(r), c # d
  PROVE  \/ WrittenX(r, c) + cell[c].width <= WrittenX(r, d)
         \/ WrittenX(r, d) + cell[d].width <= WrittenX(r, c)
<1>1. PICK ks : ks = clusters[r]
  OBVIOUS
<1>2. PICK i \in DOMAIN ks : /\ c \in ToSet(ks[i].member)
                             /\ SnapsTo(r, ks[i], SiteOf(r, ks[i]))
                             /\ Stands(r, ks[i], c) \in Int
                             /\ WrittenX(r, c) = MinX[r] + Stands(r, ks[i], c) * SiteWidth
  BY <1>1, WrittenOnSite
<1>3. PICK j \in DOMAIN ks : /\ d \in ToSet(ks[j].member)
                             /\ SnapsTo(r, ks[j], SiteOf(r, ks[j]))
                             /\ Stands(r, ks[j], d) \in Int
                             /\ WrittenX(r, d) = MinX[r] + Stands(r, ks[j], d) * SiteWidth
  BY <1>1, WrittenOnSite
<1>4. PICK p, q, u, v, o, s : /\ p = Stands(r, ks[i], c) /\ q = Stands(r, ks[j], d)
                              /\ u = Units[c] /\ v = Units[d] /\ o = MinX[r] /\ s = SiteWidth
  OBVIOUS
<1>5. /\ c \in Cells /\ d \in Cells /\ p \in Int /\ q \in Int /\ u \in Int /\ v \in Int
      /\ o \in Int /\ s \in Int /\ s > 0
      /\ cell[c].width = u * s /\ cell[d].width = v * s
  BY <1>2, <1>3, <1>4, WrittenOnSite, UnitsOfCells, RowsAssumption
<1>6. SUFFICES p + u <= q \/ q + v <= p
  <2>1. p + u <= q => o + p * s + u * s <= o + q * s
    <3>1. p + u <= q => (p + u) * s <= q * s
      BY <1>5, CommonFactor
    <3>2. (p + u) * s = p * s + u * s /\ p * s \in Int /\ u * s \in Int /\ q * s \in Int
      BY <1>5
    <3>. QED  BY <1>5, <3>1, <3>2
  <2>2. q + v <= p => o + q * s + v * s <= o + p * s
    <3>1. q + v <= p => (q + v) * s <= p * s
      BY <1>5, CommonFactor
    <3>2. (q + v) * s = q * s + v * s /\ q * s \in Int /\ v * s \in Int /\ p * s \in Int
      BY <1>5
    <3>. QED  BY <1>5, <3>1, <3>2
  <2>. QED  BY <1>2, <1>3, <1>4, <1>5, <2>1, <2>2
<1>7. PICK k, l, cx, a, b, m, n : /\ k = ks[i] /\ l = ks[j] /\ cx = Asked(r)
                                 /\ a = SiteOf(r, k) /\ b = SiteOf(r, l)
                                 /\ m = SumFunctionOnSet(Units, ToSet(k.member))
                                 /\ n = SumFunctionOnSet(Units, ToSet(l.member))
  OBVIOUS
<1>8. GoodCluster(Widths, cx, k) /\ GoodCluster(Widths, cx, l)
  BY <1>1, <1>7 DEF GoodInv, RowOf
<1>9. k \in Cluster /\ l \in Cluster /\ SnapsTo(r, k, a) /\ SnapsTo(r, l, b)
      /\ a \in Int /\ b \in Int
  BY <1>2, <1>3, <1>7, <1>8 DEF GoodCluster, SnapsTo
<1>10. /\ a <= p /\ p + u <= a + m
       /\ \A e \in ToSet(k.member) : c \in Before(k.member, e) => p + u <= Stands(r, k, e)
  BY <1>2, <1>4, <1>7, <1>8, <1>9, MembersSideBySide
<1>11. /\ b <= q /\ q + v <= b + n
       /\ \A e \in ToSet(l.member) : d \in Before(l.member, e) => q + v <= Stands(r, l, e)
  BY <1>3, <1>4, <1>7, <1>8, <1>9, MembersSideBySide
<1>12. /\ m \in Int /\ n \in Int /\ k.width = m * SiteWidth /\ l.width = n * SiteWidth
  <2>1. PICK S, T : S = ToSet(k.member) /\ T = ToSet(l.member)
    OBVIOUS
  <2>2. S \in SUBSET Cells /\ T \in SUBSET Cells
    BY <1>9, <2>1, MembersFinite DEF Cluster
  <2>3. /\ SumFunctionOnSet(Widths, S) = m * SiteWidth /\ m \in Int
        /\ SumFunctionOnSet(Widths, T) = n * SiteWidth /\ n \in Int
    BY <1>7, <2>1, <2>2, UnitsOfCluster
  <2>. QED  BY <1>8, <2>1, <2>3 DEF GoodCluster
<1>13. CASE i = j
  <2>1. PICK t, x, y : t = k.member /\ x \in DOMAIN t /\ y \in DOMAIN t /\ t[x] = c /\ t[y] = d
    BY <1>2, <1>3, <1>7, <1>13 DEF ToSet
  <2>2. t \in Seq(Cells) /\ c \in ToSet(t) /\ d \in ToSet(t) /\ k = l
    BY <1>2, <1>3, <1>7, <1>9, <1>13, <2>1 DEF Cluster
  <2>3. x < y \/ y < x
    BY <2>1, <2>2
  <2>4. x < y => c \in Before(t, d)
    BY <2>1, <2>2 DEF Before
  <2>5. y < x => d \in Before(t, c)
    BY <2>1, <2>2 DEF Before
  <2>. QED  BY <1>4, <1>7, <1>10, <1>11, <2>1, <2>2, <2>3, <2>4, <2>5
<1>14. i \in Int /\ j \in Int
  BY <1>1 DEF BaseInv, TypeOK
<1>15. CASE i < j
  <2>1. EndsBy(k, l.x, l.weight)
    BY <1>1, <1>7, <1>15 DEF Packed
  <2>2. a + m <= b
    BY <1>9, <1>12, <2>1, SnapKeepsOrder
  <2>. QED  BY <1>5, <1>9, <1>10, <1>11, <1>12, <2>2
<1>16. CASE j < i
  <2>1. EndsBy(l, k.x, k.weight)
    BY <1>1, <1>7, <1>16 DEF Packed
  <2>2. b + n <= a
    BY <1>9, <1>12, <2>1, SnapKeepsOrder
  <2>. QED  BY <1>5, <1>9, <1>10, <1>11, <1>12, <2>2
<1>. QED  BY <1>13, <1>14, <1>15, <1>16

-----------------------------------------------------------------------------
(***************************************************************************)
(* Rows that are written out.  The rows in front of nextRow have the legal *)
(* placement that LegalResult asks of all rows when the last one is        *)
(* written.                                                                *)
(***************************************************************************)
RowLegal(r) == \A c \in CellsOf(r) :
  /\ def_data[c].written /\ def_data[c].y = RowY[r]
  /\ (def_data[c].x - MinX[r]) % SiteWidth = 0
  /\ row_density_map[r] <= MaxX[r] - MinX[r] =>
       /\ def_data[c].x >= MinX[r]
       /\ def_data[c].x + cell[c].width <= MaxX[r]
  /\ \A d \in CellsOf(r) : c # d =>
       \/ def_data[c].x + cell[c].width <= def_data[d].x
       \/ def_data[d].x + cell[d].width <= def_data[c].x

LegalInv == \A r \in Rows : r < nextRow => RowLegal(r)

\* When all cells are placed the members of a row are the cells of the row.
LEMMA MembersAreCells ==
  ASSUME BaseInv, GoodInv, phase = "write", NEW r \in Rows
  PROVE  MembersOf(r) = CellsOf(r)
<1>1. PICK ks : ks = clusters[r]
  OBVIOUS
<1>2. PlacedIn(r) = CellsOf(r)
  BY DEF PlacedIn, Placed, CellsOf
<1>3. \A c \in Cells : c \in CellsOf(r) <=> \E i \in DOMAIN ks : c \in ToSet(ks[i].member)
  BY <1>1, <1>2 DEF GoodInv, RowOf
<1>4. MembersOf(r) \in SUBSET Cells
  BY MemberOfRow DEF BaseInv
<1>5. \A c : c \in MembersOf(r) <=> \E i \in DOMAIN ks : c \in ToSet(ks[i].member)
  BY <1>1 DEF MembersOf, ToSet
<1>6. \A c : c \in CellsOf(r) => c \in Cells
  BY DEF CellsOf
<1>. QED  BY <1>3, <1>4, <1>5, <1>6

\* A cell of a row that its cells fit in is written inside the row.
LEMMA WrittenInside ==
  ASSUME OnSites, BaseInv, AccountingInv, GoodInv, PackedInv, phase = "write",
         NEW r \in Rows, nextRow = r, NEW c \in MembersOf(r),
         row_density_map[r] <= MaxX[r] - MinX[r]
  PROVE  WrittenX(r, c) >= MinX[r] /\ WrittenX(r, c) + cell[c].width <= MaxX[r]
<1>1. PICK ks : ks = clusters[r]
  OBVIOUS
<1>2. PICK i \in DOMAIN ks : /\ c \in ToSet(ks[i].member)
                             /\ SnapsTo(r, ks[i], SiteOf(r, ks[i]))
                             /\ Stands(r, ks[i], c) \in Int
                             /\ WrittenX(r, c) = MinX[r] + Stands(r, ks[i], c) * SiteWidth
  BY <1>1, WrittenOnSite
<1>3. PICK k, cx, a, p, u, m, o, e, s, S : /\ k = ks[i] /\ cx = Asked(r) /\ a = SiteOf(r, k)
                              /\ p = Stands(r, k, c) /\ u = Units[c] /\ o = MinX[r]
                              /\ e = MaxX[r] /\ s = SiteWidth /\ S = ToSet(k.member)
                              /\ m = SumFunctionOnSet(Units, S)
  OBVIOUS
<1>4. GoodCluster(Widths, cx, k)
  BY <1>1, <1>3 DEF GoodInv, RowOf
<1>5. k \in Cluster /\ SnapsTo(r, k, a) /\ a \in Int /\ c \in Cells
  BY <1>2, <1>3, <1>4, WrittenOnSite DEF GoodCluster, SnapsTo
<1>6. /\ p \in Int /\ u \in Int /\ u >= 1 /\ o \in Int /\ e \in Int /\ s \in Int /\ s > 0
      /\ cell[c].width = u * s
  <2>1. u \in Int /\ u >= 1 /\ cell[c].width = u * SiteWidth
    BY <1>3, <1>5, UnitsOfCells
  <2>. QED  BY <1>2, <1>3, <2>1, RowsAssumption
<1>7. a <= p /\ p + u <= a + m
  BY <1>2, <1>3, <1>4, <1>5, MembersSideBySide
<1>8. /\ S \in SUBSET Cells /\ S \in SUBSET CellsOf(r)
      /\ SumFunctionOnSet(Widths, S) = m * SiteWidth /\ m \in Int
  <2>1. S \in SUBSET Cells
    BY <1>3, <1>5, MembersFinite DEF Cluster
  <2>2. S \in SUBSET MembersOf(r)
    BY <1>1, <1>2, <1>3 DEF MembersOf, ToSet
  <2>. QED  BY <1>3, <2>1, <2>2, UnitsOfCluster, MembersAreCells
<1>9. k.width = m * s /\ k.width \in Int
  BY <1>3, <1>4, <1>5, <1>6, <1>8 DEF GoodCluster
<1>10. m * s <= e - o
  <2>1. row_density_map[r] = SumFunctionOnSet(Widths, CellsOf(r))
    BY DEF AccountingInv, Accounted
  <2>2. IsFiniteSet(CellsOf(r)) /\ \A d \in CellsOf(r) : Widths[d] \in Int /\ Widths[d] >= 0
    <3>1. /\ CellsOf(r) \in SUBSET Cells /\ IsFiniteSet(CellsOf(r))
          /\ \A d \in Cells : Widths[d] \in Int /\ Widths[d] >= 0
      BY RowCells DEF BaseInv
    <3>. QED  BY <3>1
  <2>3. SumFunctionOnSet(Widths, S) <= SumFunctionOnSet(Widths, CellsOf(r))
    BY <1>8, <2>2, SumGrows
  <2>4. SumFunctionOnSet(Widths, CellsOf(r)) \in Int
    BY <2>2, SumType
  <2>5. PICK t, v : t = SumFunctionOnSet(Widths, CellsOf(r)) /\ v = SumFunctionOnSet(Widths, S)
    OBVIOUS
  <2>6. v <= t /\ v = m * s /\ v \in Int /\ t \in Int
    BY <1>3, <1>8, <1>9, <2>3, <2>4, <2>5
  <2>7. t <= e - o
    BY <1>3, <2>1, <2>5
  <2>. QED  BY <1>6, <2>6, <2>7
<1>11. o * k.weight <= k.x /\ k.x <= (e - m * s) * k.weight
  <2>1. Within(r, k)
    BY <1>1, <1>2, <1>3 DEF PackedInv, Packed, Rows
  <2>. QED  BY <1>3, <1>9, <1>10, <2>1 DEF Within
<1>12. PICK w, f : w = e - o /\ f = w \div s
  OBVIOUS
<1>13. w \in Int /\ w % s = 0
  BY <1>3, <1>6, <1>12 DEF OnSites
<1>14. w = f * s /\ f \in Int
  BY <1>6, <1>12, <1>13, MultipleOf
<1>15. PICK n : n = f - m
  OBVIOUS
<1>16. n \in Int /\ e - m * s = o + n * s
  BY <1>6, <1>8, <1>12, <1>14, <1>15
<1>17. 0 <= a /\ a <= n
  BY <1>3, <1>5, <1>9, <1>11, <1>16, SnapStaysInside
<1>18. 0 <= p /\ p + u <= f
  BY <1>5, <1>6, <1>7, <1>8, <1>14, <1>15, <1>17
<1>19. 0 * s <= p * s
  BY <1>6, <1>18, CommonFactor
<1>20. (p + u) * s <= f * s
  <2>1. p + u \in Int
    BY <1>6
  <2>. QED  BY <1>6, <1>14, <1>18, <2>1, CommonFactor
<1>21. (p + u) * s = p * s + u * s /\ p * s \in Int /\ u * s \in Int /\ 0 * s = 0
  BY <1>6
<1>. QED  BY <1>2, <1>3, <1>6, <1>12, <1>14, <1>19, <1>20, <1>21

\* determinePosition writes a legal placement of its row.
LEMMA RowWritten ==
  ASSUME OnSites, BaseInv, AccountingInv, GoodInv, PackedInv,
         NEW r \in Rows, DeterminePosition(r)
  PROVE  RowLegal(r)'
<1>1. /\ phase = "write" /\ nextRow = r /\ cell' = cell /\ row_index' = row_index
      /\ row_density_map' = row_density_map
  BY DEF DeterminePosition, input
<1>2. PICK S : S = MembersOf(r)
  OBVIOUS
<1>3. S = CellsOf(r) /\ CellsOf(r)' = S /\ S \in SUBSET Cells
  BY <1>1, <1>2, MembersAreCells DEF CellsOf
<1>4. \A c \in S : def_data'[c] = [x |-> WrittenX(r, c), y |-> RowY[r], written |-> TRUE]
  BY <1>2, <1>3 DEF DeterminePosition
<1>5. ASSUME NEW c \in S
      PROVE  (WrittenX(r, c) - MinX[r]) % SiteWidth = 0
  <2>1. PICK p : p \in Int /\ WrittenX(r, c) = MinX[r] + p * SiteWidth
    BY <1>1, <1>2, WrittenOnSite
  <2>2. MinX[r] \in Int /\ SiteWidth \in Int /\ SiteWidth > 0
    BY RowsAssumption
  <2>3. WrittenX(r, c) - MinX[r] = p * SiteWidth
    BY <2>1, <2>2
  <2>. QED  BY <2>1, <2>2, <2>3, MultipleOf
<1>6. ASSUME NEW c \in S, row_density_map[r] <= MaxX[r] - MinX[r]
      PROVE  WrittenX(r, c) >= MinX[r] /\ WrittenX(r, c) + cell[c].width <= MaxX[r]
  BY <1>1, <1>2, <1>6, WrittenInside
<1>7. ASSUME NEW c \in S, NEW d \in S, c # d
      PROVE  \/ WrittenX(r, c) + cell[c].width <= WrittenX(r, d)
             \/ WrittenX(r, d) + cell[d].width <= WrittenX(r, c)
  <2>1. Packed(r, clusters[r])
    BY <1>1 DEF PackedInv, Rows
  <2>. QED  BY <1>1, <1>2, <1>7, <2>1, WrittenApart
<1>8. \A c \in S : /\ def_data'[c].x = WrittenX(r, c) /\ def_data'[c].y = RowY[r]
                   /\ def_data'[c].written
  <2>. SUFFICES ASSUME NEW c \in S
                PROVE  /\ def_data'[c].x = WrittenX(r, c) /\ def_data'[c].y = RowY[r]
                       /\ def_data'[c].written
    OBVIOUS
  <2>1. PICK x, d : x = WrittenX(r, c) /\ d = def_data'[c]
    OBVIOUS
  <2>2. d = [x |-> x, y |-> RowY[r], written |-> TRUE]
    BY <1>4, <2>1
  <2>3. d.x = x /\ d.y = RowY[r] /\ d.written
    BY <2>2
  <2>. QED  BY <2>1, <2>3
<1>9. ASSUME NEW c \in S
      PROVE  /\ (def_data'[c].x - MinX[r]) % SiteWidth = 0
             /\ row_density_map[r] <= MaxX[r] - MinX[r] =>
                  /\ def_data'[c].x >= MinX[r]
                  /\ def_data'[c].x + cell[c].width <= MaxX[r]
  BY <1>5, <1>6, <1>8
<1>10. ASSUME NEW c \in S, NEW d \in S, c # d
       PROVE  \/ def_data'[c].x + cell[c].width <= def_data'[d].x
              \/ def_data'[d].x + cell[d].width <= def_data'[c].x
  BY <1>7, <1>8, <1>10
<1>. QED  BY <1>1, <1>3, <1>8, <1>9, <1>10 DEF RowLegal

\* A row stays as it was written.
LEMMA RowStays ==
  ASSUME BaseInv, GoodInv, NEW r \in Rows, RowLegal(r), NEW s \in Rows, r # s,
         DeterminePosition(s)
  PROVE  RowLegal(r)'
<1>1. /\ phase = "write" /\ cell' = cell /\ row_index' = row_index
      /\ row_density_map' = row_density_map
  BY DEF DeterminePosition, input
<1>2. CellsOf(r)' = CellsOf(r)
  BY <1>1 DEF CellsOf
<1>3. \A c \in CellsOf(r) : c \in Cells /\ c \notin MembersOf(s)
  <2>1. MembersOf(s) = CellsOf(s)
    BY <1>1, MembersAreCells
  <2>. QED  BY <2>1 DEF CellsOf
<1>4. \A c \in CellsOf(r) : def_data'[c] = def_data[c]
  BY <1>3 DEF DeterminePosition
<1>. QED  BY <1>1, <1>2, <1>4 DEF RowLegal

\* Every step leaves the rows in front of nextRow legal.
LEMMA NextLegal ==
  ASSUME OnSites, BaseInv, BaseInv', AccountingInv, GoodInv, PackedInv, LegalInv, [Next]_vars
  PROVE  LegalInv'
<1>. SUFFICES ASSUME NEW r \in Rows, r < nextRow'
              PROVE  RowLegal(r)'
  BY DEF LegalInv
<1>1. phase' \notin {"read", "place"}
  <2>. SUFFICES nextRow' # 0
    BY DEF BaseInv, Phases
  <2>. QED  BY DEF Rows
<1>2. CASE UNCHANGED vars
  <2>1. RowLegal(r)
    BY <1>2 DEF LegalInv, vars
  <2>. QED  BY <1>2, <2>1 DEF RowLegal, CellsOf, vars
<1>3. CASE \E s \in Rows : DeterminePosition(s)
  <2>1. PICK s \in Rows : DeterminePosition(s)
    BY <1>3
  <2>2. nextRow = s /\ nextRow' = s + 1
    BY <2>1 DEF DeterminePosition
  <2>3. r = s \/ r < s
    BY <2>2 DEF Rows
  <2>4. r < s => RowLegal(r)
    BY <2>2 DEF LegalInv
  <2>5. r < s => r # s
    BY DEF Rows
  <2>. QED  BY <2>1, <2>3, <2>4, <2>5, RowWritten, RowStays
<1>4. ASSUME \/ \E c \in Cells, i \in CellInputs, s \in Rows : ReadCell(c, i, s)
             \/ SetRowHeights
             \/ \E c \in Cells : PlaceCell(c)
      PROVE  FALSE
  <2>1. nextRow' = nextRow /\ phase \in {"read", "place"}
    BY <1>4 DEF ReadCell, SetRowHeights, PlaceCell
  <2>2. nextRow = 0
    BY <2>1 DEF BaseInv, Phases
  <2>. QED  BY <2>1, <2>2 DEF Rows
<1>. QED  BY <1>2, <1>3, <1>4 DEF Next, Stop

\* LegalInv says it all when the last row is written.
LEMMA LegalAtTheEnd ==
  BaseInv /\ LegalInv => LegalResult
<1>. SUFFICES ASSUME BaseInv, LegalInv, phase = "done"
              PROVE  LegalResult
  BY DEF LegalResult
<1>1. \A c \in Cells : row_index[c] \in Rows /\ RowLegal(row_index[c]) /\ c \in CellsOf(row_index[c])
  <2>1. nextRow = NumRows /\ NumRows \in Int
    BY RowsAssumption DEF BaseInv, Phases
  <2>2. \A r \in Rows : RowLegal(r)
    BY <2>1 DEF LegalInv, Rows
  <2>. QED  BY <2>2 DEF BaseInv, Phases, CellsOf
<1>2. \A c, d \in Cells : row_index[c] = row_index[d] => d \in CellsOf(row_index[c])
  BY DEF CellsOf
<1>. QED  BY <1>1, <1>2 DEF LegalResult, RowLegal

(***************************************************************************)
(* The result: every cell is written out on a site of its row, no two      *)
(* cells of a row overlap, and a row that is wide enough for its cells has *)
(* them all inside (placeRowFinal and determinePosition together).         *)
(***************************************************************************)
THEOREM ResultIsLegal ==
  ASSUME OnSites
  PROVE  Spec => []LegalResult
<1>1. Init => LegalInv
  BY DEF Init, LegalInv, Rows
<1>2. /\ BaseInv /\ BaseInv' /\ AccountingInv /\ GoodInv /\ PackedInv /\ LegalInv /\ [Next]_vars
      => LegalInv'
  BY NextLegal
<1>3. Spec => []AccountingInv
  BY BaseAlways, InitAccounts, NextAccounts, PTL DEF Spec
<1>. QED  BY <1>1, <1>2, <1>3, BaseAlways, RowsHoldTheirCells, LegalAtTheEnd, PTL DEF Spec
=============================================================================
