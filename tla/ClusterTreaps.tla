---------------------------- MODULE ClusterTreaps ----------------------------
(***************************************************************************)
(* How the new solver keeps the clusters of a row (treapnode and treaps of *)
(* src/src/new_dpsolver.cpp): a cluster is a treap of its gates, found by  *)
(* climbing from any of them to the root.  A node stores sums over its     *)
(* subtree, which pushup renews from those of its children.                *)
(*                                                                         *)
(* RowClusters is what the trees stand for.  A trial (try_placeat) merges  *)
(* the gate into the trees and takes it out again.  Abstractions: weight_e *)
(* is 1, so sum_e is size; the sums that only the cost of a trial reads    *)
(* are left out, since nothing uses that cost.                             *)
(***************************************************************************)
EXTENDS RowGates, Sequences, TLC

CONSTANT Priorities    \* the rand_val the nodes may have

\* The placement that is read lies on the die, whose end is max_x_length.
ASSUME DieAssumption ==
  /\ Positions \subseteq [Cells -> 0 .. max_x_length]
  /\ Widths \subseteq Nat \ {0}

VARIABLE node  \* the treapnode of each gate; 0 is the null pointer

vars == <<stage, original_x, width, nodes, current, flag, x, node>>

Null == [ls |-> 0, rs |-> 0, father |-> 0, rand_val |-> 0, size |-> 0,
         sum_ex |-> 0, sum_w |-> 0, time_e_w |-> 0]

-----------------------------------------------------------------------------
(***************************************************************************)
(* The trees.  h is the heap: a node for each gate, and the null node.     *)
(***************************************************************************)

RECURSIVE InOrder(_, _)
InOrder(h, r) ==
  IF r = 0 THEN <<>> ELSE InOrder(h, h[r].ls) \o <<r>> \o InOrder(h, h[r].rs)

Members(h, r) == {InOrder(h, r)[i] : i \in DOMAIN InOrder(h, r)}

Clusters == {Members(node, r) : r \in {n \in nodes : node[n].father = 0}}

\* The row the trees stand for.
Row == INSTANCE RowClusters WITH clusters <- Clusters

\* Mutant: the gates to the right are shifted by the node, not by its left.
SummedNarrow(h, r, w) ==
  LET l == h[h[r].ls]
      rr == h[h[r].rs]
  IN [h[r] EXCEPT
        !.father = 0,
        !.size = 1 + l.size + rr.size,
        !.sum_ex = original_x[r] + l.sum_ex + rr.sum_ex,
        !.sum_w = w + l.sum_w + rr.sum_w,
        !.time_e_w = l.time_e_w + l.sum_w + rr.time_e_w + rr.size * w]

Summed(h, r, w) ==
  LET l == h[h[r].ls]
      rr == h[h[r].rs]
      upTo == w + l.sum_w
  IN [h[r] EXCEPT
        !.father = 0,
        !.size = 1 + l.size + rr.size,
        !.sum_ex = original_x[r] + l.sum_ex + rr.sum_ex,
        !.sum_w = upTo + rr.sum_w,
        !.time_e_w = l.time_e_w + l.sum_w + rr.time_e_w + rr.size * upTo]

\* w is the width of r.
PushupOf(h, r, w) ==
  LET sons == {h[r].ls, h[r].rs} \ {0}
  IN (r :> Summed(h, r, w)) @@ [n \in sons |-> [h[n] EXCEPT !.father = r]] @@ h

Pushup(h, r) == PushupOf(h, r, width[r])

RECURSIVE GetRoot(_, _)
GetRoot(h, r) == IF h[r].father = 0 THEN r ELSE GetRoot(h, h[r].father)

RECURSIVE MostL(_, _)
MostL(h, r) == IF h[r].ls = 0 THEN r ELSE MostL(h, h[r].ls)

RECURSIVE MostR(_, _)
MostR(h, r) == IF h[r].rs = 0 THEN r ELSE MostR(h, h[r].rs)

\* getrank: the gates of r that are not behind t.
RECURSIVE Getrank(_, _, _)
Getrank(h, r, t) ==
  IF r = 0 THEN 0
  ELSE IF r = t \/ Before(r, t) THEN h[h[r].ls].size + 1 + Getrank(h, h[r].rs, t)
  ELSE Getrank(h, h[r].ls, t)

RECURSIVE Merge(_, _, _)
Merge(h, a, b) ==
  IF a = 0 \/ b = 0
  THEN IF a = b THEN [h |-> h, root |-> 0]
       ELSE [h |-> Pushup(h, a + b), root |-> a + b]
  ELSE IF h[a].rand_val < h[b].rand_val
  THEN LET m == Merge(h, h[a].rs, b)
       IN [h |-> Pushup([m.h EXCEPT ![a].rs = m.root], a), root |-> a]
  ELSE LET m == Merge(h, a, h[b].ls)
       IN [h |-> Pushup([m.h EXCEPT ![b].ls = m.root], b), root |-> b]

\* The first k gates of r, and the others.
RECURSIVE Split(_, _, _)
Split(h, r, k) ==
  IF r = 0 THEN [h |-> h, rt1 |-> 0, rt2 |-> 0]
  ELSE IF k <= h[h[r].ls].size
  THEN LET s == Split(h, h[r].ls, k)
       IN [h |-> Pushup([s.h EXCEPT ![r].ls = s.rt2], r), rt1 |-> s.rt1, rt2 |-> r]
  ELSE LET s == Split(h, h[r].rs, k - h[h[r].ls].size - 1)
       IN [h |-> Pushup([s.h EXCEPT ![r].rs = s.rt1], r), rt1 |-> r, rt2 |-> s.rt2]

\* The tree of a gate or a cluster between the parts of tree r around gate n.
Joined(h, r, root, n) ==
  LET s == Split(h, r, Getrank(h, r, n))
      m == Merge(s.h, s.rt1, root)
  IN Merge(m.h, m.root, s.rt2)

-----------------------------------------------------------------------------
(***************************************************************************)
(* treaps::nodes, an ordered set                                           *)
(***************************************************************************)

Behind(n) == {m \in nodes : Before(n, m)}

Ahead(n) == {m \in nodes : Before(m, n)}

\* What lies before a cell_id made with the id 0.
AheadOfKey(n) == {m \in nodes : BeforeKey(m, n)}

First(S) == CHOOSE m \in S : \A k \in S : k = m \/ Before(m, k)

Last(S) == CHOOSE m \in S : \A k \in S : k = m \/ Before(k, m)

-----------------------------------------------------------------------------
FreshNode(w, rand, n) ==
  [Null EXCEPT !.rand_val = rand, !.size = 1, !.sum_ex = original_x[n], !.sum_w = w]

Init ==
  /\ stage = "idle"
  /\ original_x \in Positions
  /\ nodes = {}
  /\ current = 0
  /\ flag = FALSE
  /\ x = [n \in {} |-> 0]
  /\ width \in [Cells -> Widths]
  /\ \E rand \in Priorities :
       node = [n \in Cells \cup {0} |->
                 IF n = 0 THEN Null ELSE FreshNode(width[n], rand[n], n)]

Bind(n, w) ==
  /\ stage = "idle"
  /\ n \notin nodes
  /\ width' = [width EXCEPT ![n] = w]
  /\ node' = PushupOf(node, n, w)
  /\ UNCHANGED <<stage, original_x, nodes, current, flag, x>>

-----------------------------------------------------------------------------
(***************************************************************************)
(* try_placeat.  Here positions are not truncated: x1 is Sum / size.       *)
(***************************************************************************)

Sum(h, r) == h[r].sum_ex - h[r].time_e_w

\* Cluster a, without truncation, reaches the start of cluster b.
Reaches(h, a, b) ==
  Sum(h, b) * h[a].size <= (Sum(h, a) + h[a].sum_w * h[a].size) * h[b].size

\* The neighbour on the other side is merged for its cost and split off.
MergedAndSplit(h, a, b) ==
  LET m == Merge(h, a, b) IN Split(m.h, m.root, h[a].size).h

\* Mutant: what was behind the gate is not put back.
TakenOutShort(h, r, k) ==
  LET s == Split(h, r, k) IN Split(s.h, s.rt2, 1).h

\* The gate, the (k + 1)-st of tree r, is taken out of it.
TakenOut(h, r, k) ==
  LET s == Split(h, r, k)
      t == Split(s.h, s.rt2, 1)
  IN Merge(t.h, s.rt1, t.rt2).h

TryRight(h, n) ==
  IF Behind(n) = {} THEN h ELSE
    LET rightroot == GetRoot(h, First(Behind(n)))
        hit == Sum(h, rightroot) <= (original_x[n] + width[n]) * h[rightroot].size
        j == IF hit THEN Joined(h, rightroot, n, n) ELSE [h |-> h, root |-> n]
        leftroot == GetRoot(j.h, Last(Ahead(n)))
        both == Ahead(n) # {} /\ leftroot # j.root /\ Reaches(j.h, leftroot, j.root)
        b == IF both THEN MergedAndSplit(j.h, leftroot, j.root) ELSE j.h
    IN IF hit THEN TakenOut(b, GetRoot(b, n), Getrank(h, rightroot, n)) ELSE b

TryLeft(h, n) ==
  IF Ahead(n) = {} THEN h ELSE
    LET leftroot == GetRoot(h, Last(Ahead(n)))
        hit == Sum(h, leftroot) + h[leftroot].sum_w * h[leftroot].size
                 >= original_x[n] * h[leftroot].size
        j == IF hit THEN Joined(h, leftroot, n, n) ELSE [h |-> h, root |-> n]
        rightroot == GetRoot(j.h, First(Behind(n)))
        both == Behind(n) # {} /\ rightroot # j.root /\ Reaches(j.h, j.root, rightroot)
        b == IF both THEN MergedAndSplit(j.h, j.root, rightroot) ELSE j.h
    IN IF hit THEN TakenOut(b, GetRoot(b, n), Getrank(h, leftroot, n)) ELSE b

TryPlaceAt(n) ==
  /\ stage = "idle"
  /\ n \notin nodes
  /\ HasRoom(n)
  /\ node' = TryLeft(TryRight(node, n), n)
  /\ UNCHANGED <<stage, original_x, width, nodes, current, flag, x>>

-----------------------------------------------------------------------------
(***************************************************************************)
(* do_placeat                                                              *)
(***************************************************************************)

Insert(n) ==
  /\ stage = "idle"
  /\ n \notin nodes
  /\ HasRoom(n)
  /\ nodes' = nodes \cup {n}
  /\ current' = n
  /\ flag' = FALSE
  /\ stage' = "right"
  /\ UNCHANGED <<original_x, width, x, node>>

X1(r) == Truncated(Sum(node, r), node[r].size)

\* Mutants: the clusters are compared where they want to be; a cluster
\* reaches out for as much as its neighbour is wide.
TouchesUnclamped(a, b) == X1(b) <= X1(a) + node[a].sum_w + 1

TouchesFromAfar(a, b) ==
  AtMostEnd(X1(b), node[b].sum_w)
    <= AtLeast0(X1(a)) + node[a].sum_w + node[b].sum_w

Touches(a, b) ==
  AtMostEnd(X1(b), node[b].sum_w) <= AtLeast0(X1(a)) + node[a].sum_w + 1

Right ==
  LET root == GetRoot(node, current)
      next == Behind(MostR(node, root))
      rightroot == GetRoot(node, First(next))
      near == next # {} /\ Touches(root, rightroot)
  IN /\ stage = "right"
     /\ node' = IF near THEN Joined(node, rightroot, root, current).h ELSE node
     /\ flag' = near
     /\ stage' = "left"
     /\ UNCHANGED <<original_x, width, nodes, current, x>>

Left ==
  LET root == GetRoot(node, current)
      next == AheadOfKey(MostL(node, root))
      leftroot == GetRoot(node, Last(next))
      near == next # {} /\ Touches(leftroot, root)
      again == flag \/ near
  IN /\ stage = "left"
     /\ node' = IF near THEN Joined(node, leftroot, root, current).h ELSE node
     /\ stage' = IF again THEN "right" ELSE "idle"
     /\ current' = IF again THEN current ELSE 0
     /\ flag' = FALSE
     /\ UNCHANGED <<original_x, width, nodes, x>>

-----------------------------------------------------------------------------
(***************************************************************************)
(* The end of a pass                                                       *)
(***************************************************************************)

EndPass ==
  /\ stage = "idle"
  /\ nodes # {}
  /\ stage' = "write"
  /\ UNCHANGED <<original_x, width, nodes, current, flag, x, node>>

\* The tree is split behind the gate to get the sum of the widths so far.
Write(n) ==
  LET root == GetRoot(node, n)
      s == Split(node, root, Getrank(node, root, n))
      start == AtMostEnd(AtLeast0(X1(root)), node[root].sum_w)
  IN /\ stage = "write"
     /\ n \in nodes \ DOMAIN x
     /\ x' = [m \in DOMAIN x \cup {n} |->
                IF m = n THEN start + s.h[s.rt1].sum_w - width[n] ELSE x[m]]
     /\ node' = Merge(s.h, s.rt1, s.rt2).h
     /\ UNCHANGED <<stage, original_x, width, nodes, current, flag>>

\* Every node is made anew, with the cell and the place of its gate.
NewPass ==
  /\ stage = "write"
  /\ DOMAIN x = nodes
  /\ stage' = "idle"
  /\ nodes' = {}
  /\ x' = [n \in {} |-> 0]
  /\ \E rand \in Priorities :
       node' = [n \in DOMAIN node |->
                  IF n = 0 THEN Null ELSE FreshNode(width[n], rand[n], n)]
  /\ UNCHANGED <<original_x, width, current, flag>>

Next ==
  \/ \E n \in Cells, w \in Widths : Bind(n, w)
  \/ \E n \in Cells : TryPlaceAt(n)
  \/ \E n \in Cells : Insert(n)
  \/ Right
  \/ Left
  \/ EndPass
  \/ \E n \in Cells : Write(n)
  \/ NewPass

Spec == Init /\ [][Next]_vars

-----------------------------------------------------------------------------
(***************************************************************************)
(* Properties                                                              *)
(***************************************************************************)

(***************************************************************************)
(* The sums a node stores are those of the gates of its subtree, at any    *)
(* depth and after any splitting and merging: pushup has been called for   *)
(* every node below which something changed, children first.               *)
(***************************************************************************)
SumsExact ==
  \A r \in nodes :
    LET S == Members(node, r)
    IN /\ node[r].size = Cardinality(S)
       /\ node[r].sum_w = SumW(S)
       /\ node[r].sum_ex = MapThenSumSet(LAMBDA n : original_x[n], S)
       /\ node[r].time_e_w = MapThenSumSet(LAMBDA n : Prefix(S, n), S)

(***************************************************************************)
(* The trees implement the clusters of RowClusters.  In particular a trial *)
(* leaves every cluster as it was, and so does the writing of a position,  *)
(* which takes a tree apart too.                                           *)
(***************************************************************************)
ImplementsRow == Row!Spec
================================================================================
