----------------------------- MODULE RowClusters -----------------------------
(***************************************************************************)
(* What the treaps of the new solver promise (class treaps of              *)
(* src/src/new_dpsolver.cpp): the gates of one row, grouped in clusters of *)
(* gates that touch.  A gate that is placed becomes a cluster of its own,  *)
(* which then takes in the cluster to its right and the one to its left as *)
(* long as one of them is too near.  When a pass has ended every gate gets *)
(* its x position from its cluster.                                        *)
(*                                                                         *)
(* One step is a search for a neighbour with the merging that follows; a   *)
(* trial of a gate in a row (try_placeat) changes nothing and is no step.  *)
(* ClusterTreaps has the trees.  Abstraction: weight_e is 1.               *)
(***************************************************************************)
EXTENDS RowGates

VARIABLE clusters  \* the clusters, as sets of gates

vars == <<stage, original_x, width, nodes, clusters, current, flag, x>>

Init ==
  /\ stage = "idle"
  /\ original_x \in Positions
  /\ width \in [Cells -> Widths]
  /\ nodes = {}
  /\ clusters = {}
  /\ current = 0
  /\ flag = FALSE
  /\ x = [n \in {} |-> 0]

-----------------------------------------------------------------------------
(***************************************************************************)
(* The place of a cluster                                                  *)
(***************************************************************************)

\* calculate_x1: where the cluster has the least squared displacement.
X1(c) ==
  Truncated(MapThenSumSet(LAMBDA n : original_x[n] - Prefix(c, n), c),
            Cardinality(c))

Start(c) == AtMostEnd(AtLeast0(X1(c)), SumW(c))

\* d, to the right of c, is too near.  Each is moved one way only.
Touches(c, d) ==
  AtMostEnd(X1(d), SumW(d)) <= AtLeast0(X1(c)) + SumW(c) + 1

-----------------------------------------------------------------------------
(***************************************************************************)
(* do_placeat                                                              *)
(***************************************************************************)

\* The candidate is exchanged before the gate is tried in any row.
Bind(n, w) ==
  /\ stage = "idle"
  /\ n \notin nodes
  /\ width' = [width EXCEPT ![n] = w]
  /\ UNCHANGED <<stage, original_x, nodes, clusters, current, flag, x>>

Insert(n) ==
  /\ stage = "idle"
  /\ n \notin nodes
  /\ HasRoom(n)
  /\ nodes' = nodes \cup {n}
  /\ clusters' = clusters \cup {{n}}
  /\ current' = n
  /\ flag' = FALSE
  /\ stage' = "right"
  /\ UNCHANGED <<original_x, width, x>>

IsRoot(c) == c \in clusters /\ current \in c

\* The cluster of the first gate after the last one of c.
IsRightOf(d, c) ==
  /\ d \in clusters
  /\ \E n \in d :
       /\ \A m \in c : Before(m, n)
       /\ \A m \in nodes : Before(m, n) => \E k \in c : m = k \/ Before(m, k)

\* The cluster of the last gate before the first one of c; a gate with the x
\* and the width of that one is passed over.
IsLeftOf(d, c) ==
  /\ d \in clusters
  /\ \E n \in d, first \in c :
       /\ \A m \in c : m = first \/ Before(first, m)
       /\ BeforeKey(n, first)
       /\ \A m \in nodes : BeforeKey(m, first) => m = n \/ Before(m, n)

Join(c, d) == clusters' = (clusters \ {c, d}) \cup {c \cup d}

MergeRight ==
  /\ stage = "right"
  /\ \E c, d \in clusters :
       IsRoot(c) /\ IsRightOf(d, c) /\ Touches(c, d) /\ Join(c, d)
  /\ flag' = TRUE
  /\ stage' = "left"
  /\ UNCHANGED <<original_x, width, nodes, current, x>>

PassRight ==
  /\ stage = "right"
  /\ \A c, d \in clusters : ~(IsRoot(c) /\ IsRightOf(d, c) /\ Touches(c, d))
  /\ stage' = "left"
  /\ UNCHANGED <<original_x, width, nodes, clusters, current, flag, x>>

\* The loop goes on as long as a round has merged something.
NextRound(merged) ==
  /\ stage' = IF merged THEN "right" ELSE "idle"
  /\ current' = IF merged THEN current ELSE 0
  /\ flag' = FALSE

MergeLeft ==
  /\ stage = "left"
  /\ \E c, d \in clusters :
       IsRoot(c) /\ IsLeftOf(d, c) /\ Touches(d, c) /\ Join(c, d)
  /\ NextRound(TRUE)
  /\ UNCHANGED <<original_x, width, nodes, x>>

PassLeft ==
  /\ stage = "left"
  /\ \A c, d \in clusters : ~(IsRoot(c) /\ IsLeftOf(d, c) /\ Touches(d, c))
  /\ NextRound(flag)
  /\ UNCHANGED <<original_x, width, nodes, clusters, x>>

-----------------------------------------------------------------------------
(***************************************************************************)
(* The end of a pass: writing the positions, and the start of another one  *)
(***************************************************************************)

EndPass ==
  /\ stage = "idle"
  /\ nodes # {}
  /\ stage' = "write"
  /\ UNCHANGED <<original_x, width, nodes, clusters, current, flag, x>>

Write(n) ==
  /\ stage = "write"
  /\ n \in nodes \ DOMAIN x
  /\ \E c \in clusters :
       /\ n \in c
       /\ x' = [m \in DOMAIN x \cup {n} |->
                  IF m = n THEN Start(c) + Prefix(c, n) ELSE x[m]]
  /\ UNCHANGED <<stage, original_x, width, nodes, clusters, current, flag>>

NewPass ==
  /\ stage = "write"
  /\ DOMAIN x = nodes
  /\ stage' = "idle"
  /\ nodes' = {}
  /\ clusters' = {}
  /\ x' = [n \in {} |-> 0]
  /\ UNCHANGED <<original_x, width, current, flag>>

Next ==
  \/ \E n \in Cells, w \in Widths : Bind(n, w)
  \/ \E n \in Cells : Insert(n)
  \/ MergeRight
  \/ PassRight
  \/ MergeLeft
  \/ PassLeft
  \/ EndPass
  \/ \E n \in Cells : Write(n)
  \/ NewPass

Spec == Init /\ [][Next]_vars

===============================================================================
