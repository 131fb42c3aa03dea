---------------------------- MODULE MergeDriver -----------------------------
(***************************************************************************)
(* merge3, the three-way merge behind git's merge driver for graph.json,   *)
(* between reading the three files (from_node_link) and writing the result *)
(* (to_node_link).                                                         *)
(*                                                                         *)
(* A file holds a graph and, for each node, the number of its community or *)
(* None.  Ids serve to look labels up within one graph; content_id is      *)
(* taken to be injective, so edges and members are given by labels.  An    *)
(* edge's relation and confidence, a node's line and the manifest (empty   *)
(* after reading) are left out.                                            *)
(***************************************************************************)
EXTENDS GraphBuild

(* A node-link file: only its nodes have communities.                      *)
File == [nodes : SUBSET Node, edges : SUBSET LabelPair,
         comm : [Label -> Nat \cup {None}]]
IsFile(f) == f \in File /\ \A l \in Label \ Labels(f) : f.comm[l] = None

(* What is new in ours or theirs stays; what base has stays if both kept it *)
KeptUnlessOurs(base, ours, theirs) ==   \* a mutant: deletions by theirs are lost
  {x \in ours \cup theirs : x \notin base \/ x \in ours}
Kept(base, ours, theirs) ==
  {x \in ours \cup theirs : x \notin base \/ x \in ours \cap theirs}

KeptLabels(base, ours, theirs) == Kept(Labels(base), Labels(ours), Labels(theirs))

(* Mutant: nodes that only theirs has are forgotten.                       *)
OursNodes(base, ours, theirs) ==
  {n \in ours.nodes : n.label \in KeptLabels(base, ours, theirs)}

(* A label of both keeps the node of ours.                                 *)
WinningNodes(base, ours, theirs) ==
  {n \in ours.nodes \cup {m \in theirs.nodes : m.label \notin Labels(ours)} :
     n.label \in KeptLabels(base, ours, theirs)}

EdgeKeys(g) == {e \in g.edges : Within(e, Labels(g))}

(* Mutant: the ends of a kept edge are not looked up among the survivors.  *)
AllKeptEdges(base, ours, theirs) ==
  Kept(EdgeKeys(base), EdgeKeys(ours), EdgeKeys(theirs))

MergedEdges(base, ours, theirs) ==
  {e \in Kept(EdgeKeys(base), EdgeKeys(ours), EdgeKeys(theirs)) :
     Within(e, KeptLabels(base, ours, theirs))}
-----------------------------------------------------------------------------
(***************************************************************************)
(* Communities.  Reading labels community i "community-i", so a community  *)
(* is identified with its number; the merge numbers the kept ones anew,    *)
(* those of ours before those that only theirs has.                        *)
(***************************************************************************)
Communities(f) == {f.comm[l] : l \in Labels(f)} \ {None}

KeptCommunities(base, ours, theirs) ==
  Kept(Communities(base), Communities(ours), Communities(theirs))

(* The members that survive, from ours if ours has the community.          *)
Members(c, base, ours, theirs) ==
  LET from == IF c \in Communities(ours) THEN ours ELSE theirs IN
  {l \in Labels(from) \cap KeptLabels(base, ours, theirs) : from.comm[l] = c}

NewNumber(c, base, ours, theirs) ==
  LET Precedes(d) == IF d \in Communities(ours)
                     THEN c \in Communities(ours) => d < c
                     ELSE c \notin Communities(ours) /\ d < c
  IN Cardinality({d \in KeptCommunities(base, ours, theirs) : Precedes(d)})

(* Writing: a node in several communities is given the last.               *)
WrittenCommunity(l, base, ours, theirs) ==
  LET of == {NewNumber(c, base, ours, theirs) :
               c \in {d \in KeptCommunities(base, ours, theirs) :
                        l \in Members(d, base, ours, theirs)}}
  IN IF of = {} THEN None ELSE CHOOSE i \in of : \A j \in of : j <= i

Merge3(base, ours, theirs) ==
  [nodes |-> WinningNodes(base, ours, theirs),
   edges |-> MergedEdges(base, ours, theirs),
   comm  |-> [l \in Label |-> WrittenCommunity(l, base, ours, theirs)]]
=============================================================================
