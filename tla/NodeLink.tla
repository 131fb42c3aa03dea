------------------------------ MODULE NodeLink ------------------------------
(***************************************************************************)
(* graph.json: what the exporter writes of a graph                         *)
(* (crates/habitat-graph-export/src/json.rs) and what the serve layer      *)
(* reads back (crates/habitat-graph-serve/src/load.rs).                    *)
(*                                                                         *)
(* A graph is [nodes, edges, communities]: sequences of                    *)
(* [id, label, file], [source, target, relation] and [id, members].  The   *)
(* file has no list of communities: each node names its own.  Relations    *)
(* are numbered in the order of their names; a community's label is made   *)
(* from its id and left out, as are places, confidences and escaping.      *)
(***************************************************************************)
EXTENDS Integers, Sequences, SequencesExt, FiniteSets

NoCommunity == -1

(* to_node_link.  A node of several communities is written with the last.  *)
Community(graph, id) ==
  LET of == {i \in DOMAIN graph.communities :
               id \in ToSet(graph.communities[i].members)}
  IN  IF of = {} THEN NoCommunity
      ELSE graph.communities[CHOOSE i \in of : \A j \in of : j <= i].id

to_node_link(graph) ==
  [nodes |-> [i \in DOMAIN graph.nodes |->
                [id |-> graph.nodes[i].id, label |-> graph.nodes[i].label,
                 file |-> graph.nodes[i].file,
                 community |-> Community(graph, graph.nodes[i].id)]],
   links |-> graph.edges]

(* The order of edges: by source, target and relation.                     *)
EdgeBefore(e, f) ==
  \/ e.source < f.source
  \/ e.source = f.source /\ e.target < f.target
  \/ e.source = f.source /\ e.target = f.target /\ e.relation < f.relation

(* parse_node, without the community.                                      *)
Parsed(node) == [id |-> node.id, label |-> node.label, file |-> node.file]

(* The elements of S in a strict order.                                    *)
Sorted(S, Before(_, _)) ==
  [i \in 1..Cardinality(S) |->
     CHOOSE x \in S : Cardinality({y \in S : Before(y, x)}) = i - 1]
Ascending(S) == Sorted(S, LAMBDA i, j : i < j)
ByIds(S) == Sorted(S, LAMBDA m, n : m.id < n.id)

(* from_node_link: nodes, links and communities come back in order.        *)
from_node_link(file) ==
  LET read == {Parsed(node) : node \in ToSet(file.nodes)}
      named == {node.community : node \in ToSet(file.nodes)} \ {NoCommunity}
      members(c) == {node.id : node \in
                       {n \in ToSet(file.nodes) : n.community = c}}
      order == Ascending(named)
  IN  [nodes |-> ByIds(read),
       edges |-> Sorted(ToSet(file.links), EdgeBefore),
       communities |-> [i \in DOMAIN order |->
                          [id |-> order[i],
                           members |-> Ascending(members(order[i]))]]]
=============================================================================
