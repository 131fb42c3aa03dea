----------------------------- MODULE GraphBuild -----------------------------
(***************************************************************************)
(* The graph construction operators of crates/habitat-graph-build, as the  *)
(* update command uses them: assemble (per-file extractions to one graph), *)
(* merge (two graphs to one) and the update command's prune_graph.         *)
(*                                                                         *)
(* A file's text is a member of Content; all that matters of it is the set *)
(* of labels it declares (an extraction's nodes) and the set of label      *)
(* pairs it relates (an extraction's edges).  Spans, relation names and    *)
(* confidences are left out.  content_id is taken to be injective here, so *)
(* a node is identified by its label and an edge by its two labels; what   *)
(* the probing of colliding ids does is a matter for another module.       *)
(***************************************************************************)
EXTENDS Naturals, FiniteSets

CONSTANTS
  Path,     \* the files' paths, as numbers: detect lists them in this order
  Label,    \* the node labels
  Content,  \* the texts a file can have
  Decl,     \* Decl[c]: the labels text c declares
  Ref,      \* Ref[c]: the label pairs text c relates
  None      \* no file, no artifact, nothing read yet

LabelPair == [src : Label, tgt : Label]

ASSUME PathAssumption == Path \subseteq Nat
ASSUME TextAssumption ==
  /\ None \notin Content
  /\ Decl \in [Content -> SUBSET Label]
  /\ Ref \in [Content -> SUBSET LabelPair]

(***************************************************************************)
(* A build is the text read for each path, None where nothing was read: a  *)
(* list of extractions, or the inputs of a manifest.                       *)
(***************************************************************************)
Build == [Path -> Content \cup {None}]
NothingRead == [p \in Path |-> None]

DeclaredBy(b, p) == IF b[p] = None THEN {} ELSE Decl[b[p]]
RelatedBy(b, p)  == IF b[p] = None THEN {} ELSE Ref[b[p]]
Declared(b) == UNION {DeclaredBy(b, p) : p \in Path}
Related(b)  == UNION {RelatedBy(b, p) : p \in Path}

Node  == [label : Label, file : Path]
Graph == [nodes : SUBSET Node, edges : SUBSET LabelPair]
EmptyGraph == [nodes |-> {}, edges |-> {}]

Labels(g) == {n.label : n \in g.nodes}
Within(e, ls) == e.src \in ls /\ e.tgt \in ls

(* The first file in detect's order that declares l keeps the node.        *)
FirstFile(b, l) ==
  CHOOSE p \in Path : /\ l \in DeclaredBy(b, p)
                      /\ \A q \in Path : l \in DeclaredBy(b, q) => p <= q

Assemble(b) ==
  [nodes |-> {[label |-> l, file |-> FirstFile(b, l)] : l \in Declared(b)},
   edges |-> {e \in Related(b) : Within(e, Declared(b))}]

(* Drops what the stale files own, and every edge left without an endpoint *)
PruneGraph(g, stale) ==
  LET kept == {n \in g.nodes : n.file \notin stale} IN
  [nodes |-> kept,
   edges |-> {e \in g.edges : Within(e, {n.label : n \in kept})}]

(* Mutants of Merge: the labels of a are not looked up; the edges of b are *)
(* forgotten.                                                              *)
MergeAllNodes(a, b) ==
  [nodes |-> a.nodes \cup b.nodes,
   edges |-> {e \in a.edges : Within(e, Labels(a))}
               \cup {e \in b.edges : Within(e, Labels(b))}]
MergeNewEdges(a, b) ==
  [nodes |-> a.nodes \cup {n \in b.nodes : n.label \notin Labels(a)},
   edges |-> {e \in a.edges : Within(e, Labels(a))}]

(* A label in both graphs keeps a's node; each edge must resolve in its    *)
(* own graph.                                                              *)
Merge(a, b) ==
  [nodes |-> a.nodes \cup {n \in b.nodes : n.label \notin Labels(a)},
   edges |-> {e \in a.edges : Within(e, Labels(a))}
               \cup {e \in b.edges : Within(e, Labels(b))}]
-----------------------------------------------------------------------------
(***************************************************************************)
(* What the properties of the graphs are stated with.                      *)
(***************************************************************************)

(* One node per label, no edge without its endpoints.                      *)
WellFormed(g) ==
  /\ \A m, n \in g.nodes : m.label = n.label => m = n
  /\ \A e \in g.edges : Within(e, Labels(g))

(* Every node of g is declared by the text b has for its file.             *)
Justified(g, b) == \A n \in g.nodes : n.label \in DeclaredBy(b, n.file)

(* Among the labels ls, g is Assemble(b) except that edges between two     *)
(* files may be missing.                                                   *)
OwnEdges(b) ==
  UNION {{e \in RelatedBy(b, p) : Within(e, DeclaredBy(b, p))} : p \in Path}
NodesAmong(g, ls) == {n \in g.nodes : n.label \in ls}
EdgesAmong(g, ls) == {e \in g.edges : Within(e, ls)}

FaithfulInside(g, b, ls) ==
  /\ NodesAmong(g, ls) = NodesAmong(Assemble(b), ls)
  /\ EdgesAmong(g, ls) \subseteq EdgesAmong(Assemble(b), ls)
  /\ \A e \in OwnEdges(b) : Within(e, ls) => e \in g.edges

(* What b becomes when n is extracted anew and the stale files are dropped *)
Splice(b, n, stale) ==
  [p \in Path |-> IF n[p] # None THEN n[p]
                  ELSE IF p \in stale THEN None ELSE b[p]]

(* Where T[p] are the texts file p can have or has had: the labels that no *)
(* two files declare.  A Rust label is a bare name, so `new` or `main` is  *)
(* soon declared by two files and is not among them.                       *)
Sole(T) ==
  {l \in Label : \A p, q \in Path : p # q =>
     \A c \in T[p], d \in T[q] : l \notin Decl[c] \cap Decl[d]}

(* A hypothesis on the texts: an edge has an end in the text it is found   *)
(* in (the caller of a call, the method of a type: rust.rs:71-77 and       *)
(* 100-108).                                                               *)
Anchored ==
  \A c \in Content : \A e \in Ref[c] : e.src \in Decl[c] \/ e.tgt \in Decl[c]
=============================================================================
