-------------------------- MODULE GraphBuildProofs --------------------------
(***************************************************************************)
(* Facts about assemble, prune_graph and merge, for all files and texts.   *)
(* The last ones are what the update command's incremental path rests on:  *)
(* pruning the stale files from a graph and merging in the extraction of   *)
(* the new texts keeps the graph justified by the texts now in it, and,    *)
(* among the labels that no two files declare, keeps it a full build up to *)
(* edges between files.                                                    *)
(***************************************************************************)
EXTENDS GraphBuild, WellFoundedInduction, TLAPS

(* detect's order on a non-empty set of paths has a first one.             *)
LEMMA LeastPath ==
  ASSUME NEW S \in SUBSET Path, S # {}
  PROVE  \E p \in S : \A q \in S : p <= q
<1>. DEFINE R == OpToRel(<, Nat)
<1>1. IsWellFoundedOn(R, Nat)
  BY NatLessThanWellFounded
<1>2. S \subseteq Nat
  BY PathAssumption
<1>3. PICK p \in S : \A q \in S : <<q, p>> \notin R
  <2>. HIDE DEF R
  <2>. QED  BY <1>1, <1>2, WFMin
<1>4. \A q \in S : ~(q < p)
  BY <1>2, <1>3 DEF OpToRel
<1>. QED
  BY <1>2, <1>4

(* A label that is declared at all is declared by its first file.          *)
LEMMA FirstFileDeclares ==
  ASSUME NEW b \in Build, NEW l \in Declared(b)
  PROVE  FirstFile(b, l) \in Path /\ l \in DeclaredBy(b, FirstFile(b, l))
<1>. DEFINE S == {p \in Path : l \in DeclaredBy(b, p)}
<1>1. S # {}
  BY DEF Declared
<1>2. \E p \in S : \A q \in S : p <= q
  BY <1>1, LeastPath
<1>. QED
  BY <1>2 DEF FirstFile

(* Texts are typed.                                                        *)
LEMMA DeclaredType ==
  ASSUME NEW b \in Build, NEW p \in Path
  PROVE  /\ DeclaredBy(b, p) \subseteq Label
         /\ RelatedBy(b, p) \subseteq LabelPair
BY TextAssumption DEF DeclaredBy, RelatedBy, Build

LEMMA DeclaredWithin ==
  ASSUME NEW b \in Build
  PROVE  /\ Declared(b) \subseteq Label
         /\ Related(b) \subseteq LabelPair
         /\ \A p \in Path : DeclaredBy(b, p) \subseteq Declared(b)
         /\ \A p \in Path : RelatedBy(b, p) \subseteq Related(b)
BY DeclaredType DEF Declared, Related

(* assemble returns a graph that has one node per declared label, whose    *)
(* owner declares it.                                                      *)
LEMMA AssembleFacts ==
  ASSUME NEW b \in Build
  PROVE  /\ Assemble(b) \in Graph
         /\ Labels(Assemble(b)) = Declared(b)
         /\ WellFormed(Assemble(b))
         /\ Justified(Assemble(b), b)
<1>1. Assemble(b).nodes \in SUBSET Node
  BY FirstFileDeclares, DeclaredWithin DEF Assemble, Node
<1>2. Assemble(b).edges \in SUBSET LabelPair
  BY DeclaredWithin DEF Assemble
<1>3. Assemble(b) \in Graph
  BY <1>1, <1>2 DEF Assemble, Graph
<1>4. Labels(Assemble(b)) = Declared(b)
  <2>1. Assemble(b).nodes = {[label |-> l, file |-> FirstFile(b, l)] : l \in Declared(b)}
    BY DEF Assemble
  <2>2. ASSUME NEW l \in Declared(b)
        PROVE  l \in Labels(Assemble(b))
    <3>. DEFINE n == [label |-> l, file |-> FirstFile(b, l)]
    <3>1. n \in Assemble(b).nodes /\ n.label = l
      BY <2>1
    <3>. HIDE DEF n
    <3>. QED  BY <3>1 DEF Labels
  <2>3. ASSUME NEW n \in Assemble(b).nodes
        PROVE  n.label \in Declared(b)
    BY <2>1
  <2>. QED  BY <2>2, <2>3 DEF Labels
<1>5. WellFormed(Assemble(b))
  <2>1. \A e \in Assemble(b).edges : Within(e, Labels(Assemble(b)))
    BY <1>4 DEF Assemble
  <2>2. \A m, n \in Assemble(b).nodes : m.label = n.label => m = n
    BY DEF Assemble
  <2>. QED  BY <2>1, <2>2 DEF WellFormed
<1>6. Justified(Assemble(b), b)
  BY FirstFileDeclares DEF Justified, Assemble
<1>. QED
  BY <1>3, <1>4, <1>5, <1>6

(* prune_graph and merge take graphs to graphs, and keep them well formed. *)
LEMMA PruneFacts ==
  ASSUME NEW g \in Graph, NEW stale
  PROVE  /\ PruneGraph(g, stale) \in Graph
         /\ WellFormed(g) => WellFormed(PruneGraph(g, stale))
BY DEF PruneGraph, Graph, WellFormed, Labels, Within

LEMMA MergeFacts ==
  ASSUME NEW g \in Graph, NEW h \in Graph
  PROVE  /\ Merge(g, h) \in Graph
         /\ WellFormed(g) /\ WellFormed(h) => WellFormed(Merge(g, h))
<1>1. Merge(g, h) \in Graph
  BY DEF Merge, Graph
<1>2. Labels(Merge(g, h)) = Labels(g) \cup Labels(h)
  BY DEF Merge, Labels
<1>3. \A e \in Merge(g, h).edges : Within(e, Labels(g) \cup Labels(h))
  BY DEF Merge, Within
<1>4. ASSUME WellFormed(g), WellFormed(h),
             NEW m \in Merge(g, h).nodes, NEW n \in Merge(g, h).nodes,
             m.label = n.label
      PROVE  m = n
  BY <1>4 DEF Merge, WellFormed, Labels
<1>. QED
  BY <1>1, <1>2, <1>3, <1>4 DEF WellFormed
(***************************************************************************)
(* The incremental step, for any old graph g of texts b, any newly         *)
(* extracted texts n and any stale files, when each file extracted anew is *)
(* stale or was not in the graph.                                          *)
(***************************************************************************)
Replaces(b, n, stale) ==
  \A p \in Path : n[p] # None => b[p] = None \/ p \in stale

LEMMA SpliceFacts ==
  ASSUME NEW b \in Build, NEW n \in Build, NEW stale
  PROVE  /\ Splice(b, n, stale) \in Build
         /\ \A p \in Path : /\ n[p] # None => Splice(b, n, stale)[p] = n[p]
                           /\ n[p] = None /\ p \notin stale
                                => Splice(b, n, stale)[p] = b[p]
BY DEF Splice, Build

(* No ghosts: a merged graph is justified by the spliced texts.            *)
LEMMA IncrementalIsJustified ==
  ASSUME NEW b \in Build, NEW n \in Build, NEW stale, NEW g \in Graph,
         Replaces(b, n, stale), Justified(g, b)
  PROVE  Justified(Merge(Assemble(n), PruneGraph(g, stale)), Splice(b, n, stale))
<1>. DEFINE s == Splice(b, n, stale)
            h == Merge(Assemble(n), PruneGraph(g, stale))
<1>1. SUFFICES ASSUME NEW m \in h.nodes
               PROVE  m.label \in DeclaredBy(s, m.file)
  BY DEF Justified
<1>2. CASE m \in Assemble(n).nodes
  <2>1. m.file \in Path /\ m.label \in DeclaredBy(n, m.file)
    BY <1>2, AssembleFacts DEF Graph, Node, Justified
  <2>2. n[m.file] # None
    BY <2>1 DEF DeclaredBy
  <2>3. s[m.file] = n[m.file]
    BY <2>1, <2>2 DEF Splice
  <2>. QED  BY <2>1, <2>3 DEF DeclaredBy
<1>3. CASE m \in g.nodes /\ m.file \notin stale
  <2>1. m.file \in Path /\ m.label \in DeclaredBy(b, m.file)
    BY <1>3 DEF Graph, Node, Justified
  <2>2. b[m.file] # None
    BY <2>1 DEF DeclaredBy
  <2>3. n[m.file] = None
    BY <1>3, <2>1, <2>2 DEF Replaces
  <2>. QED  BY <1>3, <2>1, <2>3, SpliceFacts DEF DeclaredBy
<1>. QED
  BY <1>1, <1>2, <1>3 DEF Merge, PruneGraph

(* A label that no two files declare is owned by the file that declares it *)
Drawn(b, T) == b \in Build /\ \A p \in Path : b[p] \in T[p] \cup {None}

LEMMA OneOwner ==
  ASSUME NEW T, NEW b, Drawn(b, T), NEW d, Drawn(d, T),
         NEW p \in Path, NEW q \in Path, NEW l \in Sole(T),
         l \in DeclaredBy(b, p), l \in DeclaredBy(d, q)
  PROVE  p = q
<1>1. b[p] \in T[p] /\ d[q] \in T[q]
  BY DEF DeclaredBy, Drawn
<1>2. l \in Decl[b[p]] \cap Decl[d[q]]
  BY DEF DeclaredBy
<1>. QED
  BY <1>1, <1>2 DEF Sole

LEMMA NodesByFile ==
  ASSUME NEW T, NEW b, Drawn(b, T)
  PROVE  \A m : m.label \in Sole(T) =>
           (m \in Assemble(b).nodes <=>
              m \in Node /\ m.label \in DeclaredBy(b, m.file))
<1>0. b \in Build
  BY DEF Drawn
<1>1. ASSUME NEW m \in Assemble(b).nodes
      PROVE  m \in Node /\ m.label \in DeclaredBy(b, m.file)
  BY <1>0, AssembleFacts DEF Graph, Justified
<1>2. ASSUME NEW m \in Node, m.label \in DeclaredBy(b, m.file), m.label \in Sole(T)
      PROVE  m \in Assemble(b).nodes
  <2>1. m.file \in Path /\ m.label \in Declared(b)
    BY <1>2 DEF Node, Declared
  <2>2. FirstFile(b, m.label) = m.file
    BY <1>0, <1>2, <2>1, FirstFileDeclares, OneOwner
  <2>3. m = [label |-> m.label, file |-> m.file]
    BY DEF Node
  <2>. QED  BY <2>1, <2>2, <2>3 DEF Assemble
<1>. QED
  BY <1>1, <1>2

(* A full build is faithful among any labels; what is faithful among some  *)
(* labels is faithful among fewer.                                         *)
LEMMA FullIsFaithful ==
  ASSUME NEW b \in Build, NEW ls
  PROVE  FaithfulInside(Assemble(b), b, ls)
<1>1. OwnEdges(b) \subseteq Assemble(b).edges
  BY DeclaredWithin DEF OwnEdges, Assemble, Within
<1>. QED
  BY <1>1 DEF FaithfulInside

LEMMA FaithfulAmongFewer ==
  ASSUME NEW g, NEW b, NEW ls, FaithfulInside(g, b, ls), NEW ms, ms \subseteq ls
  PROVE  FaithfulInside(g, b, ms)
<1>1. NodesAmong(g, ms) = NodesAmong(Assemble(b), ms)
  BY DEF FaithfulInside, NodesAmong
<1>2. EdgesAmong(g, ms) \subseteq EdgesAmong(Assemble(b), ms)
  BY DEF FaithfulInside, EdgesAmong, Within
<1>3. \A e \in OwnEdges(b) : Within(e, ms) => e \in g.edges
  BY DEF FaithfulInside, Within
<1>. QED
  BY <1>1, <1>2, <1>3 DEF FaithfulInside

(* With anchored edges, pruning and merging give, among the labels that no *)
(* two files declare, the full build of the spliced texts up to edges      *)
(* between files; what becomes of the labels that files share does not     *)
(* matter to them.                                                         *)
LEMMA IncrementalIsFaithful ==
  ASSUME Anchored, NEW T,
         NEW b, Drawn(b, T), NEW n, Drawn(n, T), NEW stale, NEW g \in Graph,
         Replaces(b, n, stale), FaithfulInside(g, b, Sole(T))
  PROVE  /\ Drawn(Splice(b, n, stale), T)
         /\ FaithfulInside(Merge(Assemble(n), PruneGraph(g, stale)),
                           Splice(b, n, stale), Sole(T))
<1>. DEFINE L == Sole(T)
            s == Splice(b, n, stale)
            k == PruneGraph(g, stale)
            h == Merge(Assemble(n), k)
<1>0. b \in Build /\ n \in Build
  BY DEF Drawn
<1>1. Drawn(s, T)
  BY <1>0 DEF Drawn, Splice, Build
<1>2. \A m : m.label \in L =>
        (m \in k.nodes <=> /\ m \in Node /\ m.file \notin stale
                           /\ m.label \in DeclaredBy(b, m.file))
  <2>1. \A m : m.label \in L => (m \in g.nodes <=> m \in Assemble(b).nodes)
    BY DEF FaithfulInside, NodesAmong
  <2>. QED  BY <2>1, NodesByFile DEF PruneGraph
<1>3. ASSUME NEW p \in Path, n[p] = None, p \notin stale
      PROVE  DeclaredBy(s, p) = DeclaredBy(b, p) /\ RelatedBy(s, p) = RelatedBy(b, p)
  BY <1>0, <1>3, SpliceFacts DEF DeclaredBy, RelatedBy
<1>4. ASSUME NEW p \in Path, n[p] # None
      PROVE  DeclaredBy(s, p) = DeclaredBy(n, p) /\ RelatedBy(s, p) = RelatedBy(n, p)
  <2>1. s[p] = n[p]
    BY <1>4 DEF Splice
  <2>. QED  BY <2>1 DEF DeclaredBy, RelatedBy
<1>5. ASSUME NEW p \in Path, n[p] = None, p \in stale
      PROVE  DeclaredBy(s, p) = {} /\ RelatedBy(s, p) = {}
  BY <1>0, <1>5 DEF DeclaredBy, RelatedBy, Splice
<1>6. ASSUME NEW p \in Path, n[p] # None, p \notin stale
      PROVE  DeclaredBy(b, p) = {} /\ RelatedBy(b, p) = {}
  BY <1>6 DEF Replaces, DeclaredBy, RelatedBy
<1>7. NodesAmong(h, L) = NodesAmong(Assemble(s), L)
  <2>1. ASSUME NEW m \in Node, m.label \in L
        PROVE  m \in h.nodes <=> m.label \in DeclaredBy(s, m.file)
    <3>0. m.file \in Path
      BY DEF Node
    <3>1. m \in h.nodes <=> \/ m \in Assemble(n).nodes
                            \/ m \in k.nodes /\ m.label \notin Declared(n)
      BY <1>0, AssembleFacts DEF Merge
    <3>2. m \in Assemble(n).nodes <=> m.label \in DeclaredBy(n, m.file)
      BY <2>1, NodesByFile
    <3>3. ASSUME m \in k.nodes, m.label \in Declared(n)
          PROVE  FALSE
      <4>1. PICK q \in Path : m.label \in DeclaredBy(n, q)
        BY <3>3 DEF Declared
      <4>2. q = m.file
        BY <1>2, <2>1, <3>0, <3>3, <4>1, OneOwner
      <4>3. n[m.file] # None
        BY <4>1, <4>2 DEF DeclaredBy
      <4>. QED  BY <1>2, <1>6, <2>1, <3>0, <3>3, <4>3
    <3>4. n[m.file] = None => DeclaredBy(n, m.file) = {}
      BY DEF DeclaredBy
    <3>5. m \in k.nodes <=> m.file \notin stale /\ m.label \in DeclaredBy(b, m.file)
      BY <1>2, <2>1
    <3>. QED  BY <1>3, <1>4, <1>5, <1>6, <3>0, <3>1, <3>2, <3>3, <3>4, <3>5
  <2>2. h.nodes \subseteq Node
    <3>1. k.nodes \subseteq Node
      BY DEF PruneGraph, Graph
    <3>. QED  BY <1>0, <3>1, AssembleFacts DEF Merge, Graph
  <2>3. Assemble(s).nodes \subseteq Node
    BY <1>1, AssembleFacts DEF Graph, Drawn
  <2>4. ASSUME NEW m \in Node, m.label \in L
        PROVE  m \in Assemble(s).nodes <=> m.label \in DeclaredBy(s, m.file)
    BY <1>1, <2>4, NodesByFile
  <2>. QED  BY <2>1, <2>2, <2>3, <2>4 DEF NodesAmong
<1>8. \A l \in L : l \in Labels(h) => l \in Declared(s)
  <2>1. Labels(Assemble(s)) = Declared(s)
    BY <1>1, AssembleFacts DEF Drawn
  <2>. QED  BY <1>7, <2>1 DEF Labels, NodesAmong
<1>9. Labels(Assemble(n)) \subseteq Labels(h) /\ Labels(k) \subseteq Labels(h)
  BY DEF Merge, Labels
<1>10. EdgesAmong(h, L) \subseteq EdgesAmong(Assemble(s), L)
  <2>1. SUFFICES ASSUME NEW e \in h.edges, Within(e, L) PROVE e \in Related(s)
    <3>1. \A e \in h.edges : Within(e, Labels(h))
      BY <1>9 DEF Merge, Within
    <3>2. \A e \in EdgesAmong(h, L) : Within(e, Declared(s))
      BY <1>8, <3>1 DEF EdgesAmong, Within
    <3>. QED  BY <2>1, <3>2 DEF Assemble, EdgesAmong
  <2>2. CASE e \in Assemble(n).edges
    <3>1. PICK p \in Path : e \in RelatedBy(n, p)
      BY <2>2 DEF Assemble, Related
    <3>2. n[p] # None
      BY <3>1 DEF RelatedBy
    <3>. QED  BY <1>4, <3>1, <3>2 DEF Related
  <2>3. CASE e \in k.edges /\ Within(e, Labels(k))
    <3>1. e \in g.edges
      BY <2>3 DEF PruneGraph
    <3>2. PICK p \in Path : e \in RelatedBy(b, p)
      BY <2>1, <3>1 DEF FaithfulInside, EdgesAmong, Assemble, Related
    <3>3. PICK l : l \in {e.src, e.tgt} /\ l \in DeclaredBy(b, p)
      BY <1>0, <3>2 DEF Anchored, RelatedBy, DeclaredBy, Build
    <3>4. l \in L
      BY <2>1, <3>3 DEF Within
    <3>5. PICK m \in k.nodes : m.label = l
      BY <2>3, <3>3 DEF Within, Labels
    <3>6. m \in Node /\ m.file \notin stale /\ l \in DeclaredBy(b, m.file)
      BY <1>2, <3>4, <3>5
    <3>7. m.file = p
      BY <3>3, <3>4, <3>6, OneOwner DEF Node
    <3>8. p \notin stale /\ n[p] = None
      BY <1>6, <3>2, <3>6, <3>7
    <3>. QED  BY <1>3, <3>2, <3>8 DEF Related
  <2>. QED  BY <2>2, <2>3 DEF Merge
<1>11. \A e \in OwnEdges(s) : Within(e, L) => e \in h.edges
  <2>1. SUFFICES ASSUME NEW p \in Path, NEW e \in RelatedBy(s, p),
                        Within(e, DeclaredBy(s, p)), Within(e, L)
                 PROVE  e \in h.edges
    BY DEF OwnEdges
  <2>2. CASE n[p] # None
    <3>1. e \in Related(n) /\ Within(e, Declared(n))
      BY <1>0, <1>4, <2>1, <2>2, DeclaredWithin DEF Within
    <3>2. e \in Assemble(n).edges /\ Within(e, Labels(Assemble(n)))
      BY <1>0, <3>1, AssembleFacts DEF Assemble
    <3>. QED  BY <3>2 DEF Merge
  <2>3. CASE n[p] = None
    <3>1. p \notin stale
      BY <1>5, <2>1, <2>3
    <3>2. e \in RelatedBy(b, p) /\ Within(e, DeclaredBy(b, p))
      BY <1>3, <2>1, <2>3, <3>1
    <3>3. e \in g.edges
      BY <2>1, <3>2 DEF OwnEdges, FaithfulInside
    <3>4. ASSUME NEW l \in DeclaredBy(b, p), l \in L
          PROVE  l \in Labels(k)
      <4>. DEFINE m == [label |-> l, file |-> p]
      <4>1. m \in Node /\ m.label = l /\ m.file = p
        BY <1>0, DeclaredType DEF Node
      <4>2. m \in k.nodes
        BY <1>2, <3>1, <3>4, <4>1
      <4>. QED  BY <4>1, <4>2 DEF Labels
    <3>5. Within(e, Labels(k))
      BY <2>1, <3>2, <3>4 DEF Within
    <3>6. e \in k.edges
      BY <3>3, <3>5 DEF PruneGraph, Labels
    <3>. QED  BY <3>5, <3>6 DEF Merge
  <2>. QED  BY <2>2, <2>3
<1>. QED
  BY <1>1, <1>7, <1>10, <1>11 DEF FaithfulInside

(* Among the labels that one file alone declares there are no edges to     *)
(* other files, so there a faithful graph is the full build.               *)
OnlyOf(T, p) ==
  {l \in Label : \A q \in Path : q # p => \A c \in T[q] : l \notin Decl[c]}
SameAmong(g, h, ls) ==
  NodesAmong(g, ls) = NodesAmong(h, ls) /\ EdgesAmong(g, ls) = EdgesAmong(h, ls)

LEMMA FaithfulIsFull ==
  ASSUME Anchored, NEW T, NEW b, Drawn(b, T), NEW g,
         FaithfulInside(g, b, Sole(T)), NEW p \in Path
  PROVE  SameAmong(g, Assemble(b), OnlyOf(T, p))
<1>. DEFINE ls == OnlyOf(T, p)
<1>0. b \in Build
  BY DEF Drawn
<1>1. ls \subseteq Sole(T)
  BY DEF OnlyOf, Sole
<1>2. FaithfulInside(g, b, ls)
  BY <1>1, FaithfulAmongFewer
<1>3. \A q \in Path : q # p => \A l \in ls : l \notin DeclaredBy(b, q)
  BY DEF OnlyOf, Drawn, DeclaredBy
<1>4. ASSUME NEW e \in Assemble(b).edges, Within(e, ls)
      PROVE  e \in OwnEdges(b)
  <2>1. PICK q \in Path : e \in RelatedBy(b, q)
    BY DEF Assemble, Related
  <2>2. Within(e, DeclaredBy(b, p))
    BY <1>3, <1>4 DEF Assemble, Within, Declared
  <2>3. \E l \in {e.src, e.tgt} : l \in DeclaredBy(b, q)
    BY <1>0, <2>1 DEF Anchored, RelatedBy, DeclaredBy, Build
  <2>4. q = p
    BY <1>3, <1>4, <2>3 DEF Within
  <2>. QED  BY <2>1, <2>2, <2>4 DEF OwnEdges
<1>5. EdgesAmong(Assemble(b), ls) \subseteq EdgesAmong(g, ls)
  BY <1>2, <1>4 DEF FaithfulInside, EdgesAmong
<1>. QED
  BY <1>2, <1>5 DEF FaithfulInside, SameAmong
=============================================================================
