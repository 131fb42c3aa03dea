------------------------------ MODULE Branches ------------------------------
(***************************************************************************)
(* Two branches of a repository that tracks graph.json and merges it with  *)
(* habitat-graph's merge driver.  A commit changes one source file and     *)
(* holds the graph.json built of the new tree; a merge merges the sources, *)
(* which is git's work, and graph.json, which is the driver's.             *)
(*                                                                         *)
(* git is external: it takes the changed side where only one side changed  *)
(* and calls the driver where both changed graph.json; where both changed  *)
(* a source file the outcome is any text, and the file is recorded as      *)
(* guessed until graph.json is built anew.                                 *)
(***************************************************************************)
EXTENDS MergeDriver

CONSTANTS
  Texts,       \* Texts[p]: the texts file p can have
  Cluster(_),  \* the communities of a graph, as the Leiden library finds them
  MaxCommits   \* bound on the commits

ASSUME TextsAssumption ==
  Texts \in [Path -> SUBSET Content]
ASSUME ClusterAssumption ==
  \A g \in Graph : /\ Cluster(g) \in [Label -> Nat \cup {None}]
                    /\ \A l \in Label \ Labels(g) : Cluster(g)[l] = None
ASSUME NoFileAssumption == None \notin File
ASSUME FiniteAssumption == IsFiniteSet(Label)
ASSUME BoundAssumption == MaxCommits \in Nat

VARIABLES
  head,    \* head[b]: the version at the tip of branch b
  base,    \* the merge base of the two tips
  commits  \* the number of commits made

vars == <<head, base, commits>>

Branch == {"left", "right"}
Other(b) == IF b = "left" THEN "right" ELSE "left"

Trees == {t \in Build : \A p \in Path : t[p] \in Texts[p] \cup {None}}

Built(t) ==
  LET g == Assemble(t) IN
  [nodes |-> g.nodes, edges |-> g.edges, comm |-> Cluster(g)]

Committed(t) == [tree |-> t, file |-> Built(t), guessed |-> {}]

IsVersion(v) ==
  /\ v.tree \in Trees
  /\ v.file = None \/ IsFile(v.file)
  /\ v.guessed \subseteq Path
  /\ v = [tree |-> v.tree, file |-> v.file, guessed |-> v.guessed]

Init ==
  /\ \E t \in Trees :
       base \in {Committed(t), [tree |-> t, file |-> None, guessed |-> {}]}
  /\ head = [b \in Branch |-> base]
  /\ commits = 0

Commit(b) ==
  /\ commits < MaxCommits
  /\ commits' = commits + 1
  /\ \E p \in Path : \E c \in (Texts[p] \cup {None}) \ {head[b].tree[p]} :
       head' = [head EXCEPT ![b] =
                  Committed([head[b].tree EXCEPT ![p] = c])]
  /\ UNCHANGED base

(* git's three-way choice; d is what comes out when x, y and z all differ. *)
ThreeWay(x, y, z, d) ==
  IF y = z \/ x = z THEN y ELSE IF x = y THEN z ELSE d

AllDiffer(x, y, z) == x # y /\ y # z /\ x # z

(* The driver cannot read the empty file git gives it when the base has no *)
(* graph.json: it fails and leaves ours as it was.                         *)
DriverResult(x, y, z) == IF x = None THEN y ELSE Merge3(x, y, z)

FileUnread(x, y, z) == AllDiffer(x, y, z) /\ x = None

Conflicts(x, y, z) == {p \in Path : AllDiffer(x[p], y[p], z[p])}

(* The files left to a human: all of them, if graph.json itself is.        *)
ByHand(x, y, z) ==
  IF FileUnread(x.file, y.file, z.file) THEN Path
  ELSE Conflicts(x.tree, y.tree, z.tree)

(* called: the files differ in what the model leaves out, such as a node's *)
(* line, so that git calls the driver although it need not, judged by what *)
(* the model has.                                                          *)
MergedFile(x, y, z, called) ==
  IF called /\ x # None THEN Merge3(x, y, z)
  ELSE ThreeWay(x, y, z, DriverResult(x, y, z))

MergedVersion(x, y, z, d, called) ==
  [tree |-> [p \in Path |-> ThreeWay(x.tree[p], y.tree[p], z.tree[p], d[p])],
   file |-> MergedFile(x.file, y.file, z.file, called),
   guessed |-> x.guessed \cup y.guessed \cup z.guessed \cup ByHand(x, y, z)]

(* Merge the other branch into b; afterwards its tip is the merge base.    *)
MergeVersions(b) ==
  /\ base # head[b] /\ base # head[Other(b)]
  /\ \E d \in Trees, called \in BOOLEAN :
       head' = [head EXCEPT ![b] =
                  MergedVersion(base, head[b], head[Other(b)], d, called)]
  /\ base' = head[Other(b)]
  /\ UNCHANGED commits

(* Branch b has nothing of its own and takes the other tip.                *)
FastForward(b) ==
  /\ base = head[b]
  /\ head[b] # head[Other(b)]
  /\ head' = [head EXCEPT ![b] = head[Other(b)]]
  /\ base' = head[Other(b)]
  /\ UNCHANGED commits

Next == \E b \in Branch : Commit(b) \/ MergeVersions(b) \/ FastForward(b)

Spec == Init /\ [][Next]_vars
-----------------------------------------------------------------------------
(* The type invariant: both tips and the merge base are versions, whose    *)
(* graph.json gives exactly its nodes a community entry.                   *)
TypeOK ==
  /\ head = [b \in Branch |-> head[b]]
  /\ \A b \in Branch : IsVersion(head[b])
  /\ IsVersion(base)
  /\ commits \in 0 .. MaxCommits

(* Whatever was merged, graph.json has one node per label and no edge      *)
(* without its endpoints (merge3's endpoint lookup and label selection).   *)
FileWellFormed ==
  \A b \in Branch : head[b].file # None => WellFormed(head[b].file)

(* The labels of file p that no other file can declare.                    *)
OwnLabels(t, p) == DeclaredBy(t, p) \cap Sole(Texts)

(* Version v's graph.json has of file p what p's text declares and relates *)
(* among the labels no other file can declare.                             *)
FollowsSource(v, p) ==
  LET ls == OwnLabels(v.tree, p) IN
  /\ {n \in NodesAmong(v.file, Sole(Texts)) : n.file = p}
       = {[label |-> l, file |-> p] : l \in ls}
  /\ EdgesAmong(v.file, ls) = {e \in RelatedBy(v.tree, p) : Within(e, ls)}

(* After any history of commits and merges, and whatever labels the files  *)
(* share: the driver's label-wise merge of graph.json agrees with git's    *)
(* file-wise merge of the sources on the labels of one file and the edges  *)
(* among them, in every file that git merged without a conflict (merge3's  *)
(* deletion table).                                                        *)
FilesFollowSources ==
  \A b \in Branch : head[b].file # None =>
    \A p \in Path \ head[b].guessed : FollowsSource(head[b], p)

(* The comment in to_node_link: communities are disjoint, so that no node  *)
(* is in two of them when the driver writes its result.                    *)
CommunitiesDisjoint ==
  \A b \in Branch :
    LET x == base.file
        y == head[b].file
        z == head[Other(b)].file
    IN AllDiffer(x, y, z) /\ x # None =>
         \A c, d \in KeptCommunities(x, y, z) :
           c # d => Members(c, x, y, z) \cap Members(d, x, y, z) = {}
=============================================================================
