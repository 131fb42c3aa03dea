--------------------------- MODULE BranchesProofs ---------------------------
(***************************************************************************)
(* Theorems about merge3 and about branches that merge with it, for any    *)
(* files, texts and histories, and any communities.                        *)
(***************************************************************************)
EXTENDS Branches, GraphBuildProofs, FiniteSetTheorems

(***************************************************************************)
(* The three-way choice, on sets: where one side left things as they were, *)
(* it is the other side; it does not depend on which side is ours.         *)
(***************************************************************************)
LEMMA KeptChoice ==
  ASSUME NEW x, NEW y, NEW z
  PROVE  /\ y = z \/ x = z => Kept(x, y, z) = y
         /\ x = y => Kept(x, y, z) = z
BY DEF Kept

LEMMA FileFacts ==
  ASSUME NEW f, IsFile(f)
  PROVE  /\ f.nodes \subseteq Node /\ f.edges \subseteq LabelPair
         /\ f.comm \in [Label -> Nat \cup {None}]
         /\ Labels(f) \subseteq Label
<1>1. /\ f.nodes \subseteq Node /\ f.edges \subseteq LabelPair
      /\ f.comm \in [Label -> Nat \cup {None}]
  BY DEF IsFile, File
<1>. QED
  BY <1>1 DEF Labels, Node

LEMMA LabelFacts ==
  ASSUME NEW x, NEW y, NEW z, IsFile(x), IsFile(y), IsFile(z)
  PROVE  /\ Labels(x) \subseteq Label
         /\ KeptLabels(x, y, z) \subseteq Labels(y) \cup Labels(z)
         /\ KeptLabels(x, y, z) \subseteq Label
         /\ Labels(Merge3(x, y, z)) = KeptLabels(x, y, z)
<1>1. Labels(x) \subseteq Label /\ Labels(y) \subseteq Label /\ Labels(z) \subseteq Label
  BY FileFacts
<1>2. KeptLabels(x, y, z) \subseteq Labels(y) \cup Labels(z)
  BY DEF KeptLabels, Kept
<1>3. \A n \in WinningNodes(x, y, z) : n.label \in KeptLabels(x, y, z)
  BY DEF WinningNodes
<1>4. ASSUME NEW l \in KeptLabels(x, y, z)
      PROVE  \E n \in WinningNodes(x, y, z) : n.label = l
  <2>1. CASE l \in Labels(y)
    <3>1. PICK n \in y.nodes : n.label = l
      BY <2>1 DEF Labels
    <3>. QED  BY <3>1 DEF WinningNodes
  <2>2. CASE l \notin Labels(y)
    <3>1. PICK n \in z.nodes : n.label = l
      BY <1>2, <2>2 DEF Labels
    <3>. QED  BY <2>2, <3>1 DEF WinningNodes
  <2>. QED  BY <2>1, <2>2
<1>5. Labels(Merge3(x, y, z)) = {n.label : n \in WinningNodes(x, y, z)}
  BY DEF Labels, Merge3
<1>. QED
  BY <1>1, <1>2, <1>3, <1>4, <1>5

(***************************************************************************)
(* Community numbers are numbers, because a graph has finitely many.       *)
(***************************************************************************)
LEMMA CommunitiesFinite ==
  ASSUME NEW f, IsFile(f)
  PROVE  IsFiniteSet(Communities(f)) /\ Communities(f) \subseteq Nat
<1>. DEFINE all == {f.comm[l] : l \in Label}
<1>1. f.comm \in Surjection(Label, all)
  BY FileFacts DEF Surjection
<1>2. IsFiniteSet(all)
  BY <1>1, FiniteAssumption, FS_Surjection DEF ExistsSurjection
<1>3. Communities(f) \in SUBSET all /\ Communities(f) \subseteq Nat
  BY FileFacts DEF Communities
<1>. QED
  BY <1>2, <1>3, FS_Subset

LEMMA NewNumberType ==
  ASSUME NEW x, NEW y, NEW z, IsFile(x), IsFile(y), IsFile(z), NEW c
  PROVE  NewNumber(c, x, y, z) \in 0 .. Cardinality(KeptCommunities(x, y, z))
<1>. DEFINE K == KeptCommunities(x, y, z)
            Precedes(d) == IF d \in Communities(y)
                           THEN c \in Communities(y) => d < c
                           ELSE c \notin Communities(y) /\ d < c
            before == {d \in K : Precedes(d)}
<1>1. IsFiniteSet(Communities(y) \cup Communities(z))
  BY CommunitiesFinite, FS_Union
<1>2. K \in SUBSET (Communities(y) \cup Communities(z))
  BY DEF KeptCommunities, Kept
<1>3. IsFiniteSet(K)
  BY <1>1, <1>2, FS_Subset
<1>4. before \in SUBSET K
  OBVIOUS
<1>5. IsFiniteSet(before) /\ Cardinality(before) <= Cardinality(K)
  <2>. HIDE DEF before, K
  <2>. QED  BY <1>3, <1>4, FS_Subset
<1>6. Cardinality(before) \in Nat /\ Cardinality(K) \in Nat
  <2>. HIDE DEF before, K
  <2>. QED  BY <1>3, <1>5, FS_CardinalityType
<1>7. NewNumber(c, x, y, z) = Cardinality(before)
  BY DEF NewNumber
<1>. QED
  <2>. HIDE DEF before
  <2>. QED  BY <1>5, <1>6, <1>7

(* A set of bounded numbers has a greatest.                                *)
LEMMA Greatest ==
  ASSUME NEW K \in Nat, NEW S \in SUBSET (0 .. K), S # {}
  PROVE  \E i \in S : \A j \in S : j <= i
<1>. DEFINE R == OpToRel(<, Nat)
            T == {k \in Nat : k <= K /\ K - k \in S}
<1>1. T # {}
  <2>1. PICK i \in S : TRUE
    OBVIOUS
  <2>2. K - i \in Nat /\ K - i <= K /\ K - (K - i) = i
    BY <2>1
  <2>. QED  BY <2>1, <2>2
<1>2. T \subseteq Nat
  OBVIOUS
<1>3. PICK k \in T : \A m \in T : <<m, k>> \notin R
  <2>1. IsWellFoundedOn(R, Nat)
    BY NatLessThanWellFounded
  <2>. HIDE DEF R, T
  <2>. QED  BY <1>1, <1>2, <2>1, WFMin
<1>4. \A m \in T : ~(m < k)
  BY <1>2, <1>3 DEF OpToRel
<1>5. ASSUME NEW j \in S
      PROVE  j <= K - k
  <2>1. K - j \in T
    <3>1. j \in 0 .. K /\ K - (K - j) = j
      OBVIOUS
    <3>. QED  BY <3>1
  <2>2. ~(K - j < k) /\ k \in Nat /\ j \in Nat
    BY <1>4, <2>1
  <2>. QED  BY <2>2
<1>6. K - k \in S
  OBVIOUS
<1>. QED
  BY <1>5, <1>6

LEMMA WrittenType ==
  ASSUME NEW x, NEW y, NEW z, IsFile(x), IsFile(y), IsFile(z), NEW l
  PROVE  WrittenCommunity(l, x, y, z) \in Nat \cup {None}
<1>. DEFINE S == {NewNumber(c, x, y, z) :
                    c \in {d \in KeptCommunities(x, y, z) : l \in Members(d, x, y, z)}}
            K == Cardinality(KeptCommunities(x, y, z))
<1>1. S \subseteq 0 .. K
  BY NewNumberType
<1>2. K \in Nat
  <2>1. IsFiniteSet(Communities(y) \cup Communities(z))
    BY CommunitiesFinite, FS_Union
  <2>2. KeptCommunities(x, y, z) \in SUBSET (Communities(y) \cup Communities(z))
    BY DEF KeptCommunities, Kept
  <2>. QED  BY <2>1, <2>2, FS_Subset, FS_CardinalityType
<1>3. CASE S = {}
  BY <1>3 DEF WrittenCommunity
<1>4. CASE S # {}
  <2>. DEFINE top == CHOOSE i \in S : \A j \in S : j <= i
  <2>1. WrittenCommunity(l, x, y, z) = top
    BY <1>4 DEF WrittenCommunity
  <2>2. \E i \in S : \A j \in S : j <= i
    <3>. HIDE DEF S, K
    <3>. QED  BY <1>1, <1>2, <1>4, Greatest
  <2>3. top \in S
    <3>. HIDE DEF S
    <3>. QED  BY <2>2
  <2>4. top \in Nat
    <3>. HIDE DEF S, K, top
    <3>. QED  BY <1>1, <2>3
  <2>. QED  BY <2>1, <2>4
<1>. QED
  BY <1>3, <1>4

(***************************************************************************)
(* merge3 takes files to files and keeps them well formed.                 *)
(***************************************************************************)
LEMMA MergeIsFile ==
  ASSUME NEW x, NEW y, NEW z, IsFile(x), IsFile(y), IsFile(z)
  PROVE  IsFile(Merge3(x, y, z))
<1>. DEFINE m == Merge3(x, y, z)
<1>1. m.nodes \subseteq Node
  BY FileFacts DEF Merge3, WinningNodes
<1>2. m.edges \subseteq LabelPair
  BY FileFacts DEF Merge3, MergedEdges, Kept, EdgeKeys
<1>3. m.comm = [l \in Label |-> WrittenCommunity(l, x, y, z)]
  BY DEF Merge3
<1>4. m.comm \in [Label -> Nat \cup {None}]
  BY <1>3, WrittenType
<1>5. \A l \in Label \ KeptLabels(x, y, z) : m.comm[l] = None
  BY <1>3 DEF WrittenCommunity, Members
<1>6. Labels(m) = KeptLabels(x, y, z)
  BY LabelFacts
<1>7. m = [nodes |-> m.nodes, edges |-> m.edges, comm |-> m.comm]
  BY DEF Merge3
<1>8. IsFile(m)
  <2>. HIDE DEF m
  <2>. QED  BY <1>1, <1>2, <1>4, <1>5, <1>6, <1>7 DEF IsFile, File
<1>. QED
  BY <1>8

LEMMA MergeWellFormed ==
  ASSUME NEW x, NEW y, NEW z, IsFile(x), IsFile(y), IsFile(z),
         WellFormed(y), WellFormed(z)
  PROVE  WellFormed(Merge3(x, y, z))
<1>1. ASSUME NEW m \in WinningNodes(x, y, z), NEW n \in WinningNodes(x, y, z),
             m.label = n.label
      PROVE  m = n
  BY <1>1 DEF WinningNodes, WellFormed, Labels
<1>2. \A e \in MergedEdges(x, y, z) : Within(e, KeptLabels(x, y, z))
  BY DEF MergedEdges
<1>. QED
  BY <1>1, <1>2, LabelFacts DEF WellFormed, Merge3

(* Which side is ours decides who owns a node and its community, but not   *)
(* which labels and edges there are.                                       *)
LEMMA MergeCommutes ==
  ASSUME NEW x, NEW y, NEW z, IsFile(x), IsFile(y), IsFile(z)
  PROVE  /\ Labels(Merge3(x, y, z)) = Labels(Merge3(x, z, y))
         /\ Merge3(x, y, z).edges = Merge3(x, z, y).edges
<1>1. KeptLabels(x, y, z) = KeptLabels(x, z, y)
  BY DEF KeptLabels, Kept
<1>2. Kept(EdgeKeys(x), EdgeKeys(y), EdgeKeys(z)) = Kept(EdgeKeys(x), EdgeKeys(z), EdgeKeys(y))
  BY DEF Kept
<1>. QED
  BY <1>1, <1>2, LabelFacts DEF Merge3, MergedEdges

(***************************************************************************)
(* A step adds a version only by committing one or by merging three that   *)
(* were there.                                                             *)
(***************************************************************************)
Versions == {base} \cup {head[b] : b \in Branch}

LEMMA BuiltIsFile ==
  ASSUME NEW t \in Trees
  PROVE  /\ IsFile(Built(t)) /\ WellFormed(Built(t))
         /\ Built(t).nodes = Assemble(t).nodes
         /\ Built(t).edges = Assemble(t).edges
         /\ t \in Build
<1>1. t \in Build
  BY DEF Trees
<1>2. Assemble(t) \in Graph /\ WellFormed(Assemble(t))
  BY <1>1, AssembleFacts
<1>3. /\ Cluster(Assemble(t)) \in [Label -> Nat \cup {None}]
      /\ \A l \in Label \ Labels(Assemble(t)) : Cluster(Assemble(t))[l] = None
  BY <1>2, ClusterAssumption
<1>4. Built(t) = [nodes |-> Assemble(t).nodes, edges |-> Assemble(t).edges,
                  comm |-> Cluster(Assemble(t))]
  BY DEF Built
<1>5. Labels(Built(t)) = Labels(Assemble(t))
  BY <1>4 DEF Labels
<1>6. IsFile(Built(t))
  BY <1>2, <1>3, <1>4, <1>5 DEF IsFile, File, Graph
<1>. QED
  BY <1>1, <1>2, <1>4, <1>5, <1>6 DEF WellFormed

LEMMA VersionFlow ==
  ASSUME TypeOK, Next, NEW v \in Versions'
  PROVE  \/ v \in Versions
         \/ \E t \in Trees : v = Committed(t)
         \/ \E b \in Branch, d \in Trees, called \in BOOLEAN :
              /\ v = MergedVersion(base, head[b], head[Other(b)], d, called)
              /\ base # head[b] /\ base # head[Other(b)]
<1>0. /\ \A b \in Branch : head[b] \in Versions /\ head[b].tree \in Trees
      /\ \A b \in Branch : Other(b) \in Branch
      /\ base \in Versions
      /\ head = [b \in Branch |-> head[b]]
  BY DEF TypeOK, IsVersion, Versions, Other, Branch
<1>1. PICK b \in Branch : Commit(b) \/ MergeVersions(b) \/ FastForward(b)
  BY DEF Next
<1>2. CASE Commit(b)
  <2>0. PICK p \in Path : \E c \in Texts[p] \cup {None} :
          head' = [head EXCEPT ![b] = Committed([head[b].tree EXCEPT ![p] = c])]
    BY <1>2 DEF Commit
  <2>1. PICK c \in Texts[p] \cup {None} :
          head' = [head EXCEPT ![b] = Committed([head[b].tree EXCEPT ![p] = c])]
    BY <2>0
  <2>. DEFINE t == [head[b].tree EXCEPT ![p] = c]
  <2>2. t \in Trees
    BY <1>0, TextsAssumption DEF Trees, Build
  <2>3. v = base \/ \E a \in Branch : v = head'[a]
    BY <1>2 DEF Versions, Commit
  <2>. HIDE DEF t
  <2>4. \A a \in Branch : head'[a] = IF a = b THEN Committed(t) ELSE head[a]
    BY <1>0, <2>1 DEF t
  <2>. QED  BY <1>0, <2>2, <2>3, <2>4
<1>3. CASE MergeVersions(b)
  <2>1. PICK d \in Trees, called \in BOOLEAN :
          head' = [head EXCEPT ![b] =
                     MergedVersion(base, head[b], head[Other(b)], d, called)]
    BY <1>3 DEF MergeVersions
  <2>2. v = base' \/ \E a \in Branch : v = head'[a]
    BY DEF Versions
  <2>3. base' = head[Other(b)] /\ base # head[b] /\ base # head[Other(b)]
    BY <1>3 DEF MergeVersions
  <2>4. \A a \in Branch : head'[a] = IF a = b
          THEN MergedVersion(base, head[b], head[Other(b)], d, called) ELSE head[a]
    BY <1>0, <2>1
  <2>. QED  BY <1>0, <2>2, <2>3, <2>4
<1>4. CASE FastForward(b)
  <2>1. v = base' \/ \E a \in Branch : v = head'[a]
    BY DEF Versions
  <2>2. base' = head[Other(b)]
    BY <1>4 DEF FastForward
  <2>3. \A a \in Branch : head'[a] = IF a = b THEN head[Other(b)] ELSE head[a]
    BY <1>0, <1>4 DEF FastForward
  <2>. QED  BY <1>0, <2>1, <2>2, <2>3
<1>. QED
  BY <1>1, <1>2, <1>3, <1>4

(* The merged version's file is one of the three, or merge3's.             *)
LEMMA MergedFileCases ==
  ASSUME NEW x, NEW y, NEW z, NEW d, NEW called
  PROVE  LET m == MergedVersion(x, y, z, d, called) IN
         \/ m.file = y.file /\ (y.file = z.file \/ x.file = z.file)
         \/ m.file = z.file /\ x.file = y.file
         \/ /\ m.file = y.file
            /\ m.guessed = x.guessed \cup y.guessed \cup z.guessed \cup Path
         \/ m.file = Merge3(x.file, y.file, z.file) /\ x.file # None
BY DEF MergedVersion, MergedFile, ThreeWay, DriverResult, ByHand, FileUnread, AllDiffer

(***************************************************************************)
(* A branch without graph.json has no commit of its own.  So the driver is *)
(* never given a missing side.                                             *)
(***************************************************************************)
Tracked == \A b \in Branch : head[b].file = None => head[b] = base

LEMMA MergedVersionType ==
  ASSUME NEW x, NEW y, NEW z, NEW d \in Trees, NEW called,
         IsVersion(x), IsVersion(y), IsVersion(z),
         y.file # None, z.file # None
  PROVE  /\ IsVersion(MergedVersion(x, y, z, d, called))
         /\ MergedVersion(x, y, z, d, called).file # None
<1>. DEFINE m == MergedVersion(x, y, z, d, called)
<1>1. m.tree \in Trees
  <2>1. m.tree = [p \in Path |-> ThreeWay(x.tree[p], y.tree[p], z.tree[p], d[p])]
    BY DEF MergedVersion
  <2>2. /\ x.tree \in Trees /\ y.tree \in Trees /\ z.tree \in Trees
    BY DEF IsVersion
  <2>. HIDE DEF m
  <2>. QED  BY <2>1, <2>2 DEF ThreeWay, Trees, Build
<1>2. m.guessed \subseteq Path
  BY DEF MergedVersion, IsVersion, ByHand, Conflicts
<1>3. m = [tree |-> m.tree, file |-> m.file, guessed |-> m.guessed]
  BY DEF MergedVersion
<1>4. x.file # None => IsFile(Merge3(x.file, y.file, z.file))
  BY MergeIsFile DEF IsVersion
<1>5. IsFile(m.file)
  BY <1>4, MergedFileCases DEF IsVersion
<1>6. m.file # None
  <2>. HIDE DEF m
  <2>. QED  BY <1>5, NoFileAssumption DEF IsFile
<1>7. IsVersion(m)
  <2>. HIDE DEF m
  <2>. QED  BY <1>1, <1>2, <1>3, <1>5 DEF IsVersion
<1>. QED
  BY <1>6, <1>7

LEMMA CommittedType ==
  ASSUME NEW t \in Trees
  PROVE  IsVersion(Committed(t)) /\ Committed(t).file # None
<1>1. IsFile(Built(t))
  BY BuiltIsFile
<1>2. Built(t) # None
  BY <1>1, NoFileAssumption DEF IsFile
<1>. QED
  BY <1>1, <1>2 DEF IsVersion, Committed

LEMMA TypeInit == Init => TypeOK /\ Tracked
<1>1. ASSUME NEW t \in Trees
      PROVE  IsVersion([tree |-> t, file |-> None, guessed |-> {}])
  BY DEF IsVersion
<1>. QED
  BY <1>1, CommittedType, BoundAssumption DEF Init, TypeOK, Tracked

LEMMA TypeStep == TypeOK /\ Tracked /\ [Next]_vars => TypeOK' /\ Tracked'
<1>. SUFFICES ASSUME TypeOK, Tracked, [Next]_vars
              PROVE  TypeOK' /\ Tracked'
  OBVIOUS
<1>0. /\ \A b \in Branch : IsVersion(head[b]) /\ head[b].tree \in Trees
      /\ \A b \in Branch : Other(b) \in Branch
      /\ \A a, b \in Branch : a = b \/ a = Other(b)
      /\ IsVersion(base) /\ commits \in 0 .. MaxCommits
      /\ head = [b \in Branch |-> head[b]]
  BY DEF TypeOK, IsVersion, Other, Branch
<1>1. ASSUME NEW b \in Branch, Commit(b)
      PROVE  TypeOK' /\ Tracked'
  <2>0. PICK p \in Path : \E c \in Texts[p] \cup {None} :
          head' = [head EXCEPT ![b] = Committed([head[b].tree EXCEPT ![p] = c])]
    BY <1>1 DEF Commit
  <2>1. PICK c \in Texts[p] \cup {None} :
          head' = [head EXCEPT ![b] = Committed([head[b].tree EXCEPT ![p] = c])]
    BY <2>0
  <2>. DEFINE t == [head[b].tree EXCEPT ![p] = c]
  <2>2. t \in Trees
    BY <1>0, TextsAssumption DEF Trees, Build
  <2>. HIDE DEF t
  <2>3. IsVersion(Committed(t)) /\ Committed(t).file # None
    BY <2>2, CommittedType
  <2>4. /\ head' = [a \in Branch |-> head'[a]]
        /\ \A a \in Branch : head'[a] = IF a = b THEN Committed(t) ELSE head[a]
    BY <1>0, <2>1 DEF t
  <2>5. base' = base /\ commits' \in 0 .. MaxCommits
    BY <1>0, <1>1, BoundAssumption DEF Commit
  <2>. QED  BY <1>0, <2>3, <2>4, <2>5 DEF TypeOK, Tracked
<1>2. ASSUME NEW b \in Branch, MergeVersions(b)
      PROVE  TypeOK' /\ Tracked'
  <2>1. PICK d \in Trees, called \in BOOLEAN :
          head' = [head EXCEPT ![b] =
                     MergedVersion(base, head[b], head[Other(b)], d, called)]
    BY <1>2 DEF MergeVersions
  <2>. DEFINE m == MergedVersion(base, head[b], head[Other(b)], d, called)
  <2>2. head[b].file # None /\ head[Other(b)].file # None
    BY <1>0, <1>2 DEF Tracked, MergeVersions
  <2>3. IsVersion(m) /\ m.file # None
    BY <1>0, <2>2, MergedVersionType
  <2>. HIDE DEF m
  <2>4. /\ head' = [a \in Branch |-> head'[a]]
        /\ \A a \in Branch : head'[a] = IF a = b THEN m ELSE head[a]
    BY <1>0, <2>1 DEF m
  <2>5. base' = head[Other(b)] /\ commits' = commits
    BY <1>2 DEF MergeVersions
  <2>6. TypeOK'
    BY <1>0, <2>3, <2>4, <2>5 DEF TypeOK
  <2>7. Tracked'
    BY <1>0, <2>2, <2>3, <2>4 DEF Tracked
  <2>. QED  BY <2>6, <2>7
<1>3. ASSUME NEW b \in Branch, FastForward(b)
      PROVE  TypeOK' /\ Tracked'
  <2>1. /\ head' = [a \in Branch |-> head'[a]]
        /\ \A a \in Branch : head'[a] = IF a = b THEN head[Other(b)] ELSE head[a]
    BY <1>0, <1>3 DEF FastForward
  <2>2. base' = head[Other(b)] /\ commits' = commits
    BY <1>3 DEF FastForward
  <2>3. TypeOK'
    BY <1>0, <2>1, <2>2 DEF TypeOK
  <2>4. Tracked'
    BY <1>0, <2>1, <2>2 DEF Tracked
  <2>. QED  BY <2>3, <2>4
<1>4. CASE UNCHANGED vars
  BY <1>4 DEF vars, TypeOK, Tracked, IsVersion
<1>. QED
  BY <1>1, <1>2, <1>3, <1>4 DEF Next

(* Both tips and the base stay well typed (Init, Commit, merge driver).    *)
THEOREM VersionsTyped == Spec => []TypeOK
<1>. QED
  BY TypeInit, TypeStep, PTL DEF Spec

(***************************************************************************)
(* Well-formedness, and which labels and edges a file of sources has.      *)
(***************************************************************************)
AllWellFormed == \A v \in Versions : v.file # None => WellFormed(v.file)

LEMMA VersionFacts ==
  ASSUME TypeOK, Tracked
  PROVE  /\ \A v \in Versions : IsVersion(v)
         /\ base \in Versions
         /\ \A b \in Branch : Other(b) \in Branch /\ head[b] \in Versions
         /\ \A b \in Branch : base # head[b] => head[b].file # None
BY DEF TypeOK, Versions, Tracked, Other, Branch

LEMMA WellFormedInit == Init => AllWellFormed
BY BuiltIsFile DEF Init, AllWellFormed, Versions, Committed

LEMMA WellFormedStep ==
  TypeOK /\ Tracked /\ AllWellFormed /\ [Next]_vars => AllWellFormed'
<1>. SUFFICES ASSUME TypeOK, Tracked, AllWellFormed, [Next]_vars
              PROVE  AllWellFormed'
  OBVIOUS
<1>1. CASE Next
  <2>. SUFFICES ASSUME NEW v \in Versions', v.file # None
                PROVE  WellFormed(v.file)
    BY DEF AllWellFormed
  <2>1. CASE v \in Versions
    BY <2>1 DEF AllWellFormed
  <2>2. ASSUME NEW t \in Trees, v = Committed(t)
        PROVE  WellFormed(v.file)
    BY <2>2, BuiltIsFile DEF Committed
  <2>3. ASSUME NEW b \in Branch, NEW d \in Trees, NEW called \in BOOLEAN,
               v = MergedVersion(base, head[b], head[Other(b)], d, called),
               base # head[b], base # head[Other(b)]
        PROVE  WellFormed(v.file)
    <3>. DEFINE x == base  y == head[b]  z == head[Other(b)]
    <3>1. /\ IsVersion(x) /\ IsVersion(y) /\ IsVersion(z)
          /\ y.file # None /\ z.file # None
          /\ x \in Versions /\ y \in Versions /\ z \in Versions
      BY <2>3, VersionFacts
    <3>2. WellFormed(y.file) /\ WellFormed(z.file)
      BY <3>1 DEF AllWellFormed
    <3>3. x.file # None => WellFormed(Merge3(x.file, y.file, z.file))
      BY <3>1, <3>2, MergeWellFormed DEF IsVersion
    <3>. QED  BY <2>3, <3>2, <3>3, MergedFileCases
  <2>. QED  BY <1>1, <2>1, <2>2, <2>3, VersionFlow
<1>2. CASE UNCHANGED vars
  BY <1>2 DEF vars, AllWellFormed, Versions
<1>. QED
  BY <1>1, <1>2

(* No merge of any history produces a graph.json with a label twice or an  *)
(* edge without its endpoints (merge3's phases 1 and 4).                   *)
THEOREM MergesWellFormed == Spec => []FileWellFormed
<1>1. AllWellFormed => FileWellFormed
  BY DEF AllWellFormed, FileWellFormed, Versions
<1>. QED
  BY TypeInit, TypeStep, WellFormedInit, WellFormedStep, <1>1, PTL DEF Spec

(***************************************************************************)
(* Among the labels no two files can declare, a file is told by its labels *)
(***************************************************************************)
Able(p) == (UNION {Decl[c] : c \in Texts[p]}) \cap Sole(Texts)
Owned(f) == \A n \in NodesAmong(f, Sole(Texts)) : n.label \in Able(n.file)

LabelsOf(f, p) == Labels(f) \cap Able(p)
EdgesOf(f, p)  == {e \in f.edges : Within(e, Able(p))}
OwnEdgesOf(t, p) == {e \in RelatedBy(t, p) : Within(e, OwnLabels(t, p))}

Matches(v, p) ==
  /\ LabelsOf(v.file, p) = OwnLabels(v.tree, p)
  /\ EdgesOf(v.file, p) = OwnEdgesOf(v.tree, p)

Sound(v) ==
  v.file # None => /\ Owned(v.file)
                   /\ \A p \in Path \ v.guessed : Matches(v, p)
AllSound == \A v \in Versions : Sound(v)

LEMMA AbleFacts ==
  /\ \A t \in Trees : \A p \in Path : OwnLabels(t, p) \subseteq Able(p)
  /\ \A t \in Trees : \A p \in Path : \A l \in DeclaredBy(t, p) :
       l \in Sole(Texts) => l \in OwnLabels(t, p)
  /\ \A p \in Path : Able(p) \subseteq Sole(Texts)
  /\ \A p, q \in Path : p # q => Able(p) \cap Able(q) = {}
<1>1. ASSUME NEW t \in Trees, NEW p \in Path
      PROVE  OwnLabels(t, p) \subseteq Able(p)
  BY DEF Trees, OwnLabels, DeclaredBy, Able
<1>2. ASSUME NEW p \in Path, NEW q \in Path, p # q
      PROVE  Able(p) \cap Able(q) = {}
  BY <1>2 DEF Sole, Able
<1>. QED
  BY <1>1, <1>2 DEF OwnLabels, Able

(* A full build matches every file.                                        *)
LEMMA BuiltMatches ==
  ASSUME Anchored, NEW t \in Trees
  PROVE  Sound(Committed(t))
<1>0. /\ t \in Build
      /\ Built(t).nodes = Assemble(t).nodes /\ Built(t).edges = Assemble(t).edges
  BY BuiltIsFile
<1>1. /\ Labels(Built(t)) = Declared(t)
      /\ Justified(Assemble(t), t)
      /\ Assemble(t).nodes \subseteq Node
  BY <1>0, AssembleFacts DEF Labels, Graph
<1>2. Owned(Built(t))
  <2>1. SUFFICES ASSUME NEW n \in Assemble(t).nodes, n.label \in Sole(Texts)
                 PROVE  n.label \in Able(n.file)
    BY <1>0 DEF Owned, NodesAmong
  <2>2. n.file \in Path /\ n.label \in DeclaredBy(t, n.file)
    BY <1>1 DEF Justified, Node
  <2>. QED  BY <2>1, <2>2, AbleFacts
<1>3. ASSUME NEW p \in Path
      PROVE  LabelsOf(Built(t), p) = OwnLabels(t, p)
  <2>1. ASSUME NEW l \in Declared(t), l \in Able(p)
        PROVE  l \in OwnLabels(t, p)
    <3>1. PICK q \in Path : l \in DeclaredBy(t, q)
      BY DEF Declared
    <3>2. l \in Able(q)
      BY <2>1, <3>1, AbleFacts
    <3>3. q = p
      BY <2>1, <3>2, AbleFacts
    <3>. QED  BY <2>1, <3>1, <3>3, AbleFacts
  <2>2. OwnLabels(t, p) \subseteq Declared(t) \cap Able(p)
    BY AbleFacts DEF Declared, OwnLabels
  <2>. QED  BY <1>1, <2>1, <2>2 DEF LabelsOf
<1>4. ASSUME NEW p \in Path
      PROVE  EdgesOf(Built(t), p) = OwnEdgesOf(t, p)
  <2>1. Built(t).edges = {e \in Related(t) : Within(e, Declared(t))}
    BY <1>0 DEF Assemble
  <2>2. ASSUME NEW e \in Related(t), Within(e, Declared(t)), Within(e, Able(p))
        PROVE  e \in OwnEdgesOf(t, p)
    <3>1. PICK q \in Path : e \in RelatedBy(t, q)
      BY <2>2 DEF Related
    <3>2. PICK l \in {e.src, e.tgt} : l \in DeclaredBy(t, q)
      BY <1>0, <3>1 DEF Anchored, RelatedBy, DeclaredBy, Build
    <3>3. l \in Able(p) /\ l \in Able(q)
      BY <2>2, <3>2, AbleFacts DEF Within
    <3>4. q = p
      BY <3>3, AbleFacts
    <3>5. Within(e, OwnLabels(t, p))
      BY <1>1, <1>3, <2>2 DEF LabelsOf, Within
    <3>. QED  BY <3>1, <3>4, <3>5 DEF OwnEdgesOf
  <2>3. ASSUME NEW e \in OwnEdgesOf(t, p)
        PROVE  e \in Related(t) /\ Within(e, Declared(t)) /\ Within(e, Able(p))
    BY AbleFacts DEF OwnEdgesOf, OwnLabels, Related, Declared, Within
  <2>. QED  BY <2>1, <2>2, <2>3 DEF EdgesOf
<1>. QED
  BY <1>2, <1>3, <1>4 DEF Sound, Matches, Committed

(***************************************************************************)
(* merge3 works on the labels and the inner edges of each file as git's    *)
(* three-way choice works on its texts.                                    *)
(***************************************************************************)
LEMMA MergeParts ==
  ASSUME NEW x, NEW y, NEW z, IsFile(x), IsFile(y), IsFile(z), NEW p,
         WellFormed(x), WellFormed(y), WellFormed(z)
  PROVE  /\ LabelsOf(Merge3(x, y, z), p)
              = Kept(LabelsOf(x, p), LabelsOf(y, p), LabelsOf(z, p))
         /\ EdgesOf(Merge3(x, y, z), p)
              = {e \in Kept(EdgesOf(x, p), EdgesOf(y, p), EdgesOf(z, p)) :
                   Within(e, LabelsOf(Merge3(x, y, z), p))}
<1>1. LabelsOf(Merge3(x, y, z), p) = KeptLabels(x, y, z) \cap Able(p)
  BY LabelFacts DEF LabelsOf
<1>2. KeptLabels(x, y, z) \cap Able(p)
        = Kept(LabelsOf(x, p), LabelsOf(y, p), LabelsOf(z, p))
  BY DEF KeptLabels, Kept, LabelsOf
<1>3. EdgeKeys(x) = x.edges /\ EdgeKeys(y) = y.edges /\ EdgeKeys(z) = z.edges
  BY DEF WellFormed, EdgeKeys
<1>4. Merge3(x, y, z).edges = {e \in Kept(x.edges, y.edges, z.edges) :
                                 Within(e, KeptLabels(x, y, z))}
  BY <1>3 DEF Merge3, MergedEdges
<1>5. Kept(EdgesOf(x, p), EdgesOf(y, p), EdgesOf(z, p))
        = {e \in Kept(x.edges, y.edges, z.edges) : Within(e, Able(p))}
  BY DEF Kept, EdgesOf
<1>6. \A e : Within(e, LabelsOf(Merge3(x, y, z), p))
               <=> Within(e, KeptLabels(x, y, z)) /\ Within(e, Able(p))
  BY <1>1 DEF Within
<1>. QED
  BY <1>1, <1>2, <1>4, <1>5, <1>6 DEF EdgesOf

LEMMA MergeOwned ==
  ASSUME NEW x, NEW y, NEW z, Owned(y), Owned(z)
  PROVE  Owned(Merge3(x, y, z))
BY DEF Owned, NodesAmong, Merge3, WinningNodes

LEMMA MergedMatches ==
  ASSUME NEW x, NEW y, NEW z, NEW d \in Trees, NEW called,
         IsVersion(x), IsVersion(y), IsVersion(z),
         Sound(x), Sound(y), Sound(z), y.file # None, z.file # None,
         x.file # None => WellFormed(x.file), WellFormed(y.file), WellFormed(z.file),
         NEW p \in Path, p \notin MergedVersion(x, y, z, d, called).guessed
  PROVE  Matches(MergedVersion(x, y, z, d, called), p)
<1>. DEFINE m == MergedVersion(x, y, z, d, called)
<1>1. /\ p \notin x.guessed /\ p \notin y.guessed /\ p \notin z.guessed
      /\ p \notin ByHand(x, y, z)
      /\ m.tree[p] = ThreeWay(x.tree[p], y.tree[p], z.tree[p], d[p])
  BY DEF MergedVersion
<1>2. /\ Matches(y, p) /\ Matches(z, p)
      /\ x.file # None => Matches(x, p)
  BY <1>1 DEF Sound
<1>3. /\ ~FileUnread(x.file, y.file, z.file)
      /\ ~AllDiffer(x.tree[p], y.tree[p], z.tree[p])
  BY <1>1 DEF ByHand, Conflicts
<1>4. \/ m.tree[p] = y.tree[p] /\ y.tree[p] = z.tree[p]
      \/ m.tree[p] = y.tree[p] /\ x.tree[p] = z.tree[p]
      \/ m.tree[p] = z.tree[p] /\ x.tree[p] = y.tree[p]
  BY <1>1, <1>3 DEF ThreeWay, AllDiffer
<1>. HIDE DEF m
<1>5. CASE x.file = None
  (* The tips have the same file, or it would have been left unread.       *)
  <2>1. y.file = z.file /\ m.file = y.file
    BY <1>3, <1>5 DEF FileUnread, AllDiffer, m, MergedVersion, MergedFile, ThreeWay
  <2>2. \/ m.tree[p] = y.tree[p] \/ m.tree[p] = z.tree[p]
    BY <1>4
  <2>. QED  BY <1>2, <2>1, <2>2 DEF m, Matches, OwnEdgesOf, RelatedBy, OwnLabels, DeclaredBy
<1>6. CASE x.file # None
  <2>. DEFINE LX == LabelsOf(x.file, p)  EX == EdgesOf(x.file, p)
              LY == LabelsOf(y.file, p)  EY == EdgesOf(y.file, p)
              LZ == LabelsOf(z.file, p)  EZ == EdgesOf(z.file, p)
              LT == OwnLabels(m.tree, p)  ET == OwnEdgesOf(m.tree, p)
  <2>1. LT = Kept(LX, LY, LZ) /\ ET = Kept(EX, EY, EZ)
    <3>1. \/ LT = LY /\ ET = EY /\ LY = LZ /\ EY = EZ
          \/ LT = LY /\ ET = EY /\ LX = LZ /\ EX = EZ
          \/ LT = LZ /\ ET = EZ /\ LX = LY /\ EX = EY
      <4>1. CASE m.tree[p] = y.tree[p] /\ y.tree[p] = z.tree[p]
        BY <1>2, <4>1 DEF Matches, OwnEdgesOf, RelatedBy, OwnLabels, DeclaredBy
      <4>2. CASE m.tree[p] = y.tree[p] /\ x.tree[p] = z.tree[p]
        BY <1>2, <1>6, <4>2 DEF Matches, OwnEdgesOf, RelatedBy, OwnLabels, DeclaredBy
      <4>3. CASE m.tree[p] = z.tree[p] /\ x.tree[p] = y.tree[p]
        BY <1>2, <1>6, <4>3 DEF Matches, OwnEdgesOf, RelatedBy, OwnLabels, DeclaredBy
      <4>. QED  BY <1>4, <4>1, <4>2, <4>3
    <3>. HIDE DEF LX, LY, LZ, EX, EY, EZ, LT, ET
    <3>. QED  BY <3>1, KeptChoice
  <2>2. CASE m.file = Merge3(x.file, y.file, z.file)
    <3>1. IsFile(x.file) /\ IsFile(y.file) /\ IsFile(z.file)
      BY <1>6 DEF IsVersion
    <3>2. LabelsOf(m.file, p) = LT
      BY <1>6, <2>1, <2>2, <3>1, MergeParts
    <3>3. EdgesOf(m.file, p) = {e \in ET : Within(e, LT)}
      BY <1>6, <2>1, <2>2, <3>1, <3>2, MergeParts
    <3>4. ET = {e \in ET : Within(e, LT)}
      BY DEF OwnEdgesOf
    <3>. QED  BY <3>2, <3>3, <3>4 DEF Matches, m
  <2>3. CASE m.file = y.file /\ (y.file = z.file \/ x.file = z.file)
    <3>1. LY = Kept(LX, LY, LZ) /\ EY = Kept(EX, EY, EZ)
      BY <2>3, KeptChoice
    <3>. QED  BY <2>1, <2>3, <3>1 DEF Matches, m
  <2>4. CASE m.file = z.file /\ x.file = y.file
    <3>1. LZ = Kept(LX, LY, LZ) /\ EZ = Kept(EX, EY, EZ)
      BY <2>4, KeptChoice
    <3>. QED  BY <2>1, <2>4, <3>1 DEF Matches, m
  <2>5. \/ m.file = y.file /\ (y.file = z.file \/ x.file = z.file)
        \/ m.file = z.file /\ x.file = y.file
        \/ m.file = Merge3(x.file, y.file, z.file)
    BY <1>6 DEF m, MergedVersion, MergedFile, ThreeWay, DriverResult
  <2>. QED  BY <2>2, <2>3, <2>4, <2>5
<1>. QED
  BY <1>5, <1>6

LEMMA MergedSound ==
  ASSUME NEW x, NEW y, NEW z, NEW d \in Trees, NEW called,
         IsVersion(x), IsVersion(y), IsVersion(z),
         Sound(x), Sound(y), Sound(z), y.file # None, z.file # None,
         x.file # None => WellFormed(x.file), WellFormed(y.file), WellFormed(z.file)
  PROVE  Sound(MergedVersion(x, y, z, d, called))
<1>1. Owned(y.file) /\ Owned(z.file)
  BY DEF Sound
<1>2. Owned(MergedVersion(x, y, z, d, called).file)
  BY <1>1, MergeOwned, MergedFileCases
<1>3. \A p \in Path \ MergedVersion(x, y, z, d, called).guessed :
         Matches(MergedVersion(x, y, z, d, called), p)
  BY MergedMatches
<1>. QED
  BY <1>2, <1>3 DEF Sound

LEMMA SoundInit ==
  ASSUME Anchored
  PROVE  Init => AllSound
BY BuiltMatches DEF Init, AllSound, Versions, Sound

LEMMA SoundStep ==
  ASSUME Anchored
  PROVE  TypeOK /\ Tracked /\ AllWellFormed /\ AllSound /\ [Next]_vars => AllSound'
<1>. SUFFICES ASSUME TypeOK, Tracked, AllWellFormed, AllSound, [Next]_vars
              PROVE  AllSound'
  OBVIOUS
<1>1. CASE Next
  <2>. SUFFICES ASSUME NEW v \in Versions'
                PROVE  Sound(v)
    BY DEF AllSound
  <2>1. CASE v \in Versions
    BY <2>1 DEF AllSound
  <2>2. ASSUME NEW t \in Trees, v = Committed(t)
        PROVE  Sound(v)
    BY <2>2, BuiltMatches
  <2>3. ASSUME NEW b \in Branch, NEW d \in Trees, NEW called \in BOOLEAN,
               v = MergedVersion(base, head[b], head[Other(b)], d, called),
               base # head[b], base # head[Other(b)]
        PROVE  Sound(v)
    <3>. DEFINE x == base  y == head[b]  z == head[Other(b)]
    <3>1. /\ IsVersion(x) /\ IsVersion(y) /\ IsVersion(z)
          /\ y.file # None /\ z.file # None
          /\ x \in Versions /\ y \in Versions /\ z \in Versions
      BY <2>3, VersionFacts
    <3>2. /\ x.file # None => WellFormed(x.file)
          /\ WellFormed(y.file) /\ WellFormed(z.file)
      BY <3>1 DEF AllWellFormed
    <3>3. Sound(x) /\ Sound(y) /\ Sound(z)
      BY <3>1 DEF AllSound
    <3>. QED  BY <2>3, <3>1, <3>2, <3>3, MergedSound
  <2>. QED  BY <1>1, <2>1, <2>2, <2>3, VersionFlow
<1>2. CASE UNCHANGED vars
  BY <1>2 DEF vars, AllSound, Versions
<1>. QED
  BY <1>1, <1>2

LEMMA SoundFollows ==
  ASSUME TypeOK, AllSound
  PROVE  FilesFollowSources
<1>. SUFFICES ASSUME NEW b \in Branch, head[b].file # None,
                     NEW p \in Path \ head[b].guessed
              PROVE  FollowsSource(head[b], p)
  BY DEF FilesFollowSources
<1>. DEFINE v == head[b]  ls == OwnLabels(v.tree, p)
<1>1. IsVersion(v) /\ IsFile(v.file) /\ v.tree \in Trees
  BY DEF TypeOK, IsVersion
<1>2. Owned(v.file) /\ Matches(v, p)
  BY DEF AllSound, Versions, Sound
<1>3. Labels(v.file) \cap Able(p) = ls /\ ls \subseteq Able(p)
  BY <1>2 DEF Matches, LabelsOf
<1>4. \A n \in v.file.nodes : n \in Node /\ n.label \in Labels(v.file)
  BY <1>1, FileFacts DEF Labels
<1>5. \A n \in v.file.nodes :
        n.file = p /\ n.label \in Sole(Texts) <=> n.label \in ls
  <2>1. \A n \in v.file.nodes : n.label \in Sole(Texts) =>
          n.file \in Path /\ n.label \in Able(n.file)
    BY <1>2, <1>4 DEF Owned, NodesAmong, Node
  <2>2. ls \subseteq Sole(Texts)
    BY DEF OwnLabels
  <2>. HIDE DEF v, ls
  <2>. QED  BY <1>3, <1>4, <2>1, <2>2, AbleFacts
<1>6. {n \in NodesAmong(v.file, Sole(Texts)) : n.file = p}
        = {[label |-> l, file |-> p] : l \in ls}
  <2>1. ASSUME NEW n \in v.file.nodes, n.file = p, n.label \in Sole(Texts)
        PROVE  n \in {[label |-> l, file |-> p] : l \in ls}
    BY <1>4, <1>5, <2>1 DEF Node
  <2>2. ASSUME NEW l \in ls
        PROVE  [label |-> l, file |-> p] \in v.file.nodes
    <3>1. PICK n \in v.file.nodes : n.label = l
      BY <1>3, <2>2 DEF Labels
    <3>2. n.file = p /\ n \in Node
      BY <1>4, <1>5, <2>2, <3>1
    <3>3. n = [label |-> l, file |-> p]
      BY <3>1, <3>2 DEF Node
    <3>. QED  BY <3>3
  <2>3. ls \subseteq Sole(Texts)
    BY DEF OwnLabels
  <2>. HIDE DEF v, ls
  <2>. QED  BY <2>1, <2>2, <2>3 DEF NodesAmong
<1>7. EdgesAmong(v.file, ls) = {e \in RelatedBy(v.tree, p) : Within(e, ls)}
  <2>1. {e \in v.file.edges : Within(e, Able(p))}
          = {e \in RelatedBy(v.tree, p) : Within(e, ls)}
    BY <1>2 DEF Matches, EdgesOf, OwnEdgesOf
  <2>2. \A e : Within(e, ls) => Within(e, Able(p))
    BY <1>3 DEF Within
  <2>. HIDE DEF v, ls
  <2>. QED  BY <2>1, <2>2 DEF EdgesAmong
<1>. QED
  BY <1>6, <1>7 DEF FollowsSource

(* When an edge has an end where it is found, every history of commits and *)
(* merges leaves graph.json right about each source file that merged       *)
(* without a conflict, on the labels no other file can declare and the     *)
(* edges among them, whatever becomes of the labels that files share       *)
(* (merge3 against git's own three-way choice).                            *)
THEOREM MergesFollowSources ==
  ASSUME Anchored
  PROVE  Spec => []FilesFollowSources
<1>1. Init => TypeOK /\ Tracked /\ AllWellFormed /\ AllSound
  BY TypeInit, WellFormedInit, SoundInit
<1>2. TypeOK /\ Tracked /\ AllWellFormed /\ AllSound /\ [Next]_vars
        => (TypeOK /\ Tracked /\ AllWellFormed /\ AllSound)'
  BY TypeStep, WellFormedStep, SoundStep
<1>3. TypeOK /\ Tracked /\ AllWellFormed /\ AllSound => FilesFollowSources
  BY SoundFollows
<1>. QED
  BY <1>1, <1>2, <1>3, PTL DEF Spec
=============================================================================
