--------------------------- MODULE ExtractProofs ---------------------------
(***************************************************************************)
(* extract_files, for any files and any trees: the graph of all the files  *)
(* an extractor claims, or an error and none; and what the walkers find in *)
(* whatever tree, of each language.  The trees are no deeper than Visited  *)
(* looks, and their names are sequences of words.                          *)
(***************************************************************************)
EXTENDS Extract, WellFoundedInduction, SequenceTheorems, FiniteSetTheorems, TLAPS

Claimed == {p \in Path : Language(source[p]) # "none"}

Results == {Extraction(s) : s \in Source} \cup {None}

(* What a thread has left behind of each file it took.                     *)
Progress ==
  /\ source \in [Path -> Source]
  /\ todo \subseteq Path /\ gone \subseteq Path
  /\ found \in [Path -> Results]
  /\ \A p \in Path :
       \/ found[p] = None
       \/ p \in Claimed /\ found[p] = Extraction(source[p]) /\ found[p] # None
  /\ \A p \in Claimed \ todo : found[p] # None \/ p \in failed
  /\ failed \subseteq Claimed \cap gone
  /\ result \in {"none", "ok", "error"}

LEMMA ProgressInit == Init => Progress
BY DEF Init, Progress, Results, Claimed

LEMMA ProgressStep == Progress /\ [Next]_vars => Progress'
<1>. SUFFICES ASSUME Progress, [Next]_vars
              PROVE  Progress'
  OBVIOUS
<1>0. source' = source
  BY DEF Next, vars, Vanish, Skip, Walk, Collect
<1>1. Claimed' = Claimed
  BY <1>0 DEF Claimed
<1>2. ASSUME NEW p \in Path, Vanish(p)
      PROVE  Progress'
  BY <1>0, <1>1, <1>2 DEF Vanish, Progress
<1>3. ASSUME NEW p \in Path, Skip(p)
      PROVE  Progress'
  <2>1. p \notin Claimed
    BY <1>3 DEF Skip, Claimed
  <2>. QED  BY <1>0, <1>1, <1>3, <2>1 DEF Skip, Progress
<1>4. ASSUME NEW p \in Path, Walk(p)
      PROVE  Progress'
  <2>1. /\ p \in Claimed /\ Extraction(source[p]) # None
        /\ Extraction(source[p]) \in Results
    BY <1>4, NoneAssumption DEF Walk, Claimed, Progress, Results
  <2>2. CASE p \notin gone /\ found' = [found EXCEPT ![p] = Extraction(source[p])] /\ failed' = failed
    BY <1>0, <1>1, <1>4, <2>1, <2>2 DEF Walk, Progress
  <2>3. CASE p \in gone /\ failed' = failed \cup {p} /\ found' = found
    BY <1>0, <1>1, <1>4, <2>1, <2>3 DEF Walk, Progress
  <2>. QED  BY <1>4, <2>2, <2>3 DEF Walk
<1>5. CASE Collect
  BY <1>0, <1>1, <1>5 DEF Collect, Progress
<1>6. CASE UNCHANGED vars
  BY <1>1, <1>6 DEF vars, Progress
<1>. QED
  BY <1>2, <1>3, <1>4, <1>5, <1>6 DEF Next

(* The first of some files, in detect's order.                             *)
LEMMA FirstOfFiles ==
  ASSUME NEW S \in SUBSET Path, S # {}
  PROVE  /\ Min(S) \in S /\ \A q \in S : Min(S) <= q
         /\ \A p \in S : (\A q \in S : p <= q) => p = Min(S)
<1>. DEFINE Less == OpToRel(<, Nat)
<1>1. S \subseteq Nat
  BY PathAssumption
<1>2. \E p \in S : \A q \in S : p <= q
  <2>1. IsWellFoundedOn(Less, Nat)
    BY NatLessThanWellFounded
  <2>2. PICK p \in S : \A q \in S : <<q, p>> \notin Less
    <3>. HIDE DEF Less
    <3>. QED  BY <1>1, <2>1, WFMin
  <2>3. \A q \in S : ~(q < p)
    BY <1>1, <2>2 DEF OpToRel
  <2>. QED  BY <1>1, <2>3
<1>3. Min(S) = CHOOSE x \in S : \A y \in S : x <= y
  BY DEF Min
<1>4. Min(S) \in S /\ \A q \in S : Min(S) <= q
  BY <1>2, <1>3
<1>5. ASSUME NEW p \in S, \A q \in S : p <= q
      PROVE  p = Min(S)
  <2>1. p <= Min(S) /\ Min(S) <= p
    BY <1>4, <1>5
  <2>2. p \in Nat /\ Min(S) \in Nat
    BY <1>1, <1>4
  <2>. QED  BY <2>1, <2>2
<1>. QED
  BY <1>4, <1>5

(***************************************************************************)
(* What is assembled.                                                      *)
(***************************************************************************)
Everything == All({Extraction(source[p]) : p \in Claimed})
FirstWith(l) == Min({p \in Claimed : l \in Extraction(source[p]).nodes})
FullGraph ==
  [nodes |-> {[label |-> l, file |-> FirstWith(l)] : l \in Everything.nodes},
   edges |-> {e \in RefsOf(Everything) : {e.src, e.tgt} \subseteq Everything.nodes}]

LEMMA AssembledIsFull ==
  ASSUME Progress, todo = {}, failed = {}
  PROVE  G!Assemble(found) = FullGraph
<1>. DEFINE labels(p) == G!DeclaredBy(found, p)
            pairs(p) == G!RelatedBy(found, p)
<1>1. ASSUME NEW p \in Claimed
      PROVE  /\ labels(p) = Extraction(source[p]).nodes
             /\ pairs(p) = RefsOf(Extraction(source[p]))
  <2>1. p \in Path /\ found[p] = Extraction(source[p]) /\ found[p] # None
    BY DEF Progress, Claimed
  <2>2. found[p] \in Found
    BY <2>1 DEF Found
  <2>. QED  BY <2>1, <2>2 DEF G!DeclaredBy, G!RelatedBy
<1>2. ASSUME NEW p \in Path \ Claimed
      PROVE  labels(p) = {} /\ pairs(p) = {}
  BY DEF Progress, G!DeclaredBy, G!RelatedBy
<1>. HIDE DEF labels, pairs
<1>3. Everything.nodes = UNION {x.nodes : x \in {Extraction(source[p]) : p \in Claimed}}
  BY DEF Everything, All
<1>4. Everything.edges = UNION {x.edges : x \in {Extraction(source[p]) : p \in Claimed}}
  BY DEF Everything, All
<1>5. G!Declared(found) = Everything.nodes
  <2>1. G!Declared(found) = UNION {labels(p) : p \in Path}
    BY DEF G!Declared, labels
  <2>. QED  BY <1>1, <1>2, <1>3, <2>1 DEF Claimed
<1>6. G!Related(found) = RefsOf(Everything)
  <2>1. G!Related(found) = UNION {pairs(p) : p \in Path}
    BY DEF G!Related, pairs
  <2>2. G!Related(found) = UNION {RefsOf(Extraction(source[p])) : p \in Claimed}
    BY <1>1, <1>2, <2>1 DEF Claimed
  <2>. QED  BY <1>4, <2>2 DEF RefsOf
<1>7. ASSUME NEW l \in Everything.nodes
      PROVE  G!FirstFile(found, l) = FirstWith(l)
  <2>. DEFINE S == {p \in Claimed : l \in Extraction(source[p]).nodes}
  <2>1. S \in SUBSET Path /\ S # {}
    BY <1>3 DEF Claimed
  <2>2. /\ Min(S) \in S /\ \A q \in S : Min(S) <= q
        /\ \A p \in S : (\A q \in S : p <= q) => p = Min(S)
    <3>. HIDE DEF S
    <3>. QED  BY <2>1, FirstOfFiles
  <2>3. \A p \in Path : l \in labels(p) <=> p \in S
    BY <1>1, <1>2 DEF Claimed
  <2>4. G!FirstFile(found, l) = CHOOSE p \in Path : /\ l \in labels(p)
                                                    /\ \A q \in Path : l \in labels(q) => p <= q
    BY DEF G!FirstFile, labels
  <2>. HIDE DEF S
  <2>5. \E p \in Path : l \in labels(p) /\ \A q \in Path : l \in labels(q) => p <= q
    BY <2>1, <2>2, <2>3
  <2>6. \A p \in Path : l \in labels(p) /\ (\A q \in Path : l \in labels(q) => p <= q)
                          => p = Min(S)
    BY <2>1, <2>2, <2>3
  <2>7. G!FirstFile(found, l) = Min(S)
    BY <2>4, <2>5, <2>6
  <2>. QED  BY <2>7 DEF FirstWith, S
<1>8. \A e : G!Within(e, Everything.nodes) <=> {e.src, e.tgt} \subseteq Everything.nodes
  BY DEF G!Within
<1>. QED
  BY <1>5, <1>6, <1>7, <1>8 DEF G!Assemble, FullGraph

(***************************************************************************)
(* The graph of all or of none.                                            *)
(***************************************************************************)
Outcome ==
  /\ result = "ok" => graph = FullGraph
  /\ result # "ok" => graph = G!EmptyGraph
  /\ result = "error" => Claimed \cap gone # {}

LEMMA OutcomeInit == Init => Outcome
BY DEF Init, Outcome, G!EmptyGraph

LEMMA OutcomeStep == Progress /\ Outcome /\ [Next]_vars => Outcome'
<1>. SUFFICES ASSUME Progress, Outcome, [Next]_vars
              PROVE  Outcome'
  OBVIOUS
<1>1. source' = source
  BY DEF Next, vars, Vanish, Skip, Walk, Collect
<1>2. Claimed' = Claimed /\ FullGraph' = FullGraph
  BY <1>1 DEF Claimed, FullGraph, Everything, FirstWith
<1>3. G!EmptyGraph' = G!EmptyGraph
  BY DEF G!EmptyGraph
<1>4. ASSUME NEW p \in Path, Vanish(p) \/ Skip(p) \/ Walk(p)
      PROVE  Outcome'
  <2>1. gone \subseteq gone' /\ result' = result /\ graph' = graph
    BY <1>4 DEF Vanish, Skip, Walk
  <2>. QED  BY <1>2, <1>3, <2>1 DEF Outcome
<1>5. CASE Collect
  <2>1. CASE todo = {} /\ failed = {} /\ result' = "ok" /\ graph' = G!Assemble(found)
    BY <1>2, <2>1, AssembledIsFull DEF Outcome
  <2>2. CASE failed # {} /\ result' = "error" /\ graph' = graph
    <3>1. Claimed \cap gone # {} /\ gone' = gone /\ graph = G!EmptyGraph
      BY <1>5, <2>2 DEF Collect, Progress, Outcome
    <3>. QED  BY <1>2, <1>3, <2>2, <3>1 DEF Outcome
  <2>. QED  BY <1>5, <2>1, <2>2 DEF Collect
<1>6. CASE UNCHANGED vars
  BY <1>2, <1>3, <1>6 DEF vars, Outcome
<1>. QED
  BY <1>4, <1>5, <1>6 DEF Next

(* In whatever order the threads take the files: an ok comes with the      *)
(* graph of every file an extractor claims, each label in the first file   *)
(* that has it; an error comes with none, and only if a file has gone.     *)
THEOREM AllOrNothingAlways == Spec => []AllOrNothing
<1>1. Outcome => AllOrNothing
  BY DEF Outcome, AllOrNothing, FullGraph, Everything, FirstWith, Claimed
<1>. QED
  BY <1>1, ProgressInit, ProgressStep, OutcomeInit, OutcomeStep, PTL DEF Spec

(***************************************************************************)
(* Recursion and words.                                                    *)
(***************************************************************************)
(* What 0 is in, and with each number below N the next, has all to N.      *)
LEMMA UpTo ==
  ASSUME NEW N \in Nat, NEW T, 0 \in T, \A k \in 1..N : k - 1 \in T => k \in T
  PROVE  0..N \subseteq T
<1>. DEFINE Less == OpToRel(<, Nat)
            Bad == 0..N \ T
<1>. SUFFICES ASSUME Bad # {}
              PROVE  FALSE
  OBVIOUS
<1>1. PICK k \in Bad : \A j \in Bad : <<j, k>> \notin Less
  <2>1. IsWellFoundedOn(Less, Nat)
    BY NatLessThanWellFounded
  <2>2. Bad \subseteq Nat
    OBVIOUS
  <2>. HIDE DEF Less, Bad
  <2>. QED  BY <2>1, <2>2, WFMin
<1>2. k \in 1..N /\ k - 1 \in 0..N
  OBVIOUS
<1>3. k - 1 \notin Bad
  <2>1. <<k - 1, k>> \in Less
    BY <1>2 DEF OpToRel
  <2>. HIDE DEF Less, Bad
  <2>. QED  BY <1>1, <2>1
<1>. QED
  BY <1>2, <1>3

(* A function on 0..N by recursion: its first value, and the value after   *)
(* another.                                                                *)
Iterates(g, N, first, next) ==
  g = [k \in 0..N |-> IF k = 0 THEN first ELSE next[<<k, g[k - 1]>>]]

LEMMA Recursion ==
  ASSUME NEW N \in Nat, NEW S, NEW first \in S, NEW next \in [(1..N) \X S -> S]
  PROVE  \E g \in [0..N -> S] : Iterates(g, N, first, next)
<1>. DEFINE T == {n \in 0..N : \E g \in [0..n -> S] :
                    g[0] = first /\ \A k \in 1..n : g[k] = next[<<k, g[k - 1]>>]}
<1>1. 0 \in T
  <2>. DEFINE g == [k \in 0..0 |-> first]
  <2>1. g \in [0..0 -> S] /\ g[0] = first /\ \A k \in 1..0 : g[k] = next[<<k, g[k - 1]>>]
    OBVIOUS
  <2>. HIDE DEF g
  <2>. QED  BY <2>1
<1>2. ASSUME NEW n \in 1..N, n - 1 \in T
      PROVE  n \in T
  <2>1. PICK g \in [0..(n - 1) -> S] :
          g[0] = first /\ \A k \in 1..(n - 1) : g[k] = next[<<k, g[k - 1]>>]
    BY <1>2
  <2>. DEFINE h == [k \in 0..n |-> IF k = n THEN next[<<n, g[n - 1]>>] ELSE g[k]]
  <2>2. n - 1 \in 0..(n - 1) /\ g[n - 1] \in S /\ next[<<n, g[n - 1]>>] \in S
    OBVIOUS
  <2>3. h \in [0..n -> S]
    BY <2>2
  <2>4. h[0] = first
    BY <2>1
  <2>5. ASSUME NEW k \in 1..n
        PROVE  h[k] = next[<<k, h[k - 1]>>]
    <3>1. k - 1 \in 0..(n - 1) /\ h[k - 1] = g[k - 1]
      OBVIOUS
    <3>2. CASE k = n
      <4>1. h[n] = next[<<n, g[n - 1]>>]
        OBVIOUS
      <4>. HIDE DEF h
      <4>. QED  BY <3>1, <3>2, <4>1
    <3>3. CASE k # n
      <4>1. k \in 1..(n - 1) /\ h[k] = g[k]
        BY <3>3
      <4>. HIDE DEF h
      <4>. QED  BY <2>1, <3>1, <4>1
    <3>. QED  BY <3>2, <3>3
  <2>. HIDE DEF h
  <2>. QED  BY <2>3, <2>4, <2>5
<1>3. N \in T
  <2>. HIDE DEF T
  <2>. QED  BY <1>1, <1>2, UpTo
<1>4. PICK g \in [0..N -> S] : g[0] = first /\ \A k \in 1..N : g[k] = next[<<k, g[k - 1]>>]
  BY <1>3
<1>5. \A k \in 0..N : g[k] = IF k = 0 THEN first ELSE next[<<k, g[k - 1]>>]
  BY <1>4
<1>. QED
  BY <1>5 DEF Iterates

(* Names remain sequences of words.                                        *)
LEMMA LowerTyped ==
  ASSUME NEW name \in Seq(Word)
  PROVE  Lower(name) \in Seq(Word)
BY FoldedAssumption DEF Lower

(* Some indices have a least and a greatest one.                           *)
LEMMA EndsOfIndices ==
  ASSUME NEW N \in Nat, NEW S \in SUBSET (1..N), S # {}
  PROVE  Min(S) \in S /\ Max(S) \in S
<1>1. \E m \in S : \A k \in S : m <= k
  <2>. DEFINE Least == \E m \in S : \A k \in S : m <= k
              T == {n \in 0..N : (\E m \in S : m <= n) => Least}
  <2>1. 0 \in T
    OBVIOUS
  <2>2. ASSUME NEW n \in 1..N, n - 1 \in T
        PROVE  n \in T
    <3>1. (\E m \in S : m <= n - 1) => Least
      BY <2>2
    <3>2. CASE n \in S /\ \A k \in S : ~(k <= n - 1)
      BY <3>2
    <3>3. CASE n \notin S /\ \A k \in S : ~(k <= n - 1)
      BY <3>3
    <3>. HIDE DEF Least
    <3>. QED  BY <3>1, <3>2, <3>3
  <2>3. N \in T
    <3>. HIDE DEF T
    <3>. QED  BY <2>1, <2>2, UpTo
  <2>4. \E m \in S : m <= N
    <3>1. PICK m \in S : TRUE
      OBVIOUS
    <3>2. m \in 1..N
      OBVIOUS
    <3>. QED  BY <3>2
  <2>. HIDE DEF Least
  <2>. QED  BY <2>3, <2>4 DEF Least
<1>2. \E m \in S : \A k \in S : m >= k
  <2>. DEFINE Greatest == \E m \in S : \A k \in S : m >= k
              T == {n \in 0..N : (\A k \in S : k <= n) => Greatest}
  <2>1. 0 \in T
    <3>1. PICK m \in S : TRUE
      OBVIOUS
    <3>2. m \in 1..N /\ ~(m <= 0)
      OBVIOUS
    <3>. QED  BY <3>2
  <2>2. ASSUME NEW n \in 1..N, n - 1 \in T
        PROVE  n \in T
    <3>1. (\A k \in S : k <= n - 1) => Greatest
      BY <2>2
    <3>2. CASE n \in S
      BY <3>2
    <3>3. CASE n \notin S
      <4>1. (\A k \in S : k <= n) => \A k \in S : k <= n - 1
        BY <3>3
      <4>. HIDE DEF Greatest
      <4>. QED  BY <3>1, <4>1
    <3>. QED  BY <3>2, <3>3
  <2>3. N \in T
    <3>. HIDE DEF T
    <3>. QED  BY <2>1, <2>2, UpTo
  <2>4. \A k \in S : k <= N
    OBVIOUS
  <2>. HIDE DEF Greatest
  <2>. QED  BY <2>3, <2>4 DEF Greatest
<1>. QED
  BY <1>1, <1>2 DEF Min, Max

LEMMA MethodIdTyped ==
  ASSUME NEW name \in Seq(Word)
  PROVE  MethodId(name) \in Seq(Word)
<1>. DEFINE inner == {i \in DOMAIN name : name[i] # NoWord}
<1>1. CASE inner = {}
  BY <1>1, LowerTyped DEF MethodId
<1>2. CASE inner # {}
  <2>1. Min(inner) \in 1..Len(name) /\ Max(inner) \in 1..Len(name)
    <3>1. inner \in SUBSET (1..Len(name)) /\ Len(name) \in Nat
      OBVIOUS
    <3>. HIDE DEF inner
    <3>. QED  BY <1>2, <3>1, EndsOfIndices
  <2>2. SubSeq(name, Min(inner), Max(inner)) \in Seq(Word)
    <3>. DEFINE m == Min(inner)  k == Max(inner)
    <3>1. m \in 1..Len(name) /\ k \in 1..Len(name)
      BY <2>1
    <3>. HIDE DEF m, k
    <3>2. m \in Int /\ k \in Int /\ \A i \in m..k : name[i] \in Word
      BY <3>1
    <3>3. SubSeq(name, m, k) \in Seq(Word)
      BY <3>2, SubSeqProperties
    <3>. QED  BY <3>3 DEF m, k
  <2>3. Lower(SubSeq(name, Min(inner), Max(inner))) \in Seq(Word)
    BY <2>2, LowerTyped
  <2>. QED  BY <1>2, <2>3 DEF MethodId
<1>. QED
  BY <1>1, <1>2

(* The words kept of the first ones of a heading.                          *)
Kept(kept, text) ==
  kept = [i \in 0..Len(text) |->
            IF i = 0 THEN NoName
            ELSE IF text[i] = NoWord THEN kept[i - 1]
                 ELSE Append(kept[i - 1], Folded[text[i]])]

LEMMA SlugTyped ==
  ASSUME NEW text \in Seq(Word)
  PROVE  Slug(text) \in Seq(Word)
<1>. DEFINE N == Len(text)
            S == Seq(Word)
            next == [x \in (1..N) \X S |-> IF text[x[1]] = NoWord THEN x[2]
                                          ELSE Append(x[2], Folded[text[x[1]]])]
<1>1. N \in Nat /\ NoName \in S
  BY DEF NoName
<1>2. ASSUME NEW i \in 1..N, NEW w \in S
      PROVE  /\ next[<<i, w>>] = IF text[i] = NoWord THEN w ELSE Append(w, Folded[text[i]])
             /\ next[<<i, w>>] \in S
  BY FoldedAssumption
<1>3. next \in [(1..N) \X S -> S]
  BY FoldedAssumption
<1>4. PICK g \in [0..N -> S] : Iterates(g, N, NoName, next)
  <2>. HIDE DEF N, S, next
  <2>. QED  BY <1>1, <1>3, Recursion
<1>5. Kept(g, text)
  <2>1. \A i \in 0..N : g[i] = IF i = 0 THEN NoName ELSE next[<<i, g[i - 1]>>]
    <3>. HIDE DEF next, N
    <3>. QED  BY <1>4 DEF Iterates
  <2>. HIDE DEF next, S
  <2>2. \A i \in 1..N : i - 1 \in 0..N /\ g[i - 1] \in S
    BY <1>1, <1>4
  <2>3. \A i \in 1..N : next[<<i, g[i - 1]>>] = IF text[i] = NoWord THEN g[i - 1]
                                               ELSE Append(g[i - 1], Folded[text[i]])
    BY <1>2, <2>2
  <2>4. \A i \in 0..N : g[i] = IF i = 0 THEN NoName
                                ELSE IF text[i] = NoWord THEN g[i - 1]
                                ELSE Append(g[i - 1], Folded[text[i]])
    <3>1. \A i \in 0..N : i = 0 \/ i \in 1..N
      BY <1>1
    <3>. HIDE DEF N
    <3>. QED  BY <2>1, <2>3, <3>1
  <2>. QED  BY <1>4, <2>4 DEF Kept
<1>6. PICK kept : Kept(kept, text) /\ Slug(text) = kept[N]
  <2>. DEFINE chosen == CHOOSE h : Kept(h, text)
  <2>1. Slug(text) = chosen[N]
    BY DEF Slug, Kept
  <2>2. Kept(chosen, text)
    BY <1>5
  <2>. HIDE DEF chosen, N, S, next
  <2>. QED  BY <2>1, <2>2
<1>. HIDE DEF next
<1>7. N \in {i \in 0..N : kept[i] \in S}
  <2>. DEFINE T == {i \in 0..N : kept[i] \in S}
  <2>1. 0 \in T
    BY <1>1, <1>6 DEF Kept
  <2>2. ASSUME NEW i \in 1..N, i - 1 \in T
        PROVE  i \in T
    <3>1. text[i] \in Word /\ Folded[text[i]] \in Word /\ kept[i - 1] \in S
      BY <2>2, FoldedAssumption
    <3>2. kept[i] = IF text[i] = NoWord THEN kept[i - 1]
                    ELSE Append(kept[i - 1], Folded[text[i]])
      <4>1. i \in 0..N /\ i # 0
        BY <1>1
      <4>. QED  BY <1>6, <4>1 DEF Kept
    <3>3. Append(kept[i - 1], Folded[text[i]]) \in S
      BY <3>1
    <3>. HIDE DEF S
    <3>. QED  BY <3>1, <3>2, <3>3
  <2>. HIDE DEF T, S, N
  <2>3. 0..N \subseteq T
    BY <1>1, <2>1, <2>2, UpTo
  <2>. QED  BY <1>1, <2>3 DEF T
<1>. QED
  BY <1>6, <1>7

LEMMA KtNameTyped ==
  ASSUME NEW n \in Nodes
  PROVE  KtName(n) \in Seq(Word)
<1>. DEFINE named == {i \in DOMAIN n.kids :
                        /\ n.kids[i].kind \in {"type_identifier", "simple_identifier"}
                        /\ n.kids[i].name # <<NoWord>>}
<1>1. n.name \in Seq(Word) /\ n.kids \in Seq(Nodes)
  BY SourceAssumption
<1>2. ASSUME named # {}
      PROVE  Lower(n.kids[Min(named)].name) \in Seq(Word)
  <2>1. named \in SUBSET (1..Len(n.kids)) /\ Len(n.kids) \in Nat
    BY <1>1
  <2>2. Min(named) \in named
    <3>. HIDE DEF named
    <3>. QED  BY <1>2, <2>1, EndsOfIndices
  <2>3. n.kids[Min(named)] \in Nodes
    <3>1. Min(named) \in 1..Len(n.kids)
      <4>. HIDE DEF named
      <4>. QED  BY <2>1, <2>2
    <3>. HIDE DEF named
    <3>. QED  BY <1>1, <3>1, ElementOfSeq
  <2>. HIDE DEF named
  <2>4. n.kids[Min(named)].name \in Seq(Word)
    BY <2>3, SourceAssumption
  <2>. QED  BY <2>4, LowerTyped
<1>3. <<>> \in Seq(Word) /\ Lower(n.name) \in Seq(Word)
  BY <1>1, LowerTyped
<1>. QED
  BY <1>2, <1>3 DEF KtName, NoName

(***************************************************************************)
(* The nodes of trees.                                                     *)
(***************************************************************************)
LEMMA NodeTyped ==
  ASSUME NEW n \in Nodes
  PROVE  n.name \in Seq(Word) /\ n.kids \in Seq(Nodes) /\ Lower(n.name) \in Seq(Word)
BY SourceAssumption, LowerTyped

(* The children of a node, all of them or of some kinds, are nodes.        *)
LEMMA KidsTyped ==
  ASSUME NEW n \in Nodes
  PROVE  /\ AllKids(n) \subseteq Nodes /\ First(n) \subseteq Nodes
         /\ \A kinds : Kids(n, kinds) \subseteq Nodes /\ Named(n, kinds) \subseteq Nodes
<1>1. n.kids \in Seq(Nodes)
  BY NodeTyped
<1>2. AllKids(n) \subseteq Nodes
  BY <1>1 DEF AllKids, ToSet
<1>3. First(n) \subseteq Nodes
  <2>1. CASE n.kids # <<>>
    <3>1. 1 \in 1..Len(n.kids)
      BY <1>1, <2>1
    <3>. QED  BY <1>1, <3>1 DEF First
  <2>. QED  BY <2>1 DEF First
<1>. QED
  BY <1>2, <1>3 DEF Kids, Named

LEMMA BelowTyped ==
  ASSUME NEW n \in Nodes
  PROVE  \A field, kinds : Below(n, field, kinds) \subseteq Nodes
BY KidsTyped DEF Below

(***************************************************************************)
(* What a file declares has its name begin with the file's; what it        *)
(* relates comes from the file's node or leads to a label it declares;     *)
(* what it declares is contained in, or a method of, one of some roots or  *)
(* another label it declares.                                              *)
(***************************************************************************)
Endings == Seq(Word \cup {"constructor"})
Own(b) == {b \o ending : ending \in Endings}

Holds(x, sources, label) ==
  \E e \in x.edges : /\ e.relation \in {"contains", "method"}
                     /\ e.source \in sources /\ e.target = label

OfFile(b, roots, x) ==
  /\ x.nodes \subseteq Own(b)
  /\ \A e \in x.edges : e.source = b \/ e.target \in x.nodes
  /\ \A label \in x.nodes \ {b} : Holds(x, roots \cup x.nodes, label)

(* Edges to a label only.                                                  *)
Leads(x, label) == x.nodes = {} /\ \A e \in x.edges : e.target = label

(* The labels of a file: its name, and any of them continued.              *)
LEMMA OwnLabels ==
  ASSUME NEW b \in Seq(Word)
  PROVE  /\ b \in Own(b)
         /\ \A name \in Endings : b \o name \in Own(b)
         /\ \A label \in Own(b), name \in Endings : label \o name \in Own(b)
<1>. DEFINE W == Word \cup {"constructor"}
<1>0. Endings = Seq(W) /\ b \in Seq(W)
  BY DEF Endings
<1>. HIDE DEF W
<1>1. b = b \o <<>> /\ <<>> \in Endings
  BY <1>0, ConcatEmptySeq, EmptySeq
<1>2. \A ending, name \in Endings : ending \o name \in Endings
                                     /\ (b \o ending) \o name = b \o (ending \o name)
  BY <1>0
<1>3. ASSUME NEW label \in Own(b), NEW name \in Endings
      PROVE  label \o name \in Own(b)
  <2>1. PICK ending \in Endings : label = b \o ending
    BY DEF Own
  <2>2. label \o name = b \o (ending \o name) /\ ending \o name \in Endings
    BY <1>2, <2>1
  <2>. QED  BY <2>2 DEF Own
<1>. QED
  BY <1>1, <1>3 DEF Own

LEMMA WordsAreEndings == Seq(Word) \subseteq Endings
BY DEF Endings

(* Parts of a file make up one, together or all of many.                   *)
LEMMA OfFileNothing ==
  ASSUME NEW b, NEW roots
  PROVE  OfFile(b, roots, Nothing)
BY DEF OfFile, Nothing

LEMMA OfFileBoth ==
  ASSUME NEW b, NEW roots, NEW x, NEW y, OfFile(b, roots, x), OfFile(b, roots, y)
  PROVE  OfFile(b, roots, x ++ y)
BY DEF OfFile, Holds, ++

LEMMA OfFileAll ==
  ASSUME NEW b, NEW roots, NEW xs, \A x \in xs : OfFile(b, roots, x)
  PROVE  OfFile(b, roots, All(xs))
<1>. DEFINE all == All(xs)
<1>1. \A x \in xs : x.nodes \subseteq all.nodes /\ x.edges \subseteq all.edges
  BY DEF All
<1>2. /\ all.nodes \subseteq Own(b)
      /\ \A e \in all.edges : e.source = b \/ e.target \in all.nodes
  BY DEF OfFile, All
<1>3. ASSUME NEW label \in all.nodes \ {b}
      PROVE  Holds(all, roots \cup all.nodes, label)
  <2>1. PICK x \in xs : label \in x.nodes
    BY DEF All
  <2>2. Holds(x, roots \cup x.nodes, label)
    BY <2>1 DEF OfFile
  <2>. HIDE DEF all
  <2>. QED  BY <1>1, <2>1, <2>2 DEF Holds
<1>. QED
  BY <1>2, <1>3 DEF OfFile

(* A part whose roots are declared in another one.                         *)
LEMMA OfFileWith ==
  ASSUME NEW b, NEW roots, NEW more, NEW x, NEW y, more \subseteq x.nodes,
         OfFile(b, roots, x), OfFile(b, more, y)
  PROVE  OfFile(b, roots, x ++ y)
BY DEF OfFile, Holds, ++

LEMMA OfFileRooted ==
  ASSUME NEW b, NEW roots, NEW more, NEW x, OfFile(b, more, x),
         more \subseteq roots \cup x.nodes
  PROVE  OfFile(b, roots, x)
BY DEF OfFile, Holds

(* All of a file: with the file's node.                                    *)
Whole(b, roots, x) == b \in x.nodes /\ OfFile(b, roots, x)

LEMMA WholeFile ==
  ASSUME NEW b \in Seq(Word), NEW roots
  PROVE  Whole(b, roots, File(b))
BY OwnLabels DEF Whole, OfFile, File

LEMMA WholeWith ==
  ASSUME NEW b, NEW roots, NEW x, NEW y, Whole(b, roots, x), OfFile(b, roots, y)
  PROVE  Whole(b, roots, x ++ y)
BY OfFileBoth DEF Whole, ++

(* What the helpers of the walkers say is a part of the file.              *)
LEMMA OfFileRelated ==
  ASSUME NEW b, NEW roots, NEW relation, NEW target
  PROVE  OfFile(b, roots, Related(b, relation, target))
BY DEF OfFile, Related, Edge

LEMMA OfFileDeclared ==
  ASSUME NEW b, NEW roots, NEW container \in roots,
         NEW relation \in {"contains", "method"}, NEW label \in Own(b)
  PROVE  OfFile(b, roots, Declared(container, relation, label))
<1>. DEFINE x == Declared(container, relation, label)
            e == Edge(container, relation, label)
<1>1. x.nodes = {label} /\ x.edges = {e}
  BY DEF Declared
<1>2. e.source = container /\ e.relation = relation /\ e.target = label
  BY DEF Edge
<1>. HIDE DEF x, e
<1>3. Holds(x, roots \cup x.nodes, label)
  BY <1>1, <1>2 DEF Holds
<1>. QED
  BY <1>1, <1>2, <1>3 DEF OfFile, x

LEMMA OfFileImports ==
  ASSUME NEW b, NEW roots, NEW modules
  PROVE  OfFile(b, roots, Imports(b, modules)) /\ OfFile(b, roots, ImportsSome(b, modules))
<1>1. ASSUME NEW ms
      PROVE  OfFile(b, roots, Imports(b, ms))
  <2>. DEFINE xs == {Related(b, "imports_from", m) : m \in ms \ {NoName}}
  <2>1. \A x \in xs : OfFile(b, roots, x)
    BY OfFileRelated
  <2>. HIDE DEF xs
  <2>2. OfFile(b, roots, All(xs))
    BY <2>1, OfFileAll
  <2>. QED  BY <2>2 DEF Imports, xs
<1>. QED
  BY <1>1 DEF ImportsSome

LEMMA OfFileSymbol ==
  ASSUME NEW b \in Seq(Word), NEW name \in Seq(Word)
  PROVE  /\ b \o Lower(name) \in Own(b)
         /\ b \o Lower(name) \in Symbol(b, name).nodes
         /\ OfFile(b, {b}, Symbol(b, name))
<1>1. b \o Lower(name) \in Own(b)
  BY LowerTyped, OwnLabels, WordsAreEndings
<1>. QED
  BY <1>1, OfFileDeclared DEF Symbol, Declared

LEMMA OfFileSymbols ==
  ASSUME NEW b \in Seq(Word), NEW nodes \in SUBSET Nodes
  PROVE  OfFile(b, {b}, Symbols(b, nodes))
<1>. DEFINE xs == {Symbol(b, n.name) : n \in nodes}
<1>1. \A x \in xs : OfFile(b, {b}, x)
  BY NodeTyped, OfFileSymbol
<1>. HIDE DEF xs
<1>2. OfFile(b, {b}, All(xs))
  BY <1>1, OfFileAll
<1>. QED
  BY <1>2 DEF Symbols, xs

LEMMA OfFileMethod ==
  ASSUME NEW b \in Seq(Word), NEW class \in Own(b), NEW name \in Endings
  PROVE  OfFile(b, {class}, Method(class, name))
<1>1. class \o name \in Own(b)
  BY OwnLabels
<1>. QED
  BY <1>1, OfFileDeclared DEF Method

LEMMA OfFileMethods ==
  ASSUME NEW b \in Seq(Word), NEW class \in Own(b), NEW nodes \in SUBSET Nodes
  PROVE  OfFile(b, {class}, Methods(class, nodes))
<1>. DEFINE xs == {Method(class, MethodId(n.name)) : n \in nodes}
<1>1. \A x \in xs : OfFile(b, {class}, x)
  <2>1. \A n \in nodes : MethodId(n.name) \in Endings
    BY NodeTyped, MethodIdTyped, WordsAreEndings
  <2>. QED  BY <2>1, OfFileMethod
<1>. HIDE DEF xs
<1>2. OfFile(b, {class}, All(xs))
  BY <1>1, OfFileAll
<1>. QED
  BY <1>2 DEF Methods, xs

LEMMA InheritsLeads ==
  ASSUME NEW b, NEW local, NEW bases, NEW class
  PROVE  Leads(Inherits(b, local, bases, class), class)
BY DEF Leads, Inherits, All, Related, Edge

LEMMA LeadsAll ==
  ASSUME NEW xs, NEW label, \A x \in xs : Leads(x, label)
  PROVE  Leads(All(xs), label)
BY DEF Leads, All

(* A type: its node, its bases and its methods.                            *)
LEMMA OfFileType ==
  ASSUME NEW b, NEW container, NEW class \in Own(b), NEW bases, Leads(bases, class)
  PROVE  /\ class \in (Declared(container, "contains", class) ++ bases).nodes
         /\ OfFile(b, {container}, Declared(container, "contains", class) ++ bases)
<1>. DEFINE node == Declared(container, "contains", class)
            x == node ++ bases
<1>1. OfFile(b, {container}, node) /\ node.nodes = {class}
  BY OfFileDeclared DEF Declared
<1>2. bases.nodes = {} /\ \A e \in bases.edges : e.target = class
  BY DEF Leads
<1>. HIDE DEF node
<1>3. x.nodes = {class} /\ x.edges = node.edges \cup bases.edges
  BY <1>1, <1>2 DEF ++
<1>. HIDE DEF x
<1>4. /\ x.nodes \subseteq Own(b)
      /\ \A e \in x.edges : e.source = b \/ e.target \in x.nodes
  BY <1>1, <1>2, <1>3 DEF OfFile
<1>5. \A label \in x.nodes \ {b} : Holds(x, {container} \cup x.nodes, label)
  BY <1>1, <1>3 DEF OfFile, Holds
<1>6. OfFile(b, {container}, x) /\ class \in x.nodes
  BY <1>3, <1>4, <1>5 DEF OfFile
<1>. QED
  BY <1>6 DEF x, node

(* With the methods.                                                       *)
LEMMA OfFileClass ==
  ASSUME NEW b, NEW container, NEW class \in Own(b), NEW bases, Leads(bases, class),
         NEW methods, OfFile(b, {class}, methods)
  PROVE  OfFile(b, {container}, Declared(container, "contains", class) ++ bases ++ methods)
<1>. DEFINE type == Declared(container, "contains", class) ++ bases
<1>1. OfFile(b, {container}, type) /\ {class} \subseteq type.nodes
  BY OfFileType
<1>. HIDE DEF type
<1>2. OfFile(b, {container}, type ++ methods)
  BY <1>1, OfFileWith
<1>. QED
  BY <1>2 DEF type

(***************************************************************************)
(* The walkers of script_walkers: each one's part is of the file.          *)
(***************************************************************************)
LEMMA PyOfFile ==
  ASSUME NEW b \in Seq(Word), NEW root \in Nodes
  PROVE  Whole(b, {b}, PyExtract(b, root))
<1>1. ASSUME NEW n \in Nodes, NEW local
      PROVE  OfFile(b, {b}, PyClass(n, b, local))
  <2>. DEFINE class == b \o Lower(n.name)
              bases == Inherits(b, local,
                         NamesOf(Below(n, {"superclasses"}, {"identifier"})), class)
  <2>1. class \in Own(b)
    BY NodeTyped, OfFileSymbol
  <2>2. Leads(bases, class)
    BY InheritsLeads
  <2>3. OfFile(b, {class}, Methods(class, Below(n, {"body"}, {"function_definition"})))
    BY <2>1, BelowTyped, OfFileMethods
  <2>. QED  BY <2>1, <2>2, <2>3, OfFileClass DEF PyClass, Symbol
<1>2. OfFile(b, {b}, All({PyClass(n, b, PyLocal(root)) : n \in Named(root, {"class_definition"})}))
  BY <1>1, KidsTyped, OfFileAll
<1>3. OfFile(b, {b}, All({PyFunction(n, b) : n \in Named(root, {"function_definition"})}))
  BY KidsTyped, NodeTyped, OfFileSymbol, OfFileAll DEF PyFunction
<1>4. OfFile(b, {b}, All({PyImport(n, b) : n \in Kids(root, {"import_from_statement"})}))
  <2>1. \A n : OfFile(b, {b}, PyImport(n, b))
    BY OfFileImports DEF PyImport
  <2>. QED  BY <2>1, OfFileAll
<1>. QED
  BY <1>2, <1>3, <1>4, WholeFile, WholeWith DEF PyExtract

LEMMA JsOfFile ==
  ASSUME NEW b \in Seq(Word), NEW root \in Nodes
  PROVE  Whole(b, {b}, JsExtract(b, root))
<1>1. ASSUME NEW n \in Nodes, NEW local
      PROVE  OfFile(b, {b}, JsClass(n, b, local))
  <2>. DEFINE class == b \o Lower(n.name)
              bases == UNION {{k \in First(h) : k.kind = "identifier"} :
                                h \in Kids(n, {"class_heritage"})}
              members == UNION {Kids(m, {"method_definition"}) : m \in Kids(n, {"body"})}
              named(m) == Named(m, {"property_identifier", "private_property_identifier"})
  <2>1. class \in Own(b)
    BY NodeTyped, OfFileSymbol
  <2>2. Leads(Inherits(b, local, NamesOf(bases), class), class)
    BY InheritsLeads
  <2>3. \A m \in members : named(m) \subseteq Nodes
    BY KidsTyped
  <2>. HIDE DEF members, named, class
  <2>4. OfFile(b, {class}, All({Methods(class, named(m)) : m \in members}))
    BY <2>1, <2>3, OfFileMethods, OfFileAll
  <2>. QED  BY <2>1, <2>2, <2>4, OfFileClass DEF JsClass, Symbol, members, named, class
<1>2. ASSUME NEW n \in Nodes
      PROVE  OfFile(b, {b}, JsVarDecl(n, b))
  BY KidsTyped, OfFileSymbols DEF JsVarDecl
<1>3. ASSUME NEW n \in Nodes, NEW local
      PROVE  OfFile(b, {b}, JsDecls(n, b, local))
  <2>1. OfFile(b, {b}, All({JsFunction(d, b) : d \in Named(n, JsFunctions)}))
    BY KidsTyped, NodeTyped, OfFileSymbol, OfFileAll DEF JsFunction
  <2>2. OfFile(b, {b}, All({JsClass(d, b, local) : d \in Named(n, {"class_declaration"})}))
    BY <1>1, KidsTyped, OfFileAll
  <2>3. OfFile(b, {b}, All({JsVarDecl(d, b) : d \in Kids(n, JsVariables)}))
    BY <1>2, KidsTyped, OfFileAll
  <2>. QED  BY <2>1, <2>2, <2>3, OfFileBoth DEF JsDecls
<1>4. OfFile(b, {b}, All({JsImport(n, b) : n \in Kids(root, {"import_statement"})}))
  <2>1. \A n : OfFile(b, {b}, JsImport(n, b))
    BY OfFileImports DEF JsImport
  <2>. QED  BY <2>1, OfFileAll
<1>5. OfFile(b, {b}, All({JsDecls(n, b, JsLocal(root)) : n \in Kids(root, {"export_statement"})}))
  BY <1>3, KidsTyped, OfFileAll
<1>. QED
  BY <1>3, <1>4, <1>5, WholeFile, WholeWith DEF JsExtract

LEMMA TsOfFile ==
  ASSUME NEW b \in Seq(Word), NEW root \in Nodes
  PROVE  Whole(b, {b}, TsExtract(b, root))
<1>1. ASSUME NEW n \in Nodes, NEW local
      PROVE  OfFile(b, {b}, TsClass(n, b, local))
  <2>. DEFINE class == b \o Lower(n.name)
              bases == {Inherits(b, local, NamesOf(TsHeritage(h)), class) :
                          h \in Kids(n, {"class_heritage"})}
  <2>1. class \in Own(b)
    BY NodeTyped, OfFileSymbol
  <2>. HIDE DEF class
  <2>2. Leads(All(bases), class)
    BY InheritsLeads, LeadsAll
  <2>3. ASSUME NEW body \in Nodes
        PROVE  OfFile(b, {class}, TsMethods(body, class))
    BY <2>1, KidsTyped, OfFileMethods DEF TsMethods
  <2>4. OfFile(b, {class}, All({TsMethods(body, class) : body \in Kids(n, {"body"})}))
    BY <2>3, KidsTyped, OfFileAll
  <2>. QED  BY <2>1, <2>2, <2>4, OfFileClass DEF TsClass, Symbol, class
<1>2. ASSUME NEW n \in Nodes
      PROVE  OfFile(b, {b}, TsVarFns(n, b))
  BY KidsTyped, OfFileSymbols DEF TsVarFns
<1>3. ASSUME NEW n \in Nodes, NEW local
      PROVE  OfFile(b, {b}, TsDecls(n, b, local))
  <2>1. OfFile(b, {b}, All({TsFunction(d, b) : d \in Named(n, {"function_declaration"})}))
    BY KidsTyped, NodeTyped, OfFileSymbol, OfFileAll DEF TsFunction
  <2>2. OfFile(b, {b}, All({TsClass(d, b, local) : d \in Named(n, TsClasses)}))
    BY <1>1, KidsTyped, OfFileAll
  <2>3. OfFile(b, {b}, All({TsInterface(d, b) : d \in Named(n, {"interface_declaration"})}))
    BY KidsTyped, NodeTyped, OfFileSymbol, OfFileAll DEF TsInterface
  <2>4. OfFile(b, {b}, All({TsEnum(d, b) : d \in Named(n, {"enum_declaration"})}))
    BY KidsTyped, NodeTyped, OfFileSymbol, OfFileAll DEF TsEnum
  <2>5. OfFile(b, {b}, All({TsVarFns(d, b) : d \in Kids(n, JsVariables)}))
    BY <1>2, KidsTyped, OfFileAll
  <2>. QED  BY <2>1, <2>2, <2>3, <2>4, <2>5, OfFileBoth DEF TsDecls
<1>4. OfFile(b, {b}, All({TsImport(n, b) : n \in Kids(root, {"import_statement"})}))
  <2>1. \A n : OfFile(b, {b}, TsImport(n, b))
    BY OfFileImports DEF TsImport
  <2>. QED  BY <2>1, OfFileAll
<1>5. OfFile(b, {b}, All({TsDecls(n, b, TsLocal(root)) : n \in Kids(root, {"export_statement"})}))
  BY <1>3, KidsTyped, OfFileAll
<1>. QED
  BY <1>3, <1>4, <1>5, WholeFile, WholeWith DEF TsExtract

LEMMA RbOfFile ==
  ASSUME NEW b \in Seq(Word), NEW root \in Nodes
  PROVE  Whole(b, {b}, RbExtract(b, root))
<1>1. ASSUME NEW n \in Nodes, NEW class \in Own(b)
      PROVE  OfFile(b, {class}, RbBodyMethods(n, class))
  BY BelowTyped, OfFileMethods DEF RbBodyMethods
<1>2. ASSUME NEW n \in Nodes, NEW local
      PROVE  OfFile(b, {b}, RbClass(n, b, local))
  <2>. DEFINE class == b \o Lower(n.name)
              parents == UNION {RbConstant(k) : k \in Kids(n, {"superclass"})}
  <2>1. class \in Own(b)
    BY NodeTyped, OfFileSymbol
  <2>2. Leads(Inherits(b, local, parents, class), class)
    BY InheritsLeads
  <2>. QED  BY <1>1, <2>1, <2>2, OfFileClass DEF RbClass, Symbol
<1>3. ASSUME NEW n \in Nodes
      PROVE  OfFile(b, {b}, RbModule(n, b))
  BY <1>1, NodeTyped, OfFileSymbol, OfFileWith DEF RbModule
<1>4. ASSUME NEW n \in Nodes
      PROVE  OfFile(b, {b}, RbTopMethod(n, b))
  <2>1. b \o MethodId(n.name) \in Own(b)
    BY NodeTyped, MethodIdTyped, OwnLabels, WordsAreEndings
  <2>. QED  BY <2>1, OfFileDeclared DEF RbTopMethod
<1>5. OfFile(b, {b}, All({RbClass(n, b, RbLocal(root)) : n \in Named(root, {"class"})}))
  BY <1>2, KidsTyped, OfFileAll
<1>6. OfFile(b, {b}, All({RbModule(n, b) : n \in Named(root, {"module"})}))
  BY <1>3, KidsTyped, OfFileAll
<1>7. OfFile(b, {b}, All({RbTopMethod(n, b) : n \in Named(root, {"method"})}))
  BY <1>4, KidsTyped, OfFileAll
<1>8. OfFile(b, {b}, All({RbRequire(n, b) : n \in Kids(root, {"call"})}))
  <2>1. \A n : OfFile(b, {b}, RbRequire(n, b))
    BY OfFileImports DEF RbRequire
  <2>. QED  BY <2>1, OfFileAll
<1>. QED
  BY <1>5, <1>6, <1>7, <1>8, WholeFile, WholeWith DEF RbExtract

LEMMA PhpOfFile ==
  ASSUME NEW b \in Seq(Word), NEW root \in Nodes
  PROVE  Whole(b, {b}, PhpExtract(b, root))
<1>. DEFINE local == PhpLocal(root)
<1>1. ASSUME NEW n \in Nodes, NEW class \in Own(b)
      PROVE  OfFile(b, {class}, PhpMethods(n, class))
  BY BelowTyped, OfFileMethods DEF PhpMethods
<1>2. ASSUME NEW n \in Nodes, NEW bases
      PROVE  OfFile(b, {b}, Symbol(b, n.name)
                         ++ Inherits(b, local, bases, b \o Lower(n.name))
                         ++ PhpMethods(n, b \o Lower(n.name)))
  <2>. DEFINE class == b \o Lower(n.name)
  <2>1. class \in Own(b)
    BY NodeTyped, OfFileSymbol
  <2>2. Leads(Inherits(b, local, bases, class), class)
    BY InheritsLeads
  <2>. QED  BY <1>1, <2>1, <2>2, OfFileClass DEF Symbol
<1>. HIDE DEF local
<1>3. OfFile(b, {b}, All({PhpFunction(n, b) : n \in Named(root, {"function_definition"})}))
  BY KidsTyped, NodeTyped, OfFileSymbol, OfFileAll DEF PhpFunction
<1>4. OfFile(b, {b}, All({PhpClass(n, b, local) : n \in Named(root, {"class_declaration"})}))
  BY <1>2, KidsTyped, OfFileAll DEF PhpClass
<1>5. OfFile(b, {b}, All({PhpInterface(n, b, local) : n \in Named(root, {"interface_declaration"})}))
  BY <1>2, KidsTyped, OfFileAll DEF PhpInterface
<1>6. OfFile(b, {b}, All({PhpTrait(n, b) : n \in Named(root, {"trait_declaration"})}))
  <2>1. ASSUME NEW n \in Nodes
        PROVE  OfFile(b, {b}, PhpTrait(n, b))
    BY <1>1, NodeTyped, OfFileSymbol, OfFileWith DEF PhpTrait
  <2>. QED  BY <2>1, KidsTyped, OfFileAll
<1>7. OfFile(b, {b}, All({PhpEnum(n, b, local) : n \in Named(root, {"enum_declaration"})}))
  BY <1>2, KidsTyped, OfFileAll DEF PhpEnum
<1>8. OfFile(b, {b}, All({PhpUseDecl(n, b) : n \in Kids(root, {"namespace_use_declaration"})}))
  <2>1. ASSUME NEW n
        PROVE  OfFile(b, {b}, PhpUseDecl(n, b))
    BY OfFileImports, OfFileBoth DEF PhpUseDecl
  <2>. QED  BY <2>1, OfFileAll
<1>. QED
  BY <1>3, <1>4, <1>5, <1>6, <1>7, <1>8, WholeFile, WholeWith DEF PhpExtract, local

LEMMA JavaOfFile ==
  ASSUME NEW b \in Seq(Word), NEW root \in Nodes
  PROVE  Whole(b, {b}, JavaExtract(b, root))
<1>. DEFINE local == JavaLocal(root)
<1>1. ASSUME NEW n \in Nodes, NEW bases
      PROVE  /\ b \o Lower(n.name) \in Own(b)
             /\ Leads(Inherits(b, local, bases, b \o Lower(n.name)), b \o Lower(n.name))
  BY NodeTyped, OfFileSymbol, InheritsLeads
<1>2. ASSUME NEW nodes \in SUBSET Nodes, NEW class \in Own(b)
      PROVE  OfFile(b, {class}, All({JavaMethods(k, class) : k \in nodes}))
  <2>1. \A k \in nodes : OfFile(b, {class}, JavaMethods(k, class))
    BY KidsTyped, OfFileMethods DEF JavaMethods
  <2>. QED  BY <2>1, OfFileAll
<1>. HIDE DEF local
<1>3. ASSUME NEW n \in Nodes
      PROVE  OfFile(b, {b}, JavaClass(n, b, local))
  <2>1. Kids(n, {"body"}) \subseteq Nodes
    BY KidsTyped
  <2>. QED  BY <1>1, <1>2, <2>1, OfFileClass DEF JavaClass, Symbol
<1>4. ASSUME NEW n \in Nodes
      PROVE  OfFile(b, {b}, JavaInterface(n, b, local))
  BY <1>1, OfFileType DEF JavaInterface, Symbol
<1>5. ASSUME NEW n \in Nodes
      PROVE  OfFile(b, {b}, JavaEnum(n, b, local))
  <2>1. UNION {Kids(k, {"enum_body_declarations"}) : k \in Kids(n, {"body"})} \subseteq Nodes
    BY KidsTyped
  <2>. QED  BY <1>1, <1>2, <2>1, OfFileClass DEF JavaEnum, Symbol
<1>6. OfFile(b, {b}, All({JavaImport(n, b) : n \in Kids(root, {"import_declaration"})}))
  <2>1. ASSUME NEW n
        PROVE  OfFile(b, {b}, JavaImport(n, b))
    BY OfFileImports, OfFileNothing DEF JavaImport
  <2>. QED  BY <2>1, OfFileAll
<1>7. OfFile(b, {b}, All({JavaClass(n, b, local) : n \in Named(root, {"class_declaration"})}))
  BY <1>3, KidsTyped, OfFileAll
<1>8. OfFile(b, {b}, All({JavaInterface(n, b, local) : n \in Named(root, {"interface_declaration"})}))
  BY <1>4, KidsTyped, OfFileAll
<1>9. OfFile(b, {b}, All({JavaEnum(n, b, local) : n \in Named(root, {"enum_declaration"})}))
  BY <1>5, KidsTyped, OfFileAll
<1>. QED
  BY <1>6, <1>7, <1>8, <1>9, WholeFile, WholeWith DEF JavaExtract, local

LEMMA ScOfFile ==
  ASSUME NEW b \in Seq(Word), NEW root \in Nodes
  PROVE  Whole(b, {b}, ScExtract(b, root))
<1>1. ASSUME NEW n \in Nodes, NEW local
      PROVE  OfFile(b, {b}, ScClassLike(n, b, local))
  <2>. DEFINE class == b \o Lower(n.name)
              bases == UNION {ScExtends(k) : k \in Kids(n, {"extends_clause", "with_clause"})}
  <2>1. class \in Own(b)
    BY NodeTyped, OfFileSymbol
  <2>2. Leads(Inherits(b, local, bases, class), class)
    BY InheritsLeads
  <2>. HIDE DEF class
  <2>3. \A k \in Kids(n, {"template_body"}) : OfFile(b, {class}, ScMethods(k, class))
    BY <2>1, KidsTyped, OfFileMethods DEF ScMethods
  <2>4. OfFile(b, {class}, All({ScMethods(k, class) : k \in Kids(n, {"template_body"})}))
    BY <2>3, OfFileAll
  <2>. QED  BY <2>1, <2>2, <2>4, OfFileClass DEF ScClassLike, Symbol, class
<1>2. OfFile(b, {b}, All({ScClassLike(n, b, ScLocal(root)) : n \in Named(root, ScTypes)}))
  BY <1>1, KidsTyped, OfFileAll
<1>3. OfFile(b, {b}, All({ScFunction(n, b) : n \in Named(root, ScFunctions)}))
  BY KidsTyped, NodeTyped, OfFileSymbol, OfFileAll DEF ScFunction
<1>4. OfFile(b, {b}, All({ScImport(n, b) : n \in Kids(root, {"import_declaration"})}))
  <2>1. ASSUME NEW n
        PROVE  OfFile(b, {b}, ScImport(n, b))
    BY OfFileImports, OfFileNothing DEF ScImport
  <2>. QED  BY <2>1, OfFileAll
<1>. QED
  BY <1>2, <1>3, <1>4, WholeFile, WholeWith DEF ScExtract

LEMMA GoOfFile ==
  ASSUME NEW b \in Seq(Word), NEW root \in Nodes
  PROVE  Whole(b, Own(b), GoExtract(b, root))
<1>1. ASSUME NEW list \in Nodes
      PROVE  GoReceiver(list) \subseteq Seq(Word)
  <2>. DEFINE types == UNION {Kids(p, {"type_identifier", "pointer_type"}) :
                                p \in {q \in First(list) : q.kind = "parameter_declaration"}}
              plain == UNION {IF t.kind = "pointer_type" THEN First(t) ELSE {t} : t \in types}
  <2>1. types \subseteq Nodes
    BY KidsTyped
  <2>. HIDE DEF types
  <2>2. plain \subseteq Nodes
    BY <2>1, KidsTyped
  <2>. HIDE DEF plain
  <2>3. \A t \in plain : Lower(t.name) \in Seq(Word)
    BY <2>2, NodeTyped
  <2>4. GoReceiver(list) = NamesOf({t \in plain : t.kind = "type_identifier"})
    BY DEF GoReceiver, plain, types
  <2>. QED  BY <2>3, <2>4 DEF NamesOf
<1>2. ASSUME NEW n \in Nodes
      PROVE  OfFile(b, Own(b), GoMethod(n, b))
  <2>. DEFINE types == UNION {GoReceiver(k) : k \in Kids(n, {"receiver"})}
  <2>1. types \subseteq Seq(Word)
    BY <1>1, KidsTyped
  <2>. HIDE DEF types
  <2>2. \A t \in types : b \o t \in Own(b)
    BY <2>1, OwnLabels, WordsAreEndings
  <2>3. Lower(n.name) \in Endings
    BY NodeTyped, WordsAreEndings
  <2>4. \A t \in types : OfFile(b, Own(b), Method(b \o t, Lower(n.name)))
    BY <2>2, <2>3, OfFileMethod, OfFileRooted
  <2>5. OfFile(b, Own(b), All({Method(b \o t, Lower(n.name)) : t \in types}))
    BY <2>4, OfFileAll
  <2>. QED  BY <2>5 DEF GoMethod, types
<1>3. OfFile(b, {b}, All({GoFunction(n, b) : n \in Named(root, {"function_declaration"})}))
  BY KidsTyped, NodeTyped, OfFileSymbol, OfFileAll DEF GoFunction
<1>4. OfFile(b, Own(b), All({GoMethod(n, b) : n \in Named(root, {"method_declaration"})}))
  BY <1>2, KidsTyped, OfFileAll
<1>5. OfFile(b, {b}, All({GoTypeDecl(n, b) : n \in Kids(root, {"type_declaration"})}))
  BY KidsTyped, OfFileSymbols, OfFileAll DEF GoTypeDecl
<1>6. OfFile(b, {b}, All({GoImport(n, b) : n \in Kids(root, {"import_declaration"})}))
  <2>1. ASSUME NEW n
        PROVE  OfFile(b, {b}, GoImport(n, b))
    BY OfFileImports DEF GoImport
  <2>. QED  BY <2>1, OfFileAll
<1>7. \A x : OfFile(b, {b}, x) => OfFile(b, Own(b), x)
  BY OwnLabels, OfFileRooted
<1>. QED
  BY <1>3, <1>4, <1>5, <1>6, <1>7, WholeFile, WholeWith DEF GoExtract

(***************************************************************************)
(* What is visited.                                                        *)
(***************************************************************************)
(* The levels of Visited; and, of a function f for the children, what they *)
(* are one by one.                                                         *)
LevelsOf(level, start, Children(_)) ==
  level = [k \in 0..Depth |->
             IF k = 0 THEN start ELSE UNION {Children(x) : x \in level[k - 1]}]

Follows(level, start, f) ==
  /\ level[0] = start
  /\ \A k \in 1..Depth : level[k] = UNION {f[x] : x \in level[k - 1]}

(* There are levels, so that CHOOSE chooses one; they stay within any set  *)
(* that what follows does not leave.                                       *)
LEMMA LevelsExist ==
  ASSUME NEW D, NEW start \in SUBSET D, NEW f \in [D -> SUBSET D]
  PROVE  \E level \in [0..Depth -> SUBSET D] : Follows(level, start, f)
<1>. DEFINE next == [x \in (1..Depth) \X SUBSET D |-> UNION {f[y] : y \in x[2]}]
<1>1. Depth \in Nat
  BY DepthAssumption
<1>2. next \in [(1..Depth) \X SUBSET D -> SUBSET D]
  OBVIOUS
<1>3. \A k \in 1..Depth, xs \in SUBSET D : next[<<k, xs>>] = UNION {f[x] : x \in xs}
  OBVIOUS
<1>. HIDE DEF next
<1>4. PICK level \in [0..Depth -> SUBSET D] : Iterates(level, Depth, start, next)
  BY <1>1, <1>2, Recursion
<1>5. \A k \in 1..Depth : k \in 0..Depth /\ k - 1 \in 0..Depth /\ k # 0
  BY DepthAssumption
<1>6. level[0] = start
  BY <1>1, <1>4 DEF Iterates
<1>7. ASSUME NEW k \in 1..Depth
      PROVE  level[k] = UNION {f[x] : x \in level[k - 1]}
  <2>1. level[k] = next[<<k, level[k - 1]>>]
    BY <1>4, <1>5 DEF Iterates
  <2>2. level[k - 1] \in SUBSET D
    BY <1>4, <1>5
  <2>. QED  BY <1>3, <2>1, <2>2
<1>. QED
  BY <1>4, <1>6, <1>7 DEF Follows

LEMMA LevelsTyped ==
  ASSUME NEW D, NEW level, level[0] \subseteq D,
         \A k \in 1..Depth : level[k - 1] \subseteq D => level[k] \subseteq D
  PROVE  /\ \A k \in 0..Depth : level[k] \subseteq D
         /\ UNION {level[k] : k \in 0..Depth} \subseteq D
<1>. DEFINE T == {k \in 0..Depth : level[k] \subseteq D}
<1>1. 0 \in T /\ Depth \in Nat
  BY DepthAssumption
<1>2. ASSUME NEW k \in 1..Depth, k - 1 \in T
      PROVE  k \in T
  BY <1>2, DepthAssumption
<1>3. 0..Depth \subseteq T
  <2>. HIDE DEF T
  <2>. QED  BY <1>1, <1>2, UpTo
<1>. QED
  BY <1>3

(* What is behind the declarators of a node are nodes.                     *)
LEMMA BehindTyped ==
  ASSUME NEW n \in Nodes, NEW declarators
  PROVE  Behind(n, declarators) \subseteq Nodes
<1>. DEFINE Into(d) == IF d.kind \in declarators THEN AllKids(d) ELSE {}
            L(level) == LevelsOf(level, {n}, Into)
            level == CHOOSE h : L(h)
            visited == UNION {level[k] : k \in 0..Depth}
<1>1. \A d \in Nodes : Into(d) \subseteq Nodes
  BY KidsTyped
<1>2. \E h : L(h)
  <2>. DEFINE f == [d \in Nodes |-> Into(d)]
  <2>. HIDE DEF Into
  <2>1. f \in [Nodes -> SUBSET Nodes]
    BY <1>1
  <2>2. \A d \in Nodes : f[d] = Into(d)
    OBVIOUS
  <2>. HIDE DEF f
  <2>3. {n} \in SUBSET Nodes
    OBVIOUS
  <2>4. PICK h \in [0..Depth -> SUBSET Nodes] : Follows(h, {n}, f)
    BY <2>1, <2>3, LevelsExist
  <2>5. \A k \in 1..Depth : h[k - 1] \subseteq Nodes
    BY DepthAssumption
  <2>6. ASSUME NEW k \in 1..Depth
        PROVE  h[k] = UNION {Into(x) : x \in h[k - 1]}
    <3>1. h[k] = UNION {f[x] : x \in h[k - 1]}
      BY <2>4 DEF Follows
    <3>2. \A x \in h[k - 1] : f[x] = Into(x)
      BY <2>2, <2>5
    <3>. QED  BY <3>1, <3>2
  <2>7. \A k \in 0..Depth : k = 0 \/ k \in 1..Depth
    BY DepthAssumption
  <2>8. \A k \in 0..Depth : h[k] = IF k = 0 THEN {n} ELSE UNION {Into(x) : x \in h[k - 1]}
    BY <2>4, <2>6, <2>7 DEF Follows
  <2>9. h = [k \in 0..Depth |-> IF k = 0 THEN {n} ELSE UNION {Into(x) : x \in h[k - 1]}]
    BY <2>8
  <2>. QED  BY <2>9 DEF LevelsOf
<1>3. L(level)
  BY <1>2
<1>4. Behind(n, declarators) = visited
  BY DEF Behind, Visited, LevelsOf
<1>. HIDE DEF level
<1>5. level[0] \subseteq Nodes
  BY <1>3, DepthAssumption DEF LevelsOf
<1>6. ASSUME NEW k \in 1..Depth, level[k - 1] \subseteq Nodes
      PROVE  level[k] \subseteq Nodes
  <2>1. k \in 0..Depth /\ k # 0
    BY DepthAssumption
  <2>2. level[k] = UNION {Into(x) : x \in level[k - 1]}
    BY <1>3, <2>1 DEF LevelsOf
  <2>. HIDE DEF Into
  <2>. QED  BY <1>1, <1>6, <2>2
<1>7. visited \subseteq Nodes
  BY <1>5, <1>6, LevelsTyped
<1>. QED
  BY <1>4, <1>7

(* Whatever is visited from a start, by f.                                 *)
Visits(visited, start, f) ==
  \E level : Follows(level, start, f) /\ visited = UNION {level[k] : k \in 0..Depth}

(* What the five visits of the walkers follow, and what they make of it.   *)
CsInner(n) == UNION {CsNamespace(k) : k \in Kids(n, CsNamespaces)}

CsBodies(n) == Kids(n, CsNamespaces \cup {"body", "declaration_list"})
CsTypes(scopes) ==
  NamesOf(UNION {Named(n, {"class_declaration", "interface_declaration",
                           "struct_declaration"}) : n \in scopes})
CppBodies(n) ==
  UNION {Kids(k, {"body"}) : k \in Kids(n, CppClasses \cup {"namespace_definition"})}
CppTypes(scopes) ==
  LET classes == UNION {Kids(n, CppClasses) : n \in scopes}
  IN  UNION {CppName(k, {"type_identifier", "identifier"}) : k \in classes}

(* For each of them: some set is visited, within any D that its children   *)
(* do not leave, and the walker's result is of that set.  The proofs are   *)
(* alike; they are five because a lemma cannot take the walker's operator. *)
CsVisit(b, root, D, visited) ==
  /\ Visits(visited, {root}, [x \in D |-> CsInner(x)])
  /\ CsExtract(b, root) =
       File(b) ++ All({CsDecls(n, b, CsLocal(root)) : n \in visited})

LEMMA CsLevels ==
  ASSUME NEW b, NEW root,
         NEW D, root \in D,
         \A x \in D : CsInner(x) \subseteq D
  PROVE  \E visited \in SUBSET D : CsVisit(b, root, D, visited)
<1>. DEFINE Into(x) == CsInner(x)
            f == [x \in D |-> Into(x)]
            start == {root}
            L(level) == LevelsOf(level, start, Into)
            level == CHOOSE h : L(h)
            visited == UNION {level[k] : k \in 0..Depth}
<1>1. CsExtract(b, root) =
        File(b) ++ All({CsDecls(n, b, CsLocal(root)) : n \in visited})
  BY DEF CsExtract, Visited, LevelsOf, CsInner
<1>. HIDE DEF Into
<1>2. f \in [D -> SUBSET D] /\ \A x \in D : f[x] = Into(x)
  BY DEF Into
<1>. HIDE DEF f
<1>3. \A k \in 1..Depth : k \in 0..Depth /\ k - 1 \in 0..Depth /\ k # 0
  BY DepthAssumption
<1>4. \E h : L(h)
  <2>1. start \in SUBSET D
    OBVIOUS
  <2>2. PICK h \in [0..Depth -> SUBSET D] : Follows(h, start, f)
    BY <1>2, <2>1, LevelsExist
  <2>3. \A k \in 1..Depth : h[k - 1] \subseteq D
    BY <1>3
  <2>4. ASSUME NEW k \in 1..Depth
        PROVE  h[k] = UNION {Into(x) : x \in h[k - 1]}
    <3>1. h[k] = UNION {f[x] : x \in h[k - 1]}
      BY <2>2 DEF Follows
    <3>2. \A x \in h[k - 1] : f[x] = Into(x)
      BY <1>2, <2>3
    <3>. QED  BY <3>1, <3>2
  <2>5. \A k \in 0..Depth : h[k] = IF k = 0 THEN start ELSE UNION {Into(x) : x \in h[k - 1]}
    <3>1. \A k \in 0..Depth : k = 0 \/ k \in 1..Depth
      BY DepthAssumption
    <3>. QED  BY <2>2, <2>4, <3>1 DEF Follows
  <2>6. h = [k \in 0..Depth |-> IF k = 0 THEN start ELSE UNION {Into(x) : x \in h[k - 1]}]
    BY <2>5
  <2>. QED  BY <2>6 DEF LevelsOf
<1>5. L(level)
  BY <1>4
<1>. HIDE DEF level
<1>6. level[0] = start
  BY <1>5, DepthAssumption DEF LevelsOf
<1>7. \A k \in 1..Depth : level[k] = UNION {Into(x) : x \in level[k - 1]}
  BY <1>3, <1>5 DEF LevelsOf
<1>8. \A k \in 1..Depth : level[k - 1] \subseteq D => level[k] \subseteq D
  BY <1>7 DEF Into
<1>9. visited \subseteq D /\ \A k \in 0..Depth : level[k] \subseteq D
  <2>1. level[0] \subseteq D
    BY <1>6
  <2>. QED  BY <1>8, <2>1, LevelsTyped
<1>10. Visits(visited, start, f)
  <2>1. \A k \in 1..Depth : level[k] = UNION {f[x] : x \in level[k - 1]}
    BY <1>2, <1>3, <1>7, <1>9
  <2>. QED  BY <1>6, <2>1 DEF Visits, Follows
<1>. HIDE DEF visited
<1>. QED
  BY <1>1, <1>9, <1>10 DEF f, Into, CsVisit

CppVisit(b, root, D, visited) ==
  /\ Visits(visited, {[node |-> root, container |-> b]},
            [x \in D |-> CppNamespaces(x, b)])
  /\ CppExtract(b, root) =
       File(b) ++ All({CppWalk(scope, b, CppLocal(root)) : scope \in visited})

LEMMA CppLevels ==
  ASSUME NEW b, NEW root,
         NEW D, [node |-> root, container |-> b] \in D,
         \A x \in D : CppNamespaces(x, b) \subseteq D
  PROVE  \E visited \in SUBSET D : CppVisit(b, root, D, visited)
<1>. DEFINE Into(x) == CppNamespaces(x, b)
            f == [x \in D |-> Into(x)]
            start == {[node |-> root, container |-> b]}
            L(level) == LevelsOf(level, start, Into)
            level == CHOOSE h : L(h)
            visited == UNION {level[k] : k \in 0..Depth}
<1>1. CppExtract(b, root) =
        File(b) ++ All({CppWalk(scope, b, CppLocal(root)) : scope \in visited})
  BY DEF CppExtract, Visited, LevelsOf
<1>. HIDE DEF Into
<1>2. f \in [D -> SUBSET D] /\ \A x \in D : f[x] = Into(x)
  BY DEF Into
<1>. HIDE DEF f
<1>3. \A k \in 1..Depth : k \in 0..Depth /\ k - 1 \in 0..Depth /\ k # 0
  BY DepthAssumption
<1>4. \E h : L(h)
  <2>1. start \in SUBSET D
    OBVIOUS
  <2>2. PICK h \in [0..Depth -> SUBSET D] : Follows(h, start, f)
    BY <1>2, <2>1, LevelsExist
  <2>3. \A k \in 1..Depth : h[k - 1] \subseteq D
    BY <1>3
  <2>4. ASSUME NEW k \in 1..Depth
        PROVE  h[k] = UNION {Into(x) : x \in h[k - 1]}
    <3>1. h[k] = UNION {f[x] : x \in h[k - 1]}
      BY <2>2 DEF Follows
    <3>2. \A x \in h[k - 1] : f[x] = Into(x)
      BY <1>2, <2>3
    <3>. QED  BY <3>1, <3>2
  <2>5. \A k \in 0..Depth : h[k] = IF k = 0 THEN start ELSE UNION {Into(x) : x \in h[k - 1]}
    <3>1. \A k \in 0..Depth : k = 0 \/ k \in 1..Depth
      BY DepthAssumption
    <3>. QED  BY <2>2, <2>4, <3>1 DEF Follows
  <2>6. h = [k \in 0..Depth |-> IF k = 0 THEN start ELSE UNION {Into(x) : x \in h[k - 1]}]
    BY <2>5
  <2>. QED  BY <2>6 DEF LevelsOf
<1>5. L(level)
  BY <1>4
<1>. HIDE DEF level
<1>6. level[0] = start
  BY <1>5, DepthAssumption DEF LevelsOf
<1>7. \A k \in 1..Depth : level[k] = UNION {Into(x) : x \in level[k - 1]}
  BY <1>3, <1>5 DEF LevelsOf
<1>8. \A k \in 1..Depth : level[k - 1] \subseteq D => level[k] \subseteq D
  BY <1>7 DEF Into
<1>9. visited \subseteq D /\ \A k \in 0..Depth : level[k] \subseteq D
  <2>1. level[0] \subseteq D
    BY <1>6
  <2>. QED  BY <1>8, <2>1, LevelsTyped
<1>10. Visits(visited, start, f)
  <2>1. \A k \in 1..Depth : level[k] = UNION {f[x] : x \in level[k - 1]}
    BY <1>2, <1>3, <1>7, <1>9
  <2>. QED  BY <1>6, <2>1 DEF Visits, Follows
<1>. HIDE DEF visited
<1>. QED
  BY <1>1, <1>9, <1>10 DEF f, Into, CppVisit

CsLocalVisit(root, D, visited) ==
  /\ Visits(visited, {root}, [x \in D |-> CsBodies(x)])
  /\ CsLocal(root) = CsTypes(visited)

LEMMA CsLocalLevels ==
  ASSUME NEW root,
         NEW D, root \in D,
         \A x \in D : CsBodies(x) \subseteq D
  PROVE  \E visited \in SUBSET D : CsLocalVisit(root, D, visited)
<1>. DEFINE Into(x) == CsBodies(x)
            f == [x \in D |-> Into(x)]
            start == {root}
            L(level) == LevelsOf(level, start, Into)
            level == CHOOSE h : L(h)
            visited == UNION {level[k] : k \in 0..Depth}
<1>1. CsLocal(root) = CsTypes(visited)
  BY DEF CsLocal, Visited, LevelsOf, CsBodies, CsTypes
<1>. HIDE DEF Into
<1>2. f \in [D -> SUBSET D] /\ \A x \in D : f[x] = Into(x)
  BY DEF Into
<1>. HIDE DEF f
<1>3. \A k \in 1..Depth : k \in 0..Depth /\ k - 1 \in 0..Depth /\ k # 0
  BY DepthAssumption
<1>4. \E h : L(h)
  <2>1. start \in SUBSET D
    OBVIOUS
  <2>2. PICK h \in [0..Depth -> SUBSET D] : Follows(h, start, f)
    BY <1>2, <2>1, LevelsExist
  <2>3. \A k \in 1..Depth : h[k - 1] \subseteq D
    BY <1>3
  <2>4. ASSUME NEW k \in 1..Depth
        PROVE  h[k] = UNION {Into(x) : x \in h[k - 1]}
    <3>1. h[k] = UNION {f[x] : x \in h[k - 1]}
      BY <2>2 DEF Follows
    <3>2. \A x \in h[k - 1] : f[x] = Into(x)
      BY <1>2, <2>3
    <3>. QED  BY <3>1, <3>2
  <2>5. \A k \in 0..Depth : h[k] = IF k = 0 THEN start ELSE UNION {Into(x) : x \in h[k - 1]}
    <3>1. \A k \in 0..Depth : k = 0 \/ k \in 1..Depth
      BY DepthAssumption
    <3>. QED  BY <2>2, <2>4, <3>1 DEF Follows
  <2>6. h = [k \in 0..Depth |-> IF k = 0 THEN start ELSE UNION {Into(x) : x \in h[k - 1]}]
    BY <2>5
  <2>. QED  BY <2>6 DEF LevelsOf
<1>5. L(level)
  BY <1>4
<1>. HIDE DEF level
<1>6. level[0] = start
  BY <1>5, DepthAssumption DEF LevelsOf
<1>7. \A k \in 1..Depth : level[k] = UNION {Into(x) : x \in level[k - 1]}
  BY <1>3, <1>5 DEF LevelsOf
<1>8. \A k \in 1..Depth : level[k - 1] \subseteq D => level[k] \subseteq D
  BY <1>7 DEF Into
<1>9. visited \subseteq D /\ \A k \in 0..Depth : level[k] \subseteq D
  <2>1. level[0] \subseteq D
    BY <1>6
  <2>. QED  BY <1>8, <2>1, LevelsTyped
<1>10. Visits(visited, start, f)
  <2>1. \A k \in 1..Depth : level[k] = UNION {f[x] : x \in level[k - 1]}
    BY <1>2, <1>3, <1>7, <1>9
  <2>. QED  BY <1>6, <2>1 DEF Visits, Follows
<1>. HIDE DEF visited
<1>. QED
  BY <1>1, <1>9, <1>10 DEF f, Into, CsLocalVisit

CppLocalVisit(root, D, visited) ==
  /\ Visits(visited, {root}, [x \in D |-> CppBodies(x)])
  /\ CppLocal(root) = CppTypes(visited)

LEMMA CppLocalLevels ==
  ASSUME NEW root,
         NEW D, root \in D,
         \A x \in D : CppBodies(x) \subseteq D
  PROVE  \E visited \in SUBSET D : CppLocalVisit(root, D, visited)
<1>. DEFINE Into(x) == CppBodies(x)
            f == [x \in D |-> Into(x)]
            start == {root}
            L(level) == LevelsOf(level, start, Into)
            level == CHOOSE h : L(h)
            visited == UNION {level[k] : k \in 0..Depth}
<1>1. CppLocal(root) = CppTypes(visited)
  BY DEF CppLocal, Visited, LevelsOf, CppBodies, CppTypes
<1>. HIDE DEF Into
<1>2. f \in [D -> SUBSET D] /\ \A x \in D : f[x] = Into(x)
  BY DEF Into
<1>. HIDE DEF f
<1>3. \A k \in 1..Depth : k \in 0..Depth /\ k - 1 \in 0..Depth /\ k # 0
  BY DepthAssumption
<1>4. \E h : L(h)
  <2>1. start \in SUBSET D
    OBVIOUS
  <2>2. PICK h \in [0..Depth -> SUBSET D] : Follows(h, start, f)
    BY <1>2, <2>1, LevelsExist
  <2>3. \A k \in 1..Depth : h[k - 1] \subseteq D
    BY <1>3
  <2>4. ASSUME NEW k \in 1..Depth
        PROVE  h[k] = UNION {Into(x) : x \in h[k - 1]}
    <3>1. h[k] = UNION {f[x] : x \in h[k - 1]}
      BY <2>2 DEF Follows
    <3>2. \A x \in h[k - 1] : f[x] = Into(x)
      BY <1>2, <2>3
    <3>. QED  BY <3>1, <3>2
  <2>5. \A k \in 0..Depth : h[k] = IF k = 0 THEN start ELSE UNION {Into(x) : x \in h[k - 1]}
    <3>1. \A k \in 0..Depth : k = 0 \/ k \in 1..Depth
      BY DepthAssumption
    <3>. QED  BY <2>2, <2>4, <3>1 DEF Follows
  <2>6. h = [k \in 0..Depth |-> IF k = 0 THEN start ELSE UNION {Into(x) : x \in h[k - 1]}]
    BY <2>5
  <2>. QED  BY <2>6 DEF LevelsOf
<1>5. L(level)
  BY <1>4
<1>. HIDE DEF level
<1>6. level[0] = start
  BY <1>5, DepthAssumption DEF LevelsOf
<1>7. \A k \in 1..Depth : level[k] = UNION {Into(x) : x \in level[k - 1]}
  BY <1>3, <1>5 DEF LevelsOf
<1>8. \A k \in 1..Depth : level[k - 1] \subseteq D => level[k] \subseteq D
  BY <1>7 DEF Into
<1>9. visited \subseteq D /\ \A k \in 0..Depth : level[k] \subseteq D
  <2>1. level[0] \subseteq D
    BY <1>6
  <2>. QED  BY <1>8, <2>1, LevelsTyped
<1>10. Visits(visited, start, f)
  <2>1. \A k \in 1..Depth : level[k] = UNION {f[x] : x \in level[k - 1]}
    BY <1>2, <1>3, <1>7, <1>9
  <2>. QED  BY <1>6, <2>1 DEF Visits, Follows
<1>. HIDE DEF visited
<1>. QED
  BY <1>1, <1>9, <1>10 DEF f, Into, CppLocalVisit

RustVisit(root, D, visited) ==
  /\ Visits(visited, {[node |-> root, fn |-> NoName, impl |-> NoName]},
            [x \in D |-> RustKids(x)])
  /\ RustExtract(root) =
       All({RustNode(v.node, v.fn, v.impl) : v \in visited})

LEMMA RustLevels ==
  ASSUME NEW root,
         NEW D, [node |-> root, fn |-> NoName, impl |-> NoName] \in D,
         \A x \in D : RustKids(x) \subseteq D
  PROVE  \E visited \in SUBSET D : RustVisit(root, D, visited)
<1>. DEFINE Into(x) == RustKids(x)
            f == [x \in D |-> Into(x)]
            start == {[node |-> root, fn |-> NoName, impl |-> NoName]}
            L(level) == LevelsOf(level, start, Into)
            level == CHOOSE h : L(h)
            visited == UNION {level[k] : k \in 0..Depth}
<1>1. RustExtract(root) =
        All({RustNode(v.node, v.fn, v.impl) : v \in visited})
  BY DEF RustExtract, Visited, LevelsOf
<1>. HIDE DEF Into
<1>2. f \in [D -> SUBSET D] /\ \A x \in D : f[x] = Into(x)
  BY DEF Into
<1>. HIDE DEF f
<1>3. \A k \in 1..Depth : k \in 0..Depth /\ k - 1 \in 0..Depth /\ k # 0
  BY DepthAssumption
<1>4. \E h : L(h)
  <2>1. start \in SUBSET D
    OBVIOUS
  <2>2. PICK h \in [0..Depth -> SUBSET D] : Follows(h, start, f)
    BY <1>2, <2>1, LevelsExist
  <2>3. \A k \in 1..Depth : h[k - 1] \subseteq D
    BY <1>3
  <2>4. ASSUME NEW k \in 1..Depth
        PROVE  h[k] = UNION {Into(x) : x \in h[k - 1]}
    <3>1. h[k] = UNION {f[x] : x \in h[k - 1]}
      BY <2>2 DEF Follows
    <3>2. \A x \in h[k - 1] : f[x] = Into(x)
      BY <1>2, <2>3
    <3>. QED  BY <3>1, <3>2
  <2>5. \A k \in 0..Depth : h[k] = IF k = 0 THEN start ELSE UNION {Into(x) : x \in h[k - 1]}
    <3>1. \A k \in 0..Depth : k = 0 \/ k \in 1..Depth
      BY DepthAssumption
    <3>. QED  BY <2>2, <2>4, <3>1 DEF Follows
  <2>6. h = [k \in 0..Depth |-> IF k = 0 THEN start ELSE UNION {Into(x) : x \in h[k - 1]}]
    BY <2>5
  <2>. QED  BY <2>6 DEF LevelsOf
<1>5. L(level)
  BY <1>4
<1>. HIDE DEF level
<1>6. level[0] = start
  BY <1>5, DepthAssumption DEF LevelsOf
<1>7. \A k \in 1..Depth : level[k] = UNION {Into(x) : x \in level[k - 1]}
  BY <1>3, <1>5 DEF LevelsOf
<1>8. \A k \in 1..Depth : level[k - 1] \subseteq D => level[k] \subseteq D
  BY <1>7 DEF Into
<1>9. visited \subseteq D /\ \A k \in 0..Depth : level[k] \subseteq D
  <2>1. level[0] \subseteq D
    BY <1>6
  <2>. QED  BY <1>8, <2>1, LevelsTyped
<1>10. Visits(visited, start, f)
  <2>1. \A k \in 1..Depth : level[k] = UNION {f[x] : x \in level[k - 1]}
    BY <1>2, <1>3, <1>7, <1>9
  <2>. QED  BY <1>6, <2>1 DEF Visits, Follows
<1>. HIDE DEF visited
<1>. QED
  BY <1>1, <1>9, <1>10 DEF f, Into, RustVisit

(***************************************************************************)
(* The walkers that visit, and those of names: a part of the file, too.    *)
(***************************************************************************)
LEMMA NamesTyped ==
  ASSUME NEW nodes \in SUBSET Nodes
  PROVE  NamesOf(nodes) \subseteq Seq(Word)
BY NodeTyped DEF NamesOf

LEMMA COfFile ==
  ASSUME NEW b \in Seq(Word), NEW root \in Nodes
  PROVE  Whole(b, {b}, CExtract(b, root))
<1>1. ASSUME NEW names \in SUBSET Seq(Word)
      PROVE  OfFile(b, {b}, All({CSymbol(b, name) : name \in names}))
  <2>1. \A name \in names : b \o name \in Own(b)
    BY OwnLabels, WordsAreEndings
  <2>2. \A name \in names : OfFile(b, {b}, CSymbol(b, name))
    BY <2>1, OfFileDeclared DEF CSymbol
  <2>. QED  BY <2>2, OfFileAll
<1>2. ASSUME NEW n \in Nodes
      PROVE  CDeclarator(n) \subseteq Seq(Word) /\ CTypedefName(n) \subseteq Seq(Word)
  <2>1. {d \in Behind(n, CDeclarators) : d.kind = "identifier"} \subseteq Nodes
    BY BehindTyped
  <2>2. {d \in Behind(n, {"pointer_declarator"}) : d.kind = "type_identifier"} \subseteq Nodes
    BY BehindTyped
  <2>. QED  BY <2>1, <2>2, NamesTyped DEF CDeclarator, CTypedefName
<1>3. ASSUME NEW n \in Nodes
      PROVE  OfFile(b, {b}, CFunction(n, b))
  <2>1. UNION {CDeclarator(k) : k \in AllKids(n)} \subseteq Seq(Word)
    BY <1>2, KidsTyped
  <2>. QED  BY <1>1, <2>1 DEF CFunction
<1>4. ASSUME NEW n \in Nodes
      PROVE  OfFile(b, {b}, CStruct(n, b))
  <2>1. b \o Lower(n.name) \in Own(b)
    BY NodeTyped, OfFileSymbol
  <2>. QED  BY <2>1, OfFileDeclared, OfFileNothing DEF CStruct, CSymbol
<1>5. ASSUME NEW n \in Nodes
      PROVE  OfFile(b, {b}, All({CStruct(t, b) : t \in Kids(n, CAggregates)}))
  BY <1>4, KidsTyped, OfFileAll
<1>6. ASSUME NEW n \in Nodes
      PROVE  OfFile(b, {b}, CTypeDefinition(n, b))
  <2>1. UNION {CTypedefName(k) : k \in Kids(n, {"type_identifier", "pointer_declarator"})}
          \subseteq Seq(Word)
    BY <1>2, KidsTyped
  <2>. QED  BY <1>1, <1>5, <2>1, OfFileBoth DEF CTypeDefinition
<1>7. OfFile(b, {b}, All({CFunction(n, b) : n \in Kids(root, {"function_definition"})}))
  BY <1>3, KidsTyped, OfFileAll
<1>8. OfFile(b, {b}, All({CStruct(n, b) : n \in Kids(root, CAggregates)}))
  BY <1>5
<1>9. OfFile(b, {b}, All({CDeclaration(n, b) : n \in Kids(root, {"declaration"})}))
  BY <1>5, KidsTyped, OfFileAll DEF CDeclaration
<1>10. OfFile(b, {b}, All({CTypeDefinition(n, b) : n \in Kids(root, {"type_definition"})}))
  BY <1>6, KidsTyped, OfFileAll
<1>11. OfFile(b, {b}, All({CInclude(n, b) : n \in Kids(root, {"preproc_include"})}))
  <2>1. \A n : OfFile(b, {b}, CInclude(n, b))
    BY OfFileImports DEF CInclude
  <2>. QED  BY <2>1, OfFileAll
<1>. QED
  BY <1>7, <1>8, <1>9, <1>10, <1>11, WholeFile, WholeWith DEF CExtract

LEMMA CsOfFile ==
  ASSUME NEW b \in Seq(Word), NEW root \in Nodes
  PROVE  Whole(b, {b}, CsExtract(b, root))
<1>1. ASSUME NEW n \in Nodes, NEW local
      PROVE  OfFile(b, {b}, CsClass(n, b, local))
  <2>. DEFINE class == b \o Lower(n.name)
  <2>1. class \in Own(b)
    BY NodeTyped, OfFileSymbol
  <2>2. Leads(Inherits(b, local, CsBaseList(n), class), class)
    BY InheritsLeads
  <2>3. OfFile(b, {class}, CsMethods(n, class))
    BY <2>1, BelowTyped, OfFileMethods DEF CsMethods
  <2>. QED  BY <2>1, <2>2, <2>3, OfFileClass DEF CsClass, Symbol
<1>2. ASSUME NEW n
      PROVE  OfFile(b, {b}, CsUsing(n, b))
  BY OfFileImports, OfFileNothing DEF CsUsing
<1>3. ASSUME NEW n
      PROVE  OfFile(b, {b}, CsUsings(n, b))
  <2>1. OfFile(b, {b}, All({CsUsing(u, b) : u \in Kids(n, {"using_directive"})}))
    BY <1>2, OfFileAll
  <2>2. OfFile(b, {b}, All({CsUsing(u, b) : u \in UNION {Kids(g, {"using_directive"}) :
                                                   g \in Kids(n, {"global_statement"})}}))
    BY <1>2, OfFileAll
  <2>. QED  BY <2>1, <2>2, OfFileBoth DEF CsUsings
<1>4. ASSUME NEW n \in Nodes, NEW local
      PROVE  OfFile(b, {b}, CsDecls(n, b, local))
  <2>1. OfFile(b, {b}, All({CsClass(d, b, local) :
                         d \in Named(n, {"class_declaration", "struct_declaration"})}))
    BY <1>1, KidsTyped, OfFileAll
  <2>2. OfFile(b, {b}, All({CsInterface(d, b) : d \in Named(n, {"interface_declaration"})}))
    BY KidsTyped, NodeTyped, OfFileSymbol, OfFileAll DEF CsInterface
  <2>3. OfFile(b, {b}, All({CsEnum(d, b) : d \in Named(n, {"enum_declaration"})}))
    BY KidsTyped, NodeTyped, OfFileSymbol, OfFileAll DEF CsEnum
  <2>. QED  BY <1>3, <2>1, <2>2, <2>3, OfFileBoth DEF CsDecls
<1>5. \A n \in Nodes : CsInner(n) \subseteq Nodes
  BY KidsTyped DEF CsInner, CsNamespace
<1>6. PICK scopes \in SUBSET Nodes :
        CsVisit(b, root, Nodes, scopes)
  BY <1>5, CsLevels
<1>7. OfFile(b, {b}, All({CsDecls(n, b, CsLocal(root)) : n \in scopes}))
  BY <1>4, OfFileAll
<1>. QED
  BY <1>6, <1>7, WholeFile, WholeWith DEF CsVisit

LEMMA KtOfFile ==
  ASSUME NEW b \in Seq(Word), NEW root \in Nodes
  PROVE  Whole(b, {b}, KtExtract(b, root))
<1>. DEFINE local == KtLocal(root)
<1>1. \A n, kinds : KtNamed(n, kinds) \subseteq Kids(n, kinds)
  BY DEF KtNamed
<1>2. ASSUME NEW n \in Nodes
      PROVE  b \o KtName(n) \in Own(b)
  BY KtNameTyped, OwnLabels, WordsAreEndings
<1>3. ASSUME NEW body \in Nodes, NEW class \in Own(b)
      PROVE  OfFile(b, {class}, KtMethods(body, class))
  <2>1. \A m \in Nodes : MethodId(KtName(m)) \in Endings
    BY KtNameTyped, MethodIdTyped, WordsAreEndings
  <2>2. \A m \in Nodes : OfFile(b, {class}, Method(class, MethodId(KtName(m))))
    BY <2>1, OfFileMethod
  <2>3. OfFile(b, {class}, All({Method(class, MethodId(KtName(m))) :
                         m \in KtNamed(body, {"function_declaration"})}))
    BY <1>1, <2>2, KidsTyped, OfFileAll
  <2>4. <<"constructor">> \in Endings
    BY DEF Endings
  <2>5. OfFile(b, {class}, Method(class, <<"constructor">>))
    BY <2>4, OfFileMethod
  <2>6. OfFile(b, {class}, All({Method(class, <<"constructor">>) :
                         m \in Kids(body, {"secondary_constructor"})}))
    BY <2>5, OfFileAll
  <2>. QED  BY <2>3, <2>6, OfFileBoth DEF KtMethods
<1>4. ASSUME NEW n \in Nodes, NEW bases, NEW kinds
      PROVE  OfFile(b, {b}, Declared(b, "contains", b \o KtName(n))
                         ++ Inherits(b, local, bases, b \o KtName(n))
                         ++ All({KtMethods(k, b \o KtName(n)) : k \in Kids(n, kinds)}))
  <2>. DEFINE class == b \o KtName(n)
  <2>1. class \in Own(b)
    BY <1>2
  <2>. HIDE DEF class
  <2>2. Leads(Inherits(b, local, bases, class), class)
    BY InheritsLeads
  <2>3. OfFile(b, {class}, All({KtMethods(k, class) : k \in Kids(n, kinds)}))
    BY <1>3, <2>1, KidsTyped, OfFileAll
  <2>. QED  BY <2>1, <2>2, <2>3, OfFileClass DEF class
<1>. HIDE DEF local
<1>5. \A n \in Nodes : OfFile(b, {b}, KtClass(n, b, local)) /\ OfFile(b, {b}, KtObject(n, b, local))
  BY <1>4 DEF KtClass, KtObject
<1>6. \A n \in Nodes : OfFile(b, {b}, KtFunction(n, b))
  BY <1>2, OfFileDeclared DEF KtFunction
<1>7. \A n : OfFile(b, {b}, KtImport(n, b))
  BY OfFileImports DEF KtImport
<1>8. OfFile(b, {b}, All({KtImport(n, b) : n \in UNION {Kids(n, {"import", "import_header"}) :
                       n \in {root} \cup Kids(root, {"import_list"})}}))
  BY <1>7, OfFileAll
<1>9. OfFile(b, {b}, All({KtClass(n, b, local) :
                       n \in KtNamed(root, {"class_declaration", "interface_declaration"})}))
  BY <1>1, <1>5, KidsTyped, OfFileAll
<1>10. OfFile(b, {b}, All({KtObject(n, b, local) : n \in KtNamed(root, {"object_declaration"})}))
  BY <1>1, <1>5, KidsTyped, OfFileAll
<1>11. OfFile(b, {b}, All({KtFunction(n, b) : n \in KtNamed(root, {"function_declaration"})}))
  BY <1>1, <1>6, KidsTyped, OfFileAll
<1>. QED
  BY <1>8, <1>9, <1>10, <1>11, WholeFile, WholeWith DEF KtExtract, local

LEMMA TextOfFile ==
  ASSUME NEW ext, NEW b \in Seq(Word), NEW root \in Nodes
  PROVE  Whole(b, {b}, TextExtract(ext, b, root))
<1>1. ASSUME NEW line
      PROVE  OfFile(b, {b}, MdLinks(line, b))
  BY OfFileRelated, OfFileAll DEF MdLinks
<1>2. ASSUME NEW line \in Nodes
      PROVE  OfFile(b, {b}, MdLine(line, b))
  <2>1. b \o Slug(line.name) \in Own(b)
    BY NodeTyped, SlugTyped, OwnLabels, WordsAreEndings
  <2>2. /\ OfFile(b, {b}, Declared(b, "contains", b \o Slug(line.name)))
        /\ OfFile(b, {b}, Nothing)
    BY <2>1, OfFileDeclared, OfFileNothing
  <2>. QED  BY <1>1, <2>2, OfFileBoth DEF MdLine
<1>3. OfFile(b, {b}, MdExtract(b, root))
  <2>. DEFINE lines == root.kids
              told == {j \in DOMAIN lines :
                         lines[j].kind \notin MdFences /\ MdFence(lines)[j] = NoName}
  <2>1. \A i \in told : lines[i] \in Nodes
    BY NodeTyped
  <2>2. MdExtract(b, root) = All({MdLine(lines[i], b) : i \in told})
    BY DEF MdExtract
  <2>. HIDE DEF told, lines
  <2>. QED  BY <1>2, <2>1, <2>2, OfFileAll
<1>. QED
  BY <1>3, OfFileNothing, WholeFile, WholeWith DEF TextExtract

LEMMA CppOfFile ==
  ASSUME NEW b \in Seq(Word), NEW root \in Nodes
  PROVE  Whole(b, {b}, CppExtract(b, root))
<1>. DEFINE Scopes == [node : Nodes, container : Own(b)]
<1>1. ASSUME NEW n \in Nodes, NEW kinds
      PROVE  CppName(n, kinds) \subseteq Seq(Word)
  BY KidsTyped, NamesTyped DEF CppName
<1>2. ASSUME NEW n \in Nodes
      PROVE  CppFnName(n) \subseteq Seq(Word)
  <2>. DEFINE inner == Behind(n, CppDeclarators)
              plain == {d \in inner : d.kind \in {"identifier", "field_identifier"}}
              qualified == {d \in inner : d.kind = "qualified_identifier"}
  <2>1. inner \subseteq Nodes
    BY BehindTyped
  <2>2. CppFnName(n) =
          NamesOf(plain) \cup UNION {CppName(d, {"identifier", "field_identifier",
                                                 "type_identifier"}) : d \in qualified}
    BY DEF CppFnName
  <2>. HIDE DEF inner
  <2>3. NamesOf(plain) \subseteq Seq(Word)
    BY <2>1, NamesTyped
  <2>4. \A d \in qualified : CppName(d, {"identifier", "field_identifier", "type_identifier"})
                               \subseteq Seq(Word)
    BY <1>1, <2>1
  <2>. HIDE DEF plain, qualified
  <2>. QED  BY <2>2, <2>3, <2>4
<1>3. ASSUME NEW n \in Nodes
      PROVE  CppFnNames(n) \subseteq Seq(Word)
  BY <1>2, KidsTyped DEF CppFnNames
<1>4. ASSUME NEW name \in Seq(Word)
      PROVE  b \o name \in Own(b)
  BY OwnLabels, WordsAreEndings
<1>5. ASSUME NEW n \in Nodes, NEW container
      PROVE  OfFile(b, {container}, CppFunction(n, b, container))
  <2>1. \A name \in CppFnNames(n) : OfFile(b, {container}, Declared(container, "contains", b \o name))
    BY <1>3, <1>4, OfFileDeclared
  <2>. QED  BY <2>1, OfFileAll DEF CppFunction
<1>6. ASSUME NEW body \in Nodes, NEW c \in Seq(Word)
      PROVE  OfFile(b, {b \o c}, CppMethods(body, b, c))
  <2>. DEFINE names == UNION {CppFnNames(m) : m \in Kids(body, {"function_definition"})} \ {c}
  <2>1. names \subseteq Seq(Word)
    BY <1>3, KidsTyped
  <2>. HIDE DEF names
  <2>2. \A name \in names : OfFile(b, {b \o c}, Method(b \o c, name))
    BY <1>4, <2>1, OfFileMethod, WordsAreEndings
  <2>3. OfFile(b, {b \o c}, All({Method(b \o c, name) : name \in names}))
    BY <2>2, OfFileAll
  <2>. QED  BY <2>3 DEF CppMethods, names
<1>7. ASSUME NEW n \in Nodes, NEW container, NEW local
      PROVE  OfFile(b, {container}, CppClass(n, b, container, local))
  <2>1. ASSUME NEW c \in Seq(Word)
        PROVE  OfFile(b, {container}, Declared(container, "contains", b \o c)
                           ++ All({Inherits(b, local, CppBases(k), b \o c) :
                                     k \in Kids(n, {"base_class_clause"})})
                           ++ All({CppMethods(k, b, c) : k \in Kids(n, {"body"})}))
    <3>. DEFINE class == b \o c
                bases == {Inherits(b, local, CppBases(k), class) :
                            k \in Kids(n, {"base_class_clause"})}
    <3>1. class \in Own(b)
      BY <1>4
    <3>. HIDE DEF class
    <3>2. Leads(All(bases), class)
      BY InheritsLeads, LeadsAll
    <3>3. OfFile(b, {class}, All({CppMethods(k, b, c) : k \in Kids(n, {"body"})}))
      BY <1>6, KidsTyped, OfFileAll DEF class
    <3>. QED  BY <3>1, <3>2, <3>3, OfFileClass DEF class
  <2>2. CppName(n, {"type_identifier", "identifier"}) \subseteq Seq(Word)
    BY <1>1
  <2>. QED  BY <2>1, <2>2, OfFileAll DEF CppClass
<1>8. ASSUME NEW scope \in Scopes, NEW local
      PROVE  OfFile(b, {scope.container}, CppWalk(scope, b, local))
  <2>. DEFINE n == scope.node  container == scope.container
  <2>1. n \in Nodes
    OBVIOUS
  <2>. HIDE DEF n, container
  <2>2. OfFile(b, {container}, All({CppFunction(k, b, container) : k \in Kids(n, {"function_definition"})}))
    BY <1>5, <2>1, KidsTyped, OfFileAll
  <2>3. OfFile(b, {container}, All({CppClass(k, b, container, local) : k \in Kids(n, CppClasses)}))
    BY <1>7, <2>1, KidsTyped, OfFileAll
  <2>4. OfFile(b, {container}, All({Declared(container, "contains", b \o Lower(k.name)) :
                         k \in Named(n, {"namespace_definition"})}))
    <3>1. \A k \in Named(n, {"namespace_definition"}) : b \o Lower(k.name) \in Own(b)
      BY <1>4, <2>1, KidsTyped, NodeTyped
    <3>. QED  BY <3>1, OfFileDeclared, OfFileAll
  <2>5. OfFile(b, {container}, All({CppInclude(k, b) : k \in Kids(n, {"preproc_include"})}))
    <3>1. \A k : OfFile(b, {container}, CppInclude(k, b))
      BY OfFileImports DEF CppInclude
    <3>. QED  BY <3>1, OfFileAll
  <2>. QED  BY <2>2, <2>3, <2>4, <2>5, OfFileBoth DEF CppWalk, n, container
<1>9. ASSUME NEW scope \in Scopes
      PROVE  CppNamespaces(scope, b) \subseteq Scopes
  <2>1. scope.node \in Nodes
    OBVIOUS
  <2>2. ASSUME NEW k \in Named(scope.node, {"namespace_definition"}),
               NEW body \in Kids(k, {"body"})
        PROVE  [node |-> body, container |-> b \o Lower(k.name)] \in Scopes
    <3>1. k \in Nodes
      BY <2>1, KidsTyped
    <3>2. body \in Nodes /\ b \o Lower(k.name) \in Own(b)
      BY <1>4, <3>1, KidsTyped, NodeTyped
    <3>. QED  BY <3>2
  <2>. HIDE DEF Scopes
  <2>. QED  BY <2>2 DEF CppNamespaces
<1>10. [node |-> root, container |-> b] \in Scopes
  BY OwnLabels
<1>. HIDE DEF Scopes
<1>11. PICK scopes \in SUBSET Scopes :
         CppVisit(b, root, Scopes, scopes)
  BY <1>9, <1>10, CppLevels
<1>. DEFINE start == [node |-> root, container |-> b]
            walked == {CppWalk(scope, b, CppLocal(root)) : scope \in scopes}
            all == All(walked)
            containers == {scope.container : scope \in scopes}
<1>12. OfFile(b, containers, all)
  <2>1. ASSUME NEW scope \in scopes
        PROVE  OfFile(b, containers, CppWalk(scope, b, CppLocal(root)))
    <3>1. OfFile(b, {scope.container}, CppWalk(scope, b, CppLocal(root)))
      BY <1>8
    <3>2. {scope.container} \subseteq containers
      OBVIOUS
    <3>. HIDE DEF containers
    <3>. QED  BY <3>1, <3>2, OfFileRooted
  <2>. HIDE DEF containers
  <2>. QED  BY <2>1, OfFileAll
<1>13. ASSUME NEW parent \in scopes, NEW scope \in CppNamespaces(parent, b)
       PROVE  scope.container \in all.nodes
  <2>1. PICK k \in Named(parent.node, {"namespace_definition"}) :
          scope.container = b \o Lower(k.name)
    <3>. DEFINE bodies(k) == {[node |-> body, container |-> b \o Lower(k.name)] :
                                body \in Kids(k, {"body"})}
    <3>1. scope \in UNION {bodies(k) : k \in Named(parent.node, {"namespace_definition"})}
      BY <1>13 DEF CppNamespaces
    <3>2. PICK k \in Named(parent.node, {"namespace_definition"}) : scope \in bodies(k)
      BY <3>1
    <3>3. scope.container = b \o Lower(k.name)
      BY <3>2
    <3>. QED  BY <3>3
  <2>. DEFINE spaces == {Declared(parent.container, "contains", b \o Lower(j.name)) :
                           j \in Named(parent.node, {"namespace_definition"})}
  <2>2. scope.container \in All(spaces).nodes
    <3>1. scope.container \in Declared(parent.container, "contains", b \o Lower(k.name)).nodes
      BY <2>1 DEF Declared
    <3>2. Declared(parent.container, "contains", b \o Lower(k.name)) \in spaces
      BY <2>1
    <3>. HIDE DEF spaces
    <3>. QED  BY <3>1, <3>2 DEF All
  <2>3. All(spaces).nodes \subseteq CppWalk(parent, b, CppLocal(root)).nodes
    BY DEF CppWalk, ++
  <2>4. CppWalk(parent, b, CppLocal(root)) \in walked
    OBVIOUS
  <2>. HIDE DEF walked, spaces
  <2>. QED  BY <2>2, <2>3, <2>4 DEF All
<1>14. ASSUME NEW scope \in scopes
       PROVE  scope = start \/ \E parent \in scopes : scope \in CppNamespaces(parent, b)
  <2>. DEFINE f == [x \in Scopes |-> CppNamespaces(x, b)]
  <2>1. PICK level : /\ Follows(level, {start}, f)
                     /\ scopes = UNION {level[k] : k \in 0..Depth}
    BY <1>11 DEF CppVisit, Visits
  <2>2. PICK k \in 0..Depth : scope \in level[k]
    BY <2>1
  <2>3. CASE k = 0
    BY <2>1, <2>2, <2>3 DEF Follows
  <2>4. CASE k # 0
    <3>1. k \in 1..Depth /\ k - 1 \in 0..Depth
      BY <2>4, DepthAssumption
    <3>2. level[k] = UNION {f[x] : x \in level[k - 1]}
      BY <2>1, <3>1 DEF Follows
    <3>3. \A x \in level[k - 1] : x \in scopes /\ f[x] = CppNamespaces(x, b)
      BY <2>1, <3>1
    <3>. QED  BY <2>2, <3>2, <3>3
  <2>. QED  BY <2>3, <2>4
<1>15. containers \subseteq {b} \cup all.nodes
  <2>1. ASSUME NEW scope \in scopes
        PROVE  scope.container \in {b} \cup all.nodes
    <3>1. CASE scope = start
      BY <3>1
    <3>2. CASE \E parent \in scopes : scope \in CppNamespaces(parent, b)
      BY <1>13, <3>2
    <3>. HIDE DEF start, all
    <3>. QED  BY <1>14, <3>1, <3>2
  <2>. HIDE DEF all
  <2>. QED  BY <2>1
<1>16. OfFile(b, {b}, all)
  BY <1>12, <1>15, OfFileRooted
<1>. QED
  BY <1>11, <1>16, WholeFile, WholeWith DEF CppVisit

(* In Rust, a call is made from a function that is declared above it.      *)
LEMMA RustAnchored ==
  ASSUME NEW root \in Nodes
  PROVE  \A e \in RustExtract(root).edges :
           e.source \in RustExtract(root).nodes \/ e.target \in RustExtract(root).nodes
<1>. DEFINE Visit == [node : Nodes, fn : Seq(Word), impl : Seq(Word)]
            start == [node |-> root, fn |-> NoName, impl |-> NoName]
            Said(v) == RustNode(v.node, v.fn, v.impl)
            x == RustExtract(root)
            Inside(v) == v.fn = NoName \/ v.fn \in x.nodes
<1>1. start \in Visit
  BY DEF NoName
<1>2. ASSUME NEW v \in Visit
      PROVE  RustKids(v) \subseteq Visit
  <2>1. v.node \in Nodes /\ v.node.name \in Seq(Word)
    BY NodeTyped
  <2>2. AllKids(v.node) \subseteq Nodes
    BY <2>1, KidsTyped
  <2>. QED  BY <2>1, <2>2 DEF RustKids
<1>. HIDE DEF Visit
<1>3. PICK visited \in SUBSET Visit : RustVisit(root, Visit, visited)
  BY <1>1, <1>2, RustLevels
<1>4. x = All({Said(v) : v \in visited})
  BY <1>3 DEF RustVisit
<1>5. PICK level : /\ Follows(level, {start}, [v \in Visit |-> RustKids(v)])
                   /\ visited = UNION {level[k] : k \in 0..Depth}
  BY <1>3 DEF RustVisit, Visits
<1>6. \A v \in visited : Said(v).nodes \subseteq x.nodes
  BY <1>4 DEF All
<1>. HIDE DEF x
<1>7. ASSUME NEW v \in visited, Inside(v), NEW w \in RustKids(v)
      PROVE  Inside(w)
  <2>1. \/ w.fn = v.fn
        \/ v.node.kind = "function_item" /\ HasName(v.node) /\ w.fn = v.node.name
    BY <1>7 DEF RustKids
  <2>2. CASE v.node.kind = "function_item" /\ HasName(v.node) /\ w.fn = v.node.name
    <3>1. Said(v).nodes = {v.node.name}
      BY <2>2 DEF RustNode
    <3>. QED  BY <1>6, <2>2, <3>1
  <2>. QED  BY <1>7, <2>1, <2>2
<1>8. \A k \in 0..Depth : level[k] \subseteq {v \in visited : Inside(v)}
  <2>1. level[0] \subseteq {v \in visited : Inside(v)}
    <3>1. level[0] = {start} /\ level[0] \subseteq visited
      BY <1>5, DepthAssumption DEF Follows
    <3>. QED  BY <3>1
  <2>2. ASSUME NEW k \in 1..Depth, level[k - 1] \subseteq {v \in visited : Inside(v)}
        PROVE  level[k] \subseteq {v \in visited : Inside(v)}
    <3>1. level[k] \subseteq visited
      BY <1>5, DepthAssumption
    <3>2. level[k] = UNION {[v \in Visit |-> RustKids(v)][y] : y \in level[k - 1]}
      BY <1>5 DEF Follows
    <3>3. \A y \in level[k - 1] : /\ [v \in Visit |-> RustKids(v)][y] = RustKids(y)
                                   /\ y \in visited /\ Inside(y)
      BY <2>2
    <3>4. \A w \in level[k] : Inside(w)
      <4>1. ASSUME NEW w \in level[k]
            PROVE  Inside(w)
        <5>1. PICK y \in level[k - 1] : w \in [v \in Visit |-> RustKids(v)][y]
          BY <3>2
        <5>2. w \in RustKids(y) /\ y \in visited /\ Inside(y)
          BY <3>3, <5>1
        <5>. HIDE DEF Inside
        <5>. QED  BY <1>7, <5>2
      <4>. QED  BY <4>1
    <3>. HIDE DEF Inside
    <3>. QED  BY <3>1, <3>4
  <2>. HIDE DEF Inside
  <2>. QED  BY <2>1, <2>2, LevelsTyped
<1>9. \A v \in visited : Inside(v)
  BY <1>5, <1>8
<1>10. ASSUME NEW v \in visited, NEW e \in Said(v).edges
       PROVE  e.source \in x.nodes \/ e.target \in x.nodes
  <2>1. Inside(v) /\ Said(v).nodes \subseteq x.nodes
    BY <1>6, <1>9
  <2>2. CASE v.node.kind = "function_item" /\ HasName(v.node)
    <3>1. Said(v).nodes = {v.node.name} /\ e.target = v.node.name
      BY <1>10, <2>2 DEF RustNode, Edge
    <3>. QED  BY <2>1, <3>1
  <2>3. CASE ~(v.node.kind = "function_item" /\ HasName(v.node))
    <3>1. v.fn # NoName /\ e.source = v.fn
      BY <1>10, <2>3 DEF RustNode, Related, Nothing, Edge
    <3>. QED  BY <2>1, <3>1
  <2>. QED  BY <2>2, <2>3
<1>11. x.edges = UNION {Said(v).edges : v \in visited}
  BY <1>4 DEF All
<1>12. \A e \in x.edges : e.source \in x.nodes \/ e.target \in x.nodes
  <2>. HIDE DEF Said
  <2>. QED  BY <1>10, <1>11
<1>. QED
  BY <1>12 DEF x

(***************************************************************************)
(* What is found.                                                          *)
(***************************************************************************)
(* But for Rust, a file says what is a part of it, with its own node, or   *)
(* nothing; in Go, what it declares may hang on a type of another file.    *)
RootsOf(s) == IF Language(s) = "go" THEN Own(StemLower(s)) ELSE {StemLower(s)}

LEMMA ExtractionWhole ==
  ASSUME NEW s \in Source, Language(s) # "rust"
  PROVE  Whole(StemLower(s), RootsOf(s), Extraction(s)) \/ Extraction(s) = Nothing
<1>. DEFINE b == StemLower(s)  language == Language(s)  root == s.tree
<1>1. b \in Seq(Word) /\ root \in Nodes
  BY SourceAssumption, LowerTyped DEF StemLower
<1>. HIDE DEF b, language, root
<1>2. /\ Whole(b, {b}, PyExtract(b, root)) /\ Whole(b, {b}, TsExtract(b, root))
      /\ Whole(b, {b}, JsExtract(b, root)) /\ Whole(b, {b}, RbExtract(b, root))
      /\ Whole(b, {b}, PhpExtract(b, root))
  BY <1>1, PyOfFile, TsOfFile, JsOfFile, RbOfFile, PhpOfFile
<1>3. /\ Whole(b, {b}, JavaExtract(b, root)) /\ Whole(b, {b}, ScExtract(b, root))
      /\ Whole(b, {b}, CsExtract(b, root)) /\ Whole(b, {b}, KtExtract(b, root))
  BY <1>1, JavaOfFile, ScOfFile, CsOfFile, KtOfFile
<1>4. /\ Whole(b, Own(b), GoExtract(b, root)) /\ Whole(b, {b}, CExtract(b, root))
      /\ Whole(b, {b}, CppExtract(b, root))
      /\ Whole(b, {b}, TextExtract(Folded[s.ext], b, root))
  BY <1>1, GoOfFile, COfFile, CppOfFile, TextOfFile
<1>5. language # "rust"
  BY DEF language
<1>6. CASE language = "go"
  <2>1. Extraction(s) = GoExtract(b, root)
    BY <1>6 DEF Extraction, b, language, root
  <2>. QED  BY <1>4, <1>6, <2>1 DEF RootsOf, language, b
<1>7. CASE language # "go"
  <2>1. \/ Extraction(s) \in {PyExtract(b, root), TsExtract(b, root), JsExtract(b, root),
                             RbExtract(b, root), PhpExtract(b, root)}
        \/ Extraction(s) \in {JavaExtract(b, root), ScExtract(b, root),
                             CsExtract(b, root), KtExtract(b, root)}
        \/ Extraction(s) \in {CExtract(b, root), CppExtract(b, root),
                             TextExtract(Folded[s.ext], b, root)}
        \/ Extraction(s) = Nothing
    BY <1>5, <1>7 DEF Extraction, b, language, root
  <2>. QED  BY <1>2, <1>3, <1>4, <1>7, <2>1 DEF RootsOf, language, b
<1>. QED
  BY <1>6, <1>7

(* A label of two files: the name of one begins with the other's.          *)
LEMMA PrefixOfSame ==
  ASSUME NEW b \in Seq(Word), NEW c \in Seq(Word), NEW label,
         label \in Own(b), label \in Own(c)
  PROVE  IsPrefix(b, c) \/ IsPrefix(c, b)
<1>. DEFINE W == Word \cup {"constructor"}
<1>1. PICK t \in Seq(W), u \in Seq(W) : label = b \o t /\ label = c \o u
  BY DEF Own, Endings
<1>0. b \in Seq(W) /\ c \in Seq(W)
  OBVIOUS
<1>. HIDE DEF W
<1>2. /\ \A i \in 1..Len(b) : label[i] = b[i]
      /\ \A i \in 1..Len(c) : label[i] = c[i]
  <2>1. ASSUME NEW d \in Seq(W), NEW v \in Seq(W), NEW i \in 1..Len(d)
        PROVE  (d \o v)[i] = d[i]
    OBVIOUS
  <2>2. \A i \in 1..Len(b) : (b \o t)[i] = b[i]
    BY <1>0, <2>1
  <2>3. \A i \in 1..Len(c) : (c \o u)[i] = c[i]
    BY <1>0, <2>1
  <2>. QED  BY <1>1, <2>2, <2>3
<1>3. ASSUME NEW d \in Seq(Word), NEW e \in Seq(Word), Len(d) <= Len(e),
             \A i \in 1..Len(d) : d[i] = e[i]
      PROVE  IsPrefix(d, e)
  <2>1. /\ SubSeq(d, 1, Len(d)) \in Seq(Word) /\ Len(SubSeq(d, 1, Len(d))) = Len(d)
        /\ \A i \in 1..Len(d) : SubSeq(d, 1, Len(d))[i] = d[i]
    OBVIOUS
  <2>2. /\ SubSeq(e, 1, Len(d)) \in Seq(Word) /\ Len(SubSeq(e, 1, Len(d))) = Len(d)
        /\ \A i \in 1..Len(d) : SubSeq(e, 1, Len(d))[i] = e[i]
    BY <1>3
  <2>3. SubSeq(d, 1, Len(d)) = SubSeq(e, 1, Len(d))
    BY <1>3, <2>1, <2>2, SeqEqual
  <2>. QED  BY <1>3, <2>3 DEF IsPrefix
<1>4. CASE Len(b) <= Len(c)
  <2>1. \A i \in 1..Len(b) : i \in 1..Len(c)
    BY <1>4
  <2>. QED  BY <1>2, <1>3, <1>4, <2>1
<1>5. CASE Len(c) <= Len(b)
  <2>1. \A i \in 1..Len(c) : i \in 1..Len(b)
    BY <1>5
  <2>. QED  BY <1>2, <1>3, <1>5, <2>1
<1>6. Len(b) \in Nat /\ Len(c) \in Nat
  OBVIOUS
<1>. QED
  BY <1>4, <1>5, <1>6

LEMMA FoundIsExtraction ==
  ASSUME Progress, NEW p \in Path, found[p] # None
  PROVE  source[p] \in Source /\ found[p] = Extraction(source[p])
BY DEF Progress

LEMMA ProgressAlways == Spec => []Progress
BY ProgressInit, ProgressStep, PTL DEF Spec

(* But for Rust, whose labels are bare, files whose stems do not begin     *)
(* with each other declare no label twice, in any language and whatever    *)
(* the trees: what a walker declares begins with the file's stem.          *)
THEOREM OwnersAlwaysUnique == Spec => []OwnersUnique
<1>1. ASSUME Progress
      PROVE  OwnersUnique
  <2>. SUFFICES ASSUME NEW p \in Path, NEW q \in Path,
                       found[p] # None, found[q] # None,
                       ~IsPrefix(StemLower(source[p]), StemLower(source[q])),
                       ~IsPrefix(StemLower(source[q]), StemLower(source[p])),
                       "rust" \notin {Language(source[p]), Language(source[q])},
                       NEW label \in found[p].nodes \cap found[q].nodes
                PROVE  FALSE
    BY DEF OwnersUnique
  <2>1. PICK s \in Source, t \in Source :
          /\ s = source[p] /\ found[p] = Extraction(s)
          /\ t = source[q] /\ found[q] = Extraction(t)
    BY <1>1, FoundIsExtraction
  <2>2. ASSUME NEW x \in Source, Language(x) # "rust", label \in Extraction(x).nodes
        PROVE  label \in Own(StemLower(x)) /\ StemLower(x) \in Seq(Word)
    <3>1. StemLower(x) \in Seq(Word)
      BY SourceAssumption, LowerTyped DEF StemLower
    <3>2. Whole(StemLower(x), RootsOf(x), Extraction(x)) \/ Extraction(x) = Nothing
      BY <2>2, ExtractionWhole
    <3>. QED  BY <2>2, <3>1, <3>2 DEF Whole, OfFile, Nothing
  <2>3. label \in Own(StemLower(s)) /\ StemLower(s) \in Seq(Word)
    BY <2>1, <2>2
  <2>4. label \in Own(StemLower(t)) /\ StemLower(t) \in Seq(Word)
    BY <2>1, <2>2
  <2>5. IsPrefix(StemLower(s), StemLower(t)) \/ IsPrefix(StemLower(t), StemLower(s))
    BY <2>3, <2>4, PrefixOfSame
  <2>. QED  BY <2>1, <2>5
<1>. QED
  BY <1>1, ProgressAlways, PTL

(* Every edge that is found has an end among the labels of its file: it    *)
(* comes from the file's node or leads to what the file declares, and in   *)
(* Rust a call comes from a function that is declared around it.           *)
THEOREM EdgesAlwaysAnchored == Spec => []G!Anchored
<1>1. ASSUME Progress
      PROVE  G!Anchored
  <2>1. ASSUME NEW x \in Found, NEW e \in x.edges
        PROVE  e.source \in x.nodes \/ e.target \in x.nodes
    <3>1. PICK p \in Path : x = found[p] /\ found[p] # None
      BY DEF Found
    <3>2. PICK s \in Source : x = Extraction(s)
      BY <1>1, <3>1, FoundIsExtraction
    <3>3. CASE Language(s) = "rust"
      <4>1. x = RustExtract(s.tree)
        BY <3>2, <3>3 DEF Extraction
      <4>2. s.tree \in Nodes
        BY SourceAssumption
      <4>. QED  BY <2>1, <4>1, <4>2, RustAnchored
    <3>4. CASE Language(s) # "rust"
      <4>1. Whole(StemLower(s), RootsOf(s), x) \/ x = Nothing
        BY <3>2, <3>4, ExtractionWhole
      <4>. QED  BY <2>1, <4>1 DEF Whole, OfFile, Nothing
    <3>. QED  BY <3>3, <3>4
  <2>2. ASSUME NEW x \in Found, NEW e \in RefsOf(x)
        PROVE  e.src \in x.nodes \/ e.tgt \in x.nodes
    BY <2>1, <2>2 DEF RefsOf
  <2>. QED  BY <2>2 DEF G!Anchored
<1>. QED
  BY <1>1, ProgressAlways, PTL

(* No symbol is adrift: each but the file's is contained in, or a method   *)
(* of, a label of the file; in Go, a method may be of a type that another  *)
(* file declares.  In Rust there is no node for the file.                  *)
SymbolsHeld ==
  \A p \in Path : found[p] # None /\ Language(source[p]) # "rust" =>
    LET x == found[p]  s == source[p] IN
    \A label \in x.nodes \ {StemLower(s)} :
      Holds(x, IF Language(s) = "go" THEN Own(StemLower(s)) ELSE x.nodes, label)

(* So it is in every language but Rust, whatever the tree: a method is     *)
(* emitted with its class, a member of a namespace with the namespace.     *)
THEOREM SymbolsAlwaysHeld == Spec => []SymbolsHeld
<1>1. ASSUME Progress
      PROVE  SymbolsHeld
  <2>. SUFFICES ASSUME NEW p \in Path, found[p] # None, Language(source[p]) # "rust",
                       NEW label \in found[p].nodes \ {StemLower(source[p])}
                PROVE  Holds(found[p], IF Language(source[p]) = "go" THEN Own(StemLower(source[p]))
                                       ELSE found[p].nodes, label)
    BY DEF SymbolsHeld
  <2>1. PICK s \in Source : s = source[p] /\ found[p] = Extraction(s)
    BY <1>1, FoundIsExtraction
  <2>. DEFINE x == Extraction(s)  b == StemLower(s)
  <2>2. Whole(b, RootsOf(s), x)
    BY <2>1, ExtractionWhole DEF Nothing
  <2>. HIDE DEF x, b
  <2>3. /\ b \in x.nodes /\ x.nodes \subseteq Own(b)
        /\ Holds(x, RootsOf(s) \cup x.nodes, label)
    BY <2>1, <2>2 DEF Whole, OfFile, x, b
  <2>4. RootsOf(s) = IF Language(s) = "go" THEN Own(b) ELSE {b}
    BY DEF RootsOf, b
  <2>5. Holds(x, IF Language(s) = "go" THEN Own(b) ELSE x.nodes, label)
    BY <2>3, <2>4 DEF Holds
  <2>. QED  BY <2>1, <2>5 DEF x, b
<1>. QED
  BY <1>1, ProgressAlways, PTL

(***************************************************************************)
(* The order of the declarations.                                          *)
(***************************************************************************)
(* Two nodes that differ in the order of their children only, or not even  *)
(* in that.                                                                *)
Alike(r, q) == r.kind = q.kind /\ r.name = q.name /\ AllKids(r) = AllKids(q)

LEMMA AlikeKids ==
  ASSUME NEW r, NEW q, Alike(r, q)
  PROVE  /\ \A kinds : Kids(r, kinds) = Kids(q, kinds)
         /\ \A kinds : Named(r, kinds) = Named(q, kinds)
         /\ \A field, kinds : Below(r, field, kinds) = Below(q, field, kinds)
BY DEF Alike, Kids, Named, Below

(* Another order of the children leaves the same children.                 *)
LEMMA PermutedKids ==
  ASSUME NEW r \in Nodes, NEW order \in [DOMAIN r.kids -> DOMAIN r.kids], IsInjective(order)
  PROVE  Alike([r EXCEPT !.kids = [i \in DOMAIN r.kids |-> r.kids[order[i]]]], r)
<1>. DEFINE D == DOMAIN r.kids
            kids == [i \in D |-> r.kids[order[i]]]
<1>1. D = 1..Len(r.kids) /\ Len(r.kids) \in Nat
  BY NodeTyped
<1>2. IsFiniteSet(D)
  BY <1>1, FS_Interval
<1>. HIDE DEF D
<1>3. ASSUME NEW j \in D
      PROVE  \E i \in D : order[i] = j
  <2>. SUFFICES ASSUME \A i \in D : order[i] # j
                PROVE  FALSE
    OBVIOUS
  <2>1. order \in [D -> D \ {j}]
    BY DEF D
  <2>2. /\ IsFiniteSet(D \ {j}) /\ Cardinality(D \ {j}) = Cardinality(D) - 1
        /\ Cardinality(D) \in Nat
    BY <1>2, FS_RemoveElement, FS_CardinalityType
  <2>3. Cardinality(D \ {j}) < Cardinality(D)
    BY <2>2
  <2>4. \E x, y \in D : x # y /\ order[x] = order[y]
    BY <1>2, <2>1, <2>2, <2>3, FS_PigeonHole
  <2>. QED  BY <2>4 DEF IsInjective, D
<1>4. {kids[i] : i \in DOMAIN kids} = {r.kids[i] : i \in D}
  BY <1>3 DEF D
<1>. DEFINE q == [r EXCEPT !.kids = kids]
<1>5. q.kind = r.kind /\ q.name = r.name /\ q.kids = kids
  BY SourceAssumption
<1>. HIDE DEF kids, q
<1>6. AllKids(q) = AllKids(r)
  BY <1>4, <1>5 DEF AllKids, ToSet, D
<1>. QED
  BY <1>5, <1>6 DEF Alike, q, kids, D

(* The walkers that look at a file's children only.                        *)
LEMMA ScriptsAlike ==
  ASSUME NEW b, NEW r, NEW q, Alike(r, q)
  PROVE  /\ PyExtract(b, r) = PyExtract(b, q) /\ JsExtract(b, r) = JsExtract(b, q)
         /\ TsExtract(b, r) = TsExtract(b, q) /\ RbExtract(b, r) = RbExtract(b, q)
         /\ PhpExtract(b, r) = PhpExtract(b, q)
<1>1. PyExtract(b, r) = PyExtract(b, q)
  BY AlikeKids DEF PyExtract, PyLocal
<1>2. JsExtract(b, r) = JsExtract(b, q)
  <2>1. JsLocal(r) = JsLocal(q)
    BY AlikeKids DEF JsLocal
  <2>2. \A local : JsDecls(r, b, local) = JsDecls(q, b, local)
    BY AlikeKids DEF JsDecls
  <2>3. \A kinds : Kids(r, kinds) = Kids(q, kinds)
    BY AlikeKids
  <2>. QED  BY <2>1, <2>2, <2>3 DEF JsExtract
<1>3. TsExtract(b, r) = TsExtract(b, q)
  <2>1. TsLocal(r) = TsLocal(q)
    BY AlikeKids DEF TsLocal
  <2>2. \A local : TsDecls(r, b, local) = TsDecls(q, b, local)
    BY AlikeKids DEF TsDecls
  <2>3. \A kinds : Kids(r, kinds) = Kids(q, kinds)
    BY AlikeKids
  <2>. QED  BY <2>1, <2>2, <2>3 DEF TsExtract
<1>4. RbExtract(b, r) = RbExtract(b, q)
  BY AlikeKids DEF RbExtract, RbLocal
<1>5. PhpExtract(b, r) = PhpExtract(b, q)
  BY AlikeKids DEF PhpExtract, PhpLocal
<1>. QED
  BY <1>1, <1>2, <1>3, <1>4, <1>5

LEMMA OthersAlike ==
  ASSUME NEW b, NEW r, NEW q, Alike(r, q)
  PROVE  /\ JavaExtract(b, r) = JavaExtract(b, q) /\ KtExtract(b, r) = KtExtract(b, q)
         /\ ScExtract(b, r) = ScExtract(b, q) /\ CExtract(b, r) = CExtract(b, q)
         /\ GoExtract(b, r) = GoExtract(b, q)
<1>1. JavaExtract(b, r) = JavaExtract(b, q)
  BY AlikeKids DEF JavaExtract, JavaLocal
<1>2. KtExtract(b, r) = KtExtract(b, q)
  <2>. DEFINE Headers(n) == UNION {Kids(m, {"import", "import_header"}) :
                                     m \in {n} \cup Kids(n, {"import_list"})}
              Classes(n, local) == All({KtClass(m, b, local) :
                m \in KtNamed(n, {"class_declaration", "interface_declaration"})})
              Objects(n, local) == All({KtObject(m, b, local) :
                m \in KtNamed(n, {"object_declaration"})})
              Functions(n) == All({KtFunction(m, b) :
                m \in KtNamed(n, {"function_declaration"})})
              Headed(n) == All({KtImport(m, b) : m \in Headers(n)})
  <2>1. \A kinds : KtNamed(r, kinds) = KtNamed(q, kinds)
    BY AlikeKids DEF KtNamed
  <2>2. KtLocal(r) = KtLocal(q)
    BY <2>1 DEF KtLocal
  <2>3. \A kinds : Kids(r, kinds) = Kids(q, kinds)
    BY AlikeKids
  <2>4. Headers(r) = Headers(q)
    BY <2>3
  <2>. HIDE DEF Headers
  <2>5. /\ Headed(r) = Headed(q) /\ Functions(r) = Functions(q)
        /\ \A local : /\ Classes(r, local) = Classes(q, local)
                      /\ Objects(r, local) = Objects(q, local)
    BY <2>1, <2>4
  <2>6. ASSUME NEW n
        PROVE  KtExtract(b, n) = File(b) ++ Headed(n) ++ Classes(n, KtLocal(n))
                                   ++ Objects(n, KtLocal(n)) ++ Functions(n)
    BY DEF KtExtract, Headers
  <2>. HIDE DEF Headed, Classes, Objects, Functions
  <2>7. KtExtract(b, r) = File(b) ++ Headed(q) ++ Classes(q, KtLocal(q))
                            ++ Objects(q, KtLocal(q)) ++ Functions(q)
    BY <2>2, <2>5, <2>6
  <2>. QED  BY <2>6, <2>7
<1>3. ScExtract(b, r) = ScExtract(b, q)
  BY AlikeKids DEF ScExtract, ScLocal
<1>4. CExtract(b, r) = CExtract(b, q)
  BY AlikeKids DEF CExtract
<1>5. GoExtract(b, r) = GoExtract(b, q)
  BY AlikeKids DEF GoExtract
<1>. QED
  BY <1>1, <1>2, <1>3, <1>4, <1>5

(* Two nodes that are followed by the same: but for them, the same is      *)
(* visited.                                                                *)
SameBut(v, w, a, c) == \E rest : v = {a} \cup rest /\ w = {c} \cup rest

LEMMA VisitsAgree ==
  ASSUME NEW a, NEW c, NEW f, f[a] = f[c], NEW v, NEW w,
         Visits(v, {a}, f), Visits(w, {c}, f)
  PROVE  SameBut(v, w, a, c)
<1>1. PICK l : Follows(l, {a}, f) /\ v = UNION {l[k] : k \in 0..Depth}
  BY DEF Visits
<1>2. PICK m : Follows(m, {c}, f) /\ w = UNION {m[k] : k \in 0..Depth}
  BY DEF Visits
<1>. DEFINE T == {k \in 0..Depth : k = 0 \/ l[k] = m[k]}
<1>3. Depth \in Nat /\ 0 \in T
  BY DepthAssumption
<1>4. ASSUME NEW k \in 1..Depth, k - 1 \in T
      PROVE  k \in T
  <2>1. l[k] = UNION {f[x] : x \in l[k - 1]} /\ m[k] = UNION {f[x] : x \in m[k - 1]}
    BY <1>1, <1>2 DEF Follows
  <2>2. CASE k - 1 = 0
    <3>1. l[k - 1] = {a} /\ m[k - 1] = {c}
      BY <1>1, <1>2, <2>2 DEF Follows
    <3>2. l[k] = m[k]
      BY <2>1, <3>1
    <3>. QED  BY <3>2, DepthAssumption
  <2>3. CASE l[k - 1] = m[k - 1]
    <3>1. l[k] = m[k]
      BY <2>1, <2>3
    <3>. QED  BY <3>1, DepthAssumption
  <2>. QED  BY <1>4, <2>2, <2>3
<1>5. \A k \in 1..Depth : l[k] = m[k]
  <2>1. 0..Depth \subseteq T
    <3>. HIDE DEF T
    <3>. QED  BY <1>3, <1>4, UpTo
  <2>. QED  BY <2>1, DepthAssumption
<1>6. \A k : k \in 0..Depth <=> k = 0 \/ k \in 1..Depth
  BY DepthAssumption
<1>. DEFINE rest == UNION {l[k] : k \in 1..Depth}
<1>7. v = l[0] \cup rest /\ w = m[0] \cup rest
  BY <1>1, <1>2, <1>5, <1>6
<1>. QED
  BY <1>1, <1>2, <1>7 DEF Follows, SameBut

(* The walkers that visit: C#, C++ and Rust.                               *)
LEMMA CsAlike ==
  ASSUME NEW b, NEW r \in Nodes, NEW q, Alike(r, q)
  PROVE  CsExtract(b, r) = CsExtract(b, q)
<1>. DEFINE D == Nodes \cup {q}
<1>1. \A kinds : Kids(r, kinds) = Kids(q, kinds) /\ Named(r, kinds) = Named(q, kinds)
  BY AlikeKids
<1>2. CsInner(r) = CsInner(q) /\ CsBodies(r) = CsBodies(q)
  BY <1>1 DEF CsInner, CsBodies
<1>3. \A n \in Nodes : CsInner(n) \subseteq Nodes /\ CsBodies(n) \subseteq Nodes
  BY KidsTyped DEF CsInner, CsBodies, CsNamespace
<1>4. r \in D /\ q \in D /\ \A n \in D : CsInner(n) \subseteq D /\ CsBodies(n) \subseteq D
  BY <1>2, <1>3
<1>. HIDE DEF D
<1>5. CsLocal(r) = CsLocal(q)
  <2>. DEFINE f == [n \in D |-> CsBodies(n)]
  <2>1. PICK v \in SUBSET D : CsLocalVisit(r, D, v)
    BY <1>4, CsLocalLevels
  <2>2. PICK w \in SUBSET D : CsLocalVisit(q, D, w)
    BY <1>4, CsLocalLevels
  <2>3. f[r] = f[q]
    BY <1>2, <1>4
  <2>4. Visits(v, {r}, f) /\ Visits(w, {q}, f)
    BY <2>1, <2>2 DEF CsLocalVisit
  <2>. HIDE DEF f
  <2>5. PICK rest : v = {r} \cup rest /\ w = {q} \cup rest
    <3>1. SameBut(v, w, r, q)
      BY <2>3, <2>4, VisitsAgree
    <3>. QED  BY <3>1 DEF SameBut
  <2>6. CsTypes(v) = CsTypes(w)
    BY <1>1, <2>5 DEF CsTypes
  <2>. QED  BY <2>1, <2>2, <2>6 DEF CsLocalVisit
<1>6. \A local : CsDecls(r, b, local) = CsDecls(q, b, local)
  <2>1. CsUsings(r, b) = CsUsings(q, b)
    <3>. DEFINE Direct(n) == {CsUsing(u, b) : u \in Kids(n, {"using_directive"})}
                Global(n) == UNION {Kids(g, {"using_directive"}) :
                                      g \in Kids(n, {"global_statement"})}
    <3>1. Direct(r) = Direct(q) /\ Global(r) = Global(q)
      BY <1>1
    <3>2. ASSUME NEW n
          PROVE  CsUsings(n, b) = All(Direct(n)) ++ All({CsUsing(u, b) : u \in Global(n)})
      BY DEF CsUsings
    <3>. HIDE DEF Direct, Global
    <3>. QED  BY <3>1, <3>2
  <2>. DEFINE Types(n, local) ==
                All({CsClass(d, b, local) :
                       d \in Named(n, {"class_declaration", "struct_declaration"})})
              Interfaces(n) ==
                All({CsInterface(d, b) : d \in Named(n, {"interface_declaration"})})
              Enums(n) == All({CsEnum(d, b) : d \in Named(n, {"enum_declaration"})})
  <2>2. /\ Interfaces(r) = Interfaces(q) /\ Enums(r) = Enums(q)
        /\ \A local : Types(r, local) = Types(q, local)
    BY <1>1
  <2>3. ASSUME NEW n, NEW local
        PROVE  CsDecls(n, b, local)
                 = Types(n, local) ++ Interfaces(n) ++ Enums(n) ++ CsUsings(n, b)
    BY DEF CsDecls
  <2>. HIDE DEF Types, Interfaces, Enums
  <2>. QED  BY <2>1, <2>2, <2>3
<1>. DEFINE f == [n \in D |-> CsInner(n)]
            local == CsLocal(r)
<1>7. PICK v \in SUBSET D : CsVisit(b, r, D, v)
  BY <1>4, CsLevels
<1>8. PICK w \in SUBSET D : CsVisit(b, q, D, w)
  BY <1>4, CsLevels
<1>9. f[r] = f[q]
  BY <1>2, <1>4
<1>10. Visits(v, {r}, f) /\ Visits(w, {q}, f)
  BY <1>7, <1>8 DEF CsVisit
<1>. HIDE DEF f, local
<1>11. PICK rest : v = {r} \cup rest /\ w = {q} \cup rest
  <2>1. SameBut(v, w, r, q)
    BY <1>9, <1>10, VisitsAgree
  <2>. QED  BY <2>1 DEF SameBut
<1>12. {CsDecls(n, b, local) : n \in v} = {CsDecls(n, b, local) : n \in w}
  BY <1>6, <1>11
<1>. QED
  BY <1>5, <1>7, <1>8, <1>12 DEF CsVisit, local

LEMMA CppAlike ==
  ASSUME NEW b \in Seq(Word), NEW r \in Nodes, NEW q, Alike(r, q)
  PROVE  CppExtract(b, r) = CppExtract(b, q)
<1>. DEFINE D == Nodes \cup {q}
            Scopes == [node : D, container : Own(b)]
            first == [node |-> r, container |-> b]
            second == [node |-> q, container |-> b]
<1>1. \A kinds : Kids(r, kinds) = Kids(q, kinds) /\ Named(r, kinds) = Named(q, kinds)
  BY AlikeKids
<1>2. CppBodies(r) = CppBodies(q)
  BY <1>1 DEF CppBodies
<1>3. \A n \in Nodes : CppBodies(n) \subseteq Nodes
  BY KidsTyped DEF CppBodies
<1>4. r \in D /\ q \in D /\ \A n \in D : CppBodies(n) \subseteq D
  BY <1>2, <1>3
<1>5. ASSUME NEW n \in D, NEW kinds
      PROVE  Kids(n, kinds) \subseteq Nodes /\ Named(n, kinds) \subseteq Nodes
  BY <1>1, KidsTyped
<1>6. ASSUME NEW scope \in Scopes
      PROVE  CppNamespaces(scope, b) \subseteq Scopes
  <2>1. scope.node \in D
    OBVIOUS
  <2>2. ASSUME NEW k \in Named(scope.node, {"namespace_definition"}),
               NEW body \in Kids(k, {"body"})
        PROVE  [node |-> body, container |-> b \o Lower(k.name)] \in Scopes
    <3>1. k \in Nodes
      BY <1>5, <2>1
    <3>2. body \in Nodes /\ b \o Lower(k.name) \in Own(b)
      BY <3>1, KidsTyped, NodeTyped, OfFileSymbol
    <3>. QED  BY <3>2
  <2>. HIDE DEF Scopes
  <2>. QED  BY <2>2 DEF CppNamespaces
<1>7. first \in Scopes /\ second \in Scopes
  BY <1>4, OwnLabels
<1>8. CppNamespaces(first, b) = CppNamespaces(second, b)
  BY <1>1 DEF CppNamespaces
<1>9. \A local : CppWalk(first, b, local) = CppWalk(second, b, local)
  <2>. DEFINE Functions(n) == All({CppFunction(k, b, b) :
                                     k \in Kids(n, {"function_definition"})})
              Classes(n, local) == All({CppClass(k, b, b, local) : k \in Kids(n, CppClasses)})
              Spaces(n) == All({Declared(b, "contains", b \o Lower(k.name)) :
                                  k \in Named(n, {"namespace_definition"})})
              Includes(n) == All({CppInclude(k, b) : k \in Kids(n, {"preproc_include"})})
  <2>1. /\ Functions(r) = Functions(q) /\ Spaces(r) = Spaces(q) /\ Includes(r) = Includes(q)
        /\ \A local : Classes(r, local) = Classes(q, local)
    BY <1>1
  <2>2. ASSUME NEW n, NEW local
        PROVE  CppWalk([node |-> n, container |-> b], b, local)
                 = Functions(n) ++ Classes(n, local) ++ Spaces(n) ++ Includes(n)
    BY DEF CppWalk
  <2>. HIDE DEF Functions, Classes, Spaces, Includes
  <2>. QED  BY <2>1, <2>2
<1>. HIDE DEF D
<1>10. CppLocal(r) = CppLocal(q)
  <2>. DEFINE f == [n \in D |-> CppBodies(n)]
  <2>1. PICK v \in SUBSET D : CppLocalVisit(r, D, v)
    BY <1>4, CppLocalLevels
  <2>2. PICK w \in SUBSET D : CppLocalVisit(q, D, w)
    BY <1>4, CppLocalLevels
  <2>3. f[r] = f[q]
    BY <1>2, <1>4
  <2>4. Visits(v, {r}, f) /\ Visits(w, {q}, f)
    BY <2>1, <2>2 DEF CppLocalVisit
  <2>. HIDE DEF f
  <2>5. PICK rest : v = {r} \cup rest /\ w = {q} \cup rest
    <3>1. SameBut(v, w, r, q)
      BY <2>3, <2>4, VisitsAgree
    <3>. QED  BY <3>1 DEF SameBut
  <2>6. CppTypes(v) = CppTypes(w)
    <3>1. UNION {Kids(n, CppClasses) : n \in v} = UNION {Kids(n, CppClasses) : n \in w}
      BY <1>1, <2>5
    <3>. QED  BY <3>1 DEF CppTypes
  <2>. QED  BY <2>1, <2>2, <2>6 DEF CppLocalVisit
<1>. DEFINE f == [scope \in Scopes |-> CppNamespaces(scope, b)]
            local == CppLocal(r)
<1>. HIDE DEF Scopes
<1>11. PICK v \in SUBSET Scopes : CppVisit(b, r, Scopes, v)
  BY <1>6, <1>7, CppLevels
<1>12. PICK w \in SUBSET Scopes : CppVisit(b, q, Scopes, w)
  BY <1>6, <1>7, CppLevels
<1>13. f[first] = f[second]
  <2>. HIDE DEF first, second
  <2>. QED  BY <1>7, <1>8
<1>14. Visits(v, {first}, f) /\ Visits(w, {second}, f)
  BY <1>11, <1>12 DEF CppVisit
<1>. HIDE DEF f, local, first, second
<1>15. PICK rest : v = {first} \cup rest /\ w = {second} \cup rest
  <2>1. SameBut(v, w, first, second)
    BY <1>13, <1>14, VisitsAgree
  <2>. QED  BY <2>1 DEF SameBut
<1>16. {CppWalk(scope, b, local) : scope \in v} = {CppWalk(scope, b, local) : scope \in w}
  BY <1>9, <1>15
<1>. QED
  BY <1>10, <1>11, <1>12, <1>16 DEF CppVisit, local

LEMMA RustAlike ==
  ASSUME NEW r \in Nodes, NEW q, Alike(r, q)
  PROVE  RustExtract(r) = RustExtract(q)
<1>. DEFINE D == Nodes \cup {q}
            Visit == [node : D, fn : Seq(Word), impl : Seq(Word)]
            first == [node |-> r, fn |-> NoName, impl |-> NoName]
            second == [node |-> q, fn |-> NoName, impl |-> NoName]
            f == [v \in Visit |-> RustKids(v)]
            Said(v) == RustNode(v.node, v.fn, v.impl)
<1>1. \A n \in D : n.name \in Seq(Word) /\ AllKids(n) \subseteq D
  BY NodeTyped, KidsTyped DEF Alike
<1>2. r \in D /\ q \in D
  OBVIOUS
<1>. HIDE DEF D
<1>3. ASSUME NEW v \in Visit
      PROVE  RustKids(v) \subseteq Visit
  <2>1. v.node \in D /\ v.node.name \in Seq(Word) /\ AllKids(v.node) \subseteq D
    BY <1>1
  <2>. QED  BY <2>1 DEF RustKids
<1>4. first \in Visit /\ second \in Visit
  BY <1>2 DEF NoName
<1>5. RustKids(first) = RustKids(second)
  BY DEF RustKids, Alike, HasName
<1>6. Said(first) = Said(second)
  BY DEF RustNode, Alike, HasName
<1>. HIDE DEF Visit
<1>7. PICK v \in SUBSET Visit : RustVisit(r, Visit, v)
  BY <1>3, <1>4, RustLevels
<1>8. PICK w \in SUBSET Visit : RustVisit(q, Visit, w)
  BY <1>3, <1>4, RustLevels
<1>9. f[first] = f[second]
  <2>. HIDE DEF first, second
  <2>. QED  BY <1>4, <1>5
<1>10. Visits(v, {first}, f) /\ Visits(w, {second}, f)
  BY <1>7, <1>8 DEF RustVisit
<1>11. RustExtract(r) = All({Said(x) : x \in v}) /\ RustExtract(q) = All({Said(x) : x \in w})
  BY <1>7, <1>8 DEF RustVisit
<1>. HIDE DEF f, first, second, Said
<1>12. PICK rest : v = {first} \cup rest /\ w = {second} \cup rest
  <2>1. SameBut(v, w, first, second)
    BY <1>9, <1>10, VisitsAgree
  <2>. QED  BY <2>1 DEF SameBut
<1>13. {Said(x) : x \in v} = {Said(x) : x \in w}
  BY <1>6, <1>12
<1>. QED
  BY <1>11, <1>13

(* A program says the same whatever the order of its declarations: a base  *)
(* is found wherever in the file it is declared, in every language.  Only  *)
(* the lines of a text have an order.                                      *)
THEOREM AlwaysOrderFree == Spec => []OrderFree
<1>1. ASSUME NEW s \in Source, Language(s) # "text", NEW other \in Reordered(s)
      PROVE  Extraction(other) = Extraction(s)
  <2>. DEFINE r == s.tree  q == other.tree  b == StemLower(s)
  <2>1. r \in Nodes /\ b \in Seq(Word)
    BY SourceAssumption, LowerTyped DEF StemLower
  <2>2. PICK order \in [DOMAIN r.kids -> DOMAIN r.kids] :
          /\ IsInjective(order)
          /\ other = [s EXCEPT !.tree =
                        [r EXCEPT !.kids = [i \in DOMAIN r.kids |-> r.kids[order[i]]]]]
    BY DEF Reordered
  <2>3. /\ other.ext = s.ext /\ other.stem = s.stem
        /\ q = [r EXCEPT !.kids = [i \in DOMAIN r.kids |-> r.kids[order[i]]]]
    BY <2>2, SourceAssumption
  <2>. HIDE DEF r, q
  <2>4. Alike(r, q)
    <3>1. Alike(q, r)
      BY <2>1, <2>2, <2>3, PermutedKids
    <3>. QED  BY <3>1 DEF Alike
  <2>5. Language(other) = Language(s) /\ StemLower(other) = b
    BY <2>3 DEF Language, StemLower
  <2>. DEFINE language == Language(s)
  <2>. HIDE DEF b
  <2>6. language # "text"
    BY <1>1
  <2>. HIDE DEF language
  <2>7. /\ PyExtract(b, r) = PyExtract(b, q) /\ JsExtract(b, r) = JsExtract(b, q)
        /\ TsExtract(b, r) = TsExtract(b, q) /\ RbExtract(b, r) = RbExtract(b, q)
        /\ PhpExtract(b, r) = PhpExtract(b, q)
    BY <2>4, ScriptsAlike
  <2>8. /\ JavaExtract(b, r) = JavaExtract(b, q) /\ KtExtract(b, r) = KtExtract(b, q)
        /\ ScExtract(b, r) = ScExtract(b, q) /\ CExtract(b, r) = CExtract(b, q)
        /\ GoExtract(b, r) = GoExtract(b, q)
    BY <2>4, OthersAlike
  <2>9. /\ CsExtract(b, r) = CsExtract(b, q) /\ CppExtract(b, r) = CppExtract(b, q)
        /\ RustExtract(r) = RustExtract(q)
    BY <2>1, <2>4, CsAlike, CppAlike, RustAlike
  <2>. QED  BY <2>5, <2>6, <2>7, <2>8, <2>9 DEF Extraction, language, b, r, q
<1>2. ASSUME Progress
      PROVE  OrderFree
  <2>1. ASSUME NEW p \in Path, found[p] # None, Language(source[p]) # "text",
               NEW other \in Reordered(source[p])
        PROVE  Extraction(other) = found[p]
    <3>1. PICK s \in Source : s = source[p] /\ found[p] = Extraction(s)
      BY <1>2, <2>1, FoundIsExtraction
    <3>2. Language(s) # "text" /\ other \in Reordered(s)
      BY <2>1, <3>1
    <3>. QED  BY <1>1, <3>1, <3>2
  <2>. QED  BY <2>1 DEF OrderFree
<1>. QED
  BY <1>2, ProgressAlways, PTL
=============================================================================
