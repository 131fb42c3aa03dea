---------------------------- MODULE UpdateProofs ----------------------------
(***************************************************************************)
(* Theorems about the update command, for any files, texts, processes and  *)
(* bounds.                                                                 *)
(***************************************************************************)
EXTENDS Update, GraphBuildProofs

LEMMA OrderFacts ==
  /\ Len(ArtifactOrder) = 4
  /\ \A i \in 1..4 : ArtifactOrder[i] \in Artifact
  /\ \A i \in 1..4 : ArtifactOrder[i] = "sidecar" <=> i = 4
  /\ "sidecar" \in Artifact
<1>1. DOMAIN ArtifactOrder = 1..4 /\ Len(ArtifactOrder) = 4
  BY DEF ArtifactOrder
<1>2. /\ ArtifactOrder[1] = "graph.json" /\ ArtifactOrder[2] = "GRAPH_REPORT.md"
      /\ ArtifactOrder[3] = "graph.html" /\ ArtifactOrder[4] = "sidecar"
  BY DEF ArtifactOrder
<1>3. \A i \in 1..4 : i = 1 \/ i = 2 \/ i = 3 \/ i = 4
  OBVIOUS
<1>. QED
  BY <1>1, <1>2, <1>3 DEF Artifact

(***************************************************************************)
(* Types.  A process that writes has something to write.                   *)
(***************************************************************************)
Writing(u) == pc[u] \in {"open", "fill"}
ResultReady == \A u \in Proc : Writing(u) => result[u] \in Sidecar

LEMMA NothingReadType == NothingRead \in Build
BY DEF NothingRead, Build

LEMMA OutputType ==
  ASSUME TypeOK, NEW u \in Proc
  PROVE  Output(u) \in Sidecar /\ UsableSidecar(Output(u))
<1>0. hashes[u] \in Build /\ fresh[u] \in Build
  BY DEF TypeOK
<1>1. CASE prior[u] = None
  <2>1. Output(u) \in Sidecar /\ Output(u).schema = "current"
    BY <1>0, <1>1, AssembleFacts DEF Output, Sidecar
  <2>. QED  BY <2>1, SentinelAssumption DEF UsableSidecar
<1>2. CASE prior[u] # None
  <2>1. prior[u].graph \in Graph /\ prior[u].from \in Build
    BY <1>2 DEF TypeOK, Sidecar
  <2>2. Merge(Assemble(fresh[u]), PruneGraph(prior[u].graph, Stale(u))) \in Graph
    BY <1>0, <2>1, AssembleFacts, PruneFacts, MergeFacts
  <2>3. Splice(prior[u].from, fresh[u], Path \ files[u]) \in Build
    BY <1>0, <2>1, SpliceFacts
  <2>4. Output(u) \in Sidecar /\ Output(u).schema = "current"
    BY <1>0, <1>2, <2>2, <2>3 DEF Output, Sidecar
  <2>. QED  BY <2>4, SentinelAssumption DEF UsableSidecar
<1>. QED
  BY <1>1, <1>2

LEMMA ExitType ==
  ASSUME TypeOK, ResultReady, NEW u \in Proc, Exit(u)
  PROVE  /\ pc' \in [Proc -> {"idle", "load", "hash", "extract", "open", "fill"}]
         /\ files' \in [Proc -> SUBSET Path]
         /\ prior' \in [Proc -> Sidecar \cup {None}]
         /\ hashes' \in [Proc -> Build]
         /\ fresh' \in [Proc -> Build]
         /\ result' \in [Proc -> Sidecar \cup {None}]
         /\ next' \in [Proc -> 1..Len(ArtifactOrder)]
         /\ ResultReady'
BY NothingReadType, OrderFacts DEF TypeOK, Exit, ResultReady, Writing

LEMMA TypeInit == Init => TypeOK /\ ResultReady
<1>. SUFFICES ASSUME Init PROVE TypeOK /\ ResultReady
  OBVIOUS
<1>1. disk \in Build
  BY DEF Init
<1>2. EmptyGraph \in Graph
  BY DEF EmptyGraph, Graph
<1>3. OlderSidecar(disk) \in Sidecar
  BY <1>1, <1>2, NothingReadType DEF OlderSidecar, Sidecar
<1>4. /\ store \in [Artifact -> Graph \cup Sidecar \cup Unparsable]
      /\ \A a \in Artifact : store[a] \in Holds(a) \cup Unparsable
  BY <1>2, <1>3 DEF Init, Unparsable, Holds
<1>5. edits \in 0..MaxEdits /\ crashes \in 0..MaxCrashes
  BY EnvironmentAssumption DEF Init
<1>6. past \in [Path -> SUBSET Content]
  BY DEF Init
<1>7. TypeOK
  BY <1>1, <1>4, <1>5, <1>6, NothingReadType, OrderFacts DEF Init, TypeOK
<1>8. ResultReady
  BY DEF Init, ResultReady, Writing
<1>. QED
  BY <1>7, <1>8

LEMMA TypeStep == TypeOK /\ ResultReady /\ [Next]_vars => TypeOK' /\ ResultReady'
<1>. SUFFICES ASSUME TypeOK, ResultReady, [Next]_vars
              PROVE  TypeOK' /\ ResultReady'
  OBVIOUS
<1>1. ASSUME NEW p \in Path, Edit(p)
      PROVE  TypeOK' /\ ResultReady'
  <2>1. PICK c \in Content \cup {None} : Put(p, c) /\ edits < MaxEdits
    BY <1>1 DEF Edit, Modify, Create, Delete, EditorMayWrite
  <2>2. disk' \in Build /\ past' \in [Path -> SUBSET Content]
    BY <2>1 DEF Put, TypeOK, Build
  <2>3. edits' \in 0..MaxEdits
    BY <2>1, EnvironmentAssumption DEF Put, TypeOK
  <2>. QED
    BY <2>1, <2>2, <2>3 DEF Put, local, TypeOK, ResultReady, Writing
<1>. SUFFICES ASSUME NEW u \in Proc, Run(u) \/ Crash(u)
              PROVE  TypeOK' /\ ResultReady'
  <2>1. CASE UNCHANGED vars
    BY <2>1 DEF vars, local, TypeOK, ResultReady, Writing
  <2>. QED  BY <1>1, <2>1 DEF Next
<1>2. CASE Detect(u)
  BY <1>2 DEF Detect, TypeOK, ResultReady, Writing, Present
<1>3. CASE LoadPrior(u)
  <2>1. store["sidecar"] \in Sidecar \cup Unparsable
    BY OrderFacts DEF TypeOK, Holds
  <2>2. UsableSidecar(store["sidecar"]) => store["sidecar"] \in Sidecar
    BY <2>1 DEF UsableSidecar
  <2>. QED  BY <1>3, <2>2 DEF LoadPrior, TypeOK, ResultReady, Writing
<1>4. CASE HashFile(u)
  <2>1. hashes' \in [Proc -> Build]
    BY <1>4 DEF HashFile, TypeOK, Build
  <2>. QED  BY <1>4, <2>1 DEF HashFile, TypeOK, ResultReady, Writing
<1>5. CASE NoOp(u)
  BY <1>5, ExitType DEF NoOp, TypeOK
<1>6. CASE StartExtraction(u)
  BY <1>6 DEF StartExtraction, local, TypeOK, ResultReady, Writing
<1>7. CASE ExtractFile(u)
  <2>1. fresh' \in [Proc -> Build]
    BY <1>7 DEF ExtractFile, TypeOK, Build, ToExtract, Added, Changed
  <2>. QED  BY <1>7, <2>1 DEF ExtractFile, TypeOK, ResultReady, Writing
<1>8. CASE StartHashing(u)
  BY <1>8 DEF StartHashing, local, TypeOK, ResultReady, Writing
<1>9. CASE BuildGraph(u)
  BY <1>9, OutputType DEF BuildGraph, TypeOK, ResultReady, Writing
<1>10. CASE ReadFails(u)
  BY <1>10, ExitType DEF ReadFails, TypeOK
<1>11. CASE OpenArtifact(u)
  <2>1. /\ store' \in [Artifact -> Graph \cup Sidecar \cup Unparsable]
        /\ \A a \in Artifact : store'[a] \in Holds(a) \cup Unparsable
    BY <1>11 DEF OpenArtifact, TypeOK, Unparsable
  <2>. QED  BY <1>11, <2>1 DEF OpenArtifact, local, TypeOK, ResultReady, Writing
<1>12. CASE FillArtifact(u)
  <2>1. \A a \in Artifact : Rendered(u, a) \in Holds(a)
    BY <1>12 DEF FillArtifact, ResultReady, Writing, Rendered, Sidecar, Holds
  <2>2. ArtifactOrder[next[u]] \in Artifact
    BY OrderFacts DEF TypeOK
  <2>3. /\ store' \in [Artifact -> Graph \cup Sidecar \cup Unparsable]
        /\ \A a \in Artifact : store'[a] \in Holds(a) \cup Unparsable
    BY <1>12, <2>1, <2>2 DEF FillArtifact, Fill, TypeOK, Unparsable, Holds
  <2>4. CASE next[u] = Len(ArtifactOrder)
    BY <1>12, <2>3, <2>4, ExitType DEF FillArtifact, TypeOK
  <2>5. CASE next[u] # Len(ArtifactOrder)
    <3>1. next' \in [Proc -> 1..Len(ArtifactOrder)]
      BY <1>12, <2>5, OrderFacts DEF FillArtifact, TypeOK
    <3>. QED
      BY <1>12, <2>3, <2>5, <3>1 DEF FillArtifact, TypeOK, ResultReady, Writing
  <2>. QED  BY <2>4, <2>5
<1>13. CASE Crash(u)
  BY <1>13, ExitType, EnvironmentAssumption DEF Crash, TypeOK
<1>. QED
  BY <1>2, <1>3, <1>4, <1>5, <1>6, <1>7, <1>8, <1>9, <1>10, <1>11, <1>12, <1>13
     DEF Run

(* Every state of every run is typed: in particular a process never writes *)
(* before it has built a graph, and artifacts hold graphs or nothing.      *)
THEOREM TypeCorrect == Spec => [](TypeOK /\ ResultReady)
BY TypeInit, TypeStep, PTL DEF Spec
(***************************************************************************)
(* The order of a process's reads: an incremental update hashes every file *)
(* before it extracts one, a full build the other way round; and what it   *)
(* has read is what it set out to read.                                    *)
(***************************************************************************)
Ordered(u) ==
  /\ pc[u] \in {"idle", "load"} =>
       prior[u] = None /\ hashes[u] = NothingRead /\ fresh[u] = NothingRead
  /\ prior[u] # None => UsableSidecar(prior[u])
  /\ ReadBy(hashes[u]) \subseteq files[u]
  /\ pc[u] = "hash" /\ prior[u] # None => fresh[u] = NothingRead
  /\ pc[u] = "hash" /\ prior[u] = None => AllExtracted(u)
  /\ pc[u] = "extract" /\ prior[u] # None => AllHashed(u)
  /\ pc[u] \in {"hash", "extract"} => ReadBy(fresh[u]) \subseteq ToExtract(u)
AllOrdered == \A u \in Proc : Ordered(u)

LEMMA OrderedStays ==
  ASSUME TypeOK, NEW v \in Proc, Ordered(v),
         UNCHANGED <<pc[v], files[v], prior[v], hashes[v], fresh[v]>>
  PROVE  Ordered(v)'
BY DEF Ordered, ReadBy, AllExtracted, AllHashed, ToExtract, Added, Changed,
       Manifest

LEMMA NothingReadBy == ReadBy(NothingRead) = {}
BY DEF ReadBy, NothingRead

LEMMA ExitOrdered ==
  ASSUME TypeOK, AllOrdered, NEW u \in Proc, Exit(u)
  PROVE  AllOrdered'
<1>. SUFFICES ASSUME NEW v \in Proc PROVE Ordered(v)'
  BY DEF AllOrdered
<1>1. CASE v # u
  BY <1>1, OrderedStays DEF AllOrdered, Exit, TypeOK
<1>2. CASE v = u
  BY <1>2, NothingReadBy DEF Exit, TypeOK, Ordered, ReadBy
<1>. QED
  BY <1>1, <1>2

LEMMA OrderedInit == Init => AllOrdered
BY NothingReadBy DEF Init, AllOrdered, Ordered, ReadBy

LEMMA OrderedStep ==
  TypeOK /\ ResultReady /\ AllOrdered /\ [Next]_vars => AllOrdered'
<1>. SUFFICES ASSUME TypeOK, AllOrdered, [Next]_vars
              PROVE  AllOrdered'
  OBVIOUS
<1>1. ASSUME UNCHANGED vars \/ \E p \in Path : Edit(p)
      PROVE  AllOrdered'
  <2>1. UNCHANGED <<pc, files, prior, hashes, fresh>>
    BY <1>1 DEF vars, local, Edit, Modify, Create, Delete, Put
  <2>. QED  BY <2>1, OrderedStays DEF AllOrdered
<1>. SUFFICES ASSUME NEW u \in Proc, Run(u) \/ Crash(u),
                     NEW v \in Proc, ~(\E w \in Proc : Exit(w))
              PROVE  Ordered(v)'
  BY <1>1, ExitOrdered DEF Next, AllOrdered
<1>2. ASSUME v # u PROVE Ordered(v)'
  <2>1. UNCHANGED <<pc[v], files[v], prior[v], hashes[v], fresh[v]>>
    BY <1>2 DEF Run, Crash, Detect, LoadPrior, HashFile, NoOp, StartExtraction,
                ExtractFile, StartHashing, BuildGraph, ReadFails, OpenArtifact,
                FillArtifact, local, TypeOK
  <2>. QED  BY <2>1, OrderedStays DEF AllOrdered
<1>. SUFFICES ASSUME v = u PROVE Ordered(u)'
  BY <1>2
<1>. Ordered(u)
  BY DEF AllOrdered
<1>3. CASE Detect(u)
  BY <1>3, NothingReadBy DEF Detect, Ordered, TypeOK, ReadBy
<1>4. CASE LoadPrior(u)
  <2>1. hashes'[u] = NothingRead /\ fresh'[u] = NothingRead
    BY <1>4 DEF LoadPrior, Ordered
  <2>2. ReadBy(hashes'[u]) = {} /\ ReadBy(fresh'[u]) = {}
    BY <2>1, NothingReadBy
  <2>3. \/ pc'[u] = "hash" /\ UsableSidecar(prior'[u]) /\ prior'[u] # None
        \/ pc'[u] = "extract" /\ prior'[u] = None
    BY <1>4 DEF LoadPrior, Ordered, TypeOK, UsableSidecar, Unparsable
  <2>. QED  BY <2>1, <2>2, <2>3 DEF Ordered
<1>5. CASE HashFile(u)
  <2>1. ReadBy(hashes'[u]) \subseteq files[u]
    BY <1>5 DEF HashFile, Ordered, TypeOK, ReadBy, Build
  <2>2. prior[u] = None => ToExtract(u)' = ToExtract(u)
    BY <1>5 DEF HashFile, ToExtract
  <2>. QED
    BY <1>5, <2>1, <2>2, NothingReadBy DEF HashFile, Ordered, TypeOK, AllExtracted
<1>6. CASE StartExtraction(u)
  <2>1. AllHashed(u)' /\ ToExtract(u)' = ToExtract(u)
    BY <1>6 DEF StartExtraction, local, AllHashed, ToExtract, Added, Changed,
                Manifest, ReadBy
  <2>. QED  BY <1>6, <2>1 DEF StartExtraction, local, Ordered, TypeOK
<1>7. CASE ExtractFile(u)
  <2>1. ToExtract(u)' = ToExtract(u) /\ AllHashed(u)' = AllHashed(u)
    BY <1>7 DEF ExtractFile, AllHashed, ToExtract, Added, Changed, Manifest, ReadBy
  <2>2. ReadBy(fresh'[u]) \subseteq ToExtract(u)
    BY <1>7 DEF ExtractFile, Ordered, TypeOK, ReadBy, Build
  <2>. QED  BY <1>7, <2>1, <2>2 DEF ExtractFile, Ordered, TypeOK
<1>8. CASE StartHashing(u)
  <2>1. AllExtracted(u)' /\ ToExtract(u)' = ToExtract(u)
    BY <1>8 DEF StartHashing, local, AllExtracted, ToExtract, Added, Changed,
                Manifest, ReadBy
  <2>. QED  BY <1>8, <2>1 DEF StartHashing, local, Ordered, TypeOK
<1>9. CASE BuildGraph(u)
  BY <1>9 DEF BuildGraph, Ordered, TypeOK
<1>10. CASE OpenArtifact(u)
  BY <1>10 DEF OpenArtifact, local, Ordered, TypeOK
<1>11. CASE FillArtifact(u)
  BY <1>11 DEF FillArtifact, Ordered, TypeOK
<1>. QED
  BY <1>3, <1>4, <1>5, <1>6, <1>7, <1>8, <1>9, <1>10, <1>11
     DEF Run, Crash, NoOp, ReadFails
(***************************************************************************)
(* The sidecars in play: the one on disk, the ones the processes loaded,   *)
(* and the ones they are writing.  A step brings one in only by building a *)
(* graph, so a property of sidecars that Output has holds of them all.     *)
(***************************************************************************)
Parsable(s) == s \notin Unparsable
InPlay ==
  {s \in {Cached} : Parsable(s)}
    \cup {prior[u] : u \in {v \in Proc : prior[v] # None}}
    \cup {result[u] : u \in {v \in Proc : Writing(v)}}

Ready(u) ==
  IF prior[u] = None THEN pc[u] = "hash" /\ AllHashed(u)
                     ELSE pc[u] = "extract" /\ AllExtracted(u)

LEMMA CachedFlow ==
  ASSUME TypeOK, [Next]_vars, Cached' # Cached, Parsable(Cached)'
  PROVE  \E u \in Proc : Writing(u) /\ Cached' = result[u]
<1>1. PICK u \in Proc : OpenArtifact(u) \/ FillArtifact(u)
  BY DEF vars, local, Cached, Next, Edit, Modify, Create, Delete, Put, Run, Crash,
         Detect, LoadPrior, HashFile, NoOp, StartExtraction, ExtractFile,
         StartHashing, BuildGraph, ReadFails
<1>2. ~OpenArtifact(u)
  BY OrderFacts DEF OpenArtifact, Cached, Parsable, Unparsable, TypeOK
<1>. DEFINE a == ArtifactOrder[next[u]]
<1>3. FillArtifact(u) /\ Writing(u)
  BY <1>1, <1>2 DEF FillArtifact, Writing
<1>4. store' = [store EXCEPT ![a] = Rendered(u, a)]
       \/ store' = [store EXCEPT ![a] = Mixed]
  BY <1>3 DEF FillArtifact, Fill
<1>5. a = "sidecar"
  BY <1>4, OrderFacts DEF Cached, TypeOK
<1>6. Cached' = Rendered(u, a) \/ Cached' = Mixed
  BY <1>4, <1>5, OrderFacts DEF Cached, TypeOK
<1>. QED
  BY <1>3, <1>5, <1>6 DEF Rendered, Parsable, Unparsable

LEMMA PriorFlow ==
  ASSUME TypeOK, [Next]_vars, NEW u \in Proc, prior'[u] # None
  PROVE  prior'[u] = prior[u] \/ (prior'[u] = Cached /\ UsableSidecar(Cached))
BY DEF TypeOK, vars, local, Cached, Next, Edit, Modify, Create, Delete, Put, Run,
       Crash, Detect, LoadPrior, HashFile, NoOp, StartExtraction, ExtractFile,
       StartHashing, BuildGraph, ReadFails, OpenArtifact, FillArtifact, Exit

LEMMA ResultFlow ==
  ASSUME TypeOK, [Next]_vars, NEW u \in Proc, Writing(u)'
  PROVE  \/ Writing(u) /\ result'[u] = result[u]
         \/ Ready(u) /\ result'[u] = Output(u)
<1>1. CASE UNCHANGED vars \/ \E p \in Path : Edit(p)
  BY <1>1 DEF vars, local, Edit, Modify, Create, Delete, Put, Writing
<1>2. ASSUME NEW v \in Proc, v # u, Run(v) \/ Crash(v)
      PROVE  Writing(u) /\ result'[u] = result[u]
  BY <1>2 DEF TypeOK, Writing, local, Run, Crash, Detect, LoadPrior, HashFile,
              NoOp, StartExtraction, ExtractFile, StartHashing, BuildGraph,
              ReadFails, OpenArtifact, FillArtifact, Exit
<1>3. CASE BuildGraph(u)
  BY <1>3 DEF BuildGraph, Ready, TypeOK
<1>4. CASE OpenArtifact(u) \/ FillArtifact(u)
  BY <1>4 DEF OpenArtifact, FillArtifact, local, Exit, Writing, TypeOK
<1>5. ASSUME \/ Detect(u) \/ LoadPrior(u) \/ HashFile(u) \/ NoOp(u)
             \/ StartExtraction(u) \/ ExtractFile(u) \/ StartHashing(u)
             \/ ReadFails(u) \/ Crash(u)
      PROVE  FALSE
  BY <1>5 DEF Detect, LoadPrior, HashFile, NoOp, StartExtraction, ExtractFile,
              StartHashing, ReadFails, Crash, Exit, Writing, TypeOK
<1>. QED
  BY <1>1, <1>2, <1>3, <1>4, <1>5 DEF Next, Run

LEMMA InPlayFlow ==
  ASSUME TypeOK, [Next]_vars, NEW s \in InPlay'
  PROVE  s \in InPlay \/ \E u \in Proc : Ready(u) /\ s = Output(u)
<1>1. CASE s = Cached' /\ Parsable(Cached)'
  BY <1>1, CachedFlow DEF InPlay
<1>2. ASSUME NEW u \in Proc, prior'[u] # None, s = prior'[u]
      PROVE  s \in InPlay
  BY <1>2, PriorFlow DEF InPlay, UsableSidecar, Parsable
<1>3. ASSUME NEW u \in Proc, Writing(u)', s = result'[u]
      PROVE  s \in InPlay \/ (Ready(u) /\ s = Output(u))
  BY <1>3, ResultFlow DEF InPlay
<1>. QED
  BY <1>1, <1>2, <1>3 DEF InPlay
(***************************************************************************)
(* What a process that is about to build has read, and where the texts of  *)
(* the graph it builds come from.                                          *)
(***************************************************************************)
LEMMA ReadyFacts ==
  ASSUME TypeOK, AllOrdered, NEW u \in Proc, Ready(u)
  PROVE  /\ ReadBy(hashes[u]) = files[u]
         /\ ReadBy(fresh[u]) = ToExtract(u)
<1>1. Ordered(u)
  BY DEF AllOrdered
<1>2. CASE prior[u] = None
  BY <1>1, <1>2 DEF Ready, Ordered, AllHashed, AllExtracted
<1>3. CASE prior[u] # None
  BY <1>1, <1>3 DEF Ready, Ordered, AllHashed, AllExtracted
<1>. QED
  BY <1>2, <1>3

LEMMA SpliceOrigin ==
  ASSUME TypeOK, AllOrdered, NEW u \in Proc, Ready(u), prior[u] # None,
         ReadBy(prior[u].manifest) = ReadBy(prior[u].from)
  PROVE  /\ Replaces(prior[u].from, fresh[u], Stale(u))
         /\ \A p \in files[u] :
              \/ p \in ToExtract(u) /\ Output(u).from[p] = fresh[u][p]
              \/ /\ Output(u).from[p] = prior[u].from[p]
                 /\ hashes[u][p] = prior[u].manifest[p]
         /\ ReadBy(Output(u).from) = files[u]
         /\ Output(u).from = Splice(prior[u].from, fresh[u], Stale(u))
<1>. DEFINE b == prior[u].from
            m == prior[u].manifest
            s == Splice(b, fresh[u], Path \ files[u])
<1>1. /\ b \in Build /\ m \in Build /\ fresh[u] \in Build /\ files[u] \subseteq Path
      /\ Output(u).from = s
  BY DEF TypeOK, Sidecar, Output
<1>2. /\ \A p \in Path : fresh[u][p] # None <=> p \in ToExtract(u)
      /\ \A p \in Path : b[p] # None <=> m[p] # None
  BY ReadyFacts DEF ReadBy
<1>3. /\ \A p \in Path : p \in ToExtract(u) <=>
           p \in files[u] /\ (m[p] = None \/ hashes[u][p] # m[p])
      /\ \A p \in Path : p \in Stale(u) <=>
           m[p] # None /\ (p \in files[u] => hashes[u][p] # m[p])
  BY <1>1 DEF ToExtract, Stale, Added, Changed, Removed, Manifest, ReadBy
<1>4. Replaces(b, fresh[u], Stale(u))
  BY <1>2, <1>3 DEF Replaces
<1>5. ASSUME NEW p \in Path
      PROVE  s[p] = IF p \in ToExtract(u) THEN fresh[u][p]
                    ELSE IF p \in files[u] THEN b[p] ELSE None
  BY <1>2 DEF Splice
<1>6. ASSUME NEW p \in files[u]
      PROVE  \/ p \in ToExtract(u) /\ s[p] = fresh[u][p]
             \/ s[p] = b[p] /\ hashes[u][p] = m[p]
  BY <1>1, <1>3, <1>5
<1>7. \A p \in Path : s[p] # None <=> p \in files[u]
  BY <1>2, <1>3, <1>5
<1>8. ReadBy(s) = files[u]
  BY <1>1, <1>7 DEF ReadBy
<1>9. s = Splice(b, fresh[u], Stale(u))
  <2>1. ASSUME NEW p \in Path PROVE s[p] = Splice(b, fresh[u], Stale(u))[p]
    BY <1>2, <1>3, <1>5 DEF Splice
  <2>. QED  BY <2>1 DEF Splice
<1>. QED
  BY <1>1, <1>4, <1>6, <1>8, <1>9

(***************************************************************************)
(* Well-formed graphs and no ghosts.                                       *)
(***************************************************************************)
Good(s) ==
  /\ s \in Sidecar
  /\ WellFormed(s.graph)
  /\ UsableSidecar(s) => /\ ReadBy(s.manifest) = ReadBy(s.from)
                         /\ Justified(s.graph, s.from)
AllGood == \A s \in InPlay : Good(s)

LEMMA OutputGood ==
  ASSUME TypeOK, AllOrdered, AllGood, NEW u \in Proc, Ready(u)
  PROVE  Good(Output(u))
<1>. DEFINE o == Output(u)
<1>1. o \in Sidecar /\ fresh[u] \in Build /\ o.manifest = hashes[u]
  BY OutputType DEF TypeOK, Output
<1>2. CASE prior[u] = None
  <2>1. o.graph = Assemble(fresh[u]) /\ o.from = fresh[u]
    BY <1>2 DEF Output
  <2>2. ReadBy(o.manifest) = ReadBy(o.from)
    BY <1>1, <1>2, <2>1, ReadyFacts DEF ToExtract
  <2>. QED  BY <1>1, <2>1, <2>2, AssembleFacts DEF Good
<1>3. CASE prior[u] # None
  <2>. DEFINE g == prior[u].graph
              k == PruneGraph(g, Stale(u))
  <2>1. UsableSidecar(prior[u]) /\ Good(prior[u])
    BY <1>3 DEF AllGood, InPlay, AllOrdered, Ordered
  <2>2. /\ g \in Graph /\ WellFormed(g) /\ prior[u].from \in Build
        /\ Justified(g, prior[u].from)
        /\ ReadBy(prior[u].manifest) = ReadBy(prior[u].from)
    BY <2>1 DEF Good, Sidecar
  <2>3. /\ o.graph = Merge(Assemble(fresh[u]), k)
        /\ o.from = Splice(prior[u].from, fresh[u], Stale(u))
    BY <1>3, <2>2, SpliceOrigin DEF Output
  <2>4. Replaces(prior[u].from, fresh[u], Stale(u)) /\ ReadBy(o.from) = files[u]
    BY <1>3, <2>2, SpliceOrigin
  <2>5. Justified(o.graph, o.from)
    BY <1>1, <2>2, <2>3, <2>4, IncrementalIsJustified
  <2>6. k \in Graph /\ WellFormed(k)
    BY <2>2, PruneFacts
  <2>7. Assemble(fresh[u]) \in Graph /\ WellFormed(Assemble(fresh[u]))
    BY <1>1, AssembleFacts
  <2>8. WellFormed(o.graph)
    BY <2>3, <2>6, <2>7, MergeFacts
  <2>9. ReadBy(o.manifest) = ReadBy(o.from)
    BY <1>1, <2>4, ReadyFacts
  <2>. QED  BY <1>1, <2>5, <2>8, <2>9 DEF Good
<1>. QED
  BY <1>2, <1>3
(* The first sidecar is missing, or an older one, which is not usable.     *)
LEMMA InPlayInit ==
  ASSUME Init, NEW s \in InPlay
  PROVE  s = OlderSidecar(disk) /\ ~UsableSidecar(s)
<1>1. s = Cached /\ Parsable(s)
  BY DEF Init, InPlay, Writing
<1>2. s = OlderSidecar(disk)
  BY <1>1, OrderFacts DEF Init, Cached, Parsable, Unparsable
<1>. QED
  BY <1>2 DEF OlderSidecar, UsableSidecar

LEMMA EmptyWellFormed == EmptyGraph \in Graph /\ WellFormed(EmptyGraph)
BY DEF EmptyGraph, Graph, WellFormed

LEMMA GoodInit == Init => AllGood
<1>. SUFFICES ASSUME Init, NEW s \in InPlay PROVE Good(s)
  BY DEF AllGood
<1>1. s = OlderSidecar(disk) /\ ~UsableSidecar(s)
  BY InPlayInit
<1>2. s \in Sidecar /\ s.graph = EmptyGraph
  BY <1>1, EmptyWellFormed, NothingReadType, TypeInit
     DEF OlderSidecar, Sidecar, TypeOK
<1>. QED
  BY <1>1, <1>2, EmptyWellFormed DEF Good

LEMMA GoodStep ==
  TypeOK /\ AllOrdered /\ AllGood /\ [Next]_vars => AllGood'
<1>. SUFFICES ASSUME TypeOK, AllOrdered, AllGood, [Next]_vars, NEW s \in InPlay'
              PROVE  Good(s)
  BY DEF AllGood, Good
<1>. QED
  BY InPlayFlow, OutputGood DEF AllGood

Basics == TypeOK /\ ResultReady /\ AllOrdered /\ AllGood

LEMMA BasicsInit == Init => Basics
BY TypeInit, OrderedInit, GoodInit DEF Basics

LEMMA BasicsStep == Basics /\ [Next]_vars => Basics'
BY TypeStep, OrderedStep, GoodStep DEF Basics

LEMMA BasicsAlways == Spec => []Basics
BY BasicsInit, BasicsStep, PTL DEF Spec

(* The cached graph never holds a node of a text that was replaced or of a *)
(* file that is gone from it (prune_graph before merge, update.rs:179-186),*)
(* with any number of processes, edits and crashes.                        *)
THEOREM NoGhosts == Spec => []NodesJustified
<1>1. Basics => NodesJustified
  BY DEF Basics, AllGood, Good, InPlay, Parsable, NodesJustified, SidecarUsable,
         UsableSidecar, Cached
<1>. QED
  BY <1>1, BasicsAlways, PTL

(* Every artifact that can be read is a graph with unique labels and       *)
(* resolved edges: what merge's callers and merge3 assume of their inputs. *)
GraphArtifactsWellFormed ==
  \A a \in Artifact \ {"sidecar"} :
    store[a] \notin Unparsable => WellFormed(store[a])

THEOREM WellFormedArtifacts == Spec => []ArtifactsWellFormed
<1>1. Init => GraphArtifactsWellFormed
  BY EmptyWellFormed DEF Init, GraphArtifactsWellFormed, Unparsable
<1>2. Basics /\ GraphArtifactsWellFormed /\ [Next]_vars
        => GraphArtifactsWellFormed'
  <2>. SUFFICES ASSUME Basics, GraphArtifactsWellFormed, [Next]_vars,
                       NEW a \in Artifact \ {"sidecar"},
                       store'[a] \notin Unparsable, store'[a] # store[a]
                PROVE  WellFormed(store'[a])
    BY DEF GraphArtifactsWellFormed
  <2>1. PICK u \in Proc : OpenArtifact(u) \/ FillArtifact(u)
    BY DEF vars, local, Next, Edit, Modify, Create, Delete, Put, Run, Crash,
           Detect, LoadPrior, HashFile, NoOp, StartExtraction, ExtractFile,
           StartHashing, BuildGraph, ReadFails
  <2>2. FillArtifact(u)
    BY <2>1 DEF OpenArtifact, Unparsable, Basics, TypeOK
  <2>3. store'[a] = Rendered(u, a)
    BY <2>2 DEF FillArtifact, Fill, Unparsable, Basics, TypeOK
  <2>4. Writing(u) /\ result[u] \in InPlay
    BY <2>2 DEF FillArtifact, Writing, InPlay
  <2>5. Good(result[u])
    BY <2>4 DEF Basics, AllGood
  <2>. QED
    BY <2>3, <2>5 DEF Rendered, Good
<1>3. Basics /\ GraphArtifactsWellFormed => ArtifactsWellFormed
  BY DEF Basics, AllGood, Good, InPlay, Parsable, Cached, ArtifactsWellFormed,
         GraphArtifactsWellFormed
<1>. QED
  BY <1>1, <1>2, <1>3, BasicsAlways, PTL DEF Spec
(***************************************************************************)
(* Incremental against full.  What is read is a text the file has had.     *)
(***************************************************************************)
ReadsDrawn == Drawn(disk, Had) /\ \A u \in Proc : Drawn(fresh[u], Had)

LEMMA NothingDrawn == Drawn(NothingRead, Had)
BY DEF Drawn, NothingRead, Build

LEMMA DiskDrawn == TypeOK => Drawn(disk, Had)
BY DEF TypeOK, Drawn, Had, Build

LEMMA ReadsDrawnInit == Init => ReadsDrawn
<1>1. Init => disk \in Build
  BY DEF Init
<1>2. Init => Drawn(disk, Had)
  BY <1>1 DEF Drawn, Had, Build
<1>3. Init => \A u \in Proc : fresh[u] = NothingRead
  BY DEF Init
<1>. QED
  BY <1>2, <1>3, NothingDrawn DEF ReadsDrawn

LEMMA EditFacts ==
  ASSUME NEW p \in Path, Edit(p)
  PROVE  \E c \in Content \cup {None} :
           /\ Put(p, c)
           /\ c # None => MayHold(p, c)
           /\ \A u \in Proc : EditsInFullBuild \/ ~InFullBuild(u)
BY DEF Edit, Modify, Create, Delete, EditorMayWrite

LEMMA FreshFlow ==
  ASSUME TypeOK, [Next]_vars, NEW u \in Proc, NEW p \in Path
  PROVE  \/ fresh'[u][p] = fresh[u][p]
         \/ fresh'[u][p] = None
         \/ /\ ExtractFile(u) /\ p \in ToExtract(u)
            /\ disk[p] # None /\ fresh'[u][p] = disk[p]
<1>1. CASE ExtractFile(u)
  <2>1. PICK q \in ToExtract(u) : disk[q] # None
                                 /\ fresh' = [fresh EXCEPT ![u][q] = disk[q]]
    BY <1>1 DEF ExtractFile
  <2>2. p # q => fresh'[u][p] = fresh[u][p]
    BY <2>1 DEF TypeOK, Build
  <2>3. p = q => fresh'[u][p] = disk[p]
    BY <2>1 DEF TypeOK, Build
  <2>. QED  BY <1>1, <2>1, <2>2, <2>3
<1>2. CASE Exit(u)
  BY <1>2 DEF Exit, TypeOK, NothingRead
<1>3. CASE ~ExtractFile(u) /\ ~Exit(u)
  <2>1. fresh'[u] = fresh[u]
    BY <1>3 DEF TypeOK, vars, local, Next, Edit, Modify, Create, Delete, Put, Run,
           Crash, Detect, LoadPrior, HashFile, NoOp, StartExtraction, ExtractFile,
           StartHashing, BuildGraph, ReadFails, OpenArtifact, FillArtifact, Exit
  <2>. QED  BY <2>1
<1>. QED
  BY <1>1, <1>2, <1>3

(* A file never loses a text it has had, so what was drawn stays drawn and *)
(* no label becomes a label of one file again.                             *)
LEMMA HadGrows ==
  ASSUME TypeOK, [Next]_vars, NEW p \in Path
  PROVE  Had[p] \subseteq Had'[p]
<1>1. ASSUME NEW q \in Path, Edit(q) PROVE Had[p] \subseteq Had'[p]
  <2>1. PICK c \in Content \cup {None} : Put(q, c)
    BY <1>1, EditFacts
  <2>2. p = q => past'[p] = (past[p] \cup {disk[p]}) \ {None, c} /\ disk'[p] = c
    BY <2>1 DEF Put, TypeOK, Build
  <2>3. p # q => past'[p] = past[p] /\ disk'[p] = disk[p]
    BY <2>1 DEF Put, TypeOK, Build
  <2>. QED  BY <2>2, <2>3 DEF Had
<1>2. (\A q \in Path : ~Edit(q)) => UNCHANGED <<disk, past>>
  BY DEF vars, local, Next, Run, Crash, Detect, LoadPrior, HashFile, NoOp,
         StartExtraction, ExtractFile, StartHashing, BuildGraph, ReadFails,
         OpenArtifact, FillArtifact
<1>. QED
  BY <1>1, <1>2 DEF Had

LEMMA SoleShrinks == TypeOK /\ [Next]_vars => Sole(Had') \subseteq Sole(Had)
BY HadGrows DEF Sole

LEMMA DrawnLater ==
  ASSUME TypeOK, [Next]_vars, NEW b, Drawn(b, Had)
  PROVE  Drawn(b, Had')
BY HadGrows DEF Drawn

LEMMA ReadsDrawnStep == TypeOK /\ TypeOK' /\ ReadsDrawn /\ [Next]_vars => ReadsDrawn'
<1>. SUFFICES ASSUME TypeOK, TypeOK', ReadsDrawn, [Next]_vars PROVE ReadsDrawn'
  OBVIOUS
<1>1. Drawn(disk', Had')
  BY DEF TypeOK, Drawn, Had, Build
<1>2. ASSUME NEW u \in Proc PROVE Drawn(fresh'[u], Had')
  <2>1. fresh'[u] \in Build
    BY DEF TypeOK
  <2>2. ASSUME NEW p \in Path PROVE fresh'[u][p] \in Had'[p] \cup {None}
    <3>1. disk[p] # None => disk[p] \in Had[p]
      BY DEF Had
    <3>2. fresh[u][p] \in Had[p] \cup {None}
      BY DEF ReadsDrawn, Drawn
    <3>3. Had[p] \subseteq Had'[p]
      BY HadGrows
    <3>. QED  BY <3>1, <3>2, <3>3, FreshFlow
  <2>. QED  BY <2>1, <2>2 DEF Drawn
<1>. QED
  BY <1>1, <1>2 DEF ReadsDrawn

Faithful(s) ==
  UsableSidecar(s) =>
    Drawn(s.from, Had) /\ FaithfulInside(s.graph, s.from, Sole(Had))
AllFaithful == \A s \in InPlay : Faithful(s)

LEMMA FaithfulLater ==
  ASSUME TypeOK, [Next]_vars, NEW s, Faithful(s)
  PROVE  Faithful(s)'
<1>. SUFFICES ASSUME UsableSidecar(s)
              PROVE  Drawn(s.from, Had') /\ FaithfulInside(s.graph, s.from, Sole(Had'))
  BY DEF Faithful
<1>1. Drawn(s.from, Had) /\ FaithfulInside(s.graph, s.from, Sole(Had))
  BY DEF Faithful
<1>. QED
  BY <1>1, DrawnLater, SoleShrinks, FaithfulAmongFewer

LEMMA OutputFaithful ==
  ASSUME Anchored, Basics, ReadsDrawn, AllFaithful,
         NEW u \in Proc, Ready(u)
  PROVE  Faithful(Output(u))
<1>. USE DEF Basics
<1>1. fresh[u] \in Build /\ Drawn(fresh[u], Had)
  BY DEF TypeOK, ReadsDrawn
<1>2. CASE prior[u] = None
  BY <1>1, <1>2, FullIsFaithful DEF Output, Faithful
<1>3. CASE prior[u] # None
  <2>. DEFINE b == prior[u].from
              g == prior[u].graph
  <2>1. UsableSidecar(prior[u]) /\ Good(prior[u]) /\ Faithful(prior[u])
    BY <1>3 DEF AllGood, AllFaithful, InPlay, AllOrdered, Ordered
  <2>2. /\ g \in Graph /\ Drawn(b, Had) /\ FaithfulInside(g, b, Sole(Had))
        /\ ReadBy(prior[u].manifest) = ReadBy(b)
    BY <2>1 DEF Good, Faithful, Sidecar
  <2>3. /\ Replaces(b, fresh[u], Stale(u))
        /\ Output(u).from = Splice(b, fresh[u], Stale(u))
    BY <1>3, <2>2, SpliceOrigin
  <2>4. /\ Drawn(Splice(b, fresh[u], Stale(u)), Had)
        /\ FaithfulInside(Merge(Assemble(fresh[u]), PruneGraph(g, Stale(u))),
                          Splice(b, fresh[u], Stale(u)), Sole(Had))
    BY <1>1, <2>2, <2>3, IncrementalIsFaithful
  <2>5. Output(u).graph = Merge(Assemble(fresh[u]), PruneGraph(g, Stale(u)))
    BY <1>3 DEF Output
  <2>. QED  BY <2>3, <2>4, <2>5 DEF Faithful
<1>. QED
  BY <1>2, <1>3

LEMMA FaithfulAlways ==
  ASSUME Anchored
  PROVE  Spec => [](Basics /\ AllFaithful)
<1>1. Init => ReadsDrawn /\ AllFaithful
  BY ReadsDrawnInit, InPlayInit DEF AllFaithful, Faithful
<1>2. Basics /\ Basics' /\ ReadsDrawn /\ AllFaithful /\ [Next]_vars
        => ReadsDrawn' /\ AllFaithful'
  <2>. SUFFICES ASSUME Basics, Basics', ReadsDrawn, AllFaithful, [Next]_vars
                PROVE  ReadsDrawn' /\ AllFaithful'
    OBVIOUS
  <2>1. ReadsDrawn'
    BY ReadsDrawnStep DEF Basics
  <2>2. ASSUME NEW s \in InPlay' PROVE Faithful(s)'
    <3>1. Faithful(s)
      BY InPlayFlow, OutputFaithful DEF Basics, AllFaithful
    <3>. QED  BY <3>1, FaithfulLater DEF Basics
  <2>. QED  BY <2>1, <2>2 DEF AllFaithful
<1>. QED
  BY <1>1, <1>2, BasicsAlways, PTL DEF Spec

(* However many incremental updates follow each other, race or are killed, *)
(* and whatever labels the files share: among the labels no two files have *)
(* ever both declared, the cached graph has the nodes a full build of the  *)
(* same texts has, with the same owners, no edge it lacks, and every edge  *)
(* inside a file.                                                          *)
THEOREM IncrementalFaithful ==
  ASSUME Anchored
  PROVE  Spec => []FaithfulInsideFiles
<1>1. Basics /\ AllFaithful => FaithfulInsideFiles
  BY DEF AllFaithful, Faithful, InPlay, Parsable, FaithfulInsideFiles,
         SidecarUsable, UsableSidecar, Cached
<1>. QED
  BY <1>1, FaithfulAlways, PTL

(* Among the labels that one file alone has ever declared it is the full   *)
(* build, edges included: as much of merge.rs:51-52 ("incremental update   *)
(* == full rebuild") as holds when files share labels and refer to each    *)
(* other.                                                                  *)
FilePartsFull ==
  SidecarUsable => \A p \in Path :
    SameAmong(Cached.graph, Assemble(Cached.from), OnlyOf(Had, p))

THEOREM IncrementalFull ==
  ASSUME Anchored
  PROVE  Spec => []FilePartsFull
<1>1. SidecarUsable => Cached \in InPlay /\ UsableSidecar(Cached)
  BY DEF InPlay, Parsable, UsableSidecar, SidecarUsable, Cached
<1>2. Basics /\ AllFaithful => FilePartsFull
  BY <1>1, FaithfulIsFull DEF FilePartsFull, AllFaithful, Faithful
<1>. QED
  BY <1>2, FaithfulAlways, PTL

(***************************************************************************)
(* Staleness.  As long as the editor gives no file a text it had before    *)
(* and leaves the files alone during a full build, a text that was read    *)
(* and is not the file's any more is in its past for good.                 *)
(***************************************************************************)
Seen(u) ==
  /\ \A p \in Path : hashes[u][p] # None => hashes[u][p] \in past[p] \cup {disk[p]}
  /\ prior[u] # None => \A p \in Path : hashes[u][p] # None =>
       /\ fresh[u][p] \notin {None, hashes[u][p]} => hashes[u][p] \in past[p]
       /\ prior[u].manifest[p] = hashes[u][p] => prior[u].from[p] = hashes[u][p]
  /\ InFullBuild(u) => \A p \in Path : /\ hashes[u][p] \in {None, disk[p]}
                                       /\ fresh[u][p] \in {None, disk[p]}

Trailing(s) ==
  UsableSidecar(s) => \A p \in Path :
    s.manifest[p] \notin {None, s.from[p]} => s.manifest[p] \in past[p]

PastBehind == \A p \in Path : disk[p] \notin past[p]
AllSeen == \A u \in Proc : Seen(u)
AllTrailing == \A s \in InPlay : Trailing(s)
Behind == PastBehind /\ AllSeen /\ AllTrailing

LEMMA PastFlow ==
  ASSUME ~EditorReverts, TypeOK, PastBehind, [Next]_vars, NEW p \in Path
  PROVE  /\ past[p] \subseteq past'[p]
         /\ disk'[p] \notin past'[p]
         /\ disk[p] # None => disk[p] \in past'[p] \cup {disk'[p]}
<1>1. ASSUME NEW q \in Path, Edit(q)
      PROVE  /\ past[p] \subseteq past'[p]
             /\ disk'[p] \notin past'[p]
             /\ disk[p] # None => disk[p] \in past'[p] \cup {disk'[p]}
  <2>1. PICK c \in Content \cup {None} : Put(q, c) /\ (c # None => MayHold(q, c))
    BY <1>1, EditFacts
  <2>2. None \notin past[p] /\ (p = q => c \notin past[p])
    BY <2>1, TextAssumption DEF MayHold, TypeOK
  <2>3. CASE p = q
    BY <2>1, <2>2, <2>3 DEF Put, TypeOK, Build
  <2>4. CASE p # q
    BY <2>1, <2>4 DEF Put, TypeOK, Build, PastBehind
  <2>. QED  BY <2>3, <2>4
<1>2. (\A q \in Path : ~Edit(q)) => UNCHANGED <<disk, past>>
  BY DEF vars, local, Next, Run, Crash, Detect, LoadPrior, HashFile, NoOp,
         StartExtraction, ExtractFile, StartHashing, BuildGraph, ReadFails,
         OpenArtifact, FillArtifact
<1>. QED
  BY <1>1, <1>2 DEF PastBehind

LEMMA SeenStays ==
  ASSUME NEW v \in Proc, Seen(v), UNCHANGED <<disk, past>>,
         UNCHANGED <<pc[v], files[v], prior[v], hashes[v], fresh[v]>>
  PROVE  Seen(v)'
BY DEF Seen, InFullBuild

LEMMA NothingSeen ==
  ASSUME NEW v \in Proc, hashes'[v] = NothingRead, fresh'[v] = NothingRead
  PROVE  Seen(v)'
BY DEF Seen, NothingRead

LEMMA SeenStep ==
  ASSUME ~EditorReverts, ~EditsInFullBuild, Basics, Behind, [Next]_vars
  PROVE  AllSeen'
<1>. USE DEF Basics, Behind
<1>1. ASSUME NEW q \in Path, Edit(q), NEW v \in Proc PROVE Seen(v)'
  <2>1. UNCHANGED <<pc, prior, hashes, fresh>> /\ ~InFullBuild(v)
    BY <1>1, EditFacts DEF Put, local
  <2>2. Seen(v) /\ ~InFullBuild(v)'
    BY <2>1 DEF AllSeen, InFullBuild
  <2>. QED  BY <2>1, <2>2, PastFlow DEF Seen
<1>2. ASSUME UNCHANGED vars, NEW v \in Proc PROVE Seen(v)'
  BY <1>2, SeenStays DEF vars, local, AllSeen
<1>. SUFFICES ASSUME NEW u \in Proc, Run(u) \/ Crash(u), NEW v \in Proc
              PROVE  Seen(v)'
  BY <1>1, <1>2 DEF Next, AllSeen
<1>3. UNCHANGED <<disk, past>>
  BY DEF Run, Crash, Detect, LoadPrior, HashFile, NoOp, StartExtraction,
         ExtractFile, StartHashing, BuildGraph, ReadFails, OpenArtifact,
         FillArtifact
<1>4. CASE v # u
  <2>1. UNCHANGED <<pc[v], files[v], prior[v], hashes[v], fresh[v]>>
    BY <1>4 DEF Run, Crash, Detect, LoadPrior, HashFile, NoOp, StartExtraction,
                ExtractFile, StartHashing, BuildGraph, ReadFails, OpenArtifact,
                FillArtifact, Exit, local, TypeOK
  <2>. QED  BY <1>3, <2>1, SeenStays DEF AllSeen
<1>. SUFFICES ASSUME v = u PROVE Seen(u)'
  BY <1>4
<1>. Seen(u) /\ Ordered(u)
  BY DEF AllSeen, AllOrdered
<1>5. CASE Exit(u)
  BY <1>5, NothingSeen DEF Exit, TypeOK
<1>6. CASE Detect(u) \/ LoadPrior(u)
  BY <1>6, NothingSeen DEF Detect, LoadPrior, Ordered
<1>7. CASE HashFile(u)
  <2>1. PICK q \in Path : /\ disk[q] # None
                          /\ hashes' = [hashes EXCEPT ![u][q] = disk[q]]
    BY <1>7 DEF HashFile, TypeOK
  <2>2. \A p \in Path : hashes'[u][p] = IF p = q THEN disk[q] ELSE hashes[u][p]
    BY <2>1 DEF TypeOK, Build
  <2>3. UNCHANGED <<pc, prior, fresh>> /\ (prior[u] # None => fresh[u] = NothingRead)
    BY <1>7 DEF HashFile, Ordered
  <2>4. prior[u] # None /\ prior[u].manifest[q] = disk[q] => prior[u].from[q] = disk[q]
    <3>1. prior[u] # None => UsableSidecar(prior[u]) /\ prior[u] \in InPlay
      BY DEF Ordered, InPlay
    <3>. QED  BY <2>1, <3>1 DEF AllTrailing, Trailing, PastBehind
  <2>. QED  BY <1>3, <2>2, <2>3, <2>4 DEF Seen, InFullBuild, NothingRead
<1>8. CASE ExtractFile(u)
  <2>1. PICK q \in Path : fresh' = [fresh EXCEPT ![u][q] = disk[q]]
    BY <1>8 DEF ExtractFile, ToExtract, Added, Changed, TypeOK
  <2>2. \A p \in Path : fresh'[u][p] = IF p = q THEN disk[q] ELSE fresh[u][p]
    BY <2>1 DEF TypeOK, Build
  <2>3. UNCHANGED <<pc, prior, hashes>>
    BY <1>8 DEF ExtractFile
  <2>. QED  BY <1>3, <2>2, <2>3 DEF Seen, InFullBuild
<1>9. CASE StartExtraction(u) \/ StartHashing(u)
  BY <1>3, <1>9 DEF StartExtraction, StartHashing, local, Seen, InFullBuild, TypeOK
<1>10. CASE BuildGraph(u) \/ OpenArtifact(u)
  BY <1>3, <1>10 DEF BuildGraph, OpenArtifact, local, Seen, InFullBuild, TypeOK
<1>11. CASE FillArtifact(u) /\ ~Exit(u)
  BY <1>3, <1>11 DEF FillArtifact, Seen, InFullBuild, TypeOK
<1>. QED
  BY <1>5, <1>6, <1>7, <1>8, <1>9, <1>10, <1>11
     DEF Run, Crash, NoOp, ReadFails
LEMMA OutputTrailing ==
  ASSUME Basics, Behind, NEW u \in Proc, Ready(u)
  PROVE  Trailing(Output(u))
<1>. USE DEF Basics, Behind
<1>. DEFINE o == Output(u)
<1>. SUFFICES ASSUME NEW p \in Path, hashes[u][p] \notin {None, o.from[p]}
              PROVE  hashes[u][p] \in past[p]
  BY DEF Trailing, Output
<1>1. Seen(u) /\ p \in files[u]
  BY ReadyFacts DEF AllSeen, ReadBy
<1>2. CASE prior[u] = None
  <2>1. InFullBuild(u) /\ o.from = fresh[u]
    BY <1>2 DEF Ready, InFullBuild, Output
  <2>2. fresh[u][p] # None
    BY <1>1, <1>2, ReadyFacts DEF ReadBy, ToExtract
  <2>. QED  BY <1>1, <2>1, <2>2 DEF Seen
<1>3. CASE prior[u] # None
  <2>1. UsableSidecar(prior[u]) /\ Good(prior[u])
    BY <1>3 DEF AllGood, InPlay, AllOrdered, Ordered
  <2>2. \/ p \in ToExtract(u) /\ o.from[p] = fresh[u][p]
        \/ o.from[p] = prior[u].from[p] /\ hashes[u][p] = prior[u].manifest[p]
    BY <1>1, <1>3, <2>1, SpliceOrigin DEF Good
  <2>3. p \in ToExtract(u) => fresh[u][p] # None
    BY ReadyFacts DEF ReadBy
  <2>. QED  BY <1>1, <1>3, <2>2, <2>3 DEF Seen
<1>. QED
  BY <1>2, <1>3

LEMMA BehindAlways ==
  ASSUME ~EditorReverts, ~EditsInFullBuild
  PROVE  Spec => [](Basics /\ Behind)
<1>1. Init => Behind
  <2>. SUFFICES ASSUME Init PROVE Behind
    OBVIOUS
  <2>1. PastBehind
    BY DEF Init, PastBehind
  <2>2. AllSeen
    BY DEF Init, AllSeen, Seen, InFullBuild, NothingRead
  <2>3. AllTrailing
    BY InPlayInit DEF AllTrailing, Trailing
  <2>. QED  BY <2>1, <2>2, <2>3 DEF Behind
<1>2. Basics /\ Behind /\ [Next]_vars => Behind'
  <2>. SUFFICES ASSUME Basics, Behind, [Next]_vars PROVE Behind'
    OBVIOUS
  <2>1. /\ PastBehind'
        /\ \A p \in Path : past[p] \subseteq past'[p]
    BY PastFlow DEF PastBehind, Basics, Behind
  <2>2. AllSeen'
    BY SeenStep
  <2>3. ASSUME NEW s \in InPlay' PROVE Trailing(s)'
    <3>1. Trailing(s)
      BY InPlayFlow, OutputTrailing DEF Basics, Behind, AllTrailing
    <3>. QED  BY <2>1, <3>1 DEF Trailing
  <2>. QED  BY <2>1, <2>2, <2>3 DEF Behind, AllTrailing
<1>. QED
  BY <1>1, <1>2, BasicsAlways, PTL DEF Spec

(* Although a file's text is hashed and extracted at two moments, a file   *)
(* whose text the manifest still names is in the graph with that text, as  *)
(* long as no edit falls in a full build and none restores an old text.    *)
THEOREM StalenessAlwaysVisible ==
  ASSUME ~EditorReverts, ~EditsInFullBuild
  PROVE  Spec => []StalenessVisible
<1>1. Basics /\ Behind => StalenessVisible
  <2>. SUFFICES ASSUME Behind, SidecarUsable, NEW p \in Present,
                       Cached.manifest[p] = disk[p], Cached.from[p] # disk[p]
                PROVE  FALSE
    BY DEF StalenessVisible
  <2>1. Cached \in InPlay /\ UsableSidecar(Cached)
    BY DEF InPlay, Parsable, UsableSidecar, SidecarUsable, Cached
  <2>. QED  BY <2>1 DEF Behind, AllTrailing, Trailing, PastBehind, Present
<1>. QED
  BY <1>1, BehindAlways, PTL

(* Under the same conditions an update that decides there is nothing to do *)
(* is right: among the labels no two files have both declared, and up to   *)
(* edges between files, the graph it leaves is the full build of the texts *)
(* it hashed.                                                              *)
THEOREM NoOpIsRight ==
  ASSUME ~EditorReverts, ~EditsInFullBuild, Anchored
  PROVE  Spec => []NoOpMeansCurrent
<1>1. Basics /\ AllFaithful /\ Behind => NoOpMeansCurrent
  <2>. SUFFICES ASSUME Basics, AllFaithful, Behind, NEW u \in Proc,
                       pc[u] = "hash", AllHashed(u), prior[u] # None,
                       NothingDiffers(u)
                PROVE  FaithfulInside(prior[u].graph, hashes[u], Sole(Had))
    BY DEF NoOpMeansCurrent
  <2>1. prior[u] \in InPlay /\ UsableSidecar(prior[u]) /\ Ordered(u) /\ Seen(u)
    BY DEF Basics, Behind, AllOrdered, AllSeen, Ordered, InPlay
  <2>2. FaithfulInside(prior[u].graph, prior[u].from, Sole(Had))
    BY <2>1 DEF AllFaithful, Faithful
  <2>3. ReadBy(hashes[u]) = files[u] /\ files[u] \subseteq Path
    BY <2>1 DEF AllHashed, Ordered, Basics, TypeOK
  <2>4. \A p \in files[u] : hashes[u][p] = prior[u].manifest[p]
    BY DEF NothingDiffers, ToExtract, Added, Changed, Manifest
  <2>5. ReadBy(prior[u].manifest) = files[u]
    BY <2>3, <2>4 DEF NothingDiffers, Removed, Manifest, ReadBy
  <2>6. ReadBy(prior[u].from) = files[u]
    BY <2>1, <2>5 DEF Basics, AllGood, Good
  <2>7. \A p \in Path : prior[u].from[p] = hashes[u][p]
    BY <2>1, <2>3, <2>4, <2>6 DEF Seen, ReadBy
  <2>8. prior[u].from \in Build /\ hashes[u] \in Build
    BY DEF Basics, TypeOK, Sidecar
  <2>9. prior[u].from = hashes[u]
    BY <2>7, <2>8 DEF Build
  <2>. QED  BY <2>2, <2>9
<1>. QED
  BY <1>1, FaithfulAlways, BehindAlways, PTL

(***************************************************************************)
(* The artifacts of one process that may be killed, as long as no text is  *)
(* restored: when graph.json, the report or the viewer lag behind or run   *)
(* ahead of the sidecar, the sidecar's manifest is out of date in a way no *)
(* later edit repairs, so the next update is not a no-op.  Files may be    *)
(* created or deleted, not both: created, left in graph.json by an update  *)
(* that was killed before the sidecar, and deleted again, a file is where  *)
(* the manifest has it, and its ghost stays.                               *)
(***************************************************************************)
OneProcess == \A u, v \in Proc : u = v
CreatesOrDeletes == ~({"create", "delete"} \subseteq EditKinds)

WasRead(b) == \A p \in Path : b[p] \in past[p] \cup {disk[p], None}
Covers(b) == "create" \notin EditKinds => \A p \in Path : b[p] = None => disk[p] = None

Outdated(m) ==
  \E p \in Path : \/ m[p] \in past[p]
                  \/ "delete" \notin EditKinds /\ m[p] = None /\ disk[p] # None

Listed(u) == pc[u] # "idle" => \A p \in Path :
  /\ p \notin files[u] =>
       /\ SidecarUsable => Cached.manifest[p] \in past[p] \cup {None}
       /\ "create" \notin EditKinds => disk[p] = None
  /\ p \in files[u] =>
       /\ "create" \notin EditKinds /\ SidecarUsable => Cached.manifest[p] # None
       /\ "delete" \notin EditKinds => disk[p] # None

Loaded(u) == pc[u] \in {"hash", "extract"} =>
  IF prior[u] = None THEN ~SidecarUsable
  ELSE /\ SidecarUsable /\ Cached = prior[u]
       /\ \A p \in Path : hashes[u][p] # None =>
            prior[u].manifest[p] \in past[p] \cup {None, hashes[u][p]}

Decided(u) == (pc[u] = "extract" /\ prior[u] # None) \/ Writing(u)

Written(u) ==
  IF ~Writing(u) THEN next[u] = 1
  ELSE /\ result[u].manifest = hashes[u] /\ ReadBy(hashes[u]) = files[u]
       /\ \A i \in 1..3 : i < next[u] => store[ArtifactOrder[i]] = result[u].graph
       /\ pc[u] = "fill" => store[ArtifactOrder[next[u]]] = Truncated

Remembered ==
  /\ \A u \in Proc : WasRead(hashes[u])
  /\ SidecarUsable => WasRead(Cached.manifest) /\ Covers(Cached.manifest)

OutputsAgree == \A a \in Artifact \ {"sidecar"} : store[a] = Cached.graph
Owed ==
  SidecarUsable => \/ Outdated(Cached.manifest)
                   \/ (\A u \in Proc : ~Decided(u)) /\ OutputsAgree

Stages == \A u \in Proc : Listed(u) /\ Loaded(u) /\ Written(u)
Outputs == Remembered /\ Owed /\ Stages

LEMMA EditKeeps ==
  ASSUME TypeOK, [Next]_vars, NEW p \in Path
  PROVE  /\ "create" \notin EditKinds /\ disk[p] = None => disk'[p] = None
         /\ "delete" \notin EditKinds /\ disk[p] # None => disk'[p] # None
<1>1. ASSUME NEW q \in Path, Modify(q)
      PROVE  (disk[p] = None) <=> (disk'[p] = None)
  <2>1. PICK c \in Content : Put(q, c) /\ disk[q] # None
    BY <1>1 DEF Modify
  <2>. QED  BY <2>1, TextAssumption DEF Put, TypeOK, Build
<1>2. ASSUME NEW q \in Path, Create(q)
      PROVE  "create" \in EditKinds /\ (disk[p] # None => disk'[p] # None)
  <2>1. PICK c \in Content : Put(q, c)
    BY <1>2 DEF Create
  <2>. QED  BY <1>2, <2>1, TextAssumption DEF Create, Put, TypeOK, Build
<1>3. ASSUME NEW q \in Path, Delete(q)
      PROVE  "delete" \in EditKinds /\ (disk[p] = None => disk'[p] = None)
  BY <1>3 DEF Delete, Put, TypeOK, Build
<1>4. (\A q \in Path : ~Edit(q)) => UNCHANGED disk
  BY DEF vars, local, Next, Run, Crash, Detect, LoadPrior, HashFile, NoOp,
         StartExtraction, ExtractFile, StartHashing, BuildGraph, ReadFails,
         OpenArtifact, FillArtifact
<1>. QED
  BY <1>1, <1>2, <1>3, <1>4 DEF Edit

LEMMA OutputsEdit ==
  ASSUME ~EditorReverts, Basics, PastBehind, Outputs, NEW q \in Path, Edit(q)
  PROVE  Outputs'
<1>1. UNCHANGED <<store, pc, files, prior, hashes, fresh, result, next>>
  BY EditFacts DEF Put, local
<1>2. \A p \in Path : /\ past[p] \subseteq past'[p]
                      /\ disk[p] # None => disk[p] \in past'[p] \cup {disk'[p]}
  BY PastFlow DEF Basics, Next
<1>3. \A p \in Path :
        /\ "create" \notin EditKinds /\ disk[p] = None => disk'[p] = None
        /\ "delete" \notin EditKinds /\ disk[p] # None => disk'[p] # None
  BY EditKeeps DEF Basics, Next
<1>4. /\ SidecarUsable' <=> SidecarUsable
      /\ Cached' = Cached
  BY <1>1 DEF SidecarUsable, Cached
<1>5. Remembered'
  BY <1>1, <1>2, <1>3, <1>4 DEF Outputs, Remembered, WasRead, Covers
<1>6. Owed'
  <2>1. Outdated(Cached.manifest) => Outdated(Cached.manifest)'
    BY <1>2, <1>3, <1>4 DEF Outdated
  <2>2. OutputsAgree => OutputsAgree'
    BY <1>1, <1>4 DEF OutputsAgree
  <2>3. \A u \in Proc : Decided(u)' <=> Decided(u)
    BY <1>1 DEF Decided, Writing
  <2>. QED  BY <1>4, <2>1, <2>2, <2>3 DEF Outputs, Owed
<1>7. ASSUME NEW u \in Proc PROVE Listed(u)' /\ Loaded(u)' /\ Written(u)'
  <2>0. Listed(u) /\ Loaded(u) /\ Written(u)
    BY DEF Outputs, Stages
  <2>1. Listed(u)'
    BY <1>1, <1>2, <1>3, <1>4, <2>0 DEF Listed
  <2>2. Loaded(u)'
    BY <1>1, <1>2, <1>4, <2>0 DEF Loaded
  <2>3. Written(u)'
    BY <1>1, <2>0 DEF Written, Writing, ReadBy
  <2>. QED  BY <2>1, <2>2, <2>3
<1>. QED
  BY <1>5, <1>6, <1>7 DEF Outputs, Stages

(* A step of the process that leaves the files and the artifacts alone.    *)
LEMMA OutputsQuiet ==
  ASSUME OneProcess, Basics, Outputs, NEW u \in Proc,
         UNCHANGED <<disk, past, store>>,
         WasRead(hashes'[u]),
         SidecarUsable /\ Decided(u)' => Decided(u) \/ Outdated(Cached.manifest),
         Listed(u)', Loaded(u)', Written(u)'
  PROVE  Outputs'
<1>1. \A v \in Proc : v = u
  BY DEF OneProcess
<1>2. SidecarUsable' = SidecarUsable /\ Cached' = Cached
  BY DEF SidecarUsable, Cached
<1>3. Remembered'
  BY <1>1, <1>2 DEF Outputs, Remembered, WasRead, Covers
<1>4. Owed'
  BY <1>1, <1>2 DEF Outputs, Owed, Outdated, OutputsAgree
<1>. QED
  BY <1>1, <1>3, <1>4 DEF Outputs, Stages

LEMMA OutputsExit ==
  ASSUME OneProcess, Basics, Outputs, NEW u \in Proc, Exit(u),
         UNCHANGED <<disk, past, store>>
  PROVE  Outputs'
<1>1. pc'[u] = "idle" /\ hashes'[u] = NothingRead /\ next'[u] = 1
  BY DEF Exit, Basics, TypeOK
<1>2. WasRead(hashes'[u])
  BY <1>1 DEF WasRead, NothingRead
<1>3. Listed(u)' /\ Loaded(u)' /\ Written(u)' /\ ~Decided(u)'
  BY <1>1 DEF Listed, Loaded, Written, Writing, Decided
<1>. QED
  BY <1>2, <1>3, OutputsQuiet

LEMMA OrderInjective ==
  /\ Artifact \ {"sidecar"} \subseteq {ArtifactOrder[i] : i \in 1..3}
  /\ \A i, j \in 1..4 : ArtifactOrder[i] = ArtifactOrder[j] => i = j
<1>1. /\ ArtifactOrder[1] = "graph.json" /\ ArtifactOrder[2] = "GRAPH_REPORT.md"
      /\ ArtifactOrder[3] = "graph.html" /\ ArtifactOrder[4] = "sidecar"
      /\ DOMAIN ArtifactOrder = 1..4
  BY DEF ArtifactOrder
<1>2. \A i \in 1..4 : i = 1 \/ i = 2 \/ i = 3 \/ i = 4
  OBVIOUS
<1>3. Artifact \ {"sidecar"} \subseteq {ArtifactOrder[i] : i \in 1..3}
  <2>. SUFFICES ASSUME NEW i \in 1..4, ArtifactOrder[i] # "sidecar" PROVE i \in 1..3
    BY <1>1 DEF Artifact
  <2>. QED  BY <1>1, <1>2
<1>. QED
  BY <1>1, <1>2, <1>3

(* The first artifact is opened only when a difference was found, and a    *)
(* difference that was found stays one.                                    *)
LEMMA DifferenceStays ==
  ASSUME CreatesOrDeletes, Basics, Outputs, NEW u \in Proc,
         pc[u] = "hash", AllHashed(u), prior[u] # None, ~NothingDiffers(u)
  PROVE  Outdated(Cached.manifest)
<1>. DEFINE m == Cached.manifest
<1>1. /\ SidecarUsable /\ Cached = prior[u]
      /\ \A p \in Path : hashes[u][p] # None => m[p] \in past[p] \cup {None, hashes[u][p]}
  BY DEF Outputs, Stages, Loaded
<1>2. \A p \in Path :
        /\ p \notin files[u] => m[p] \in past[p] \cup {None}
        /\ p \in files[u] => /\ "create" \notin EditKinds => m[p] # None
                             /\ "delete" \notin EditKinds => disk[p] # None
  BY <1>1 DEF Outputs, Stages, Listed
<1>3. files[u] \subseteq Path
  BY DEF Basics, TypeOK
<1>4. CASE Removed(u) # {}
  BY <1>1, <1>2, <1>4 DEF Removed, Manifest, ReadBy, Outdated
<1>5. CASE Added(u) # {}
  <2>1. PICK p \in files[u] : m[p] = None
    BY <1>1, <1>3, <1>5 DEF Added, Manifest, ReadBy
  <2>. QED  BY <1>2, <1>3, <2>1 DEF CreatesOrDeletes, Outdated
<1>6. CASE Changed(u) # {}
  <2>1. PICK p \in files[u] : m[p] # None /\ hashes[u][p] # m[p]
    BY <1>1, <1>6 DEF Changed, Manifest, ReadBy
  <2>2. hashes[u][p] # None
    BY DEF AllHashed, ReadBy
  <2>. QED  BY <1>1, <1>3, <2>1, <2>2 DEF Outdated
<1>. QED
  BY <1>4, <1>5, <1>6 DEF NothingDiffers, ToExtract

LEMMA OutputsOpen ==
  ASSUME OneProcess, Basics, Outputs, NEW u \in Proc, OpenArtifact(u)
  PROVE  Outputs'
<1>. DEFINE a == ArtifactOrder[next[u]]
<1>1. /\ next[u] \in 1..4 /\ pc'[u] = "fill" /\ pc[u] = "open"
      /\ store' = [store EXCEPT ![a] = Truncated]
      /\ UNCHANGED <<disk, past, files, hashes, result, next>>
  BY OrderFacts DEF OpenArtifact, local, Basics, TypeOK
<1>2. \A v \in Proc : v = u
  BY DEF OneProcess
<1>3. store'[a] = Truncated /\ \A b \in Artifact : b # a => store'[b] = store[b]
  BY <1>1, OrderFacts DEF Basics, TypeOK
<1>4. SidecarUsable' => SidecarUsable /\ Cached' = Cached
  BY <1>3, OrderFacts DEF SidecarUsable, Cached, UsableSidecar, Unparsable
<1>5. Written(u)'
  <2>1. Written(u) /\ Writing(u) /\ Writing(u)'
    BY <1>1 DEF Outputs, Stages, Writing
  <2>2. ASSUME NEW i \in 1..3, i < next[u]
        PROVE  store'[ArtifactOrder[i]] = result[u].graph
    <3>1. ArtifactOrder[i] \in Artifact /\ ArtifactOrder[i] # a
      BY <1>1, <2>2, OrderFacts, OrderInjective
    <3>2. store[ArtifactOrder[i]] = result[u].graph
      BY <2>1, <2>2 DEF Written
    <3>. QED  BY <1>3, <3>1, <3>2
  <2>3. result[u].manifest = hashes[u] /\ ReadBy(hashes[u]) = files[u]
    BY <2>1 DEF Written
  <2>. QED  BY <1>1, <1>3, <2>1, <2>2, <2>3 DEF Written, ReadBy
<1>6. Listed(u)' /\ Loaded(u)'
  BY <1>1, <1>4 DEF Outputs, Stages, Listed, Loaded
<1>7. Remembered'
  BY <1>1, <1>4 DEF Outputs, Remembered, WasRead, Covers
<1>8. Owed'
  <2>1. SidecarUsable => Outdated(Cached.manifest)
    BY <1>1 DEF Outputs, Owed, Decided, Writing
  <2>. QED  BY <1>1, <1>4, <2>1 DEF Owed, Outdated
<1>. QED
  BY <1>2, <1>5, <1>6, <1>7, <1>8 DEF Outputs, Stages

LEMMA OutputsFill ==
  ASSUME OneProcess, Basics, Outputs, NEW u \in Proc, FillArtifact(u)
  PROVE  Outputs'
<1>. DEFINE a == ArtifactOrder[next[u]]
<1>1. /\ next[u] \in 1..4 /\ pc[u] = "fill" /\ a \in Artifact
      /\ UNCHANGED <<disk, past>>
  BY OrderFacts DEF FillArtifact, Basics, TypeOK
<1>2. \A v \in Proc : v = u
  BY DEF OneProcess
<1>3. /\ result[u].manifest = hashes[u] /\ ReadBy(hashes[u]) = files[u]
      /\ \A i \in 1..3 : i < next[u] => store[ArtifactOrder[i]] = result[u].graph
      /\ store[a] = Truncated
  BY <1>1 DEF Outputs, Stages, Written, Writing
<1>4. store' = [store EXCEPT ![a] = Rendered(u, a)]
  BY <1>3 DEF FillArtifact, Fill
<1>5. store'[a] = Rendered(u, a) /\ \A b \in Artifact : b # a => store'[b] = store[b]
  BY <1>1, <1>4 DEF Basics, TypeOK
<1>6. a = "sidecar" <=> next[u] = 4
  BY <1>1, OrderFacts
<1>7. CASE next[u] # 4
  <2>1. /\ pc'[u] = "open" /\ next'[u] = next[u] + 1
        /\ UNCHANGED <<files, prior, hashes, fresh, result>>
    BY <1>1, <1>7, OrderFacts DEF FillArtifact, Basics, TypeOK
  <2>2. store'[a] = result[u].graph
    BY <1>5, <1>6, <1>7 DEF Rendered
  <2>3. SidecarUsable' = SidecarUsable /\ Cached' = Cached
    BY <1>5, <1>6, <1>7, OrderFacts DEF SidecarUsable, Cached
  <2>4. Listed(u)' /\ Loaded(u)'
    BY <1>1, <2>1, <2>3 DEF Outputs, Stages, Listed, Loaded
  <2>5. Written(u)'
    <3>1. ASSUME NEW i \in 1..3, i < next[u] + 1
          PROVE  store'[ArtifactOrder[i]] = result[u].graph
      <4>1. CASE i = next[u]
        BY <2>2, <4>1
      <4>2. CASE i # next[u]
        <5>1. i < next[u]
          BY <1>1, <3>1, <4>2
        <5>2. ArtifactOrder[i] \in Artifact /\ ArtifactOrder[i] # a
          BY <1>1, <4>2, OrderFacts, OrderInjective
        <5>. QED  BY <1>3, <1>5, <5>1, <5>2
      <4>. QED  BY <4>1, <4>2
    <3>. QED  BY <1>3, <2>1, <3>1 DEF Written, Writing, ReadBy
  <2>6. Remembered'
    BY <1>1, <2>1, <2>3 DEF Outputs, Remembered, WasRead, Covers
  <2>7. Owed'
    <3>1. SidecarUsable => Outdated(Cached.manifest)
      BY <1>1 DEF Outputs, Owed, Decided, Writing
    <3>. QED  BY <1>1, <2>3, <3>1 DEF Owed, Outdated
  <2>. QED  BY <1>2, <2>4, <2>5, <2>6, <2>7 DEF Outputs, Stages
<1>8. CASE next[u] = 4
  <2>1. Exit(u)
    BY <1>8, OrderFacts DEF FillArtifact
  <2>2. /\ pc'[u] = "idle" /\ next'[u] = 1 /\ hashes'[u] = NothingRead
    BY <2>1 DEF Exit, Basics, TypeOK
  <2>3. Cached' = result[u]
    BY <1>5, <1>6, <1>8 DEF Cached, Rendered
  <2>4. OutputsAgree'
    <3>1. ASSUME NEW b \in Artifact \ {"sidecar"} PROVE store'[b] = result[u].graph
      <4>1. PICK i \in 1..3 : b = ArtifactOrder[i]
        BY OrderInjective
      <4>. QED  BY <1>3, <1>5, <1>6, <1>8, <4>1
    <3>. QED  BY <2>3, <3>1 DEF OutputsAgree
  <2>5. Owed'
    BY <1>2, <2>2, <2>4 DEF Owed, Decided, Writing
  <2>6. WasRead(hashes[u]) /\ Covers(hashes[u])
    <3>1. Listed(u) /\ WasRead(hashes[u])
      BY DEF Outputs, Stages, Remembered
    <3>2. \A p \in Path : hashes[u][p] = None => p \notin files[u]
      BY <1>3 DEF ReadBy
    <3>. QED  BY <1>1, <3>1, <3>2 DEF Listed, Covers
  <2>7. Remembered'
    <3>1. WasRead(Cached.manifest)' /\ Covers(Cached.manifest)'
      BY <1>1, <1>3, <2>3, <2>6 DEF WasRead, Covers
    <3>2. WasRead(hashes[u])'
      BY <2>2 DEF WasRead, NothingRead
    <3>. QED  BY <1>2, <3>1, <3>2 DEF Remembered
  <2>8. Listed(u)' /\ Loaded(u)' /\ Written(u)'
    BY <2>2 DEF Listed, Loaded, Written, Writing
  <2>. QED  BY <1>2, <2>5, <2>7, <2>8 DEF Outputs, Stages
<1>. QED
  BY <1>7, <1>8

LEMMA OutputsStep ==
  ASSUME OneProcess, CreatesOrDeletes, ~EditorReverts, Basics, PastBehind, Outputs,
         [Next]_vars
  PROVE  Outputs'
<1>1. CASE UNCHANGED vars
  <2>1. SidecarUsable' = SidecarUsable /\ Cached' = Cached
    BY <1>1 DEF vars, SidecarUsable, Cached
  <2>2. Stages'
    BY <1>1, <2>1 DEF vars, local, Outputs, Stages, Listed, Loaded, Written, Writing,
                      ReadBy
  <2>. QED
    BY <1>1, <2>1, <2>2 DEF vars, local, Outputs, Remembered, WasRead, Covers, Owed,
                            Outdated, OutputsAgree, Decided, Writing
<1>2. ASSUME NEW q \in Path, Edit(q) PROVE Outputs'
  BY <1>2, OutputsEdit
<1>. SUFFICES ASSUME NEW u \in Proc, Run(u) \/ Crash(u) PROVE Outputs'
  BY <1>1, <1>2 DEF Next
<1>. USE DEF Basics
<1>3. /\ Listed(u) /\ Loaded(u) /\ Written(u) /\ WasRead(hashes[u]) /\ Ordered(u)
      /\ SidecarUsable => WasRead(Cached.manifest) /\ Covers(Cached.manifest)
  BY DEF Outputs, Stages, Remembered, AllOrdered
<1>4. CASE Detect(u)
  <2>1. /\ UNCHANGED <<disk, past, store, hashes, prior, next>> /\ ~Writing(u)
        /\ pc'[u] = "load" /\ files'[u] = Present
    BY <1>4 DEF Detect, TypeOK, Writing
  <2>2. SidecarUsable' = SidecarUsable /\ Cached' = Cached
    BY <2>1 DEF SidecarUsable, Cached
  <2>3. Listed(u)'
    BY <1>3, <2>1, <2>2 DEF Listed, Present, WasRead, Covers
  <2>4. Loaded(u)' /\ Written(u)' /\ ~Decided(u)'
    BY <1>3, <2>1 DEF Loaded, Written, Writing, Decided
  <2>. QED  BY <1>3, <2>1, <2>3, <2>4, OutputsQuiet
<1>5. CASE LoadPrior(u)
  <2>1. /\ UNCHANGED <<disk, past, store, files, hashes, next>>
        /\ pc[u] = "load" /\ ~Writing(u) /\ ~Writing(u)'
        /\ hashes[u] = NothingRead /\ prior[u] = None
    BY <1>3, <1>5 DEF LoadPrior, TypeOK, Writing, Ordered
  <2>2. SidecarUsable' = SidecarUsable /\ Cached' = Cached
    BY <2>1 DEF SidecarUsable, Cached
  <2>3. \/ SidecarUsable /\ prior'[u] = Cached /\ prior'[u] # None /\ pc'[u] = "hash"
        \/ ~SidecarUsable /\ prior'[u] = None /\ pc'[u] = "extract"
    BY <1>5, <2>1 DEF LoadPrior, TypeOK, SidecarUsable, Cached, UsableSidecar, Unparsable
  <2>4. Listed(u)'
    BY <1>3, <2>1, <2>2 DEF Listed
  <2>5. Loaded(u)' /\ Written(u)' /\ ~Decided(u)'
    BY <1>3, <2>1, <2>2, <2>3 DEF Loaded, Written, Decided, NothingRead
  <2>. QED  BY <1>3, <2>1, <2>4, <2>5, OutputsQuiet
<1>6. CASE HashFile(u)
  <2>1. PICK q \in Path : /\ disk[q] # None
                          /\ hashes' = [hashes EXCEPT ![u][q] = disk[q]]
    BY <1>6 DEF HashFile, TypeOK
  <2>2. \A p \in Path : hashes'[u][p] = IF p = q THEN disk[q] ELSE hashes[u][p]
    BY <2>1 DEF TypeOK, Build
  <2>3. /\ UNCHANGED <<disk, past, store, pc, files, prior, next>>
        /\ pc[u] = "hash" /\ ~Writing(u)
    BY <1>6 DEF HashFile, Writing
  <2>4. SidecarUsable' = SidecarUsable /\ Cached' = Cached
    BY <2>3 DEF SidecarUsable, Cached
  <2>5. WasRead(hashes'[u])
    BY <1>3, <2>2 DEF WasRead
  <2>6. Listed(u)' /\ Written(u)' /\ (Decided(u)' <=> Decided(u))
    BY <1>3, <2>3, <2>4 DEF Listed, Written, Writing, Decided
  <2>7. Loaded(u)'
    BY <1>3, <2>2, <2>3, <2>4 DEF Loaded, WasRead
  <2>. QED  BY <2>3, <2>5, <2>6, <2>7, OutputsQuiet
<1>7. CASE StartExtraction(u)
  <2>1. /\ UNCHANGED <<disk, past, store, files, prior, hashes, next>>
        /\ pc[u] = "hash" /\ pc'[u] = "extract"
    BY <1>7 DEF StartExtraction, local, TypeOK
  <2>2. SidecarUsable' = SidecarUsable /\ Cached' = Cached
    BY <2>1 DEF SidecarUsable, Cached
  <2>3. Outdated(Cached.manifest)
    BY <1>7, DifferenceStays DEF StartExtraction
  <2>4. Listed(u)' /\ Loaded(u)' /\ Written(u)'
    BY <1>3, <2>1, <2>2 DEF Listed, Loaded, Written, Writing
  <2>. QED  BY <1>3, <2>1, <2>3, <2>4, OutputsQuiet
<1>8. CASE ExtractFile(u) \/ StartHashing(u)
  <2>1. /\ UNCHANGED <<disk, past, store, files, prior, hashes, next>>
        /\ pc[u] = "extract"
        /\ pc'[u] = "extract" \/ (prior[u] = None /\ pc'[u] = "hash")
    BY <1>8 DEF ExtractFile, StartHashing, local, TypeOK
  <2>2. SidecarUsable' = SidecarUsable /\ Cached' = Cached
    BY <2>1 DEF SidecarUsable, Cached
  <2>3. Listed(u)' /\ Loaded(u)' /\ Written(u)' /\ (Decided(u)' => Decided(u))
    BY <1>3, <2>1, <2>2 DEF Listed, Loaded, Written, Writing, Decided
  <2>. QED  BY <1>3, <2>1, <2>3, OutputsQuiet
<1>9. CASE BuildGraph(u)
  <2>1. /\ UNCHANGED <<disk, past, store, files, prior, hashes, next>>
        /\ Ready(u) /\ pc'[u] = "open" /\ result'[u] = Output(u)
    BY <1>9 DEF BuildGraph, Ready, TypeOK
  <2>2. SidecarUsable' = SidecarUsable /\ Cached' = Cached
    BY <2>1 DEF SidecarUsable, Cached
  <2>3. next[u] = 1 /\ (SidecarUsable => Decided(u))
    BY <1>3, <2>1 DEF Ready, Written, Writing, Loaded, Decided
  <2>4. Output(u).manifest = hashes[u] /\ ReadBy(hashes[u]) = files[u]
    BY <2>1, ReadyFacts DEF Output
  <2>5. Listed(u)' /\ Loaded(u)'
    <3>1. pc[u] # "idle"
      BY <2>1 DEF Ready
    <3>. QED  BY <1>3, <2>1, <2>2, <3>1 DEF Listed, Loaded
  <2>6. Written(u)'
    BY <2>1, <2>3, <2>4 DEF Written, Writing, ReadBy
  <2>. QED  BY <1>3, <2>1, <2>3, <2>5, <2>6, OutputsQuiet
<1>10. CASE OpenArtifact(u)
  BY <1>10, OutputsOpen
<1>11. CASE FillArtifact(u)
  BY <1>11, OutputsFill
<1>12. CASE NoOp(u) \/ ReadFails(u) \/ Crash(u)
  BY <1>12, OutputsExit DEF NoOp, ReadFails, Crash
<1>. QED
  BY <1>4, <1>5, <1>6, <1>7, <1>8, <1>9, <1>10, <1>11, <1>12 DEF Run

(* Of one process at a time that may be killed at any moment: as long as   *)
(* no text is restored and files are not both created and deleted, the     *)
(* artifacts agree, or the next update will write them again.              *)
THEOREM LeftoversAlwaysNoticed ==
  ASSUME OneProcess, CreatesOrDeletes, ~EditorReverts
  PROVE  Spec => []OutputsAgreeOrPending
<1>1. Init => PastBehind /\ Outputs
  <2>. SUFFICES ASSUME Init PROVE PastBehind /\ Outputs
    OBVIOUS
  <2>1. PastBehind
    BY DEF Init, PastBehind
  <2>2. ~SidecarUsable
    BY OrderFacts DEF Init, SidecarUsable, UsableSidecar, OlderSidecar, Unparsable
  <2>. QED
    BY <2>1, <2>2 DEF Init, Outputs, Remembered, WasRead, NothingRead, Owed, Stages,
                      Listed, Loaded, Written, Writing
<1>2. Basics /\ PastBehind /\ Outputs /\ [Next]_vars => (PastBehind /\ Outputs)'
  <2>. SUFFICES ASSUME Basics, PastBehind, Outputs, [Next]_vars
                PROVE  PastBehind' /\ Outputs'
    OBVIOUS
  <2>1. PastBehind'
    BY PastFlow DEF Basics, PastBehind
  <2>. QED  BY <2>1, OutputsStep
<1>3. PastBehind /\ Outputs => OutputsAgreeOrPending
  <2>. SUFFICES ASSUME PastBehind, Owed, SidecarUsable, Cached.manifest = disk,
                       NEW a \in Artifact \ {"sidecar"}
                PROVE  store[a] = Cached.graph
    BY DEF Outputs, OutputsAgreeOrPending, NextUpdateWrites
  <2>1. ~Outdated(Cached.manifest)
    BY DEF Outdated, PastBehind
  <2>. QED  BY <2>1 DEF Owed, OutputsAgree
<1>. QED
  BY <1>1, <1>2, <1>3, BasicsAlways, PTL DEF Spec
=============================================================================
