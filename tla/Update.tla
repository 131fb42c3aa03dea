------------------------------- MODULE Update -------------------------------
(***************************************************************************)
(* The update command (crates/habitat-graph-cli/src/commands/update.rs):   *)
(* the incremental rebuild of a project's graph, driven by a sidecar file  *)
(* that caches the last graph and the hashes of the texts it was built     *)
(* from.                                                                   *)
(*                                                                         *)
(* Each running update is a process of its own (a post-commit hook, a      *)
(* terminal): it reads the source files one by one, twice, and writes its  *)
(* artifacts one by one with std::fs::write (truncate, then fill) and no   *)
(* lock.  An editor changes the files while it does, and a process may be  *)
(* killed between any two steps.  A definition marked "mutant" is not used *)
(* by the specification: it is a wrong version of the one that follows it, *)
(* kept to see that a property tells the two apart.                        *)
(***************************************************************************)
EXTENDS GraphBuild, Sequences

CONSTANTS
  Proc,              \* the update processes
  Texts,             \* Texts[p]: the texts the editor may give file p
  Truncated,         \* an artifact whose writer opened it and stopped
  Mixed,             \* an artifact two writers wrote over each other
  EditKinds,         \* what the editor does: modify, create, delete
  EditorReverts,     \* may the editor give a file a text it had before?
  EditsInFullBuild,  \* may it write while a full build is reading?
  MaxEdits,          \* bound on the editor's writes
  MaxCrashes         \* bound on the killed processes

(* The sidecar's fields: the schema tag, the graph, and the manifest's     *)
(* content hashes (a hash stands for its text: blake3 is taken as          *)
(* injective).  "from" is history, not in the file: for each file listed,  *)
(* the text of it that was last extracted.                                 *)
Sidecar == [schema : {"current", "older"}, graph : Graph,
            manifest : Build, from : Build]

Unparsable == {None, Truncated, Mixed}

ASSUME EnvironmentAssumption ==
  /\ Texts \in [Path -> SUBSET Content]
  /\ EditKinds \subseteq {"modify", "create", "delete"}
  /\ EditorReverts \in BOOLEAN
  /\ EditsInFullBuild \in BOOLEAN
  /\ MaxEdits \in Nat
  /\ MaxCrashes \in Nat
ASSUME SentinelAssumption ==
  /\ Unparsable \cap Graph = {}
  /\ Unparsable \cap Sidecar = {}

VARIABLES
  disk,     \* the source files: path to text
  past,     \* history: the texts each file has had and no longer has
  edits,    \* number of editor writes so far
  crashes,  \* number of killed processes so far
  store,    \* the output directory: artifact to what is in it
  pc,       \* where each process is
  files,    \* the paths its detect call listed
  prior,    \* the sidecar it loaded, None for a full build
  hashes,   \* the texts its hashing pass read
  fresh,    \* the texts its extraction pass read
  result,   \* what it is about to write
  next      \* the artifact of ArtifactOrder it writes now

local == <<files, prior, hashes, fresh, result, next>>
vars == <<disk, past, edits, crashes, store, pc, local>>

ArtifactOrderSidecarFirst ==
  <<"sidecar", "graph.json", "GRAPH_REPORT.md", "graph.html">>
ArtifactOrder == <<"graph.json", "GRAPH_REPORT.md", "graph.html", "sidecar">>
Artifact == {ArtifactOrder[i] : i \in DOMAIN ArtifactOrder}

(* What an artifact holds when it is whole.                                *)
Holds(a) == IF a = "sidecar" THEN Sidecar ELSE Graph

Present == {p \in Path : disk[p] # None}
ReadBy(b) == {p \in Path : b[p] # None}

(***************************************************************************)
(* Before the first step there is no output, or what another version of    *)
(* the program left: a sidecar with an older schema tag that records the   *)
(* current hashes, and a graph extracted under the older taxonomy, which   *)
(* no current extraction reproduces (EmptyGraph stands for it).            *)
(***************************************************************************)
OlderSidecar(b) ==
  [schema |-> "older", graph |-> EmptyGraph, manifest |-> b, from |-> NothingRead]

Init ==
  /\ disk \in {b \in Build : \A p \in Path : b[p] \in Texts[p] \cup {None}}
  /\ past = [p \in Path |-> {}]
  /\ edits = 0
  /\ crashes = 0
  /\ store \in
       {[a \in Artifact |-> None],
        [a \in Artifact |->
           IF a = "sidecar" THEN OlderSidecar(disk) ELSE EmptyGraph]}
  /\ pc = [u \in Proc |-> "idle"]
  /\ files = [u \in Proc |-> {}]
  /\ prior = [u \in Proc |-> None]
  /\ hashes = [u \in Proc |-> NothingRead]
  /\ fresh = [u \in Proc |-> NothingRead]
  /\ result = [u \in Proc |-> None]
  /\ next = [u \in Proc |-> 1]
-----------------------------------------------------------------------------
(***************************************************************************)
(* The environment.                                                        *)
(***************************************************************************)
InFullBuild(u) == prior[u] = None /\ pc[u] \in {"extract", "hash"}

EditorMayWrite ==
  /\ edits < MaxEdits
  /\ EditsInFullBuild \/ \A u \in Proc : ~InFullBuild(u)

Put(p, c) ==
  /\ disk' = [disk EXCEPT ![p] = c]
  /\ past' = [past EXCEPT ![p] = (@ \cup {disk[p]}) \ {None, c}]
  /\ edits' = edits + 1
  /\ UNCHANGED <<crashes, store, pc, local>>

MayHold(p, c) == c \in Texts[p] /\ (EditorReverts \/ c \notin past[p])

Modify(p) ==
  /\ "modify" \in EditKinds /\ EditorMayWrite
  /\ disk[p] # None
  /\ \E c \in Content \ {disk[p]} : MayHold(p, c) /\ Put(p, c)

Create(p) ==
  /\ "create" \in EditKinds /\ EditorMayWrite
  /\ disk[p] = None
  /\ \E c \in Content : MayHold(p, c) /\ Put(p, c)

Delete(p) ==
  /\ "delete" \in EditKinds /\ EditorMayWrite
  /\ disk[p] # None
  /\ Put(p, None)
-----------------------------------------------------------------------------
(***************************************************************************)
(* One update process.                                                     *)
(***************************************************************************)
Exit(u) ==
  /\ pc' = [pc EXCEPT ![u] = "idle"]
  /\ files' = [files EXCEPT ![u] = {}]
  /\ prior' = [prior EXCEPT ![u] = None]
  /\ hashes' = [hashes EXCEPT ![u] = NothingRead]
  /\ fresh' = [fresh EXCEPT ![u] = NothingRead]
  /\ result' = [result EXCEPT ![u] = None]
  /\ next' = [next EXCEPT ![u] = 1]

(* detect: the paths of the source files, sorted.                          *)
Detect(u) ==
  /\ pc[u] = "idle"
  /\ pc' = [pc EXCEPT ![u] = "load"]
  /\ files' = [files EXCEPT ![u] = Present]
  /\ UNCHANGED <<disk, past, edits, crashes, store,
                 prior, hashes, fresh, result, next>>

UsableSidecar(s) == s \notin Unparsable /\ s.schema = "current"

(* Mutant of LoadPrior: an unusable sidecar is an error.                   *)
LoadPriorStrict(u) ==
  /\ pc[u] = "load"
  /\ \/ /\ UsableSidecar(store["sidecar"])
        /\ prior' = [prior EXCEPT ![u] = store["sidecar"]]
        /\ pc' = [pc EXCEPT ![u] = "hash"]
        /\ UNCHANGED <<files, hashes, fresh, result, next>>
     \/ ~UsableSidecar(store["sidecar"]) /\ Exit(u)
  /\ UNCHANGED <<disk, past, edits, crashes, store>>

(* try_load_prior: a missing or unparsable sidecar, and one of another     *)
(* schema, mean a full build, which extracts before it hashes.             *)
LoadPrior(u) ==
  /\ pc[u] = "load"
  /\ \/ /\ UsableSidecar(store["sidecar"])
        /\ prior' = [prior EXCEPT ![u] = store["sidecar"]]
        /\ pc' = [pc EXCEPT ![u] = "hash"]
     \/ /\ ~UsableSidecar(store["sidecar"])
        /\ UNCHANGED prior
        /\ pc' = [pc EXCEPT ![u] = "extract"]
  /\ UNCHANGED <<disk, past, edits, crashes, store,
                 files, hashes, fresh, result, next>>

(* The hashing pass reads the listed files in order.                       *)
FirstUnhashed(u, p) ==
  /\ p \in files[u] \ ReadBy(hashes[u])
  /\ \A q \in files[u] \ ReadBy(hashes[u]) : p <= q

HashFile(u) ==
  /\ pc[u] = "hash"
  /\ \E p \in files[u] :
       /\ FirstUnhashed(u, p) /\ disk[p] # None
       /\ hashes' = [hashes EXCEPT ![u][p] = disk[p]]
  /\ UNCHANGED <<disk, past, edits, crashes, store, pc,
                 files, prior, fresh, result, next>>

Manifest(u) == prior[u].manifest
Added(u)   == files[u] \ ReadBy(Manifest(u))
Removed(u) == ReadBy(Manifest(u)) \ files[u]
Changed(u) ==
  {p \in files[u] \cap ReadBy(Manifest(u)) : hashes[u][p] # Manifest(u)[p]}
ToExtractKnown(u) == IF prior[u] = None THEN files[u] ELSE Changed(u)  \* mutant
ToExtract(u) == IF prior[u] = None THEN files[u] ELSE Added(u) \cup Changed(u)
StaleRemoved(u) == Removed(u)  \* mutant
StaleChanged(u) == Changed(u)  \* mutant
Stale(u) == Changed(u) \cup Removed(u)

AllHashed(u) == files[u] \subseteq ReadBy(hashes[u])
NothingDiffers(u) == ToExtract(u) = {} /\ Removed(u) = {}

(* Nothing differs from the sidecar's manifest: done, with nothing written *)
NoOp(u) ==
  /\ pc[u] = "hash" /\ AllHashed(u)
  /\ prior[u] # None /\ NothingDiffers(u)
  /\ Exit(u)
  /\ UNCHANGED <<disk, past, edits, crashes, store>>

StartExtraction(u) ==
  /\ pc[u] = "hash" /\ AllHashed(u)
  /\ prior[u] # None /\ ~NothingDiffers(u)
  /\ pc' = [pc EXCEPT ![u] = "extract"]
  /\ UNCHANGED <<disk, past, edits, crashes, store, local>>

(* extract_files reads each file again, in parallel: in any order.         *)
ExtractFile(u) ==
  /\ pc[u] = "extract"
  /\ \E p \in ToExtract(u) \ ReadBy(fresh[u]) :
       /\ disk[p] # None
       /\ fresh' = [fresh EXCEPT ![u][p] = disk[p]]
  /\ UNCHANGED <<disk, past, edits, crashes, store, pc,
                 files, prior, hashes, result, next>>

AllExtracted(u) == ToExtract(u) \subseteq ReadBy(fresh[u])

(* A full build hashes what it has extracted.                              *)
StartHashing(u) ==
  /\ pc[u] = "extract" /\ AllExtracted(u)
  /\ prior[u] = None
  /\ pc' = [pc EXCEPT ![u] = "hash"]
  /\ UNCHANGED <<disk, past, edits, crashes, store, local>>

(* Mutant of Output: the manifest is made from the files as they are now.  *)
OutputRehashed(u) ==
  LET now == [p \in Path |-> IF p \in files[u] THEN disk[p] ELSE None] IN
  IF prior[u] = None
  THEN [schema |-> "current", graph |-> Assemble(fresh[u]),
        manifest |-> now, from |-> fresh[u]]
  ELSE [schema |-> "current",
        graph |-> Merge(Assemble(fresh[u]), PruneGraph(prior[u].graph, Stale(u))),
        manifest |-> now,
        from |-> Splice(prior[u].from, fresh[u], Path \ files[u])]

Output(u) ==
  IF prior[u] = None
  THEN [schema |-> "current", graph |-> Assemble(fresh[u]),
        manifest |-> hashes[u], from |-> fresh[u]]
  ELSE [schema |-> "current",
        graph |-> Merge(Assemble(fresh[u]), PruneGraph(prior[u].graph, Stale(u))),
        manifest |-> hashes[u],
        from |-> Splice(prior[u].from, fresh[u], Path \ files[u])]

BuildGraph(u) ==
  /\ IF prior[u] = None THEN pc[u] = "hash" /\ AllHashed(u)
                        ELSE pc[u] = "extract" /\ AllExtracted(u)
  /\ result' = [result EXCEPT ![u] = Output(u)]
  /\ pc' = [pc EXCEPT ![u] = "open"]
  /\ UNCHANGED <<disk, past, edits, crashes, store,
                 files, prior, hashes, fresh, next>>

(* A listed file that is gone when it is read: exit code 4, nothing        *)
(* written.                                                                *)
ReadFails(u) ==
  /\ \/ pc[u] = "hash" /\ \E p \in files[u] : FirstUnhashed(u, p) /\ disk[p] = None
     \/ pc[u] = "extract" /\ \E p \in ToExtract(u) \ ReadBy(fresh[u]) : disk[p] = None
  /\ Exit(u)
  /\ UNCHANGED <<disk, past, edits, crashes, store>>
-----------------------------------------------------------------------------
(***************************************************************************)
(* write_artifacts: graph.json, the report, the viewer, then the sidecar,  *)
(* each with std::fs::write: the file is truncated, then filled from its   *)
(* start.  When another process filled it in between, the rest of a longer *)
(* text remains behind the one just written.                               *)
(***************************************************************************)
Rendered(u, a) == IF a = "sidecar" THEN result[u] ELSE result[u].graph

OpenArtifact(u) ==
  /\ pc[u] = "open"
  /\ store' = [store EXCEPT ![ArtifactOrder[next[u]]] = Truncated]
  /\ pc' = [pc EXCEPT ![u] = "fill"]
  /\ UNCHANGED <<disk, past, edits, crashes, local>>

Fill(u, a) ==
  \/ store' = [store EXCEPT ![a] = Rendered(u, a)]
  \/ /\ store[a] \notin {Truncated, Rendered(u, a)}
     /\ store' = [store EXCEPT ![a] = Mixed]

(* Mutant of FillArtifact: one artifact too many.                          *)
FillArtifactPastEnd(u) ==
  /\ pc[u] = "fill"
  /\ Fill(u, ArtifactOrder[next[u]])
  /\ IF next[u] > Len(ArtifactOrder)
     THEN Exit(u)
     ELSE /\ next' = [next EXCEPT ![u] = @ + 1]
          /\ pc' = [pc EXCEPT ![u] = "open"]
          /\ UNCHANGED <<files, prior, hashes, fresh, result>>
  /\ UNCHANGED <<disk, past, edits, crashes>>

FillArtifact(u) ==
  /\ pc[u] = "fill"
  /\ Fill(u, ArtifactOrder[next[u]])
  /\ IF next[u] = Len(ArtifactOrder)
     THEN Exit(u)
     ELSE /\ next' = [next EXCEPT ![u] = @ + 1]
          /\ pc' = [pc EXCEPT ![u] = "open"]
          /\ UNCHANGED <<files, prior, hashes, fresh, result>>
  /\ UNCHANGED <<disk, past, edits, crashes>>

Crash(u) ==
  /\ pc[u] # "idle"
  /\ crashes < MaxCrashes
  /\ crashes' = crashes + 1
  /\ Exit(u)
  /\ UNCHANGED <<disk, past, edits, store>>

Run(u) ==
  \/ Detect(u) \/ LoadPrior(u)
  \/ HashFile(u) \/ NoOp(u) \/ StartExtraction(u)
  \/ ExtractFile(u) \/ StartHashing(u)
  \/ BuildGraph(u) \/ ReadFails(u)
  \/ OpenArtifact(u) \/ FillArtifact(u)

Edit(p) == Modify(p) \/ Create(p) \/ Delete(p)

Next ==
  \/ \E p \in Path : Edit(p)
  \/ \E u \in Proc : Run(u) \/ Crash(u)

Spec == Init /\ [][Next]_vars

(* A process that was started runs on, and someone runs update again.      *)
FairSpec == Spec /\ \A u \in Proc : WF_vars(Run(u))
-----------------------------------------------------------------------------
(***************************************************************************)
(* Properties.                                                             *)
(***************************************************************************)
TypeOK ==
  /\ disk \in Build
  /\ past \in [Path -> SUBSET Content]
  /\ edits \in 0..MaxEdits
  /\ crashes \in 0..MaxCrashes
  /\ store \in [Artifact -> Graph \cup Sidecar \cup Unparsable]
  /\ \A a \in Artifact : store[a] \in Holds(a) \cup Unparsable
  /\ pc \in [Proc -> {"idle", "load", "hash", "extract", "open", "fill"}]
  /\ files \in [Proc -> SUBSET Path]
  /\ prior \in [Proc -> Sidecar \cup {None}]
  /\ hashes \in [Proc -> Build]
  /\ fresh \in [Proc -> Build]
  /\ result \in [Proc -> Sidecar \cup {None}]
  /\ next \in [Proc -> 1..Len(ArtifactOrder)]

SidecarUsable == UsableSidecar(store["sidecar"])
Cached == store["sidecar"]

(* Every graph in the output directory has one node per label and no edge  *)
(* without its endpoints, however the prior graph was pruned and merged    *)
(* and whatever the processes left half done.                              *)
ArtifactsWellFormed ==
  /\ \A a \in Artifact \ {"sidecar"} :
       store[a] \notin Unparsable => WellFormed(store[a])
  /\ store["sidecar"] \notin Unparsable => WellFormed(Cached.graph)

(* No ghosts: every node of the cached graph is declared by the text last  *)
(* extracted from the node's file, so none outlives the text or the file   *)
(* it came from.                                                           *)
NodesJustified ==
  SidecarUsable => Justified(Cached.graph, Cached.from)

(* What the no-op exit and the choice of files to extract rely on: a file  *)
(* whose text still has the hash the sidecar records is in the graph with  *)
(* that text, although hashing and extracting read it at two moments.      *)
StalenessVisible ==
  SidecarUsable =>
    \A p \in Present : Cached.manifest[p] = disk[p] => Cached.from[p] = disk[p]

(* The incremental pipeline computes what a full build of the same texts   *)
(* computes ("incremental update == full rebuild", merge.rs:52).  It does  *)
(* when no two files declare one label and no edge leads to another file.  *)
IncrementalEqualsFull ==
  SidecarUsable => Cached.graph = Assemble(Cached.from)

(* The texts each file has had up to now.                                  *)
Had == [p \in Path |-> (past[p] \cup {disk[p]}) \ {None}]

(* Whatever labels the files share: among the labels that no two files     *)
(* have ever both declared, and up to edges between two files, the cached  *)
(* graph is the full build of its texts, with all nodes and their owners,  *)
(* no edge a full build lacks, and every edge inside one file.             *)
FaithfulInsideFiles ==
  SidecarUsable => FaithfulInside(Cached.graph, Cached.from, Sole(Had))

(* An update that exits as a no-op leaves a sidecar whose graph, among the *)
(* labels no two files have both declared and up to edges between files,   *)
(* is the full build of the texts it has just hashed.                      *)
NoOpMeansCurrent ==
  \A u \in Proc :
    (pc[u] = "hash" /\ AllHashed(u) /\ prior[u] # None /\ NothingDiffers(u))
      => FaithfulInside(prior[u].graph, hashes[u], Sole(Had))

(* With no update running, the artifacts all show the sidecar's graph, or  *)
(* the next update will not be a no-op and will write them again: what a   *)
(* process killed half way left behind is not taken for finished.          *)
NextUpdateWrites == ~SidecarUsable \/ Cached.manifest # disk

OutputsAgreeOrPending ==
  (\A u \in Proc : pc[u] = "idle") =>
    \/ NextUpdateWrites
    \/ \A a \in Artifact \ {"sidecar"} : store[a] = Cached.graph

(* Once the editor and the crashes stop (their bounds make them), repeated *)
(* updates bring every artifact to the full build of the files, and leave  *)
(* it there: torn sidecars, missed edits and failed runs are made good.    *)
Converges ==
  <>[](\A a \in Artifact \ {"sidecar"} : store[a] = Assemble(disk))
=============================================================================
