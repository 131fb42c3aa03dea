-------------------------------- MODULE Watch --------------------------------
(***************************************************************************)
(* The watch command (crates/habitat-graph-cli/src/commands/watch.rs, with *)
(* the features watch and live-bridges): rebuild graph.json whenever the   *)
(* file watcher reports something, and push what changed in its arcs to    *)
(* two services.                                                           *)
(*                                                                         *)
(* One watch process, an editor, and one other writer of graph.json (the   *)
(* extract command) share a file system.  The watcher's events carry no    *)
(* information the loop uses, so the channel is their number; MaxPending   *)
(* bounds it the way the kernel's queue is bounded: on overflow the watcher *)
(* reports one more event in place of those it lost.  A process that is    *)
(* killed is started again.                                                *)
(*                                                                         *)
(* Left out: the rebuild lock, which a single loop always finds free, and  *)
(* the arms for a channel without a sender, since the loop owns it.        *)
(***************************************************************************)
EXTENDS GraphBuild

CONSTANTS
  Texts,       \* Texts[p]: the texts the editor may give file p
  Unreadable,  \* texts extract_files fails on
  ArcPair,     \* label pairs related by a relation that makes an arc
  Truncated,   \* graph.json opened by a writer and not filled
  Mixed,       \* graph.json filled by two writers over each other
  MaxPending,  \* the channel's bound
  MaxEdits,    \* bound on the editor's writes
  MaxFaults,   \* bound on the failed writes of graph.json
  MaxCrashes   \* bound on the killed processes

Service == {"pv2", "povm"}
Unparsable == {None, Truncated, Mixed}

ASSUME WatchAssumption ==
  /\ Texts \in [Path -> SUBSET Content]
  /\ Unreadable \subseteq Content
  /\ ArcPair \subseteq LabelPair
  /\ MaxPending \in Nat \ {0}
  /\ MaxEdits \in Nat /\ MaxFaults \in Nat /\ MaxCrashes \in Nat
ASSUME WatchSentinels == Unparsable \cap Graph = {}

VARIABLES
  disk,      \* the source files: path to text
  graph,     \* graph.json
  inside,    \* is the output directory below the watched one?
  edits, faults, crashes,  \* how often each has happened
  other,     \* where the extract command is
  otherGraph,\* what it is about to write
  disturbed, \* history: graph.json is not as the last whole rebuild left it
  pc,        \* where the watch process is
  pending,   \* events in the channel
  initial,   \* is this the build before the loop?
  files,     \* the paths detect listed
  fresh,     \* the texts extracted so far
  prev,      \* prev_arcs
  nextArcs,  \* next_arcs
  mirror,    \* the arcs each service holds to exist
  missed     \* history: arcs whose last change since the baseline a service missed

env   == <<inside, edits, faults, crashes>>
extr  == <<other, otherGraph>>
build == <<initial, files, fresh>>
arcs  == <<prev, nextArcs, mirror, missed>>
vars  == <<disk, graph, disturbed, env, extr, pc, pending, build, arcs>>

Present == {p \in Path : disk[p] # None}
ReadBy(b) == {p \in Path : b[p] # None}
AllReadable == \A p \in Present : disk[p] \notin Unreadable

(* Arcs in the graph of graph.json; none when it cannot be read.           *)
Arcs(g) == {e \in g.edges : e \in ArcPair /\ Within(e, Labels(g))}
ArcsReadFresh(g) == IF g \in Unparsable THEN {None} ELSE Arcs(g)  \* mutant
ArcsRead(g) == IF g \in Unparsable THEN {} ELSE Arcs(g)

SymDiff(a, b) == (a \ b) \cup (b \ a)

Init ==
  /\ disk \in {b \in Build : \A p \in Path : b[p] \in Texts[p] \cup {None}}
  /\ graph = None
  /\ inside \in BOOLEAN
  /\ edits = 0 /\ faults = 0 /\ crashes = 0
  /\ other = "idle" /\ otherGraph = None
  /\ disturbed = FALSE
  /\ pc = "down" /\ pending = 0
  /\ initial = TRUE /\ files = {} /\ fresh = NothingRead
  /\ prev = {} /\ nextArcs = {}
  /\ mirror = [s \in Service |-> {}]
  /\ missed = [s \in Service |-> {}]
-----------------------------------------------------------------------------
(***************************************************************************)
(* Events: something was written below the watched directory.              *)
(***************************************************************************)
Raised(n) == IF pc = "down" \/ n = MaxPending THEN n ELSE n + 1
Raise == pending' = Raised(pending)
RaiseIfInside == pending' = IF inside THEN Raised(pending) ELSE pending

Edit(p) ==
  /\ edits < MaxEdits
  /\ \E c \in (Texts[p] \cup {None}) \ {disk[p]} : disk' = [disk EXCEPT ![p] = c]
  /\ edits' = edits + 1
  /\ Raise
  /\ UNCHANGED <<graph, disturbed, inside, faults, crashes, extr, pc, build, arcs>>

(* The extract command: builds the graph, then truncates and fills the     *)
(* file.  It reads the sources at one moment here.                         *)
OtherReads ==
  /\ other = "idle" /\ AllReadable
  /\ other' = "built"
  /\ otherGraph' = Assemble(disk)
  /\ UNCHANGED <<disk, graph, disturbed, env, pc, pending, build, arcs>>

OtherOpens ==
  /\ other = "built"
  /\ other' = "opened"
  /\ graph' = Truncated
  /\ disturbed' = TRUE
  /\ RaiseIfInside
  /\ UNCHANGED <<disk, env, otherGraph, pc, build, arcs>>

(* Filling a file another writer filled since it was opened may leave the  *)
(* rest of the longer text.                                                *)
FilledWith(g) ==
  \/ graph' = g
  \/ graph \notin {Truncated, g} /\ graph' = Mixed

OtherFills ==
  /\ other = "opened"
  /\ other' = "done"
  /\ FilledWith(otherGraph)
  /\ otherGraph' = None
  /\ disturbed' = TRUE
  /\ RaiseIfInside
  /\ UNCHANGED <<disk, env, pc, build, arcs>>
-----------------------------------------------------------------------------
(***************************************************************************)
(* The start: the watcher is registered before the initial build.          *)
(***************************************************************************)
(* prev_arcs becomes a; what a service does not know of it, nobody tells.  *)
Baseline(a) ==
  /\ prev' = a
  /\ missed' = [s \in Service |-> SymDiff(mirror[s], a)]
  /\ UNCHANGED <<nextArcs, mirror>>

Start ==
  /\ pc = "down"
  /\ pc' = "list"
  /\ pending' = 0
  /\ initial' = TRUE
  /\ Baseline({})
  /\ UNCHANGED <<disk, graph, disturbed, env, extr, files, fresh>>

(***************************************************************************)
(* rebuild.                                                                *)
(***************************************************************************)
Detect ==
  /\ pc = "list"
  /\ pc' = "read"
  /\ files' = Present
  /\ UNCHANGED <<disk, graph, disturbed, env, extr, pending, initial, fresh, arcs>>

ReadFile(p) ==
  /\ pc = "read"
  /\ p \in files \ ReadBy(fresh)
  /\ disk[p] \notin Unreadable \cup {None}
  /\ fresh' = [fresh EXCEPT ![p] = disk[p]]
  /\ UNCHANGED <<disk, graph, disturbed, env, extr, pc, pending, initial, files, arcs>>

(* The build is over: back to the loop.                                    *)
BackToLoop ==
  /\ pc' = "wait"
  /\ initial' = FALSE

Forget == files' = {} /\ fresh' = NothingRead

(* Mutant of ReadFails: the failed rebuild is tried again by itself.       *)
ReadFailsRetry(p) ==
  /\ pc = "read"
  /\ p \in files \ ReadBy(fresh)
  /\ disk[p] \in Unreadable \cup {None}
  /\ BackToLoop /\ Forget
  /\ Raise
  /\ UNCHANGED <<disk, graph, disturbed, env, extr, arcs>>

(* A file that is gone, or that no extractor accepts, ends the rebuild;    *)
(* the error is printed.                                                   *)
ReadFails(p) ==
  /\ pc = "read"
  /\ p \in files \ ReadBy(fresh)
  /\ disk[p] \in Unreadable \cup {None}
  /\ BackToLoop /\ Forget
  /\ UNCHANGED <<disk, graph, disturbed, env, extr, pending, arcs>>

OpenGraph ==
  /\ pc = "read" /\ files \subseteq ReadBy(fresh)
  /\ pc' = "write"
  /\ graph' = Truncated
  /\ RaiseIfInside
  /\ UNCHANGED <<disk, disturbed, env, extr, build, arcs>>

FillGraph ==
  /\ pc = "write"
  /\ pc' = "arcs"
  /\ FilledWith(Assemble(fresh))
  /\ disturbed' = (graph' = Mixed)
  /\ Forget
  /\ RaiseIfInside
  /\ UNCHANGED <<disk, env, extr, initial, arcs>>

WriteFails ==
  /\ pc = "write"
  /\ faults < MaxFaults
  /\ faults' = faults + 1
  /\ disturbed' = TRUE
  /\ BackToLoop /\ Forget
  /\ UNCHANGED <<disk, graph, inside, edits, crashes, extr, pending, arcs>>
-----------------------------------------------------------------------------
(***************************************************************************)
(* The arcs are read back from graph.json.                                 *)
(***************************************************************************)
(* Mutant of FirstArcs: what came in during the initial build is dropped.  *)
FirstArcsDraining ==
  /\ pc = "arcs" /\ initial
  /\ BackToLoop
  /\ Baseline(ArcsRead(graph))
  /\ pending' = 0
  /\ UNCHANGED <<disk, graph, disturbed, env, extr, files, fresh>>

FirstArcs ==
  /\ pc = "arcs" /\ initial
  /\ BackToLoop
  /\ Baseline(ArcsRead(graph))
  /\ UNCHANGED <<disk, graph, disturbed, env, extr, pending, files, fresh>>

(* An empty delta is not pushed.                                           *)
ReadArcs ==
  /\ pc = "arcs" /\ ~initial
  /\ nextArcs' = ArcsRead(graph)
  /\ pc' = IF nextArcs' = prev THEN "wait" ELSE "pv2"
  /\ UNCHANGED <<disk, graph, disturbed, env, extr, pending, build,
                 prev, mirror, missed>>

SeveredNone(old, new) == {}  \* mutant
Severed(old, new) == old \ new
Healed(old, new) == new \ old

(* The delta reaches service s or is lost; either way it is not sent again *)
Pushed(s) ==
  \E delivered \in BOOLEAN :
    IF delivered
    THEN /\ mirror' = [mirror EXCEPT
                         ![s] = (@ \ Severed(prev, nextArcs)) \cup Healed(prev, nextArcs)]
         /\ missed' = [missed EXCEPT ![s] = @ \ SymDiff(prev, nextArcs)]
    ELSE /\ missed' = [missed EXCEPT ![s] = @ \cup SymDiff(prev, nextArcs)]
         /\ UNCHANGED mirror

PushPv2 ==
  /\ pc = "pv2"
  /\ Pushed("pv2")
  /\ pc' = "povm"
  /\ UNCHANGED <<disk, graph, disturbed, env, extr, pending, build, prev, nextArcs>>

(* Mutant of PushPovm: the arcs already reported are kept.                 *)
PushPovmKeeping ==
  /\ pc = "povm"
  /\ Pushed("povm")
  /\ pc' = "wait"
  /\ nextArcs' = {}
  /\ UNCHANGED <<disk, graph, disturbed, env, extr, pending, build, prev>>

PushPovm ==
  /\ pc = "povm"
  /\ Pushed("povm")
  /\ pc' = "wait"
  /\ prev' = nextArcs
  /\ nextArcs' = {}
  /\ UNCHANGED <<disk, graph, disturbed, env, extr, pending, build>>
-----------------------------------------------------------------------------
(***************************************************************************)
(* The loop: the first event fixes the deadline until which others are     *)
(* drained; they do not move it.                                           *)
(***************************************************************************)
Receive ==
  /\ pc = "wait" /\ pending > 0
  /\ pending' = pending - 1
  /\ pc' = "drain"
  /\ UNCHANGED <<disk, graph, disturbed, env, extr, build, arcs>>

Drain ==
  /\ pc = "drain" /\ pending > 0
  /\ pending' = pending - 1
  /\ UNCHANGED <<disk, graph, disturbed, env, extr, pc, build, arcs>>

Deadline ==
  /\ pc = "drain"
  /\ pc' = "list"
  /\ UNCHANGED <<disk, graph, disturbed, env, extr, pending, build, arcs>>

Crash ==
  /\ pc # "down" /\ crashes < MaxCrashes
  /\ crashes' = crashes + 1
  /\ pc' = "down"
  /\ pending' = 0
  /\ Forget
  /\ initial' = TRUE
  /\ prev' = {} /\ nextArcs' = {}
  /\ missed' = mirror
  /\ UNCHANGED <<disk, graph, disturbed, inside, edits, faults, extr, mirror>>

Loop == Receive \/ Drain \/ Deadline
Rebuild ==
  \/ Detect \/ OpenGraph \/ FillGraph
  \/ \E p \in Path : ReadFile(p) \/ ReadFails(p)
Report == FirstArcs \/ ReadArcs \/ PushPv2 \/ PushPovm
Step == Start \/ Loop \/ Rebuild \/ Report
Other == OtherReads \/ OtherOpens \/ OtherFills

Next ==
  \/ Step \/ WriteFails \/ Crash \/ Other
  \/ \E p \in Path : Edit(p)

Spec == Init /\ [][Next]_vars

(* The process runs on, the deadline passes although events keep coming,   *)
(* and a killed watch is started again.  The other writer may stop.        *)
FairSpec == Spec /\ WF_vars(Step) /\ WF_vars(Deadline)
-----------------------------------------------------------------------------
(***************************************************************************)
(* Properties.                                                             *)
(***************************************************************************)
TypeOK ==
  /\ disk \in Build
  /\ graph \in Graph \cup Unparsable
  /\ inside \in BOOLEAN
  /\ edits \in 0..MaxEdits /\ faults \in 0..MaxFaults /\ crashes \in 0..MaxCrashes
  /\ other \in {"idle", "built", "opened", "done"}
  /\ otherGraph \in Graph \cup {None}
  /\ disturbed \in BOOLEAN
  /\ pc \in {"down", "wait", "drain", "list", "read", "write", "arcs"} \cup Service
  /\ pending \in 0..MaxPending
  /\ initial \in BOOLEAN
  /\ files \in SUBSET Path
  /\ fresh \in Build
  /\ prev \in SUBSET LabelPair /\ nextArcs \in SUBSET LabelPair
  /\ mirror \in [Service -> SUBSET LabelPair]
  /\ missed \in [Service -> SUBSET LabelPair]

(* What a service was last told of.                                        *)
Told(s) == IF s = "pv2" /\ pc = "povm" THEN nextArcs ELSE prev

(* A lost push is never repeated (push_delta swallows the failure and the  *)
(* loop goes on from the new arcs), but it damages no more than the arcs   *)
(* it named: of every other arc a service's view is that of the watch.     *)
MirrorsKnowTheRest ==
  \A s \in Service : SymDiff(mirror[s], Told(s)) \subseteq missed[s]

(* Nobody else's write and no failed write is left in graph.json, or the   *)
(* watcher will have told the loop of it.                                  *)
Undisturbed == inside \/ ~disturbed

(* When the editor is done, graph.json becomes the graph of the files and  *)
(* stays it (but for the moment of writing): the last save is never lost   *)
(* in the initial build, in the debounce, in a rebuild or in a rebuild     *)
(* that failed because a file went away under it.                          *)
Settles ==
  <>[](AllReadable /\ Undisturbed /\ pc # "write" => graph = Assemble(disk))

(* So do the arcs that the next delta will be computed from.               *)
ArcsSettle ==
  <>[](AllReadable /\ Undisturbed /\ pc = "wait" => prev = Arcs(Assemble(disk)))

(* A watch whose output is elsewhere stops rebuilding when the files stop  *)
(* changing, whatever failed.  (One whose output is below the watched      *)
(* directory never does: it hears its own writes.)                         *)
Rests == <>[](inside \/ pc = "wait")
=============================================================================
