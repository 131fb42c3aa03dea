# Verification of habitat-graph

habitat-graph extracts a knowledge graph (nodes for functions and types, edges
for calls and definitions) from a source tree, keeps it up to date, merges
versions of it and serves it to agents.  This directory holds TLA+ models of
the parts whose correctness depends on order, interleaving, crashes and long
histories, TLC configurations that check them on small instances, and TLAPS
proofs of their main properties for every instance.

- [Inventory](#inventory): the system's parts and what can go wrong in them
- [Plan](#plan): modules written and to be written
- [Modules](#modules): how state and actions correspond to the code
- [Runs](#runs): what TLC checks, bounds, fairness
- [Proofs](#proofs)
- [Divergences found](#divergences-found)
- [Not modelled](#not-modelled)

## Inventory

Thirteen crates under `crates/`.  "State" is what outlives a call.

| part | state | operations | what makes it correct |
|---|---|---|---|
| **update** (`cli/commands/update.rs`) | the output directory: graph.json, report, viewer, and the sidecar that caches the graph and the content hashes | detect, load sidecar, hash, diff, extract, prune, merge, write four artifacts | incremental = full build; nothing stale is kept or taken for current; crashes and racing updates are made good |
| **build** (assemble, merge, dedup, merge3) | none | extractions to graph; two graphs to one; three-way merge | unique labels, resolved edges, first owner wins, deletions respected, ids independent of history |
| **source** (detect, ingest, manifest, ssrf, pdf) | none | sorted file list, bounded read, hashes | the same files give the same manifest |
| **extract** (registry, 14 language walkers) | none | parallel extraction, first error aborts | result independent of the order of reads and of declarations; symbols hang on their file |
| **core** (schema, ids, guards) | none | content ids, canonical sort, sanitising | canonical order, collisions resolved the same way everywhere |
| **watch** (`cli/commands/watch.rs`) | event channel, rebuild lock, last arcs | debounce, rebuild, arc delta, push | the last save is eventually built; deltas sum to the difference |
| **hook, install, install-mcp, install-merge-driver** | files shared with git and other tools | check, append; read, merge, write, read back | idempotent, no user's line lost, an ok is true, a retry succeeds |
| **add, extract, other commands** | graph.json | one-shot writers and readers | do not leave a graph that update takes for its own |
| **daemon** (uds, http) | snapshot of graph and index, connection permits | reload, handle a line, accept | each line is answered once, over one generation; permits come back; the line cap holds |
| **cache** (cas, evict, memo) | map and recency queue | get, put, evict, memoize | a hit equals a recomputation; capacity holds; the two stay in step |
| **analyze** | none | communities, centrality, gates | deterministic, trusted edges only |
| **serve** | none | load, index, query, path, explain, budget, resources, JSON-RPC | the index finds what a scan finds; paths are shortest; what is left out is counted |
| **export** | none | node-link, html, svg, wiki | what load reads back |
| **habitat** | external services | arc deltas, pushes, memory chain, pipe | best effort, verified write |
| **backend**, **fixtures** | none | request formats; test harness | — |

How they interact: the commands call source, extract, build, analyze and export
in one process.  Between processes there is only the file system: graph.json is
written by update, watch, extract, add and git's merge driver and read by serve,
mcp, the daemon and add; the sidecar is written and read by update alone.  No
lock is shared between processes (watch's lock is process-wide).

Hard behaviours: update reads every file twice, at moments an editor does not
know of; it builds on a cached result of its own earlier runs; it writes four
files one by one and may be killed in between; a post-commit hook starts one
while another runs.  `PROJECT.json` lists each hazard at its line.

## Plan

The most important behaviour, the incremental rebuild, comes first.

| module | state | what it is for |
|---|---|---|
| `GraphBuild`, `GraphBuildProofs` | no state | assemble, prune_graph, merge as operators; lemmas about them for all inputs |
| `Update`, `UpdateProofs` | written by many processes | the update command and its theorems |
| `MergeDriver` | no state | merge3 between reading and writing node-link files, communities included |
| `Branches`, `BranchesProofs` | two branches | composes `MergeDriver` with git: commits, merges, fast-forwards |
| `Watch`, `WatchProofs` | events, graph.json, services | composes the watch loop with `GraphBuild`, an editor, another writer and two receivers of pushes |
| `MemoTable` | a table of the keys used last | what the cache promises |
| `Cache`, `CacheProofs` | map and queue | store, policy, memo; implements `MemoTable` |
| `NodeLink`, `Queries` | no state | graph.json as written and read back; everything the serve crate answers |
| `Answers` | no state | what those answers promise, without index, search or file |
| `LineService` | a stream and its answers | what the daemon promises a client |
| `Uds`, `UdsProofs` | snapshot, permits, chunks, tasks | the daemon; implements `LineService` with `Queries` against `Answers` |
| `Register`, `RegisterProofs` | files shared with others | the five installers |
| `Syntax`, `ScriptWalkers`, `TypedWalkers`, `NativeWalkers` | no state | the 14 language walkers over syntax trees |
| `Extract`, `ExtractProofs` | files and threads | the registry and extract_files; composes the walkers with `GraphBuild` |

All of these are written, and every safety property that a passing run checks is
also proved, but for two.  Of `Connected` the part that the update command's theorems
rest on (`Anchored`) is.  `IncrementalEqualsFull` is true of some source trees only
(`update_loses` violates it); what is proved is the part of it that holds for
all, `FaithfulInsideFiles` and `FilePartsFull`.

## Modules

### GraphBuild

Operators for `assemble` (`build/assemble.rs`), `merge` (`build/merge.rs`) and
`prune_graph` (`update.rs`).

- A *text* is a member of `Content`; `Decl[c]` and `Ref[c]` are the labels it
  declares and the pairs of labels it relates, which is all an extraction
  (`RawNode`, `RawEdge`) holds besides spans, relation names and confidences.
- `Path` is a set of numbers so that detect's sorted order is `<=`: the first
  file that declares a label owns its node (`FirstFile`).
- A node is its label and its owner.  Its id is left out: `content_id` is taken
  to be injective.  A graph is then a set of nodes and a set of label pairs, and
  `dedup` and `sorted`, which remove duplicates and fix an order, are what sets
  are.
- `Merge` looks edges up in their own graph and prefers the first graph's node,
  as `merge` does with its two remaps.

Files share labels.  The update command detects `.rs` files only (`update.rs:76`),
and a Rust label is a bare name, so any two files with a `new` or a `main` share one;
outside Rust, two files share a label only if the stem of one begins with the stem of
the other (`OwnersUnique`).  What holds of all trees is therefore stated label by
label: `Sole(T)` is the set of labels that no two files declare in any of the texts
`T` they can have, and `FaithfulInside(g, b, ls)` compares `g` with a full build among
the labels `ls`.  What becomes of the other labels is a divergence
(`update_loses`).

One hypothesis on the texts remains, `Anchored`: an edge has an end in the text it is
found in.  The run `extractors` checks it of what each of the 14 walkers emits
(`Connected`), and `ExtractProofs` proves it for any trees.

### Update

One process per running `update`; an editor; a file system.

| code | model |
|---|---|
| source files | `disk`, with `past` as history of what each file held |
| output directory | `store`: each artifact is `None`, `Truncated` (opened, not filled), `Mixed` (filled over another writer's longer text) or whole |
| sidecar | a record with schema tag, graph and manifest; the history field `from` is the text last extracted of each file |
| a content hash | the text itself (blake3 is taken to be injective) |
| `detect` | `Detect`: the paths present now |
| `try_load_prior` | `LoadPrior`: missing, torn or of another schema means a full build |
| hashing pass | `HashFile`, file by file in order |
| diff | `Added`, `Removed`, `Changed`, `ToExtract`, `Stale` |
| no-op exit | `NoOp` |
| `extract_files` (rayon) | `ExtractFile`, in any order, reading the file again |
| `do_full_build` | extracts first, hashes afterwards (`StartHashing`) |
| assemble, prune, merge, new manifest | `BuildGraph`, `Output` |
| `write_artifacts` | `OpenArtifact` and `FillArtifact` for each of four artifacts in order |
| an error while reading | `ReadFails`: exit code 4, nothing written |
| kill | `Crash` |

A process keeps everything else in memory, so leaving (`Exit`) resets it.

`Init` starts from no output or from the output of an older version whose
hashes match the files: the case the schema guard exists for.

`Had` is the set of texts each file has had, from the history `past`; the labels that
`FaithfulInsideFiles` and `NoOpMeansCurrent` are about are `Sole(Had)`.

### MergeDriver

Operators for `merge3` (`build/merge_driver.rs`), from what `from_node_link`
reads to what `to_node_link` writes.

- A file is a graph with, for each label, the number of its node's community.
  Reading names community *i* "community-i", so communities are matched by
  number (`KeptCommunities`), the kept ones are numbered anew, ours before
  theirs (`NewNumber`), and writing gives a node the last community it is in
  (`WrittenCommunity`).
- `Kept` is the deletion table of the module's documentation, used for labels,
  edges and communities alike.
- A label of both sides keeps ours' node (`WinningNodes`); an edge is kept under
  its two labels and only between survivors (`MergedEdges`).  Ids only look
  labels up within one graph, and are left out.

### Branches

Two branches whose versions are a tree of source files and a graph.json.

| code | model |
|---|---|
| `habitat-graph update`, commit | `Commit`: one file changes, graph.json is the full build (`Built`) |
| `git merge`, sources | `ThreeWay` per file: the changed side, or any text if both changed |
| `git merge`, graph.json | `MergedFile`: the changed side, or the driver's result |
| `run_merge_driver` | `DriverResult`: merge3, or ours if the base is empty (the driver cannot parse it and exits with 1) |
| `git merge --ff` | `FastForward` |

git is external and modelled by its documented three-way rule; the merge base
after a merge is the tip that was merged in.  A history field `guessed` names
the files whose graph nothing can be said of until the next build: those both
sides changed, or all of them after the driver failed.  `called` lets git call
the driver when the two files differ only in what the model leaves out.
Criss-cross merges (two merge bases) do not occur, since both branches live in
one repository.  That the committed graph is a full build is the model's choice: it
is what the first update of a checkout writes, and what later ones write for trees that
neither share labels nor call between files (see `Update`).

merge3 knows no owners: a label that one side deleted and the other left alone is
deleted, although another file of the merged sources may still declare it.  So
`FilesFollowSources` too is about the labels that no two files can both declare.

`Cluster` is a constant: Leiden is a library.  The proofs hold for any
numbering; the runs use connected components, which for three nodes is what
maximising modularity gives.

### Watch

One watch process, an editor, the extract command as another writer of
graph.json, and the two services that are told of arcs.

| code | model |
|---|---|
| the watcher's channel | `pending`, a number of events: the loop looks at nothing else of them; at `MaxPending` an event is lost among the others, as on overflow of the kernel's queue |
| watcher registered, initial build | `Start`, then the rebuild with `initial` |
| `recv`, draining until the deadline | `Receive`, `Drain`, `Deadline` |
| `rebuild` | `Detect`, `ReadFile` in any order, `OpenGraph`, `FillGraph`; `ReadFails`, `WriteFails` |
| `extract_arcs_from_out` | `ArcsRead`: nothing if graph.json is torn or missing |
| `push_arc_delta`, `push_delta` | `Severed`, `Healed`, `PushPv2`, `PushPovm`; each push may be lost |

`inside` says whether the output directory lies below the watched one: then the
watch hears its own writes.  The loop finds the rebuild lock free, since it is
the only one to take it.

### Cache and MemoTable

`Cache` has the store's `map`, the Lru policy's queue `order`, and the running
call; eviction is taken one turn of its loop at a time.  A rebuild is `Partition`
followed by `MemoizeMisses` of what was not cached; while it runs nobody else
calls, since the store is borrowed mutably.  `MemoTable` knows only the keys used
last.  No other crate uses the cache yet.

### NodeLink, Queries, Answers

`Queries` is the serve crate: `LabelIndex` (trigrams and a scan below three
characters), `shortest_path`, `explain`, the budget's `pack`, the resources and
`handle_jsonrpc`, over what `from_node_link` makes of `to_node_link`
(`NodeLink`).  A label is a sequence of characters, a request is a record, an
answer is what it lists and what it counts as left out.  `Answers` says what a
right answer is in terms of the graph that was built: all walks, all nodes whose
label contains the needle, the smallest ids first.

### Uds and LineService

| code | model |
|---|---|
| `WarmState` (an ArcSwap of graph and index) | `snapshot`, `Prepare`, `Store` |
| `serve_uds` | `Accept`, `Drop` at capacity, `AcceptFails` and `BackedOff` |
| the semaphore | `permits`, released where a task ends (`Ends`) |
| `read_bounded_line` | `Fill`, `Keep`, `Line`, `LastLine`, `Refuse`, `EndOfFile`, `ReadFails` |
| `handle_conn` | `Handle`, `Write`, `WriteFails`, `WriteRefusal` |

Tasks are cut at their awaits.  `LineService` has no chunks, buffers or permits: a
client's stream, its answers, and that each line is answered once, in order, over
the graph served at that moment.

### Register

Processes that run one of five commands on the hook, .git/config, .gitattributes
and the client's configuration.  A file is a sequence of lines or entries;
`fs::write` is `Truncate`, `FillPart`, `Fill` (a process keeps the file it has
open through a rename), an append is one step, `atomic_write_and_verify` adds
`Rename` and `Verify`.  A write goes on at the beginning of the file it opened, so what
somebody else has written there since is overwritten from the front (`Overwritten`).
The user (`Edit`) adds a line or an entry at any moment, also to a file that is empty or
not there, which creates it: between the check for an empty hook and its write as well.

### Syntax, the walkers, Extract

A syntax tree is a kind, a name and children: what tree-sitter yields and the
walkers ask for.  A name is the sequence of words between its underscores, so
that the labels' `{stem}_{class}_{method}` is concatenation, as in the code
ambiguous.  Each walker is one operator `...Extract` with an operator per helper
of the code; several read a file twice, first for the types it declares
(`PyLocal`, `JavaLocal`, ...).  `Extract` has the registry (the first extractor that
claims the extension), files read in any order, files that vanish, and the
assembly of all extractions by `GraphBuild`.

## Runs

For `Update`: two files, three and two texts for them (two and one in `update_hostile`
and `update_loses`), three labels.  `MCUpdate` has three families of texts: labels and
calls that stay inside their file; a label that both files may declare, as two Rust files
with a `new` do, and calls between the files; and a renamed function.

| run | question | bounds |
|---|---|---|
| `update_recovers` | Is a no-op right?  Is incremental equal to full?  Is a crash's leftover noticed?  Do repeated updates converge? | 1 process, 3 modifications or creations, 1 crash; labels and edges stay in their files; no restored text |
| `update_hostile` | Of two racing updates: are graphs well formed, free of ghosts, and full builds among the labels of one file?  Is a stale file visible? | 2 processes (symmetric), 2 modifications or deletions; shared labels and edges between files; no restored text, no edit in a full build |
| `update_loses` | violated: incremental = full when files share a label or call each other | 1 process, 1 edit |
| `update_misses_edit` | violated: a recorded hash is the hash of what is in the graph, when an edit may fall in a full build | 1 process, 1 edit |
| `branches` | Does merge3 agree with git's merge of the sources over histories of merges? | 2 branches, 4 commits, 3 texts of one file and 1 of the other, which may be absent; a shared label, calls between files |
| `branches_overlap` | violated: a merged node is in one community | as `branches`, without the shared label |
| `watch` | Is the last save built whatever races, fails or is killed?  Do the services know what the watch knows?  Does it come to rest? | 2 files, one of which may be unreadable; 2 edits, 2 events in the channel, 1 failed write, 1 kill, 1 extract; output inside and outside |
| `cache` | Do map and queue stay in step?  Is it a table of the keys used last? | 4 keys, capacities 0 (none) to 3 |
| `daemon` | Is each line answered once, in order and rightly, however it is cut and whatever is reloaded?  Do permits come back? | 2 clients, 1 permit, 1 reload, 1 failed accept; lines capped at 2 bytes and read by at most 3; 14 kinds of requests over 2 graphs |
| `register` | What survives two installers, a kill and an edit? | any 2 commands, each run twice, 1 kill, 1 edit, which may create a file |
| `hook_overwrites` | violated: an existing hook is never overwritten | 1 command, run once, 1 edit |
| `extractors` | Are extractions whole, connected, apart from each other, independent of order? | 2 files: every program of up to 2 declarations in every language, next to one of 7 others; C++ with classes nested in classes and in namespaces |

Why the bounds are enough: an incremental step involves one file that changed
and one that did not, so two files and three labels (two in one file, one in the
other) give every case of pruning and merging; three edits give chains of
incremental updates on each other's result, with an edit inside each; three
artifacts besides the sidecar and one crash give every torn combination.
Shared labels give a change of owner.  Of two processes one may stop anywhere for good,
which is a crash as far as the other can see.  Restored texts and edits during a full
build are left out of the passing runs because `StalenessVisible` does not hold under them; the
theorems about the other properties of `update_hostile` allow both.
Four commits give two divergent merges in a row with a change on each side, so
that a merge's result is both a side and a base of the next; three texts and
absence give every row of the deletion table for a label, and a conflict.
The proofs below remove the bounds.

Two edits let a save fall before, in and after a rebuild and a second one undo
it, one of them with a file no extractor accepts; the second event in the channel
is the one that is lost on overflow.  Four keys against capacities up to three
give evictions of keys that were and were not used since, and rebuilds that just
fit or do not.  One permit for two clients makes one wait while the other holds
it; a cap of two bytes and reads of up to three let a line be accepted, refused
or accepted because its end came along with it, under every cut of the stream.
Two declarations give every pair of a base and a type before or after it.
The walkers that go down nested nodes (`Visited`) do so at most `Depth` times, which
is more than the depth of the run's trees.

`branches` stops when its commits are used up and the branches are merged, which
is why it does not check for deadlock; so do `watch` (the watch waits for events),
`daemon` (all clients are served), `register` and `hook_overwrites` (all processes are done) and
`extractors` (the result is there).

Properties.  `TypeOK` is the type invariant.  `ArtifactsWellFormed` and
`NodesJustified` concern the graphs; `FaithfulInsideFiles` and
`IncrementalEqualsFull` compare the cached graph with `Assemble` of the texts it
stands for, the first among the labels that no two files have both declared and up to
edges between files, the second as a whole (it is promised of every tree, and
`update_loses` violates it);
`StalenessVisible` and `NoOpMeansCurrent` say that the hashes may be
relied on; `OutputsAgreeOrPending` that four artifacts written one by one are
either in agreement or will be written again; `Converges` is liveness.

In `Branches`, `FileWellFormed` is about what merges may never produce, and
`FilesFollowSources` compares the merged graph.json with the merged sources,
file by file and among the labels of one file, wherever git itself had no conflict.

In `Watch`, `Settles` says that graph.json ends as the graph of the files,
`ArcsSettle` that the arcs the next delta starts from do, `MirrorsKnowTheRest`
that a push that is lost (and never repeated) damages only the arcs it named,
and `Rests` that a watch stops rebuilding.  In `Cache`, `InStep` relates the two
structures, `CachedStays` promises a rebuild what it was told, and
`ImplementsTable` is the refinement of `MemoTable`.  In `Uds`,
`ImplementsService` is the refinement of `LineService`, whose `Right` compares
each answer with `Answers`; `WarmFindRight` compares the warm index with a scan
of the graph beside it; `Bounded` and `PermitsAccounted` are about memory and
permits, and `Answered`, `PermitsReturn`, `LetInOrDropped` are liveness.  In
`Register`, `UserLinesKept` (an action property: a line in a file that no command is
about to create stays there, and no command creates the file from then on),
`HookNeverOverwritten` and `ConfigWhole` are about other people's lines,
`OnceEach`, `OkMeansInstalled` and `RetrySucceeds` about the installers' own.  In
`Extract`, `AllOrNothing` compares the assembled graph with the extractions of
all files, `Connected`, `OwnersUnique` and `OrderFree` the walkers with each other.

What these properties except, because the code does not promise it: `Rests`, an
output below the watched directory; `Settles`, the moments in which somebody
else's write is what graph.json holds and no event told the watch;
`PermitsReturn`, a client that neither reads nor leaves (there is no timeout);
`ConfigWhole` and `RetrySucceeds`, install-mcp, which writes in place, and two
installers at once; `UserLinesKept`, the configuration (an entry written between
read and rename is lost), the command that rewrites .gitattributes, and a file that a
command has found empty and is about to write (`Creating`), which is the divergence
`hook_overwrites`; `Connected`, the C++ classes that only the first pass finds
(`Hidden`: in a class's body or in a namespace without a name), label by label.

Conditions that are part of the meaning.  `EditsInFullBuild` and
`EditorReverts` are FALSE where a property needs it.  The first is the
divergence below.  The second matters because a manifest that is behind its
graph is noticed only while the file has not gone back to the recorded text: an
update killed between graph.json and the sidecar, followed by an edit that
restores the old text, leaves a graph.json that no later update corrects.  A file
that was created and is deleted again goes back in the same way: its ghost stays in
graph.json.  `CreatesOrDeletes` excludes that where `OutputsAgreeOrPending` is proved;
`update_recovers` has modifications and creations only.

Fairness.  `FairSpec` has weak fairness on `Run(u)`: a started process goes on
(it waits for nobody) and someone runs update again, as the post-commit hook
does.  Nothing is assumed of the editor or of crashes; their bounds stop them,
and `Converges` speaks of the time after.  It is a bounded form of "if the files
stop changing".

`Watch!FairSpec`: a started watch goes on and is started again after a kill, and
the deadline of the debounce passes even though events keep coming (it is fixed
at the first).  Nothing is assumed of the editor, of extract, or of pushes.
`Uds!FairSpec`: the runtime runs the accept loop and each task; only the clients in
`Reader` are assumed to read.  `Register!FairSpec`: a process goes on, and a user
runs a command again that failed or was killed.  `Cache` and `Extract` have no
liveness properties: a call runs to its end.

Each property has a mutant: a definition marked as such beside the one it
replaces, which breaks the property under the run's own configuration (a
forgotten lookup, the sidecar first, an unusable sidecar as an error, a diff
that forgets added, changed or removed files, a manifest made too late).

## Proofs

`GraphBuildProofs` proves, for all finite or infinite sets of files and texts:
assemble yields unique labels and resolved edges; prune and merge preserve that;
pruning the stale files and merging what was extracted anew leaves every node
justified (`IncrementalIsJustified`), and, with anchored edges and among the labels
that no two files declare before or after, a full build up to edges between files
(`IncrementalIsFaithful`), hence the full build among the labels that one file alone
declares (`FaithfulIsFull`).  Which labels else are shared does not matter.  The first owner
exists because paths are natural numbers (`LeastPath`, well-founded induction's
least element).

`UpdateProofs` proves of `Spec`, for any number of processes, files, edits and
crashes:

| theorem | property | hypotheses |
|---|---|---|
| `TypeCorrect` | `TypeOK` | — |
| `NoGhosts` | `NodesJustified` | — |
| `WellFormedArtifacts` | `ArtifactsWellFormed` | — |
| `IncrementalFaithful` | `FaithfulInsideFiles` | anchored edges |
| `IncrementalFull` | `FilePartsFull`: of each file, the labels it alone has ever declared and the edges among them are those of the full build | anchored edges |
| `StalenessAlwaysVisible` | `StalenessVisible` | no restored texts, no edit during a full build |
| `NoOpIsRight` | `NoOpMeansCurrent` | no restored texts, no edit during a full build, anchored edges |
| `LeftoversAlwaysNoticed` | `OutputsAgreeOrPending` | one process, no restored texts, files not both created and deleted |

The argument.  None of the properties is inductive: they speak of the sidecar
on disk, which a process writes long after it read what went into it, possibly
from a sidecar that has been replaced meanwhile.  The invariants are therefore
stated of all sidecars *in play*: the one on disk, those the processes loaded
and those they are writing (`InPlay`).  `InPlayFlow` shows that a step brings in
a sidecar only by building it, so it remains to show that `Output` has the
property, given that the loaded sidecar has it.  `Ordered` records what a
process has read at each point (all hashes before the first extraction, or the
other way round), and gives `SpliceOrigin`: where each text of the new graph
comes from.

- `Good` (well formed, justified, manifest and graph about the same files) and
  `Faithful` follow from the lemmas of `GraphBuildProofs`.
- `Trailing` says that a recorded hash that is not the hash of the extracted
  text names a text the file no longer has.  It needs `Seen`: what a process
  hashed is the file's text or in its past, and once extraction read something
  else, it is in its past.  Without restored texts the past only grows
  (`PastFlow`), which is the step the divergence of full builds breaks: there,
  the manifest is *ahead* of the graph.
- The no-op theorem adds, in `Seen`, that a hash equal to the loaded manifest's
  was read when the file had the text the loaded graph was built from.
- The leftovers of a killed process (`Outputs`): as soon as a process has decided
  to write, the sidecar on disk is out of date in a way that no later edit repairs
  (`Outdated`: it records a text of the past, or the absence of a file that is
  there); so it may be killed with any number of artifacts written.  `Listed`,
  `Loaded` and `Written` say, for each stage of a run, what it has read and written
  so far, and `Owed` that whoever has not decided yet finds the artifacts in
  agreement or the sidecar out of date.

`BranchesProofs` proves of any two branches, with any files, texts, communities
and numbers of commits:

| theorem | property | hypotheses |
|---|---|---|
| `VersionsTyped` | `TypeOK` | — |
| `MergesWellFormed` | `FileWellFormed` | — |
| `MergesFollowSources` | `FilesFollowSources` | anchored edges |
| `MergeCommutes` | of merge3: the same labels and edges from either side | — |

The invariants speak of the two tips and of the merge base (`Versions`), because
the base decides what a merge deletes; `VersionFlow` reduces a step to a commit
or a merge of three versions.  `Tracked` (a branch without graph.json has no
commit of its own) shows that the driver is only ever given the base as a missing
file.  For `FilesFollowSources`, a file's part of a graph is told by the labels
that it alone can declare (`Able`), in `Sound`; `MergeParts` says that
merge3 acts on each part as `Kept`, and `KeptChoice` that `Kept` is git's
three-way choice where one side left things alone.  That a merged community has
a number needs finitely many labels.

`CacheProofs` proves of the cache, for any keys, results, capacities and calls:

| theorem | property | argument |
|---|---|---|
| `TypeCorrect`, `StaysInStep` | `TypeOK`, `InStep` | inductive together: the queue has each held key once (`RemoveAtFacts`, `TouchFacts`) |
| `CapacityKept` | `WithinCapacity` | `Bound`: one key too many, and only while a put evicts |
| `RebuildKeepsCached` | `CachedStays` | `Room`: what a rebuild holds and still has to compute fits, so nothing is evicted |
| `CacheImplementsTable` | `ImplementsTable` | `Faithful`: what is held is the key's result; the newest keys of the queue are the table's (`EvictLeavesNewest`: evicting does not show) |

`WatchProofs` proves `TypeOK` (`TypeCorrect`) and `MirrorsKnowTheRest`
(`LostPushesHarmLittle`) of the watch, for any files, texts, services and losses.
A push, delivered or lost, moves a service's view from the previous arcs to the next
except for arcs it names (`PushMoves`).

`UdsProofs` proves of the daemon, for any clients, messages, graphs and limits:

| theorem | property | argument |
|---|---|---|
| `TypeCorrect` | `TypeOK` | `Sorts`, `Limits` |
| `PermitsAlwaysAccounted` | `PermitsAccounted` | `Permitted`: every way for a task to end releases the permit it took (`EndsAccounted`) |
| `BufferBounded` | `Bounded` | the cap is tested before a chunk without newline is kept |
| `WarmFindAlwaysRight` | `WarmFindRight` | `OnePair`: graph and index are stored together; and for any graph `LoadedKeepsNodes` (writing and reading back changes no label) and `FindScans` (a node whose label contains the needle has the needle's trigrams) |
| `DaemonImplementsService` | `ImplementsService` | below |

The refinement.  A client's stream is buffer, chunk and socket, one after the other,
so reading moves bytes without a step of `LineService` (`FillUnseen`,
`KeepUnseen`), and writing a reply does not show either, since it was an answer
from the moment its line was taken (`WriteUnseen`).  `Phases` says who has a
reply to write and that the buffer never has a newline; hence the first newline of
the chunk ends the first line of the stream (`StreamLine`, `CutStream`), and what is
refused is too long however it goes on (`LongStream`).  Two hypotheses: any
sequence of bytes may be read as a line (`Lines` is finite only for TLC), and
`QueriesRight`, that the answer to a single line over a single graph is right.  The
second is what the serve crate promises; its answers are recursive computations over
the graph, so it is evaluated on the instance (`InstanceQueriesRight` of `MCUds`,
and again in every step of the refinement that TLC checks) and not proved.

`RegisterProofs` proves of the installers, for any number of processes that run any
commands, are killed, run again and have files edited under them:

| theorem | property | argument |
|---|---|---|
| `TypeCorrect` | `TypeOK` | `Basics`: which file each command has open or is about to write, and with what |
| `UserLinesAlwaysKept` | `UserLinesKept` | `SecureStep`: a file with a line is appended to only, and a command decides to create a file only when it finds it empty |
| `ConfigAlwaysWhole` | `ConfigWhole` | `Renames`: what one installer is about to rename is the backup it wrote, whole |
| `AddedOnceEach` | `OnceEach` | `Single`: what is about to be appended is not there yet |
| `OkAlwaysMeansInstalled` | `OkMeansInstalled` | `Installs`: a command past a file has left its addition there |

The conditions of `ConfigWhole`, `OnceEach` and `OkMeansInstalled` (who else runs) are in
the properties themselves.

`ExtractProofs` proves `AllOrNothing` (`AllOrNothingAlways`) of `extract_files`, for
any files and sources and any order of the threads: `Progress` says what has
become of each file a thread took, and `AssembledIsFull` that the graph of all is that
of the claimed files, whoever came first.  Of the walkers it proves, for trees of
any shape and any number of files:

| theorem | property | argument |
|---|---|---|
| `EdgesAlwaysAnchored` | `Anchored`, of `Connected` | `OfFile`: each edge comes from the file's node or leads to a label declared with it; in Rust (`RustAnchored`) a call comes from the function around it |
| `SymbolsAlwaysHeld` | `SymbolsHeld`, one step of `Connected` | `OfFile`, again: each part of an extraction has a root, and the part that has the root in turn declares it |
| `OwnersAlwaysUnique` | `OwnersUnique` | `OfFile`, a third time: each label begins with the file's stem (`Own`); of two stems that begin a label one begins the other (`PrefixOfSame`) |
| `AlwaysOrderFree` | `OrderFree` | `Alike`: what a walker says of a tree depends on the set of the root's children only, in both passes |

`OfFile` is shown of the helpers, then of each walker's parts from the bottom up
(`PyOfFile`, `JsOfFile` and so on), and put together by `ExtractionWhole`.  Where a
walker goes down nested nodes (`Visited`), the argument is by induction on the levels of
the visit (`Visits`, `UpTo`), which exist since the visit is a recursive function of
the depth (`LevelsExist`).

Assumed throughout: `content_id` and blake3 injective; a path names the same file
throughout; and the constants' assumptions, which every run evaluates: numbers that
are positive where the code's are, files as natural numbers (detect's order),
finitely many cache keys (`KeyAssumption`: a key is a hash) and installer processes
(`ProcAssumption`), an extraction distinct from none (`NoneAssumption`); messages,
needles and labels are sequences, and the nodes of a built graph have different ids
(`MessagesAssumption`, `NeedlesAssumption`, `BuiltAssumption`); folding case makes a word
of a word (`FoldedAssumption`), `Depth` is a number (`DepthAssumption`), and a source has
a tree of nodes with a kind, a name of words and children, none deeper than `Depth`
(`SourceAssumption`).  `Depth` may be any number: it says that trees are finite, as a
parser's are.

Only model-checked:

- liveness (`Converges`, `Settles`, `ArcsSettle`, `Rests`, `Answered`, `PermitsReturn`,
  `LetInOrDropped`, `RetrySucceeds`), which under fairness is out of the prover's reach;
- `Connected` as a whole.  That every label can be reached from the file's node is
  induction over paths, out of its reach too; what is proved is each step of such
  a path (`SymbolsHeld`).  That a base is a node of the file rests on what a grammar
  never produces (a bare base name that begins with the file's stem), which the run
  has no instance of;
- the answers of `Queries` other than `find`: recursive computations over a graph, for
  which the same holds.

## Divergences found

- **Incremental updates lose labels and calls of unchanged files** (`update_loses`).
  `prune_graph` (`update.rs:330`) removes the nodes that a changed file owned and every
  edge that touches one, and only changed files are extracted again.  A call from an
  unchanged file is lost with its target, and one to a name that is new in the changed
  file was never in the graph.  A label that two files declare belongs to the first
  (`assemble.rs:58`); when that file drops it, the other's node is lost.  For Rust,
  whose labels are bare names, sharing one is the normal case.  In the run one file
  renames f to g, and the other calls both and has an f of its own.  `merge.rs:51-52`
  and the test at `update.rs:941` promise that an incremental update equals a full
  rebuild; the test's files neither call each other nor share a label.
- **A full build can record a hash it has not extracted**
  (`update_misses_edit`).  `do_full_build` hashes after it extracts; a file
  saved in between is recorded with its new hash beside its old graph, and stays
  so until it is changed again.  The incremental path hashes first and is safe:
  the same edit leaves its manifest behind the graph, and the next update sees
  a difference.

- **A merge puts a node into two communities** (`branches_overlap`).
  Communities are matched by their position, so two branches that cluster the
  same nodes differently give both "community-1" and "community-0" a claim on a
  node; `to_node_link` writes the last.  `json.rs:45-46` says that this case does
  not arise in practice.  The next update clusters anew.

- **`hook install` can overwrite a hook** (`hook_overwrites`).  It checks for an empty
  hook (`hook.rs:154`) and writes a new one in a second step (`hook.rs:156`), with
  `fs::write`: a hook that the user creates in between is lost.  `hook.rs:9-10` says
  that existing hooks are never overwritten.  A hook that is there before the check is
  appended to, which is what `UserLinesKept` shows.

Also seen while modelling, without a run of their own:

- When one branch removes a label's only declaration and the other adds a second one in
  another file, merge3 takes the label for deleted, although the merged sources still
  declare it, until graph.json is built anew.
- Edges *between* files are merged by key, so when one branch drops a call and
  the other adds its callee, merge3 keeps a call that the merged sources no longer
  have, until the next update.
- A watch whose output lies below the watched directory (the default
  `graphify-out`, when the working directory is watched) hears its own writes and
  rebuilds for ever; `watch.rs:22-24` speaks of a quiet window, but the deadline is
  fixed at the first event (`watch.rs:370`).
- With `max_tokens` and more than `MAX_QUERY_RESULTS` matches, those beyond the cap
  show in the total only; `mcp.rs:27-28` promises a note.
- A line longer than `MAX_LINE_BYTES` is accepted when its newline comes with the
  chunk that exceeds the cap (`uds.rs:243`), although the doc comment at
  `uds.rs:211` caps the content; `LineService` allows up to a chunk more.
- Two installs at once share one .bak file: one may rename the other's half-written
  text, and if it is then killed, every later install refuses the configuration.
- `add` takes an existing graph.json it cannot parse for an empty one and replaces
  it (`add.rs:198-199`), where its doc comment (`add.rs:188`) announces a parse error.
- `extract` detects .rs files only and watch seven extensions, of the 14 extractors'.
- Java: scoped types in an implements list are not skipped, as `java.rs:79-80` says of
  them, but their parts are taken for bases.  C++: a class in another class's body
  (`cpp.rs:79-82`) or in a namespace without a name is known to the first pass and
  skipped by the second, so a class derived from it inherits from a label without a
  node.  C#: `using A = List<int>` imports the
  alias.  JavaScript: `import ""` relates the file to the empty label.

## Not modelled

- In `Update`: community detection, rendering and node ids (the graph is labels,
  owners and label pairs); parse failures, which end an update exactly as a failed
  read does; I/O errors on the output directory.
- Parsing by tree-sitter: the walkers start from the tree.  Spans, confidences,
  and the order and number of equal nodes.
- Ids: `content_id` and blake3 are taken to be injective, so the probing of colliding
  ids does not occur.
- The HTTP side of the daemon (`server.rs`, `handlers.rs`): handlers that call the
  functions of `Queries` over one load of the snapshot, and a library's server.
- `serve` and `mcp`: loops over the same `handle_jsonrpc` and a graph that never
  changes.  `add`: one read and one write around `merge`.
- The memory chain and the orchestrator pipe: requests to external processes whose
  behaviour is not under this code's control.
- Centrality, gates and questions (floating-point scores over one graph, without
  state); guards for addresses, secrets and labels, and the pdf reader (string
  processing); exporters other than node-link; backends; the parity harness.
