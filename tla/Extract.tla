------------------------------ MODULE Extract ------------------------------
(***************************************************************************)
(* extract_files (crates/habitat-graph-extract/src/registry.rs): the files *)
(* that detect has listed are read and walked in parallel, in any order,   *)
(* and the graph is assembled from all of them, or from none.              *)
(*                                                                         *)
(* A source is an extension, a stem and a syntax tree: what tree-sitter    *)
(* makes of the text, and what the walker of its language looks at.  The   *)
(* texts of GraphBuild are these sources, and their declarations and       *)
(* references what the walkers find.                                       *)
(***************************************************************************)
EXTENDS ScriptWalkers, TypedWalkers, NativeWalkers

CONSTANTS
  Path,    \* the files, as numbers: detect lists them in this order
  Source,  \* the sources a file can have
  None

(* Every node of a source's tree: no tree is deeper than what is visited.  *)
Nodes == UNION {Visited({s.tree}, AllKids) : s \in Source}

ASSUME PathAssumption == Path \subseteq Nat
ASSUME SourceAssumption ==
  /\ Source \subseteq [ext : Word, stem : Seq(Word), tree : Nodes]
  /\ Nodes \subseteq [kind : STRING, name : Seq(Word), kids : Seq(Nodes)]

VARIABLES
  source,     \* source[p]: what is in file p
  gone,       \* the files that cannot be read any more
  todo,       \* the files no thread has looked at
  found,      \* found[p]: the extraction of file p, None if there is none yet
  failed,     \* the files that could not be read
  result,     \* none, ok or error
  graph       \* what is assembled

vars == <<source, gone, todo, found, failed, result, graph>>
-----------------------------------------------------------------------------
Registered == <<
  [language |-> "rust",   extensions |-> {"rs"}],
  [language |-> "python", extensions |-> {"py"}],
  [language |-> "ts",     extensions |-> {"ts", "tsx", "mts", "cts"}],
  [language |-> "js",     extensions |-> {"js", "jsx", "mjs", "cjs"}],
  [language |-> "go",     extensions |-> {"go"}],
  [language |-> "text",   extensions |-> {"md", "markdown", "txt", "rst"}],
  [language |-> "c",      extensions |-> {"c", "h"}],
  [language |-> "cpp",    extensions |-> {"cpp", "cc", "cxx", "hpp", "hxx"}],
  [language |-> "java",   extensions |-> {"java"}],
  [language |-> "ruby",   extensions |-> {"rb"}],
  [language |-> "scala",  extensions |-> {"scala", "sc"}],
  [language |-> "csharp", extensions |-> {"cs"}],
  [language |-> "kotlin", extensions |-> {"kt", "kts"}],
  [language |-> "php",    extensions |-> {"php"}] >>

(* The extractor of a source; none matches, or the first that does.        *)
Language(s) ==
  LET fits == SelectSeq(Registered, LAMBDA e : Folded[s.ext] \in e.extensions)
  IN  IF fits = <<>> THEN "none" ELSE fits[1].language

StemLower(s) == Lower(s.stem)

Extraction(s) ==
  LET b == StemLower(s)  language == Language(s) IN
  CASE language = "rust"   -> RustExtract(s.tree)
    [] language = "python" -> PyExtract(b, s.tree)
    [] language = "ts"     -> TsExtract(b, s.tree)
    [] language = "js"     -> JsExtract(b, s.tree)
    [] language = "go"     -> GoExtract(b, s.tree)
    [] language = "text"   -> TextExtract(Folded[s.ext], b, s.tree)
    [] language = "c"      -> CExtract(b, s.tree)
    [] language = "cpp"    -> CppExtract(b, s.tree)
    [] language = "java"   -> JavaExtract(b, s.tree)
    [] language = "ruby"   -> RbExtract(b, s.tree)
    [] language = "scala"  -> ScExtract(b, s.tree)
    [] language = "csharp" -> CsExtract(b, s.tree)
    [] language = "kotlin" -> KtExtract(b, s.tree)
    [] language = "php"    -> PhpExtract(b, s.tree)
    [] OTHER -> Nothing

ASSUME NoneAssumption == \A s \in Source : Extraction(s) # None

Found == {found[p] : p \in Path} \ {None}
RefsOf(x) == {[src |-> e.source, tgt |-> e.target] : e \in x.edges}

(* The graph construction, its texts being the extractions.                *)
G == INSTANCE GraphBuild WITH
       Label <- UNION {x.nodes : x \in Found}, Content <- Found,
       Decl <- [x \in Found |-> x.nodes], Ref <- [x \in Found |-> RefsOf(x)]
-----------------------------------------------------------------------------
(***************************************************************************)
(* extract_files.                                                          *)
(***************************************************************************)
Init ==
  /\ source \in [Path -> Source]
  /\ gone = {} /\ todo = Path /\ failed = {}
  /\ found = [p \in Path |-> None]
  /\ result = "none"
  /\ graph = [nodes |-> {}, edges |-> {}]

(* A file may be removed after it was listed.                              *)
Vanish(p) ==
  /\ p \in todo /\ p \notin gone
  /\ gone' = gone \cup {p}
  /\ UNCHANGED <<source, todo, found, failed, result, graph>>

Skip(p) ==
  /\ p \in todo /\ result = "none" /\ Language(source[p]) = "none"
  /\ todo' = todo \ {p}
  /\ UNCHANGED <<source, gone, found, failed, result, graph>>

Walk(p) ==
  /\ p \in todo /\ result = "none" /\ Language(source[p]) # "none"
  /\ todo' = todo \ {p}
  /\ \/ /\ p \notin gone
        /\ found' = [found EXCEPT ![p] = Extraction(source[p])]
        /\ UNCHANGED failed
     \/ p \in gone /\ failed' = failed \cup {p} /\ UNCHANGED found
  /\ UNCHANGED <<source, gone, result, graph>>

(* Mutant of Collect: what could not be read is left out.                  *)
CollectRead ==
  /\ result = "none" /\ todo = {}
  /\ result' = "ok" /\ graph' = G!Assemble(found)
  /\ UNCHANGED <<source, gone, todo, found, failed>>

(* The first error ends it, whatever is still to be done.                  *)
Collect ==
  /\ result = "none"
  /\ \/ todo = {} /\ failed = {} /\ result' = "ok" /\ graph' = G!Assemble(found)
     \/ failed # {} /\ result' = "error" /\ UNCHANGED graph
  /\ UNCHANGED <<source, gone, todo, found, failed>>

Next ==
  \/ \E p \in Path : Vanish(p) \/ Skip(p) \/ Walk(p)
  \/ Collect

Spec == Init /\ [][Next]_vars
-----------------------------------------------------------------------------
(***************************************************************************)
(* Properties.                                                             *)
(***************************************************************************)
(* Whatever the order in which the files were walked, an ok comes with the *)
(* graph of all the files an extractor claims: its labels, each in the     *)
(* first file that has it, and its edges, but for those that lead to no    *)
(* label.  An error comes with none, and only if a file could not be read. *)
AllOrNothing ==
  LET claimed == {p \in Path : Language(source[p]) # "none"}
      all == All({Extraction(source[p]) : p \in claimed})
      first(l) == Min({p \in claimed : l \in Extraction(source[p]).nodes})
  IN  /\ result = "ok" =>
           graph = [nodes |-> {[label |-> l, file |-> first(l)] : l \in all.nodes},
                    edges |-> {e \in RefsOf(all) : {e.src, e.tgt} \subseteq all.nodes}]
      /\ result # "ok" => graph = G!EmptyGraph
      /\ result = "error" => claimed \cap gone # {}

(* The labels of an extraction that are reached from some of them.         *)
Reached(x, roots) ==
  Visited(roots, LAMBDA label :
    {e.target : e \in {d \in x.edges : /\ d.relation \in {"contains", "method"}
                                       /\ d.source = label}})

(* The C++ classes in a class's body, or in a namespace without a name:    *)
(* collect_class_names goes there, walk_node does not.                     *)
Hidden(root) ==
  LET passed == {n \in Visited({root}, AllKids) :
                   \/ n.kind \in CppClasses
                   \/ n.kind = "namespace_definition" /\ ~HasName(n)}
      inside == Visited(UNION {Kids(n, {"body"}) : n \in passed}, AllKids)
  IN  UNION {CppName(n, {"type_identifier", "identifier"}) :
               n \in {m \in inside : m.kind \in CppClasses}}

ConnectedIn(x, s) ==
  LET b == StemLower(s)
      elsewhere == {e.source : e \in {d \in x.edges : d.relation = "method"}} \ x.nodes
  IN  /\ x.nodes = Reached(x, {b} \cup IF Language(s) = "go" THEN elsewhere ELSE {})
                     \ elsewhere
      /\ \A e \in x.edges :
           e.relation = "inherits" /\ IsPrefix(b, e.source) =>
             \/ e.source \in x.nodes
             \/ Language(s) = "cpp" /\ e.source \in {b \o name : name \in Hidden(s.tree)}

(* Every edge has an end in the file it is found in (Anchored, a           *)
(* hypothesis of the update command's theorems); every symbol hangs on the *)
(* file's node, or, in Go, on a receiver declared elsewhere; and a base    *)
(* with the file's prefix is a node of the file: both passes see the same  *)
(* types.  In Rust there is no file node and no prefix, and a hidden C++   *)
(* class is seen by the first pass only: what derives from it has an edge  *)
(* to no node.                                                             *)
Connected ==
  /\ G!Anchored
  /\ \A p \in Path :
       found[p] # None /\ Language(source[p]) # "rust" => ConnectedIn(found[p], source[p])

(* Two files whose stems do not begin with each other declare no label     *)
(* twice: extract_files gives a label to one file alone, in every language *)
(* but Rust (whose labels are bare names, and may be declared anywhere).   *)
OwnersUnique ==
  \A p, q \in Path :
    LET s == source[p]  t == source[q] IN
    /\ found[p] # None /\ found[q] # None
    /\ ~IsPrefix(StemLower(s), StemLower(t)) /\ ~IsPrefix(StemLower(t), StemLower(s))
    /\ "rust" \notin {Language(s), Language(t)}
    => found[p].nodes \cap found[q].nodes = {}

(* The order of a program's declarations says nothing: a base is found     *)
(* wherever in the file it is declared.  The lines of a text have an order *)
Reordered(s) ==
  {[s EXCEPT !.tree.kids = [i \in DOMAIN @ |-> @[order[i]]]] :
     order \in {f \in [DOMAIN s.tree.kids -> DOMAIN s.tree.kids] : IsInjective(f)}}
OrderFree ==
  \A p \in Path : found[p] # None /\ Language(source[p]) # "text" =>
    \A s \in Reordered(source[p]) : Extraction(s) = found[p]
=============================================================================
