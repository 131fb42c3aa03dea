------------------------------- MODULE Queries -------------------------------
(***************************************************************************)
(* What the serve crate answers about a graph (crates/habitat-graph-serve):*)
(* the label index, the path search, the explanation of a concept, the     *)
(* token budget, the resources, and the JSON-RPC dispatch over them.       *)
(*                                                                         *)
(* A label and a needle are sequences of characters; a request line has    *)
(* been parsed to a record by Parse (serde_json).  An answer is its        *)
(* content: which nodes and edges, in which order, and how many more it    *)
(* says there are; the wording is left out.                                *)
(***************************************************************************)
EXTENDS NodeLink, Functions

CONSTANTS
  LowerCase,           \* LowerCase[ch]: str::to_lowercase of a character
  Parse(_),            \* what a line says: a request, notification or neither
  Cost(_),             \* estimate_tokens of a node's line
  HEADER_COST,         \* estimate_tokens of the header
  MAX_QUERY_RESULTS, MAX_QUERY_LEN, MAX_CONCEPTS, MAX_EDGES_PER_NODE,
  REPORT_SAMPLE_SIZE

Ids(graph) == {node.id : node \in ToSet(graph.nodes)}
Node(graph, id) == CHOOSE node \in ToSet(graph.nodes) : node.id = id
Lower(s) == [i \in DOMAIN s |-> LowerCase[s[i]]]

HasSubSeq(s, t) ==
  \E i \in 0..(Len(s) - Len(t)) : SubSeq(s, i + 1, i + Len(t)) = t

FirstOf(s, n) == SubSeq(s, 1, IF Len(s) < n THEN Len(s) ELSE n)
-----------------------------------------------------------------------------
(***************************************************************************)
(* index.rs: from each three characters to the nodes that have them.       *)
(***************************************************************************)
Trigrams(s) == {SubSeq(s, i, i + 2) : i \in 1..(Len(s) - 2)}

(* LabelIndex::build.                                                      *)
Index(graph) ==
  LET lower == [id \in Ids(graph) |-> Lower(Node(graph, id).label)]
      used == UNION {Trigrams(lower[id]) : id \in Ids(graph)}
  IN  [lower_labels |-> lower,
       trigram_index |->
         [t \in used |-> {id \in Ids(graph) : t \in Trigrams(lower[id])}]]

(* LabelIndex::find: a scan below three characters, else the nodes that    *)
(* have every trigram of the needle, if they also contain it.              *)
Find(index, needle) ==
  LET n == Lower(needle)
      posted(t) == IF t \in DOMAIN index.trigram_index
                   THEN index.trigram_index[t] ELSE {}
      all == DOMAIN index.lower_labels
      candidates == IF Len(n) < 3 THEN all
                    ELSE {id \in all : \A t \in Trigrams(n) : id \in posted(t)}
  IN  Ascending({id \in candidates : HasSubSeq(index.lower_labels[id], n)})

(* find_by_label.                                                          *)
find_by_label(graph, needle) == Find(Index(graph), needle)
-----------------------------------------------------------------------------
(***************************************************************************)
(* query.rs: breadth-first search, edges taken both ways, neighbours in    *)
(* ascending order, the first discovery of a node kept.                    *)
(***************************************************************************)
NoPath == <<>>

(* The first node with exactly this label, or 0.                           *)
Resolved(graph, label) ==
  LET with == {i \in DOMAIN graph.nodes : graph.nodes[i].label = label}
  IN  IF with = {} THEN 0
      ELSE graph.nodes[CHOOSE i \in with : \A j \in with : i <= j].id

Neighbours(graph, id) ==
  {e.target : e \in {f \in ToSet(graph.edges) : f.source = id}}
    \cup {e.source : e \in {f \in ToSet(graph.edges) : f.target = id}}

(* One node is taken from the queue.                                       *)
Visit(graph, search) ==
  LET u == Head(search.queue)
      new == Neighbours(graph, u) \ DOMAIN search.predecessors
  IN  [queue |-> Tail(search.queue) \o Ascending(new),
       predecessors |-> [v \in new |-> u] @@ search.predecessors]

(* The search after n visits, or when dst is discovered.                   *)
Search(graph, src, dst) ==
  LET after[n \in 0..Len(graph.nodes)] ==
        IF n = 0 THEN [queue |-> <<src>>,
                       predecessors |-> [v \in {src} |-> src]]
        ELSE IF after[n - 1].queue = <<>>
                \/ dst \in DOMAIN after[n - 1].predecessors
             THEN after[n - 1]
             ELSE Visit(graph, after[n - 1])
  IN  after[Len(graph.nodes)].predecessors

(* The way back from dst to the node that is its own predecessor.          *)
WayBack(predecessors, dst) ==
  LET back[n \in 1..Cardinality(DOMAIN predecessors)] ==
        IF n = 1 THEN <<dst>>
        ELSE LET p == predecessors[Last(back[n - 1])]
             IN  IF p = Last(back[n - 1]) THEN back[n - 1]
                 ELSE Append(back[n - 1], p)
  IN  back[Cardinality(DOMAIN predecessors)]

shortest_path(graph, from, to) ==
  LET src == Resolved(graph, from)
      dst == Resolved(graph, to)
      predecessors == Search(graph, src, dst)
  IN  IF src = 0 \/ dst = 0 THEN NoPath
      ELSE IF src = dst THEN <<src>>
      ELSE IF dst \notin DOMAIN predecessors THEN NoPath
      ELSE Reverse(WayBack(predecessors, dst))
-----------------------------------------------------------------------------
(***************************************************************************)
(* budget.rs: the header and the seed always, then candidates in order up  *)
(* to the first that does not fit.                                         *)
(***************************************************************************)
Spent(ids) == FoldFunction(+, 0, [i \in DOMAIN ids |-> Cost(ids[i])])

(* pack: how many of the items, seed first, are kept.                      *)
Packed(items, max_tokens) ==
  LET fits(n) == HEADER_COST + Spent(SubSeq(items, 1, n)) <= max_tokens
  IN  CHOOSE n \in 1..Len(items) :
        /\ \A m \in 2..n : fits(m)
        /\ n < Len(items) => ~fits(n + 1)
-----------------------------------------------------------------------------
(***************************************************************************)
(* explain.rs and resources.rs.                                            *)
(***************************************************************************)
Outbound(graph, id) ==
  Sorted({e \in ToSet(graph.edges) : e.source = id}, EdgeBefore)
Inbound(graph, id) ==
  Sorted({e \in ToSet(graph.edges) : e.target = id}, EdgeBefore)

(* render_outbound, render_inbound: those listed, and how many more.       *)
Capped(edges) ==
  LET listed == FirstOf(edges, MAX_EDGES_PER_NODE)
  IN  <<listed, Len(edges) - Len(listed)>>

Memberships(graph, id) ==
  Ascending({c.id : c \in {d \in ToSet(graph.communities) :
                             id \in ToSet(d.members)}})

(* summarise_node.                                                         *)
Summary(graph, id) ==
  <<id, Capped(Outbound(graph, id)), Capped(Inbound(graph, id)),
    Memberships(graph, id)>>

explain(graph, concept) ==
  LET matches == find_by_label(graph, concept)
      shown == FirstOf(matches, MAX_CONCEPTS)
  IN  <<Len(matches), [i \in DOMAIN shown |-> Summary(graph, shown[i])],
        Len(matches) - Len(shown)>>

(* render_report: the counts, a sample, and how many more.                 *)
Counts(graph) ==
  <<Len(graph.nodes), Len(graph.edges), Len(graph.communities)>>

Report(graph) ==
  LET sample == FirstOf(Ascending(Ids(graph)), REPORT_SAMPLE_SIZE)
  IN  <<Counts(graph), sample, Len(graph.nodes) - Len(sample)>>

(* render_node.                                                            *)
Detail(graph, id) == <<id, Outbound(graph, id), Inbound(graph, id)>>
NodeResource(graph, label) ==
  LET matches == find_by_label(graph, label)
  IN  IF label = <<>> THEN <<>>
      ELSE [i \in DOMAIN matches |-> Detail(graph, matches[i])]

(* render_community: the members, or nothing for one that does not exist.  *)
CommunityResource(graph, id) ==
  UNION {{Ascending(ToSet(c.members))} :
           c \in {d \in ToSet(graph.communities) : d.id = id}}
-----------------------------------------------------------------------------
(***************************************************************************)
(* mcp.rs.  A reply is <<id, kind, content>>; a notification has none.     *)
(***************************************************************************)
NoReply == <<>>
Error(id, code) == <<id, "error", code>>
Text(id, kind, content) == <<id, kind, content>>

(* A parameter that is there and of its type.                              *)
Has(r, parameter) == parameter \in DOMAIN r

(* tool_query.                                                             *)
ToolQuery(graph, r) ==
  LET matches == find_by_label(graph, r.query)
      lines == FirstOf(matches, MAX_QUERY_RESULTS)
      kept == IF ~Has(r, "max_tokens") THEN Len(lines)
              ELSE Packed(lines, r.max_tokens)
      over == IF ~Has(r, "max_tokens") THEN Len(matches) ELSE Len(lines)
  IN  IF ~Has(r, "query") \/ Len(r.query) > MAX_QUERY_LEN
      THEN Error(r.id, "INVALID_PARAMS")
      ELSE IF matches = <<>> THEN Text(r.id, "query", <<0, <<>>, 0>>)
      ELSE Text(r.id, "query",
                <<Len(matches), SubSeq(lines, 1, kept), over - kept>>)

(* tool_path.                                                              *)
ToolPath(graph, r) ==
  IF ~Has(r, "from") \/ ~Has(r, "to") THEN Error(r.id, "INVALID_PARAMS")
  ELSE Text(r.id, "path", shortest_path(graph, r.from, r.to))

(* tool_explain.                                                           *)
ToolExplain(graph, r) ==
  IF ~Has(r, "concept") \/ Len(r.concept) > MAX_QUERY_LEN
  THEN Error(r.id, "INVALID_PARAMS")
  ELSE Text(r.id, "explain", explain(graph, r.concept))

tools_call(graph, r) ==
  CASE r.name = "graph_query" -> ToolQuery(graph, r)
    [] r.name = "graph_path" -> ToolPath(graph, r)
    [] r.name = "graph_health" -> Text(r.id, "health", Counts(graph))
    [] r.name = "graph_explain" -> ToolExplain(graph, r)
    [] OTHER -> Error(r.id, "INVALID_PARAMS")

(* resources_read, and resources_read_response around it.                  *)
resources_read(graph, r) ==
  CASE r.uri = "schema" -> Text(r.id, "schema", <<>>)
    [] r.uri = "report" -> Text(r.id, "report", Report(graph))
    [] r.uri = "node" /\ NodeResource(graph, r.label) # <<>> ->
         Text(r.id, "node", NodeResource(graph, r.label))
    [] r.uri = "community" /\ CommunityResource(graph, r.community) # {} ->
         Text(r.id, "community", CommunityResource(graph, r.community))
    [] OTHER -> Error(r.id, "INVALID_PARAMS")

(* generation_id: of the sorted nodes, edges and communities.              *)
generation_id(graph) ==
  <<ToSet(graph.nodes), ToSet(graph.edges),
    {<<c.id, ToSet(c.members)>> : c \in ToSet(graph.communities)}>>

(* handle_jsonrpc.                                                         *)
handle_jsonrpc(graph, line) ==
  LET r == Parse(line)
  IN  CASE r.form = "malformed" -> Error("null", "PARSE_ERROR")
        [] r.form = "notification" -> NoReply
        [] OTHER ->
             CASE r.method = "initialize" ->
                    Text(r.id, "initialize", generation_id(graph))
               [] r.method = "tools/list" -> Text(r.id, "tools", <<>>)
               [] r.method = "tools/call" -> tools_call(graph, r)
               [] r.method = "resources/list" -> Text(r.id, "resources", Counts(graph))
               [] r.method = "resources/read" -> resources_read(graph, r)
               [] OTHER -> Error(r.id, "METHOD_NOT_FOUND")
=============================================================================
