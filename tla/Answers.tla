------------------------------- MODULE Answers -------------------------------
(***************************************************************************)
(* What the answers promise, said of the graph that was built and not of   *)
(* the file, the index or the search they are computed with.               *)
(***************************************************************************)
EXTENDS Queries

(* The nodes whose label contains the needle, case aside.                  *)
Matches(graph, needle) ==
  {id \in Ids(graph) : HasSubSeq(Lower(Node(graph, id).label), Lower(needle))}

(* s lists the smallest of S in order and nothing else.                    *)
Smallest(s, S) ==
  /\ ToSet(s) \subseteq S
  /\ \A i \in 1..(Len(s) - 1) : s[i] < s[i + 1]
  /\ \A x \in S \ ToSet(s), i \in DOMAIN s : s[i] < x

Lesser(m, n) == IF m < n THEN m ELSE n

(* A query shows the first matches and counts the others.  Its cap is      *)
(* MAX_QUERY_RESULTS, or the budget, which never costs the first match and *)
(* leaves out nothing that would fit; with a budget, what is beyond the    *)
(* cap is in the total alone.                                              *)
RightQuery(graph, r, total, shown, more) ==
  LET matching == Matches(graph, r.query)
      n == Len(shown)
      cost == HEADER_COST + Spent(shown)
      capped == Lesser(total, MAX_QUERY_RESULTS)
      next(id) == Smallest(Append(shown, id), matching)
  IN  /\ total = Cardinality(matching)
      /\ Smallest(shown, matching)
      /\ total > 0 => n > 0
      /\ ~Has(r, "max_tokens") => n = capped /\ n + more = total
      /\ Has(r, "max_tokens") =>
           /\ n + more = capped
           /\ n > 1 => cost <= r.max_tokens
           /\ n < capped =>
                \E id \in matching : next(id) /\ cost + Cost(id) > r.max_tokens

Joined(graph, u, v) ==
  \E e \in ToSet(graph.edges) : {u, v} = {e.source, e.target}

Walks(graph, n, src, dst) ==
  {w \in [1..n -> Ids(graph)] :
     /\ w[1] = src /\ w[n] = dst
     /\ \A i \in 1..(n - 1) : Joined(graph, w[i], w[i + 1])}

Precedes(v, w) ==
  \E i \in DOMAIN v : v[i] < w[i] /\ \A j \in 1..(i - 1) : v[j] = w[j]

(* A path is a shortest one between nodes of these labels, of the shortest *)
(* the first in the order of the ids; without a path there is no walk.     *)
RightPath(graph, r, path) ==
  LET named(label) == {id \in Ids(graph) : Node(graph, id).label = label}
      walks(n) == UNION {Walks(graph, n, u, v) :
                           u \in named(r.from), v \in named(r.to)}
  IN  IF path = NoPath
      THEN \A n \in 1..Cardinality(Ids(graph)) : walks(n) = {}
      ELSE LET n == Len(path)
               ends == Walks(graph, n, path[1], path[n])
           IN  /\ path \in walks(n)
               /\ \A m \in 1..(n - 1) : Walks(graph, m, path[1], path[n]) = {}
               /\ \A w \in ends \ {path} : Precedes(path, w)

(* Edges are listed in order, each listed or counted.                      *)
Accounted(capped, all) ==
  /\ ToSet(capped[1]) \subseteq all
  /\ Len(capped[1]) + capped[2] = Cardinality(all)
  /\ \A e \in all \ ToSet(capped[1]), f \in ToSet(capped[1]) : EdgeBefore(f, e)

(* An explanation covers every match and every edge of each it shows.      *)
RightSummary(graph, s) ==
  /\ Accounted(s[2], {e \in ToSet(graph.edges) : e.source = s[1]})
  /\ Accounted(s[3], {e \in ToSet(graph.edges) : e.target = s[1]})
  /\ ToSet(s[4]) = {c.id : c \in {d \in ToSet(graph.communities) :
                                    s[1] \in ToSet(d.members)}}

RightExplanation(graph, r, total, shown, more) ==
  /\ total = Cardinality(Matches(graph, r.concept))
  /\ Smallest([i \in DOMAIN shown |-> shown[i][1]], Matches(graph, r.concept))
  /\ Len(shown) + more = total
  /\ \A i \in DOMAIN shown : RightSummary(graph, shown[i])

RightContent(graph, r, kind, c) ==
  CASE kind = "query" -> RightQuery(graph, r, c[1], c[2], c[3])
    [] kind = "path" -> RightPath(graph, r, c)
    [] kind = "explain" -> RightExplanation(graph, r, c[1], c[2], c[3])
    [] kind \in {"health", "resources"} -> c = Counts(graph)
    [] kind = "report" ->
         c[1] = Counts(graph) /\ Smallest(c[2], Ids(graph))
           /\ Len(c[2]) + c[3] = Len(graph.nodes)
    [] kind = "node" ->
         Smallest([i \in DOMAIN c |-> c[i][1]], Matches(graph, r.label))
           /\ \A i \in DOMAIN c :
                ToSet(c[i][2]) \cup ToSet(c[i][3]) =
                  {e \in ToSet(graph.edges) : c[i][1] \in {e.source, e.target}}
    [] kind = "community" ->
         \A members \in c : \E d \in ToSet(graph.communities) :
           d.id = r.community /\ ToSet(members) = ToSet(d.members)
    [] kind = "initialize" -> c = generation_id(graph)
    [] OTHER -> TRUE

(* Something is missing or nothing is there: an error is the right answer. *)
Refusable(graph, r) ==
  \/ r.method \notin {"initialize", "tools/list", "tools/call",
                      "resources/list", "resources/read"}
  \/ r.method = "tools/call" /\
       \/ r.name \notin {"graph_query", "graph_path", "graph_health",
                         "graph_explain"}
       \/ r.name = "graph_query" /\
            (~Has(r, "query") \/ Len(r.query) > MAX_QUERY_LEN)
       \/ r.name = "graph_path" /\ (~Has(r, "from") \/ ~Has(r, "to"))
       \/ r.name = "graph_explain" /\
            (~Has(r, "concept") \/ Len(r.concept) > MAX_QUERY_LEN)
  \/ r.method = "resources/read" /\
       \/ r.uri \notin {"schema", "report", "node", "community"}
       \/ r.uri = "node" /\ (r.label = <<>> \/ Matches(graph, r.label) = {})
       \/ r.uri = "community" /\
            \A d \in ToSet(graph.communities) : d.id # r.community

(* reply is a right answer to the line over the graph.                     *)
Right(graph, line, reply) ==
  \E r \in {Parse(line)} :
    CASE r.form = "malformed" -> reply = Error("null", "PARSE_ERROR")
      [] r.form = "notification" -> reply = NoReply
      [] OTHER ->
           /\ reply # NoReply
           /\ reply[1] = r.id
           /\ IF Refusable(graph, r) THEN reply[2] = "error"
              ELSE /\ reply[2] # "error"
                   /\ RightContent(graph, r, reply[2], reply[3])
=============================================================================
