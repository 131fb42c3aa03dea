-------------------------------- MODULE MCUds --------------------------------
(***************************************************************************)
(* An instance of Uds for TLC.  One client asks one of every kind of       *)
(* request; the other sends lines that are blank, too long, cut short or   *)
(* notifications.  A request is one byte.                                  *)
(***************************************************************************)
EXTENDS Uds, TLC

Letters == {"a", "b", "A", "x"}
ToLower == [ch \in Letters |-> IF ch = "A" THEN "a" ELSE ch]
CostOf(id) == 1 + (id % 2)

N(id, label) == [id |-> id, label |-> label, file |-> "f"]
E(s, t, r) == [source |-> s, target |-> t, relation |-> r]
C(id, members) == [id |-> id, members |-> members]

One == <<"b", "a", "a", "b", "a">>      \* has aba and baa, not abaa
Two == <<"x", "A", "b", "A", "a">>      \* has abaa
Three == <<"a", "b">>
Four == <<"a">>
Five == <<"b", "x">>

FiveNodes == <<N(2, Two), N(5, Five), N(1, One), N(4, Four), N(3, Three)>>

(* A short way from 1 to 5 and a longer one whose nodes come first; two    *)
(* communities.                                                            *)
Ring ==
  [nodes |-> FiveNodes,
   edges |-> <<E(2, 1, 1), E(2, 3, 2), E(5, 3, 1), E(1, 4, 1), E(4, 5, 2)>>,
   communities |-> <<C(0, <<1, 4>>), C(1, <<5, 2, 3>>)>>]

(* Two shortest ways from 1 to 4, three edges out of 2, and 5 apart.       *)
Diamond ==
  [nodes |-> [FiveNodes EXCEPT ![5].label = <<"x">>],
   edges |-> <<E(3, 4, 1), E(2, 4, 2), E(2, 4, 1), E(1, 3, 1), E(2, 1, 1)>>,
   communities |-> <<C(3, <<2>>)>>]

Graphs == "ring" :> Ring @@ "diamond" :> Diamond

Q(s) == [form |-> "request", id |-> "i", method |-> "tools/call",
         name |-> "graph_query", query |-> s]
B(s, n) == [form |-> "request", id |-> "i", method |-> "tools/call",
            name |-> "graph_query", query |-> s, max_tokens |-> n]
P(s, t) == [form |-> "request", id |-> "i", method |-> "tools/call",
            name |-> "graph_path", from |-> s, to |-> t]
X(s) == [form |-> "request", id |-> "i", method |-> "tools/call",
         name |-> "graph_explain", concept |-> s]
R(u) == [form |-> "request", id |-> "i", method |-> "resources/read", uri |-> u,
         label |-> <<"A">>, community |-> 1]
M(m) == [form |-> "request", id |-> "i", method |-> m, name |-> "graph_health"]

Asked ==
  "1" :> Q(<<"a", "b", "a", "a">>) @@ "2" :> Q(<<"A">>)
    @@ "3" :> B(<<>>, 5) @@ "4" :> B(<<"A">>, 9)
    @@ "5" :> Q(<<"a", "a", "a", "a", "a">>)
    @@ "6" :> P(One, Five) @@ "7" :> P(One, Four) @@ "8" :> P(Four, <<"x">>)
    @@ "9" :> X(<<"A">>) @@ "10" :> R("report") @@ "11" :> R("node")
    @@ "12" :> R("community") @@ "13" :> M("initialize") @@ "14" :> M("none")
    @@ "h" :> M("tools/call") @@ "n" :> [form |-> "notification"]

Says(line) ==
  IF Len(line) = 1 /\ line[1] \in DOMAIN Asked THEN Asked[line[1]]
  ELSE [form |-> "malformed"]

Clients == {"asks", "types"}
Sent ==
  [c \in Clients |->
     IF c = "asks" THEN {<<b, "NL">> : b \in DOMAIN Asked \ {"h", "n"}}
     ELSE {<<"x", "x", "x", "NL", "h">>, <<"n", "NL", "SP", "CR", "NL">>}]
SentOften == [c \in Clients |-> 1]
(* Each client sends once: what is read is a part of one message.          *)
Parts ==
  UNION {{WithoutCR(SubSeq(m, i, j)) : i \in 1..Len(m), j \in 0..Len(m)} :
           m \in UNION {Sent[c] : c \in Clients}}
Looked == {<<>>, <<"A", "b">>, <<"a", "b", "A", "a">>}

(* What the theorem about the daemon takes from the queries.               *)
ASSUME InstanceQueriesRight == QueriesRight
=============================================================================
