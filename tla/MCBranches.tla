----------------------------- MODULE MCBranches -----------------------------
(***************************************************************************)
(* An instance of Branches for TLC: two files that call each other, and    *)
(* two that may declare the same label.                                    *)
(***************************************************************************)
EXTENDS Branches, TLC

TwoFiles == {1, 2}
Names == {"f", "g", "h"}
Calls(x, y) == [src |-> x, tgt |-> y]

AllTexts == {"a1", "a2", "a3", "b1"}
TextsOf == 1 :> {"a1", "a2", "a3"} @@ 2 :> {"b1"}

DeclOf ==
  "a1" :> {"f", "g"} @@ "a2" :> {"g"} @@ "a3" :> {"f", "g"} @@
  "b1" :> {"h"}
RefOf ==
  "a1" :> {Calls("f", "g"), Calls("f", "h")} @@ "a2" :> {Calls("g", "h")} @@
  "a3" :> {Calls("g", "h")} @@
  "b1" :> {Calls("h", "f"), Calls("h", "h")}

(* g is a label that both files may declare and relate to, f one that file *)
(* 1 alone declares, or not.                                               *)
DeclShared ==
  "a1" :> {"f", "g"} @@ "a2" :> {"g"} @@ "a3" :> {"f"} @@
  "b1" :> {"g", "h"}
RefShared ==
  "a1" :> {Calls("f", "f"), Calls("f", "g"), Calls("g", "h")} @@
  "a2" :> {Calls("g", "g")} @@ "a3" :> {Calls("f", "h")} @@
  "b1" :> {Calls("h", "f"), Calls("h", "h"), Calls("g", "h")}

(* The Leiden algorithm puts the connected parts of a graph of at most     *)
(* three nodes in communities of their own.  They are numbered by least id *)
Rank == "f" :> 0 @@ "g" :> 1 @@ "h" :> 2
Joined(g, l, m) ==
  l = m \/ \E e \in g.edges : {e.src, e.tgt} = {l, m}
Connected(g, l, m) ==
  \E k \in Labels(g) : Joined(g, l, k) /\ Joined(g, k, m)
Components(g) ==
  LET First(l) == \A m \in Labels(g) : Connected(g, l, m) => Rank[l] <= Rank[m]
      Of(l) == CHOOSE m \in Labels(g) : First(m) /\ Connected(g, l, m)
  IN [l \in Label |->
        IF l \notin Labels(g) THEN None
        ELSE Cardinality({m \in Labels(g) : First(m) /\ Rank[m] < Rank[Of(l)]})]
=============================================================================
