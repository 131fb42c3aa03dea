------------------------------- MODULE MCWatch -------------------------------
(***************************************************************************)
(* An instance of Watch for TLC: two files that call each other.           *)
(***************************************************************************)
EXTENDS Watch, TLC

TwoFiles == {1, 2}
Names == {"f", "g"}
Calls(x, y) == [src |-> x, tgt |-> y]

AllTexts == {"a", "b", "bad"}
TextsOf == 1 :> {"a"} @@ 2 :> {"b", "bad"}
NotText == {"bad"}

Declares == "a" :> {"f"} @@ "b" :> {"g"} @@ "bad" :> {}
Relates ==
  "a" :> {Calls("f", "f"), Calls("f", "g")} @@ "b" :> {Calls("g", "f")} @@ "bad" :> {}

\* The pair <f, f> is of a relation that makes no arc.
ArcsOnly == {Calls("f", "g"), Calls("g", "f")}
=============================================================================
