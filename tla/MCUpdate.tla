------------------------------ MODULE MCUpdate ------------------------------
(***************************************************************************)
(* Instances of Update for TLC: two source files and three families of     *)
(* texts for them.                                                         *)
(***************************************************************************)
EXTENDS Update, TLC

TwoFiles == {1, 2}
Names == {"f", "g", "h"}
Calls(x, y) == [src |-> x, tgt |-> y]

AllTexts == {"a1", "a2", "a3", "b1", "b2"}
FewTexts == 1 :> {"a1", "a2"} @@ 2 :> {"b1"}
TextsOf == 1 :> {"a1", "a2", "a3"} @@ 2 :> {"b1", "b2"}

(* No two files declare the same label and no file refers to another.      *)
DeclSeparate ==
  "a1" :> {"f", "g"} @@ "a2" :> {"g"} @@ "a3" :> {"f", "g"} @@
  "b1" :> {"h"} @@ "b2" :> {}
RefSeparate ==
  "a1" :> {Calls("f", "g")} @@ "a2" :> {Calls("g", "g")} @@ "a3" :> {} @@
  "b1" :> {Calls("h", "h")} @@ "b2" :> {}

(* A label that both files may declare, beside edges among the labels of   *)
(* one file.                                                               *)
DeclShared ==
  "a1" :> {"f", "g"} @@ "a2" :> {"g"} @@ "a3" :> {"f"} @@
  "b1" :> {"f", "h"} @@ "b2" :> {"h"}
RefShared ==
  "a1" :> {Calls("f", "g")} @@ "a2" :> {Calls("g", "g"), Calls("g", "h")} @@
  "a3" :> {Calls("f", "h")} @@
  "b1" :> {Calls("f", "h"), Calls("h", "g"), Calls("h", "h")} @@ "b2" :> {}

(* File 1 renames f to g; file 2 calls both and has an f of its own.       *)
DeclRenamed ==
  "a1" :> {"f"} @@ "a2" :> {"g"} @@ "a3" :> {} @@
  "b1" :> {"f", "h"} @@ "b2" :> {}
RefRenamed ==
  "a1" :> {} @@ "a2" :> {} @@ "a3" :> {} @@
  "b1" :> {Calls("h", "f"), Calls("h", "g")} @@ "b2" :> {}

\* Sound for invariants: no action tells two update processes apart.
ProcSymmetry == Permutations(Proc)
=============================================================================
