------------------------------- MODULE MCCache -------------------------------
(***************************************************************************)
(* An instance of Cache for TLC: four keys, two of them with one result.   *)
(***************************************************************************)
EXTENDS Cache, TLC

FourKeys == {"k1", "k2", "k3", "k4"}
Results == {"v", "w", "x"}
ResultOf == "k1" :> "v" @@ "k2" :> "w" @@ "k3" :> "x" @@ "k4" :> "x"
=============================================================================
