----------------------------- MODULE WatchProofs -----------------------------
(***************************************************************************)
(* Theorems about the watch command, for any files, texts and bounds: its  *)
(* states are typed, and the two services it reports to are wrong only     *)
(* about arcs whose last report they missed.                               *)
(***************************************************************************)
EXTENDS Watch, GraphBuildProofs

LEMMA NothingReadType == NothingRead \in Build
BY DEF NothingRead, Build

LEMMA RaisedType ==
  ASSUME NEW n \in 0..MaxPending
  PROVE  Raised(n) \in 0..MaxPending
BY WatchAssumption DEF Raised

LEMMA ArcsType ==
  ASSUME NEW g \in Graph \cup Unparsable
  PROVE  ArcsRead(g) \in SUBSET LabelPair
BY DEF ArcsRead, Arcs, Graph

LEMMA FilledType ==
  ASSUME TypeOK, NEW g \in Graph \cup {None}, FilledWith(g)
  PROVE  graph' \in Graph \cup Unparsable
BY DEF FilledWith, Unparsable

LEMMA BaselineType ==
  ASSUME TypeOK, NEW a \in SUBSET LabelPair, Baseline(a)
  PROVE  /\ prev' \in SUBSET LabelPair
         /\ nextArcs' \in SUBSET LabelPair
         /\ mirror' \in [Service -> SUBSET LabelPair]
         /\ missed' \in [Service -> SUBSET LabelPair]
BY DEF TypeOK, Baseline, SymDiff

LEMMA PushedType ==
  ASSUME TypeOK, NEW s \in Service, Pushed(s)
  PROVE  /\ mirror' \in [Service -> SUBSET LabelPair]
         /\ missed' \in [Service -> SUBSET LabelPair]
BY DEF TypeOK, Pushed, Severed, Healed, SymDiff

LEMMA TypeInit == Init => TypeOK
<1>. SUFFICES ASSUME Init PROVE TypeOK
  OBVIOUS
<1>1. /\ edits \in 0..MaxEdits /\ faults \in 0..MaxFaults /\ crashes \in 0..MaxCrashes
      /\ pending \in 0..MaxPending
  BY WatchAssumption DEF Init
<1>2. mirror \in [Service -> SUBSET LabelPair] /\ missed \in [Service -> SUBSET LabelPair]
  BY DEF Init
<1>3. disk \in Build /\ graph \in Unparsable
  BY DEF Init, Unparsable
<1>. QED
  BY <1>1, <1>2, <1>3, NothingReadType DEF Init, TypeOK

LEMMA TypeStep == TypeOK /\ [Next]_vars => TypeOK'
<1>. SUFFICES ASSUME TypeOK, [Next]_vars
              PROVE  TypeOK'
  OBVIOUS
<1>. USE DEF env, extr, build, arcs
<1>1. ASSUME NEW p \in Path, Edit(p)
      PROVE  TypeOK'
  <2>1. disk' \in Build
    BY <1>1, WatchAssumption DEF Edit, TypeOK, Build
  <2>2. edits' \in 0..MaxEdits
    BY <1>1, WatchAssumption DEF Edit, TypeOK
  <2>3. pending' \in 0..MaxPending
    BY <1>1, RaisedType DEF Edit, Raise, TypeOK
  <2>. QED  BY <1>1, <2>1, <2>2, <2>3 DEF Edit, TypeOK
<1>2. CASE OtherReads
  BY <1>2, AssembleFacts DEF OtherReads, TypeOK
<1>3. CASE OtherOpens
  BY <1>3, RaisedType DEF OtherOpens, RaiseIfInside, TypeOK, Unparsable
<1>4. CASE OtherFills
  <2>1. graph' \in Graph \cup Unparsable
    BY <1>4, FilledType DEF OtherFills, TypeOK
  <2>. QED  BY <1>4, <2>1, RaisedType DEF OtherFills, RaiseIfInside, TypeOK
<1>5. CASE Start
  <2>1. {} \in SUBSET LabelPair /\ 0 \in 0..MaxPending
    BY WatchAssumption
  <2>. QED  BY <1>5, <2>1, BaselineType DEF Start, TypeOK
<1>6. CASE Detect
  BY <1>6 DEF Detect, Present, TypeOK
<1>7. ASSUME NEW p \in Path, ReadFile(p)
      PROVE  TypeOK'
  <2>1. fresh' \in Build
    BY <1>7 DEF ReadFile, TypeOK, Build
  <2>. QED  BY <1>7, <2>1 DEF ReadFile, TypeOK
<1>8. ASSUME NEW p \in Path, ReadFails(p)
      PROVE  TypeOK'
  BY <1>8, NothingReadType DEF ReadFails, BackToLoop, Forget, TypeOK
<1>9. CASE OpenGraph
  BY <1>9, RaisedType DEF OpenGraph, RaiseIfInside, TypeOK, Unparsable
<1>10. CASE FillGraph
  <2>1. graph' \in Graph \cup Unparsable
    BY <1>10, FilledType, AssembleFacts DEF FillGraph, TypeOK
  <2>. QED
    BY <1>10, <2>1, RaisedType, NothingReadType DEF FillGraph, Forget, RaiseIfInside, TypeOK
<1>11. CASE WriteFails
  <2>1. faults' \in 0..MaxFaults
    BY <1>11, WatchAssumption DEF WriteFails, TypeOK
  <2>. QED  BY <1>11, <2>1, NothingReadType DEF WriteFails, BackToLoop, Forget, TypeOK
<1>12. CASE FirstArcs
  <2>1. ArcsRead(graph) \in SUBSET LabelPair
    BY ArcsType DEF TypeOK
  <2>. QED  BY <1>12, <2>1, BaselineType DEF FirstArcs, BackToLoop, TypeOK
<1>13. CASE ReadArcs
  BY <1>13, ArcsType DEF ReadArcs, TypeOK, Service
<1>14. CASE PushPv2
  BY <1>14, PushedType DEF PushPv2, TypeOK, Service
<1>15. CASE PushPovm
  BY <1>15, PushedType DEF PushPovm, TypeOK, Service
<1>16. CASE Loop
  BY <1>16, WatchAssumption DEF Loop, Receive, Drain, Deadline, TypeOK
<1>17. CASE Crash
  <2>1. crashes' \in 0..MaxCrashes /\ pending' \in 0..MaxPending
    BY <1>17, WatchAssumption DEF Crash, TypeOK
  <2>. QED  BY <1>17, <2>1, NothingReadType DEF Crash, Forget, TypeOK
<1>18. CASE UNCHANGED vars
  BY <1>18 DEF vars, TypeOK
<1>. QED
  BY <1>1, <1>2, <1>3, <1>4, <1>5, <1>6, <1>7, <1>8, <1>9, <1>10, <1>11, <1>12,
     <1>13, <1>14, <1>15, <1>16, <1>17, <1>18
  DEF Next, Step, Rebuild, Report, Other

(* Every state of the watch, of the file it writes and of what the         *)
(* services know is typed.                                                 *)
THEOREM TypeCorrect == Spec => []TypeOK
BY TypeInit, TypeStep, PTL DEF Spec

(***************************************************************************)
(* What the services know.                                                 *)
(***************************************************************************)
Off(s, a) == SymDiff(mirror[s], a)

(* A push, delivered or lost, takes service s from prev to nextArcs.       *)
LEMMA PushMoves ==
  ASSUME TypeOK, NEW s \in Service, Pushed(s), Off(s, prev) \subseteq missed[s]
  PROVE  /\ SymDiff(mirror'[s], nextArcs) \subseteq missed'[s]
         /\ \A t \in Service \ {s} : mirror'[t] = mirror[t] /\ missed'[t] = missed[t]
<1>1. mirror \in [Service -> SUBSET LabelPair] /\ missed \in [Service -> SUBSET LabelPair]
  BY DEF TypeOK
<1>2. \A t \in Service \ {s} : mirror'[t] = mirror[t] /\ missed'[t] = missed[t]
  BY <1>1 DEF Pushed
<1>3. ASSUME NEW e \in SymDiff(mirror'[s], nextArcs),
             /\ mirror'[s] = (mirror[s] \ Severed(prev, nextArcs)) \cup Healed(prev, nextArcs)
             /\ missed'[s] = missed[s] \ SymDiff(prev, nextArcs)
      PROVE  e \in missed'[s]
  <2>1. e \notin SymDiff(prev, nextArcs)
    BY <1>3 DEF SymDiff, Severed, Healed
  <2>2. e \in SymDiff(mirror[s], prev)
    BY <1>3, <2>1 DEF SymDiff, Severed, Healed
  <2>. QED  BY <1>3, <2>1, <2>2 DEF Off
<1>4. ASSUME NEW e \in SymDiff(mirror'[s], nextArcs),
             mirror'[s] = mirror[s], missed'[s] = missed[s] \cup SymDiff(prev, nextArcs)
      PROVE  e \in missed'[s]
  <2>1. e \in SymDiff(mirror[s], prev) \/ e \in SymDiff(prev, nextArcs)
    BY <1>4 DEF SymDiff
  <2>. QED  BY <1>4, <2>1 DEF Off
<1>5. \/ /\ mirror'[s] = (mirror[s] \ Severed(prev, nextArcs)) \cup Healed(prev, nextArcs)
         /\ missed'[s] = missed[s] \ SymDiff(prev, nextArcs)
      \/ mirror'[s] = mirror[s] /\ missed'[s] = missed[s] \cup SymDiff(prev, nextArcs)
  BY <1>1 DEF Pushed
<1>. QED
  BY <1>2, <1>3, <1>4, <1>5

LEMMA BaselineKnows ==
  ASSUME NEW a, Baseline(a)
  PROVE  \A s \in Service : SymDiff(mirror'[s], prev') \subseteq missed'[s]
BY DEF Baseline

LEMMA KnowsInit == Init => MirrorsKnowTheRest
BY DEF Init, MirrorsKnowTheRest, Told, SymDiff

LEMMA KnowsStep ==
  TypeOK /\ MirrorsKnowTheRest /\ [Next]_vars => MirrorsKnowTheRest'
<1>. SUFFICES ASSUME TypeOK, MirrorsKnowTheRest, [Next]_vars
              PROVE  MirrorsKnowTheRest'
  OBVIOUS
<1>. USE DEF env, extr, build, arcs
<1>1. CASE Start
  BY <1>1, BaselineKnows DEF Start, MirrorsKnowTheRest, Told
<1>2. CASE FirstArcs
  BY <1>2, BaselineKnows DEF FirstArcs, BackToLoop, MirrorsKnowTheRest, Told
<1>3. CASE PushPv2
  <2>1. "pv2" \in Service /\ \A t \in Service \ {"pv2"} : t = "povm"
    BY DEF Service
  <2>2. pc = "pv2" /\ pc' = "povm" /\ UNCHANGED <<prev, nextArcs>> /\ Pushed("pv2")
    BY <1>3 DEF PushPv2
  <2>3. \A s \in Service : Off(s, prev) \subseteq missed[s]
    BY <2>2 DEF MirrorsKnowTheRest, Told, Off
  <2>4. /\ SymDiff(mirror'["pv2"], nextArcs) \subseteq missed'["pv2"]
        /\ \A t \in Service \ {"pv2"} : mirror'[t] = mirror[t] /\ missed'[t] = missed[t]
    BY <2>1, <2>2, <2>3, PushMoves
  <2>. QED  BY <2>1, <2>2, <2>3, <2>4 DEF MirrorsKnowTheRest, Told, Off
<1>4. CASE PushPovm
  <2>1. "povm" \in Service /\ \A t \in Service \ {"povm"} : t = "pv2"
    BY DEF Service
  <2>2. pc = "povm" /\ pc' = "wait" /\ prev' = nextArcs /\ Pushed("povm")
    BY <1>4 DEF PushPovm
  <2>3. /\ Off("povm", prev) \subseteq missed["povm"]
        /\ Off("pv2", nextArcs) \subseteq missed["pv2"]
    BY <2>2 DEF MirrorsKnowTheRest, Told, Off, Service
  <2>4. /\ SymDiff(mirror'["povm"], nextArcs) \subseteq missed'["povm"]
        /\ \A t \in Service \ {"povm"} : mirror'[t] = mirror[t] /\ missed'[t] = missed[t]
    BY <2>1, <2>2, <2>3, PushMoves
  <2>5. \A s \in Service : SymDiff(mirror'[s], nextArcs) \subseteq missed'[s]
    BY <2>1, <2>3, <2>4 DEF Off, Service
  <2>. QED  BY <2>2, <2>5 DEF MirrorsKnowTheRest, Told
<1>5. CASE Crash
  BY <1>5 DEF Crash, MirrorsKnowTheRest, Told, SymDiff, TypeOK
<1>6. CASE ReadArcs
  BY <1>6 DEF ReadArcs, MirrorsKnowTheRest, Told
<1>7. ASSUME UNCHANGED arcs, pc' = pc \/ (pc # "povm" /\ pc' # "povm")
      PROVE  MirrorsKnowTheRest'
  BY <1>7 DEF MirrorsKnowTheRest, Told
<1>8. CASE Loop \/ Detect \/ OpenGraph \/ FillGraph \/ WriteFails
  BY <1>7, <1>8 DEF Loop, Receive, Drain, Deadline, Detect, OpenGraph, FillGraph,
                    WriteFails, BackToLoop
<1>9. ASSUME NEW p \in Path, ReadFile(p) \/ ReadFails(p) \/ Edit(p)
      PROVE  MirrorsKnowTheRest'
  BY <1>7, <1>9 DEF ReadFile, ReadFails, BackToLoop, Edit
<1>10. CASE Other
  BY <1>7, <1>10 DEF Other, OtherReads, OtherOpens, OtherFills
<1>11. CASE UNCHANGED vars
  BY <1>7, <1>11 DEF vars
<1>. QED
  BY <1>1, <1>2, <1>3, <1>4, <1>5, <1>6, <1>8, <1>9, <1>10, <1>11
  DEF Next, Step, Rebuild, Report

(* A push that is lost and never sent again harms only the arcs it named:  *)
(* of every other arc a service's view is the one the watch reported last. *)
THEOREM LostPushesHarmLittle == Spec => []MirrorsKnowTheRest
BY TypeCorrect, KnowsInit, KnowsStep, PTL DEF Spec
=============================================================================
