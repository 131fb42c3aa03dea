--------------------------- MODULE RegisterProofs ---------------------------
(***************************************************************************)
(* Theorems about the commands that write into other people's files, for   *)
(* any number of processes, runs, kills and edits: a user's line in a file *)
(* that no command is creating stays, a single installer keeps the configuration whole, nothing is added      *)
(* twice, and an ok is true.                                               *)
(***************************************************************************)
EXTENDS Register, FiniteSetTheorems, SequenceTheorems, TLAPS

Sorts ==
  /\ command \in [Proc -> Commands]
  /\ pc \in [Proc -> PCs]
  /\ target \in [Proc -> All \cup {NoFile}]
  /\ text \in [Proc -> Seq(Line)]
  /\ fd \in [Proc -> All \cup {NoFile}]
  /\ result \in [Proc -> {"none", "ok", "error"}]
  /\ disk \in [All -> Seq(Line) \cup {Absent}]
  /\ \A f \in Files : disk[f] \in Seq(Line)

(* The file a command writes as a whole.                                   *)
WholeFile(c) ==
  CASE c = "hook" -> "hook"
    [] c = "install" -> "mcp.bak"
    [] c = "install-mcp" -> "mcp.json"
    [] c = "attributes" -> "attributes"
    [] OTHER -> NoFile

(* What a process may be doing, by its command: which file it is about to  *)
(* write and with what, and which it has open.                             *)
Writes(p) ==
  /\ pc[p] \in {"truncate", "fill"} =>
       /\ command[p] # "merge-driver"
       /\ target[p] = WholeFile(command[p])
       /\ "ours" \in ToSet(text[p])
  /\ pc[p] = "append" =>
       /\ text[p] = <<"ours">>
       /\ \/ command[p] = "hook" /\ target[p] = "hook"
          \/ command[p] = "merge-driver" /\ target[p] \in {"gitconfig", "attributes"}
  /\ "torn" \in ToSet(text[p]) => command[p] = "attributes"

Holds(p) ==
  /\ fd[p] # NoFile =>
       /\ pc[p] = "fill"
       /\ \/ fd[p] = target[p]
          \/ command[p] = "install" /\ fd[p] = "mcp.json"
  /\ pc[p] = "fill" /\ command[p] \in {"hook", "attributes"} => fd[p] = target[p]

Follows(p) ==
  /\ pc[p] = "chmod" => command[p] = "hook"
  /\ pc[p] = "attributes" => command[p] = "merge-driver"
  /\ pc[p] \in {"rename", "verify"} => command[p] = "install"
  /\ pc[p] = "exit" => command[p] \in {"merge-driver", "attributes", "install-mcp"}
  /\ result[p] # "none" => pc[p] = "done"
  /\ result[p] = "ok" /\ command[p] = "hook" => executable

Shape == \A p \in Proc : Writes(p) /\ Holds(p) /\ Follows(p)

(* One installer of the configuration: what it is about to write is whole, *)
(* and so is the backup when it is renamed.                                *)
Whole(s) == "torn" \notin ToSet(s) /\ (had => "user" \in ToSet(s))
OneInstaller ==
  Uses({"install-mcp"}) = {} /\ \A p, q \in Uses({"install"}) : p = q
Fresh(p) == fd[p] = "mcp.bak" /\ disk["mcp.bak"] \in {<<>>, <<"torn">>}
Renames ==
  OneInstaller =>
    /\ Whole(disk["mcp.json"])
    /\ \A p \in Uses({"install"}) :
         /\ pc[p] \in {"truncate", "fill", "rename"} => Whole(text[p])
         /\ pc[p] = "fill" => Fresh(p)
         /\ pc[p] = "rename" => disk["mcp.bak"] = text[p]

(* What is written as a whole has the addition once; what is appended is   *)
(* not there yet, when nobody else appends.                                *)
Once(s) == \A i, j \in DOMAIN s : s[i] = "ours" /\ s[j] = "ours" => i = j
Alone(f) == \A p, q \in Uses(Touches(f)) : p = q
Single ==
  /\ \A p \in Proc : Once(text[p])
  /\ Once(disk["mcp.json"]) /\ Once(disk["mcp.bak"])
  /\ \A f \in {"hook", "gitconfig", "attributes"} :
       Alone(f) =>
         /\ Once(disk[f])
         /\ \A p \in Proc : pc[p] = "append" /\ target[p] = f => ~Has(f, "ours")

(* Where a command is when it has written f.                               *)
Past(p, f) ==
  \/ result[p] = "ok"
  \/ f = "hook" /\ pc[p] = "chmod"
  \/ f = "gitconfig" /\ (\/ pc[p] \in {"attributes", "exit"}
                         \/ pc[p] = "append" /\ target[p] = "attributes")
  \/ f \in {"attributes", "mcp.json"} /\ pc[p] = "exit"
Installs ==
  \A p \in Proc, f \in Files :
    Uses(Touches(f)) = {p} =>
      /\ Past(p, f) => Has(f, "ours")
      /\ pc[p] = "fill" /\ command[p] = "install-mcp" => fd[p] = "mcp.json"

(***************************************************************************)
(* Sequences of lines.                                                     *)
(***************************************************************************)
LEMMA AddFacts ==
  ASSUME NEW s \in Seq(Line), NEW x \in Line
  PROVE  /\ Append(s, x) \in Seq(Line)
         /\ s \o <<x>> = Append(s, x)
         /\ ToSet(Append(s, x)) = ToSet(s) \cup {x}
         /\ x # "ours" \/ "ours" \notin ToSet(s) => (Once(s) => Once(Append(s, x)))
<1>. DEFINE t == Append(s, x)
            n == Len(s)
<1>1. n \in Nat /\ DOMAIN s = 1..n
  BY LenProperties
<1>2. /\ t \in Seq(Line) /\ Len(t) = n + 1
      /\ \A i \in 1..n : t[i] = s[i]
      /\ t[n + 1] = x
  BY AppendProperties
<1>3. s \o <<x>> = t
  BY AppendIsConcat
<1>4. DOMAIN t = 1..(n + 1)
  BY <1>2, LenProperties
<1>. HIDE DEF t, n
<1>5. 1..(n + 1) = 1..n \cup {n + 1} /\ n + 1 \notin 1..n
  BY <1>1
<1>6. ToSet(t) = ToSet(s) \cup {x}
  BY <1>1, <1>2, <1>4, <1>5 DEF ToSet
<1>7. ASSUME x # "ours" \/ "ours" \notin ToSet(s), Once(s)
      PROVE  Once(t)
  <2>1. \A i \in 1..n : s[i] \in ToSet(s)
    BY <1>1 DEF ToSet
  <2>. QED  BY <1>1, <1>2, <1>4, <1>5, <1>7, <2>1 DEF Once
<1>. QED
  BY <1>2, <1>3, <1>6, <1>7 DEF t

LEMMA LiteralFacts ==
  /\ <<>> \in Seq(Line) /\ ToSet(<<>>) = {} /\ Once(<<>>)
  /\ <<"torn">> \in Seq(Line) /\ ToSet(<<"torn">>) = {"torn"} /\ Once(<<"torn">>)
  /\ <<"ours">> \in Seq(Line) /\ ToSet(<<"ours">>) = {"ours"} /\ Once(<<"ours">>)
  /\ <<"user">> \in Seq(Line) /\ ToSet(<<"user">>) = {"user"} /\ Once(<<"user">>)
  /\ Once(Absent)
  /\ <<"shebang", "ours">> \in Seq(Line) /\ ToSet(<<"shebang", "ours">>) = {"shebang", "ours"}
  /\ Once(<<"shebang", "ours">>)
  BY DEF ToSet, Once, Line, Absent

LEMMA WithFacts ==
  ASSUME NEW s \in Seq(Line), Once(s)
  PROVE  /\ With(s) \in Seq(Line) /\ Once(With(s))
         /\ "ours" \in ToSet(With(s)) /\ ToSet(With(s)) \subseteq ToSet(s) \cup {"ours"}
         /\ ToSet(s) \subseteq ToSet(With(s))
<1>1. "ours" \in Line
  BY DEF Line
<1>2. CASE "ours" \in ToSet(s)
  BY <1>2 DEF With
<1>3. CASE "ours" \notin ToSet(s)
  BY <1>1, <1>3, AddFacts DEF With
<1>. QED
  BY <1>2, <1>3

LEMMA PrefixFacts ==
  ASSUME NEW s \in Seq(Line), NEW t \in Seq(Line)
  PROVE  /\ IsPrefix(s, t) => ToSet(s) \subseteq ToSet(t)
         /\ IsPrefix(<<>>, t)
<1>1. /\ Len(s) \in Nat /\ DOMAIN s = 1..Len(s)
      /\ Len(t) \in Nat /\ DOMAIN t = 1..Len(t)
  BY LenProperties
<1>2. ASSUME IsPrefix(s, t), NEW i \in 1..Len(s)
      PROVE  i \in 1..Len(t) /\ s[i] = t[i]
  <2>1. Len(s) <= Len(t) /\ SubSeq(s, 1, Len(s)) = SubSeq(t, 1, Len(s))
    BY <1>2 DEF IsPrefix
  <2>2. SubSeq(s, 1, Len(s))[i] = s[i] /\ SubSeq(t, 1, Len(s))[i] = t[i]
    BY <1>1, <1>2, <2>1
  <2>. QED  BY <1>1, <1>2, <2>1, <2>2
<1>3. IsPrefix(<<>>, t)
  BY <1>1 DEF IsPrefix
<1>. QED
  BY <1>1, <1>2, <1>3 DEF ToSet

(* A write of new over old leaves new, with a torn line after it or not,   *)
(* or what began with new already.                                         *)
LEMMA OverwrittenFacts ==
  ASSUME NEW old \in Seq(Line) \cup {Absent}, NEW new \in Seq(Line),
         NEW s \in Overwritten(old, new)
  PROVE  /\ s \in Seq(Line) \/ s = old
         /\ old \in Seq(Line) => ToSet(new) \subseteq ToSet(s)
         /\ Once(old) /\ Once(new) => Once(s)
         /\ old \in {<<>>, <<"torn">>} => s = new
<1>1. s = new \/ s = Append(new, "torn") \/ (s = old /\ IsPrefix(new, old))
  BY DEF Overwritten
<1>2. /\ Append(new, "torn") \in Seq(Line)
      /\ ToSet(Append(new, "torn")) = ToSet(new) \cup {"torn"}
      /\ Once(new) => Once(Append(new, "torn"))
  BY AddFacts DEF Line
<1>3. old \in Seq(Line) => (IsPrefix(new, old) => ToSet(new) \subseteq ToSet(old))
  BY PrefixFacts
<1>4. old \in {<<>>, <<"torn">>} => s = new
  <2>1. IsPrefix(<<>>, new)
    BY PrefixFacts
  <2>. QED  BY <2>1 DEF Overwritten
<1>5. CASE s = new \/ s = Append(new, "torn")
  BY <1>2, <1>4, <1>5
<1>6. CASE s = old /\ IsPrefix(new, old)
  BY <1>3, <1>4, <1>6
<1>. QED
  BY <1>1, <1>5, <1>6

(***************************************************************************)
(* Types and shapes.                                                       *)
(***************************************************************************)
Known == Sorts /\ Shape

LEMMA KnownInit == Init => Known
BY LiteralFacts DEF Init, Known, Sorts, Shape, Writes, Holds, Follows, PCs, Files, All, NoFile

(* What a command is about to write has the addition once.                 *)
Texts == \A p \in Proc : Once(text[p])
Backups == Once(disk["mcp.json"]) /\ Once(disk["mcp.bak"])

LEMMA PlanStep ==
  ASSUME Known, Texts, Backups, NEW p \in Proc,
         NEW to \in PCs \ {"start", "fill", "rename", "verify", "done"},
         NEW f \in Files \cup {"mcp.bak"}, NEW s \in Seq(Line), Plans(p, to, f, s),
         pc[p] \in {"run", "attributes"}, Once(s),
         to = "truncate" =>
            command[p] # "merge-driver" /\ f = WholeFile(command[p]) /\ "ours" \in ToSet(s),
         to = "append" =>
            /\ s = <<"ours">>
            /\ \/ command[p] = "hook" /\ f = "hook"
               \/ command[p] = "merge-driver" /\ f \in {"gitconfig", "attributes"},
         "torn" \in ToSet(s) => command[p] = "attributes",
         to = "chmod" => command[p] = "hook",
         to = "attributes" => command[p] = "merge-driver",
         to = "exit" => command[p] \in {"merge-driver", "attributes", "install-mcp"}
  PROVE  Known' /\ Texts' /\ Backups'
<1>. USE DEF Plans, process
<1>1. Sorts'
  BY DEF Known, Sorts, PCs, All, Files
<1>2. fd[p] = NoFile /\ result[p] = "none"
  BY DEF Known, Sorts, Shape, Holds, Follows
<1>3. ASSUME NEW q \in Proc, q # p
      PROVE  Writes(q)' /\ Holds(q)' /\ Follows(q)'
  BY <1>3 DEF Known, Sorts, Shape, Writes, Holds, Follows
<1>4. Writes(p)' /\ Holds(p)' /\ Follows(p)'
  BY <1>2 DEF Known, Sorts, Writes, Holds, Follows, PCs
<1>5. Texts' /\ Backups'
  BY DEF Known, Sorts, Texts, Backups
<1>. QED
  BY <1>1, <1>3, <1>4, <1>5 DEF Known, Shape

Basics == Known /\ Texts /\ Backups

LEMMA BasicsInit == Init => Basics
BY KnownInit, LiteralFacts DEF Init, Basics, Texts, Backups, Files, All

LEMMA ReadBasics ==
  ASSUME Basics, NEW p \in Proc,
         \/ HookRead(p) \/ GitConfigRead(p) \/ GitAttributesRead(p)
         \/ AttributesRead(p) \/ InstallRead(p) \/ InstallMcpRead(p)
  PROVE  Basics'
<1>. USE DEF Basics
<1>1. /\ "ours" \in Line /\ "hook" \in Files /\ "gitconfig" \in Files
      /\ "attributes" \in Files /\ "mcp.json" \in Files
  BY DEF Line, Files
<1>2. \A f \in Files : disk[f] \in Seq(Line)
  BY DEF Known, Sorts
<1>3. CASE HookRead(p)
  <2>1. \/ Plans(p, "chmod", "hook", <<>>)
        \/ Plans(p, "truncate", "hook", <<"shebang", "ours">>)
        \/ Plans(p, "append", "hook", <<"ours">>)
    BY <1>3 DEF HookRead
  <2>. QED  BY <1>1, <1>3, <2>1, LiteralFacts, PlanStep DEF HookRead, PCs, WholeFile
<1>4. CASE GitConfigRead(p)
  <2>1. \/ Plans(p, "attributes", "gitconfig", <<>>)
        \/ Plans(p, "append", "gitconfig", <<"ours">>)
    BY <1>4 DEF GitConfigRead
  <2>. QED  BY <1>1, <1>4, <2>1, LiteralFacts, PlanStep DEF GitConfigRead, PCs
<1>5. ASSUME Ends(p, "error"), UNCHANGED <<process, target, text, fd, disk, executable>>,
             pc[p] # "fill"
      PROVE  Basics'
  BY <1>5 DEF Ends, process, Known, Sorts, Shape, Writes, Holds, Follows, PCs, Texts, Backups
<1>6. CASE GitAttributesRead(p)
  <2>1. CASE Ends(p, "error") /\ UNCHANGED <<process, target, text, fd, disk, executable>>
    BY <1>5, <1>6, <2>1 DEF GitAttributesRead
  <2>2. CASE \/ Plans(p, "exit", "attributes", <<>>)
             \/ Plans(p, "append", "attributes", <<"ours">>)
    BY <1>1, <1>6, <2>2, LiteralFacts, PlanStep DEF GitAttributesRead, PCs
  <2>. QED  BY <1>6, <2>1, <2>2 DEF GitAttributesRead
<1>7. CASE AttributesRead(p)
  <2>. DEFINE existing == IF readable THEN disk["attributes"] ELSE <<>>
  <2>1. existing \in Seq(Line)
    BY <1>1, <1>2, LiteralFacts
  <2>. HIDE DEF existing
  <2>2. CASE "ours" \in ToSet(existing)
    <3>1. Plans(p, "exit", "attributes", <<>>)
      BY <1>7, <2>2 DEF AttributesRead, existing
    <3>. QED  BY <1>1, <1>7, <3>1, LiteralFacts, PlanStep DEF AttributesRead, PCs
  <2>3. CASE "ours" \notin ToSet(existing)
    <3>1. Plans(p, "truncate", "attributes", existing \o <<"ours">>)
      BY <1>7, <2>3 DEF AttributesRead, existing
    <3>2. /\ existing \o <<"ours">> \in Seq(Line)
          /\ "ours" \in ToSet(existing \o <<"ours">>)
      BY <1>1, <2>1, AddFacts
    <3>3. Once(existing \o <<"ours">>)
      <4>1. Once(existing)
        BY <2>1, <2>3, LenProperties DEF Once, ToSet
      <4>. QED  BY <1>1, <2>1, <2>3, <4>1, AddFacts
    <3>. QED  BY <1>1, <1>7, <3>1, <3>2, <3>3, PlanStep DEF AttributesRead, PCs, WholeFile
  <2>. QED  BY <2>2, <2>3
<1>8. ASSUME NEW cmd \in Commands, NEW f \in All, cmd # "merge-driver", f = WholeFile(cmd),
             ConfigRead(p, cmd, f)
      PROVE  Basics'
  <2>1. CASE Ends(p, "error") /\ UNCHANGED <<process, target, text, fd, disk, executable>>
    BY <1>5, <1>8, <2>1 DEF ConfigRead
  <2>2. CASE ~Has("mcp.json", "torn") /\ Plans(p, "truncate", f, With(disk["mcp.json"]))
    <3>1. /\ With(disk["mcp.json"]) \in Seq(Line) /\ Once(With(disk["mcp.json"]))
          /\ "ours" \in ToSet(With(disk["mcp.json"]))
          /\ "torn" \notin ToSet(With(disk["mcp.json"]))
      BY <1>1, <1>2, <2>2, WithFacts DEF Backups, Has
    <3>. QED  BY <1>8, <2>2, <3>1, PlanStep DEF ConfigRead, PCs, All
  <2>. QED  BY <1>8, <2>1, <2>2 DEF ConfigRead
<1>9. CASE InstallRead(p) \/ InstallMcpRead(p)
  BY <1>8, <1>9 DEF InstallRead, InstallMcpRead, Commands, All, Files, WholeFile
<1>. QED
  BY <1>3, <1>4, <1>6, <1>7, <1>9

LEMMA OverwriteStep ==
  ASSUME Sorts, Backups, NEW f \in All, NEW new \in Seq(Line), Once(new),
         NEW s \in Overwritten(disk[f], new), disk' = [disk EXCEPT ![f] = s]
  PROVE  /\ disk' \in [All -> Seq(Line) \cup {Absent}]
         /\ \A g \in Files : disk'[g] \in Seq(Line)
         /\ Backups'
<1>1. /\ disk \in [All -> Seq(Line) \cup {Absent}] /\ disk[f] \in Seq(Line) \cup {Absent}
      /\ \A g \in Files : disk[g] \in Seq(Line)
  BY DEF Sorts
<1>2. /\ s \in Seq(Line) \/ s = disk[f]
      /\ Once(disk[f]) => Once(s)
  BY <1>1, OverwrittenFacts
<1>3. \A g \in All : disk'[g] = IF g = f THEN s ELSE disk[g]
  BY <1>1
<1>4. "mcp.json" \in All /\ "mcp.bak" \in All /\ Files \subseteq All
  BY DEF All, Files
<1>5. Backups'
  <2>1. Once(disk["mcp.json"]) => Once(disk'["mcp.json"])
    BY <1>2, <1>3, <1>4
  <2>2. Once(disk["mcp.bak"]) => Once(disk'["mcp.bak"])
    BY <1>2, <1>3, <1>4
  <2>. QED  BY <2>1, <2>2 DEF Backups
<1>6. disk' \in [All -> Seq(Line) \cup {Absent}]
  BY <1>1, <1>2
<1>7. \A g \in Files : disk'[g] \in Seq(Line)
  BY <1>1, <1>2, <1>3, <1>4
<1>. QED
  BY <1>5, <1>6, <1>7

LEMMA WriteBasics ==
  ASSUME Basics, NEW p \in Proc, Truncate(p) \/ FillPart(p) \/ Fill(p) \/ AppendLine(p)
  PROVE  Basics'
<1>. USE DEF Basics, process
<1>1. /\ Sorts /\ Shape /\ Writes(p) /\ Holds(p) /\ Follows(p)
      /\ text[p] \in Seq(Line) /\ Once(text[p])
  BY DEF Known, Shape, Sorts, Texts
<1>2. CASE Truncate(p)
  <2>1. target[p] \in All /\ target[p] # NoFile
    BY <1>1, <1>2 DEF Writes, Truncate, Goes, WholeFile, Sorts, Commands, All, Files, NoFile
  <2>2. Sorts'
    BY <1>1, <1>2, <2>1, LiteralFacts DEF Truncate, Goes, Sorts, PCs
  <2>3. \A q \in Proc : Writes(q)' /\ Holds(q)' /\ Follows(q)'
    BY <1>1, <1>2, <2>1 DEF Truncate, Goes, Shape, Writes, Holds, Follows, Sorts
  <2>4. Texts' /\ Backups'
    BY <1>1, <1>2, <2>1, LiteralFacts DEF Truncate, Texts, Backups, Sorts, All, Files
  <2>. QED  BY <2>2, <2>3, <2>4 DEF Known, Shape
<1>3. CASE FillPart(p)
  <2>1. fd[p] \in All
    BY <1>1, <1>3 DEF FillPart, Sorts
  <2>2. PICK s \in Overwritten(disk[fd[p]], <<"torn">>) : disk' = [disk EXCEPT ![fd[p]] = s]
    BY <1>3 DEF FillPart
  <2>4. /\ disk' \in [All -> Seq(Line) \cup {Absent}]
        /\ \A g \in Files : disk'[g] \in Seq(Line)
        /\ Backups'
    BY <1>1, <2>1, <2>2, LiteralFacts, OverwriteStep
  <2>5. Sorts' /\ Texts'
    BY <1>1, <1>3, <2>4 DEF FillPart, Sorts, Texts
  <2>3. \A q \in Proc : Writes(q)' /\ Holds(q)' /\ Follows(q)'
    BY <1>1, <1>3 DEF FillPart, Shape, Writes, Holds, Follows
  <2>. QED  BY <2>3, <2>4, <2>5 DEF Known, Shape
<1>4. CASE Fill(p)
  <2>1. fd[p] \in All \cup {NoFile} /\ Written(p) \in PCs
    BY <1>1 DEF Sorts, Written, PCs
  <2>2. /\ disk' \in [All -> Seq(Line) \cup {Absent}]
        /\ \A g \in Files : disk'[g] \in Seq(Line)
        /\ Backups'
    <3>1. CASE fd[p] = NoFile
      BY <1>1, <1>4, <3>1 DEF Fill, Sorts, Backups
    <3>2. CASE fd[p] # NoFile
      <4>1. fd[p] \in All
        BY <2>1, <3>2
      <4>2. PICK s \in Overwritten(disk[fd[p]], text[p]) : disk' = [disk EXCEPT ![fd[p]] = s]
        BY <1>4, <3>2 DEF Fill
      <4>. QED  BY <1>1, <4>1, <4>2, OverwriteStep
    <3>. QED  BY <3>1, <3>2
  <2>6. Sorts' /\ Texts'
    BY <1>1, <1>4, <2>1, <2>2 DEF Fill, Goes, Sorts, Texts, NoFile
  <2>3. ASSUME NEW q \in Proc, q # p
        PROVE  Writes(q)' /\ Holds(q)' /\ Follows(q)'
    BY <1>1, <1>4, <2>1, <2>3 DEF Fill, Goes, Shape, Writes, Holds, Follows, Sorts
  <2>4. command[p] # "merge-driver" /\ target[p] = WholeFile(command[p])
    BY <1>1, <1>4 DEF Fill, Goes, Writes
  <2>5. Writes(p)' /\ Holds(p)' /\ Follows(p)'
    BY <1>1, <1>4, <2>1, <2>4 DEF Fill, Goes, Writes, Holds, Follows, Sorts, Written,
                                 WholeFile, Commands
  <2>. QED  BY <2>2, <2>3, <2>5, <2>6 DEF Known, Shape
<1>5. CASE AppendLine(p)
  <2>1. /\ text[p] = <<"ours">>
        /\ \/ command[p] = "hook" /\ target[p] = "hook"
           \/ command[p] = "merge-driver" /\ target[p] \in {"gitconfig", "attributes"}
    BY <1>1, <1>5 DEF AppendLine, Goes, Writes
  <2>2. target[p] \in Files /\ target[p] \in All /\ target[p] \notin {"mcp.json", "mcp.bak"}
    BY <2>1 DEF Files, All
  <2>3. disk[target[p]] \in Seq(Line) /\ "ours" \in Line
    BY <1>1, <2>2 DEF Sorts, Line
  <2>4. disk[target[p]] \o text[p] \in Seq(Line)
    BY <2>1, <2>3, AddFacts
  <2>5. Written(p) \in PCs
    BY DEF Written, PCs
  <2>6. Sorts'
    BY <1>1, <1>5, <2>2, <2>4, <2>5 DEF AppendLine, Goes, Sorts
  <2>7. ASSUME NEW q \in Proc, q # p
        PROVE  Writes(q)' /\ Holds(q)' /\ Follows(q)'
    BY <1>1, <1>5, <2>7 DEF AppendLine, Goes, Shape, Writes, Holds, Follows, Sorts
  <2>8. Writes(p)' /\ Holds(p)' /\ Follows(p)'
    BY <1>1, <1>5, <2>1 DEF AppendLine, Goes, Writes, Holds, Follows, Sorts, Written
  <2>9. Texts' /\ Backups'
    BY <1>1, <1>5, <2>2 DEF AppendLine, Texts, Backups, Sorts, All, Files
  <2>. QED  BY <2>6, <2>7, <2>8, <2>9 DEF Known, Shape
<1>. QED
  BY <1>2, <1>3, <1>4, <1>5

LEMMA EndBasics ==
  ASSUME Basics, NEW p \in Proc, Chmod(p) \/ Rename(p) \/ Verify(p) \/ Exit(p)
  PROVE  Basics'
<1>. USE DEF Basics, process
<1>1. Sorts /\ Shape /\ Writes(p) /\ Holds(p) /\ Follows(p)
  BY DEF Known, Shape
<1>2. CASE Chmod(p) \/ Verify(p) \/ Exit(p)
  <2>1. PICK r \in {"ok", "error"} :
          /\ Ends(p, r)
          /\ UNCHANGED <<process, target, text, fd, disk>>
          /\ pc[p] \in {"chmod", "verify", "exit"}
          /\ r = "ok" /\ command[p] = "hook" => executable'
          /\ executable => executable'
    BY <1>1, <1>2 DEF Chmod, Verify, Exit, Follows
  <2>2. Sorts'
    BY <1>1, <2>1 DEF Ends, Sorts, PCs
  <2>3. \A q \in Proc : Writes(q)' /\ Holds(q)' /\ Follows(q)'
    BY <1>1, <2>1 DEF Ends, Shape, Writes, Holds, Follows, Sorts
  <2>4. Texts' /\ Backups'
    BY <2>1 DEF Texts, Backups
  <2>. QED  BY <2>2, <2>3, <2>4 DEF Known, Shape
<1>3. CASE Rename(p) /\ disk["mcp.bak"] = Absent
  <2>1. /\ Ends(p, "error") /\ pc[p] = "rename"
        /\ UNCHANGED <<process, target, text, fd, disk, executable>>
    BY <1>3 DEF Rename
  <2>2. Sorts'
    BY <1>1, <2>1 DEF Ends, Sorts, PCs
  <2>3. \A q \in Proc : Writes(q)' /\ Holds(q)' /\ Follows(q)'
    BY <1>1, <2>1 DEF Ends, Shape, Writes, Holds, Follows, Sorts
  <2>4. Texts' /\ Backups'
    BY <2>1 DEF Texts, Backups
  <2>. QED  BY <2>2, <2>3, <2>4 DEF Known, Shape
<1>4. CASE Rename(p) /\ disk["mcp.bak"] # Absent
  <2>1. /\ pc[p] = "rename" /\ pc' = [pc EXCEPT ![p] = "verify"]
        /\ disk' = [disk EXCEPT !["mcp.json"] = disk["mcp.bak"], !["mcp.bak"] = Absent]
        /\ fd' = [q \in Proc |-> CASE fd[q] = "mcp.bak" -> "mcp.json"
                                   [] fd[q] = "mcp.json" -> NoFile
                                   [] OTHER -> fd[q]]
        /\ UNCHANGED <<process, result, target, text, executable>>
    BY <1>4 DEF Rename
  <2>2. disk["mcp.bak"] \in Seq(Line)
    BY <1>1, <1>4 DEF Sorts, All
  <2>3. fd' \in [Proc -> All \cup {NoFile}]
    BY <1>1, <2>1 DEF Sorts, All, Files
  <2>4. Sorts'
    BY <1>1, <2>1, <2>2, <2>3 DEF Sorts, PCs, All, Files
  <2>5. ASSUME NEW q \in Proc
        PROVE  Writes(q)' /\ Holds(q)' /\ Follows(q)'
    <3>1. Writes(q) /\ Holds(q) /\ Follows(q) /\ command[q] \in Commands
      BY <1>1 DEF Shape, Sorts
    <3>2. Writes(q)' /\ Follows(q)'
      BY <1>1, <2>1, <3>1 DEF Writes, Follows, Sorts
    <3>3. fd'[q] = CASE fd[q] = "mcp.bak" -> "mcp.json"
                     [] fd[q] = "mcp.json" -> NoFile
                     [] OTHER -> fd[q]
      BY <2>1
    <3>4. q # p => pc'[q] = pc[q]
      BY <1>1, <2>1 DEF Sorts
    <3>5. pc[p] # "fill" /\ pc'[p] # "fill"
      BY <1>1, <2>1 DEF Sorts
    <3>6. Holds(q)'
      BY <2>1, <3>1, <3>3, <3>4, <3>5 DEF Holds, Writes, WholeFile, Commands, NoFile
    <3>. QED  BY <3>2, <3>6
  <2>6. Texts' /\ Backups'
    BY <1>1, <2>1, LiteralFacts DEF Texts, Backups, Sorts, All, Files
  <2>. QED  BY <2>4, <2>5, <2>6 DEF Known, Shape
<1>. QED
  BY <1>2, <1>3, <1>4

LEMMA EnvBasics ==
  ASSUME Basics, (\E p \in Proc : Run(p) \/ Kill(p)) \/ (\E f \in Files : Edit(f))
                 \/ UNCHANGED vars
  PROVE  Basics'
<1>. USE DEF Basics
<1>1. Sorts /\ Shape
  BY DEF Known
<1>2. ASSUME NEW p \in Proc, Run(p) \/ Kill(p)
      PROVE  Basics'
  <2>1. Sorts'
    BY <1>1, <1>2 DEF Run, Kill, Sorts, PCs
  <2>2. \A q \in Proc : Writes(q)' /\ Holds(q)' /\ Follows(q)'
    BY <1>1, <1>2 DEF Run, Kill, Shape, Writes, Holds, Follows, Sorts
  <2>3. Texts' /\ Backups'
    BY <1>2 DEF Run, Kill, Texts, Backups
  <2>. QED  BY <2>1, <2>2, <2>3 DEF Known, Shape
<1>3. ASSUME NEW f \in Files, Edit(f)
      PROVE  Basics'
  <2>1. disk[f] \in Seq(Line) /\ f \in All /\ f # "mcp.bak" /\ "edit" \in Line
    BY <1>1 DEF Sorts, Line, All, Files
  <2>2. disk' = [disk EXCEPT ![f] = Append(disk[f], "edit")]
    BY <1>3 DEF Edit
  <2>3. Append(disk[f], "edit") \in Seq(Line) /\ (Once(disk[f]) => Once(Append(disk[f], "edit")))
    BY <2>1, AddFacts
  <2>4. Sorts'
    BY <1>1, <1>3, <2>1, <2>2, <2>3 DEF Edit, Sorts
  <2>5. Shape'
    BY <1>1, <1>3 DEF Edit, Shape, Writes, Holds, Follows
  <2>6. disk'["mcp.bak"] = disk["mcp.bak"] /\ Once(disk'["mcp.json"])
    BY <1>1, <2>1, <2>2, <2>3 DEF Sorts, Backups, All, Files
  <2>7. Texts' /\ Backups'
    BY <1>3, <2>6 DEF Edit, Texts, Backups
  <2>. QED  BY <2>4, <2>5, <2>7 DEF Known
<1>4. CASE UNCHANGED vars
  BY <1>1, <1>4 DEF vars, process, Known, Sorts, Shape, Writes, Holds, Follows, Texts, Backups
<1>. QED
  BY <1>2, <1>3, <1>4

LEMMA BasicsStep == Basics /\ [Next]_vars => Basics'
BY ReadBasics, WriteBasics, EndBasics, EnvBasics DEF Next, Step

LEMMA BasicsAlways == Spec => []Basics
BY BasicsInit, BasicsStep, PTL DEF Spec

(* Every state of the commands and of the files is typed, and what the     *)
(* configuration is replaced with is whole, unless a command cannot read.  *)
THEOREM TypeCorrect == Spec => []TypeOK
<1>1. Basics => TypeOK
  <2>1. SUFFICES ASSUME Sorts, Shape
                 PROVE  TypeOK
    BY DEF Basics, Known
  <2>2. disk["mcp.bak"] \in Seq(Line) \cup {Absent}
    BY <2>1 DEF Sorts, All
  <2>. QED  BY <2>1, <2>2 DEF Sorts, Shape, Writes, TypeOK
<1>. QED
  BY <1>1, BasicsAlways, PTL

(***************************************************************************)
(* What a step of a command does to a file.                                *)
(***************************************************************************)
LEMMA DiskStep ==
  ASSUME Basics, NEW p \in Proc, Step(p), NEW f \in Files
  PROVE  \/ disk'[f] = disk[f]
         \/ pc[p] = "truncate" /\ target[p] = f /\ disk'[f] = <<>> /\ pc'[p] = "fill"
         \/ /\ pc[p] = "fill" /\ fd[p] = f
            /\ \/ disk'[f] \in Overwritten(disk[f], <<"torn">>) /\ f # "hook" /\ FillPart(p)
               \/ disk'[f] \in Overwritten(disk[f], text[p]) /\ pc'[p] = Written(p)
         \/ /\ pc[p] = "append" /\ target[p] = f /\ disk'[f] = Append(disk[f], "ours")
            /\ pc'[p] = Written(p)
         \/ pc[p] = "rename" /\ f = "mcp.json" /\ disk'[f] = disk["mcp.bak"]
            /\ disk["mcp.bak"] # Absent
<1>1. Sorts /\ Writes(p)
  BY DEF Basics, Known, Shape
<1>2. /\ disk \in [All -> Seq(Line) \cup {Absent}] /\ pc \in [Proc -> PCs]
      /\ f \in All /\ f # "mcp.bak" /\ disk[f] \in Seq(Line)
  BY <1>1 DEF Sorts, All, Files
<1>. USE DEF Goes
<1>3. CASE \/ HookRead(p) \/ GitConfigRead(p) \/ GitAttributesRead(p)
           \/ AttributesRead(p) \/ InstallRead(p) \/ InstallMcpRead(p)
  BY <1>3 DEF HookRead, GitConfigRead, GitAttributesRead, AttributesRead, InstallRead,
              InstallMcpRead, ConfigRead, Plans
<1>4. CASE Truncate(p)
  BY <1>2, <1>4 DEF Truncate
<1>5. CASE FillPart(p)
  BY <1>2, <1>5 DEF FillPart
<1>6. CASE Fill(p)
  BY <1>2, <1>6 DEF Fill
<1>7. CASE AppendLine(p)
  <2>1. text[p] = <<"ours">> /\ "ours" \in Line
    BY <1>1, <1>7 DEF AppendLine, Writes, Line
  <2>2. disk[f] \o <<"ours">> = Append(disk[f], "ours")
    BY <1>2, <2>1, AddFacts
  <2>. QED  BY <1>2, <1>7, <2>1, <2>2 DEF AppendLine
<1>8. CASE Rename(p)
  BY <1>2, <1>8 DEF Rename, All, Files
<1>9. CASE Chmod(p) \/ Verify(p) \/ Exit(p)
  BY <1>9 DEF Chmod, Verify, Exit
<1>. QED
  BY <1>3, <1>4, <1>5, <1>6, <1>7, <1>8, <1>9 DEF Step

LEMMA EditFacts ==
  ASSUME Basics, NEW f \in Files, Edit(f), NEW g \in Files
  PROVE  /\ ToSet(disk[g]) \subseteq ToSet(disk'[g])
         /\ \A line \in Line \ {"edit"} : line \in ToSet(disk'[g]) => line \in ToSet(disk[g])
         /\ Once(disk[g]) => Once(disk'[g])
<1>1. disk \in [All -> Seq(Line) \cup {Absent}] /\ disk[g] \in Seq(Line) /\ g \in All
  BY DEF Basics, Known, Sorts, All
<1>2. disk'[g] = IF f = g THEN Append(disk[g], "edit") ELSE disk[g]
  BY <1>1 DEF Edit
<1>3. "edit" \in Line
  BY DEF Line
<1>. QED
  BY <1>1, <1>2, <1>3, AddFacts

LEMMA FixedFacts ==
  ASSUME [Next]_vars
  PROVE  /\ command' = command /\ had' = had
         /\ \A cmds : Uses(cmds)' = Uses(cmds)
<1>1. command' = command /\ had' = had
  BY DEF Next, Step, process, vars, HookRead, GitConfigRead, GitAttributesRead,
         AttributesRead, InstallRead, InstallMcpRead, ConfigRead, Plans, Truncate,
         FillPart, Fill, AppendLine, Chmod, Rename, Verify, Exit, Run, Kill, Edit
<1>. QED
  BY <1>1 DEF Uses

(***************************************************************************)
(* The user's lines.                                                       *)
(***************************************************************************)
LEMMA SecureStep ==
  ASSUME Basics, [Next]_vars, NEW f \in {"hook", "gitconfig", "attributes"},
         NEW line \in {"user", "edit"},
         f = "attributes" => Uses({"attributes"}) = {}, Secure(f, line)
  PROVE  Secure(f, line)'
<1>1. /\ Sorts /\ Shape /\ f \in Files /\ f \in All /\ disk[f] \in Seq(Line)
      /\ line \in Line
  BY DEF Basics, Known, Sorts, Files, All, Line
<1>2. /\ line \in ToSet(disk[f])
      /\ \A q \in Proc : target[q] = f => pc[q] \notin {"truncate", "fill"}
  BY DEF Secure, Has, Creating
<1>3. ASSUME NEW p \in Proc, Step(p)
      PROVE  line \in ToSet(disk'[f])
  <2>1. Holds(p)
    BY <1>1 DEF Shape
  <2>2. ~(pc[p] = "truncate" /\ target[p] = f) /\ ~(pc[p] = "fill" /\ fd[p] = f)
    BY <1>2, <2>1 DEF Holds, NoFile
  <2>3. disk'[f] = disk[f] \/ disk'[f] = Append(disk[f], "ours")
    BY <1>1, <1>3, <2>2, DiskStep
  <2>4. ToSet(Append(disk[f], "ours")) = ToSet(disk[f]) \cup {"ours"}
    BY <1>1, AddFacts DEF Line
  <2>. QED  BY <1>2, <2>3, <2>4
<1>4. ASSUME NEW p \in Proc, Step(p), NEW q \in Proc, target'[q] = f
      PROVE  pc'[q] \notin {"truncate", "fill"}
  <2>1. CASE q # p
    <3>1. pc'[q] = pc[q] /\ target'[q] = target[q]
      BY <1>1, <1>4, <2>1 DEF Step, HookRead, GitConfigRead, GitAttributesRead,
         AttributesRead, InstallRead, InstallMcpRead, ConfigRead, Plans, Truncate, FillPart,
         Fill, AppendLine, Chmod, Rename, Verify, Exit, Goes, Ends, Sorts
    <3>. QED  BY <1>2, <1>4, <3>1
  <2>2. CASE q = p /\ (HookRead(p) \/ AttributesRead(p))
    <3>1. f = "hook" => disk["hook"] # <<>>
      BY <1>2, LiteralFacts
    <3>2. f = "attributes" => command[p] # "attributes"
      BY DEF Uses
    <3>. QED  BY <1>1, <1>4, <2>2, <3>1, <3>2 DEF HookRead, AttributesRead, Plans, Sorts
  <2>3. CASE q = p /\ (InstallRead(p) \/ InstallMcpRead(p))
    <3>1. \/ target'[p] \in {"mcp.json", "mcp.bak"}
          \/ pc'[p] = "done"
      BY <1>1, <2>3 DEF InstallRead, InstallMcpRead, ConfigRead, Plans, Ends, Sorts
    <3>. QED  BY <1>4, <2>3, <3>1
  <2>4. CASE q = p /\ (Truncate(p) \/ FillPart(p))
    BY <1>1, <1>2, <1>4, <2>4 DEF Truncate, FillPart, Goes, Sorts
  <2>5. CASE q = p /\ (\/ GitConfigRead(p) \/ GitAttributesRead(p) \/ Fill(p) \/ AppendLine(p)
                       \/ Chmod(p) \/ Rename(p) \/ Verify(p) \/ Exit(p))
    BY <1>1, <1>4, <2>5 DEF GitConfigRead, GitAttributesRead, Plans, Fill, AppendLine, Written,
       Chmod, Rename, Verify, Exit, Goes, Ends, Sorts
  <2>. QED  BY <1>4, <2>1, <2>2, <2>3, <2>4, <2>5 DEF Step
<1>5. ASSUME NEW p \in Proc, Run(p) \/ Kill(p)
      PROVE  /\ disk' = disk /\ target' = target
             /\ \A q \in Proc : pc'[q] \in {"truncate", "fill"} => pc'[q] = pc[q]
  BY <1>1, <1>5 DEF Run, Kill, Sorts
<1>6. ASSUME NEW g \in Files, Edit(g)
      PROVE  line \in ToSet(disk'[f]) /\ UNCHANGED <<pc, target>>
  BY <1>1, <1>2, <1>6, EditFacts DEF Edit
<1>7. CASE UNCHANGED vars
  BY <1>2, <1>7 DEF vars, Secure, Has, Creating
<1>. QED
  BY <1>2, <1>3, <1>4, <1>5, <1>6, <1>7 DEF Next, Secure, Has, Creating

(* A line the user has in the hook, in .git/config or (nobody rewriting it)*)
(* in .gitattributes, there from the start or added at any moment, stays   *)
(* there and no hook.rs will make the file anew, once no command that found*)
(* the file empty is still about to write it.  (Before that a line may be  *)
(* lost: HookNeverOverwritten.)                                            *)
THEOREM UserLinesAlwaysKept == Spec => UserLinesKept
<1>1. Basics /\ [Next]_vars =>
        [\A f \in {"hook", "gitconfig", "attributes"}, line \in {"user", "edit"} :
           (f = "attributes" => Uses({"attributes"}) = {}) /\ Secure(f, line)
             => Secure(f, line)']_vars
  BY SecureStep
<1>. QED
  BY <1>1, BasicsAlways, PTL DEF Spec, UserLinesKept

(***************************************************************************)
(* The configuration.                                                      *)
(***************************************************************************)
LEMMA AtMostOne ==
  ASSUME NEW T \in SUBSET Proc, Cardinality(T) <= 1, NEW p \in T, NEW q \in T
  PROVE  p = q
<1>1. IsFiniteSet(T) /\ Cardinality(T) \in Nat
  BY ProcAssumption, FS_Subset, FS_CardinalityType
<1>2. IsFiniteSet(T \ {p}) /\ Cardinality(T \ {p}) = Cardinality(T) - 1
  BY <1>1, FS_RemoveElement
<1>3. Cardinality(T \ {p}) \in Nat
  BY <1>2, FS_CardinalityType
<1>4. Cardinality(T \ {p}) = 0
  BY <1>1, <1>2, <1>3
<1>5. T \ {p} = {}
  BY <1>2, <1>4, FS_EmptySet
<1>. QED
  BY <1>5

LEMMA RenamesInit == Init => Renames
<1>. SUFFICES ASSUME Init
              PROVE  Renames
  OBVIOUS
<1>1. disk["mcp.json"] = IF had THEN <<"user">> ELSE <<>>
  BY DEF Init, All, Files
<1>2. Whole(disk["mcp.json"])
  BY <1>1, LiteralFacts DEF Whole
<1>. QED
  BY <1>2 DEF Init, Renames, Uses

(* A command that is not install leaves the configuration to it.           *)
LEMMA OthersStep ==
  ASSUME Basics, NEW p \in Proc, Step(p), command[p] \notin {"install", "install-mcp"}
  PROVE  /\ disk'["mcp.json"] = disk["mcp.json"] /\ disk'["mcp.bak"] = disk["mcp.bak"]
         /\ \A q \in Proc \ {p} : /\ pc'[q] = pc[q] /\ text'[q] = text[q] /\ fd'[q] = fd[q]
                                  /\ target'[q] = target[q] /\ result'[q] = result[q]
<1>1. /\ Sorts /\ Writes(p) /\ Holds(p) /\ Follows(p) /\ command[p] \in Commands
      /\ pc[p] # "rename"
  BY DEF Basics, Known, Shape, Sorts, Follows
<1>. USE DEF Goes
<1>2. CASE \/ HookRead(p) \/ GitConfigRead(p) \/ GitAttributesRead(p)
           \/ AttributesRead(p) \/ InstallRead(p) \/ InstallMcpRead(p)
  BY <1>1, <1>2 DEF HookRead, GitConfigRead, GitAttributesRead, AttributesRead, InstallRead,
              InstallMcpRead, ConfigRead, Plans, Ends, Sorts
<1>3. CASE Truncate(p)
  BY <1>1, <1>3 DEF Truncate, Writes, WholeFile, Commands, Sorts, All, Files
<1>4. CASE FillPart(p) \/ Fill(p)
  <2>1. fd[p] \notin {"mcp.json", "mcp.bak"}
    BY <1>1, <1>4 DEF FillPart, Fill, Writes, Holds, WholeFile, Commands, NoFile
  <2>. QED  BY <1>1, <1>4, <2>1 DEF FillPart, Fill, Sorts, All, Files
<1>5. CASE AppendLine(p)
  BY <1>1, <1>5 DEF AppendLine, Writes, Sorts, All, Files
<1>6. CASE Chmod(p) \/ Verify(p) \/ Exit(p)
  BY <1>1, <1>6 DEF Chmod, Verify, Exit, Ends, Sorts
<1>7. ~Rename(p)
  BY <1>1 DEF Rename
<1>. QED
  BY <1>2, <1>3, <1>4, <1>5, <1>6, <1>7 DEF Step

LEMMA RenamesStep == Basics /\ Renames /\ [Next]_vars => Renames'
<1>. SUFFICES ASSUME Basics, Renames, [Next]_vars
              PROVE  Renames'
  OBVIOUS
<1>. SUFFICES ASSUME OneInstaller'
              PROVE  /\ Whole(disk["mcp.json"])'
                     /\ \A p \in Uses({"install"}) :
                          /\ pc'[p] \in {"truncate", "fill", "rename"} => Whole(text[p])'
                          /\ pc'[p] = "fill" => Fresh(p)'
                          /\ pc'[p] = "rename" => disk'["mcp.bak"] = text'[p]
  <2>1. Uses({"install"})' = Uses({"install"})
    BY FixedFacts
  <2>. QED  BY <2>1 DEF Renames
<1>1. /\ Sorts /\ command' = command /\ had' = had
      /\ \A cmds : Uses(cmds)' = Uses(cmds)
  BY FixedFacts DEF Basics, Known
<1>2. OneInstaller
  BY <1>1 DEF OneInstaller
<1>3. /\ Whole(disk["mcp.json"])
      /\ \A p \in Uses({"install"}) :
           /\ pc[p] \in {"truncate", "fill", "rename"} => Whole(text[p])
           /\ pc[p] = "fill" => Fresh(p)
           /\ pc[p] = "rename" => disk["mcp.bak"] = text[p]
  BY <1>2 DEF Renames
<1>4. ASSUME NEW p \in Proc, Step(p), command[p] # "install"
      PROVE  /\ Whole(disk["mcp.json"])'
             /\ \A q \in Uses({"install"}) :
                  /\ pc'[q] \in {"truncate", "fill", "rename"} => Whole(text[q])'
                  /\ pc'[q] = "fill" => Fresh(q)'
                  /\ pc'[q] = "rename" => disk'["mcp.bak"] = text'[q]
  <2>1. command[p] # "install-mcp"
    BY <1>2 DEF OneInstaller, Uses
  <2>2. /\ disk'["mcp.json"] = disk["mcp.json"] /\ disk'["mcp.bak"] = disk["mcp.bak"]
        /\ \A q \in Uses({"install"}) :
             pc'[q] = pc[q] /\ text'[q] = text[q] /\ fd'[q] = fd[q]
    BY <1>4, <2>1, OthersStep DEF Uses
  <2>. QED  BY <1>1, <1>3, <2>2 DEF Whole, Fresh
<1>5. ASSUME NEW p \in Proc, Step(p), command[p] = "install"
      PROVE  /\ Whole(disk["mcp.json"])'
             /\ \A q \in Uses({"install"}) :
                  /\ pc'[q] \in {"truncate", "fill", "rename"} => Whole(text[q])'
                  /\ pc'[q] = "fill" => Fresh(q)'
                  /\ pc'[q] = "rename" => disk'["mcp.bak"] = text'[q]
  <2>1. p \in Uses({"install"}) /\ \A q \in Uses({"install"}) : q = p
    BY <1>2, <1>5 DEF OneInstaller, Uses
  <2>2. SUFFICES /\ Whole(disk["mcp.json"])'
                 /\ pc'[p] \in {"truncate", "fill", "rename"} => Whole(text[p])'
                 /\ pc'[p] = "fill" => Fresh(p)'
                 /\ pc'[p] = "rename" => disk'["mcp.bak"] = text'[p]
    BY <2>1
  <2>3. /\ pc[p] \in {"truncate", "fill", "rename"} => Whole(text[p])
        /\ pc[p] = "fill" => Fresh(p)
        /\ pc[p] = "rename" => disk["mcp.bak"] = text[p]
    BY <1>3, <2>1
  <2>4. Writes(p) /\ Holds(p) /\ Follows(p)
    BY DEF Basics, Known, Shape
  <2>. USE DEF Goes
  <2>5. CASE InstallRead(p)
    <3>1. CASE Plans(p, "truncate", "mcp.bak", With(disk["mcp.json"])) /\ ~Has("mcp.json", "torn")
      <4>1. disk["mcp.json"] \in Seq(Line) /\ Once(disk["mcp.json"])
        BY <1>1 DEF Sorts, Files, Basics, Backups
      <4>2. Whole(With(disk["mcp.json"]))
        BY <1>3, <3>1, <4>1, WithFacts DEF Whole, Has
      <4>. QED  BY <1>1, <1>3, <3>1, <4>2 DEF Plans, Sorts, Whole
    <3>2. CASE Ends(p, "error") /\ UNCHANGED <<process, target, text, fd, disk, executable>>
      BY <1>1, <1>3, <3>2 DEF Ends, Sorts, Whole
    <3>. QED  BY <2>5, <3>1, <3>2 DEF InstallRead, ConfigRead
  <2>6. CASE Truncate(p)
    <3>1. target[p] = "mcp.bak"
      BY <1>5, <2>4, <2>6 DEF Truncate, Writes, WholeFile
    <3>. QED  BY <1>1, <1>3, <2>3, <2>6, <3>1 DEF Truncate, Sorts, Whole, Fresh, All, Files
  <2>7. CASE FillPart(p)
    <3>1. /\ Fresh(p) /\ Whole(text[p]) /\ pc[p] = "fill" /\ fd[p] = "mcp.bak"
          /\ "mcp.bak" \in All /\ "mcp.json" \in All
      BY <2>3, <2>7 DEF FillPart, Fresh, Holds, Sorts, All, Files, NoFile
    <3>2. PICK s \in Overwritten(disk["mcp.bak"], <<"torn">>) :
            disk' = [disk EXCEPT !["mcp.bak"] = s]
      BY <2>7, <3>1 DEF FillPart
    <3>3. s = <<"torn">>
      <4>1. disk["mcp.bak"] \in Seq(Line) \cup {Absent} /\ disk["mcp.bak"] \in {<<>>, <<"torn">>}
        BY <1>1, <3>1 DEF Sorts, Fresh
      <4>. QED  BY <4>1, LiteralFacts, OverwrittenFacts
    <3>4. disk'["mcp.bak"] = <<"torn">> /\ disk'["mcp.json"] = disk["mcp.json"]
      BY <1>1, <3>1, <3>2, <3>3 DEF Sorts
    <3>. QED  BY <1>1, <1>3, <2>7, <3>1, <3>4 DEF FillPart, Whole, Fresh
  <2>8. CASE Fill(p)
    <3>1. /\ Fresh(p) /\ Whole(text[p]) /\ fd[p] = "mcp.bak" /\ Written(p) = "rename"
          /\ "mcp.bak" \in All /\ "mcp.json" \in All
      BY <1>5, <2>3, <2>8 DEF Fill, Written, Fresh, All, Files
    <3>2. PICK s \in Overwritten(disk["mcp.bak"], text[p]) :
            disk' = [disk EXCEPT !["mcp.bak"] = s]
      BY <2>8, <3>1 DEF Fill, NoFile
    <3>3. s = text[p]
      <4>1. disk["mcp.bak"] \in Seq(Line) \cup {Absent} /\ disk["mcp.bak"] \in {<<>>, <<"torn">>}
        BY <1>1, <3>1 DEF Sorts, Fresh
      <4>2. text[p] \in Seq(Line)
        BY <1>1 DEF Sorts
      <4>. QED  BY <4>1, <4>2, OverwrittenFacts
    <3>4. disk'["mcp.bak"] = text[p] /\ disk'["mcp.json"] = disk["mcp.json"]
      BY <1>1, <3>1, <3>2, <3>3 DEF Sorts
    <3>. QED  BY <1>1, <1>3, <2>8, <3>1, <3>4 DEF Fill, Sorts, Whole
  <2>9. CASE Rename(p)
    <3>1. CASE disk["mcp.bak"] # Absent
      <4>1. pc'[p] = "verify" /\ disk'["mcp.json"] = disk["mcp.bak"]
        BY <1>1, <2>9, <3>1 DEF Rename, Sorts, All, Files
      <4>. QED  BY <1>1, <2>3, <2>9, <4>1 DEF Rename, Whole
    <3>2. CASE disk["mcp.bak"] = Absent
      BY <1>1, <1>3, <2>9, <3>2 DEF Rename, Ends, Sorts, Whole
    <3>. QED  BY <3>1, <3>2
  <2>10. CASE Verify(p)
    BY <1>1, <1>3, <2>10 DEF Verify, Ends, Sorts, Whole
  <2>11. ~(\/ HookRead(p) \/ GitConfigRead(p) \/ GitAttributesRead(p) \/ AttributesRead(p)
           \/ InstallMcpRead(p) \/ AppendLine(p) \/ Chmod(p) \/ Exit(p))
    BY <1>5, <2>4 DEF HookRead, GitConfigRead, GitAttributesRead, AttributesRead,
       InstallMcpRead, ConfigRead, AppendLine, Chmod, Exit, Writes, Follows
  <2>. QED  BY <1>5, <2>5, <2>6, <2>7, <2>8, <2>9, <2>10, <2>11 DEF Step
<1>6. ASSUME NEW p \in Proc, Run(p) \/ Kill(p)
      PROVE  Renames'
  BY <1>1, <1>3, <1>6 DEF Run, Kill, Renames, Sorts, Whole, Fresh, Uses
<1>7. ASSUME NEW f \in Files, Edit(f)
      PROVE  Renames'
  <2>1. disk'["mcp.bak"] = disk["mcp.bak"]
    BY <1>1, <1>7 DEF Edit, Sorts, All, Files
  <2>2. /\ "user" \in ToSet(disk["mcp.json"]) => "user" \in ToSet(disk'["mcp.json"])
        /\ "torn" \in ToSet(disk'["mcp.json"]) => "torn" \in ToSet(disk["mcp.json"])
    BY <1>7, EditFacts DEF Files, Line
  <2>3. pc' = pc /\ text' = text /\ fd' = fd
    BY <1>7 DEF Edit
  <2>4. \A p \in Proc : Fresh(p) => Fresh(p)'
    BY <2>1, <2>3 DEF Fresh
  <2>5. Whole(disk["mcp.json"])' /\ \A p \in Proc : Whole(text[p]) => Whole(text[p])'
    BY <1>1, <1>3, <2>2, <2>3 DEF Whole
  <2>. QED  BY <1>1, <1>3, <2>1, <2>3, <2>4, <2>5 DEF Renames, Uses
<1>8. CASE UNCHANGED vars
  BY <1>1, <1>3, <1>8 DEF vars, Renames, Whole, Fresh
<1>9. CASE Renames'
  BY <1>1, <1>9 DEF Renames
<1>. QED
  BY <1>4, <1>5, <1>6, <1>7, <1>8, <1>9 DEF Next

(* install never tears the configuration and never loses a server of the   *)
(* user's, however it is killed and run again: beside it no other installer*)
(* may run.                                                                *)
THEOREM ConfigAlwaysWhole == Spec => []ConfigWhole
<1>1. Renames => ConfigWhole
  <2>1. SUFFICES ASSUME Renames, Uses({"install-mcp"}) = {}, Cardinality(Uses({"install"})) <= 1
                 PROVE  ~Has("mcp.json", "torn") /\ (had => Has("mcp.json", "user"))
    BY DEF ConfigWhole
  <2>2. Uses({"install"}) \in SUBSET Proc
    BY DEF Uses
  <2>3. OneInstaller
    BY <2>1, <2>2, AtMostOne DEF OneInstaller
  <2>. QED  BY <2>1, <2>3 DEF Renames, Whole, Has
<1>. QED
  BY <1>1, BasicsInit, BasicsStep, RenamesInit, RenamesStep, PTL DEF Spec

(***************************************************************************)
(* What is added, once.                                                    *)
(***************************************************************************)
LEMMA SingleInit == Init => Single
<1>. SUFFICES ASSUME Init
              PROVE  Single
  OBVIOUS
<1>1. \A f \in {"hook", "gitconfig", "attributes"} : disk[f] = IF had THEN <<"user">> ELSE <<>>
  BY DEF Init, All, Files
<1>2. \A f \in {"hook", "gitconfig", "attributes"} : Once(disk[f])
  BY <1>1, LiteralFacts
<1>3. Texts /\ Backups
  BY BasicsInit DEF Basics
<1>. QED
  BY <1>2, <1>3 DEF Init, Single, Texts, Backups

LEMMA SingleStep == Basics /\ Single /\ [Next]_vars => Single'
<1>. SUFFICES ASSUME Basics, Single, [Next]_vars
              PROVE  Single'
  OBVIOUS
<1>1. /\ Sorts /\ command' = command
      /\ \A cmds : Uses(cmds)' = Uses(cmds)
  BY FixedFacts DEF Basics, Known
<1>2. Texts' /\ Backups'
  BY BasicsStep DEF Basics
<1>. SUFFICES ASSUME NEW f \in {"hook", "gitconfig", "attributes"}, Alone(f)'
              PROVE  /\ Once(disk'[f])
                     /\ \A q \in Proc : pc'[q] = "append" /\ target'[q] = f =>
                                          "ours" \notin ToSet(disk'[f])
  BY <1>2 DEF Single, Texts, Backups, Has
<1>3. Alone(f) /\ f \in Files /\ f # "mcp.json"
  BY <1>1 DEF Alone, Touches, Files
<1>4. /\ Once(disk[f])
      /\ \A q \in Proc : pc[q] = "append" /\ target[q] = f => "ours" \notin ToSet(disk[f])
  BY <1>3 DEF Single, Has
<1>5. disk[f] \in Seq(Line) /\ "ours" \in Line
  BY <1>1, <1>3 DEF Sorts, Line
<1>6. ASSUME NEW p \in Proc, Step(p)
      PROVE  Once(disk'[f])
  <2>1. Once(text[p])
    BY DEF Basics, Texts
  <2>2. Once(Append(disk[f], "ours")) \/ ~(pc[p] = "append" /\ target[p] = f)
    BY <1>4, <1>5, AddFacts
  <2>3. /\ \A s \in Overwritten(disk[f], <<"torn">>) : Once(s)
        /\ \A s \in Overwritten(disk[f], text[p]) : Once(s)
    <3>1. text[p] \in Seq(Line) /\ disk[f] \in Seq(Line) \cup {Absent}
      BY <1>1, <1>5 DEF Sorts
    <3>2. \A s \in Overwritten(disk[f], <<"torn">>) : Once(s)
      <4>. DEFINE torn == <<"torn">>
      <4>1. torn \in Seq(Line) /\ Once(torn)
        BY LiteralFacts
      <4>. HIDE DEF torn
      <4>2. \A s \in Overwritten(disk[f], torn) : Once(s)
        BY <1>4, <3>1, <4>1, OverwrittenFacts
      <4>. QED  BY <4>2 DEF torn
    <3>3. \A s \in Overwritten(disk[f], text[p]) : Once(s)
      BY <1>4, <2>1, <3>1, OverwrittenFacts
    <3>. QED  BY <3>2, <3>3
  <2>4. Once(disk["mcp.bak"]) /\ f # "mcp.json"
    BY <1>3 DEF Basics, Backups
  <2>. QED  BY <1>3, <1>4, <1>6, <2>2, <2>3, <2>4, DiskStep, LiteralFacts
<1>7. ASSUME NEW p \in Proc, Step(p), NEW q \in Proc, pc'[q] = "append", target'[q] = f
      PROVE  "ours" \notin ToSet(disk'[f])
  <2>1. q \in Uses(Touches(f))
    <3>1. Writes(q)'
      BY BasicsStep DEF Basics, Known, Shape
    <3>. QED  BY <1>1, <1>7, <3>1 DEF Writes, Uses, Touches
  <2>2. CASE p = q
    <3>1. CASE pc[p] \in {"run", "attributes"}
      <4>1. "ours" \notin ToSet(disk[f])
        BY <1>1, <1>3, <1>7, <2>2, <3>1 DEF Step, HookRead, GitConfigRead, GitAttributesRead,
           AttributesRead, InstallRead, InstallMcpRead, ConfigRead, Plans, Truncate, FillPart,
           Fill, AppendLine, Written, Chmod, Rename, Verify, Exit, Goes, Ends, Sorts, Has,
           ToSet
      <4>2. disk'[f] = disk[f]
        BY <1>3, <1>7, <3>1, DiskStep
      <4>. QED  BY <4>1, <4>2
    <3>2. CASE pc[p] \notin {"run", "attributes"}
      <4>1. pc'[p] # "append"
        BY <1>1, <1>7, <3>2 DEF Step, HookRead, GitConfigRead, GitAttributesRead,
           AttributesRead, InstallRead, InstallMcpRead, ConfigRead, Plans, Truncate, FillPart,
           Fill, AppendLine, Written, Chmod, Rename, Verify, Exit, Goes, Ends, Sorts
      <4>. QED  BY <1>7, <2>2, <4>1
    <3>. QED  BY <3>1, <3>2
  <2>3. CASE p # q
    <3>1. p \notin Uses(Touches(f))
      BY <1>3, <2>1, <2>3 DEF Alone
    <3>2. command[p] \notin Touches(f) /\ command[p] \in Commands /\ Writes(p) /\ Holds(p)
      BY <1>1, <3>1 DEF Uses, Sorts, Basics, Known, Shape
    <3>3. ~(pc[p] = "truncate" /\ target[p] = f) /\ ~(pc[p] = "fill" /\ fd[p] = f)
          /\ ~(pc[p] = "append" /\ target[p] = f)
      BY <1>3, <3>2 DEF Writes, Holds, WholeFile, Touches, Commands, NoFile
    <3>4. disk'[f] = disk[f]
      BY <1>3, <1>7, <3>3, DiskStep
    <3>5. pc[q] = "append" /\ target[q] = f
      BY <1>1, <1>7, <2>3 DEF Step, HookRead, GitConfigRead, GitAttributesRead,
         AttributesRead, InstallRead, InstallMcpRead, ConfigRead, Plans, Truncate, FillPart,
         Fill, AppendLine, Chmod, Rename, Verify, Exit, Goes, Ends, Sorts
    <3>. QED  BY <1>4, <3>4, <3>5
  <2>. QED  BY <2>2, <2>3
<1>8. ASSUME NEW p \in Proc, Run(p) \/ Kill(p)
      PROVE  /\ disk' = disk /\ target' = target
             /\ \A q \in Proc : pc'[q] = "append" => pc[q] = "append"
  BY <1>1, <1>8 DEF Run, Kill, Sorts
<1>9. ASSUME NEW g \in Files, Edit(g)
      PROVE  /\ Once(disk'[f])
             /\ "ours" \in ToSet(disk'[f]) => "ours" \in ToSet(disk[f])
             /\ pc' = pc /\ target' = target
  BY <1>3, <1>4, <1>5, <1>9, EditFacts DEF Edit
<1>10. CASE UNCHANGED vars
  BY <1>4, <1>10 DEF vars
<1>. QED
  BY <1>4, <1>6, <1>7, <1>8, <1>9, <1>10 DEF Next

(* However often it is killed and run again, an installer that has a file  *)
(* to itself adds to it once.                                              *)
THEOREM AddedOnceEach == Spec => []OnceEach
<1>1. ASSUME Basics, Single
      PROVE  OnceEach
  <2>1. SUFFICES ASSUME NEW f \in Files, Cardinality(Uses(Touches(f))) <= 1
                 PROVE  Copies(f) <= 1
    BY DEF OnceEach
  <2>. DEFINE at == {i \in DOMAIN disk[f] : disk[f][i] = "ours"}
  <2>2. Once(disk[f])
    <3>1. Uses(Touches(f)) \in SUBSET Proc
      BY DEF Uses
    <3>2. Alone(f)
      BY <2>1, <3>1, AtMostOne DEF Alone
    <3>. QED  BY <1>1, <3>2 DEF Single, Files
  <2>3. CASE at = {}
    BY <2>3, FS_EmptySet DEF Copies
  <2>4. CASE at # {}
    <3>1. PICK i \in at : at = {i}
      BY <2>2, <2>4 DEF Once
    <3>2. Cardinality({i}) = 1
      BY FS_Singleton
    <3>. QED  BY <3>1, <3>2 DEF Copies
  <2>. QED  BY <2>3, <2>4
<1>. QED
  BY <1>1, BasicsInit, BasicsStep, SingleInit, SingleStep, PTL DEF Spec

(***************************************************************************)
(* What an ok means.                                                       *)
(***************************************************************************)
LEMMA InstallsInit == Init => Installs
<1>. SUFFICES ASSUME Init, NEW p \in Proc, NEW f \in Files
              PROVE  ~Past(p, f) /\ pc[p] # "fill"
  BY DEF Installs
<1>. QED
  BY DEF Init, Past

(* Of a file that p has to itself, a step of another leaves all as it is.  *)
LEMMA OwnersOnly ==
  ASSUME Basics, NEW p \in Proc, NEW f \in Files, Uses(Touches(f)) = {p},
         NEW q \in Proc \ {p}, Step(q)
  PROVE  /\ disk'[f] = disk[f]
         /\ pc'[p] = pc[p] /\ target'[p] = target[p] /\ result'[p] = result[p]
         /\ f = "mcp.json" => fd'[p] = fd[p]
<1>1. /\ Sorts /\ Writes(q) /\ Holds(q) /\ Follows(q)
      /\ command[q] \in Commands /\ command[q] \notin Touches(f)
  BY DEF Basics, Known, Shape, Sorts, Uses
<1>2. /\ ~(pc[q] = "truncate" /\ target[q] = f) /\ ~(pc[q] = "fill" /\ fd[q] = f)
      /\ ~(pc[q] = "append" /\ target[q] = f) /\ ~(pc[q] = "rename" /\ f = "mcp.json")
  BY <1>1 DEF Writes, Holds, Follows, WholeFile, Touches, Commands, NoFile, Files
<1>3. disk'[f] = disk[f]
  BY <1>2, DiskStep
<1>4. pc'[p] = pc[p] /\ target'[p] = target[p] /\ result'[p] = result[p]
  BY <1>1 DEF Step, HookRead, GitConfigRead, GitAttributesRead,
     AttributesRead, InstallRead, InstallMcpRead, ConfigRead, Plans, Truncate, FillPart,
     Fill, AppendLine, Chmod, Rename, Verify, Exit, Goes, Ends, Sorts
<1>5. CASE f = "mcp.json"
  <2>1. command[q] \notin {"install", "install-mcp"}
    BY <1>1, <1>5 DEF Touches
  <2>. QED  BY <1>3, <1>4, <2>1, OthersStep
<1>. QED
  BY <1>3, <1>4, <1>5

(* A step of the one that has f to itself.                                 *)
LEMMA OwnerInstalls ==
  ASSUME Basics, Installs, NEW p \in Proc, NEW f \in Files, Uses(Touches(f)) = {p},
         Step(p), Past(p, f)'
  PROVE  "ours" \in ToSet(disk'[f])
<1>1. /\ Sorts /\ Writes(p) /\ Holds(p) /\ Follows(p)
      /\ command[p] \in Commands /\ command[p] \in Touches(f)
      /\ disk[f] \in Seq(Line) /\ "ours" \in Line
  BY DEF Basics, Known, Shape, Sorts, Uses, Line
<1>2. Past(p, f) => "ours" \in ToSet(disk[f])
  BY DEF Installs, Has
<1>. USE DEF Goes
<1>3. CASE HookRead(p)
  BY <1>1, <1>2, <1>3 DEF HookRead, Plans, Past, Touches, Files, Sorts, Has, Follows
<1>4. CASE GitConfigRead(p)
  BY <1>1, <1>2, <1>4 DEF GitConfigRead, Plans, Past, Touches, Files, Sorts, Has, Follows
<1>5. CASE GitAttributesRead(p)
  BY <1>1, <1>2, <1>5, LiteralFacts
  DEF GitAttributesRead, Plans, Ends, Past, Touches, Files, Sorts, Has, Follows
<1>6. CASE AttributesRead(p)
  BY <1>1, <1>2, <1>6, LiteralFacts
  DEF AttributesRead, Plans, Past, Touches, Files, Sorts, Has, Follows
<1>7. CASE InstallRead(p) \/ InstallMcpRead(p)
  BY <1>1, <1>2, <1>7
  DEF InstallRead, InstallMcpRead, ConfigRead, Plans, Ends, Past, Touches, Files, Sorts, Follows
<1>8. CASE Truncate(p)
  BY <1>1, <1>8 DEF Truncate, Past, Touches, Files, Sorts, Follows
<1>9. CASE FillPart(p)
  BY <1>1, <1>9 DEF FillPart, Past, Touches, Files, Sorts, Follows
<1>10. CASE Fill(p)
  <2>1. "ours" \in ToSet(text[p]) /\ result'[p] # "ok"
    BY <1>1, <1>10 DEF Fill, Writes, Follows
  <2>2. fd[p] = f
    BY <1>1, <1>10, <2>1 DEF Fill, Past, Written, Writes, WholeFile, Holds, Touches, Files,
       Sorts, Commands, Installs
  <2>3. f # NoFile /\ f \in All /\ text[p] \in Seq(Line)
    BY <1>1 DEF Files, All, NoFile, Sorts
  <2>4. PICK s \in Overwritten(disk[f], text[p]) : disk' = [disk EXCEPT ![f] = s]
    BY <1>10, <2>2, <2>3 DEF Fill
  <2>5. ToSet(text[p]) \subseteq ToSet(s)
    BY <1>1, <2>3, OverwrittenFacts
  <2>6. disk'[f] = s
    BY <1>1, <2>3, <2>4 DEF Sorts
  <2>. QED  BY <2>1, <2>5, <2>6
<1>11. CASE AppendLine(p)
  <2>1. result'[p] # "ok"
    BY <1>1, <1>11 DEF AppendLine, Follows
  <2>2. CASE target[p] = f
    <3>1. text[p] = <<"ours">>
      BY <1>1, <1>11 DEF AppendLine, Writes
    <3>2. disk'[f] = disk[f] \o <<"ours">>
      BY <1>1, <1>11, <2>2, <3>1 DEF AppendLine, Sorts, All
    <3>3. disk[f] \in Seq(Line) /\ "ours" \in Line
      BY <1>1
    <3>4. /\ disk[f] \o <<"ours">> = Append(disk[f], "ours")
          /\ ToSet(Append(disk[f], "ours")) = ToSet(disk[f]) \cup {"ours"}
      BY <3>3, AddFacts
    <3>. QED  BY <3>2, <3>4
  <2>3. CASE target[p] # f
    <3>1. disk'[f] = disk[f]
      BY <1>1, <1>11, <2>3 DEF AppendLine, Sorts, All
    <3>. QED  BY <1>1, <1>2, <1>11, <2>1, <2>3, <3>1
              DEF AppendLine, Past, Written, Writes, Touches, Files, Sorts
  <2>. QED  BY <2>2, <2>3
<1>12. CASE Chmod(p)
  BY <1>1, <1>2, <1>12 DEF Chmod, Ends, Past, Touches, Files, Sorts, Follows
<1>13. CASE Rename(p)
  BY <1>1, <1>13 DEF Rename, Ends, Past, Touches, Files, Sorts, Follows
<1>14. CASE Verify(p)
  BY <1>1, <1>14 DEF Verify, Ends, Past, Touches, Files, Sorts, Follows, Has
<1>15. CASE Exit(p)
  BY <1>1, <1>2, <1>15 DEF Exit, Ends, Past, Touches, Files, Sorts, Follows
<1>. QED
  BY <1>3, <1>4, <1>5, <1>6, <1>7, <1>8, <1>9, <1>10, <1>11, <1>12, <1>13, <1>14, <1>15
  DEF Step

LEMMA InstallsStep == Basics /\ Installs /\ [Next]_vars => Installs'
<1>. SUFFICES ASSUME Basics, Installs, [Next]_vars
              PROVE  Installs'
  OBVIOUS
<1>1. /\ Sorts /\ Shape /\ command' = command
      /\ \A cmds : Uses(cmds)' = Uses(cmds)
  BY FixedFacts DEF Basics, Known
<1>. SUFFICES ASSUME NEW p \in Proc, NEW f \in Files, Uses(Touches(f)) = {p}
              PROVE  /\ Past(p, f)' => "ours" \in ToSet(disk'[f])
                     /\ pc'[p] = "fill" /\ command[p] = "install-mcp" => fd'[p] = "mcp.json"
  BY <1>1 DEF Installs, Touches, Has
<1>2. /\ Past(p, f) => "ours" \in ToSet(disk[f])
      /\ pc[p] = "fill" /\ command[p] = "install-mcp" => fd[p] = "mcp.json"
  BY DEF Installs, Has
<1>3. ASSUME NEW q \in Proc, Step(q), q # p
      PROVE  /\ Past(p, f)' => "ours" \in ToSet(disk'[f])
             /\ pc'[p] = "fill" /\ command[p] = "install-mcp" => fd'[p] = "mcp.json"
  <2>1. /\ disk'[f] = disk[f]
        /\ pc'[p] = pc[p] /\ target'[p] = target[p] /\ result'[p] = result[p]
        /\ f = "mcp.json" => fd'[p] = fd[p]
    BY <1>3, OwnersOnly
  <2>2. command[p] = "install-mcp" => f = "mcp.json"
    BY DEF Uses, Touches, Files
  <2>. QED  BY <1>2, <2>1, <2>2 DEF Past
<1>4. ASSUME Step(p), pc'[p] = "fill", command[p] = "install-mcp"
      PROVE  fd'[p] = "mcp.json"
  <2>1. Writes(p)
    BY <1>1 DEF Shape
  <2>. QED
    BY <1>1, <1>2, <1>4, <2>1 DEF Step, HookRead, GitConfigRead, GitAttributesRead,
       AttributesRead, InstallRead, InstallMcpRead, ConfigRead, Plans, Truncate, FillPart,
       Fill, AppendLine, Written, Chmod, Rename, Verify, Exit, Goes, Ends, Sorts, Writes,
       WholeFile
<1>5. ASSUME NEW q \in Proc, Run(q) \/ Kill(q)
      PROVE  /\ Past(p, f)' => "ours" \in ToSet(disk'[f])
             /\ pc'[p] = "fill" /\ command[p] = "install-mcp" => fd'[p] = "mcp.json"
  <2>1. disk' = disk
    BY <1>5 DEF Run, Kill
  <2>2. CASE q = p
    BY <1>1, <1>2, <1>5, <2>1, <2>2 DEF Run, Kill, Past, Sorts
  <2>3. CASE q # p
    BY <1>1, <1>2, <1>5, <2>1, <2>3 DEF Run, Kill, Past, Sorts
  <2>. QED  BY <2>2, <2>3
<1>6. ASSUME NEW g \in Files, Edit(g)
      PROVE  /\ ToSet(disk[f]) \subseteq ToSet(disk'[f])
             /\ UNCHANGED <<pc, target, result, fd>>
  BY <1>6, EditFacts DEF Edit
<1>7. CASE UNCHANGED vars
  BY <1>2, <1>7 DEF vars, Past
<1>. QED
  BY <1>2, <1>3, <1>4, <1>5, <1>6, <1>7, OwnerInstalls DEF Next, Past

(* An installer that has its files to itself and ends with ok has done     *)
(* what it says: every file has what it adds, and git can run the hook.    *)
THEOREM OkAlwaysMeansInstalled == Spec => []OkMeansInstalled
<1>1. ASSUME Basics, Installs
      PROVE  OkMeansInstalled
  BY <1>1 DEF Basics, Known, Shape, Follows, Installs, Past, Touches, OkMeansInstalled
<1>. QED
  BY <1>1, BasicsInit, BasicsStep, InstallsInit, InstallsStep, PTL DEF Spec
=============================================================================
