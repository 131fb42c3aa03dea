------------------------------ MODULE Register ------------------------------
(***************************************************************************)
(* The commands that write into other people's files                       *)
(* (crates/habitat-graph-cli/src/commands):                                *)
(*   install       a server's entry in the client's configuration, by way  *)
(*                 of a .bak file and a rename (install.rs);               *)
(*   install-mcp   the same entry, the file overwritten (install_mcp.rs);  *)
(*   hook          the post-commit hook (hook.rs);                         *)
(*   merge-driver  .git/config and .gitattributes, appended (hook.rs);     *)
(*   attributes    .gitattributes, overwritten (merge_driver.rs).          *)
(*                                                                         *)
(* Several may run at once, the user may edit between their steps, and     *)
(* each may be killed and run again.  A step is one file operation.  What  *)
(* is written as a whole is empty first and may be torn in between.  A     *)
(* file is a sequence of lines or entries, empty when it is absent (but    *)
(* for the .bak file, where a rename tells the difference); a rename takes *)
(* along whoever has the file open.                                        *)
(***************************************************************************)
EXTENDS Integers, Sequences, SequencesExt, FiniteSets

CONSTANTS
  Proc,       \* the processes
  MaxRuns,    \* how often each may be started
  MaxKills,   \* how often one may be killed
  MaxEdits    \* how often the user edits

ASSUME BoundsAssumption == {MaxRuns, MaxKills, MaxEdits} \subseteq Nat
ASSUME ProcAssumption == IsFiniteSet(Proc)

Commands == {"install", "install-mcp", "hook", "merge-driver", "attributes"}
Files == {"hook", "gitconfig", "attributes", "mcp.json"}
All == Files \cup {"mcp.bak"}
NoFile == "none"
Line == {"shebang", "user", "edit", "ours", "torn"}
Absent == <<"absent">>   \* what the .bak file holds when there is none

VARIABLES
  command,     \* command[p]: what p runs
  pc,          \* pc[p]: the next step of p
  target,      \* target[p]: the file p is about to write
  text,        \* text[p]: what it will write
  fd,          \* fd[p]: the file p has open, followed through renames
  result,      \* result[p]: none, ok or error
  runs, kills, edits,
  disk,        \* disk[f]: the content of f
  readable,    \* .gitattributes is UTF-8
  executable,  \* the hook's mode
  had          \* history: the user's lines were there from the start

process == <<command, runs, kills, edits, readable, had>>
vars == <<process, pc, target, text, fd, result, disk, executable>>

Init ==
  /\ command \in [Proc -> Commands]
  /\ pc = [p \in Proc |-> "start"]
  /\ target = [p \in Proc |-> NoFile]
  /\ text = [p \in Proc |-> <<>>]
  /\ fd = [p \in Proc |-> NoFile]
  /\ result = [p \in Proc |-> "none"]
  /\ runs = [p \in Proc |-> 0] /\ kills = 0 /\ edits = 0
  /\ had \in BOOLEAN
  /\ disk = [f \in All |-> IF f = "mcp.bak" THEN Absent
                            ELSE IF had THEN <<"user">> ELSE <<>>]
  /\ readable \in BOOLEAN
  /\ executable = FALSE

Has(f, line) == line \in ToSet(disk[f])

(* merge_entry: an entry of that name is replaced.                         *)
With(s) == IF "ours" \in ToSet(s) THEN s ELSE Append(s, "ours")

Goes(p, from, to) == pc[p] = from /\ pc' = [pc EXCEPT ![p] = to]
Ends(p, r) ==
  /\ pc' = [pc EXCEPT ![p] = "done"]
  /\ result' = [result EXCEPT ![p] = r]
Plans(p, to, f, s) ==
  /\ pc' = [pc EXCEPT ![p] = to]
  /\ target' = [target EXCEPT ![p] = f]
  /\ text' = [text EXCEPT ![p] = s]
  /\ UNCHANGED <<process, fd, result, disk, executable>>

(* What follows when a file is written.                                    *)
Written(p) ==
  CASE command[p] = "hook" -> "chmod"
    [] command[p] = "install" -> "rename"
    [] command[p] = "merge-driver" /\ target[p] = "gitconfig" -> "attributes"
    [] OTHER -> "exit"
-----------------------------------------------------------------------------
(***************************************************************************)
(* What each command reads, and what it decides to write.                  *)
(***************************************************************************)
(* Mutant of HookRead: the marker is not looked for.                       *)
HookReadUnmarked(p) ==
  /\ command[p] = "hook" /\ pc[p] = "run"
  /\ IF disk["hook"] = <<>>
     THEN Plans(p, "truncate", "hook", <<"shebang", "ours">>)
     ELSE Plans(p, "append", "hook", <<"ours">>)

(* install_post_commit: the body is there, or the file is new, or it is    *)
(* appended to.                                                            *)
HookRead(p) ==
  /\ command[p] = "hook" /\ pc[p] = "run"
  /\ IF Has("hook", "ours") THEN Plans(p, "chmod", "hook", <<>>)
     ELSE IF disk["hook"] = <<>>
          THEN Plans(p, "truncate", "hook", <<"shebang", "ours">>)
          ELSE Plans(p, "append", "hook", <<"ours">>)

(* install_git_config, then install_gitattributes of hook.rs.              *)
GitConfigRead(p) ==
  /\ command[p] = "merge-driver" /\ pc[p] = "run"
  /\ IF Has("gitconfig", "ours") THEN Plans(p, "attributes", "gitconfig", <<>>)
     ELSE Plans(p, "append", "gitconfig", <<"ours">>)

GitAttributesRead(p) ==
  /\ command[p] = "merge-driver" /\ pc[p] = "attributes"
  /\ \/ /\ readable
        /\ IF Has("attributes", "ours") THEN Plans(p, "exit", "attributes", <<>>)
           ELSE Plans(p, "append", "attributes", <<"ours">>)
     \/ /\ ~readable /\ disk["attributes"] # <<>>
        /\ Ends(p, "error")
        /\ UNCHANGED <<process, target, text, fd, disk, executable>>
     \/ /\ ~readable /\ disk["attributes"] = <<>>
        /\ Plans(p, "append", "attributes", <<"ours">>)

(* install_gitattributes of merge_driver.rs: unreadable is empty.          *)
AttributesRead(p) ==
  /\ command[p] = "attributes" /\ pc[p] = "run"
  /\ LET existing == IF readable THEN disk["attributes"] ELSE <<>>
     IN  IF "ours" \in ToSet(existing) THEN Plans(p, "exit", "attributes", <<>>)
         ELSE Plans(p, "truncate", "attributes", existing \o <<"ours">>)

(* Mutant of ConfigRead: a config that does not parse is not refused.      *)
ConfigReadTorn(p, cmd, f) ==
  /\ command[p] = cmd /\ pc[p] = "run"
  /\ Plans(p, "truncate", f, With(disk["mcp.json"]))

(* read_config and merge_entry, of both installers.                        *)
ConfigRead(p, cmd, f) ==
  /\ command[p] = cmd /\ pc[p] = "run"
  /\ \/ /\ Has("mcp.json", "torn")
        /\ Ends(p, "error")
        /\ UNCHANGED <<process, target, text, fd, disk, executable>>
     \/ /\ ~Has("mcp.json", "torn")
        /\ Plans(p, "truncate", f, With(disk["mcp.json"]))

(* Mutant of InstallRead: the file itself is written.                      *)
InstallReadInPlace(p) == ConfigRead(p, "install", "mcp.json")

InstallRead(p) == ConfigRead(p, "install", "mcp.bak")
InstallMcpRead(p) == ConfigRead(p, "install-mcp", "mcp.json")
-----------------------------------------------------------------------------
(***************************************************************************)
(* How it is written.                                                      *)
(***************************************************************************)
(* Mutant of Truncate: a backup that was left behind is not overwritten.   *)
TruncateNew(p) ==
  /\ pc[p] = "truncate" /\ target[p] = "mcp.bak" => disk["mcp.bak"] = Absent
  /\ Goes(p, "truncate", "fill")
  /\ disk' = [disk EXCEPT ![target[p]] = <<>>]
  /\ fd' = [fd EXCEPT ![p] = target[p]]
  /\ UNCHANGED <<process, target, text, result, executable>>

(* fs::write: the file is opened, empty now; some of the text is there;    *)
(* all of it is.  The few lines of the hook are written by one call.       *)
Truncate(p) ==
  /\ Goes(p, "truncate", "fill")
  /\ disk' = [disk EXCEPT ![target[p]] = <<>>]
  /\ fd' = [fd EXCEPT ![p] = target[p]]
  /\ UNCHANGED <<process, target, text, result, executable>>

(* A write starts at the beginning of the file.  When the user or another  *)
(* process has filled the file since it was opened, and not with the same, *)
(* the end of a longer text remains, from within a line on ("torn" stands  *)
(* for all of it); a part of what is being written does not.               *)
Overwritten(old, new) ==
  IF IsPrefix(old, new) \/ old = <<"torn">> THEN {new}
  ELSE IF IsPrefix(new, old) THEN {old}
  ELSE {new, Append(new, "torn")}

FillPart(p) ==
  /\ pc[p] = "fill" /\ fd[p] # NoFile
  /\ fd[p] # "hook"
  /\ ~IsPrefix(<<"torn">>, disk[fd[p]])
  /\ ~IsPrefix(text[p], disk[fd[p]])
  /\ \E s \in Overwritten(disk[fd[p]], <<"torn">>) : disk' = [disk EXCEPT ![fd[p]] = s]
  /\ UNCHANGED <<process, pc, target, text, fd, result, executable>>

Fill(p) ==
  /\ Goes(p, "fill", Written(p))
  /\ IF fd[p] = NoFile THEN UNCHANGED disk
     ELSE \E s \in Overwritten(disk[fd[p]], text[p]) : disk' = [disk EXCEPT ![fd[p]] = s]
  /\ fd' = [fd EXCEPT ![p] = NoFile]
  /\ UNCHANGED <<process, target, text, result, executable>>

(* Mutant of AppendLine: the file is opened for writing.                   *)
AppendLineAlone(p) ==
  /\ Goes(p, "append", Written(p))
  /\ disk' = [disk EXCEPT ![target[p]] = text[p]]
  /\ UNCHANGED <<process, target, text, fd, result, executable>>

(* append_to_file.                                                         *)
AppendLine(p) ==
  /\ Goes(p, "append", Written(p))
  /\ disk' = [disk EXCEPT ![target[p]] = @ \o text[p]]
  /\ UNCHANGED <<process, target, text, fd, result, executable>>

(* Mutant of Chmod: only a new file is made executable.                    *)
ChmodNew(p) ==
  /\ pc[p] = "chmod"
  /\ executable' = (executable \/ text[p] = <<"shebang", "ours">>)
  /\ Ends(p, "ok")
  /\ UNCHANGED <<process, target, text, fd, disk>>

(* set_permissions.                                                        *)
Chmod(p) ==
  /\ pc[p] = "chmod"
  /\ executable' = TRUE
  /\ Ends(p, "ok")
  /\ UNCHANGED <<process, target, text, fd, disk>>

(* atomic_write_and_verify: the rename, which fails when another installer *)
(* has renamed the file, and the look at the result.                       *)
Rename(p) ==
  /\ pc[p] = "rename"
  /\ \/ /\ disk["mcp.bak"] # Absent
        /\ pc' = [pc EXCEPT ![p] = "verify"]
        /\ disk' = [disk EXCEPT !["mcp.json"] = disk["mcp.bak"], !["mcp.bak"] = Absent]
        /\ fd' = [q \in Proc |-> CASE fd[q] = "mcp.bak" -> "mcp.json"
                                   [] fd[q] = "mcp.json" -> NoFile
                                   [] OTHER -> fd[q]]
        /\ UNCHANGED result
     \/ /\ disk["mcp.bak"] = Absent
        /\ Ends(p, "error")
        /\ UNCHANGED <<disk, fd>>
  /\ UNCHANGED <<process, target, text, executable>>

Verify(p) ==
  /\ pc[p] = "verify"
  /\ Ends(p, IF Has("mcp.json", "ours") THEN "ok" ELSE "error")
  /\ UNCHANGED <<process, target, text, fd, disk, executable>>

Exit(p) ==
  /\ pc[p] = "exit"
  /\ Ends(p, "ok")
  /\ UNCHANGED <<process, target, text, fd, disk, executable>>
-----------------------------------------------------------------------------
(***************************************************************************)
(* The environment.                                                        *)
(***************************************************************************)
(* A command that was killed or failed, or even one that was not, is run   *)
(* (again).                                                                *)
Run(p) ==
  /\ pc[p] \in {"start", "done"} /\ runs[p] < MaxRuns
  /\ pc' = [pc EXCEPT ![p] = "run"]
  /\ runs' = [runs EXCEPT ![p] = @ + 1]
  /\ result' = [result EXCEPT ![p] = "none"]
  /\ UNCHANGED <<command, kills, edits, readable, had, target, text, fd, disk,
                 executable>>

(* A run is left after each that is killed.                                *)
Kill(p) ==
  /\ pc[p] \notin {"start", "done"} /\ kills < MaxKills /\ runs[p] < MaxRuns
  /\ kills' = kills + 1
  /\ pc' = [pc EXCEPT ![p] = "start"]
  /\ fd' = [fd EXCEPT ![p] = NoFile]
  /\ UNCHANGED <<command, runs, edits, readable, had, target, text, result, disk,
                 executable>>

(* The user adds a line or an entry to a file that is whole, or creates    *)
(* the file with it; in place, by appending.                               *)
Edit(f) ==
  /\ edits < MaxEdits /\ f \in Files
  /\ ~Has(f, "torn")
  /\ disk' = [disk EXCEPT ![f] = Append(@, "edit")]
  /\ edits' = edits + 1
  /\ UNCHANGED <<command, runs, kills, readable, had, pc, target, text, fd,
                 result, executable>>

Step(p) ==
  \/ HookRead(p) \/ GitConfigRead(p) \/ GitAttributesRead(p)
  \/ AttributesRead(p) \/ InstallRead(p) \/ InstallMcpRead(p)
  \/ Truncate(p) \/ FillPart(p) \/ Fill(p) \/ AppendLine(p)
  \/ Chmod(p) \/ Rename(p) \/ Verify(p) \/ Exit(p)

Next ==
  \/ \E p \in Proc : Step(p) \/ Run(p) \/ Kill(p)
  \/ \E f \in Files : Edit(f)

Spec == Init /\ [][Next]_vars

(* A process runs; a user who was told of a failure, or killed the         *)
(* process, runs it again.                                                 *)
FairSpec ==
  /\ Spec
  /\ \A p \in Proc : WF_vars(Step(p)) /\ WF_vars(result[p] # "ok" /\ Run(p))
-----------------------------------------------------------------------------
(***************************************************************************)
(* Properties.                                                             *)
(***************************************************************************)
PCs == {"start", "run", "truncate", "fill", "append", "attributes", "chmod",
        "rename", "verify", "exit", "done"}

TypeOK ==
  /\ command \in [Proc -> Commands]
  /\ pc \in [Proc -> PCs]
  /\ target \in [Proc -> All \cup {NoFile}]
  /\ fd \in [Proc -> All \cup {NoFile}]
  /\ result \in [Proc -> {"none", "ok", "error"}]
  /\ \A f \in Files : disk[f] \in Seq(Line)
  /\ disk["mcp.bak"] \in Seq(Line) \cup {Absent}
  /\ \A p \in Proc :
       /\ text[p] \in Seq(Line)
       /\ "torn" \in ToSet(text[p]) => command[p] = "attributes"

Uses(cmds) == {p \in Proc : command[p] \in cmds}
Touches(f) ==
  CASE f = "hook" -> {"hook"}
    [] f = "gitconfig" -> {"merge-driver"}
    [] f = "attributes" -> {"merge-driver", "attributes"}
    [] OTHER -> {"install", "install-mcp"}

(* The commands that found f empty and are about to write it as new.       *)
Creating(f) == {p \in Proc : target[p] = f /\ pc[p] \in {"truncate", "fill"}}

(* hook.rs appends: a line of the user's, there from the start or added    *)
(* between any two steps, that is in a file no command is about to create  *)
(* stays there for good, whatever runs at once and is killed; no command   *)
(* will create that file any more.  (attributes rewrites .gitattributes.)  *)
Secure(f, line) == Has(f, line) /\ Creating(f) = {}
UserLinesKept ==
  [][\A f \in {"hook", "gitconfig", "attributes"}, line \in {"user", "edit"} :
       (f = "attributes" => Uses({"attributes"}) = {}) /\ Secure(f, line)
         => Secure(f, line)']_vars

(* "Existing hooks are never overwritten" (hook.rs:9-10): no step takes a  *)
(* line of the user's out of the hook.                                     *)
HookNeverOverwritten ==
  [][\A line \in {"user", "edit"} : Has("hook", line) => Has("hook", line)']_vars

(* install writes beside the file and renames: with one installer, killed  *)
(* or not, the configuration is whole and has the user's servers.          *)
ConfigWhole ==
  Uses({"install-mcp"}) = {} /\ Cardinality(Uses({"install"})) <= 1 =>
    /\ ~Has("mcp.json", "torn")
    /\ had => Has("mcp.json", "user")

(* However often one installer is killed and run again, the files have     *)
(* what it adds once.                                                      *)
Copies(f) == Cardinality({i \in DOMAIN disk[f] : disk[f][i] = "ours"})
OnceEach ==
  \A f \in Files : Cardinality(Uses(Touches(f))) <= 1 => Copies(f) <= 1

(* An installer that has the files to itself and says ok is right: what it *)
(* adds is there, and a hook can be run.  (What the user wrote while       *)
(* install-mcp was writing may remain behind it.)                          *)
OkMeansInstalled ==
  \A p \in Proc : result[p] = "ok" =>
    \A f \in Files :
      command[p] \in Touches(f) /\ Uses(Touches(f)) = {p} =>
        /\ Has(f, "ours") \/ pc[p] # "done"
        /\ f = "hook" => executable

(* Run again after it was killed, such an installer gets there and stays   *)
(* there, unless it writes the configuration in place, where a torn file   *)
(* is in its own way, or cannot read .gitattributes.                       *)
RetrySucceeds ==
  \A p \in Proc :
    (/\ command[p] # "install-mcp"
     /\ command[p] = "merge-driver" => readable
     /\ \A f \in Files : command[p] \in Touches(f) => Uses(Touches(f)) = {p})
      ~> result[p] = "ok"
=============================================================================
