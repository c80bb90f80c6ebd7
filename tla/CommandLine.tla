---------------------------- MODULE CommandLine ----------------------------
(***************************************************************************)
(* The two command lines.  cognos/cli/main.rs edits the index scope and    *)
(* the noprotect list, which are JSON files that several invocations read  *)
(* and rewrite without a lock, and downloads models.  cli/src: the exit    *)
(* status of `cognos intent` (commands.rs) and the TUI (tui.rs).           *)
(***************************************************************************)
EXTENDS Naturals, FiniteSets

CONSTANTS Invocations, EditPaths,   \* concurrent `cognos` processes and the paths they name
          MaxRuns, MaxAgents,       \* bounds: edits made, agents shown
          DecisionCap               \* recent_decisions keeps 200

ASSUME CommandAssumption == {MaxRuns, MaxAgents} \subseteq Nat /\ DecisionCap \in Nat \ {0}

VARIABLES
  lists,    \* "scope" and "noprotect": the paths of the file; a truncated file parses as none
  work,     \* per invocation: Idle, or the edit under way and the list it read
  edits,    \* edits started
  asked,    \* history: per list, what the finished edits amount to, one after the other
  overlapped,    \* history: an edit began or ended while another one was under way
  model, pulled,  \* the model file, and whether the last pull said "Downloaded"
  exit,           \* the last `cognos intent`: its response and its exit
  tab, row, agents, decisions, quit, \* TuiState and Tui::quit
  moved           \* history: since the last move_down a tab was picked or the agents replaced
listVars == <<lists, work, edits, asked, overlapped>>
pullVars == <<model, pulled>>
tuiVars == <<tab, row, agents, decisions, quit, moved>>
commandVars == <<lists, work, edits, asked, overlapped, model, pulled, exit, tab, row, agents, decisions, quit, moved>>

Files == {"scope", "noprotect"}
Idle == [at |-> "idle"]
NoExit == [ok |-> TRUE, reached |-> FALSE]
CommandInit ==
  /\ lists = [f \in Files |-> {}] /\ asked = lists /\ overlapped = FALSE
  /\ work = [i \in Invocations |-> Idle] /\ edits = 0
  /\ model = "absent" /\ pulled = FALSE /\ exit = NoExit
  /\ tab = "agents" /\ row = 0 /\ agents = 0 /\ decisions = 0 /\ quit = FALSE /\ moved = FALSE

-------------------------------------------------------------------------------
Busy(f) == {i \in Invocations : work[i].at # "idle" /\ work[i].file = f}
EditedBlind(op, path, paths) == IF op = "add" THEN {path} ELSE paths \ {path}
Edited(op, path, paths) == IF op = "add" THEN paths \cup {path} ELSE paths \ {path}

\* update_scope and cmd_noprotect read the whole file ...
ReadList(i, f, op, path) ==
  /\ work[i] = Idle /\ edits < MaxRuns /\ edits' = edits + 1
  /\ f = "noprotect" => op = "add"
  /\ work' = [work EXCEPT ![i] = [at |-> "read", file |-> f, op |-> op, path |-> path, seen |-> lists[f]]]
  /\ overlapped' = (overlapped \/ Busy(f) # {})
  /\ UNCHANGED <<lists, asked, pullVars, exit, tuiVars>>
\* ... fs::write empties it ...
TruncateList(i) ==
  LET w == work[i] IN
  /\ w.at = "read" /\ ~(w.file = "noprotect" /\ w.path \in w.seen)
  /\ lists' = [lists EXCEPT ![w.file] = {}] /\ work' = [work EXCEPT ![i].at = "emptied"]
  /\ UNCHANGED <<edits, asked, overlapped, pullVars, exit, tuiVars>>
\* ... and writes what the edit made of the paths read.
WriteList(i) ==
  LET w == work[i] IN
  /\ w.at = "emptied"
  /\ lists' = [lists EXCEPT ![w.file] = Edited(w.op, w.path, w.seen)]
  /\ asked' = [asked EXCEPT ![w.file] = IF w.op = "add" THEN @ \cup {w.path} ELSE @ \ {w.path}]
  /\ work' = [work EXCEPT ![i] = Idle] /\ overlapped' = (overlapped \/ Busy(w.file) # {i})
  /\ UNCHANGED <<edits, pullVars, exit, tuiVars>>
\* noprotect writes nothing for a path the list had.
LeaveList(i) ==
  LET w == work[i] IN
  /\ w.at = "read" /\ w.file = "noprotect" /\ w.path \in w.seen
  /\ asked' = [asked EXCEPT ![w.file] = @ \cup {w.path}]
  /\ work' = [work EXCEPT ![i] = Idle] /\ overlapped' = (overlapped \/ Busy(w.file) # {i})
  /\ UNCHANGED <<lists, edits, pullVars, exit, tuiVars>>

\* curl's exit decides what is said; without --fail it is 0 for an error page too.
CurlSucceeds(content) == content \in {"whole", "error page"}
PullModel(content) ==
  /\ model' = (IF content = "nothing" THEN model ELSE content)
  /\ pulled' = CurlSucceeds(content)
  /\ UNCHANGED <<listVars, exit, tuiVars>>
RemoveModel == model # "absent" /\ model' = "absent" /\ pulled' = FALSE /\ UNCHANGED <<listVars, exit, tuiVars>>

\* cmd_intent: the report decides, else the status; bytes that are no JSON decide nothing.
Succeeds(response) ==
  CASE response.report = "empty" -> response.status = "ok"
    [] response.report = "not json" -> TRUE
    [] response.report = "no verdict" -> response.status = "ok"
    [] OTHER -> response.report = "success"
Responses == [status : {"ok", "error"}, report : {"empty", "not json", "no verdict", "success", "failure"}]
CmdIntent ==
  /\ exit' \in {[ok |-> FALSE, reached |-> FALSE]}      \* connect or dispatch failed
               \cup {[ok |-> Succeeds(r), reached |-> TRUE, response |-> r] : r \in Responses}
  /\ UNCHANGED <<listVars, pullVars, tuiVars>>

-------------------------------------------------------------------------------
CurrentLen == CASE tab = "agents" -> agents [] tab = "decisions" -> decisions [] OTHER -> 0
PickTab(t) == tab' = t /\ moved' = TRUE /\ UNCHANGED <<row, agents, decisions, quit>>
MoveUp ==
  /\ CurrentLen > 0 /\ row' = (IF row = 0 THEN CurrentLen - 1 ELSE row - 1)
  /\ UNCHANGED <<tab, agents, decisions, quit, moved>>
BelowUnwrapped(r) == IF r < CurrentLen THEN r + 1 ELSE 0
Below(r) == (r + 1) % CurrentLen
MoveDown ==
  /\ CurrentLen > 0 /\ row' = Below(row) /\ moved' = FALSE
  /\ UNCHANGED <<tab, agents, decisions, quit>>
\* handle_event: the roster is replaced, a decision pushed and the oldest dropped at the cap.
AgentsUpdated(n) == agents' = n /\ moved' = TRUE /\ UNCHANGED <<tab, row, decisions, quit>>
HalDecidedUncapped == decisions <= DecisionCap /\ decisions' = decisions + 1 /\ UNCHANGED <<tab, row, agents, quit, moved>>
HalDecided ==
  /\ decisions' = (IF decisions + 1 > DecisionCap THEN DecisionCap ELSE decisions + 1)
  /\ UNCHANGED <<tab, row, agents, quit, moved>>
Quits == quit' = TRUE /\ UNCHANGED <<tab, row, agents, decisions, moved>>
TuiNext ==
  /\ ~quit /\ UNCHANGED <<listVars, pullVars, exit>>
  /\ \/ \E t \in {"agents", "decisions", "memory", "metrics"} : PickTab(t)
     \/ MoveUp \/ MoveDown \/ HalDecided \/ Quits
     \/ \E n \in 0..MaxAgents : AgentsUpdated(n)

\* Four separate programs: a behaviour runs one kind.
NoEdit == edits = 0
NoTui == tab = "agents" /\ ~moved /\ decisions = 0 /\ ~quit
NoPull == model = "absent" /\ ~pulled
CommandNext ==
  \/ /\ NoTui /\ NoPull /\ exit = NoExit
     /\ \/ \E i \in Invocations, f \in Files, op \in {"add", "remove"}, p \in EditPaths : ReadList(i, f, op, p)
        \/ \E i \in Invocations : TruncateList(i) \/ WriteList(i) \/ LeaveList(i)
  \/ NoEdit /\ NoTui /\ exit = NoExit /\ \E c \in {"whole", "part", "error page", "nothing"} : PullModel(c)
  \/ NoEdit /\ NoTui /\ (RemoveModel \/ (NoPull /\ CmdIntent))
  \/ NoEdit /\ NoPull /\ exit = NoExit /\ TuiNext

CommandTypeOK ==
  /\ lists \in [Files -> SUBSET EditPaths] /\ asked \in [Files -> SUBSET EditPaths] /\ edits \in 0..MaxRuns
  /\ agents \in 0..MaxAgents /\ decisions \in 0..DecisionCap
  /\ model \in {"absent", "whole", "part", "error page"}

(* What keeps these: edits that do not overlap are one at a time, and read *)
(* what the earlier ones amount to; a row that is out of range is the      *)
(* first, unless the tab or the roster changed.                            *)
Editing == [at : {"read", "emptied"}, file : Files, op : {"add", "remove"}, path : EditPaths, seen : SUBSET EditPaths]
CommandInv ==
  /\ CommandTypeOK /\ work \in [Invocations -> {Idle} \cup Editing]
  /\ ~overlapped => \A f \in Files :
       /\ \A i, j \in Busy(f) : i = j
       /\ \A i \in Busy(f) : work[i].seen = asked[f] /\ (work[i].at = "read" => lists[f] = asked[f])
       /\ Busy(f) = {} => lists[f] = asked[f]
  /\ row \in Nat /\ (moved \/ row = 0 \/ row < CurrentLen)

(***************************************************************************)
(* Without overlapping edits both files say what the edits asked for, when *)
(* no edit is under way; two processes that overlap lose edits, or the     *)
(* whole list when one reads the file the other has just emptied.          *)
(***************************************************************************)
EditsKept == ~overlapped => \A f \in Files : Busy(f) = {} => lists[f] = asked[f]

(***************************************************************************)
(* The highlighted row exists, unless the tab or the roster has changed    *)
(* since the last move down: neither handler resets it.                    *)
(***************************************************************************)
RowShown == CurrentLen > 0 /\ row >= CurrentLen => moved
================================================================================
