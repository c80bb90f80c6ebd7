------------------------------ MODULE TaskGraph ------------------------------
(***************************************************************************)
(* The task graph of orchestrator/src/task_graph.rs: nodes with a          *)
(* lifecycle state, and a list of dependency edges.  The runtime only ever *)
(* adds edges of kind Control, and add_dependency refuses a second edge    *)
(* with the same ends and kind, so the list is a set of pairs here.        *)
(*                                                                         *)
(* A graph is the pair of a function `st` that gives every task its        *)
(* NodeState ("Absent": not in `nodes`) and a set `E` of edges             *)
(* <<from, to>>.                                                           *)
(***************************************************************************)
EXTENDS Naturals, FiniteSets

NodeState == {"Pending", "Ready", "Running", "Succeeded", "Failed",
              "Skipped", "AwaitingHal"}

(* A slot of the id space: a task in some state, or no such task. *)
Slot == NodeState \cup {"Absent"}

Nodes(st) == {t \in DOMAIN st : st[t] # "Absent"}

Preds(E, t) == {e[1] : e \in {d \in E : d[2] = t}}
Succs(E, t) == {e[2] : e \in {d \in E : d[1] = t}}

(* reachable(src, dst) walks the edges from src; a node reaches itself. *)
(* The walk's visited set is the least set that holds src and is closed  *)
(* under the edges.                                                      *)
Closed(E, S) == \A e \in E : e[1] \in S => e[2] \in S
Reachable(E, src, dst) ==
  \/ src = dst
  \/ \A S \in SUBSET ({src} \cup {e[1] : e \in E} \cup {e[2] : e \in E}) :
        (src \in S /\ Closed(E, S)) => dst \in S

(* Mutant: sees self-loops only. *)
HasSelfLoop(N, E) == \E t \in N : <<t, t>> \in E

(* has_cycle (Kahn): the sort gets stuck exactly when some set of nodes   *)
(* has no member free of predecessors inside the set.                     *)
HasCycle(N, E) ==
  \E S \in (SUBSET N) \ {{}} : \A t \in S : \E u \in S : <<u, t>> \in E

(* add_dependency succeeds on existing ends, a new edge, and no path back. *)
CanAddDependency(st, E, from, to) ==
  /\ {from, to} \subseteq Nodes(st)
  /\ <<from, to>> \notin E
  /\ ~ Reachable(E, to, from)

(* ready_tasks: Pending nodes whose predecessors are all in a final state. *)
(* A Failed or Skipped predecessor counts.                                 *)
ReadyTasks(st, E) ==
  {t \in DOMAIN st : /\ st[t] = "Pending"
                     /\ \A p \in Preds(E, t) :
                          st[p] \in {"Succeeded", "Failed", "Skipped"}}

(* Mutant: looks at the completed predecessor only. *)
ReadyDependentsOfOne(st, E, t) == {c \in Succs(E, t) : st[c] = "Pending"}

(* The children enqueue_ready_dependents makes Ready once `t` completed:   *)
(* here every predecessor has to have Succeeded.                           *)
ReadyDependents(st, E, t) ==
  {c \in Succs(E, t) : /\ st[c] = "Pending"
                       /\ \A p \in Preds(E, c) : st[p] = "Succeeded"}

=============================================================================
