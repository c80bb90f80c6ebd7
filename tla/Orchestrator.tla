---------------------------- MODULE Orchestrator ----------------------------
(***************************************************************************)
(* The orchestrator's ingress pipeline: serve.rs takes a DispatchIntent    *)
(* request, waits for the runtime's mutex, and runs submit_and_execute of  *)
(* runtime.rs under it: reset the graph and the scheduler, decompose the   *)
(* intent (intent_adapter.rs), then pop, gate, execute and complete one    *)
(* task at a time until the queue is empty or a task did not succeed.      *)
(*                                                                         *)
(* Every `.await` inside the handler is a step boundary.  At each of them  *)
(* the client may go away (Ctrl-C or its own 120 s timeout): the handler's *)
(* future is dropped, the mutex is released with the runtime as it stands, *)
(* and a spawned agent subprocess keeps running.                           *)
(*                                                                         *)
(* Data is abstract: a task is a slot of the id space, a capability is     *)
(* whether hal_gate::is_side_effecting holds of it, an intent text is the  *)
(* plan it decomposes into.                                                *)
(***************************************************************************)
EXTENDS TaskGraph

CONSTANTS
  Req,          \* request slots of the ingress server
  Task,         \* slots for the task ids one intent mints
  NoReq, NoTask,
  HalGate,      \* what hal_gate may be at a dispatch: {"Some"} once a client is attached
  MaxOrphans    \* bound: agent subprocesses left behind by dropped handlers

ASSUME ReqAssumption == NoReq \notin Req
ASSUME TaskAssumption == NoTask \notin Task
ASSUME ConfigAssumption == HalGate \subseteq {"Some", "None"} /\ MaxOrphans \in Nat

VARIABLES
  req,      \* per slot: where its DispatchIntent call stands
  holder,   \* the request that holds the runtime mutex
  phase,    \* where the holder's handler is suspended
  cur,      \* the task popped last
  st, edges, \* TaskGraph { nodes, edges }
  effects,  \* the tasks whose capability is side-effecting
  queue, inFlight, clock, \* OrchestratorScheduler; clock orders submitted_at
  statuses, \* the statuses in the report's task records so far
  cleared,  \* history: tasks HAL granted or the user approved, this request
  started,  \* history: how often the executor was started per task
  orphans   \* agent subprocesses whose handler was dropped

graphVars == <<st, edges, effects>>
schedVars == <<queue, inFlight, clock>>
vars == <<req, holder, phase, cur, graphVars, schedVars, statuses, cleared,
          started, orphans>>

Final == {"ok", "failed", "error", "gone"}
ReqState == {"idle", "waiting", "active"} \cup Final
Phase == {"unlocked", "decompose", "loop", "gate", "approve", "exec"}
Status == {"succeeded", "failed", "denied"}

(* SchedEntry; every entry of this pipeline has Priority(50). *)
Entry == [task : Task, at : Nat]

(* A dropped handler's agent: was its task side-effecting, was it cleared? *)
Orphan == [task : Task, effect : BOOLEAN, cleared : BOOLEAN]

TypeOK ==
  /\ req \in [Req -> ReqState]
  /\ holder \in Req \cup {NoReq}
  /\ phase \in Phase
  /\ cur \in Task \cup {NoTask}
  /\ st \in [Task -> Slot]
  /\ edges \subseteq Task \X Task
  /\ effects \subseteq Task
  /\ queue \subseteq Entry
  /\ inFlight \subseteq Task
  /\ clock \in Nat
  /\ statuses \subseteq Status
  /\ cleared \subseteq Task
  /\ started \in [Task -> Nat]
  /\ orphans \subseteq Orphan

EmptyGraph == [t \in Task |-> "Absent"]

Init ==
  /\ req = [r \in Req |-> "idle"]
  /\ holder = NoReq /\ phase = "unlocked" /\ cur = NoTask
  /\ st = EmptyGraph /\ edges = {} /\ effects = {}
  /\ queue = {} /\ inFlight = {} /\ clock = 0
  /\ statuses = {} /\ cleared = {}
  /\ started = [t \in Task |-> 0]
  /\ orphans = {}

-----------------------------------------------------------------------------
(* The ingress: a client calls, takes its answer, or is never heard again. *)

Call(r) ==
  /\ req[r] = "idle"
  /\ req' = [req EXCEPT ![r] = "waiting"]
  /\ UNCHANGED <<holder, phase, cur, graphVars, schedVars, statuses, cleared,
                 started, orphans>>

TakeAnswer(r) ==
  /\ req[r] \in Final
  /\ req' = [req EXCEPT ![r] = "idle"]
  /\ UNCHANGED <<holder, phase, cur, graphVars, schedVars, statuses, cleared,
                 started, orphans>>

(* Mutant: does not wait for the mutex. *)
AcquireHeld(r) ==
  /\ req[r] = "waiting"
  /\ req' = [req EXCEPT ![r] = "active"]
  /\ holder' = r /\ phase' = "decompose" /\ cur' = NoTask
  /\ st' = EmptyGraph /\ edges' = {} /\ effects' = {}
  /\ queue' = {} /\ inFlight' = {} /\ clock' = 0
  /\ statuses' = {} /\ cleared' = {}
  /\ started' = [t \in Task |-> 0]
  /\ UNCHANGED orphans

(* runtime.lock().await, then reset_execution_state. *)
Acquire(r) ==
  /\ req[r] = "waiting" /\ holder = NoReq
  /\ req' = [req EXCEPT ![r] = "active"]
  /\ holder' = r /\ phase' = "decompose" /\ cur' = NoTask
  /\ st' = EmptyGraph /\ edges' = {} /\ effects' = {}
  /\ queue' = {} /\ inFlight' = {} /\ clock' = 0
  /\ statuses' = {} /\ cleared' = {}
  /\ started' = [t \in Task |-> 0]
  /\ UNCHANGED orphans

(* The handler returns `outcome` and releases the mutex; the graph and the *)
(* scheduler stay as they are until the next request resets them.          *)
Release(outcome) ==
  /\ req' = [req EXCEPT ![holder] = outcome]
  /\ holder' = NoReq /\ phase' = "unlocked"

-----------------------------------------------------------------------------
(* submit *)

Enqueue(S) ==
  /\ queue' = queue \cup {[task |-> t, at |-> clock] : t \in S}
  /\ clock' = clock + 1

(* Nodes and edges are added, the ready roots enqueued in no fixed order. *)
Install(N, E, S) ==
  LET g == [t \in Task |-> IF t \in N THEN "Pending" ELSE "Absent"]
      roots == ReadyTasks(g, E)
  IN /\ edges' = E /\ effects' = S
     /\ st' = [t \in Task |-> IF t \in roots THEN "Ready" ELSE g[t]]
     /\ \/ /\ roots # {}
           /\ Enqueue(roots)
           /\ phase' = "loop" /\ UNCHANGED <<req, holder>>
        \/ /\ roots = {} /\ Release("error")
           /\ UNCHANGED <<queue, clock>>
     /\ UNCHANGED <<cur, inFlight, statuses, cleared, started, orphans>>

(* What proto_graph_to_plan accepts: some nodes, edges between them and no  *)
(* cycle; `effects` are the nodes whose capability is side-effecting.       *)
Plans ==
  UNION {{[nodes |-> N, edges |-> E, effects |-> S] :
             E \in {F \in SUBSET (N \X N) : ~ HasCycle(N, F)}, S \in SUBSET N} :
           N \in (SUBSET Task) \ {{}}}

(* The intent-engine answered with such a graph. *)
EnginePlan(p) ==
  /\ phase = "decompose"
  /\ Install(p.nodes, p.edges, p.effects)

(* A bad status, no graph, no nodes, an unknown edge end or a cycle. *)
EngineRefused ==
  /\ phase = "decompose"
  /\ Release("error")
  /\ UNCHANGED <<cur, graphVars, schedVars, statuses, cleared, started,
                 orphans>>

(* An edge listed twice passes has_cycle and makes add_dependency fail,    *)
(* when the nodes and the edges before it (P) are already in the graph.    *)
EngineDuplicateEdge(p) ==
  /\ phase = "decompose"
  /\ \E P \in (SUBSET p.edges) \ {{}} : edges' = P
  /\ st' = [t \in Task |-> IF t \in p.nodes THEN "Pending" ELSE "Absent"]
  /\ effects' = p.effects
  /\ Release("error")
  /\ UNCHANGED <<cur, schedVars, statuses, cleared, started, orphans>>

(* Transport error: the keyword classifier's linear chains.  Two steps,    *)
(* read-only or ending in a side effect; for coding, plan, execute,        *)
(* validate.                                                               *)
LocalPlan ==
  /\ phase = "decompose"
  /\ \E a, b \in Task :
       /\ a # b
       /\ \/ \E S \in {{}, {b}} : Install({a, b}, {<<a, b>>}, S)
          \/ \E c \in Task \ {a, b} :
                Install({a, b, c}, {<<a, b>>, <<b, c>>}, {b})

-----------------------------------------------------------------------------
(* The scheduler loop of submit_and_execute *)

(* BinaryHeap::pop: an entry no other entry was submitted before. *)
Oldest(e) == \A f \in queue : e.at <= f.at

(* The loop goes on while there are entries and every record succeeded. *)
KeepGoing == queue # {} /\ statuses \subseteq {"succeeded"}

(* Mutant: peeks instead of popping. *)
PeekEntry(e) ==
  /\ phase = "loop" /\ KeepGoing
  /\ e \in queue /\ Oldest(e)
  /\ inFlight' = inFlight \cup {e.task}
  /\ cur' = e.task
  /\ UNCHANGED <<queue, edges, effects, clock, statuses, orphans>>

PopEntry(e) ==
  /\ phase = "loop" /\ KeepGoing
  /\ e \in queue /\ Oldest(e)
  /\ queue' = queue \ {e}
  /\ inFlight' = inFlight \cup {e.task}
  /\ cur' = e.task
  /\ UNCHANGED <<edges, effects, clock, statuses, orphans>>

(* mark_running, then execute_node starts the agent. *)
Start(t) ==
  /\ st' = [st EXCEPT ![t] = "Running"]
  /\ started' = [started EXCEPT ![t] = @ + 1]
  /\ phase' = "exec"

(* Mutant: dispatches whatever it popped. *)
DispatchUnchecked(e) ==
  /\ PopEntry(e)
  /\ Start(e.task)
  /\ UNCHANGED <<req, holder, cleared>>

DispatchReadOnly(e) ==
  /\ PopEntry(e)
  /\ e.task \notin effects
  /\ Start(e.task)
  /\ UNCHANGED <<req, holder, cleared>>

(* Fail closed: the whole request ends with HalDenied. *)
DispatchNoGate(e) ==
  /\ PopEntry(e)
  /\ e.task \in effects /\ "None" \in HalGate
  /\ st' = [st EXCEPT ![e.task] = "Failed"]
  /\ Release("error")
  /\ UNCHANGED <<cleared, started>>

DispatchToGate(e) ==
  /\ PopEntry(e)
  /\ e.task \in effects /\ "Some" \in HalGate
  /\ phase' = "gate"
  /\ UNCHANGED <<req, holder, st, cleared, started>>

(* HAL's answer to HalGate. *)
GateGranted ==
  /\ phase = "gate"
  /\ cleared' = cleared \cup {cur}
  /\ Start(cur)
  /\ UNCHANGED <<req, holder, cur, edges, effects, schedVars, statuses,
                 orphans>>

GateApprovalRequired ==
  /\ phase = "gate"
  /\ st' = [st EXCEPT ![cur] = "AwaitingHal"]
  /\ phase' = "approve"
  /\ UNCHANGED <<req, holder, cur, edges, effects, schedVars, statuses,
                 cleared, started, orphans>>

(* Mutant: records the status of the branch for other platforms. *)
DenyAwaiting ==
  /\ st' = [st EXCEPT ![cur] = "Failed"]
  /\ statuses' = statuses \cup {"awaiting_approval"}
  /\ phase' = "loop"
  /\ UNCHANGED <<req, holder, cur, edges, effects, schedVars, cleared,
                 started, orphans>>

(* The task is not run; its record ends the loop. *)
Deny ==
  /\ st' = [st EXCEPT ![cur] = "Failed"]
  /\ statuses' = statuses \cup {"denied"}
  /\ phase' = "loop"
  /\ UNCHANGED <<req, holder, cur, edges, effects, schedVars, cleared,
                 started, orphans>>

GateDenied == phase = "gate" /\ Deny

(* RPC failure or unknown status: the node stays as it is. *)
GateError ==
  /\ phase = "gate"
  /\ Release("error")
  /\ UNCHANGED <<cur, graphVars, schedVars, statuses, cleared, started,
                 orphans>>

(* The blocking Unix-socket gate behind approval_required. *)
UserApproved ==
  /\ phase = "approve"
  /\ cleared' = cleared \cup {cur}
  /\ Start(cur)
  /\ UNCHANGED <<req, holder, cur, edges, effects, schedVars, statuses,
                 orphans>>

(* Denied, gate error, gate task failure, or the outer timeout. *)
ApprovalDenied == phase = "approve" /\ Deny

(* mark_completed, complete, enqueue_ready_dependents, the record. *)
ExecDone(ok) ==
  LET done == [st EXCEPT ![cur] = IF ok THEN "Succeeded" ELSE "Failed"]
      next == ReadyDependents(done, edges, cur)
  IN /\ phase = "exec"
     /\ st' = [t \in Task |-> IF t \in next THEN "Ready" ELSE done[t]]
     /\ inFlight' = inFlight \ {cur}
     /\ Enqueue(next)
     /\ statuses' = statuses \cup {IF ok THEN "succeeded" ELSE "failed"}
     /\ phase' = "loop"
     /\ UNCHANGED <<req, holder, cur, edges, effects, cleared, started,
                    orphans>>

(* Mutant: a denied task does not spoil the report. *)
FinishLenient ==
  /\ phase = "loop" /\ ~ KeepGoing
  /\ Release(IF "failed" \notin statuses THEN "ok" ELSE "failed")
  /\ UNCHANGED <<cur, graphVars, schedVars, statuses, cleared, started,
                 orphans>>

(* Mutant: waits for the queue to drain after a failure. *)
FinishDrained ==
  /\ phase = "loop" /\ queue = {}
  /\ Release(IF statuses = {"succeeded"} THEN "ok" ELSE "failed")
  /\ UNCHANGED <<cur, graphVars, schedVars, statuses, cleared, started,
                 orphans>>

(* The report: success iff there is a record and all of them succeeded. *)
Finish ==
  /\ phase = "loop" /\ ~ KeepGoing
  /\ Release(IF statuses = {"succeeded"} THEN "ok" ELSE "failed")
  /\ UNCHANGED <<cur, graphVars, schedVars, statuses, cleared, started,
                 orphans>>

-----------------------------------------------------------------------------
(* The client goes away at an await; a dropped `exec` leaves its agent. *)
Drop ==
  /\ phase \in {"decompose", "gate", "approve", "exec"}
  /\ phase = "exec" => Cardinality(orphans) < MaxOrphans
  /\ Release("gone")
  /\ orphans' = IF phase = "exec"
                THEN orphans \cup {[task |-> cur, effect |-> cur \in effects,
                                    cleared |-> cur \in cleared]}
                ELSE orphans
  /\ UNCHANGED <<cur, graphVars, schedVars, statuses, cleared, started>>

DropWaiting(r) ==
  /\ req[r] = "waiting"
  /\ req' = [req EXCEPT ![r] = "gone"]
  /\ UNCHANGED <<holder, phase, cur, graphVars, schedVars, statuses, cleared,
                 started, orphans>>

OrphanExits(o) ==
  /\ o \in orphans
  /\ orphans' = orphans \ {o}
  /\ UNCHANGED <<req, holder, phase, cur, graphVars, schedVars, statuses,
                 cleared, started>>

-----------------------------------------------------------------------------
Decompose ==
  \/ \E p \in Plans : EnginePlan(p) \/ EngineDuplicateEdge(p)
  \/ EngineRefused
  \/ LocalPlan

Dispatch ==
  \E e \in queue : DispatchReadOnly(e) \/ DispatchNoGate(e) \/ DispatchToGate(e)

Gate == GateGranted \/ GateApprovalRequired \/ GateDenied \/ GateError

Approve == UserApproved \/ ApprovalDenied

Execute == \E ok \in BOOLEAN : ExecDone(ok)

Handler == Decompose \/ Dispatch \/ Gate \/ Approve \/ Execute \/ Finish

Next ==
  \/ \E r \in Req : Call(r) \/ TakeAnswer(r) \/ Acquire(r) \/ DropWaiting(r)
  \/ Handler
  \/ Drop
  \/ \E o \in orphans : OrphanExits(o)

(* Every await of the handler ends: the RPCs time out after 10 s, the      *)
(* approval wait after COGNOS_APPROVAL_TIMEOUT_SECS, and the agent is      *)
(* assumed to exit (execute_node waits for it without a timeout).  The     *)
(* tokio mutex is FIFO, so a waiting request is not passed over forever.   *)
Fairness == WF_vars(Handler) /\ \A r \in Req : SF_vars(Acquire(r))

Spec == Init /\ [][Next]_vars
FairSpec == Spec /\ Fairness
-----------------------------------------------------------------------------
(* Properties *)

(* "This guarantees no side-effecting action is ever dispatched ungated"    *)
(* (runtime.rs, dispatch_node): whenever the executor was started for a     *)
(* side-effecting task, or its agent outlives the request, HAL or the user  *)
(* had cleared that task in the same request.                               *)
GateBeforeRun ==
  /\ \A t \in effects : started[t] > 0 => t \in cleared
  /\ \A o \in orphans : o.effect => o.cleared

(* A task's agent is started only after the agents of all its predecessors  *)
(* reported success: enqueue_ready_dependents and the break after a failure *)
(* together never let a dependent of a failed or denied task run.           *)
ExecAfterPreds ==
  \A t \in Task : started[t] > 0 => \A p \in Preds(edges, t) : st[p] = "Succeeded"

(* No request starts the same task twice, however its dependents and roots  *)
(* come to be enqueued.                                                     *)
AtMostOnce == \A t \in Task : started[t] <= 1

(* The runtime's mutex serialises requests: the handler is suspended in one *)
(* of its phases exactly when one request is active, and that one holds it. *)
OneActive ==
  /\ {r \in Req : req[r] = "active"} = {holder} \ {NoReq}
  /\ phase = "unlocked" <=> holder = NoReq

(* The two cycle checks agree: a plan that has_cycle let through is never    *)
(* refused half-way by add_dependency's own search for a path back, in      *)
(* whatever order its edges are added, so submit leaves no partial graph.   *)
PlanInstalls ==
  phase \notin {"unlocked", "decompose"} =>
    \A e \in edges : CanAddDependency(st, edges \ {e}, e[1], e[2])

(* The answer of submit_and_execute is truthful: `success` is reported only *)
(* when every node of the submitted graph ran and succeeded (no node is     *)
(* stranded in Pending behind a join), and a failure report only when a     *)
(* node Failed.                                                             *)
ReportTruthful ==
  \A r \in Req :
    /\ (req[r] = "active" /\ req'[r] = "ok")
         => \A t \in Nodes(st) : st[t] = "Succeeded" /\ started[t] = 1
    /\ (req[r] = "active" /\ req'[r] = "failed")
         => \E t \in Nodes(st) : st[t] = "Failed"
ReportsTruthful == [][ReportTruthful]_vars

(* The inductive invariant behind the safety properties. *)

Executing == {"loop", "gate", "approve", "exec"}
AllSucceeded == statuses \subseteq {"succeeded"}

(* The popped task is in the state its phase says. *)
CurInv ==
  /\ phase = "gate" => cur \in effects /\ st[cur] = "Ready"
  /\ phase = "approve" => cur \in effects /\ st[cur] = "AwaitingHal"
  /\ phase = "exec" => st[cur] = "Running"
  /\ phase \in {"gate", "approve", "exec"} => cur \in Task

(* A task is in the queue once, while it is Ready and nobody popped it. *)
QueueInv ==
  /\ \A e \in queue : st[e.task] = "Ready"
  /\ \A e, f \in queue : e.task = f.task => e = f
  /\ phase = "gate" => \A e \in queue : e.task # cur

(* Edges join nodes; a node left Pending only after its predecessors *)
(* succeeded, and its start is counted.                                 *)
GraphInv ==
  /\ edges \subseteq Nodes(st) \X Nodes(st)
  /\ \A t \in Task : st[t] \notin {"Absent", "Pending"}
                       => \A p \in Preds(edges, t) : st[p] = "Succeeded"
  /\ \A t \in Task :
       /\ st[t] \in {"Absent", "Pending", "Ready", "AwaitingHal"} => started[t] = 0
       /\ st[t] \in {"Running", "Succeeded"} => started[t] = 1
       /\ started[t] <= 1

(* Before a handler installs its plan the graph is empty. *)
FreshInv == phase = "decompose" => st = EmptyGraph /\ queue = {} /\ statuses = {}

(* A node succeeded, is blocked by an unfinished predecessor, is queued, or *)
(* is the popped one.                                                       *)
Accounted(t) ==
  \/ st[t] = "Succeeded"
  \/ st[t] = "Pending" /\ \E p \in Preds(edges, t) : st[p] # "Succeeded"
  \/ st[t] = "Ready" /\ \E e \in queue : e.task = t
  \/ t = cur /\ phase \in {"gate", "approve", "exec"}

(* No node is stranded while every record so far is a success; a failed     *)
(* record is witnessed by a Failed node.                                    *)
ProgressInv ==
  phase \in Executing =>
    /\ ~ HasCycle(Nodes(st), edges)
    /\ AllSucceeded => \A t \in Nodes(st) : Accounted(t)
    /\ ~ AllSucceeded => \E t \in Nodes(st) : st[t] = "Failed"
    /\ statuses = {} => queue # {} \/ phase \in {"gate", "approve", "exec"}
    /\ phase \in {"gate", "approve", "exec"} => AllSucceeded

IndInv ==
  TypeOK /\ OneActive /\ CurInv /\ QueueInv /\ GraphInv /\ FreshInv /\ ProgressInv
    /\ GateBeforeRun

(* A request that waits for the mutex is answered or its client leaves: no  *)
(* denial, gate failure, dropped handler or join deadlocks the runtime.     *)
Answered == \A r \in Req : req[r] = "waiting" ~> req[r] \in Final
=============================================================================
