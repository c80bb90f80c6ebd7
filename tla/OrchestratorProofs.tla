------------------------- MODULE OrchestratorProofs -------------------------
(***************************************************************************)
(* Proofs about Orchestrator, for any set of requests, any set of task     *)
(* slots and any acyclic plan.  IndInv is inductive; the safety invariants *)
(* and the action property follow from it.                                 *)
(***************************************************************************)
EXTENDS Orchestrator, TLAPS

(* The initial state satisfies the invariant. *)
LEMMA InitIndInv == Init => IndInv
<1> SUFFICES ASSUME Init PROVE IndInv
  OBVIOUS
<1> USE DEF Init
<1>1. TypeOK
  BY DEF TypeOK, EmptyGraph, ReqState, Phase, Slot
<1>2. OneActive
  BY DEF OneActive
<1>3. CurInv /\ QueueInv /\ FreshInv /\ ProgressInv
  BY DEF CurInv, QueueInv, FreshInv, ProgressInv, Executing
<1>4. GraphInv
  BY DEF GraphInv, EmptyGraph, Nodes, Preds
<1>5. GateBeforeRun
  BY DEF GateBeforeRun
<1> QED
  BY <1>1, <1>2, <1>3, <1>4, <1>5 DEF IndInv

-----------------------------------------------------------------------------
(* Steps of the clients, of the mutex and of left-behind agents. *)

(* A client that calls, takes its answer or leaves the waiting line changes *)
(* nothing but its own slot.                                                *)
LEMMA ClientStep ==
  ASSUME IndInv, NEW r \in Req, Call(r) \/ TakeAnswer(r) \/ DropWaiting(r)
  PROVE  IndInv'
<1> USE DEF Call, TakeAnswer, DropWaiting, graphVars, schedVars, IndInv
<1>1. TypeOK'
  BY DEF TypeOK, ReqState, Final
<1>2. OneActive'
  BY DEF OneActive, TypeOK, Final
<1>3. (CurInv /\ QueueInv /\ FreshInv /\ ProgressInv)'
  BY DEF CurInv, QueueInv, FreshInv, ProgressInv, AllSucceeded, Accounted, EmptyGraph
<1>4. GraphInv'
  BY DEF GraphInv
<1>5. GateBeforeRun'
  BY DEF GateBeforeRun
<1> QED
  BY <1>1, <1>2, <1>3, <1>4, <1>5

(* A left-behind agent exits. *)
LEMMA OrphanStep ==
  ASSUME IndInv, NEW o \in orphans, OrphanExits(o)
  PROVE  IndInv'
<1> USE DEF OrphanExits, graphVars, schedVars, IndInv
<1>1. TypeOK'
  BY DEF TypeOK
<1>2. OneActive'
  BY DEF OneActive
<1>3. (CurInv /\ QueueInv /\ FreshInv /\ ProgressInv)'
  BY DEF CurInv, QueueInv, FreshInv, ProgressInv, AllSucceeded, Accounted, EmptyGraph
<1>4. GraphInv'
  BY DEF GraphInv
<1>5. GateBeforeRun'
  BY DEF GateBeforeRun
<1> QED
  BY <1>1, <1>2, <1>3, <1>4, <1>5

(* Taking the mutex resets the graph, the scheduler and the history. *)
LEMMA AcquireStep ==
  ASSUME IndInv, NEW r \in Req, Acquire(r)
  PROVE  IndInv'
<1> USE DEF Acquire, IndInv
<1>1. TypeOK'
  BY DEF TypeOK, ReqState, Phase, EmptyGraph, Slot
<1>2. OneActive'
  BY ReqAssumption DEF OneActive, TypeOK
<1>3. (CurInv /\ QueueInv /\ FreshInv /\ ProgressInv)'
  BY DEF CurInv, QueueInv, FreshInv, ProgressInv, Executing, EmptyGraph
<1>4. GraphInv'
  BY DEF GraphInv, EmptyGraph, Nodes, Preds
<1>5. GateBeforeRun'
  BY DEF GateBeforeRun, TypeOK
<1> QED
  BY <1>1, <1>2, <1>3, <1>4, <1>5

(* Releasing the mutex: the answered request is no longer active. *)
LEMMA ReleaseStep ==
  ASSUME IndInv, phase # "unlocked", NEW o \in Final, Release(o)
  PROVE  /\ OneActive'
         /\ req' \in [Req -> ReqState] /\ holder' \in Req \cup {NoReq}
         /\ phase' \in Phase
         /\ holder \in Req /\ req[holder] = "active"
  BY ReqAssumption DEF IndInv, Release, OneActive, TypeOK, ReqState, Final, Phase

(* A handler that only returns: a refused plan, a gate error, the report. *)
LEMMA ReturnStep ==
  ASSUME IndInv, EngineRefused \/ GateError \/ Finish
  PROVE  IndInv'
<1>1. PICK o \in Final : Release(o) /\ phase # "unlocked"
  BY DEF EngineRefused, GateError, Finish, Final
<1>2. UNCHANGED <<cur, st, edges, effects, queue, inFlight, clock, statuses,
                  cleared, started, orphans>>
  BY DEF EngineRefused, GateError, Finish, graphVars, schedVars
<1> USE DEF IndInv
<1>3. TypeOK' /\ OneActive'
  BY <1>1, <1>2, ReleaseStep DEF TypeOK
<1>4. phase' = "unlocked"
  BY <1>1 DEF Release
<1>5. (CurInv /\ QueueInv /\ FreshInv /\ ProgressInv)'
  BY <1>2, <1>4 DEF CurInv, QueueInv, FreshInv, ProgressInv, Executing
<1>6. GraphInv' /\ GateBeforeRun'
  BY <1>2 DEF GraphInv, GateBeforeRun
<1> QED
  BY <1>3, <1>5, <1>6

(* The client leaves at an await of its own handler. *)
LEMMA DropStep ==
  ASSUME IndInv, Drop
  PROVE  IndInv'
<1> USE DEF IndInv
<1>1. UNCHANGED <<cur, st, edges, effects, queue, inFlight, clock, statuses,
                  cleared, started>> /\ Release("gone") /\ phase # "unlocked"
  BY DEF Drop, graphVars, schedVars
<1>2. OneActive' /\ req' \in [Req -> ReqState] /\ holder' \in Req \cup {NoReq}
      /\ phase' \in Phase
  BY <1>1, ReleaseStep DEF Final
<1>3. orphans' \subseteq Orphan
  <2>1. CASE phase = "exec"
    <3>1. cur \in Task
      BY <2>1 DEF CurInv
    <3>2. [task |-> cur, effect |-> cur \in effects, cleared |-> cur \in cleared]
            \in Orphan
      BY <3>1 DEF Orphan
    <3> QED
      BY <2>1, <3>2 DEF Drop, TypeOK
  <2>2. CASE phase # "exec"
    BY <2>2 DEF Drop, TypeOK
  <2> QED
    BY <2>1, <2>2
<1>4. TypeOK'
  BY <1>1, <1>2, <1>3 DEF TypeOK
<1>5. phase' = "unlocked"
  BY <1>1 DEF Release
<1>6. (CurInv /\ QueueInv /\ FreshInv /\ ProgressInv)'
  BY <1>1, <1>5 DEF CurInv, QueueInv, FreshInv, ProgressInv, Executing
<1>7. GraphInv'
  BY <1>1 DEF GraphInv
<1>8. GateBeforeRun'
  <2>1. \A t \in effects' : started'[t] > 0 => t \in cleared'
    BY <1>1 DEF GateBeforeRun
  <2>2. ASSUME phase = "exec", cur \in effects PROVE cur \in cleared
    BY <2>2 DEF CurInv, GraphInv, GateBeforeRun, TypeOK
  <2>3. ASSUME NEW o \in orphans', o.effect PROVE o.cleared
    <3>1. CASE o \in orphans
      BY <2>3, <3>1 DEF GateBeforeRun
    <3>2. CASE o \notin orphans
      <4>1. phase = "exec"
            /\ o = [task |-> cur, effect |-> cur \in effects,
                    cleared |-> cur \in cleared]
        BY <3>2 DEF Drop
      <4> QED
        BY <2>2, <2>3, <4>1, Zenon
    <3> QED
      BY <3>1, <3>2
  <2> QED
    BY <2>1, <2>3 DEF GateBeforeRun
<1> QED
  BY <1>2, <1>4, <1>6, <1>7, <1>8

-----------------------------------------------------------------------------
(* The steps of a handler that holds the mutex. *)

(* A handler step that keeps the mutex and does not touch the graph's shape. *)
LEMMA KeepsMutex ==
  ASSUME IndInv, phase # "unlocked", phase' # "unlocked", UNCHANGED <<req, holder>>
  PROVE  OneActive'
  BY DEF IndInv, OneActive

(* Linear chains have no cycle: their sources are a, then b, then c. *)
LEMMA ChainAcyclic ==
  ASSUME NEW a, NEW b, a # b
  PROVE  /\ ~ HasCycle({a, b}, {<<a, b>>})
         /\ \A c : (c # a /\ c # b) => ~ HasCycle({a, b, c}, {<<a, b>>, <<b, c>>})
<1>1. ~ HasCycle({a, b}, {<<a, b>>})
  <2> SUFFICES ASSUME NEW S \in SUBSET {a, b}, S # {},
                      \A t \in S : \E u \in S : <<u, t>> \in {<<a, b>>}
               PROVE  FALSE
    BY DEF HasCycle
  <2>1. a \notin S
    OBVIOUS
  <2> QED
    BY <2>1
<1>2. ASSUME NEW c, c # a, c # b
      PROVE  ~ HasCycle({a, b, c}, {<<a, b>>, <<b, c>>})
  <2> SUFFICES ASSUME NEW S \in SUBSET {a, b, c}, S # {},
                      \A t \in S : \E u \in S : <<u, t>> \in {<<a, b>>, <<b, c>>}
               PROVE  FALSE
    BY DEF HasCycle
  <2>1. a \notin S
    BY <1>2
  <2>2. b \notin S
    BY <1>2, <2>1
  <2> QED
    BY <1>2, <2>1, <2>2
<1> QED
  BY <1>1, <1>2

(* Installing an acyclic plan in the empty graph: its roots, the nodes      *)
(* without a predecessor, are queued, every other node is Pending.          *)
LEMMA InstallStep ==
  ASSUME IndInv, phase = "decompose",
         NEW N \in SUBSET Task, N # {}, NEW E \in SUBSET (N \X N),
         ~ HasCycle(N, E), NEW S \in SUBSET N, Install(N, E, S)
  PROVE  IndInv'
<1> DEFINE g == [t \in Task |-> IF t \in N THEN "Pending" ELSE "Absent"]
           roots == ReadyTasks(g, E)
<1> USE DEF IndInv
<1>1. /\ edges' = E /\ effects' = S
      /\ st' = [t \in Task |-> IF t \in roots THEN "Ready" ELSE g[t]]
      /\ UNCHANGED <<cur, inFlight, statuses, cleared, started, orphans>>
  BY DEF Install
<1>2. \/ /\ roots # {} /\ phase' = "loop" /\ UNCHANGED <<req, holder>>
         /\ queue' = queue \cup {[task |-> t, at |-> clock] : t \in roots}
         /\ clock' = clock + 1
      \/ /\ Release("error") /\ UNCHANGED <<queue, clock>>
  BY DEF Install, Enqueue
<1>3. roots \subseteq N /\ \A t \in roots : Preds(E, t) = {}
  <2>1. \A t : Preds(E, t) \subseteq N
    BY DEF Preds
  <2>2. \A p \in N : g[p] \notin {"Succeeded", "Failed", "Skipped"}
    OBVIOUS
  <2>3. \A t \in roots : t \in Task /\ g[t] = "Pending"
                       /\ \A p \in Preds(E, t) :
                            g[p] \in {"Succeeded", "Failed", "Skipped"}
    BY DEF ReadyTasks
  <2> QED
    BY <2>1, <2>2, <2>3
<1>4. \A t \in N \ roots : \E p \in Preds(E, t) : p \in N
  BY DEF ReadyTasks, Preds
<1>5. queue = {} /\ statuses = {} /\ \A t \in Task : started[t] = 0
  BY DEF FreshInv, GraphInv, EmptyGraph
<1>6. Nodes(st') = N
  BY <1>1, <1>3 DEF Nodes
<1> HIDE DEF roots, g
<1>7. st' \in [Task -> Slot]
  BY <1>1 DEF g, Slot, NodeState
<1>8. GraphInv'
  <2>1. \A t \in Task : st'[t] \in {"Absent", "Pending", "Ready"}
                       /\ (st'[t] = "Ready" => t \in roots)
    BY <1>1, <1>3 DEF g
  <2>2. \A t \in Task : st'[t] \notin {"Absent", "Pending"} => Preds(E, t) = {}
    BY <1>3, <2>1
  <2> QED
    BY <1>1, <1>5, <1>6, <2>1, <2>2 DEF GraphInv
<1>9. GateBeforeRun'
  BY <1>1, <1>5 DEF GateBeforeRun
<1>10. CASE Release("error") /\ UNCHANGED <<queue, clock>>
  <2>1. OneActive' /\ req' \in [Req -> ReqState] /\ holder' \in Req \cup {NoReq}
        /\ phase' \in Phase /\ phase' = "unlocked"
    BY <1>10, ReleaseStep DEF Final, Release
  <2>2. TypeOK'
    BY <1>1, <1>7, <1>10, <2>1 DEF TypeOK
  <2>3. (CurInv /\ QueueInv /\ FreshInv /\ ProgressInv)'
    BY <1>5, <1>10, <2>1 DEF CurInv, QueueInv, FreshInv, ProgressInv, Executing
  <2> QED
    BY <1>8, <1>9, <2>1, <2>2, <2>3
<1>11. CASE /\ roots # {} /\ phase' = "loop" /\ UNCHANGED <<req, holder>>
            /\ queue' = queue \cup {[task |-> t, at |-> clock] : t \in roots}
            /\ clock' = clock + 1
  <2>1. queue' = {[task |-> t, at |-> clock] : t \in roots}
    BY <1>5, <1>11
  <2>2. queue' \subseteq Entry
    BY <1>3, <2>1 DEF Entry, TypeOK
  <2>3. TypeOK'
    BY <1>1, <1>7, <1>11, <2>2 DEF TypeOK, Phase
  <2>4. OneActive'
    BY <1>11, KeepsMutex
  <2>5. CurInv' /\ FreshInv'
    BY <1>11 DEF CurInv, FreshInv
  <2>6. QueueInv'
    BY <1>1, <1>3, <1>11, <2>1 DEF QueueInv
  <2>7. ProgressInv'
    <3>1. ASSUME NEW t \in N \ roots
          PROVE  st'[t] = "Pending" /\ \E p \in Preds(E, t) : st'[p] # "Succeeded"
      BY <1>1, <1>4 DEF g
    <3>2. ASSUME NEW t \in roots
          PROVE  st'[t] = "Ready" /\ \E e \in queue' : e.task = t
      <4>1. [task |-> t, at |-> clock] \in queue'
        BY <2>1
      <4>2. [task |-> t, at |-> clock].task = t
        OBVIOUS
      <4> QED
        BY <1>1, <1>3, <4>1, <4>2
    <3> QED
      BY <1>1, <1>5, <1>6, <1>11, <2>1, <3>1, <3>2
      DEF ProgressInv, AllSucceeded, Accounted
  <2> QED
    BY <1>8, <1>9, <2>3, <2>4, <2>5, <2>6, <2>7
<1> QED
  BY <1>2, <1>10, <1>11

(* Moving one task on from Ready, Running or AwaitingHal keeps the shape of *)
(* the graph: the same nodes, and every node past Pending still has only    *)
(* succeeded predecessors.                                                  *)
LEMMA Relabel ==
  ASSUME TypeOK, GraphInv, NEW t \in Task,
         NEW x \in {"Running", "AwaitingHal", "Failed"},
         st[t] \in {"Ready", "Running", "AwaitingHal"},
         st' = [st EXCEPT ![t] = x], edges' = edges
  PROVE  /\ st' \in [Task -> Slot]
         /\ Nodes(st') = Nodes(st)
         /\ edges' \subseteq Nodes(st') \X Nodes(st')
         /\ \A u \in Task : st'[u] \notin {"Absent", "Pending"}
                => \A p \in Preds(edges', u) : st'[p] = "Succeeded"
<1>1. st' \in [Task -> Slot]
  BY DEF TypeOK, Slot, NodeState
<1>2. Nodes(st') = Nodes(st)
  BY DEF TypeOK, Nodes
<1>3. \A u \in Task : st[u] = "Succeeded" => st'[u] = "Succeeded"
  BY DEF TypeOK
<1>4. \A u \in Task : st'[u] \notin {"Absent", "Pending"}
                       => st[u] \notin {"Absent", "Pending"}
  BY DEF TypeOK
<1>5. \A u : Preds(edges, u) \subseteq Task
  BY DEF TypeOK, Preds
<1> QED
  BY <1>1, <1>2, <1>3, <1>4, <1>5 DEF GraphInv

(* What popping an entry gives every dispatch. *)
LEMMA PopFacts ==
  ASSUME IndInv, NEW e \in queue, PopEntry(e)
  PROVE  /\ e.task \in Task /\ st[e.task] = "Ready" /\ started[e.task] = 0
         /\ phase = "loop" /\ AllSucceeded
         /\ cur' = e.task
         /\ queue' = queue \ {e} /\ queue' \subseteq Entry
         /\ \A f \in queue' : f.task # e.task
         /\ inFlight' \subseteq Task
         /\ UNCHANGED <<edges, effects, clock, statuses, orphans>>
  BY DEF PopEntry, KeepGoing, AllSucceeded, IndInv, TypeOK, Entry, QueueInv,
         GraphInv

(* A task is popped and its agent started, sent to the gate, or (without a  *)
(* gate client) failed.                                                     *)
LEMMA DispatchStep ==
  ASSUME IndInv, NEW e \in queue,
         DispatchReadOnly(e) \/ DispatchNoGate(e) \/ DispatchToGate(e)
  PROVE  IndInv'
<1> DEFINE t == e.task
<1>0. PopEntry(e)
  BY DEF DispatchReadOnly, DispatchNoGate, DispatchToGate
<1>1. /\ t \in Task /\ st[t] = "Ready" /\ started[t] = 0
      /\ phase = "loop" /\ AllSucceeded /\ cur' = t
      /\ queue' = queue \ {e} /\ queue' \subseteq Entry
      /\ \A f \in queue' : f.task # t
      /\ inFlight' \subseteq Task
      /\ UNCHANGED <<edges, effects, clock, statuses, orphans>>
  BY <1>0, PopFacts
<1> HIDE DEF t
<1> USE DEF IndInv
<1>2. CASE DispatchReadOnly(e)
  <2>1. /\ t \notin effects /\ st' = [st EXCEPT ![t] = "Running"]
        /\ started' = [started EXCEPT ![t] = @ + 1] /\ phase' = "exec"
        /\ UNCHANGED <<req, holder, cleared>>
    BY <1>2 DEF DispatchReadOnly, Start, t
  <2>2. /\ st' \in [Task -> Slot] /\ Nodes(st') = Nodes(st)
        /\ edges' \subseteq Nodes(st') \X Nodes(st')
        /\ \A u \in Task : st'[u] \notin {"Absent", "Pending"}
              => \A p \in Preds(edges', u) : st'[p] = "Succeeded"
    BY <1>1, <2>1, Relabel
  <2>3. TypeOK'
    BY <1>1, <2>1, <2>2 DEF TypeOK, Phase
  <2>4. OneActive'
    BY <1>1, <2>1, KeepsMutex
  <2>5. CurInv' /\ FreshInv'
    BY <1>1, <2>1 DEF CurInv, FreshInv, TypeOK
  <2>6. QueueInv'
    BY <1>1, <2>1 DEF QueueInv, TypeOK, Entry
  <2>7. GraphInv'
    BY <1>1, <2>1, <2>2 DEF GraphInv, TypeOK
  <2>8. ProgressInv'
    <3>1. ASSUME NEW u \in Nodes(st), Accounted(u) PROVE Accounted(u)'
      <4>1. CASE u = t
        BY <1>1, <2>1, <4>1 DEF Accounted
      <4>2. CASE u # t
        <5>1. \A v \in Task : st[v] # "Succeeded" => st'[v] # "Succeeded"
          BY <2>1 DEF TypeOK
        <5>2. u \in Task /\ st'[u] = st[u] /\ Preds(edges, u) \subseteq Task
          BY <2>1, <4>2 DEF TypeOK, Nodes, Preds
        <5>3. \A f \in queue : f.task = u => f \in queue'
          BY <1>1, <4>2 DEF t
        <5> QED
          BY <1>1, <3>1, <5>1, <5>2, <5>3 DEF Accounted
      <4> QED
        BY <4>1, <4>2
    <3> QED
      BY <1>1, <2>1, <2>2, <3>1 DEF ProgressInv, AllSucceeded, Executing
  <2>9. GateBeforeRun'
    BY <1>1, <2>1 DEF GateBeforeRun, TypeOK
  <2> QED
    BY <2>3, <2>4, <2>5, <2>6, <2>7, <2>8, <2>9
<1>3. CASE DispatchNoGate(e)
  <2>1. /\ st' = [st EXCEPT ![t] = "Failed"] /\ Release("error")
        /\ UNCHANGED <<cleared, started>>
    BY <1>3 DEF DispatchNoGate, t
  <2>2. /\ st' \in [Task -> Slot] /\ Nodes(st') = Nodes(st)
        /\ edges' \subseteq Nodes(st') \X Nodes(st')
        /\ \A u \in Task : st'[u] \notin {"Absent", "Pending"}
              => \A p \in Preds(edges', u) : st'[p] = "Succeeded"
    BY <1>1, <2>1, Relabel
  <2>3. OneActive' /\ req' \in [Req -> ReqState] /\ holder' \in Req \cup {NoReq}
        /\ phase' \in Phase /\ phase' = "unlocked"
    BY <1>1, <2>1, ReleaseStep DEF Final, Release
  <2>4. TypeOK'
    BY <1>1, <2>1, <2>2, <2>3 DEF TypeOK
  <2>5. CurInv' /\ FreshInv' /\ ProgressInv'
    BY <2>3 DEF CurInv, FreshInv, ProgressInv, Executing
  <2>6. QueueInv'
    BY <1>1, <2>1, <2>3 DEF QueueInv, TypeOK, Entry
  <2>7. GraphInv'
    BY <1>1, <2>1, <2>2 DEF GraphInv, TypeOK
  <2>8. GateBeforeRun'
    BY <1>1, <2>1 DEF GateBeforeRun
  <2> QED
    BY <2>3, <2>4, <2>5, <2>6, <2>7, <2>8
<1>4. CASE DispatchToGate(e)
  <2>1. /\ t \in effects /\ phase' = "gate"
        /\ UNCHANGED <<req, holder, st, cleared, started>>
    BY <1>4 DEF DispatchToGate, t
  <2>2. TypeOK'
    BY <1>1, <2>1 DEF TypeOK, Phase
  <2>3. OneActive'
    BY <1>1, <2>1, KeepsMutex
  <2>4. CurInv' /\ FreshInv' /\ QueueInv'
    BY <1>1, <2>1 DEF CurInv, FreshInv, QueueInv
  <2>5. GraphInv' /\ GateBeforeRun'
    BY <1>1, <2>1 DEF GraphInv, GateBeforeRun
  <2>6. ProgressInv'
    <3>1. ASSUME NEW u \in Nodes(st), Accounted(u) PROVE Accounted(u)'
      BY <1>1, <2>1, <3>1 DEF Accounted, t
    <3> QED
      BY <1>1, <2>1, <3>1 DEF ProgressInv, AllSucceeded, Executing
  <2> QED
    BY <2>2, <2>3, <2>4, <2>5, <2>6
<1> QED
  BY <1>2, <1>3, <1>4

(* HAL granted or the user approved: the task is cleared and started. *)
LEMMA ClearStep ==
  ASSUME IndInv, GateGranted \/ UserApproved
  PROVE  IndInv'
<1> USE DEF IndInv
<1>1. /\ phase \in {"gate", "approve"} /\ cur \in Task
      /\ st[cur] \in {"Ready", "AwaitingHal"} /\ started[cur] = 0 /\ AllSucceeded
      /\ \A e \in queue : e.task # cur
  BY DEF GateGranted, UserApproved, CurInv, GraphInv, ProgressInv, Executing, QueueInv
<1>2. /\ cleared' = cleared \cup {cur} /\ st' = [st EXCEPT ![cur] = "Running"]
      /\ started' = [started EXCEPT ![cur] = @ + 1] /\ phase' = "exec"
      /\ UNCHANGED <<req, holder, cur, edges, effects, queue, inFlight, clock,
                     statuses, orphans>>
  BY DEF GateGranted, UserApproved, Start, schedVars
<1>3. /\ st' \in [Task -> Slot] /\ Nodes(st') = Nodes(st)
      /\ edges' \subseteq Nodes(st') \X Nodes(st')
      /\ \A u \in Task : st'[u] \notin {"Absent", "Pending"}
            => \A p \in Preds(edges', u) : st'[p] = "Succeeded"
  BY <1>1, <1>2, Relabel
<1>4. TypeOK'
  BY <1>1, <1>2, <1>3 DEF TypeOK, Phase
<1>5. OneActive'
  BY <1>1, <1>2, KeepsMutex
<1>6. CurInv' /\ FreshInv'
  BY <1>1, <1>2 DEF CurInv, FreshInv, TypeOK
<1>7. QueueInv'
  BY <1>1, <1>2 DEF QueueInv, TypeOK, Entry
<1>8. GraphInv'
  BY <1>1, <1>2, <1>3 DEF GraphInv, TypeOK
<1>9. ProgressInv'
  <2>1. ASSUME NEW u \in Nodes(st), Accounted(u) PROVE Accounted(u)'
    <3>1. \A v \in Task : st[v] # "Succeeded" => st'[v] # "Succeeded"
      BY <1>2 DEF TypeOK
    <3>2. u \in Task /\ (u # cur => st'[u] = st[u]) /\ Preds(edges, u) \subseteq Task
      BY <1>2 DEF TypeOK, Nodes, Preds
    <3> QED
      BY <1>1, <1>2, <2>1, <3>1, <3>2 DEF Accounted
  <2> QED
    BY <1>1, <1>2, <1>3, <2>1 DEF ProgressInv, AllSucceeded, Executing
<1>10. GateBeforeRun'
  BY <1>1, <1>2 DEF GateBeforeRun, TypeOK
<1> QED
  BY <1>4, <1>5, <1>6, <1>7, <1>8, <1>9, <1>10

(* The gate or the user keeps the task from running: parked or failed. *)
LEMMA ParkOrDenyStep ==
  ASSUME IndInv, GateApprovalRequired \/ GateDenied \/ ApprovalDenied
  PROVE  IndInv'
<1> USE DEF IndInv
<1>1. /\ phase \in {"gate", "approve"} /\ cur \in Task /\ cur \in effects
      /\ st[cur] \in {"Ready", "AwaitingHal"} /\ started[cur] = 0 /\ AllSucceeded
      /\ \A e \in queue : e.task # cur
  BY DEF GateApprovalRequired, GateDenied, ApprovalDenied, CurInv, GraphInv,
         ProgressInv, Executing, QueueInv
<1>2. PICK x \in {"AwaitingHal", "Failed"} :
        /\ st' = [st EXCEPT ![cur] = x]
        /\ x = "AwaitingHal" => phase' = "approve" /\ statuses' = statuses
        /\ x = "Failed" => phase' = "loop" /\ statuses' = statuses \cup {"denied"}
  BY DEF GateApprovalRequired, GateDenied, ApprovalDenied, Deny
<1>3. UNCHANGED <<req, holder, cur, edges, effects, queue, inFlight, clock,
                  cleared, started, orphans>>
  BY DEF GateApprovalRequired, GateDenied, ApprovalDenied, Deny, schedVars
<1>4. /\ st' \in [Task -> Slot] /\ Nodes(st') = Nodes(st)
      /\ edges' \subseteq Nodes(st') \X Nodes(st')
      /\ \A u \in Task : st'[u] \notin {"Absent", "Pending"}
            => \A p \in Preds(edges', u) : st'[p] = "Succeeded"
  BY <1>1, <1>2, <1>3, Relabel
<1>5. TypeOK'
  BY <1>1, <1>2, <1>3, <1>4 DEF TypeOK, Phase, Status
<1>6. OneActive'
  BY <1>1, <1>2, <1>3, KeepsMutex
<1>7. CurInv' /\ FreshInv'
  BY <1>1, <1>2, <1>3 DEF CurInv, FreshInv, TypeOK
<1>8. QueueInv'
  BY <1>1, <1>2, <1>3 DEF QueueInv, TypeOK, Entry
<1>9. GraphInv'
  BY <1>1, <1>2, <1>3, <1>4 DEF GraphInv, TypeOK
<1>10. ProgressInv'
  <2>1. CASE x = "AwaitingHal"
    <3>1. ASSUME NEW u \in Nodes(st), Accounted(u) PROVE Accounted(u)'
      <4>1. \A v \in Task : st[v] # "Succeeded" => st'[v] # "Succeeded"
        BY <1>2 DEF TypeOK
      <4>2. u \in Task /\ (u # cur => st'[u] = st[u])
            /\ Preds(edges, u) \subseteq Task
        BY <1>2 DEF TypeOK, Nodes, Preds
      <4> QED
        BY <1>1, <1>2, <1>3, <2>1, <3>1, <4>1, <4>2 DEF Accounted
    <3> QED
      BY <1>1, <1>2, <1>3, <1>4, <2>1, <3>1
      DEF ProgressInv, AllSucceeded, Executing
  <2>2. CASE x = "Failed"
    <3>1. cur \in Nodes(st') /\ st'[cur] = "Failed" /\ statuses' # {}
          /\ ~ AllSucceeded'
      BY <1>1, <1>2, <1>4, <2>2 DEF AllSucceeded, TypeOK, Nodes
    <3> QED
      BY <1>1, <1>2, <1>3, <1>4, <2>2, <3>1 DEF ProgressInv, Executing
  <2> QED
    BY <2>1, <2>2
<1>11. GateBeforeRun'
  BY <1>3 DEF GateBeforeRun
<1> QED
  BY <1>5, <1>6, <1>7, <1>8, <1>9, <1>10, <1>11

(* An agent reports: the task is final, and its dependents whose            *)
(* predecessors have all succeeded are queued.                              *)
LEMMA ExecStep ==
  ASSUME IndInv, NEW ok \in BOOLEAN, ExecDone(ok)
  PROVE  IndInv'
<1> DEFINE x == IF ok THEN "Succeeded" ELSE "Failed"
           done == [st EXCEPT ![cur] = x]
           next == ReadyDependents(done, edges, cur)
<1> USE DEF IndInv
<1>1. /\ phase = "exec" /\ cur \in Task /\ st[cur] = "Running"
      /\ started[cur] = 1 /\ AllSucceeded
  BY DEF ExecDone, CurInv, GraphInv, ProgressInv, Executing
<1>2. /\ st' = [t \in Task |-> IF t \in next THEN "Ready" ELSE done[t]]
      /\ inFlight' = inFlight \ {cur}
      /\ queue' = queue \cup {[task |-> t, at |-> clock] : t \in next}
      /\ clock' = clock + 1
      /\ statuses' = statuses \cup {IF ok THEN "succeeded" ELSE "failed"}
      /\ phase' = "loop"
      /\ UNCHANGED <<req, holder, cur, edges, effects, cleared, started, orphans>>
  BY DEF ExecDone, Enqueue
<1>3. done \in [Task -> Slot] /\ done[cur] = x
      /\ \A t \in Task \ {cur} : done[t] = st[t]
  BY <1>1 DEF TypeOK, Slot, NodeState
<1>4. \A t : Preds(edges, t) \subseteq Task
  BY DEF TypeOK, Preds
<1>5. \A t \in next : /\ t \in Task /\ t # cur /\ st[t] = "Pending" /\ ok
                     /\ \A p \in Preds(edges, t) : done[p] = "Succeeded"
  <2> SUFFICES ASSUME NEW t \in next
               PROVE  /\ t \in Task /\ t # cur /\ st[t] = "Pending" /\ ok
                      /\ \A p \in Preds(edges, t) : done[p] = "Succeeded"
    OBVIOUS
  <2>1. t \in Succs(edges, cur) /\ done[t] = "Pending"
        /\ \A p \in Preds(edges, t) : done[p] = "Succeeded"
    BY DEF ReadyDependents
  <2>2. t \in Task /\ cur \in Preds(edges, t)
    BY <2>1 DEF Succs, Preds, TypeOK
  <2> QED
    BY <1>3, <2>1, <2>2
<1>6. ASSUME NEW t \in Task, t \notin next, st[t] = "Pending",
             \E p \in Preds(edges, t) : st[p] # "Succeeded"
      PROVE  \E p \in Preds(edges, t) : done[p] # "Succeeded"
  <2>1. CASE t \in Succs(edges, cur)
    <3>1. done[t] = "Pending"
      BY <1>1, <1>3, <1>6
    <3> QED
      BY <1>6, <2>1, <3>1 DEF ReadyDependents
  <2>2. CASE t \notin Succs(edges, cur)
    <3>1. cur \notin Preds(edges, t)
      BY <2>2 DEF Succs, Preds
    <3> QED
      BY <1>3, <1>4, <1>6, <3>1
  <2> QED
    BY <2>1, <2>2
<1> HIDE DEF next, done
<1>7. st' \in [Task -> Slot]
  BY <1>2, <1>3 DEF Slot, NodeState
<1>8. /\ \A t \in next : st'[t] = "Ready"
      /\ \A t \in Task \ next : st'[t] = done[t]
      /\ \A t \in Task : st'[t] = "Succeeded" <=> done[t] = "Succeeded"
      /\ Nodes(st') = Nodes(st)
      /\ st'[cur] = x
  <2>1. /\ \A t \in next : st'[t] = "Ready"
        /\ \A t \in Task \ next : st'[t] = done[t]
        /\ st'[cur] = x
    BY <1>1, <1>2, <1>3, <1>5
  <2>2. \A t \in Task : st'[t] = "Succeeded" <=> done[t] = "Succeeded"
    BY <1>3, <1>5, <2>1
  <2>3. \A t \in Task : st'[t] = "Absent" <=> st[t] = "Absent"
    BY <1>1, <1>3, <1>5, <2>1
  <2> QED
    BY <1>7, <2>1, <2>2, <2>3 DEF Nodes, TypeOK
<1>9. queue' \subseteq Entry
  BY <1>2, <1>5 DEF Entry, TypeOK
<1>10. TypeOK'
  BY <1>2, <1>7, <1>9 DEF TypeOK, Phase, Status
<1>11. OneActive'
  BY <1>1, <1>2, KeepsMutex
<1>12. CurInv' /\ FreshInv'
  BY <1>2 DEF CurInv, FreshInv
<1>13. QueueInv'
  <2>1. \A e \in queue : e.task \in Task /\ e.task # cur /\ e.task \notin next
                        /\ st'[e.task] = "Ready"
    BY <1>1, <1>3, <1>5, <1>8 DEF QueueInv, TypeOK, Entry
  <2> QED
    BY <1>2, <1>8, <2>1 DEF QueueInv
<1>14. GraphInv'
  <2>1. ASSUME NEW t \in Task, st'[t] \notin {"Absent", "Pending"},
               NEW p \in Preds(edges, t)
        PROVE  st'[p] = "Succeeded"
    <3>1. CASE t \in next
      BY <1>4, <1>5, <1>8, <3>1
    <3>2. CASE t \notin next
      <4>1. st[t] \notin {"Absent", "Pending"}
        BY <1>1, <1>3, <1>8, <2>1, <3>2
      <4>2. st[p] = "Succeeded" /\ p \in Task
        BY <1>4, <2>1, <4>1 DEF GraphInv
      <4> QED
        BY <1>1, <1>3, <1>8, <4>2
    <3> QED
      BY <3>1, <3>2
  <2>2. ASSUME NEW t \in Task
        PROVE  /\ st'[t] \in {"Absent", "Pending", "Ready", "AwaitingHal"}
                    => started[t] = 0
               /\ st'[t] \in {"Running", "Succeeded"} => started[t] = 1
               /\ started[t] <= 1
    BY <1>1, <1>3, <1>5, <1>8 DEF GraphInv
  <2> QED
    BY <1>2, <1>8, <2>1, <2>2 DEF GraphInv
<1>15. ProgressInv'
  <2>1. CASE ok
    <3>1. ASSUME NEW t \in Nodes(st), Accounted(t) PROVE Accounted(t)'
      <4>0. t \in Task
        BY DEF Nodes, TypeOK
      <4>1. CASE t = cur
        BY <1>8, <2>1, <4>1 DEF Accounted
      <4>2. CASE t \in next
        <5>1. [task |-> t, at |-> clock] \in queue'
              /\ [task |-> t, at |-> clock].task = t
          BY <1>2, <4>2
        <5> QED
          BY <1>8, <4>2, <5>1 DEF Accounted
      <4>3. CASE t # cur /\ t \notin next /\ st[t] = "Pending"
                 /\ \E p \in Preds(edges, t) : st[p] # "Succeeded"
        BY <1>2, <1>3, <1>4, <1>6, <1>8, <4>0, <4>3 DEF Accounted
      <4>4. CASE t # cur /\ t \notin next /\ st[t] # "Pending"
        BY <1>2, <1>3, <1>8, <3>1, <4>0, <4>4 DEF Accounted
      <4> QED
        BY <3>1, <4>1, <4>2, <4>3, <4>4 DEF Accounted
    <3> QED
      BY <1>1, <1>2, <1>8, <2>1, <3>1 DEF ProgressInv, AllSucceeded, Executing
  <2>2. CASE ~ ok
    <3>1. cur \in Nodes(st') /\ st'[cur] = "Failed" /\ statuses' # {}
          /\ ~ AllSucceeded'
      BY <1>1, <1>2, <1>8, <2>2 DEF AllSucceeded, TypeOK, Nodes
    <3> QED
      BY <1>1, <1>2, <1>8, <3>1 DEF ProgressInv, Executing
  <2> QED
    BY <2>1, <2>2
<1>16. GateBeforeRun'
  BY <1>2 DEF GateBeforeRun
<1> QED
  BY <1>10, <1>11, <1>12, <1>13, <1>14, <1>15, <1>16

(* A plan with a repeated edge: the nodes stay behind, nothing is queued. *)
LEMMA DuplicateEdgeStep ==
  ASSUME IndInv, NEW p \in Plans, EngineDuplicateEdge(p)
  PROVE  IndInv'
<1> USE DEF IndInv
<1>1. p.nodes \subseteq Task /\ p.edges \subseteq p.nodes \X p.nodes
      /\ p.effects \subseteq p.nodes
  BY DEF Plans
<1>2. /\ phase = "decompose" /\ Release("error")
      /\ edges' \subseteq p.edges /\ effects' = p.effects
      /\ st' = [t \in Task |-> IF t \in p.nodes THEN "Pending" ELSE "Absent"]
      /\ UNCHANGED <<cur, queue, inFlight, clock, statuses, cleared, started,
                     orphans>>
  BY DEF EngineDuplicateEdge, schedVars
<1>3. OneActive' /\ req' \in [Req -> ReqState] /\ holder' \in Req \cup {NoReq}
      /\ phase' \in Phase /\ phase' = "unlocked"
  BY <1>2, ReleaseStep DEF Final, Release
<1>4. TypeOK'
  BY <1>1, <1>2, <1>3 DEF TypeOK, Slot, NodeState
<1>5. queue = {} /\ \A t \in Task : started[t] = 0
  BY <1>2 DEF FreshInv, GraphInv, EmptyGraph
<1>6. (CurInv /\ QueueInv /\ FreshInv /\ ProgressInv)'
  BY <1>2, <1>3, <1>5 DEF CurInv, QueueInv, FreshInv, ProgressInv, Executing
<1>7. GraphInv'
  <2>1. Nodes(st') = p.nodes
    BY <1>1, <1>2 DEF Nodes
  <2> QED
    BY <1>1, <1>2, <1>5, <2>1 DEF GraphInv
<1>8. GateBeforeRun'
  BY <1>1, <1>2, <1>5 DEF GateBeforeRun
<1> QED
  BY <1>3, <1>4, <1>6, <1>7, <1>8

(* Every way to decompose an intent. *)
LEMMA DecomposeStep ==
  ASSUME IndInv, Decompose
  PROVE  IndInv'
<1>1. CASE \E p \in Plans : EnginePlan(p)
  <2>1. PICK p \in Plans : EnginePlan(p)
    BY <1>1
  <2>2. /\ p.nodes \in SUBSET Task /\ p.nodes # {}
        /\ p.edges \in SUBSET (p.nodes \X p.nodes)
        /\ ~ HasCycle(p.nodes, p.edges) /\ p.effects \in SUBSET p.nodes
    BY DEF Plans
  <2>3. phase = "decompose" /\ Install(p.nodes, p.edges, p.effects)
    BY <2>1 DEF EnginePlan
  <2> QED
    BY <2>2, <2>3, InstallStep
<1>2. CASE \E p \in Plans : EngineDuplicateEdge(p)
  BY <1>2, DuplicateEdgeStep
<1>3. CASE EngineRefused
  BY <1>3, ReturnStep
<1>4. CASE LocalPlan
  <2>1. PICK a, b \in Task :
          /\ a # b
          /\ \/ \E S \in {{}, {b}} : Install({a, b}, {<<a, b>>}, S)
             \/ \E c \in Task \ {a, b} :
                   Install({a, b, c}, {<<a, b>>, <<b, c>>}, {b})
    BY <1>4 DEF LocalPlan
  <2>2. phase = "decompose"
    BY <1>4 DEF LocalPlan
  <2>3. ASSUME NEW S \in {{}, {b}}, Install({a, b}, {<<a, b>>}, S)
        PROVE  IndInv'
    <3>1. {a, b} \in SUBSET Task /\ {a, b} # {} /\ S \in SUBSET {a, b}
          /\ {<<a, b>>} \in SUBSET ({a, b} \X {a, b})
      OBVIOUS
    <3>2. ~ HasCycle({a, b}, {<<a, b>>})
      BY <2>1, ChainAcyclic
    <3> QED
      BY <2>2, <2>3, <3>1, <3>2, InstallStep
  <2>4. ASSUME NEW c \in Task \ {a, b},
               Install({a, b, c}, {<<a, b>>, <<b, c>>}, {b})
        PROVE  IndInv'
    <3>1. {a, b, c} \in SUBSET Task /\ {a, b, c} # {} /\ {b} \in SUBSET {a, b, c}
          /\ {<<a, b>>, <<b, c>>} \in SUBSET ({a, b, c} \X {a, b, c})
      OBVIOUS
    <3>2. ~ HasCycle({a, b, c}, {<<a, b>>, <<b, c>>})
      BY <2>1, ChainAcyclic
    <3> QED
      BY <2>2, <2>4, <3>1, <3>2, InstallStep
  <2> QED
    BY <2>1, <2>3, <2>4
<1> QED
  BY <1>1, <1>2, <1>3, <1>4 DEF Decompose

-----------------------------------------------------------------------------
(* The invariant is inductive. *)
LEMMA IndInvNext == IndInv /\ [Next]_vars => IndInv'
<1> SUFFICES ASSUME IndInv, [Next]_vars PROVE IndInv'
  OBVIOUS
<1>1. CASE \E r \in Req : Call(r) \/ TakeAnswer(r) \/ Acquire(r) \/ DropWaiting(r)
  BY <1>1, ClientStep, AcquireStep
<1>2. CASE Decompose
  BY <1>2, DecomposeStep
<1>3. CASE Dispatch
  BY <1>3, DispatchStep DEF Dispatch
<1>4. CASE Gate
  BY <1>4, ClearStep, ParkOrDenyStep, ReturnStep DEF Gate
<1>5. CASE Approve
  BY <1>5, ClearStep, ParkOrDenyStep DEF Approve
<1>6. CASE Execute
  BY <1>6, ExecStep DEF Execute
<1>7. CASE Finish
  BY <1>7, ReturnStep
<1>8. CASE Drop
  BY <1>8, DropStep
<1>9. CASE \E o \in orphans : OrphanExits(o)
  BY <1>9, OrphanStep
<1>10. CASE UNCHANGED vars
  <2> USE <1>10 DEF IndInv, vars, graphVars, schedVars
  <2>1. TypeOK'
    BY DEF TypeOK
  <2>2. OneActive'
    BY DEF OneActive
  <2>3. (CurInv /\ QueueInv /\ FreshInv /\ ProgressInv)'
    BY DEF CurInv, QueueInv, FreshInv, ProgressInv, AllSucceeded, Accounted, EmptyGraph
  <2>4. GraphInv' /\ GateBeforeRun'
    BY DEF GraphInv, GateBeforeRun
  <2> QED
    BY <2>1, <2>2, <2>3, <2>4
<1> QED
  BY <1>1, <1>2, <1>3, <1>4, <1>5, <1>6, <1>7, <1>8, <1>9, <1>10
  DEF Next, Handler

(* The inductive invariant holds in every reachable state. *)
THEOREM Invariance == Spec => []IndInv
<1> QED
  BY InitIndInv, IndInvNext, PTL DEF Spec

(* Every variable keeps its type, for every set of requests and tasks. *)
THEOREM TypeCorrect == Spec => []TypeOK
<1>1. IndInv => TypeOK
  BY DEF IndInv
<1> QED
  BY <1>1, Invariance, PTL

(* No side-effecting task reaches its agent without HAL's grant or the      *)
(* user's approval, whatever the plan, the failures and the clients that    *)
(* leave (dispatch_node fails closed).                                      *)
THEOREM GateSafety == Spec => []GateBeforeRun
<1>1. IndInv => GateBeforeRun
  BY DEF IndInv
<1> QED
  BY <1>1, Invariance, PTL

(* A task runs only after every predecessor succeeded. *)
THEOREM DependencySafety == Spec => []ExecAfterPreds
<1>1. IndInv => ExecAfterPreds
  <2> SUFFICES ASSUME IndInv PROVE ExecAfterPreds
    OBVIOUS
  <2>1. ASSUME NEW t \in Task, started[t] > 0
        PROVE  st[t] \notin {"Absent", "Pending"}
    BY <2>1 DEF IndInv, GraphInv
  <2> QED
    BY <2>1 DEF IndInv, GraphInv, ExecAfterPreds
<1> QED
  BY <1>1, Invariance, PTL

(* A task runs at most once per request, however many of its predecessors   *)
(* enqueue it and whatever the gate answers: a task that has started left   *)
(* the states from which it can be queued.                                  *)
THEOREM ExecutedOnce == Spec => []AtMostOnce
<1>1. IndInv => AtMostOnce
  BY DEF IndInv, GraphInv, AtMostOnce
<1> QED
  BY <1>1, Invariance, PTL

(* One request at a time is inside the runtime. *)
THEOREM MutualExclusion == Spec => []OneActive
<1>1. IndInv => OneActive
  BY DEF IndInv
<1> QED
  BY <1>1, Invariance, PTL

(* The report is truthful.  With an empty queue and only successes, a node  *)
(* that did not succeed would be Pending behind another such node; these    *)
(* nodes would form a set without a source, a cycle proto_graph_to_plan     *)
(* refuses.                                                                 *)
LEMMA TruthStep == IndInv /\ [Next]_vars => [ReportTruthful]_vars
<1> SUFFICES ASSUME IndInv, Next, NEW r \in Req, req[r] = "active",
                    req'[r] \in {"ok", "failed"}
             PROVE  /\ req'[r] = "ok"
                         => \A t \in Nodes(st) : st[t] = "Succeeded" /\ started[t] = 1
                    /\ req'[r] = "failed" => \E t \in Nodes(st) : st[t] = "Failed"
  BY DEF ReportTruthful
<1> USE DEF IndInv
<1>1. Finish
  <2> USE DEF TypeOK
  <2>1. ~ \E q \in Req : Call(q) \/ TakeAnswer(q) \/ Acquire(q) \/ DropWaiting(q)
    BY DEF Call, TakeAnswer, Acquire, DropWaiting, Final
  <2>2. ~ Decompose
    <3>1. ~ Release("error") /\ ~ UNCHANGED req
      BY DEF Release
    <3>2. \A N, E, S : ~ Install(N, E, S)
      BY <3>1 DEF Install
    <3>3. \A p \in Plans : ~ EnginePlan(p) /\ ~ EngineDuplicateEdge(p)
      BY <3>1, <3>2 DEF EnginePlan, EngineDuplicateEdge
    <3> QED
      BY <3>1, <3>2, <3>3 DEF Decompose, EngineRefused, LocalPlan
  <2>3. ~ Dispatch
    BY DEF Dispatch, DispatchReadOnly, DispatchNoGate, DispatchToGate, Release
  <2>4. ~ Gate /\ ~ Approve
    BY DEF Gate, GateGranted, GateApprovalRequired, GateDenied, GateError, Deny,
           Approve, UserApproved, ApprovalDenied, Release
  <2>5. ~ Execute /\ ~ Drop /\ ~ \E o \in orphans : OrphanExits(o)
    BY DEF Execute, ExecDone, Drop, OrphanExits, Release
  <2> QED
    BY <2>1, <2>2, <2>3, <2>4, <2>5 DEF Next, Handler
<1>2. phase = "loop" /\ phase \in Executing
  BY <1>1 DEF Finish, Executing
<1>3. r = holder /\ holder \in Req
  BY <1>2 DEF OneActive
<1>4. req'[r] = IF statuses = {"succeeded"} THEN "ok" ELSE "failed"
  BY <1>1, <1>3 DEF Finish, Release, TypeOK
<1>5. CASE statuses = {"succeeded"}
  <2>1. queue = {} /\ AllSucceeded
    BY <1>1, <1>5 DEF Finish, KeepGoing, AllSucceeded
  <2> DEFINE S == {t \in Nodes(st) : st[t] # "Succeeded"}
  <2>2. \A t \in S : \E u \in S : <<u, t>> \in edges
    <3> SUFFICES ASSUME NEW t \in S PROVE \E u \in S : <<u, t>> \in edges
      OBVIOUS
    <3>1. Accounted(t)
      BY <1>2, <2>1 DEF ProgressInv
    <3>2. PICK u \in Preds(edges, t) : st[u] # "Succeeded"
      BY <1>2, <2>1, <3>1 DEF Accounted
    <3>3. <<u, t>> \in edges
      BY <3>2 DEF Preds, TypeOK
    <3>4. u \in Nodes(st)
      BY <3>3 DEF GraphInv
    <3> QED
      BY <3>2, <3>3, <3>4
  <2>3. S = {}
    BY <1>2, <2>2 DEF ProgressInv, HasCycle
  <2>4. \A t \in Nodes(st) : t \in Task
    BY DEF Nodes, TypeOK
  <2> QED
    BY <1>4, <1>5, <2>3, <2>4 DEF GraphInv
<1>6. CASE statuses # {"succeeded"}
  <2>1. ~ AllSucceeded
    BY <1>1, <1>2, <1>6 DEF Finish, KeepGoing, AllSucceeded, ProgressInv
  <2> QED
    BY <1>2, <1>4, <1>6, <2>1 DEF ProgressInv
<1> QED
  BY <1>5, <1>6

(* A success answer means every node of the plan ran and succeeded, for     *)
(* every acyclic plan; a failure answer means some node failed.             *)
THEOREM TruthfulReports == Spec => ReportsTruthful
<1> QED
  BY Invariance, TruthStep, PTL DEF Spec, ReportsTruthful

-----------------------------------------------------------------------------
(* PlanInstalls. *)

(* The two cycle checks agree, for every graph: when no set of nodes is      *)
(* stuck (has_cycle's test), the search of add_dependency finds no path back *)
(* over any edge, whatever the other edges of the graph.  The set the search *)
(* visits would be stuck itself.                                             *)
LEMMA CycleChecksAgree ==
  ASSUME NEW N, NEW E, E \subseteq N \X N, ~ HasCycle(N, E), NEW e \in E
  PROVE  ~ Reachable(E \ {e}, e[2], e[1])
<1> DEFINE u == e[1]
           v == e[2]
           F == E \ {e}
           U == {v} \cup {d[1] : d \in F} \cup {d[2] : d \in F}
           R == {x \in U : \A S \in SUBSET U : (v \in S /\ Closed(F, S)) => x \in S}
<1>1. u \in N /\ v \in N /\ e = <<u, v>> /\ U \subseteq N
  OBVIOUS
<1>2. SUFFICES ASSUME Reachable(F, v, u) PROVE FALSE
  OBVIOUS
<1>3. ~ \E S \in (SUBSET N) \ {{}} : \A t \in S : \E w \in S : <<w, t>> \in E
  BY DEF HasCycle
<1>4. u # v
  <2>1. ASSUME u = v PROVE FALSE
    <3>1. {v} \in (SUBSET N) \ {{}} /\ \A t \in {v} : \E w \in {v} : <<w, t>> \in E
      BY <1>1, <2>1
    <3> QED
      BY <1>3, <3>1
  <2> QED
    BY <2>1
<1>5. \A S \in SUBSET U : (v \in S /\ Closed(F, S)) => u \in S
  BY <1>2, <1>4 DEF Reachable
<1>6. Closed(F, U) /\ U \in SUBSET U /\ v \in U
  BY DEF Closed
<1>7. u \in R /\ v \in R /\ R \in SUBSET U
  BY <1>5, <1>6
<1>8. Closed(F, R)
  <2> SUFFICES ASSUME NEW d \in F, d[1] \in R PROVE d[2] \in R
    BY DEF Closed
  <2>1. d[2] \in U
    OBVIOUS
  <2>2. ASSUME NEW S \in SUBSET U, v \in S, Closed(F, S) PROVE d[2] \in S
    BY <2>2 DEF Closed
  <2> QED
    BY <2>1, <2>2
<1>9. \A t \in R : \E w \in R : <<w, t>> \in E
  <2> SUFFICES ASSUME NEW t \in R, \A w \in R : <<w, t>> \notin E PROVE FALSE
    OBVIOUS
  <2>1. t # v
    BY <1>1, <1>7
  <2>2. v \in R \ {t} /\ R \ {t} \in SUBSET U /\ t \notin R \ {t}
    BY <1>7, <2>1
  <2>3. Closed(F, R \ {t})
    <3> SUFFICES ASSUME NEW d \in F, d[1] \in R \ {t} PROVE d[2] \in R \ {t}
      BY DEF Closed
    <3>1. d[2] \in R
      BY <1>8 DEF Closed
    <3>2. d = <<d[1], d[2]>>
      OBVIOUS
    <3>3. d[2] # t
      BY <3>2
    <3> QED
      BY <3>1, <3>3
  <2> QED
    BY <2>2, <2>3
<1>10. R \in (SUBSET N) \ {{}}
  BY <1>1, <1>7
<1> QED
  BY <1>3, <1>9, <1>10

(* No edge of an installed plan closes a path: add_dependency would accept   *)
(* every edge after all the others, so a plan that passed has_cycle is never *)
(* refused half-way.                                                         *)
THEOREM PlansInstall == Spec => []PlanInstalls
<1>1. IndInv => PlanInstalls
  <2> SUFFICES ASSUME IndInv, phase \in Executing, NEW e \in edges
               PROVE  CanAddDependency(st, edges \ {e}, e[1], e[2])
    BY DEF PlanInstalls, IndInv, TypeOK, Phase, Executing
  <2> USE DEF IndInv
  <2>1. edges \subseteq Nodes(st) \X Nodes(st)
    BY DEF GraphInv
  <2>2. ~ HasCycle(Nodes(st), edges)
    BY DEF ProgressInv
  <2>3. ~ Reachable(edges \ {e}, e[2], e[1])
    BY <2>1, <2>2, CycleChecksAgree
  <2>4. {e[1], e[2]} \subseteq Nodes(st) /\ e = <<e[1], e[2]>>
    BY <2>1
  <2> QED
    BY <2>3, <2>4 DEF CanAddDependency
<1> QED
  BY <1>1, Invariance, PTL
=============================================================================
