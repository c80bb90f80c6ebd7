------------------------------- MODULE MCIpc -------------------------------
(*****************************************************************************)
(* Model-checking instance of the IPC components.  They share no state, so a *)
(* behaviour drives one of them, chosen at the start.                        *)
(*****************************************************************************)
EXTENDS AgentIpc, EventBus, IpcAgent, IpcRuntime

CirculatedEnvelopes == {
  [nonce |-> "n1", stamp |-> 1, source |-> "planner", target |-> "memory", caps |-> {"memory.read"}],
  [nonce |-> "n2", stamp |-> 2, source |-> "planner", target |-> "memory", caps |-> {}]}
NamedAgents == {"planner", "memory"}

VARIABLE part \* the component of this behaviour
vars == <<part, agentIpcVars, busVars, ipcAgentVars, runtimeVars>>

Init ==
  /\ part \in {"coordinator", "bus", "agent", "runtime"}
  /\ AgentIpcInit
  /\ BusInit
  /\ IpcAgentInit
  /\ RuntimeInit
  /\ part = "agent" \/ (mode = "agent" /\ serverUp) \* a part that is not driven starts one way
  /\ part = "bus" \/ wired

Next ==
  \/ /\ part = "coordinator" /\ AgentIpcNext
     /\ UNCHANGED <<part, busVars, ipcAgentVars, runtimeVars>>
  \/ /\ part = "bus" /\ BusNext
     /\ UNCHANGED <<part, agentIpcVars, ipcAgentVars, runtimeVars>>
  \/ /\ part = "agent" /\ IpcAgentNext
     /\ UNCHANGED <<part, agentIpcVars, busVars, runtimeVars>>
  \/ /\ part = "runtime" /\ RuntimeNext
     /\ UNCHANGED <<part, agentIpcVars, busVars, ipcAgentVars>>

Spec == Init /\ [][Next]_vars

\* Fairness of the parts that have it, in their own behaviours.
Fairness ==
  /\ WF_ipcAgentVars(part = "agent" /\ TaskStep)
  /\ SF_ipcAgentVars(part = "agent" /\ TakeShutdown) /\ SF_ipcAgentVars(part = "agent" /\ TakeTick)
  /\ SF_runtimeVars(part = "runtime" /\ SuperStep)
  /\ \A o \in Operators : SF_runtimeVars(part = "runtime" /\ OpStep(o))
FairSpec == Spec /\ Fairness

IpcTypeOK == AgentIpcTypeOK /\ BusTypeOK /\ IpcAgentTypeOK /\ RuntimeTypeOK

(***************************************************************************)
(* What the coordinator lets through: an envelope twice in the two known   *)
(* cases only, capabilities and trust as they were since the call came, no *)
(* more than the rate, and no agent swept away that kept its heartbeats.   *)
(***************************************************************************)
DispatchSound == part = "coordinator" => NonceOnce /\ DispatchEntitled /\ LimitsHold

(***************************************************************************)
(* A subscriber's stream is the published sequence but for what a full     *)
(* ring overwrote, and decisions follow their requests.                    *)
(***************************************************************************)
StreamsSound == part = "bus" => StreamsFaithful

(***************************************************************************)
(* The tables of agents and of clients agree under every interleaving of   *)
(* registrations with the supervisor, and a connection task ends only for  *)
(* the reasons the code gives.                                             *)
(***************************************************************************)
ConnectionsSound == (part = "runtime" => TablesAgree) /\ (part = "agent" => EndsForAReason)

(***************************************************************************)
(* A stop ends the connection task, heartbeats resume when the server is   *)
(* back for good, and rounds and registrations end.                        *)
(***************************************************************************)
IpcProgress ==
  /\ part = "agent" => StopEnds /\ BeatsResume
  /\ part = "runtime" => RoundsEnd

==============================================================================
