------------------------------- MODULE IpcAgent -------------------------------
(***************************************************************************)
(* The connection an agent keeps to the IPC server: the task agent::spawn  *)
(* starts (grpc/src/agent.rs) and the client's own heartbeat loop          *)
(* (grpc/src/client.rs), against a server that comes and goes.             *)
(***************************************************************************)
EXTENDS Integers

CONSTANTS
  MaxFailures, \* AgentSpec.max_failures, and max_reconnect_attempts of the loop
  BackoffCap,  \* backoff_max_ms in units of backoff_init_ms
  MaxOutages   \* bound: how often the server goes away

ASSUME IpcAgentAssumption == MaxFailures \in Nat \ {0} /\ BackoffCap \in Nat \ {0} /\ MaxOutages \in Nat

VARIABLES
  mode,      \* "agent": the task of spawn; "loop": heartbeat_loop
  phase,     \* where the task is
  inner,     \* CognosClient.inner is Some
  attempt,   \* attempts of the connect in progress
  backoff,   \* the delay before the next attempt
  serverUp,  \* whether the server answers
  outages,
  stopAsked, \* stop() has notified; the permit is kept until it is taken
  lastBeat   \* outcome of the last alive heartbeat, or "none"
ipcAgentVars == <<mode, phase, inner, attempt, backoff, serverUp, outages, stopAsked, lastBeat>>

Phases == {"dial", "register", "sleep", "select", "beat", "stopped", "failed"}

\* spawn begins with connect_and_register; heartbeat_loop is called on a
\* client its owner has connected.
IpcAgentInit ==
  /\ mode \in {"agent", "loop"} /\ serverUp \in BOOLEAN /\ outages = 0
  /\ phase = IF mode = "agent" THEN "dial" ELSE "select"
  /\ inner = (mode = "loop") /\ attempt = 1 /\ backoff = 1
  /\ stopAsked = FALSE /\ lastBeat = "none"

\* External: the server, and its restarts.
ServerDown == serverUp /\ outages < MaxOutages /\ serverUp' = FALSE /\ outages' = outages + 1
              /\ UNCHANGED <<mode, phase, inner, attempt, backoff, stopAsked, lastBeat>>
ServerUp == ~serverUp /\ serverUp' = TRUE
            /\ UNCHANGED <<mode, phase, inner, attempt, backoff, outages, stopAsked, lastBeat>>

\* stop: notify_one stores the permit, then the task is awaited.
Stop ==
  /\ ~stopAsked /\ stopAsked' = TRUE
  /\ UNCHANGED <<mode, phase, inner, attempt, backoff, serverUp, outages, lastBeat>>

-------------------------------------------------------------------------------
AttemptFailsOnce ==
  IF attempt > MaxFailures
  THEN phase' = (IF mode = "agent" THEN "select" ELSE "failed") /\ UNCHANGED <<attempt, backoff>>
  ELSE phase' = "sleep" /\ UNCHANGED <<attempt, backoff>>
\* One attempt of the connect loop failed: sleep and try again, or give up.
\* spawn's task then goes on degraded, the loop ends with ReconnectExhausted.
AttemptFails ==
  IF attempt >= MaxFailures
  THEN phase' = (IF mode = "agent" THEN "select" ELSE "failed") /\ UNCHANGED <<attempt, backoff>>
  ELSE phase' = "sleep" /\ UNCHANGED <<attempt, backoff>>

\* connect: a failed dial leaves the old channel in place.
Dial ==
  /\ phase = "dial"
  /\ IF serverUp
     THEN inner' = TRUE /\ phase' = (IF mode = "agent" THEN "register" ELSE "select") /\ UNCHANGED <<attempt, backoff>>
     ELSE AttemptFails /\ UNCHANGED inner
  /\ UNCHANGED <<mode, serverUp, outages, stopAsked, lastBeat>>
\* connect_and_register's heartbeat with sequence number 0.
RegisterBeat ==
  /\ phase = "register"
  /\ IF serverUp THEN phase' = "select" /\ UNCHANGED <<attempt, backoff>> ELSE AttemptFails
  /\ UNCHANGED <<mode, inner, serverUp, outages, stopAsked, lastBeat>>
WakeFresh ==
  /\ phase = "sleep" /\ phase' = "dial" /\ attempt' = 1
  /\ UNCHANGED <<mode, inner, backoff, serverUp, outages, stopAsked, lastBeat>>
\* The delay doubles up to its cap (backoff_delay; connect).
Wake ==
  /\ phase = "sleep" /\ phase' = "dial" /\ attempt' = attempt + 1
  /\ backoff' = IF 2 * backoff > BackoffCap THEN BackoffCap ELSE 2 * backoff
  /\ UNCHANGED <<mode, inner, serverUp, outages, stopAsked, lastBeat>>

\* The select of the loop: either branch that is ready, at random.
TakeShutdown ==
  /\ phase = "select" /\ stopAsked /\ phase' = "stopped"
  /\ inner' = (inner /\ mode = "loop")
  /\ UNCHANGED <<mode, attempt, backoff, serverUp, outages, stopAsked, lastBeat>>
TakeTick ==
  /\ phase = "select" /\ phase' = "beat"
  /\ UNCHANGED <<mode, inner, attempt, backoff, serverUp, outages, stopAsked, lastBeat>>
\* A heartbeat on the channel, which tonic redials by itself; when it fails,
\* the connection is made anew, and shutdown is not looked at meanwhile.
Beat ==
  /\ phase = "beat"
  /\ IF inner /\ serverUp
     THEN phase' = "select" /\ lastBeat' = "ok" /\ UNCHANGED <<attempt, backoff>>
     ELSE phase' = "dial" /\ lastBeat' = "failed" /\ attempt' = 1 /\ backoff' = 1
  /\ UNCHANGED <<mode, inner, serverUp, outages, stopAsked>>

TaskStep == Dial \/ RegisterBeat \/ Wake \/ TakeTick \/ Beat
IpcAgentNext == TaskStep \/ TakeShutdown \/ Stop \/ ServerUp \/ ServerDown

\* Timers fire and RPCs end, by an answer or by the request timeout; the
\* select picks at random among the branches that are ready, so that one
\* which is ready time and again is taken.
IpcAgentFairness == WF_ipcAgentVars(TaskStep) /\ SF_ipcAgentVars(TakeShutdown) /\ SF_ipcAgentVars(TakeTick)

IpcAgentTypeOK ==
  /\ mode \in {"agent", "loop"} /\ phase \in Phases /\ {inner, serverUp, stopAsked} \subseteq BOOLEAN
  /\ attempt \in 1..MaxFailures /\ backoff \in 1..BackoffCap /\ outages \in 0..MaxOutages
  /\ lastBeat \in {"none", "ok", "failed"}

(***************************************************************************)
(* Whatever the server does, a stop ends the task: it is never stuck in    *)
(* reconnecting, although it looks at the shutdown only between its        *)
(* heartbeats (AgentHandle::stop, heartbeat_loop).                         *)
(***************************************************************************)
StopEnds == stopAsked ~> phase \in {"stopped", "failed"}

(***************************************************************************)
(* A task that was not stopped or has not given up gets its heartbeats     *)
(* through again once the server stays up, however often it failed before: *)
(* degraded is not for ever (spawn: "will keep retrying").                 *)
(***************************************************************************)
BeatsResume ==
  (<>[]serverUp /\ []~stopAsked) => []<>(lastBeat = "ok" \/ phase = "failed")

(***************************************************************************)
(* The task of spawn never ends by itself: only a stop ends it, and it     *)
(* then leaves no connection; the loop ends by itself only after all its   *)
(* attempts, with the last dial refused (spawn, heartbeat_loop).           *)
(***************************************************************************)
EndsForAReason ==
  /\ phase = "failed" => mode = "loop" /\ attempt = MaxFailures
  /\ phase = "stopped" => stopAsked /\ (mode = "agent" => ~inner)
\* The inductive invariant behind it: who sleeps has an attempt left.
ConnectionInv ==
  /\ IpcAgentTypeOK /\ EndsForAReason
  /\ phase = "sleep" => attempt < MaxFailures
===============================================================================
