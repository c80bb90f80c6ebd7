------------------------------ MODULE IpcRuntime ------------------------------
(***************************************************************************)
(* The in-process runtime of the gRPC transport (grpc/src/runtime.rs): its *)
(* table of agents and the table of their clients, each behind a lock of   *)
(* its own, the operators that register and unregister, the supervisor     *)
(* that sends heartbeats from a snapshot, and shutdown.                    *)
(***************************************************************************)
EXTENDS Integers, Sequences, FiniteSets, SequencesExt

CONSTANTS
  RtAgents,       \* agents
  Operators,      \* concurrent callers of register_agent and unregister_agent
  MaxRegistered,  \* bound: operations begun
  MaxRounds       \* bound: rounds of the supervisor

Nobody == "nobody"
Supervisor == "supervisor"
ASSUME IpcRuntimeAssumption ==
  {MaxRegistered, MaxRounds} \subseteq Nat /\ IsFiniteSet(RtAgents) /\ Nobody \notin Operators
NoEntry == [there |-> FALSE]

VARIABLES
  entries,     \* IpcRuntime.agents: entry of a registered agent
  clients,     \* IpcRuntime.clients: "none", "connected" or "unconnected"
  agentsLock,  \* who holds the write lock of agents
  clientsLock, \* who holds the lock of clients
  ops,         \* the operators' calls: what, on whom, how far
  super,       \* the supervisor: the snapshot to work off and where it is
  tasks,       \* IpcRuntime.tasks still holds the two task handles
  stopped,     \* a shutdown has answered Ok
  rounds,      \* rounds the supervisor has begun
  begun,       \* operations begun
  leftover     \* history: agents whose client an unregistration given up half-way left behind
runtimeVars == <<entries, clients, agentsLock, clientsLock, ops, super, tasks, stopped, rounds, begun, leftover>>

OpIdle == [kind |-> "none", agent |-> Nobody, at |-> "idle", remote |-> FALSE, client |-> "none"]
SuperIdle == [at |-> "wait", queue |-> <<>>]

RuntimeInit ==
  /\ entries = [a \in RtAgents |-> NoEntry] /\ clients = [a \in RtAgents |-> "none"]
  /\ agentsLock = Nobody /\ clientsLock = Nobody /\ tasks = TRUE /\ stopped = FALSE
  /\ ops = [o \in Operators |-> OpIdle] /\ super = SuperIdle
  /\ rounds = 0 /\ begun = 0 /\ leftover = {}

-------------------------------------------------------------------------------
\* register_agent and unregister_agent take the write lock of agents first; unregister removes the entry ...
BeginOp(o, kind, a, remote) ==
  /\ ops[o].at = "idle" /\ begun < MaxRegistered /\ agentsLock = Nobody
  /\ begun' = begun + 1
  /\ IF entries[a].there = (kind = "register")
     THEN UNCHANGED <<entries, agentsLock, ops>>               \* AgentExists, AgentNotFound
     ELSE /\ agentsLock' = o /\ entries' = [entries EXCEPT ![a] = NoEntry]
          /\ ops' = [ops EXCEPT ![o] = [kind |-> kind, agent |-> a, remote |-> remote, client |-> "none",
               at |-> IF kind = "unregister" THEN "clients" ELSE IF remote THEN "dial" ELSE "enter"]]
  /\ UNCHANGED <<clients, clientsLock, super, tasks, stopped, rounds, leftover>>
\* ... they hold it while they dial an agent with an endpoint, all attempts of it, whether or not that succeeds ...
DialAgent(o, outcome) ==
  /\ ops[o].at = "dial" /\ ops' = [ops EXCEPT ![o].at = "clients", ![o].client = outcome]
  /\ UNCHANGED <<entries, clients, agentsLock, clientsLock, super, tasks, stopped, rounds, begun, leftover>>
\* ... and while they wait for the lock of clients.
ChangeClient(o) ==
  /\ ops[o].at = "clients" /\ clientsLock = Nobody
  /\ clients' = [clients EXCEPT ![ops[o].agent] = ops[o].client] /\ leftover' = leftover \ {ops[o].agent}
  /\ IF ops[o].kind = "unregister"
     THEN agentsLock' = Nobody /\ ops' = [ops EXCEPT ![o] = OpIdle]
     ELSE agentsLock' = agentsLock /\ ops' = [ops EXCEPT ![o].at = "enter"]
  /\ UNCHANGED <<entries, clientsLock, super, tasks, stopped, rounds, begun>>
\* register enters the agent last.
EnterAgent(o) ==
  /\ ops[o].at = "enter" /\ agentsLock' = Nobody /\ ops' = [ops EXCEPT ![o] = OpIdle]
  /\ entries' = [entries EXCEPT ![ops[o].agent] = [there |-> TRUE, remote |-> ops[o].remote, seq |-> 0]]
  /\ UNCHANGED <<clients, clientsLock, super, tasks, stopped, rounds, begun, leftover>>
\* The caller drops the call at one of its two awaits: unregister has removed the entry and leaves the client.
GiveUp(o) ==
  LET a == ops[o].agent IN
  /\ ops[o].at \in {"dial", "clients"} /\ agentsLock' = Nobody /\ ops' = [ops EXCEPT ![o] = OpIdle]
  /\ leftover' = (IF ops[o].kind = "unregister" /\ clients[a] # "none" THEN leftover \cup {a} ELSE leftover)
  /\ UNCHANGED <<entries, clients, clientsLock, super, tasks, stopped, rounds, begun>>

\* shutdown: the handles are drained and awaited for 5 s.  The supervisor never
\* ends, so the first call times out and leaves the clients; a further call
\* finds no handles, and drops them, with the supervisor still running.
Shutdown ==
  /\ clientsLock = Nobody /\ ~stopped /\ tasks' = FALSE
  /\ IF tasks THEN UNCHANGED <<clients, stopped>>
     ELSE clients' = [a \in RtAgents |-> "none"] /\ stopped' = TRUE
  /\ UNCHANGED <<entries, agentsLock, clientsLock, ops, super, rounds, begun, leftover>>

-------------------------------------------------------------------------------
\* The supervisor: a snapshot under the read lock, in the order of the map,
\* then for each agent a heartbeat under the lock of clients, and the new
\* number under the write lock of agents unless it failed.  An agent without
\* a client, or with one that is not connected, counts as a success.
Remote == {a \in RtAgents : entries[a].there /\ entries[a].remote}
TakeSnapshot ==
  /\ super.at = "wait" /\ rounds < MaxRounds /\ agentsLock = Nobody /\ rounds' = rounds + 1
  /\ \E order \in SetToSeqs(Remote) :
       super' = [at |-> "next",
                 queue |-> [i \in DOMAIN order |-> [agent |-> order[i], seq |-> entries[order[i]].seq + 1]]]
  /\ UNCHANGED <<entries, clients, agentsLock, clientsLock, ops, tasks, stopped, begun, leftover>>
BeatNext ==
  /\ super.at = "next" /\ super.queue # <<>> /\ clientsLock = Nobody /\ clientsLock' = Supervisor
  /\ super' = [super EXCEPT !.at = "beat"]
  /\ UNCHANGED <<entries, clients, agentsLock, ops, tasks, stopped, rounds, begun, leftover>>
BeatDone(ok) ==
  /\ super.at = "beat" /\ clientsLock' = Nobody
  /\ ok \/ clients[Head(super.queue).agent] = "connected"
  /\ super' = IF ok THEN [super EXCEPT !.at = "record"] ELSE [at |-> "next", queue |-> Tail(super.queue)]
  /\ UNCHANGED <<entries, clients, agentsLock, ops, tasks, stopped, rounds, begun, leftover>>
RecordedBlind(a, seq) == [entries EXCEPT ![a] = [there |-> TRUE, remote |-> TRUE, seq |-> seq]]
Recorded(a, seq) == IF entries[a].there THEN [entries EXCEPT ![a].seq = seq] ELSE entries
RecordSeq ==
  /\ super.at = "record" /\ agentsLock = Nobody
  /\ entries' = Recorded(Head(super.queue).agent, Head(super.queue).seq)
  /\ super' = [at |-> "next", queue |-> Tail(super.queue)]
  /\ UNCHANGED <<clients, agentsLock, clientsLock, ops, tasks, stopped, rounds, begun, leftover>>
RoundDone ==
  /\ super.at = "next" /\ super.queue = <<>> /\ super' = SuperIdle
  /\ UNCHANGED <<entries, clients, agentsLock, clientsLock, ops, tasks, stopped, rounds, begun, leftover>>

SuperStep == BeatNext \/ RecordSeq \/ RoundDone \/ \E ok \in BOOLEAN : BeatDone(ok)
OpStep(o) == ChangeClient(o) \/ EnterAgent(o) \/ \E outcome \in {"connected", "unconnected"} : DialAgent(o, outcome)
RuntimeNext ==
  \/ TakeSnapshot \/ SuperStep \/ Shutdown
  \/ \E o \in Operators : \/ OpStep(o) \/ GiveUp(o)
                          \/ \E a \in RtAgents : \/ BeginOp(o, "unregister", a, FALSE)
                                                 \/ \E remote \in BOOLEAN : BeginOp(o, "register", a, remote)

\* A begun call goes on, and tokio's locks are granted in the order asked for.
RuntimeFairness == SF_runtimeVars(SuperStep) /\ \A o \in Operators : SF_runtimeVars(OpStep(o))

RuntimeTypeOK ==
  /\ \A a \in RtAgents : entries[a] = NoEntry \/ (entries[a].there /\ entries[a].seq \in 0..MaxRounds)
  /\ clients \in [RtAgents -> {"none", "connected", "unconnected"}]
  /\ agentsLock \in Operators \cup {Nobody} /\ clientsLock \in {Supervisor, Nobody}
  /\ rounds \in 0..MaxRounds /\ begun \in 0..MaxRegistered /\ leftover \subseteq RtAgents

(***************************************************************************)
(* Whenever the table of agents can be read, an agent has a client exactly *)
(* if it is registered with an endpoint, or an unregistration of it was    *)
(* given up between the two tables: that client stays until the agent is   *)
(* registered with an endpoint or unregistered again.  A number the        *)
(* supervisor took from an older registration never brings an unregistered *)
(* agent back (register_agent, unregister_agent, start).                   *)
(***************************************************************************)
TablesAgree ==
  agentsLock = Nobody /\ ~stopped => \A a \in RtAgents : clients[a] # "none" <=> a \in Remote \cup leftover

(***************************************************************************)
(* Every round of the supervisor and every registration comes to an end:   *)
(* the two locks are never held against each other (start, register_agent, *)
(* unregister_agent).                                                      *)
(***************************************************************************)
RoundsEnd == (super.at # "wait" ~> super.at = "wait") /\ (agentsLock # Nobody ~> agentsLock = Nobody)

\* The inductive invariant behind TablesAgree.  The lock of agents has one
\* holder, the operator in the middle of its call, whose agent has no entry;
\* the tables differ for that agent only, from its first change to its last.
RuntimeShapes ==
  /\ entries \in [RtAgents -> {NoEntry} \cup [there : {TRUE}, remote : BOOLEAN, seq : 0..rounds]]
  /\ ops \in [Operators -> [kind : {"none", "register", "unregister"}, agent : RtAgents \cup {Nobody},
                            at : {"idle", "dial", "clients", "enter"}, remote : BOOLEAN,
                            client : {"none", "connected", "unconnected"}]]
  /\ super \in [at : {"wait", "next", "beat", "record"}, queue : Seq([agent : RtAgents, seq : 0..rounds])]
  /\ super.at \in {"beat", "record"} => super.queue # <<>>
  /\ {tasks, stopped} \subseteq BOOLEAN

OpInv(o) ==
  /\ ops[o].at = "idle" <=> agentsLock # o
  /\ ops[o].at # "idle" =>
       /\ ops[o].agent \in RtAgents /\ ops[o].kind # "none"
       /\ ~entries[ops[o].agent].there
       /\ ops[o].at \in {"dial", "enter"} => ops[o].kind = "register"
       /\ ops[o].at = "dial" => ops[o].remote
       /\ ops[o].at = "clients" => (ops[o].client # "none" <=> ops[o].kind = "register")
       /\ ops[o].at = "clients" => (ops[o].kind = "register" => ops[o].remote)

\* Its client is changed and its entry is not, or the other way round.
Halfway(a) ==
  /\ agentsLock # Nobody /\ ops[agentsLock].agent = a
  /\ ops[agentsLock].kind = "unregister" \/ (ops[agentsLock].at = "enter" /\ ops[agentsLock].remote)
Agreeing(a) ==
  /\ a \in leftover => clients[a] # "none"
  /\ IF Halfway(a) THEN ops[agentsLock].kind = "register" => clients[a] # "none"
     ELSE clients[a] # "none" => a \in Remote \cup leftover
  /\ a \in Remote => clients[a] # "none"

RuntimeInv ==
  /\ RuntimeTypeOK /\ RuntimeShapes
  /\ \A o \in Operators : OpInv(o)
  /\ ~stopped => \A a \in RtAgents : Agreeing(a)
===============================================================================
