------------------------------- MODULE IpcProofs -------------------------------
(***************************************************************************)
(* The IPC components for every value of their constants: how a connection *)
(* task ends, that the runtime's two tables agree, and that the streams of *)
(* the buses lose nothing but what a full ring overwrote.                  *)
(***************************************************************************)
EXTENDS MCIpc, ProofLemmas, TLAPS

(* A step drives one component and leaves the others as they are. *)
LEMMA OneDriven ==
  ASSUME [Next]_vars
  PROVE  /\ [IpcAgentNext]_ipcAgentVars /\ [RuntimeNext]_runtimeVars /\ [BusNext]_busVars
         /\ [AgentIpcNext]_agentIpcVars
  BY DEF Next, vars, ipcAgentVars, runtimeVars, busVars, agentIpcVars

-------------------------------------------------------------------------------
(* The connection task. *)

(* spawn's task starts unconnected and the loop on a connected client,     *)
(* neither of them asleep or ended (agent.rs, client.rs).                  *)
LEMMA ConnectionInit ==
  ASSUME IpcAgentInit
  PROVE  ConnectionInv
<1>1. /\ mode \in {"agent", "loop"} /\ phase \in {"dial", "select"} /\ lastBeat = "none"
      /\ attempt = 1 /\ backoff = 1 /\ outages = 0
  BY DEF IpcAgentInit
<1>2. inner \in BOOLEAN /\ serverUp \in BOOLEAN /\ stopAsked \in BOOLEAN
  BY Zenon DEF IpcAgentInit
<1>3. IpcAgentTypeOK
  BY <1>1, <1>2, IpcAgentAssumption DEF IpcAgentTypeOK, Phases
<1> QED
  BY <1>1, <1>3 DEF ConnectionInv, EndsForAReason

(* Every step of the task, of its owner and of the server keeps what is    *)
(* known of the connection: who sleeps has an attempt left, who gave up    *)
(* has used them all, and who was stopped was asked to (heartbeat_loop).   *)
LEMMA ConnectionStep ==
  ASSUME ConnectionInv, [IpcAgentNext]_ipcAgentVars
  PROVE  ConnectionInv'
<1> USE IpcAgentAssumption DEF ConnectionInv, IpcAgentTypeOK, EndsForAReason, Phases
<1>1. inner \in BOOLEAN /\ serverUp \in BOOLEAN /\ stopAsked \in BOOLEAN
  OBVIOUS
<1>2. CASE Dial /\ serverUp
  BY <1>2 DEF Dial
<1>3. CASE Dial /\ ~serverUp
  BY <1>3 DEF Dial, AttemptFails
<1>4. CASE RegisterBeat
  BY <1>4 DEF RegisterBeat, AttemptFails
<1>5. CASE Wake
  BY <1>5 DEF Wake
<1>6. CASE TakeTick \/ TakeShutdown
  BY <1>6 DEF TakeTick, TakeShutdown
<1>7. CASE Beat
  BY <1>7 DEF Beat
<1>8. CASE Stop \/ ServerUp \/ ServerDown
  <2>1. UNCHANGED <<mode, phase, inner, attempt, backoff, lastBeat>>
    BY <1>8 DEF Stop, ServerUp, ServerDown
  <2>2. serverUp' \in BOOLEAN /\ stopAsked' \in BOOLEAN /\ (stopAsked => stopAsked')
    BY <1>1, <1>8, Zenon DEF Stop, ServerUp, ServerDown
  <2>3. outages' \in 0..MaxOutages
    BY <1>8 DEF Stop, ServerUp, ServerDown
  <2> QED
    BY <1>1, <2>1, <2>2, <2>3
<1>9. CASE UNCHANGED ipcAgentVars
  BY <1>9 DEF ipcAgentVars
<1> QED
  BY <1>2, <1>3, <1>4, <1>5, <1>6, <1>7, <1>8, <1>9 DEF IpcAgentNext, TaskStep
-------------------------------------------------------------------------------
(* The in-process runtime. *)

Entry(n) == {NoEntry} \cup [there : {TRUE}, remote : BOOLEAN, seq : 0..n]
Beats(n) == [agent : RtAgents, seq : 0..n]

(* A number the supervisor may carry in one round it may carry in the next *)
(* (IpcRuntime::start).                                                    *)
LEMMA RoundsWiden ==
  ASSUME NEW n \in Nat, NEW m \in Nat, n <= m
  PROVE  Entry(n) \subseteq Entry(m) /\ Beats(n) \subseteq Beats(m) /\ Seq(Beats(n)) \subseteq Seq(Beats(m))
<1>1. 0..n \subseteq 0..m
  OBVIOUS
<1>2. Entry(n) \subseteq Entry(m)
  BY <1>1 DEF Entry
<1>3. Beats(n) \subseteq Beats(m)
  BY <1>1 DEF Beats
<1>4. ASSUME NEW s \in Seq(Beats(n)) PROVE s \in Seq(Beats(m))
  <2>1. Len(s) \in Nat /\ s = [i \in 1..Len(s) |-> s[i]] /\ \A i \in 1..Len(s) : s[i] \in Beats(n)
    BY <1>4
  <2> QED
    BY <2>1, <1>3
<1> QED
  BY <1>2, <1>3, <1>4

(* An entry of the table is absent, or has its endpoint flag and a number  *)
(* that a heartbeat may replace (IpcRuntime.agents).                       *)
LEMMA EntryShape ==
  ASSUME NEW n \in Nat, NEW e \in Entry(n)
  PROVE  /\ ~NoEntry.there /\ e.there \in BOOLEAN
         /\ e = NoEntry \/ (e.there /\ e.remote \in BOOLEAN /\ e.seq \in 0..n)
         /\ e.there => \A m \in 0..n : [e EXCEPT !.seq = m] \in Entry(n)
<1>1. ~NoEntry.there /\ NoEntry.there = FALSE
  BY DEF NoEntry
<1>2. CASE e = NoEntry
  BY <1>1, <1>2, Zenon
<1>3. CASE e \in [there : {TRUE}, remote : BOOLEAN, seq : 0..n]
  <2>1. e.there = TRUE /\ e.remote \in BOOLEAN /\ e.seq \in 0..n
    BY <1>3
  <2>2. ASSUME NEW m \in 0..n
        PROVE  [e EXCEPT !.seq = m] \in [there : {TRUE}, remote : BOOLEAN, seq : 0..n]
    BY <1>3
  <2> QED
    BY <1>1, <2>1, <2>2, Zenon DEF Entry
<1> QED
  BY <1>2, <1>3 DEF Entry

(* The runtime starts with empty tables and idle operators.                *)
LEMMA RuntimeStart ==
  ASSUME RuntimeInit
  PROVE  RuntimeInv
<1> USE IpcRuntimeAssumption DEF RuntimeInit
<1>1. MaxRounds \in Nat /\ MaxRegistered \in Nat /\ Nobody \notin Operators
  OBVIOUS
<1>2. RuntimeTypeOK
  BY <1>1 DEF RuntimeTypeOK
<1>3. entries \in [RtAgents -> Entry(rounds)]
  BY DEF Entry
<1>4. OpIdle \in [kind : {"none", "register", "unregister"}, agent : RtAgents \cup {Nobody},
                  at : {"idle", "dial", "clients", "enter"}, remote : BOOLEAN,
                  client : {"none", "connected", "unconnected"}]
  BY DEF OpIdle
<1>5. <<>> \in Seq(Beats(rounds))
  OBVIOUS
<1>6. super \in [at : {"wait", "next", "beat", "record"}, queue : Seq(Beats(rounds))]
      /\ super.at = "wait"
  BY <1>5 DEF SuperIdle
<1>7. tasks \in BOOLEAN /\ stopped \in BOOLEAN
  BY Zenon
<1>8. RuntimeShapes
  BY <1>3, <1>4, <1>6, <1>7 DEF RuntimeShapes, Entry, Beats
<1>9. \A o \in Operators : OpInv(o)
  BY <1>1 DEF OpInv, OpIdle
<1>10. \A a \in RtAgents : Agreeing(a)
  BY DEF Agreeing, Remote, NoEntry, Halfway
<1> QED
  BY <1>2, <1>8, <1>9, <1>10 DEF RuntimeInv

(* Every step keeps the shapes of the tables, the calls and the queue.     *)
LEMMA RuntimeShapesStep ==
  ASSUME RuntimeInv, RuntimeNext
  PROVE  RuntimeTypeOK' /\ RuntimeShapes'
<1> DEFINE OpSet == [kind : {"none", "register", "unregister"}, agent : RtAgents \cup {Nobody},
                     at : {"idle", "dial", "clients", "enter"}, remote : BOOLEAN,
                     client : {"none", "connected", "unconnected"}]
           Supers(n) == [at : {"wait", "next", "beat", "record"}, queue : Seq(Beats(n))]
           Going == super.at \in {"beat", "record"} => super.queue # <<>>
<1>1. /\ rounds \in Nat /\ rounds <= MaxRounds /\ MaxRounds \in Nat
      /\ begun \in 0..MaxRegistered /\ MaxRegistered \in Nat
  BY IpcRuntimeAssumption DEF RuntimeInv, RuntimeTypeOK
<1>2. /\ entries \in [RtAgents -> Entry(rounds)] /\ ops \in [Operators -> OpSet]
      /\ super \in Supers(rounds) /\ Going /\ tasks \in BOOLEAN /\ stopped \in BOOLEAN
  BY DEF RuntimeInv, RuntimeShapes, Entry, Beats
<1>3. /\ clients \in [RtAgents -> {"none", "connected", "unconnected"}]
      /\ agentsLock \in Operators \cup {Nobody} /\ clientsLock \in {Supervisor, Nobody}
      /\ leftover \subseteq RtAgents
  BY DEF RuntimeInv, RuntimeTypeOK
<1>4. \A o \in Operators : OpInv(o)
  BY DEF RuntimeInv
<1> DEFINE Goal == /\ entries \in [RtAgents -> Entry(rounds)] /\ ops \in [Operators -> OpSet]
                   /\ super \in Supers(rounds) /\ Going /\ tasks \in BOOLEAN /\ stopped \in BOOLEAN
                   /\ clients \in [RtAgents -> {"none", "connected", "unconnected"}]
                   /\ agentsLock \in Operators \cup {Nobody} /\ clientsLock \in {Supervisor, Nobody}
                   /\ rounds \in 0..MaxRounds /\ begun \in 0..MaxRegistered /\ leftover \subseteq RtAgents
           Idled == OpIdle \in OpSet
<1>11. Idled /\ NoEntry \in Entry(rounds)
  BY DEF OpIdle, Entry
<1>5. SUFFICES Goal'
  <2>1. ASSUME Goal', NEW a \in RtAgents
        PROVE  entries'[a] = NoEntry \/ (entries'[a].there /\ entries'[a].seq \in 0..MaxRounds)
    <3>1. entries'[a] \in Entry(rounds') /\ rounds' \in Nat
      BY <2>1, <1>1
    <3>2. entries'[a] = NoEntry \/ (entries'[a].there /\ entries'[a].seq \in 0..rounds')
      BY <3>1, EntryShape
    <3> QED
      BY <3>2, <2>1, <1>1
  <2>2. ASSUME Goal' PROVE RuntimeTypeOK'
    BY <2>2, <2>1 DEF RuntimeTypeOK
  <2>3. ASSUME Goal' PROVE RuntimeShapes'
    BY <2>3 DEF RuntimeShapes, Entry, Beats
  <2> QED
    BY <2>2, <2>3
<1>6. ASSUME NEW o \in Operators, NEW kind \in {"register", "unregister"}, NEW a \in RtAgents,
             NEW remote \in BOOLEAN, BeginOp(o, kind, a, remote)
      PROVE  Goal'
  <2>1. UNCHANGED <<clients, clientsLock, super, tasks, stopped, rounds, leftover>>
        /\ begun' = begun + 1 /\ begun < MaxRegistered
    BY <1>6 DEF BeginOp
  <2>3. entries' \in [RtAgents -> Entry(rounds)]
    <3>1. UNCHANGED entries \/ entries' = [entries EXCEPT ![a] = NoEntry]
      BY <1>6, Zenon DEF BeginOp
    <3> QED
      BY <3>1, <1>2, <1>11
  <2>2. ops' \in [Operators -> OpSet] /\ agentsLock' \in Operators \cup {Nobody}
    <3>1. CASE entries[a].there = (kind = "register")
      BY <3>1, <1>6, <1>2, <1>3 DEF BeginOp
    <3>2. CASE ~(entries[a].there = (kind = "register"))
      <4> DEFINE op == [kind |-> kind, agent |-> a, remote |-> remote, client |-> "none",
               at |-> IF kind = "unregister" THEN "clients" ELSE IF remote THEN "dial" ELSE "enter"]
      <4>1. op \in OpSet
        OBVIOUS
      <4>2. agentsLock' = o /\ ops' = [ops EXCEPT ![o] = op]
        BY <3>2, <1>6, Zenon DEF BeginOp
      <4> HIDE DEF op, OpSet
      <4> QED
        BY <4>1, <4>2, <1>2
    <3> QED
      BY <3>1, <3>2
  <2> QED
    BY <2>1, <2>2, <2>3, <1>1, <1>2, <1>3
<1>7. ASSUME NEW o \in Operators, OpStep(o)
      PROVE  Goal'
  <2>1. CASE ChangeClient(o)
    <3>1. UNCHANGED <<entries, clientsLock, super, tasks, stopped, rounds, begun>>
          /\ clients' = [clients EXCEPT ![ops[o].agent] = ops[o].client] /\ leftover' = leftover \ {ops[o].agent}
          /\ \/ agentsLock' = Nobody /\ ops' = [ops EXCEPT ![o] = OpIdle]
             \/ agentsLock' = agentsLock /\ ops' = [ops EXCEPT ![o].at = "enter"]
      BY <2>1 DEF ChangeClient
    <3>2. ops' \in [Operators -> OpSet]
      <4>1. [ops[o] EXCEPT !.at = "enter"] \in OpSet
        <5>1. ops[o] \in OpSet
          BY ONLY <1>2
        <5> QED
          BY ONLY <5>1
      <4> HIDE DEF OpSet
      <4> QED
        BY <3>1, <4>1, <1>2, <1>11
    <3>3. clients' \in [RtAgents -> {"none", "connected", "unconnected"}]
      BY <3>1, <1>2, <1>3
    <3>4. agentsLock' \in Operators \cup {Nobody} /\ leftover' \subseteq RtAgents
      BY <3>1, <1>3
    <3> QED
      BY <3>1, <3>2, <3>3, <3>4, <1>1, <1>2, <1>3
  <2>2. CASE EnterAgent(o)
    <3>1. UNCHANGED <<clients, clientsLock, super, tasks, stopped, rounds, begun, leftover>>
          /\ agentsLock' = Nobody /\ ops' = [ops EXCEPT ![o] = OpIdle]
      BY <2>2 DEF EnterAgent
    <3>2. ops' \in [Operators -> OpSet]
      BY <3>1, <1>2, <1>11
    <3>3. [there |-> TRUE, remote |-> ops[o].remote, seq |-> 0] \in Entry(rounds)
      BY <1>1, <1>2 DEF Entry
    <3>4. entries' \in [RtAgents -> Entry(rounds)]
      BY <2>2, <3>3, <1>2, Zenon DEF EnterAgent
    <3> QED
      BY <3>1, <3>2, <3>4, <1>1, <1>2, <1>3
  <2>3. ASSUME NEW outcome \in {"connected", "unconnected"}, DialAgent(o, outcome)
        PROVE  Goal'
    <3>1. UNCHANGED <<entries, clients, agentsLock, clientsLock, super, tasks, stopped, rounds, begun, leftover>>
          /\ ops' = [ops EXCEPT ![o].at = "clients", ![o].client = outcome]
      BY <2>3 DEF DialAgent
    <3>2. ops' \in [Operators -> OpSet]
      <4> DEFINE mid == [ops[o] EXCEPT !.at = "clients"]
                 op == [mid EXCEPT !.client = outcome]
      <4>1. op \in OpSet
        <5>1. ops[o] \in OpSet
          BY ONLY <1>2
        <5>2. mid \in OpSet
          BY ONLY <5>1
        <5> HIDE DEF mid
        <5> QED
          BY ONLY <5>2
      <4>2. ops' = [ops EXCEPT ![o] = op]
        BY <3>1, <1>2
      <4> HIDE DEF OpSet, op
      <4> QED
        BY <4>2, <4>1, <1>2
    <3> QED
      BY <3>1, <3>2, <1>1, <1>2, <1>3
  <2> QED
    BY <1>7, <2>1, <2>2, <2>3 DEF OpStep
<1>12. ASSUME NEW o \in Operators, GiveUp(o)
      PROVE  Goal'
  <2>1. UNCHANGED <<entries, clients, clientsLock, super, tasks, stopped, rounds, begun>>
        /\ agentsLock' = Nobody /\ ops' = [ops EXCEPT ![o] = OpIdle] /\ ops[o].at # "idle"
        /\ leftover' \subseteq leftover \cup {ops[o].agent}
    BY <1>12 DEF GiveUp
  <2>2. ops[o].agent \in RtAgents
    BY <2>1, <1>4 DEF OpInv
  <2>3. ops' \in [Operators -> OpSet]
    BY <2>1, <1>2, <1>11
  <2> QED
    BY <2>1, <2>2, <2>3, <1>1, <1>2, <1>3
<1>8. CASE TakeSnapshot
  <2>1. UNCHANGED <<entries, clients, agentsLock, clientsLock, ops, tasks, stopped, begun, leftover>>
        /\ rounds' = rounds + 1 /\ rounds < MaxRounds
    BY <1>8 DEF TakeSnapshot
  <2>2. PICK order \in SetToSeqs(Remote) :
          super' = [at |-> "next",
                    queue |-> [i \in DOMAIN order |-> [agent |-> order[i], seq |-> entries[order[i]].seq + 1]]]
    BY <1>8 DEF TakeSnapshot
  <2>3. DOMAIN order = 1..Cardinality(Remote) /\ \A i \in DOMAIN order : order[i] \in Remote
    BY DEF SetToSeqs
  <2>4. IsFiniteSet(Remote) /\ Cardinality(Remote) \in Nat
    BY IpcRuntimeAssumption, FS_Subset, FS_CardinalityType DEF Remote
  <2>5. ASSUME NEW i \in DOMAIN order
        PROVE  [agent |-> order[i], seq |-> entries[order[i]].seq + 1] \in Beats(rounds + 1)
    <3>1. order[i] \in RtAgents /\ entries[order[i]] \in Entry(rounds) /\ entries[order[i]].there
      BY <2>3, <1>2 DEF Remote
    <3>2. entries[order[i]].seq \in 0..rounds
      BY <3>1, <1>1, EntryShape
    <3> QED
      BY <3>1, <3>2, <1>1 DEF Beats
  <2>6. super'.queue \in Seq(Beats(rounds + 1)) /\ super'.at = "next" /\ super' \in Supers(rounds + 1)
    BY <2>2, <2>3, <2>4, <2>5
  <2>7. Entry(rounds) \subseteq Entry(rounds + 1)
    BY <1>1, RoundsWiden
  <2>8. entries' \in [RtAgents -> Entry(rounds')]
    BY <2>1, <2>7, <1>2
  <2> QED
    BY <2>1, <2>6, <2>8, <1>1, <1>2, <1>3
<1>9. CASE SuperStep
  <2>1. UNCHANGED <<clients, agentsLock, ops, tasks, stopped, rounds, begun, leftover>>
        /\ clientsLock' \in {clientsLock, Nobody, Supervisor}
    BY <1>9 DEF SuperStep, BeatNext, RecordSeq, RoundDone, BeatDone
  <2>2. super.queue # <<>> => /\ Head(super.queue) \in Beats(rounds) /\ Tail(super.queue) \in Seq(Beats(rounds))
    BY <1>2
  <2>3. super' \in Supers(rounds) /\ Going'
    <3>1. CASE BeatNext
      BY <3>1, <1>2 DEF BeatNext
    <3>2. CASE RoundDone
      <4>1. <<>> \in Seq(Beats(rounds))
        OBVIOUS
      <4> QED
        BY <3>2, <4>1 DEF RoundDone, SuperIdle
    <3>3. CASE RecordSeq
      BY <3>3, <1>2, <2>2 DEF RecordSeq
    <3>4. ASSUME NEW ok \in BOOLEAN, BeatDone(ok) PROVE super' \in Supers(rounds) /\ Going'
      BY <3>4, <1>2, <2>2 DEF BeatDone
    <3> QED
      BY <1>9, <3>1, <3>2, <3>3, <3>4 DEF SuperStep
  <2>4. entries' \in [RtAgents -> Entry(rounds)]
    <3>1. CASE UNCHANGED entries
      BY <3>1, <1>2
    <3>2. CASE RecordSeq /\ ~UNCHANGED entries
      <4>1. PICK h \in Beats(rounds) : entries[h.agent].there
              /\ entries' = [entries EXCEPT ![h.agent].seq = h.seq]
        BY <3>2, <1>2, <2>2 DEF RecordSeq, Recorded
      <4> QED
        <5>1. h.agent \in RtAgents /\ h.seq \in 0..rounds
          BY DEF Beats
        <5>2. [entries[h.agent] EXCEPT !.seq = h.seq] \in Entry(rounds)
          BY <4>1, <5>1, <1>1, <1>2, EntryShape
        <5> QED
          BY <4>1, <5>1, <5>2, <1>2
    <3> QED
      BY <1>9, <3>1, <3>2 DEF SuperStep, BeatNext, RoundDone, BeatDone
  <2> QED
    BY <2>1, <2>3, <2>4, <1>1, <1>2, <1>3
<1>10. CASE Shutdown
  <2>1. UNCHANGED <<entries, agentsLock, clientsLock, ops, super, rounds, begun, leftover>>
        /\ tasks' \in BOOLEAN /\ stopped' \in BOOLEAN
    BY <1>10, <1>2, Zenon DEF Shutdown
  <2>2. clients' = clients \/ clients' = [a \in RtAgents |-> "none"]
    BY <1>10, Zenon DEF Shutdown
  <2>3. clients' \in [RtAgents -> {"none", "connected", "unconnected"}]
    BY <2>2, <1>3
  <2> QED
    BY <2>1, <2>3, <1>1, <1>2, <1>3
<1> QED
  BY <1>6, <1>7, <1>8, <1>9, <1>10, <1>12 DEF RuntimeNext

(* The agent and the entry of a call in progress, for use below: who holds *)
(* the lock of agents is the only one in the middle of a call.             *)
LEMMA OneHolder ==
  ASSUME RuntimeInv
  PROVE  /\ entries \in [RtAgents -> Entry(rounds)] /\ rounds \in Nat
         /\ \A o \in Operators : OpInv(o)
         /\ agentsLock \in Operators \cup {Nobody} /\ Nobody \notin Operators
         /\ agentsLock # Nobody => ops[agentsLock].agent \in RtAgents /\ ops[agentsLock].at # "idle"
         /\ \A o \in Operators : ops[o].at # "idle" => agentsLock = o
         /\ DOMAIN ops = Operators /\ DOMAIN clients = RtAgents
<1>1. Nobody \notin Operators
  BY IpcRuntimeAssumption
<1>2. /\ entries \in [RtAgents -> Entry(rounds)] /\ rounds \in Nat /\ agentsLock \in Operators \cup {Nobody}
      /\ DOMAIN ops = Operators /\ DOMAIN clients = RtAgents
  <2>1. MaxRounds \in Nat /\ rounds \in 0..MaxRounds
    BY IpcRuntimeAssumption DEF RuntimeInv, RuntimeTypeOK
  <2>2. DOMAIN clients = RtAgents /\ agentsLock \in Operators \cup {Nobody}
    BY DEF RuntimeInv, RuntimeTypeOK
  <2>3. entries \in [RtAgents -> Entry(rounds)] /\ DOMAIN ops = Operators
    BY DEF RuntimeInv, RuntimeShapes, Entry
  <2> QED
    BY <2>1, <2>2, <2>3
<1>3. \A o \in Operators : OpInv(o)
  BY DEF RuntimeInv
<1>4. \A o \in Operators : ops[o].at # "idle" <=> agentsLock = o
  BY <1>3, Zenon DEF OpInv
<1>5. \A o \in Operators : ops[o].at # "idle" => ops[o].agent \in RtAgents
  BY <1>3, Zenon DEF OpInv
<1> QED
  BY <1>1, <1>2, <1>3, <1>4, <1>5

(* The supervisor changes no more than the numbers of entries that are     *)
(* there: nobody is registered or moved to another endpoint by it (start). *)
LEMMA SuperKeeps ==
  ASSUME RuntimeInv, SuperStep
  PROVE  /\ UNCHANGED <<agentsLock, ops, clients, stopped, leftover>>
         /\ \A b \in RtAgents : entries'[b].there = entries[b].there
         /\ \A b \in RtAgents : entries[b].there => entries'[b].remote = entries[b].remote
<1>1. UNCHANGED <<agentsLock, ops, clients, stopped, leftover>>
  BY DEF SuperStep, BeatNext, RecordSeq, RoundDone, BeatDone
<1>2. UNCHANGED entries \/ \E a, n : entries[a].there /\ entries' = [entries EXCEPT ![a].seq = n]
  BY Zenon DEF SuperStep, BeatNext, RecordSeq, RoundDone, BeatDone, Recorded
<1>3. ASSUME NEW a, NEW n, entries[a].there, entries' = [entries EXCEPT ![a].seq = n], NEW b \in RtAgents
      PROVE  entries'[b].there = entries[b].there /\ entries'[b].remote = entries[b].remote
  <2>1. CASE a = b
    <3>1. entries[b] \in [there : {TRUE}, remote : BOOLEAN, seq : 0..rounds]
      BY <1>3, <2>1, OneHolder, EntryShape DEF Entry
    <3> QED
      BY <1>3, <2>1, <3>1, OneHolder
  <2>2. CASE a # b
    BY <1>3, <2>2, OneHolder
  <2> QED
    BY <2>1, <2>2
<1> QED
  BY <1>1, <1>2, <1>3

(* A step of one operator's call leaves what every other call knows: only  *)
(* the holder of the lock changes the table of agents, and the supervisor  *)
(* changes no more than numbers (register_agent, unregister_agent, start). *)
LEMMA OpInvStep ==
  ASSUME RuntimeInv, RuntimeNext, NEW p \in Operators
  PROVE  OpInv(p)'
<1>1. /\ entries \in [RtAgents -> Entry(rounds)] /\ rounds \in Nat
      /\ OpInv(p)
      /\ agentsLock \in Operators \cup {Nobody} /\ Nobody \notin Operators
      /\ \A o \in Operators : ops[o].at # "idle" => agentsLock = o
      /\ DOMAIN ops = Operators
  BY OneHolder
<1>2. ops \in [Operators -> [kind : {"none", "register", "unregister"}, agent : RtAgents \cup {Nobody},
                     at : {"idle", "dial", "clients", "enter"}, remote : BOOLEAN,
                     client : {"none", "connected", "unconnected"}]]
  BY DEF RuntimeInv, RuntimeShapes
<1>3. ASSUME UNCHANGED <<agentsLock, ops>>, \A a \in RtAgents : entries'[a].there = entries[a].there
      PROVE  OpInv(p)'
  BY <1>1, <1>3 DEF OpInv
<1>4. ASSUME NEW o \in Operators, NEW kind \in {"register", "unregister"}, NEW a \in RtAgents,
             NEW remote \in BOOLEAN, BeginOp(o, kind, a, remote)
      PROVE  OpInv(p)'
  <2>1. CASE entries[a].there = (kind = "register")
    <3>1. UNCHANGED <<entries, agentsLock, ops>>
      BY <2>1, <1>4, Zenon DEF BeginOp
    <3> QED
      BY <3>1, <1>3
  <2>2. CASE ~(entries[a].there = (kind = "register"))
    <3> DEFINE op == [kind |-> kind, agent |-> a, remote |-> remote, client |-> "none",
             at |-> IF kind = "unregister" THEN "clients" ELSE IF remote THEN "dial" ELSE "enter"]
    <3>1. /\ agentsLock' = o /\ ops' = [ops EXCEPT ![o] = op] /\ agentsLock = Nobody
          /\ entries' = [entries EXCEPT ![a] = NoEntry]
      BY <2>2, <1>4, Zenon DEF BeginOp
    <3>2. /\ op.at # "idle" /\ op.agent = a /\ op.kind = kind /\ op.client = "none"
          /\ op.at \in {"dial", "enter"} => kind = "register"
          /\ op.at = "clients" => kind = "unregister"
          /\ op.at = "dial" => op.remote
      OBVIOUS
    <3>4. ~entries'[a].there
      BY <3>1, <1>1 DEF NoEntry
    <3> HIDE DEF op
    <3>5. CASE p = o
      BY <3>1, <3>2, <3>4, <3>5, <1>1 DEF OpInv
    <3>6. CASE p # o
      <4>1. ops'[p] = ops[p] /\ ops[p].at = "idle" /\ agentsLock' # p
        BY <3>1, <3>6, <1>1
      <4> QED
        BY <4>1 DEF OpInv
    <3> QED
      BY <3>5, <3>6
  <2> QED
    BY <2>1, <2>2
<1>8. ASSUME NEW o \in Operators, agentsLock = o, agentsLock' = Nobody, ops' = [ops EXCEPT ![o] = OpIdle]
      PROVE  OpInv(p)'
  <2>1. ops'[p].at = "idle"
    BY <1>8, <1>1 DEF OpIdle, OpInv
  <2> QED
    BY <2>1, <1>8, <1>1 DEF OpInv
<1>5. ASSUME NEW o \in Operators, OpStep(o)
      PROVE  OpInv(p)'
  <2>1. CASE ChangeClient(o)
    <3>1. /\ UNCHANGED entries /\ ops[o].at = "clients" /\ agentsLock = o
          /\ \/ agentsLock' = Nobody /\ ops' = [ops EXCEPT ![o] = OpIdle]
             \/ /\ ops[o].kind # "unregister"
                /\ agentsLock' = agentsLock /\ ops' = [ops EXCEPT ![o].at = "enter"]
      BY <2>1, <1>1 DEF ChangeClient
    <3>2. CASE agentsLock' = Nobody /\ ops' = [ops EXCEPT ![o] = OpIdle]
      BY <3>1, <3>2, <1>8
    <3>3. CASE ops[o].kind # "unregister" /\ agentsLock' = agentsLock /\ ops' = [ops EXCEPT ![o].at = "enter"]
      BY <3>1, <3>3, <1>1, <1>2 DEF OpInv
    <3> QED
      BY <3>1, <3>2, <3>3
  <2>2. CASE EnterAgent(o)
    <3>1. agentsLock' = Nobody /\ ops' = [ops EXCEPT ![o] = OpIdle] /\ agentsLock = o
      BY <2>2, <1>1 DEF EnterAgent
    <3> QED
      BY <3>1, <1>8
  <2>3. ASSUME NEW outcome \in {"connected", "unconnected"}, DialAgent(o, outcome)
        PROVE  OpInv(p)'
    <3>1. UNCHANGED <<entries, agentsLock>> /\ ops[o].at = "dial"
          /\ ops' = [ops EXCEPT ![o].at = "clients", ![o].client = outcome]
      BY <2>3 DEF DialAgent
    <3>2. CASE p = o
      <4>1. /\ ops'[p].at = "clients" /\ ops'[p].client = outcome
            /\ ops'[p].agent = ops[p].agent /\ ops'[p].kind = ops[p].kind /\ ops'[p].remote = ops[p].remote
        BY <3>1, <3>2, <1>2
      <4> QED
        BY <3>1, <3>2, <4>1, <1>1 DEF OpInv
    <3>3. CASE p # o
      <4>1. ops'[p] = ops[p]
        BY <3>1, <3>3, <1>1
      <4> QED
        BY <3>1, <4>1, <1>1 DEF OpInv
    <3> QED
      BY <3>2, <3>3
  <2> QED
    BY <1>5, <2>1, <2>2, <2>3 DEF OpStep
<1>9. ASSUME NEW o \in Operators, GiveUp(o)
      PROVE  OpInv(p)'
  <2>1. agentsLock' = Nobody /\ ops' = [ops EXCEPT ![o] = OpIdle] /\ agentsLock = o
    BY <1>9, <1>1 DEF GiveUp
  <2> QED
    BY <2>1, <1>8
<1>6. CASE TakeSnapshot \/ Shutdown
  <2>1. UNCHANGED <<entries, agentsLock, ops>>
    BY <1>6 DEF TakeSnapshot, Shutdown
  <2> QED
    BY <2>1, <1>3
<1>7. CASE SuperStep
  <2>1. UNCHANGED <<agentsLock, ops>>
    BY <1>7, SuperKeeps
  <2>2. \A b \in RtAgents : entries'[b].there = entries[b].there
    BY <1>7, SuperKeeps
  <2> QED
    BY <2>1, <2>2, <1>3
<1> QED
  BY <1>4, <1>5, <1>6, <1>7, <1>9 DEF RuntimeNext

(* The two tables stay together: they differ only for the agent whose      *)
(* call is between its two writes, and its caller holds the lock.          *)
LEMMA TablesStep ==
  ASSUME RuntimeInv, RuntimeNext, ~stopped', NEW a \in RtAgents
  PROVE  Agreeing(a)'
<1>1. /\ entries \in [RtAgents -> Entry(rounds)] /\ rounds \in Nat
      /\ \A o \in Operators : OpInv(o)
      /\ agentsLock \in Operators \cup {Nobody} /\ Nobody \notin Operators
      /\ \A o \in Operators : ops[o].at # "idle" => agentsLock = o
      /\ DOMAIN ops = Operators /\ DOMAIN clients = RtAgents
  BY OneHolder
<1>2. ops \in [Operators -> [kind : {"none", "register", "unregister"}, agent : RtAgents \cup {Nobody},
                     at : {"idle", "dial", "clients", "enter"}, remote : BOOLEAN,
                     client : {"none", "connected", "unconnected"}]]
  BY DEF RuntimeInv, RuntimeShapes
<1>3. ~stopped => Agreeing(a)
  BY DEF RuntimeInv
<1>4. ASSUME ~stopped, UNCHANGED <<agentsLock, ops, clients, leftover>>,
             entries'[a].there <=> entries[a].there,
             entries[a].there => entries'[a].remote = entries[a].remote
      PROVE  Agreeing(a)'
  BY <1>3, <1>4 DEF Agreeing, Halfway, Remote
<1>5. ASSUME NEW o \in Operators, NEW kind \in {"register", "unregister"}, NEW b \in RtAgents,
             NEW remote \in BOOLEAN, BeginOp(o, kind, b, remote)
      PROVE  Agreeing(a)'
  <2>1. UNCHANGED <<clients, stopped, leftover>> /\ agentsLock = Nobody
    BY <1>5 DEF BeginOp
  <2>2. CASE entries[b].there = (kind = "register")
    <3>1. UNCHANGED <<entries, agentsLock, ops>>
      BY <2>2, <1>5, Zenon DEF BeginOp
    <3> QED
      BY <3>1, <2>1, <1>4
  <2>3. CASE ~(entries[b].there = (kind = "register"))
    <3> DEFINE op == [kind |-> kind, agent |-> b, remote |-> remote, client |-> "none",
             at |-> IF kind = "unregister" THEN "clients" ELSE IF remote THEN "dial" ELSE "enter"]
    <3>1. agentsLock' = o /\ ops' = [ops EXCEPT ![o] = op] /\ entries' = [entries EXCEPT ![b] = NoEntry]
      BY <2>3, <1>5, Zenon DEF BeginOp
    <3>2. op.agent = b /\ op.kind = kind /\ op.remote = remote /\ (op.at = "enter" => ~remote)
      OBVIOUS
    <3>3. entries[b].there \in BOOLEAN
      BY <1>1, EntryShape
    <3>4. kind = "register" => ~entries[b].there
      BY <2>3, <3>3
    <3> HIDE DEF op
    <3>5. ops'[agentsLock'] = op /\ agentsLock' # Nobody
      BY <3>1, <1>1
    <3>6. Halfway(a)' <=> a = b /\ kind = "unregister"
      BY <3>2, <3>5 DEF Halfway
    <3>7. /\ a \in leftover => clients[a] # "none"
          /\ clients[a] # "none" => a \in Remote \cup leftover
          /\ a \in Remote => clients[a] # "none"
      BY <1>3, <2>1 DEF Agreeing, Halfway
    <3>8. CASE a = b
      <4>1. a \notin Remote'
        BY <3>1, <3>8, <1>1 DEF Remote, NoEntry
      <4>2. kind = "register" => a \notin Remote
        BY <3>4, <3>8 DEF Remote
      <4> QED
        BY <2>1, <3>2, <3>5, <3>6, <3>7, <3>8, <4>1, <4>2 DEF Agreeing
    <3>9. CASE a # b
      <4>1. a \in Remote' <=> a \in Remote
        BY <3>1, <3>9, <1>1 DEF Remote
      <4> QED
        BY <2>1, <3>6, <3>7, <3>9, <4>1 DEF Agreeing
    <3> QED
      BY <3>8, <3>9
  <2> QED
    BY <2>2, <2>3
<1>6. ASSUME NEW o \in Operators, OpStep(o)
      PROVE  Agreeing(a)'
  <2>1. CASE ChangeClient(o)
    <3>1. /\ UNCHANGED <<entries, stopped>> /\ ops[o].at = "clients" /\ agentsLock = o
          /\ clients' = [clients EXCEPT ![ops[o].agent] = ops[o].client] /\ leftover' = leftover \ {ops[o].agent}
          /\ \/ ops[o].kind = "unregister" /\ agentsLock' = Nobody
             \/ ops[o].kind # "unregister" /\ agentsLock' = agentsLock /\ ops' = [ops EXCEPT ![o].at = "enter"]
      BY <2>1, <1>1 DEF ChangeClient
    <3>7. OpInv(o) /\ ops[o].at # "idle"
      BY <1>1, <3>1
    <3>8. ops[o].kind \in {"none", "register", "unregister"}
      BY <1>2
    <3>2. /\ ops[o].kind \in {"register", "unregister"} /\ ~entries[ops[o].agent].there
          /\ (ops[o].client # "none" <=> ops[o].kind = "register")
      BY <3>1, <3>7, <3>8 DEF OpInv
    <3>3. a \in Remote' <=> a \in Remote
      BY <3>1 DEF Remote
    <3>4. CASE a = ops[o].agent
      <4>1. clients'[a] = ops[o].client /\ a \notin leftover' /\ a \notin Remote'
        BY <3>1, <3>2, <3>3, <3>4, <1>1 DEF Remote
      <4>2. CASE ops[o].kind = "unregister"
        <5>1. clients'[a] = "none" /\ ~Halfway(a)'
          BY <3>1, <3>2, <4>1, <4>2 DEF Halfway
        <5> QED
          BY <4>1, <5>1 DEF Agreeing
      <4>3. CASE ops[o].kind = "register"
        <5>1. clients'[a] # "none"
          BY <3>2, <4>1, <4>3
        <5>2. ops'[o].at = "enter" /\ ops'[o].agent = a /\ ops'[o].kind = "register" /\ agentsLock' = o
              /\ ops'[o].remote = ops[o].remote
          BY <3>1, <3>4, <4>3, <1>2
        <5>3. ops[o].remote
          BY <3>1, <3>7, <4>3 DEF OpInv
        <5>4. Halfway(a)'
          BY <5>2, <5>3, <1>1 DEF Halfway
        <5> QED
          BY <4>1, <5>1, <5>4 DEF Agreeing
      <4> QED
        BY <3>2, <4>2, <4>3
    <3>5. CASE a # ops[o].agent
      <4>1. clients'[a] = clients[a] /\ (a \in leftover' <=> a \in leftover)
        BY <3>1, <3>5, <1>1
      <4>2. ~Halfway(a)
        BY <3>1, <3>5 DEF Halfway
      <4>3. ~Halfway(a)'
        <5>1. CASE ops[o].kind = "unregister"
          BY <3>1, <5>1 DEF Halfway
        <5>2. CASE ops[o].kind # "unregister"
          <6>1. agentsLock' = o /\ ops'[o].agent = ops[o].agent
            BY <3>1, <5>2, <1>2
          <6> QED
            BY <3>5, <6>1 DEF Halfway
        <5> QED
          BY <5>1, <5>2
      <4> QED
        BY <1>3, <3>1, <3>3, <4>1, <4>2, <4>3 DEF Agreeing
    <3> QED
      BY <3>4, <3>5
  <2>2. CASE EnterAgent(o)
    <3>1. /\ UNCHANGED <<clients, stopped, leftover>> /\ ops[o].at = "enter" /\ agentsLock = o /\ agentsLock' = Nobody
          /\ entries' = [entries EXCEPT ![ops[o].agent] = [there |-> TRUE, remote |-> ops[o].remote, seq |-> 0]]
      BY <2>2, <1>1 DEF EnterAgent
    <3>2. ~Halfway(a)' /\ ops[o].kind = "register" /\ o \in Operators /\ o # Nobody
      BY <3>1, <1>1 DEF Halfway, OpInv
    <3>3. CASE a = ops[o].agent
      <4>1. Halfway(a) <=> ops[o].remote
        BY <3>1, <3>2, <3>3 DEF Halfway
      <4>2. entries'[a] = [there |-> TRUE, remote |-> ops[o].remote, seq |-> 0]
        BY <3>1, <3>3, <1>1
      <4>3. a \in Remote' <=> ops[o].remote
        BY <4>2 DEF Remote
      <4>4. a \notin Remote
        BY <1>1, <3>1, <3>3 DEF OpInv, Remote
      <4> QED
        BY <1>3, <3>1, <3>2, <4>1, <4>3, <4>4 DEF Agreeing
    <3>4. CASE a # ops[o].agent
      <4>1. entries'[a] = entries[a] /\ ~Halfway(a)
        BY <3>1, <3>4, <1>1 DEF Halfway
      <4>2. a \in Remote' <=> a \in Remote
        BY <4>1 DEF Remote
      <4> QED
        BY <1>3, <3>1, <3>2, <4>1, <4>2 DEF Agreeing
    <3> QED
      BY <3>3, <3>4
  <2>3. ASSUME NEW outcome \in {"connected", "unconnected"}, DialAgent(o, outcome)
        PROVE  Agreeing(a)'
    <3>1. /\ UNCHANGED <<entries, clients, agentsLock, stopped, leftover>> /\ ops[o].at = "dial" /\ agentsLock = o
          /\ ops' = [ops EXCEPT ![o].at = "clients", ![o].client = outcome]
      BY <2>3, <1>1 DEF DialAgent
    <3>2. ops'[o].at = "clients" /\ ops'[o].kind = ops[o].kind
      BY <3>1, <1>2
    <3>4. ops[o].kind = "register"
      BY <1>1, <3>1 DEF OpInv
    <3>3. ~Halfway(a) /\ ~Halfway(a)'
      BY <3>1, <3>2, <3>4 DEF Halfway
    <3>5. a \in Remote' <=> a \in Remote
      BY <3>1 DEF Remote
    <3> QED
      BY <3>1, <3>3, <3>5, <1>3 DEF Agreeing
  <2> QED
    BY <1>6, <2>1, <2>2, <2>3 DEF OpStep
<1>10. ASSUME NEW o \in Operators, GiveUp(o)
       PROVE  Agreeing(a)'
  <2> DEFINE b == ops[o].agent
  <2>1. /\ UNCHANGED <<entries, clients, stopped>> /\ ops[o].at \in {"dial", "clients"} /\ agentsLock = o
        /\ agentsLock' = Nobody
        /\ leftover' = (IF ops[o].kind = "unregister" /\ clients[b] # "none" THEN leftover \cup {b} ELSE leftover)
    BY <1>10, <1>1 DEF GiveUp
  <2>2. ~Halfway(a)' /\ (a \in Remote' <=> a \in Remote) /\ o # Nobody
    BY <2>1, <1>1 DEF Halfway, Remote
  <2>3. Halfway(a) <=> a = b /\ ops[o].kind = "unregister"
    BY <2>1, <2>2 DEF Halfway
  <2> QED
    BY <1>3, <2>1, <2>2, <2>3 DEF Agreeing
<1>7. CASE TakeSnapshot
  <2>1. UNCHANGED <<entries, clients, agentsLock, ops, stopped, leftover>>
    BY <1>7 DEF TakeSnapshot
  <2> QED
    BY <2>1, <1>4
<1>8. CASE SuperStep
  <2>1. UNCHANGED <<agentsLock, ops, clients, stopped, leftover>>
    BY <1>8, SuperKeeps
  <2>2. entries'[a].there = entries[a].there
    BY <1>8, SuperKeeps
  <2>3. entries[a].there => entries'[a].remote = entries[a].remote
    BY <1>8, SuperKeeps
  <2> QED
    BY <2>1, <2>2, <2>3, <1>4
<1>9. CASE Shutdown
  <2>1. UNCHANGED <<entries, agentsLock, ops, leftover>> /\ (stopped' \/ UNCHANGED <<clients, stopped>>)
    BY <1>9, Zenon DEF Shutdown
  <2> QED
    BY <2>1, <1>4
<1> QED
  BY <1>5, <1>6, <1>7, <1>8, <1>9, <1>10 DEF RuntimeNext

(* RuntimeInv is inductive.                                                *)
LEMMA RuntimeStep ==
  ASSUME RuntimeInv, [RuntimeNext]_runtimeVars
  PROVE  RuntimeInv'
<1>1. CASE RuntimeNext
  BY <1>1, RuntimeShapesStep, OpInvStep, TablesStep, Zenon DEF RuntimeInv
<1>2. CASE UNCHANGED runtimeVars
  BY <1>2 DEF runtimeVars, RuntimeInv, RuntimeTypeOK, RuntimeShapes, OpInv, Agreeing, Halfway, Remote
<1> QED
  BY <1>1, <1>2
-------------------------------------------------------------------------------
(* The buses. *)

Seen(sub) == {sub.got[i] : i \in DOMAIN sub.got}
Faithful(sub, n) ==
  /\ sub \in [from : Nat \ {0}, next : 1..(n + 1), got : Seq(Nat), lost : SUBSET Nat]
  /\ \A i, j \in DOMAIN sub.got : i < j => sub.got[i] < sub.got[j]
  /\ Seen(sub) \cup sub.lost = sub.from..(sub.next - 1) /\ Seen(sub) \cap sub.lost = {}
  /\ \A i \in sub.lost : i + BusCapacity <= n
  /\ sub.from <= sub.next
Events == [kind : {Before[k] : k \in DOMAIN Before} \cup {After[k] : k \in DOMAIN After}, call : RpcCalls]
AfterKinds == {After[k] : k \in DOMAIN After}
RpcSet == [kind : RpcKinds \cup {"none"}, at : {"new", "begun", "ended"},
           status : {"none", "ok", "failed", "granted"}]
\* What the events say of the calls: the first half of BusInv.
Announced ==
  /\ published \in Seq(Events) /\ rpcs \in [RpcCalls -> RpcSet] /\ wired \in BOOLEAN
  /\ \A i, j \in DOMAIN published : published[i].call = published[j].call /\ i < j =>
       published[j].kind \in AfterKinds /\ rpcs[published[j].call].status = "granted"
  /\ ~wired => \A c \in RpcCalls : rpcs[c].status \in {"none", "ok", "failed"}
  /\ \A i \in DOMAIN published : rpcs[published[i].call].at # "new"
  /\ \A i, j \in DOMAIN published :
       published[i].call = published[j].call /\ i # j => rpcs[published[i].call].at = "ended"

BusHalves ==
  /\ Announced /\ DOMAIN subs \subseteq Subscribers /\ subscribed \in 0..MaxSubscribed
  /\ \A s \in DOMAIN subs : Faithful(subs[s], Len(published))

(* BusInv is one half about the calls and one about each receiver.         *)
LEMMA BusInHalves == BusInv <=> BusHalves
<1>1. ASSUME BusInv PROVE Announced
  BY <1>1 DEF BusInv, BusShapes, StreamsFaithful, Announced, Events, RpcSet, AfterKinds
<1>2. ASSUME BusInv, NEW s \in DOMAIN subs PROVE Faithful(subs[s], Len(published))
  BY <1>2 DEF BusInv, BusShapes, StreamsFaithful, Faithful, Seen
<1>3. ASSUME Announced
      PROVE  /\ \A c \in RpcCalls : rpcs[c].kind \in RpcKinds \cup {"none"} /\ rpcs[c].at \in {"new", "begun", "ended"}
             /\ \A i \in DOMAIN published : published[i].call \in RpcCalls
  <2>1. \A c \in RpcCalls : rpcs[c] \in RpcSet
    BY <1>3 DEF Announced
  <2>2. \A i \in DOMAIN published : published[i] \in Events
    BY <1>3 DEF Announced
  <2> QED
    BY <2>1, <2>2 DEF RpcSet, Events
<1>4. ASSUME Announced, DOMAIN subs \subseteq Subscribers, subscribed \in 0..MaxSubscribed,
             \A s \in DOMAIN subs : Faithful(subs[s], Len(published))
      PROVE  BusInv
  <2>1. BusTypeOK
    BY <1>3, <1>4 DEF BusTypeOK
  <2>2. BusShapes
    BY <1>4 DEF BusShapes, Announced, Faithful, Events, RpcSet
  <2>3. StreamsFaithful
    BY <1>4 DEF StreamsFaithful, Announced, Faithful, Seen, AfterKinds
  <2>4. \A s \in DOMAIN subs : subs[s].from <= subs[s].next
    BY <1>4 DEF Faithful
  <2>5. \A i, j \in DOMAIN published :
          /\ rpcs[published[i].call].at # "new"
          /\ published[i].call = published[j].call /\ i # j => rpcs[published[i].call].at = "ended"
    BY <1>4 DEF Announced
  <2> QED
    BY <2>1, <2>2, <2>3, <2>4, <2>5 DEF BusInv
<1> QED
  BY <1>1, <1>2, <1>4 DEF BusInv, BusTypeOK, BusHalves

(* A bus starts without events, receivers and calls.                       *)
LEMMA BusStart ==
  ASSUME BusInit
  PROVE  BusHalves
<1> USE EventBusAssumption DEF BusInit
<1>1. <<>> \in Seq(Events) /\ DOMAIN published = {}
  OBVIOUS
<1>2. NoRpc \in RpcSet /\ NoRpc.status = "none"
  BY DEF NoRpc, RpcSet
<1>3. Announced
  BY <1>1, <1>2 DEF Announced
<1>4. DOMAIN subs = {} /\ subscribed \in 0..MaxSubscribed
  OBVIOUS
<1> QED
  BY <1>3, <1>4 DEF BusHalves

(* A receiver's account stays true when an event is sent, when it reads    *)
(* the next one, and when it is overtaken and goes on with the oldest      *)
(* (broadcast::Receiver::recv, the streams of server.rs).                  *)
LEMMA AccountGrows ==
  ASSUME NEW n \in Nat, NEW sub, Faithful(sub, n)
  PROVE  Faithful(sub, n + 1)
<1> USE EventBusAssumption
<1>1. sub \in [from : Nat \ {0}, next : 1..(n + 1 + 1), got : Seq(Nat), lost : SUBSET Nat]
  BY DEF Faithful
<1>2. \A i \in sub.lost : i + BusCapacity <= n + 1
  BY DEF Faithful
<1> QED
  BY <1>1, <1>2 DEF Faithful

LEMMA AccountReads ==
  ASSUME NEW n \in Nat, NEW sub, Faithful(sub, n), sub.next <= n
  PROVE  Faithful([sub EXCEPT !.got = Append(sub.got, sub.next), !.next = sub.next + 1], n)
<1> DEFINE new == [sub EXCEPT !.got = Append(sub.got, sub.next), !.next = sub.next + 1]
           got == sub.got
<1>1. /\ sub.from \in Nat \ {0} /\ sub.next \in 1..(n + 1) /\ got \in Seq(Nat) /\ sub.lost \in SUBSET Nat
      /\ DOMAIN sub = {"from", "next", "got", "lost"}
  BY DEF Faithful
<1>2. /\ new.from = sub.from /\ new.lost = sub.lost /\ new.next = sub.next + 1
      /\ new.got = Append(got, sub.next)
  BY <1>1
<1>3. /\ Len(got) \in Nat /\ DOMAIN got = 1..Len(got) /\ DOMAIN new.got = 1..(Len(got) + 1)
      /\ new.got \in Seq(Nat)
      /\ \A i \in DOMAIN got : new.got[i] = got[i]
      /\ new.got[Len(got) + 1] = sub.next
  BY <1>1, <1>2
<1>4. \A i \in DOMAIN got : got[i] \in Seen(sub)
  BY DEF Seen
<1>5. \A i \in DOMAIN got : got[i] \in sub.from..(sub.next - 1)
  BY <1>4 DEF Faithful
<1>6. new \in [from : Nat \ {0}, next : 1..(n + 1), got : Seq(Nat), lost : SUBSET Nat]
  <2>1. Append(got, sub.next) \in Seq(Nat) /\ sub.next + 1 \in 1..(n + 1)
    BY <1>1
  <2> QED
    BY <2>1 DEF Faithful
<1> HIDE DEF new, got
<1>7. \A i, j \in DOMAIN new.got : i < j => new.got[i] < new.got[j]
  <2>1. \A i, j \in DOMAIN got : i < j => got[i] < got[j]
    BY DEF Faithful, got
  <2>2. SUFFICES ASSUME NEW i \in DOMAIN new.got, NEW j \in DOMAIN new.got, i < j
                 PROVE  new.got[i] < new.got[j]
    OBVIOUS
  <2>3. i \in DOMAIN got
    BY <1>3, <2>2
  <2>4. CASE j \in DOMAIN got
    BY <2>1, <2>2, <2>3, <2>4, <1>3
  <2>5. CASE j = Len(got) + 1
    <3>1. new.got[i] = got[i] /\ new.got[j] = sub.next
      BY <2>3, <2>5, <1>3
    <3>2. got[i] \in sub.from..(sub.next - 1) /\ sub.next \in Nat /\ sub.from \in Nat
      BY <2>3, <1>1, <1>5
    <3> QED
      BY <3>1, <3>2
  <2> QED
    BY <2>4, <2>5, <1>3
<1>8. Seen(new) = Seen(sub) \cup {sub.next}
  <2>1. Seen(new) = {new.got[i] : i \in 1..(Len(got) + 1)}
    BY <1>3 DEF Seen
  <2>2. Seen(sub) = {got[i] : i \in 1..Len(got)}
    BY <1>3 DEF Seen, got
  <2>3. 1..(Len(got) + 1) = 1..Len(got) \cup {Len(got) + 1}
    BY <1>3
  <2>4. \A i \in 1..Len(got) : new.got[i] = got[i]
    BY <1>3
  <2>5. {new.got[i] : i \in 1..Len(got)} = {got[i] : i \in 1..Len(got)}
    BY <2>4, Zenon
  <2>6. Seen(new) = {new.got[i] : i \in 1..Len(got)} \cup {new.got[Len(got) + 1]}
    BY <2>1, <2>3, Zenon
  <2> QED
    BY <2>2, <2>5, <2>6, <1>3
<1>9. sub.next \notin sub.lost /\ sub.next \notin Seen(sub)
  BY <1>1 DEF Faithful
<1>10. Seen(new) \cup new.lost = new.from..(new.next - 1) /\ Seen(new) \cap new.lost = {}
  <2>1. sub.from..(sub.next + 1 - 1) = sub.from..(sub.next - 1) \cup {sub.next}
    BY <1>1 DEF Faithful
  <2> QED
    BY <2>1, <1>2, <1>8, <1>9 DEF Faithful
<1>11. \A i \in new.lost : i + BusCapacity <= n
  BY <1>2 DEF Faithful
<1>12. new.from <= new.next
  BY <1>1, <1>2 DEF Faithful
<1>13. Faithful(new, n)
  BY <1>6, <1>7, <1>10, <1>11, <1>12 DEF Faithful
<1> QED
  BY <1>13 DEF new, got

LEMMA AccountLags ==
  ASSUME NEW n \in Nat, NEW sub, Faithful(sub, n), NEW oldest, oldest = n - BusCapacity + 1, sub.next < oldest
  PROVE  Faithful([sub EXCEPT !.lost = sub.lost \cup sub.next..(oldest - 1), !.next = oldest], n)
<1> DEFINE new == [sub EXCEPT !.lost = sub.lost \cup sub.next..(oldest - 1), !.next = oldest]
<1>1. /\ sub.from \in Nat \ {0} /\ sub.next \in 1..(n + 1) /\ sub.got \in Seq(Nat) /\ sub.lost \in SUBSET Nat
      /\ DOMAIN sub = {"from", "next", "got", "lost"} /\ sub.from <= sub.next
      /\ BusCapacity \in Nat \ {0} /\ oldest \in 1..n
  BY EventBusAssumption DEF Faithful
<1>2. /\ new.from = sub.from /\ new.got = sub.got /\ new.next = oldest
      /\ new.lost = sub.lost \cup sub.next..(oldest - 1)
  BY <1>1
<1>3. new \in [from : Nat \ {0}, next : 1..(n + 1), got : Seq(Nat), lost : SUBSET Nat]
  <2>1. sub.lost \cup sub.next..(oldest - 1) \in SUBSET Nat /\ oldest \in 1..(n + 1)
    BY <1>1
  <2> QED
    BY <2>1 DEF Faithful
<1> HIDE DEF new
<1>4. Seen(new) = Seen(sub)
  BY <1>2 DEF Seen
<1>5. sub.from..(oldest - 1) = sub.from..(sub.next - 1) \cup sub.next..(oldest - 1)
  BY <1>1
<1>6. Seen(new) \cup new.lost = new.from..(new.next - 1)
  BY <1>2, <1>4, <1>5 DEF Faithful
<1>7. Seen(new) \cap new.lost = {}
  <2>1. Seen(sub) \subseteq sub.from..(sub.next - 1)
    BY DEF Faithful
  <2>2. (sub.from..(sub.next - 1)) \cap (sub.next..(oldest - 1)) = {}
    BY <1>1
  <2> QED
    BY <2>1, <2>2, <1>2, <1>4 DEF Faithful
<1>8. \A i \in new.lost : i + BusCapacity <= n
  BY <1>1, <1>2 DEF Faithful
<1>9. \A i, j \in DOMAIN new.got : i < j => new.got[i] < new.got[j]
  BY <1>2 DEF Faithful
<1>10. new.from <= new.next
  BY <1>1, <1>2
<1>11. Faithful(new, n)
  BY <1>3, <1>6, <1>7, <1>8, <1>9, <1>10 DEF Faithful
<1> QED
  BY <1>11 DEF new

(* The steps of the receivers keep every receiver's account.               *)
LEMMA ReceiverStep ==
  ASSUME BusHalves, NEW s \in Subscribers, SubscribeTo(s) \/ DropReceiver(s) \/ Receive(s) \/ Lagged(s)
  PROVE  BusHalves'
<1> DEFINE n == Len(published)
<1>1. /\ Announced /\ DOMAIN subs \subseteq Subscribers /\ subscribed \in 0..MaxSubscribed
      /\ \A t \in DOMAIN subs : Faithful(subs[t], n)
  BY DEF BusHalves
<1>2. UNCHANGED <<published, rpcs, wired>>
  BY DEF SubscribeTo, DropReceiver, Receive, Lagged
<1>3. Announced'
  BY <1>1, <1>2 DEF Announced
<1>4. n \in Nat /\ MaxSubscribed \in Nat /\ BusCapacity \in Nat \ {0}
  BY <1>1, EventBusAssumption DEF Announced
<1>5. /\ subscribed' \in 0..MaxSubscribed /\ DOMAIN subs' \subseteq Subscribers
      /\ \A t \in DOMAIN subs' : Faithful(subs'[t], n)
  <2>1. CASE SubscribeTo(s)
    <3> DEFINE new == [from |-> n + 1, next |-> n + 1, got |-> <<>>, lost |-> {}]
    <3>1. /\ subscribed' \in 0..MaxSubscribed
          /\ subs' = [t \in DOMAIN subs \cup {s} |-> IF t # s THEN subs[t] ELSE new]
      BY <2>1, <1>1, <1>4 DEF SubscribeTo
    <3>2. Faithful(new, n)
      <4>1. new \in [from : Nat \ {0}, next : 1..(n + 1), got : Seq(Nat), lost : SUBSET Nat]
        <5>1. <<>> \in Seq(Nat) /\ n + 1 \in Nat \ {0} /\ n + 1 \in 1..(n + 1)
          BY <1>4
        <5> QED
          BY <5>1
      <4>2. Seen(new) = {} /\ DOMAIN new.got = {}
        BY DEF Seen
      <4>3. (n + 1)..(n + 1 - 1) = {}
        BY <1>4
      <4>4. new.from = n + 1 /\ new.next = n + 1 /\ new.lost = {}
        OBVIOUS
      <4> HIDE DEF new
      <4> QED
        BY <4>1, <4>2, <4>3, <4>4, <1>4 DEF Faithful
    <3> HIDE DEF new
    <3> QED
      BY <3>1, <3>2, <1>1
  <2>2. CASE DropReceiver(s)
    BY <2>2, <1>1 DEF DropReceiver
  <2>3. CASE Receive(s)
    <3> DEFINE new == [subs[s] EXCEPT !.got = Append(subs[s].got, subs[s].next), !.next = subs[s].next + 1]
    <3>1. s \in DOMAIN subs /\ subs[s].next <= n
      BY <2>3, <1>4 DEF Receive, Oldest
    <3>2. Faithful(new, n)
      BY <3>1, <1>1, <1>4, AccountReads
    <3>3. subs' = [subs EXCEPT ![s] = new] /\ UNCHANGED subscribed
      <4>1. subs[s].next \in 1..(n + 1) /\ DOMAIN subs[s] = {"from", "next", "got", "lost"}
        BY <3>1, <1>1 DEF Faithful
      <4> QED
        BY <2>3, <3>1, <4>1 DEF Receive
    <3> HIDE DEF new
    <3> QED
      BY <3>1, <3>2, <3>3, <1>1
  <2>4. CASE Lagged(s)
    <3> DEFINE new == [subs[s] EXCEPT !.lost = subs[s].lost \cup subs[s].next..(Oldest - 1), !.next = Oldest]
    <3>1. s \in DOMAIN subs /\ subs[s].next < Oldest /\ Oldest = n - BusCapacity + 1
      BY <2>4 DEF Lagged, Oldest
    <3>2. Faithful(new, n)
      BY <3>1, <1>1, <1>4, AccountLags
    <3>3. subs' = [subs EXCEPT ![s] = new] /\ UNCHANGED subscribed
      <4>1. DOMAIN subs[s] = {"from", "next", "got", "lost"}
        BY <3>1, <1>1 DEF Faithful
      <4> QED
        BY <2>4, <3>1, <4>1 DEF Lagged
    <3> HIDE DEF new
    <3> QED
      BY <3>1, <3>2, <3>3, <1>1
  <2> QED
    BY <2>1, <2>2, <2>3, <2>4
<1> QED
  BY <1>2, <1>3, <1>5 DEF BusHalves

(* Sending takes every account one event further, or nobody listens.       *)
LEMMA SendKeepsAccounts ==
  ASSUME NEW event, Send(event), UNCHANGED subs, published \in Seq(Events), event \in Events,
         \A s \in DOMAIN subs : Faithful(subs[s], Len(published))
  PROVE  /\ published' = published \/ published' = Append(published, event)
         /\ \A s \in DOMAIN subs' : Faithful(subs'[s], Len(published'))
<1>1. CASE published' = published
  BY <1>1
<1>2. CASE published' = Append(published, event)
  <2>1. Len(published) \in Nat /\ Len(published') = Len(published) + 1
    BY <1>2
  <2> QED
    BY <1>2, <2>1, AccountGrows
<1> QED
  BY <1>1, <1>2 DEF Send

(* A call that had sent nothing announces its request, and one that had    *)
(* sent that much announces the decision it is granted (hal_gate,          *)
(* dispatch_intent, emit_event): at most one event of each kind.           *)
LEMMA CallAnnounces ==
  ASSUME Announced, NEW c \in RpcCalls, NEW rpc \in RpcSet, rpcs' = [rpcs EXCEPT ![c] = rpc], UNCHANGED wired,
         ~wired => rpc.status \in {"none", "ok", "failed"}, rpc.at # "new",
         NEW event \in Events, event.call = c,
         published' = published \/ published' = Append(published, event),
         \/ rpcs[c].at = "new"
         \/ rpcs[c].at = "begun" /\ rpc.at = "ended" /\ event.kind \in AfterKinds /\ rpc.status = "granted"
         \/ rpcs[c].at = "begun" /\ rpc.at = "ended" /\ published' = published
  PROVE  Announced'
<1>1. /\ published \in Seq(Events) /\ rpcs \in [RpcCalls -> RpcSet] /\ wired \in BOOLEAN
      /\ \A i, j \in DOMAIN published : published[i].call = published[j].call /\ i < j =>
           published[j].kind \in AfterKinds /\ rpcs[published[j].call].status = "granted"
      /\ ~wired => \A d \in RpcCalls : rpcs[d].status \in {"none", "ok", "failed"}
      /\ \A i \in DOMAIN published : rpcs[published[i].call].at # "new"
      /\ \A i, j \in DOMAIN published :
           published[i].call = published[j].call /\ i # j => rpcs[published[i].call].at = "ended"
  BY DEF Announced
<1>2. /\ rpcs' \in [RpcCalls -> RpcSet] /\ rpcs'[c] = rpc
      /\ \A d \in RpcCalls : d # c => rpcs'[d] = rpcs[d]
      /\ wired' \in BOOLEAN
  BY <1>1
<1>3. ~wired' => \A d \in RpcCalls : rpcs'[d].status \in {"none", "ok", "failed"}
  BY <1>1, <1>2
<1>4. published' \in Seq(Events) /\ Len(published) \in Nat /\ DOMAIN published = 1..Len(published)
  BY <1>1
<1>5. ASSUME NEW i \in DOMAIN published PROVE published'[i] = published[i] /\ published[i].call \in RpcCalls
  <2>1. published[i] \in Events
    BY <1>1
  <2> QED
    BY <2>1, <1>1, <1>4 DEF Events
<1>6. ASSUME NEW i \in DOMAIN published'
      PROVE  i \in DOMAIN published \/ (published'[i] = event /\ i = Len(published) + 1)
  BY <1>1, <1>4
<1>7. \A i \in DOMAIN published' : rpcs'[published'[i].call].at # "new"
  <2>1. SUFFICES ASSUME NEW i \in DOMAIN published' PROVE rpcs'[published'[i].call].at # "new"
    OBVIOUS
  <2>2. CASE i \in DOMAIN published
    BY <2>2, <1>1, <1>2, <1>5
  <2>3. CASE published'[i] = event
    BY <2>3, <1>2
  <2> QED
    BY <2>2, <2>3, <1>6
\* Two events of this call can only be the one it had sent and the new one.
<1>8. ASSUME NEW i \in DOMAIN published, NEW j \in DOMAIN published, published[i].call = published[j].call, i # j
      PROVE  published[i].call # c
  BY <1>1, <1>8
<1>9. ASSUME NEW i \in DOMAIN published', NEW j \in DOMAIN published', i # j,
             published'[i].call = published'[j].call
      PROVE  rpcs'[published'[i].call].at = "ended"
  <2>1. CASE i \in DOMAIN published /\ j \in DOMAIN published
    BY <2>1, <1>1, <1>2, <1>5, <1>8, <1>9
  <2>2. CASE i \in DOMAIN published /\ j \notin DOMAIN published
    BY <2>2, <1>1, <1>2, <1>5, <1>6, <1>9
  <2>3. CASE j \in DOMAIN published /\ i \notin DOMAIN published
    BY <2>3, <1>1, <1>2, <1>5, <1>6, <1>9
  <2> QED
    BY <2>1, <2>2, <2>3, <1>6, <1>9
<1>10. ASSUME NEW i \in DOMAIN published', NEW j \in DOMAIN published', i < j,
              published'[i].call = published'[j].call
       PROVE  published'[j].kind \in AfterKinds /\ rpcs'[published'[j].call].status = "granted"
  <2>1. CASE i \in DOMAIN published /\ j \in DOMAIN published
    BY <2>1, <1>1, <1>2, <1>5, <1>8, <1>10
  <2>2. CASE i \in DOMAIN published /\ j \notin DOMAIN published
    BY <2>2, <1>1, <1>2, <1>5, <1>6, <1>10
  <2>3. CASE i \notin DOMAIN published
    BY <2>3, <1>4, <1>6, <1>10
  <2> QED
    BY <2>1, <2>2, <2>3
<1> QED
  BY <1>2, <1>3, <1>4, <1>7, <1>9, <1>10 DEF Announced

(* Both halves together are inductive.                                     *)
LEMMA BusStep ==
  ASSUME BusHalves, [BusNext]_busVars
  PROVE  BusHalves'
<1>1. /\ Announced /\ DOMAIN subs \subseteq Subscribers /\ subscribed \in 0..MaxSubscribed
      /\ \A t \in DOMAIN subs : Faithful(subs[t], Len(published))
  BY DEF BusHalves
<1>2. published \in Seq(Events) /\ rpcs \in [RpcCalls -> RpcSet]
  BY <1>1 DEF Announced
<1>3. ASSUME NEW c \in RpcCalls, NEW kind \in RpcKinds, BeginRpc(c, kind)
      PROVE  BusHalves'
  <2> DEFINE rpc == [kind |-> kind, at |-> "begun", status |-> "none"]
  <2>1. /\ rpcs' = [rpcs EXCEPT ![c] = rpc] /\ UNCHANGED <<subs, subscribed, wired>> /\ rpcs[c].at = "new"
        /\ IF kind \in DOMAIN Before THEN Send([kind |-> Before[kind], call |-> c]) ELSE UNCHANGED published
    BY <1>3 DEF BeginRpc, NoRpc
  <2>2. rpc \in RpcSet /\ rpc.at # "new" /\ rpc.status = "none"
    BY DEF RpcSet
  <2> HIDE DEF rpc
  <2>3. PICK event \in Events : event.call = c /\
          (kind \in DOMAIN Before => event = [kind |-> Before[kind], call |-> c])
    <3>1. CASE kind \in DOMAIN Before
      <4>1. [kind |-> Before[kind], call |-> c] \in Events
        BY <3>1 DEF Events
      <4> QED
        BY <4>1
    <3>2. CASE kind \notin DOMAIN Before
      <4>1. [kind |-> Before["HalGate"], call |-> c] \in Events
        BY DEF Events, Before
      <4> QED
        BY <4>1, <3>2
    <3> QED
      BY <3>1, <3>2
  <2>4. (published' = published \/ published' = Append(published, event))
        /\ \A s \in DOMAIN subs' : Faithful(subs'[s], Len(published'))
    <3>1. CASE kind \in DOMAIN Before
      BY <3>1, <2>1, <2>3, <1>1, <1>2, SendKeepsAccounts
    <3>2. CASE kind \notin DOMAIN Before
      BY <3>2, <2>1, <1>1
    <3> QED
      BY <3>1, <3>2
  <2>5. Announced'
    BY <2>1, <2>2, <2>3, <2>4, <1>1, CallAnnounces
  <2> QED
    BY <2>1, <2>4, <2>5, <1>1 DEF BusHalves
<1>4. ASSUME NEW c \in RpcCalls, EndRpc(c, "granted")
      PROVE  BusHalves'
  <2> DEFINE rpc == [[rpcs[c] EXCEPT !.at = "ended"] EXCEPT !.status = "granted"]
             event == [kind |-> After[rpcs[c].kind], call |-> c]
  <2>1. /\ UNCHANGED <<subs, subscribed, wired>> /\ rpcs[c].at = "begun" /\ wired
        /\ Send(event) /\ rpcs[c].kind \in DOMAIN After
    BY <1>4 DEF EndRpc
  <2>2. rpcs' = [rpcs EXCEPT ![c] = rpc]
    BY <1>4, <1>2 DEF EndRpc
  <2>3. rpc \in RpcSet /\ rpc.at = "ended" /\ rpc.status = "granted"
    BY <1>2 DEF RpcSet
  <2>4. event \in Events /\ event.call = c /\ event.kind \in AfterKinds
    BY <2>1 DEF Events, AfterKinds
  <2> HIDE DEF rpc, event
  <2>5. (published' = published \/ published' = Append(published, event))
        /\ \A s \in DOMAIN subs' : Faithful(subs'[s], Len(published'))
    BY <2>1, <2>4, <1>1, <1>2, SendKeepsAccounts
  <2>6. Announced'
    BY <2>1, <2>2, <2>3, <2>4, <2>5, <1>1, CallAnnounces
  <2> QED
    BY <2>1, <2>5, <2>6, <1>1 DEF BusHalves
<1>5. ASSUME NEW c \in RpcCalls, EndPlain(c)
      PROVE  BusHalves'
  <2> DEFINE status == IF rpcs[c].kind \in DOMAIN After THEN "failed" ELSE "ok"
             rpc == [[rpcs[c] EXCEPT !.at = "ended"] EXCEPT !.status = status]
  <2>1. UNCHANGED <<published, subs, subscribed, wired>> /\ rpcs[c].at = "begun"
    BY <1>5 DEF EndPlain
  <2>2. rpcs' = [rpcs EXCEPT ![c] = rpc]
    BY <1>5, <1>2 DEF EndPlain
  <2>3. status \in {"failed", "ok"}
    OBVIOUS
  <2> HIDE DEF status
  <2>4. rpc \in RpcSet /\ rpc.at = "ended" /\ rpc.status \in {"failed", "ok"}
    BY <1>2, <2>3 DEF RpcSet
  <2> HIDE DEF rpc
  <2>5. PICK event \in Events : event.call = c
    <3>1. [kind |-> Before["HalGate"], call |-> c] \in Events
      BY DEF Events, Before
    <3> QED
      BY <3>1
  <2>6. Announced'
    BY <2>1, <2>2, <2>4, <2>5, <1>1, CallAnnounces
  <2> QED
    BY <2>1, <2>6, <1>1 DEF BusHalves
<1>6. CASE UNCHANGED busVars
  <2>1. UNCHANGED <<published, subs, rpcs, subscribed, wired>>
    BY <1>6 DEF busVars
  <2>2. Announced'
    BY <2>1, <1>1 DEF Announced
  <2> QED
    BY <2>1, <2>2, <1>1 DEF BusHalves
<1> QED
  BY <1>3, <1>4, <1>5, <1>6, ReceiverStep DEF BusNext

-------------------------------------------------------------------------------
(* The coordinator of the agents' IPC. *)

CallSet == [at : {"nonce", "enter", "agent", "caps", "done"}, env : Envelopes, todo : SUBSET IpcCaps,
            seen : Nat, checked : Nat, trusted : BOOLEAN, held : SUBSET IpcCaps]
AgentSet == [beat : Nat, healthy : BOOLEAN, trust : Nat]
AcceptedSet == [stamp : Int, at : Nat, seen : Nat, checked : Nat]

(* A call is idle or has all the fields of a call in progress.             *)
LEMMA CallShape ==
  ASSUME NEW x \in {Idle} \cup CallSet
  PROVE  /\ Idle.at = "idle" /\ (x = Idle <=> x.at = "idle")
         /\ x # Idle => /\ x \in CallSet /\ x.at \in {"nonce", "enter", "agent", "caps", "done"}
                        /\ x.env \in Envelopes /\ x.todo \subseteq IpcCaps /\ x.seen \in Nat /\ x.checked \in Nat
                        /\ x.trusted \in BOOLEAN /\ x.held \subseteq IpcCaps
<1>1. Idle.at = "idle"
  BY DEF Idle
<1>2. ASSUME x \in CallSet
      PROVE  /\ x.at \in {"nonce", "enter", "agent", "caps", "done"}
             /\ x.env \in Envelopes /\ x.todo \subseteq IpcCaps /\ x.seen \in Nat /\ x.checked \in Nat
             /\ x.trusted \in BOOLEAN /\ x.held \subseteq IpcCaps
  BY <1>2 DEF CallSet
<1>3. CASE x \in CallSet
  <2>1. x.at # "idle"
    BY <1>2, <1>3
  <2>2. x # Idle
    BY <2>1, <1>1
  <2> QED
    BY <1>1, <1>2, <1>3, <2>1, <2>2
<1>4. CASE x = Idle
  BY <1>1, <1>4
<1> QED
  BY <1>3, <1>4

(* What the lemmas below use of the invariant and of the constants.        *)
CoordinatorTypes ==
  /\ Skew \in Nat /\ Retention \in Nat /\ MaxPerWindow \in Nat /\ StaleAfter \in Nat
  /\ MaxIpcEvents \in Nat /\ MaxIpcTime \in Nat
  /\ \A e \in Envelopes :
       e.source \in IpcAgents /\ e.target \in IpcAgents /\ e.caps \subseteq IpcCaps /\ e.stamp \in Int
  /\ DOMAIN agents \subseteq IpcAgents /\ DOMAIN grants \subseteq IpcAgents /\ DOMAIN nonces \subseteq Nonces
  /\ \A a \in DOMAIN grants : grants[a] \subseteq IpcCaps
  /\ sweep \subseteq IpcAgents /\ ipcNow \in Nat /\ ipcNow <= MaxIpcTime
  /\ \A a \in DOMAIN agents : agents[a] \in AgentSet
  /\ \A n \in DOMAIN nonces : nonces[n] \in 0..ipcNow
  /\ DOMAIN windows \subseteq IpcAgents
  /\ \A a \in DOMAIN windows : windows[a] \in [count : Nat, start : 0..ipcNow]
  /\ calls \in [Calls -> {Idle} \cup CallSet]
  /\ accepted \in [Nonces -> Seq(AcceptedSet)]
  /\ passed \in [IpcAgents -> Seq(Nat)]
  /\ ipcChanges \in Nat /\ dispatched \in Nat /\ ipcChanges + dispatched <= MaxIpcEvents

LEMMA CoordinatorConstants ==
  /\ Skew \in Nat /\ Retention \in Nat /\ MaxPerWindow \in Nat /\ StaleAfter \in Nat
  /\ MaxIpcEvents \in Nat /\ MaxIpcTime \in Nat
  /\ \A e \in Envelopes :
       e.source \in IpcAgents /\ e.target \in IpcAgents /\ e.caps \subseteq IpcCaps /\ e.stamp \in Int
  BY AgentIpcAssumption

LEMMA CoordinatorTyped == AgentIpcTypeOK /\ AgentIpcShapes <=> CoordinatorTypes
<1>1. ASSUME CoordinatorTypes PROVE AgentIpcTypeOK /\ AgentIpcShapes
  <2>1. ipcNow \in 0..MaxIpcTime /\ dispatched \in 0..MaxIpcEvents
    BY <1>1 DEF CoordinatorTypes
  <2> QED
    BY <1>1, <2>1 DEF CoordinatorTypes, AgentIpcTypeOK, AgentIpcShapes, CallSet, AgentSet, AcceptedSet
<1>2. ASSUME AgentIpcTypeOK, AgentIpcShapes PROVE CoordinatorTypes
  <2>1. ipcNow \in Nat /\ ipcNow <= MaxIpcTime /\ dispatched \in Nat
    BY <1>2, CoordinatorConstants DEF AgentIpcTypeOK
  <2> QED
    BY <1>2, <2>1, CoordinatorConstants DEF CoordinatorTypes, AgentIpcTypeOK, AgentIpcShapes, CallSet, AgentSet, AcceptedSet
<1> QED
  BY <1>1, <1>2

\* The coordinator's invariant with its shapes named.
CoordinatorInv == CoordinatorTypes /\ NoncesInv /\ EntitledInv /\ LimitsInv

\* The steps that change the registry or the grants, and what they leave there.
RegistryStep ==
  \/ \E a \in IpcAgents :
       \/ Register(a) \/ Unregister(a) \/ HeartbeatFrom(a) \/ SetTrust(a, 1) \/ MarkUnhealthy(a) \/ IsolateAgent(a)
       \/ \E cap \in IpcCaps : GrantCap(a, cap) \/ RevokeCap(a, cap)
  \/ RemoveStale
Heard(reg, gr) ==
  /\ DOMAIN reg \subseteq IpcAgents /\ \A a \in DOMAIN reg : reg[a] \in AgentSet
  /\ \A a \in DOMAIN reg : ipcNow - reg[a].beat > StaleAfter => a \in lapsed'
  /\ IpcAgents \ DOMAIN reg \subseteq lapsed'
  /\ DOMAIN gr \subseteq IpcAgents /\ \A a \in DOMAIN gr : gr[a] \subseteq IpcCaps
  /\ sweep' \subseteq IpcAgents /\ sweep' \subseteq lapsed'

(* Whoever registers, beats or is graded is heard of now or was before,    *)
(* and who leaves the registry has lapsed (registry.rs, capability.rs).    *)
LEMMA RegistryChange ==
  ASSUME CoordinatorInv, RegistryStep
  PROVE  \E reg, gr : Changed(reg, gr) /\ Heard(reg, gr)
<1>1. /\ DOMAIN agents \subseteq IpcAgents /\ DOMAIN grants \subseteq IpcAgents
      /\ \A a \in DOMAIN grants : grants[a] \subseteq IpcCaps
      /\ sweep \subseteq IpcAgents /\ ipcNow \in Nat /\ StaleAfter \in Nat
      /\ \A a \in DOMAIN agents : agents[a] \in AgentSet
  BY DEF CoordinatorInv, CoordinatorTypes
<1>2. /\ IpcAgents \ DOMAIN agents \subseteq lapsed /\ sweep \subseteq lapsed
      /\ \A a \in DOMAIN agents : ipcNow - agents[a].beat > StaleAfter => a \in lapsed
  BY DEF CoordinatorInv, LimitsInv, LimitsHold, Stale
<1>3. ASSUME NEW reg, NEW gr, Changed(reg, gr), Heard(reg, gr)
      PROVE  \E r, g : Changed(r, g) /\ Heard(r, g)
  BY <1>3
<1>4. ASSUME lapsed' = lapsed, sweep' = sweep, NEW reg, DOMAIN reg \subseteq IpcAgents, DOMAIN agents \subseteq DOMAIN reg,
             \A a \in DOMAIN reg : reg[a] \in AgentSet,
             \A a \in DOMAIN reg : reg[a].beat = ipcNow \/ (a \in DOMAIN agents /\ reg[a].beat = agents[a].beat),
             NEW gr, DOMAIN gr \subseteq IpcAgents, \A a \in DOMAIN gr : gr[a] \subseteq IpcCaps
      PROVE  Heard(reg, gr)
  <2>1. ASSUME NEW a \in DOMAIN reg, ipcNow - reg[a].beat > StaleAfter PROVE a \in lapsed'
    BY <2>1, <1>1, <1>2, <1>4
  <2> QED
    BY <2>1, <1>1, <1>2, <1>4 DEF Heard
<1>5. ASSUME NEW a \in IpcAgents, Register(a)
      PROVE  \E r, g : Changed(r, g) /\ Heard(r, g)
  <2> DEFINE new == [Fresh EXCEPT !.beat = ipcNow]
             reg == With(agents, a, new)
  <2>1. Changed(reg, grants) /\ UNCHANGED <<sweep, lapsed>>
    BY <1>5 DEF Register
  <2>2. new \in AgentSet /\ new.beat = ipcNow
    BY <1>1 DEF Fresh, AgentSet
  <2> HIDE DEF new
  <2>3. /\ DOMAIN reg = DOMAIN agents \cup {a} /\ reg[a] = new
        /\ \A b \in DOMAIN agents : b # a => reg[b] = agents[b]
    BY DEF With
  <2> HIDE DEF reg
  <2>4. Heard(reg, grants)
    BY <2>1, <2>2, <2>3, <1>1, <1>4
  <2> QED
    BY <2>1, <2>4
<1>6. ASSUME NEW a \in IpcAgents, Unregister(a)
      PROVE  \E r, g : Changed(r, g) /\ Heard(r, g)
  <2>1. Changed(Without(agents, a), grants) /\ lapsed' = lapsed \cup {a} /\ sweep' = sweep
    BY <1>6 DEF Unregister
  <2>2. Heard(Without(agents, a), grants)
    BY <2>1, <1>1, <1>2 DEF Heard, Without
  <2> QED
    BY <2>1, <2>2
<1>7. ASSUME NEW a \in IpcAgents, HeartbeatFrom(a) \/ SetTrust(a, 1) \/ MarkUnhealthy(a)
      PROVE  \E r, g : Changed(r, g) /\ Heard(r, g)
  <2>1. PICK new \in AgentSet :
          /\ a \in DOMAIN agents /\ Changed([agents EXCEPT ![a] = new], grants) /\ UNCHANGED <<sweep, lapsed>>
          /\ new.beat = ipcNow \/ new.beat = agents[a].beat
    <3>1. CASE HeartbeatFrom(a)
      <4> DEFINE new == [[agents[a] EXCEPT !.beat = ipcNow] EXCEPT !.healthy = TRUE]
      <4>1. a \in DOMAIN agents /\ UNCHANGED <<sweep, lapsed>>
        BY <3>1 DEF HeartbeatFrom
      <4>2. new \in AgentSet /\ new.beat = ipcNow
        BY <4>1, <1>1 DEF AgentSet
      <4>3. [agents EXCEPT ![a].beat = ipcNow, ![a].healthy = TRUE] = [agents EXCEPT ![a] = new]
        BY <4>1
      <4>4. Changed([agents EXCEPT ![a] = new], grants)
        BY <3>1, <4>3, Zenon DEF HeartbeatFrom
      <4> HIDE DEF new
      <4> QED
        BY <4>1, <4>2, <4>4
    <3>2. CASE SetTrust(a, 1)
      <4> DEFINE new == [agents[a] EXCEPT !.trust = 1]
      <4>1. a \in DOMAIN agents /\ UNCHANGED <<sweep, lapsed>> /\ Changed([agents EXCEPT ![a] = new], grants)
        BY <3>2 DEF SetTrust
      <4>2. new \in AgentSet /\ new.beat = agents[a].beat
        BY <4>1, <1>1 DEF AgentSet
      <4> HIDE DEF new
      <4> QED
        BY <4>1, <4>2
    <3>3. CASE MarkUnhealthy(a)
      <4> DEFINE new == [agents[a] EXCEPT !.healthy = FALSE]
      <4>1. a \in DOMAIN agents /\ UNCHANGED <<sweep, lapsed>> /\ Changed([agents EXCEPT ![a] = new], grants)
        BY <3>3 DEF MarkUnhealthy
      <4>2. new \in AgentSet /\ new.beat = agents[a].beat
        BY <4>1, <1>1 DEF AgentSet
      <4> HIDE DEF new
      <4> QED
        BY <4>1, <4>2
    <3> QED
      BY <1>7, <3>1, <3>2, <3>3
  <2> DEFINE reg == [agents EXCEPT ![a] = new]
  <2>2. DOMAIN reg = DOMAIN agents /\ reg[a] = new /\ \A b \in DOMAIN agents : b # a => reg[b] = agents[b]
    BY <2>1
  <2>3. Changed(reg, grants) /\ sweep' = sweep /\ lapsed' = lapsed
    BY <2>1
  <2> HIDE DEF reg
  <2>4. Heard(reg, grants)
    BY <2>1, <2>2, <2>3, <1>1, <1>4
  <2> QED
    BY <2>3, <2>4
<1>8. ASSUME UNCHANGED <<sweep, lapsed>>, NEW gr, Changed(agents, gr),
             DOMAIN gr \subseteq IpcAgents, \A a \in DOMAIN gr : gr[a] \subseteq IpcCaps
      PROVE  \E r, g : Changed(r, g) /\ Heard(r, g)
  <2>1. Heard(agents, gr)
    BY <1>8, <1>1, <1>4
  <2> QED
    BY <1>8, <2>1
<1>9. ASSUME NEW a \in IpcAgents, IsolateAgent(a) \/ \E cap \in IpcCaps : GrantCap(a, cap) \/ RevokeCap(a, cap)
      PROVE  \E r, g : Changed(r, g) /\ Heard(r, g)
  <2>1. PICK gr : Changed(agents, gr) /\ UNCHANGED <<sweep, lapsed>>
          /\ DOMAIN gr \subseteq IpcAgents /\ \A b \in DOMAIN gr : gr[b] \subseteq IpcCaps
    <3>1. CASE IsolateAgent(a)
      <4>1. Changed(agents, Without(grants, a)) /\ UNCHANGED <<sweep, lapsed>>
        BY <3>1 DEF IsolateAgent
      <4>2. DOMAIN Without(grants, a) \subseteq IpcAgents
            /\ \A b \in DOMAIN Without(grants, a) : Without(grants, a)[b] \subseteq IpcCaps
        BY <1>1 DEF Without
      <4> QED
        BY <4>1, <4>2
    <3>2. ASSUME NEW cap \in IpcCaps, GrantCap(a, cap)
          PROVE  \E gr : /\ Changed(agents, gr) /\ UNCHANGED <<sweep, lapsed>>
                         /\ DOMAIN gr \subseteq IpcAgents /\ \A b \in DOMAIN gr : gr[b] \subseteq IpcCaps
      <4> DEFINE gr == With(grants, a, HeldBy(a, grants) \cup {cap})
      <4>1. Changed(agents, gr) /\ UNCHANGED <<sweep, lapsed>>
        BY <3>2 DEF GrantCap
      <4>2. DOMAIN gr \subseteq IpcAgents /\ \A b \in DOMAIN gr : gr[b] \subseteq IpcCaps
        BY <1>1 DEF With, HeldBy
      <4> HIDE DEF gr
      <4> QED
        BY <4>1, <4>2
    <3>3. ASSUME NEW cap \in IpcCaps, RevokeCap(a, cap)
          PROVE  \E gr : /\ Changed(agents, gr) /\ UNCHANGED <<sweep, lapsed>>
                         /\ DOMAIN gr \subseteq IpcAgents /\ \A b \in DOMAIN gr : gr[b] \subseteq IpcCaps
      <4> DEFINE gr == [grants EXCEPT ![a] = @ \ {cap}]
      <4>1. Changed(agents, gr) /\ UNCHANGED <<sweep, lapsed>>
        BY <3>3 DEF RevokeCap
      <4>2. DOMAIN gr \subseteq IpcAgents /\ \A b \in DOMAIN gr : gr[b] \subseteq IpcCaps
        BY <1>1
      <4> HIDE DEF gr
      <4> QED
        BY <4>1, <4>2
    <3> QED
      BY <1>9, <3>1, <3>2, <3>3
  <2> QED
    BY <2>1, <1>8
<1>10. CASE RemoveStale
  <2> DEFINE reg == [a \in DOMAIN agents \ sweep |-> agents[a]]
  <2>1. Changed(reg, grants) /\ lapsed' = lapsed /\ sweep' = {}
    BY <1>10 DEF RemoveStale
  <2>2. DOMAIN reg = DOMAIN agents \ sweep /\ \A a \in DOMAIN reg : reg[a] = agents[a]
    OBVIOUS
  <2> HIDE DEF reg
  <2>3. Heard(reg, grants)
    BY <2>1, <2>2, <1>1, <1>2 DEF Heard
  <2> QED
    BY <2>1, <2>3
<1> QED
  BY <1>5, <1>6, <1>7, <1>9, <1>10 DEF RegistryStep

(* A change notes with every call in progress what its source has now.     *)
LEMMA CallsNoted ==
  ASSUME CoordinatorTypes, NEW reg, NEW gr, Changed(reg, gr), Heard(reg, gr)
  PROVE  /\ calls' \in [Calls -> {Idle} \cup CallSet]
         /\ \A c \in Calls :
              /\ ~Running(c) => calls'[c] = calls[c]
              /\ Running(c) => /\ calls'[c] # Idle /\ calls'[c].at = calls[c].at /\ calls'[c].env = calls[c].env
                               /\ calls'[c].todo = calls[c].todo /\ calls'[c].seen = calls[c].seen
                               /\ calls'[c].checked = calls[c].checked
                               /\ calls'[c].trusted <=> (calls[c].trusted \/ Trusted(calls[c].env.source, reg))
                               /\ calls'[c].held = calls[c].held \cup HeldBy(calls[c].env.source, gr)
<1>1. calls \in [Calls -> {Idle} \cup CallSet]
  BY DEF CoordinatorTypes
<1>2. /\ DOMAIN calls' = Calls /\ calls' = [c \in Calls |-> calls'[c]]
      /\ \A c \in Calls : ~Running(c) => calls'[c] = calls[c]
      /\ \A c \in Calls : Running(c) =>
           calls'[c] = [[calls[c] EXCEPT !.trusted = calls[c].trusted \/ Trusted(calls[c].env.source, reg)]
                          EXCEPT !.held = calls[c].held \cup HeldBy(calls[c].env.source, gr)]
  <2>1. calls' = [c \in Calls |->
          IF ~Running(c) THEN calls[c]
          ELSE [calls[c] EXCEPT !.trusted = @ \/ Trusted(calls[c].env.source, reg),
                                !.held = @ \cup HeldBy(calls[c].env.source, gr)]]
    BY DEF Changed
  <2>2. ASSUME NEW c \in Calls, Running(c)
        PROVE  calls'[c] = [[calls[c] EXCEPT !.trusted = calls[c].trusted \/ Trusted(calls[c].env.source, reg)]
                          EXCEPT !.held = calls[c].held \cup HeldBy(calls[c].env.source, gr)]
    <3>1. calls[c] \in CallSet
      BY <1>1, <2>2, CallShape DEF Running
    <3> QED
      BY <2>1, <2>2, <3>1 DEF CallSet
  <2> QED
    BY <2>1, <2>2
<1>3. ASSUME NEW c \in Calls, Running(c)
      PROVE  /\ calls'[c] \in CallSet /\ calls'[c].at = calls[c].at /\ calls'[c].env = calls[c].env
             /\ calls'[c].todo = calls[c].todo /\ calls'[c].seen = calls[c].seen
             /\ calls'[c].checked = calls[c].checked
             /\ calls'[c].trusted <=> (calls[c].trusted \/ Trusted(calls[c].env.source, reg))
             /\ calls'[c].held = calls[c].held \cup HeldBy(calls[c].env.source, gr)
  <2>1. calls[c] \in CallSet
    BY <1>1, <1>3, CallShape DEF Running
  <2>2. HeldBy(calls[c].env.source, gr) \subseteq IpcCaps
    BY DEF Heard, HeldBy
  <2>3. PICK t \in BOOLEAN : t <=> (calls[c].trusted \/ Trusted(calls[c].env.source, reg))
    OBVIOUS
  <2>4. t = (calls[c].trusted \/ Trusted(calls[c].env.source, reg))
    BY <2>3
  <2>5. calls'[c] = [[calls[c] EXCEPT !.trusted = t] EXCEPT !.held = calls[c].held \cup HeldBy(calls[c].env.source, gr)]
    BY <1>2, <1>3, <2>4
  <2>6. calls'[c].trusted = t
    BY <2>1, <2>5 DEF CallSet
  <2> QED
    BY <2>1, <2>2, <2>3, <2>5, <2>6 DEF CallSet
<1>4. ASSUME NEW c \in Calls PROVE calls'[c] \in {Idle} \cup CallSet
  BY <1>1, <1>2, <1>3
<1>5. \A c \in Calls : Running(c) => calls'[c] # Idle
  BY <1>3, CallShape DEF Running
<1> QED
  BY <1>2, <1>3, <1>4, <1>5

(* A change of the registry or of the grants keeps all that the            *)
(* coordinator knows (registry.rs, capability.rs).                         *)
LEMMA RegistryKeeps ==
  ASSUME CoordinatorInv, RegistryStep
  PROVE  CoordinatorInv'
<1>1. PICK reg, gr : Changed(reg, gr) /\ Heard(reg, gr)
  BY RegistryChange
<1>2. CoordinatorTypes /\ NoncesInv /\ EntitledInv /\ LimitsInv
  BY DEF CoordinatorInv
<1>3. /\ agents' = reg /\ grants' = gr /\ ipcChanges' = ipcChanges + 1 /\ ipcChanges + dispatched < MaxIpcEvents
      /\ UNCHANGED <<nonces, windows, accepted, passed, dispatched, ipcNow>>
  BY <1>1 DEF Changed
<1>4. calls' \in [Calls -> {Idle} \cup CallSet]
  BY <1>1, <1>2, CallsNoted
<1>5. \A c \in Calls :
        /\ ~Running(c) => calls'[c] = calls[c]
        /\ Running(c) => /\ calls'[c] # Idle /\ calls'[c].at = calls[c].at /\ calls'[c].env = calls[c].env
                         /\ calls'[c].todo = calls[c].todo /\ calls'[c].seen = calls[c].seen
                         /\ calls'[c].checked = calls[c].checked
                         /\ calls'[c].trusted <=> (calls[c].trusted \/ Trusted(calls[c].env.source, reg))
                         /\ calls'[c].held = calls[c].held \cup HeldBy(calls[c].env.source, gr)
  BY <1>1, <1>2, CallsNoted
<1>6. CoordinatorTypes'
  BY <1>1, <1>2, <1>3, <1>4 DEF CoordinatorTypes, Heard
<1>7. NoncesInv'
  <2>1. ASSUME NEW c \in Calls, calls'[c].at = "enter"
        PROVE  /\ calls[c].at = "enter" /\ calls'[c].env = calls[c].env
               /\ calls'[c].seen = calls[c].seen /\ calls'[c].checked = calls[c].checked
    BY <1>5, <2>1
  <2> QED
    BY <2>1, <1>2, <1>3 DEF NoncesInv, Aged
<1>8. EntitledInv'
  <2>1. SUFFICES ASSUME NEW c \in Calls, calls'[c] # Idle
                 PROVE  /\ calls'[c].at # "done" =>
                             /\ HeldBy(calls'[c].env.source, gr) \subseteq calls'[c].held
                             /\ Trusted(calls'[c].env.source, reg) => calls'[c].trusted
                        /\ calls'[c].at \in {"caps", "done"} => calls'[c].trusted
                        /\ calls'[c].env.caps \ calls'[c].todo \subseteq calls'[c].held
                        /\ calls'[c].at = "done" => calls'[c].todo = {}
    BY <1>3 DEF EntitledInv
  <2>2. CASE Running(c)
    <3>1. calls[c] # Idle /\ calls[c].at # "done"
      BY <2>2, CallShape DEF Running
    <3>2. /\ calls[c].at = "caps" => calls[c].trusted
          /\ calls[c].env.caps \ calls[c].todo \subseteq calls[c].held
      BY <3>1, <1>2 DEF EntitledInv
    <3>3. /\ calls'[c].at = calls[c].at /\ calls'[c].env = calls[c].env /\ calls'[c].todo = calls[c].todo
          /\ calls'[c].held = calls[c].held \cup HeldBy(calls[c].env.source, gr)
      BY <2>2, <1>5
    <3>4. calls'[c].trusted <=> (calls[c].trusted \/ Trusted(calls[c].env.source, reg))
      BY <2>2, <1>5
    <3> QED
      BY <3>1, <3>2, <3>3, <3>4
  <2>3. CASE ~Running(c)
    <3>1. calls'[c] = calls[c] /\ calls[c].at = "done"
      BY <2>1, <2>3, <1>2, <1>5, CallShape DEF Running, CoordinatorTypes
    <3> QED
      BY <3>1, <2>1, <1>2 DEF EntitledInv
  <2> QED
    BY <2>2, <2>3
<1>9. LimitsInv'
  <2>1. sweep' \cup Stale' \subseteq lapsed'
    BY <1>1, <1>3 DEF Heard, Stale
  <2>2. IpcAgents \ DOMAIN agents' \subseteq lapsed'
    BY <1>1, <1>3 DEF Heard
  <2> QED
    BY <2>1, <2>2, <1>2, <1>3 DEF LimitsInv, LimitsHold, PassedAt
<1> QED
  BY <1>6, <1>7, <1>8, <1>9 DEF CoordinatorInv

Occurs(s, t) == Cardinality({i \in DOMAIN s : s[i] = t})

(* How often a number occurs in a sequence when one is added to it.        *)
LEMMA OccursAppend ==
  ASSUME NEW s \in Seq(Nat), NEW v \in Nat, NEW t
  PROVE  Occurs(s, t) \in Nat /\ Occurs(Append(s, v), t) = Occurs(s, t) + (IF v = t THEN 1 ELSE 0)
<1> DEFINE S == {i \in DOMAIN s : s[i] = t}
           A == Append(s, v)
           T == {i \in DOMAIN A : A[i] = t}
<1>1. /\ Len(s) \in Nat /\ DOMAIN s = 1..Len(s) /\ DOMAIN A = 1..(Len(s) + 1)
      /\ \A i \in 1..Len(s) : A[i] = s[i]
      /\ A[Len(s) + 1] = v
  <2>1. Len(s) \in Nat /\ DOMAIN s = 1..Len(s)
    OBVIOUS
  <2>2. A \in Seq(Nat) /\ Len(A) = Len(s) + 1 /\ A[Len(s) + 1] = v
    BY SMTT(30)
  <2>3. DOMAIN A = 1..(Len(s) + 1)
    BY <2>2, SMTT(30)
  <2>4. \A i \in 1..Len(s) : A[i] = s[i]
    BY SMTT(30)
  <2> QED
    BY <2>1, <2>2, <2>3, <2>4
<1>2. IsFiniteSet(S) /\ Cardinality(S) \in Nat
  <2>1. IsFiniteSet(1..Len(s))
    BY <1>1, FS_Interval
  <2>2. IsFiniteSet(S)
    BY <1>1, <2>1, FS_Subset
  <2> QED
    BY <2>2, FS_CardinalityType
<1>3. Occurs(s, t) = Cardinality(S) /\ Occurs(A, t) = Cardinality(T)
  BY DEF Occurs
<1> HIDE DEF A
<1>4. T = IF v = t THEN S \cup {Len(s) + 1} ELSE S
  BY <1>1
<1>5. Len(s) + 1 \notin S
  BY <1>1
<1> HIDE DEF S, T
<1>6. Cardinality(S \cup {Len(s) + 1}) = Cardinality(S) + 1
  BY <1>2, <1>5, FS_AddElement
<1>7. Cardinality(T) = Cardinality(S) + (IF v = t THEN 1 ELSE 0)
  BY <1>2, <1>4, <1>6
<1> QED
  BY <1>2, <1>3, <1>7 DEF A

(* The clock moves on, and nobody has passed the limiter in the new second. *)
LEMMA ClockKeeps ==
  ASSUME CoordinatorInv, IpcTick
  PROVE  CoordinatorInv'
<1>1. CoordinatorTypes /\ NoncesInv /\ EntitledInv /\ LimitsInv
  BY DEF CoordinatorInv
<1>2. /\ ipcNow < MaxIpcTime /\ ipcNow' = ipcNow + 1
      /\ lapsed' = lapsed \cup {a \in DOMAIN agents : ipcNow' - agents[a].beat > StaleAfter}
      /\ UNCHANGED <<agents, grants, sweep, ipcChanges, nonces, windows, calls, accepted, passed, dispatched>>
  BY DEF IpcTick, dispatchVars
<1>3. ipcNow \in Nat /\ MaxIpcTime \in Nat /\ Retention \in Nat
  BY <1>1 DEF CoordinatorTypes
<1>4. CoordinatorTypes'
  <2>1. 0..ipcNow \subseteq 0..(ipcNow + 1) /\ ipcNow' \in Nat /\ ipcNow' <= MaxIpcTime
    BY <1>2, <1>3
  <2>2. \A a \in DOMAIN windows : windows[a] \in [count : Nat, start : 0..(ipcNow + 1)]
    BY <1>1, <2>1 DEF CoordinatorTypes
  <2>3. \A n \in DOMAIN nonces : nonces[n] \in 0..(ipcNow + 1)
    BY <1>1, <2>1 DEF CoordinatorTypes
  <2> QED
    BY <1>1, <1>2, <2>1, <2>2, <2>3 DEF CoordinatorTypes
<1>5. NoncesInv'
  <2>1. ASSUME NEW n \in Nonces, NEW i \in DOMAIN accepted[n]
        PROVE  accepted[n][i].at \in Nat
    <3>1. accepted[n] \in Seq(AcceptedSet)
      BY <1>1 DEF CoordinatorTypes
    <3>2. accepted[n][i] \in AcceptedSet
      BY <3>1, <2>1
    <3> QED
      BY <3>2 DEF AcceptedSet
  <2>2. ASSUME NEW n \in Nonces, NEW i \in DOMAIN accepted[n], Aged(accepted[n][i], ipcNow)
        PROVE  Aged(accepted[n][i], ipcNow + 1)
    BY <2>1, <2>2, <1>3 DEF Aged
  <2>3. ASSUME NEW c \in Calls, calls[c].at = "enter" PROVE calls[c].checked <= ipcNow + 1
    <3>1. calls[c].checked \in Nat /\ calls[c].checked <= ipcNow
      BY <2>3, <1>1, CallShape DEF NoncesInv, CoordinatorTypes
    <3> QED
      BY <3>1, <1>3
  <2>4. \A n \in Nonces : \A i \in DOMAIN accepted[n] :
          Aged(accepted[n][i], ipcNow + 1) \/ (n \in DOMAIN nonces /\ accepted[n][i].at <= nonces[n])
    BY <2>2, <1>1 DEF NoncesInv
  <2> HIDE DEF Aged
  <2>5. \A n \in Nonces : \A i \in DOMAIN accepted[n] :
          /\ accepted[n][i].checked <= accepted[n][i].at /\ accepted[n][i].checked - accepted[n][i].stamp \in -Skew..Skew
          /\ \E e \in Envelopes : e.nonce = n /\ e.stamp = accepted[n][i].stamp
          /\ \A j \in DOMAIN accepted[n] : i < j => accepted[n][j].seen < i \/ Aged(accepted[n][i], accepted[n][j].checked)
    BY <1>1 DEF NoncesInv
  <2>6. \A c \in Calls : calls[c].at = "enter" =>
          /\ calls[c].seen <= Len(accepted[calls[c].env.nonce])
          /\ calls[c].checked - calls[c].env.stamp \in -Skew..Skew
          /\ \A i \in DOMAIN accepted[calls[c].env.nonce] :
               calls[c].seen < i \/ Aged(accepted[calls[c].env.nonce][i], calls[c].checked)
    BY <1>1 DEF NoncesInv
  <2> QED
    BY <1>2, <2>3, <2>4, <2>5, <2>6 DEF NoncesInv, Aged
<1>6. EntitledInv'
  BY <1>1, <1>2 DEF EntitledInv
<1>7. LimitsInv'
  <2>1. sweep' \cup Stale' \subseteq lapsed'
    BY <1>1, <1>2 DEF LimitsInv, Stale
  <2>2. LimitsHold'
    BY <1>1, <1>2 DEF LimitsInv, LimitsHold
  <2>3. ASSUME NEW a \in IpcAgents
        PROVE  /\ \A i \in DOMAIN passed[a] : passed[a][i] <= ipcNow + 1 /\ passed[a][i] # ipcNow + 1
    <3>1. passed[a] \in Seq(Nat) /\ \A i \in DOMAIN passed[a] : passed[a][i] <= ipcNow
      BY <1>1 DEF CoordinatorTypes, LimitsInv
    <3>2. \A i \in DOMAIN passed[a] : passed[a][i] \in Nat
      BY <3>1
    <3> QED
      BY <3>1, <3>2, <1>3
  <2>4. ASSUME NEW a \in IpcAgents
        PROVE  Cardinality({i \in DOMAIN passed[a] : passed[a][i] = ipcNow + 1}) = 0
    <3>1. {i \in DOMAIN passed[a] : passed[a][i] = ipcNow + 1} = {}
      BY <2>3
    <3> QED
      BY <3>1, FS_EmptySet
  <2>5. ASSUME NEW a \in IpcAgents
        PROVE  (IF a \in DOMAIN windows' /\ windows'[a].start = ipcNow' THEN windows'[a].count ELSE 0) \in Nat
    BY <1>4 DEF CoordinatorTypes
  <2>6. ASSUME NEW a \in IpcAgents
        PROVE  PassedAt(a, ipcNow)' <= IF a \in DOMAIN windows' /\ windows'[a].start = ipcNow' THEN windows'[a].count ELSE 0
    <3>1. PassedAt(a, ipcNow)' = 0
      BY <2>4, <1>2 DEF PassedAt
    <3> QED
      BY <3>1, <2>5
  <2> QED
    BY <1>2, <2>1, <2>2, <2>3, <2>6 DEF LimitsInv
<1> QED
  BY <1>4, <1>5, <1>6, <1>7 DEF CoordinatorInv

\* What EntitledInv and NoncesInv say of one call.
EntitledCall(x) ==
  /\ x.at # "done" =>
       /\ HeldBy(x.env.source, grants) \subseteq x.held
       /\ Trusted(x.env.source, agents) => x.trusted
  /\ x.at \in {"caps", "done"} => x.trusted
  /\ x.env.caps \ x.todo \subseteq x.held
  /\ x.at = "done" => x.todo = {}
LookedUp(x) ==
  /\ x.seen <= Len(accepted[x.env.nonce])
  /\ x.checked <= ipcNow /\ x.checked - x.env.stamp \in -Skew..Skew
  /\ \A i \in DOMAIN accepted[x.env.nonce] : x.seen < i \/ Aged(accepted[x.env.nonce][i], x.checked)

(* A call moves on, and only its own record changes.                       *)
LEMMA CallMoves ==
  ASSUME CoordinatorInv, NEW c \in Calls, NEW next \in {Idle} \cup CallSet, calls' = [calls EXCEPT ![c] = next],
         UNCHANGED <<agents, grants>>, next # Idle => EntitledCall(next)
  PROVE  /\ calls' \in [Calls -> {Idle} \cup CallSet] /\ EntitledInv'
         /\ \A d \in Calls : calls'[d] = IF d = c THEN next ELSE calls[d]
<1>1. calls \in [Calls -> {Idle} \cup CallSet] /\ EntitledInv
  BY DEF CoordinatorInv, CoordinatorTypes
<1>2. /\ calls' \in [Calls -> {Idle} \cup CallSet]
      /\ \A d \in Calls : calls'[d] = IF d = c THEN next ELSE calls[d]
  BY <1>1
<1>3. \A d \in Calls : calls[d] # Idle => EntitledCall(calls[d])
  BY <1>1 DEF EntitledInv, EntitledCall
<1>4. \A d \in Calls : calls'[d] # Idle => EntitledCall(calls'[d])
  BY <1>2, <1>3
<1>5. EntitledInv'
  BY <1>4 DEF EntitledInv, EntitledCall
<1> QED
  BY <1>2, <1>5

(* The looks of a call at the nonce cache, the registry and the grants, and *)
(* the first half of cleanup_stale, change nothing that others know.       *)
LEMMA LookKeeps ==
  ASSUME CoordinatorInv, NEW c \in Calls, NEW next \in {Idle} \cup CallSet, Step(c, next),
         UNCHANGED <<registryVars, nonces, windows, accepted, passed, dispatched, ipcNow>>,
         next # Idle => EntitledCall(next), next.at = "enter" => LookedUp(next)
  PROVE  CoordinatorInv'
<1>1. CoordinatorTypes /\ NoncesInv /\ EntitledInv /\ LimitsInv
  BY DEF CoordinatorInv
<1>2. /\ UNCHANGED <<agents, grants, sweep, lapsed, ipcChanges>>
      /\ UNCHANGED <<nonces, windows, accepted, passed, dispatched, ipcNow>>
      /\ calls' = [calls EXCEPT ![c] = next]
  BY DEF registryVars, Step
<1>3. calls' \in [Calls -> {Idle} \cup CallSet] /\ EntitledInv'
  BY <1>2, CallMoves
<1>4. \A d \in Calls : calls'[d] = IF d = c THEN next ELSE calls[d]
  BY <1>2, CallMoves
<1>5. CoordinatorTypes'
  BY <1>1, <1>2, <1>3 DEF CoordinatorTypes
<1>6. \A d \in Calls : calls'[d].at = "enter" => LookedUp(calls'[d])
  BY <1>1, <1>4 DEF NoncesInv, LookedUp
<1>7. NoncesInv'
  BY <1>1, <1>2, <1>6 DEF NoncesInv, LookedUp, Aged
<1>8. LimitsInv'
  BY <1>1, <1>2 DEF LimitsInv, LimitsHold, PassedAt, Stale
<1> QED
  BY <1>3, <1>5, <1>7, <1>8 DEF CoordinatorInv

(* A nonce that is not in the cache was accepted too long ago to matter    *)
(* (validate_integrity).                                                   *)
LEMMA CheckNonceKeeps ==
  ASSUME CoordinatorInv, NEW c \in Calls, CheckNonce(c)
  PROVE  CoordinatorInv'
<1> DEFINE x == calls[c]
           next == [[[x EXCEPT !.at = "enter"] EXCEPT !.seen = Len(accepted[x.env.nonce])] EXCEPT !.checked = ipcNow]
<1>1. CoordinatorTypes /\ NoncesInv /\ EntitledInv /\ LimitsInv
  BY DEF CoordinatorInv
<1>2. x.at = "nonce" /\ x # Idle /\ x \in CallSet /\ EntitledCall(x) /\ x.env \in Envelopes
  <2>1. x.at = "nonce" /\ x # Idle /\ x \in CallSet /\ x.env \in Envelopes
    BY <1>1, CallShape DEF CheckNonce, CoordinatorTypes
  <2> QED
    BY <2>1, <1>1 DEF EntitledInv, EntitledCall
<1>3. UNCHANGED <<registryVars, nonces, windows, accepted, passed, dispatched, ipcNow>>
  BY DEF CheckNonce
<1>4. CASE Refuse(c)
  <2>1. Idle \in {Idle} \cup CallSet /\ Idle.at # "enter"
    BY DEF Idle
  <2> QED
    BY <1>3, <1>4, <2>1, LookKeeps DEF Refuse
<1>5. CASE x.env.nonce \notin DOMAIN nonces /\ InTime(x.env) /\ Step(c, next)
  <2>1. x.env.nonce \in Nonces
    BY <1>2 DEF Nonces
  <2>2. accepted[x.env.nonce] \in Seq(AcceptedSet) /\ ipcNow \in Nat /\ Skew \in Nat /\ x.env.stamp \in Int
    BY <1>1, <1>2, <2>1 DEF CoordinatorTypes
  <2>3. Len(accepted[x.env.nonce]) \in Nat
    BY <2>2
  <2>4. /\ next \in CallSet /\ next.at = "enter" /\ next.env = x.env /\ next.todo = x.todo /\ next.held = x.held
        /\ next.trusted = x.trusted /\ next.seen = Len(accepted[x.env.nonce]) /\ next.checked = ipcNow
    BY <1>2, <2>2, <2>3 DEF CallSet
  <2> HIDE DEF next
  <2>5. EntitledCall(next)
    BY <2>4, <1>2 DEF EntitledCall
  <2>6. next.checked - x.env.stamp \in -Skew..Skew
    BY <1>5, <2>2, <2>4 DEF InTime
  <2>7. \A i \in DOMAIN accepted[x.env.nonce] : Aged(accepted[x.env.nonce][i], next.checked)
    BY <1>1, <1>5, <2>1, <2>4 DEF NoncesInv
  <2>8. LookedUp(next)
    BY <2>2, <2>3, <2>4, <2>6, <2>7 DEF LookedUp
  <2> QED
    BY <1>3, <1>5, <2>4, <2>5, <2>8, LookKeeps
<1>6. [x EXCEPT !.at = "enter", !.seen = Len(accepted[calls[c].env.nonce]), !.checked = ipcNow] = next
  BY <1>2 DEF CallSet
<1> QED
  BY <1>4, <1>5, <1>6, Zenon DEF CheckNonce

(* What validate_envelope finds of the source, a capability or the target  *)
(* is noted with the call, which is refused otherwise.                     *)
LEMMA LookupsKeep ==
  ASSUME CoordinatorInv, NEW c \in Calls, CheckSource(c) \/ CheckTarget(c) \/ \E cap \in IpcCaps : CheckCap(c, cap)
  PROVE  CoordinatorInv'
<1> DEFINE x == calls[c]
<1>1. CoordinatorTypes /\ NoncesInv /\ EntitledInv /\ LimitsInv
  BY DEF CoordinatorInv
<1>2. x.at \in {"agent", "caps"} /\ x # Idle /\ x \in CallSet /\ EntitledCall(x) /\ x.todo \subseteq IpcCaps
  <2>1. x.at \in {"agent", "caps"}
    BY DEF CheckSource, CheckTarget, CheckCap
  <2>2. x # Idle /\ x \in CallSet /\ x.todo \subseteq IpcCaps
    BY <2>1, <1>1, CallShape DEF CoordinatorTypes
  <2> QED
    BY <2>1, <2>2, <1>1 DEF EntitledInv, EntitledCall
<1>3. UNCHANGED <<registryVars, nonces, windows, accepted, passed, dispatched, ipcNow>>
  BY DEF CheckSource, CheckTarget, CheckCap
<1>4. CASE Refuse(c)
  <2>1. Idle \in {Idle} \cup CallSet /\ Idle.at # "enter"
    BY DEF Idle
  <2> QED
    BY <1>3, <1>4, <2>1, LookKeeps DEF Refuse
<1>5. ASSUME NEW next \in CallSet, Step(c, next), next.at # "enter", EntitledCall(next)
      PROVE  CoordinatorInv'
  BY <1>3, <1>5, LookKeeps
<1>6. CASE CheckSource(c) /\ ~Refuse(c)
  <2> DEFINE next == [x EXCEPT !.at = "caps"]
  <2>1. Trusted(x.env.source, agents) /\ Step(c, next) /\ x.at = "agent"
    BY <1>6 DEF CheckSource
  <2>2. /\ next \in CallSet /\ next.at = "caps" /\ next.env = x.env /\ next.todo = x.todo /\ next.held = x.held
        /\ next.trusted = x.trusted
    BY <1>2 DEF CallSet
  <2> HIDE DEF next
  <2>3. x.trusted
    BY <2>1, <1>2 DEF EntitledCall
  <2>4. EntitledCall(next)
    BY <2>2, <2>3, <1>2 DEF EntitledCall
  <2> QED
    BY <2>1, <2>2, <2>4, <1>5
<1>7. ASSUME NEW cap \in IpcCaps, CheckCap(c, cap), ~Refuse(c)
      PROVE  CoordinatorInv'
  <2> DEFINE next == [x EXCEPT !.todo = x.todo \ {cap}]
  <2>1. cap \in HeldBy(x.env.source, grants) /\ x.at = "caps" /\ Step(c, [x EXCEPT !.todo = @ \ {cap}])
    BY <1>7 DEF CheckCap, HasCapability
  <2>2. Step(c, next)
    BY <1>2, <2>1 DEF CallSet
  <2>3. /\ next \in CallSet /\ next.at = "caps" /\ next.env = x.env /\ next.todo = x.todo \ {cap}
        /\ next.held = x.held /\ next.trusted = x.trusted
    BY <1>2, <2>1 DEF CallSet
  <2> HIDE DEF next
  <2>4. cap \in x.held /\ x.trusted
    BY <2>1, <1>2 DEF EntitledCall
  <2>5. EntitledCall(next)
    BY <2>1, <2>3, <2>4, <1>2 DEF EntitledCall
  <2> QED
    BY <2>2, <2>3, <2>5, <1>5
<1>8. CASE CheckTarget(c) /\ ~Refuse(c)
  <2> DEFINE next == [x EXCEPT !.at = "done"]
  <2>1. x.at = "caps" /\ x.todo = {} /\ Step(c, next)
    BY <1>8 DEF CheckTarget
  <2>2. /\ next \in CallSet /\ next.at = "done" /\ next.env = x.env /\ next.todo = {} /\ next.held = x.held
        /\ next.trusted = x.trusted
    BY <1>2, <2>1 DEF CallSet
  <2> HIDE DEF next
  <2>3. EntitledCall(next)
    BY <2>1, <2>2, <1>2 DEF EntitledCall
  <2> QED
    BY <2>1, <2>2, <2>3, <1>5
<1> QED
  BY <1>4, <1>6, <1>7, <1>8

(* cleanup_stale lists agents that have lapsed.                            *)
LEMMA ListKeeps ==
  ASSUME CoordinatorInv, ListStale \/ UNCHANGED agentIpcVars
  PROVE  CoordinatorInv'
<1>1. CoordinatorTypes /\ NoncesInv /\ EntitledInv /\ LimitsInv
  BY DEF CoordinatorInv
<1>2. /\ UNCHANGED <<agents, grants, lapsed, ipcChanges, nonces, windows, calls, accepted, passed, dispatched, ipcNow>>
      /\ sweep' = sweep \/ sweep' = Stale
  BY DEF ListStale, agentIpcVars, dispatchVars
<1>3. sweep' \subseteq IpcAgents /\ sweep' \subseteq lapsed
  BY <1>1, <1>2 DEF CoordinatorTypes, LimitsInv, Stale
<1>4. CoordinatorTypes'
  BY <1>1, <1>2, <1>3 DEF CoordinatorTypes
<1>5. NoncesInv'
  BY <1>1, <1>2 DEF NoncesInv, Aged
<1>6. EntitledInv'
  BY <1>1, <1>2 DEF EntitledInv
<1>7. LimitsInv'
  BY <1>1, <1>2, <1>3 DEF LimitsInv, LimitsHold, PassedAt, Stale
<1> QED
  BY <1>4, <1>5, <1>6, <1>7 DEF CoordinatorInv

(* The nonce is entered, the cache purged, and the acceptance put on       *)
(* record: whoever looks the nonce up from now on finds it or finds it old *)
(* (validate_integrity, the second half).                                  *)
LEMMA EnterNonceKeeps ==
  ASSUME CoordinatorInv, NEW c \in Calls, EnterNonce(c)
  PROVE  CoordinatorInv'
<1> DEFINE x == calls[c]
           n == x.env.nonce
           next == [x EXCEPT !.at = "agent"]
           entry == [stamp |-> x.env.stamp, at |-> ipcNow, seen |-> x.seen, checked |-> x.checked]
           all == With(nonces, n, ipcNow)
<1>1. CoordinatorTypes /\ NoncesInv /\ EntitledInv /\ LimitsInv
  BY DEF CoordinatorInv
<1>2. /\ x.at = "enter" /\ x # Idle /\ x \in CallSet /\ x.env \in Envelopes /\ n \in Nonces
      /\ x.seen \in Nat /\ x.checked \in Nat /\ x.env.stamp \in Int
  <2>1. x.at = "enter"
    BY DEF EnterNonce
  <2>2. x # Idle /\ x \in CallSet /\ x.env \in Envelopes /\ x.seen \in Nat /\ x.checked \in Nat
    BY <2>1, <1>1, CallShape DEF CoordinatorTypes
  <2> QED
    BY <2>1, <2>2, <1>1 DEF CoordinatorTypes, Nonces
<1>3. /\ UNCHANGED <<agents, grants, sweep, lapsed, ipcChanges, windows, passed, dispatched, ipcNow>>
      /\ calls' = [calls EXCEPT ![c] = next]
      /\ nonces' = [m \in {m \in DOMAIN all : Kept(m, all[m])} |-> all[m]]
      /\ accepted' = [accepted EXCEPT ![n] = Append(accepted[n], entry)]
  BY <1>1, <1>2 DEF EnterNonce, registryVars, Step, CoordinatorTypes
<1>4. /\ next \in CallSet /\ next.at = "agent" /\ next.env = x.env /\ next.todo = x.todo /\ next.held = x.held
      /\ next.trusted = x.trusted
  BY <1>2 DEF CallSet
<1>5. entry \in AcceptedSet /\ entry.stamp = x.env.stamp /\ entry.at = ipcNow /\ entry.seen = x.seen
      /\ entry.checked = x.checked
  BY <1>1, <1>2 DEF CoordinatorTypes, AcceptedSet
<1>6. LookedUp(x)
  BY <1>1, <1>2 DEF NoncesInv, LookedUp
<1>7. EntitledCall(next)
  <2>1. EntitledCall(x)
    BY <1>1, <1>2 DEF EntitledInv, EntitledCall
  <2> QED
    BY <2>1, <1>2, <1>4 DEF EntitledCall
<1> HIDE DEF next, entry
<1>8. calls' \in [Calls -> {Idle} \cup CallSet] /\ EntitledInv'
  BY <1>3, <1>4, <1>7, CallMoves
<1>9. \A d \in Calls : calls'[d] = IF d = c THEN next ELSE calls[d]
  BY <1>3, <1>4, <1>7, CallMoves
<1>10. /\ ipcNow \in Nat /\ Retention \in Nat /\ \A m \in DOMAIN nonces : nonces[m] \in 0..ipcNow
       /\ DOMAIN nonces \subseteq Nonces
       /\ accepted \in [Nonces -> Seq(AcceptedSet)]
  BY <1>1 DEF CoordinatorTypes
<1>11. /\ DOMAIN nonces' \subseteq Nonces
       /\ \A m \in DOMAIN nonces' : nonces'[m] \in 0..ipcNow
       /\ n \in DOMAIN nonces' => nonces'[n] = ipcNow
       /\ n \notin DOMAIN nonces' => Retention = 0
       /\ \A m \in DOMAIN nonces : m # n => IF m \in DOMAIN nonces' THEN nonces'[m] = nonces[m]
                                           ELSE nonces[m] + Retention <= ipcNow
  <2>1. /\ DOMAIN all = DOMAIN nonces \cup {n} /\ all[n] = ipcNow
        /\ \A m \in DOMAIN nonces : m # n => all[m] = nonces[m]
    BY DEF With
  <2> HIDE DEF all, n
  <2>2. /\ \A m : m \in DOMAIN nonces' <=> m \in DOMAIN all /\ all[m] + Retention > ipcNow
        /\ \A m \in DOMAIN nonces' : nonces'[m] = all[m]
    BY <1>3 DEF Kept
  <2>3. \A m \in DOMAIN all : all[m] \in 0..ipcNow
    BY <2>1, <1>10
  <2>4. DOMAIN nonces' \subseteq Nonces
    BY <2>1, <2>2, <1>2, <1>10
  <2>5. n \notin DOMAIN nonces' => Retention = 0
    BY <2>1, <2>2, <1>10
  <2>6. ASSUME NEW m \in DOMAIN nonces, m # n, m \notin DOMAIN nonces' PROVE nonces[m] + Retention <= ipcNow
    BY <2>1, <2>2, <2>6, <1>10
  <2> QED
    BY <2>1, <2>2, <2>3, <2>4, <2>5, <2>6
<1>12. /\ accepted' \in [Nonces -> Seq(AcceptedSet)]
       /\ \A m \in Nonces : m # n => accepted'[m] = accepted[m]
       /\ DOMAIN accepted[n] = 1..Len(accepted[n]) /\ Len(accepted[n]) \in Nat
       /\ DOMAIN accepted'[n] = 1..(Len(accepted[n]) + 1)
       /\ \A i \in DOMAIN accepted[n] : accepted'[n][i] = accepted[n][i]
       /\ accepted'[n][Len(accepted[n]) + 1] = entry /\ Len(accepted'[n]) = Len(accepted[n]) + 1
  <2>1. accepted[n] \in Seq(AcceptedSet)
    BY <1>2, <1>10
  <2>2. accepted'[n] = Append(accepted[n], entry) /\ \A m \in Nonces : m # n => accepted'[m] = accepted[m]
    BY <1>2, <1>3, <1>10
  <2>3. Append(accepted[n], entry) \in Seq(AcceptedSet)
    BY <2>1, <1>5
  <2>4. accepted' \in [Nonces -> Seq(AcceptedSet)]
    BY <2>3, <1>2, <1>3, <1>10
  <2> QED
    BY <2>1, <2>2, <2>4, <1>5
<1>12a. ASSUME NEW m \in Nonces
       PROVE  /\ \A i \in DOMAIN accepted[m] : accepted'[m][i] = accepted[m][i] /\ i \in Nat
              /\ \A i \in DOMAIN accepted'[m] :
                   i \in DOMAIN accepted[m] \/ (m = n /\ i = Len(accepted[n]) + 1 /\ accepted'[m][i] = entry)
  <2>1. accepted[m] \in Seq(AcceptedSet)
    BY <1>10
  <2>2. CASE m = n
    BY <2>2, <1>12
  <2>3. CASE m # n
    BY <2>1, <2>3, <1>12
  <2> QED
    BY <2>2, <2>3
<1>13. ASSUME NEW m \in Nonces, NEW i \in DOMAIN accepted[m]
       PROVE  /\ accepted[m][i].at \in Nat /\ accepted[m][i].at <= ipcNow
  <2>1. accepted[m] \in Seq(AcceptedSet)
    BY <1>10
  <2>2. accepted[m][i].at \in Nat
    <3>1. accepted[m][i] \in AcceptedSet
      BY <2>1
    <3> QED
      BY <3>1 DEF AcceptedSet
  <2>3. Aged(accepted[m][i], ipcNow) \/ (m \in DOMAIN nonces /\ accepted[m][i].at <= nonces[m])
    BY <1>1 DEF NoncesInv
  <2>4. CASE Aged(accepted[m][i], ipcNow)
    BY <2>2, <2>4, <1>10 DEF Aged
  <2>5. CASE m \in DOMAIN nonces /\ accepted[m][i].at <= nonces[m]
    BY <2>2, <2>5, <1>10
  <2> QED
    BY <2>2, <2>3, <2>4, <2>5
<1>14. ASSUME NEW m \in Nonces, NEW i \in DOMAIN accepted'[m]
       PROVE  LET e == accepted'[m][i] IN
              /\ e.checked <= e.at /\ e.checked - e.stamp \in -Skew..Skew
              /\ \E f \in Envelopes : f.nonce = m /\ f.stamp = e.stamp
              /\ Aged(e, ipcNow) \/ (m \in DOMAIN nonces' /\ e.at <= nonces'[m])
  <2>1. CASE i \in DOMAIN accepted[m] /\ accepted'[m][i] = accepted[m][i]
    <3> DEFINE e == accepted[m][i]
    <3>1. /\ e.checked <= e.at /\ e.checked - e.stamp \in -Skew..Skew
          /\ \E f \in Envelopes : f.nonce = m /\ f.stamp = e.stamp
          /\ Aged(e, ipcNow) \/ (m \in DOMAIN nonces /\ e.at <= nonces[m])
      BY <2>1, <1>1 DEF NoncesInv
    <3>2. e.at \in Nat /\ e.at <= ipcNow
      BY <2>1, <1>13
    <3> HIDE DEF e
    <3>5. Aged(e, ipcNow) \/ (m \in DOMAIN nonces' /\ e.at <= nonces'[m])
      <4>1. CASE m = n /\ n \in DOMAIN nonces'
        BY <3>2, <4>1, <1>11
      <4>2. CASE m = n /\ n \notin DOMAIN nonces'
        BY <3>2, <4>2, <1>10, <1>11 DEF Aged
      <4>3. CASE m # n
        BY <3>1, <3>2, <4>3, <1>10, <1>11 DEF Aged
      <4> QED
        BY <4>1, <4>2, <4>3
    <3> QED
      BY <3>1, <3>5, <2>1 DEF e
  <2>2. CASE m = n /\ accepted'[m][i] = entry
    <3>1. entry.checked <= entry.at /\ entry.checked - entry.stamp \in -Skew..Skew
      BY <1>5, <1>6 DEF LookedUp
    <3>2. Aged(entry, ipcNow) \/ (n \in DOMAIN nonces' /\ entry.at <= nonces'[n])
      BY <1>5, <1>10, <1>11 DEF Aged
    <3> QED
      BY <3>1, <3>2, <2>2, <1>2, <1>5
  <2> QED
    BY <2>1, <2>2, <1>14, <1>12a
<1>15. ASSUME NEW m \in Nonces, NEW i \in DOMAIN accepted'[m], NEW j \in DOMAIN accepted'[m], i < j
       PROVE  accepted'[m][j].seen < i \/ Aged(accepted'[m][i], accepted'[m][j].checked)
  <2>1. CASE i \in DOMAIN accepted[m] /\ j \in DOMAIN accepted[m]
    <3>1. accepted[m][j].seen < i \/ Aged(accepted[m][i], accepted[m][j].checked)
      BY <2>1, <1>1, <1>15 DEF NoncesInv
    <3> QED
      BY <2>1, <3>1, <1>12a
  <2>2. CASE m = n /\ j = Len(accepted[n]) + 1 /\ i \in DOMAIN accepted[n]
    BY <2>2, <1>5, <1>6, <1>12 DEF LookedUp
  <2>3. CASE i \notin DOMAIN accepted[m]
    <3>1. i = Len(accepted[n]) + 1 /\ m = n
      BY <2>3, <1>12a
    <3> QED
      BY <3>1, <1>12, <1>15
  <2> QED
    BY <2>1, <2>2, <2>3, <1>15, <1>12a
<1>16. ASSUME NEW d \in Calls, calls'[d].at = "enter"
       PROVE  /\ calls'[d].seen <= Len(accepted'[calls'[d].env.nonce])
              /\ calls'[d].checked <= ipcNow /\ calls'[d].checked - calls'[d].env.stamp \in -Skew..Skew
              /\ \A i \in DOMAIN accepted'[calls'[d].env.nonce] :
                   calls'[d].seen < i \/ Aged(accepted'[calls'[d].env.nonce][i], calls'[d].checked)
  <2> DEFINE y == calls[d]
  <2>1. calls'[d] = y /\ LookedUp(y) /\ y.env.nonce \in Nonces /\ y.seen \in Nat
    <3>1. calls'[d] = y /\ y.at = "enter"
      BY <1>4, <1>9, <1>16
    <3>2. y.env \in Envelopes /\ y.seen \in Nat
      BY <3>1, <1>1, CallShape DEF CoordinatorTypes
    <3> QED
      BY <3>1, <3>2, <1>1 DEF NoncesInv, LookedUp, Nonces
  <2> HIDE DEF y
  <2>2. CASE y.env.nonce # n
    BY <2>1, <2>2, <1>12 DEF LookedUp
  <2>3. CASE y.env.nonce = n
    BY <2>1, <2>3, <1>12 DEF LookedUp
  <2> QED
    BY <2>2, <2>3
<1>17. NoncesInv'
  <2>1. ipcNow' = ipcNow
    BY <1>3
  <2> QED
    BY <2>1, <1>14, <1>15, <1>16 DEF NoncesInv
<1>18. CoordinatorTypes'
  BY <1>1, <1>3, <1>8, <1>11, <1>12 DEF CoordinatorTypes
<1>19. LimitsInv'
  BY <1>1, <1>3 DEF LimitsInv, LimitsHold, PassedAt, Stale
<1> QED
  BY <1>8, <1>17, <1>18, <1>19 DEF CoordinatorInv

(* A call comes in, and passes the limiter only if the window of its       *)
(* source, which is this second's or a new one, has room (check).          *)
LEMMA DispatchKeeps ==
  ASSUME CoordinatorInv, NEW c \in Calls, NEW e \in Envelopes, DispatchCall(c, e)
  PROVE  CoordinatorInv'
<1> DEFINE s == e.source
           w == Window(s)
           counted == [w EXCEPT !.count = w.count + 1]
           new == [at |-> "nonce", env |-> e, todo |-> e.caps, seen |-> 0, checked |-> 0,
                   trusted |-> Trusted(s, agents), held |-> HeldBy(s, grants)]
<1>1. CoordinatorTypes /\ NoncesInv /\ EntitledInv /\ LimitsInv
  BY DEF CoordinatorInv
<1>2. /\ s \in IpcAgents /\ e.caps \subseteq IpcCaps /\ ipcNow \in Nat /\ MaxPerWindow \in Nat
      /\ DOMAIN windows \subseteq IpcAgents /\ MaxIpcTime \in Nat /\ ipcNow <= MaxIpcTime
      /\ \A a \in DOMAIN windows : windows[a] \in [count : Nat, start : 0..ipcNow]
      /\ passed \in [IpcAgents -> Seq(Nat)]
  BY <1>1 DEF CoordinatorTypes
<1>3. /\ UNCHANGED <<agents, grants, sweep, lapsed, ipcChanges, nonces, accepted, ipcNow>>
      /\ windows' = With(windows, s, [w EXCEPT !.count = @ + 1])
      /\ dispatched' = dispatched + 1 /\ ipcChanges + dispatched < MaxIpcEvents
  BY DEF DispatchCall, registryVars
<1>4. /\ w \in [count : Nat, start : 0..ipcNow] /\ w.start = ipcNow
      /\ s \in DOMAIN windows /\ windows[s].start = ipcNow => w.count = windows[s].count
  <2>1. CASE s \notin DOMAIN windows \/ ipcNow - windows[s].start >= 1
    <3>1. w = [count |-> 0, start |-> ipcNow]
      BY <2>1 DEF Window
    <3> QED
      BY <3>1, <2>1, <1>2
  <2>2. CASE s \in DOMAIN windows /\ ~(ipcNow - windows[s].start >= 1)
    <3>1. w = windows[s]
      BY <2>2 DEF Window
    <3> QED
      BY <3>1, <2>2, <1>2
  <2> QED
    BY <2>1, <2>2
<1> HIDE DEF w
<1>5. counted \in [count : Nat, start : 0..ipcNow] /\ counted.start = ipcNow /\ counted.count = w.count + 1
      /\ windows' = With(windows, s, counted)
  BY <1>3, <1>4
<1> HIDE DEF counted
<1>6. /\ DOMAIN windows' = DOMAIN windows \cup {s} /\ windows'[s] = counted
      /\ \A a \in DOMAIN windows : a # s => windows'[a] = windows[a]
  BY <1>5 DEF With
<1>7. PICK next \in {Idle} \cup CallSet :
        /\ calls' = [calls EXCEPT ![c] = next] /\ next.at # "enter" /\ (next # Idle => EntitledCall(next))
        /\ \/ passed' = passed
           \/ ~Limited(s) /\ passed' = [passed EXCEPT ![s] = Append(passed[s], ipcNow)]
  <2>1. CASE Limited(s)
    <3>1. calls' = [calls EXCEPT ![c] = Idle] /\ passed' = passed
      BY <2>1 DEF DispatchCall, Refuse, Step
    <3>2. Idle.at # "enter" /\ Idle \in {Idle} \cup CallSet
      BY DEF Idle
    <3> QED
      BY <3>1, <3>2
  <2>2. CASE ~Limited(s)
    <3>1. calls' = [calls EXCEPT ![c] = new] /\ passed' = [passed EXCEPT ![s] = Append(passed[s], ipcNow)]
      BY <2>2, <1>2 DEF DispatchCall, Step
    <3>2. HeldBy(s, grants) \subseteq IpcCaps
      BY <1>1 DEF CoordinatorTypes, HeldBy
    <3>3. PICK t \in BOOLEAN : t <=> Trusted(s, agents)
      OBVIOUS
    <3>4. t = Trusted(s, agents)
      BY <3>3 DEF Trusted
    <3>5. new = [at |-> "nonce", env |-> e, todo |-> e.caps, seen |-> 0, checked |-> 0,
                 trusted |-> t, held |-> HeldBy(s, grants)]
      BY <3>4
    <3>6. /\ new \in CallSet /\ new.at = "nonce" /\ new.env = e /\ new.todo = e.caps
          /\ new.trusted = t /\ new.held = HeldBy(s, grants)
      BY <3>2, <3>5, <1>2 DEF CallSet
    <3> HIDE DEF new
    <3>7. EntitledCall(new)
      BY <3>3, <3>6 DEF EntitledCall
    <3> QED
      BY <2>2, <3>1, <3>6, <3>7
  <2> QED
    BY <2>1, <2>2
<1>8. calls' \in [Calls -> {Idle} \cup CallSet] /\ EntitledInv'
  BY <1>3, <1>7, CallMoves
<1>9. \A d \in Calls : calls'[d] = IF d = c THEN next ELSE calls[d]
  BY <1>3, <1>7, CallMoves
<1>10. passed' \in [IpcAgents -> Seq(Nat)]
  <2>1. Append(passed[s], ipcNow) \in Seq(Nat)
    BY <1>2
  <2> QED
    BY <2>1, <1>2, <1>7
<1>11. CoordinatorTypes'
  <2>1. \A a \in DOMAIN windows' : windows'[a] \in [count : Nat, start : 0..ipcNow]
    BY <1>2, <1>5, <1>6
  <2>2. dispatched' \in Nat /\ ipcChanges' \in Nat /\ ipcChanges' + dispatched' <= MaxIpcEvents
    BY <1>1, <1>3 DEF CoordinatorTypes
  <2>3. DOMAIN windows' \subseteq IpcAgents
    BY <1>2, <1>6
  <2> QED
    BY <1>1, <1>3, <1>8, <1>10, <2>1, <2>2, <2>3 DEF CoordinatorTypes
<1>12. NoncesInv'
  <2>1. \A d \in Calls : calls'[d].at = "enter" => LookedUp(calls'[d])
    BY <1>1, <1>7, <1>9 DEF NoncesInv, LookedUp
  <2> QED
    BY <2>1, <1>1, <1>3 DEF NoncesInv, LookedUp, Aged
<1>13. ASSUME NEW a \in IpcAgents, NEW t
       PROVE  /\ Occurs(passed[a], t) \in Nat
              /\ \/ Occurs(passed'[a], t) = Occurs(passed[a], t)
                 \/ /\ ~Limited(s) /\ a = s /\ t = ipcNow
                    /\ Occurs(passed'[a], t) = Occurs(passed[a], t) + 1
  <2>1. passed[a] \in Seq(Nat)
    BY <1>2
  <2>2. /\ Occurs(passed[a], t) \in Nat
        /\ Occurs(Append(passed[a], ipcNow), t) = Occurs(passed[a], t) + (IF ipcNow = t THEN 1 ELSE 0)
    BY <2>1, OccursAppend, <1>2
  <2>3. CASE passed'[a] = passed[a]
    BY <2>2, <2>3
  <2>4. CASE ~Limited(s) /\ a = s /\ passed'[a] = Append(passed[a], ipcNow)
    <3>1. CASE ipcNow = t
      BY <2>2, <2>4, <3>1
    <3>2. CASE ipcNow # t
      BY <2>2, <2>4, <3>2
    <3> QED
      BY <3>1, <3>2
  <2> QED
    BY <2>3, <2>4, <1>2, <1>7
<1>14. Occurs(passed[s], ipcNow) <= w.count
  <2>1. Occurs(passed[s], ipcNow) <= IF s \in DOMAIN windows /\ windows[s].start = ipcNow THEN windows[s].count ELSE 0
    BY <1>1, <1>2 DEF LimitsInv, PassedAt, Occurs
  <2>2. CASE s \in DOMAIN windows /\ windows[s].start = ipcNow
    BY <2>1, <2>2, <1>4
  <2>3. CASE ~(s \in DOMAIN windows /\ windows[s].start = ipcNow)
    <3>1. w.count \in Nat /\ Occurs(passed[s], ipcNow) <= 0
      BY <2>1, <2>3, <1>4
    <3> QED
      BY <3>1, <1>2, <1>13
  <2> QED
    BY <2>2, <2>3
<1>15. ~Limited(s) => w.count + 1 <= MaxPerWindow
  BY <1>2, <1>4 DEF Limited, w
<1>16. LimitsHold'
  <2>1. ASSUME NEW a \in IpcAgents, NEW t \in 0..MaxIpcTime
        PROVE  Occurs(passed'[a], t) <= MaxPerWindow
    <3>1. Occurs(passed[a], t) \in Nat /\ Occurs(passed[a], t) <= MaxPerWindow
      BY <1>1, <1>13 DEF LimitsInv, LimitsHold, Occurs
    <3>2. w.count \in Nat
      BY <1>4
    <3> QED
      BY <3>1, <3>2, <1>2, <1>13, <1>14, <1>15
  <2> QED
    BY <2>1, <1>1, <1>3 DEF LimitsInv, LimitsHold, Occurs
<1>17. ASSUME NEW a \in IpcAgents, NEW i \in DOMAIN passed'[a]
       PROVE  passed'[a][i] <= ipcNow
  <2>1. passed[a] \in Seq(Nat) /\ \A k \in DOMAIN passed[a] : passed[a][k] <= ipcNow
    BY <1>1, <1>2 DEF LimitsInv
  <2>2. CASE passed'[a] = passed[a]
    BY <2>1, <2>2, <1>17
  <2>3. CASE passed'[a] = Append(passed[a], ipcNow)
    BY <2>1, <2>3, <1>2, <1>17
  <2> QED
    BY <2>2, <2>3, <1>2, <1>7
<1>18. ASSUME NEW a \in IpcAgents
       PROVE  PassedAt(a, ipcNow)' <= IF a \in DOMAIN windows' /\ windows'[a].start = ipcNow' THEN windows'[a].count ELSE 0
  <2>1. PassedAt(a, ipcNow)' = Occurs(passed'[a], ipcNow)
    BY <1>3 DEF PassedAt, Occurs
  <2>2. CASE a = s
    <3>1. windows'[a].start = ipcNow /\ windows'[a].count = w.count + 1 /\ a \in DOMAIN windows'
      BY <2>2, <1>5, <1>6
    <3>2. w.count \in Nat /\ Occurs(passed[s], ipcNow) \in Nat
          /\ (Occurs(passed'[s], ipcNow) = Occurs(passed[s], ipcNow) \/ Occurs(passed'[s], ipcNow) = Occurs(passed[s], ipcNow) + 1)
      BY <1>2, <1>4, <1>13
    <3> QED
      BY <2>1, <2>2, <3>1, <3>2, <1>3, <1>14
  <2>3. CASE a # s
    <3>1. Occurs(passed'[a], ipcNow) = PassedAt(a, ipcNow)
      BY <2>3, <1>13 DEF PassedAt, Occurs
    <3>2. (IF a \in DOMAIN windows' /\ windows'[a].start = ipcNow' THEN windows'[a].count ELSE 0)
            = IF a \in DOMAIN windows /\ windows[a].start = ipcNow THEN windows[a].count ELSE 0
      BY <2>3, <1>3, <1>6
    <3> QED
      BY <2>1, <3>1, <3>2, <1>1 DEF LimitsInv
  <2> QED
    BY <2>2, <2>3
<1>19. LimitsInv'
  <2>1. sweep' \cup Stale' \subseteq lapsed'
    BY <1>1, <1>3 DEF LimitsInv, Stale
  <2> QED
    BY <2>1, <1>3, <1>16, <1>17, <1>18 DEF LimitsInv
<1> QED
  BY <1>8, <1>11, <1>12, <1>19 DEF CoordinatorInv

(* The coordinator starts with every agent heard of and nothing under way. *)
LEMMA CoordinatorStart ==
  ASSUME AgentIpcInit
  PROVE  CoordinatorInv
<1> USE CoordinatorConstants DEF AgentIpcInit
<1>1. Fresh \in AgentSet /\ Fresh.beat = 0
  BY DEF Fresh, AgentSet
<1>2. /\ DOMAIN nonces = {} /\ DOMAIN windows = {} /\ <<>> \in Seq(AcceptedSet) /\ <<>> \in Seq(Nat)
      /\ DOMAIN accepted = Nonces /\ \A n \in Nonces : accepted[n] = <<>> /\ DOMAIN accepted[n] = {}
      /\ DOMAIN passed = IpcAgents /\ \A a \in IpcAgents : passed[a] = <<>> /\ DOMAIN passed[a] = {}
  OBVIOUS
<1>3. \A c \in Calls : calls[c] = Idle
  OBVIOUS
<1>4. CoordinatorTypes
  <2>1. accepted \in [Nonces -> Seq(AcceptedSet)] /\ passed \in [IpcAgents -> Seq(Nat)]
    BY <1>2
  <2> QED
    BY <1>1, <1>2, <2>1 DEF CoordinatorTypes
<1>5. NoncesInv
  BY <1>2, <1>3 DEF NoncesInv, Idle
<1>6. EntitledInv
  BY <1>3 DEF EntitledInv
<1>7. LimitsInv
  <2>1. ASSUME NEW a \in IpcAgents, NEW t PROVE PassedAt(a, t) = 0
    <3>1. {i \in DOMAIN passed[a] : passed[a][i] = t} = {}
      BY <1>2
    <3> QED
      BY <3>1, FS_EmptySet DEF PassedAt
  <2>2. LimitsHold
    BY <2>1 DEF LimitsHold, PassedAt
  <2>3. sweep = {} /\ Stale = {}
    BY <1>1 DEF Stale
  <2>4. \A a \in IpcAgents :
          PassedAt(a, ipcNow) <= IF a \in DOMAIN windows /\ windows[a].start = ipcNow THEN windows[a].count ELSE 0
    BY <1>2, <2>1
  <2> QED
    BY <1>2, <2>2, <2>3, <2>4 DEF LimitsInv
<1> QED
  BY <1>4, <1>5, <1>6, <1>7 DEF CoordinatorInv

(* The coordinator's invariant is inductive.                               *)
LEMMA CoordinatorStep ==
  ASSUME CoordinatorInv, [AgentIpcNext]_agentIpcVars
  PROVE  CoordinatorInv'
<1>1. CASE RegistryStep
  BY <1>1, RegistryKeeps
<1>2. CASE IpcTick
  BY <1>2, ClockKeeps
<1>3. CASE ListStale \/ UNCHANGED agentIpcVars
  BY <1>3, ListKeeps
<1>4. ASSUME NEW c \in Calls, CheckNonce(c) PROVE CoordinatorInv'
  BY <1>4, CheckNonceKeeps
<1>5. ASSUME NEW c \in Calls, EnterNonce(c) PROVE CoordinatorInv'
  BY <1>5, EnterNonceKeeps
<1>6. ASSUME NEW c \in Calls, CheckSource(c) \/ CheckTarget(c) \/ \E cap \in IpcCaps : CheckCap(c, cap)
      PROVE  CoordinatorInv'
  BY <1>6, LookupsKeep
<1>7. ASSUME NEW c \in Calls, NEW e \in Envelopes, DispatchCall(c, e) PROVE CoordinatorInv'
  BY <1>7, DispatchKeeps
<1> QED
  BY <1>1, <1>2, <1>3, <1>4, <1>5, <1>6, <1>7, Zenon DEF AgentIpcNext, RegistryStep

\* A nonce is one envelope's, and is kept until that envelope is out of time
\* (60 s and 30 s either way in auth.rs).
NoncesUnique == \A e, f \in Envelopes : e.nonce = f.nonce => e.stamp = f.stamp
KeptLongEnough == 2 * Skew <= Retention

(* The replay check, from the invariant: who is accepted again looked the  *)
(* nonce up before the first was entered, or came at the two ends of the   *)
(* window that the skew leaves (validate_integrity).                       *)
LEMMA AcceptedOnce ==
  ASSUME CoordinatorInv, NoncesUnique, KeptLongEnough
  PROVE  NonceOnce
<1>1. SUFFICES ASSUME NEW n \in Nonces, NEW i \in DOMAIN accepted[n], NEW j \in DOMAIN accepted[n], i < j,
                      ~(accepted[n][j].seen < i)
               PROVE  /\ accepted[n][i].at = accepted[n][i].stamp - Skew
                      /\ accepted[n][j].checked = accepted[n][j].stamp + Skew
  BY DEF NonceOnce
<1> DEFINE x == accepted[n][i]
           y == accepted[n][j]
<1>2. x \in AcceptedSet /\ y \in AcceptedSet /\ Skew \in Nat /\ Retention \in Nat /\ 2 * Skew <= Retention
  <2>1. accepted[n] \in Seq(AcceptedSet) /\ Skew \in Nat /\ Retention \in Nat
    BY DEF CoordinatorInv, CoordinatorTypes
  <2> QED
    BY <2>1, <1>1 DEF KeptLongEnough
<1>3. /\ x.checked <= x.at /\ x.checked - x.stamp \in -Skew..Skew /\ y.checked - y.stamp \in -Skew..Skew
      /\ Aged(x, y.checked)
  BY <1>1 DEF CoordinatorInv, NoncesInv
<1>4. x.stamp = y.stamp
  <2>1. /\ \E e \in Envelopes : e.nonce = n /\ e.stamp = x.stamp
        /\ \E e \in Envelopes : e.nonce = n /\ e.stamp = y.stamp
    BY <1>1 DEF CoordinatorInv, NoncesInv
  <2> QED
    BY <2>1 DEF NoncesUnique
<1>5. /\ x.stamp \in Int /\ x.at \in Nat /\ x.checked \in Nat /\ y.stamp \in Int /\ y.checked \in Nat
  BY <1>2 DEF AcceptedSet
<1> HIDE DEF x, y
<1>6. x.at + Retention <= y.checked
  BY <1>3 DEF Aged
<1>7. x.at = x.stamp - Skew /\ y.checked = y.stamp + Skew
  BY <1>2, <1>3, <1>4, <1>5, <1>6
<1> QED
  BY <1>7 DEF x, y

(* A dispatched envelope is entitled, from the invariant.                  *)
LEMMA DispatchedEntitled ==
  ASSUME CoordinatorInv
  PROVE  DispatchEntitled
<1>1. SUFFICES ASSUME NEW c \in Calls, calls[c].at = "done"
               PROVE  calls[c].trusted /\ calls[c].env.caps \subseteq calls[c].held
  BY DEF DispatchEntitled
<1>2. calls[c] # Idle
  BY <1>1 DEF Idle
<1> QED
  BY <1>1, <1>2 DEF CoordinatorInv, EntitledInv

-------------------------------------------------------------------------------
(* The four components together, as MCIpc runs them.                       *)

IpcInv == ConnectionInv /\ RuntimeInv /\ BusHalves /\ CoordinatorInv

(* The four invariants hold along every behaviour: the connection task,    *)
(* the runtime's two locks, the streams, and the coordinator's checks.     *)
THEOREM IpcInvariance == Spec => []IpcInv
<1>1. Init => IpcInv
  BY ConnectionInit, RuntimeStart, BusStart, CoordinatorStart DEF Init, IpcInv
<1>2. IpcInv /\ [Next]_vars => IpcInv'
  BY OneDriven, ConnectionStep, RuntimeStep, BusStep, CoordinatorStep DEF IpcInv
<1> QED
  BY <1>1, <1>2, PTL DEF Spec

(* The state of all four has its type: no table names a stranger and no    *)
(* counter leaves its bound.                                               *)
THEOREM IpcTypes == Spec => []IpcTypeOK
<1>1. IpcInv => IpcTypeOK
  BY BusInHalves, CoordinatorTyped DEF IpcInv, IpcTypeOK, ConnectionInv, RuntimeInv, BusInv, CoordinatorInv
<1> QED
  BY <1>1, IpcInvariance, PTL

(* A subscriber gets every event sent since it subscribed, once and in     *)
(* order, but for those a full ring overwrote, and no decision comes       *)
(* before its request (event_bus.rs, the streams of server.rs).            *)
THEOREM StreamsComplete == Spec => []StreamsSound
<1>1. IpcInv => StreamsSound
  BY BusInHalves DEF IpcInv, BusInv, StreamsSound
<1> QED
  BY <1>1, IpcInvariance, PTL

(* The runtime's two tables agree whenever the first can be read, whatever *)
(* the interleaving of registrations, heartbeats and shutdown, and a       *)
(* connection task ends only when stopped or out of attempts               *)
(* (runtime.rs, agent.rs, client.rs).                                      *)
THEOREM ConnectionsKept == Spec => []ConnectionsSound
<1>1. ASSUME RuntimeInv PROVE TablesAgree
  <2>1. agentsLock = Nobody => \A a \in RtAgents : ~Halfway(a)
    BY DEF Halfway
  <2> QED
    BY <1>1, <2>1 DEF RuntimeInv, Agreeing, TablesAgree
<1>2. IpcInv => ConnectionsSound
  BY <1>1 DEF IpcInv, ConnectionInv, ConnectionsSound
<1> QED
  BY <1>2, IpcInvariance, PTL

(* A dispatched envelope used only what its source held, by a source that  *)
(* was trusted, since the call came; no agent passes the limiter more than *)
(* its rate within a second; and none is swept away that kept beating.     *)
(* This needs nothing of the nonces (validate_envelope, check,             *)
(* cleanup_stale).                                                         *)
THEOREM DispatchesEntitled == Spec => [](DispatchEntitled /\ LimitsHold)
<1>1. IpcInv => DispatchEntitled /\ LimitsHold
  BY DispatchedEntitled DEF IpcInv, CoordinatorInv, LimitsInv
<1> QED
  BY <1>1, IpcInvariance, PTL

(* With nonces that are their envelope's own, kept for twice the skew, the *)
(* coordinator lets an envelope through again in the two known cases only  *)
(* (validate_integrity), and all it dispatches is entitled.                *)
THEOREM DispatchesSound ==
  ASSUME NoncesUnique, KeptLongEnough
  PROVE  Spec => []DispatchSound
<1>1. IpcInv => DispatchSound
  BY AcceptedOnce, DispatchedEntitled DEF IpcInv, CoordinatorInv, LimitsInv, DispatchSound
<1> QED
  BY <1>1, IpcInvariance, PTL
===============================================================================
