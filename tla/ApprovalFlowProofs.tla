-------------------------- MODULE ApprovalFlowProofs --------------------------
(***************************************************************************)
(* For any number of requests, and whatever dies in between:               *)
(*   - while audit.log can be written the orchestrator never acts on an    *)
(*     approval that is not in it, and no verdict or denial is revised;    *)
(*   - the watch process holds the dialog of every waiting thread once;    *)
(*   - where nobody types ahead, an approval was given for the request it  *)
(*     is used for, but for the two known ways round the watch.            *)
(***************************************************************************)
EXTENDS ApprovalFlow, ProofLemmas, TLAPS

Undecided == {"level", "connect", "dialog", "terminal"}

(* The initial state satisfies the invariant. *)
LEMMA InitAuditInv == Init => AuditInv
  BY GateAssumption DEF Init, AuditInv, ControlType, Thread, Reason, ThreadInv, WaiterInv

(* Steps of the watch, of its user and of the environment do not touch what *)
(* the invariant speaks of.                                                 *)
LEMMA FrameStep ==
  ASSUME AuditInv, UNCHANGED <<waiter, thread, verdict, audit, stdin>>
  PROVE  AuditInv'
  BY DEF AuditInv, ControlType, ThreadInv, WaiterInv, Outcome, Approving

(* The orchestrator asks, or gives up. *)
LEMMA WaiterStep ==
  ASSUME AuditInv, NEW g \in Gate,
         GiveUp(g) \/ \E op \in Op, zone \in Zone, agent \in Agent : Ask(g, op, zone, agent)
  PROVE  AuditInv'
<1>1. CASE GiveUp(g)
  <2>1. /\ waiter' = [waiter EXCEPT ![g] = "gave_up"]
        /\ UNCHANGED <<thread, verdict, audit, stdin>>
    BY <1>1 DEF GiveUp, threadVars, termVars
  <2> QED
    BY <2>1 DEF AuditInv, ControlType, ThreadInv, WaiterInv, Outcome
<1>2. CASE \E op \in Op, zone \in Zone, agent \in Agent : Ask(g, op, zone, agent)
  <2>1. /\ waiter[g] = "idle"
        /\ \/ /\ waiter' = [waiter EXCEPT ![g] = "asking"]
              /\ thread' = [thread EXCEPT ![g] = "level"]
           \/ /\ waiter' = [waiter EXCEPT ![g] = "denied"]
              /\ thread' = [thread EXCEPT ![g] = "none"]
        /\ UNCHANGED <<verdict, audit, stdin>>
    BY <1>2 DEF Ask, termVars
  <2>2. thread[g] = "none" /\ verdict[g] = "none"
    BY <2>1 DEF AuditInv, ThreadInv, WaiterInv
  <2>3. ControlType' /\ (stdin' # NoGate => thread'[stdin'] = "terminal")
    BY <2>1, <2>2 DEF AuditInv, ControlType, Thread
  <2>4. ASSUME NEW h \in Gate PROVE ThreadInv(h)' /\ WaiterInv(h)'
    BY <2>1, <2>2 DEF AuditInv, ControlType, ThreadInv, WaiterInv, Outcome
  <2> QED
    BY <2>3, <2>4 DEF AuditInv
<1> QED
  BY <1>1, <1>2

(* A thread that has not decided yet moves on to ask the user. *)
LEMMA MoveStep ==
  ASSUME AuditInv, NEW g \in Gate, thread[g] \in {"level", "connect"},
         NEW p \in {"connect", "dialog", "terminal"},
         thread' = [thread EXCEPT ![g] = p], UNCHANGED <<waiter, verdict, audit, stdin>>
  PROVE  AuditInv'
<1>1. ControlType' /\ (stdin' # NoGate => thread'[stdin'] = "terminal")
  BY DEF AuditInv, ControlType, Thread
<1>2. ASSUME NEW h \in Gate PROVE ThreadInv(h)' /\ WaiterInv(h)'
  BY DEF AuditInv, ControlType, ThreadInv, WaiterInv, Outcome
<1> QED
  BY <1>1, <1>2 DEF AuditInv

(* A thread decides; if it held the stdin lock it lets it go. *)
LEMMA DecideStep ==
  ASSUME AuditInv, NEW g \in Gate, thread[g] \in Undecided,
         NEW r \in Reason \ {"none"}, Decide(g, r), UNCHANGED <<waiter, audit>>,
         stdin' = NoGate \/ (stdin' = stdin /\ stdin # g)
  PROVE  AuditInv'
<1>1. /\ verdict' = [verdict EXCEPT ![g] = r] /\ thread' = [thread EXCEPT ![g] = "audit"]
      /\ waiter' = waiter /\ audit' = audit
  BY DEF Decide
<1>2. ControlType' /\ (stdin' # NoGate => thread'[stdin'] = "terminal")
  BY <1>1 DEF AuditInv, ControlType, Thread
<1>3. ASSUME NEW h \in Gate PROVE ThreadInv(h)' /\ WaiterInv(h)'
  <2>1. CASE h = g
    <3>1. \A o \in {"approved", "denied"} : <<g, o>> \notin audit
      BY DEF AuditInv, ThreadInv, Undecided
    <3>2. waiter[g] # "idle" /\ waiter[g] # "approved"
      BY DEF AuditInv, WaiterInv, Undecided
    <3>3. thread'[g] = "audit"
      BY <1>1 DEF AuditInv, ControlType
    <3> QED
      BY <1>1, <2>1, <3>1, <3>2, <3>3 DEF ThreadInv, WaiterInv
  <2>2. CASE h # g
    <3>1. thread'[h] = thread[h] /\ verdict'[h] = verdict[h]
      BY <1>1, <2>2 DEF AuditInv, ControlType
    <3> QED
      BY <1>1, <3>1 DEF AuditInv, ThreadInv, WaiterInv, Outcome
  <2> QED
    BY <2>1, <2>2
<1> QED
  BY <1>2, <1>3 DEF AuditInv

(* The steps in which a thread asks or hears the user. *)
LEMMA ThreadStep ==
  ASSUME AuditInv, NEW g \in Gate,
         Classify(g) \/ ConnectUi(g) \/ ConnectRefused(g) \/ ReadAnswer(g)
           \/ ReadTimeout(g) \/ StdinLock(g)
  PROVE  AuditInv'
<1>0. thread[g] # "terminal" => stdin # g
  BY GateAssumption DEF AuditInv
<1>1. CASE Classify(g)
  <2>1. thread[g] = "level" /\ UNCHANGED <<waiter, audit, stdin>>
    BY <1>1 DEF Classify, waiterVars, termVars
  <2>2. \/ \E r \in {"auto_denied", "auto_approved"} : Decide(g, r)
        \/ thread' = [thread EXCEPT ![g] = "connect"] /\ verdict' = verdict
    BY <1>1 DEF Classify
  <2> QED
    BY <1>0, <2>1, <2>2, DecideStep, MoveStep DEF Undecided, Reason
<1>2. CASE ConnectUi(g)
  <2>1. /\ thread[g] = "connect" /\ thread' = [thread EXCEPT ![g] = "dialog"]
        /\ UNCHANGED <<waiter, verdict, audit, stdin>>
    BY <1>2 DEF ConnectUi, waiterVars, termVars
  <2> QED
    BY <2>1, MoveStep
<1>3. CASE ConnectRefused(g)
  <2>1. thread[g] = "connect" /\ UNCHANGED <<waiter, audit, stdin>>
    BY <1>3 DEF ConnectRefused, waiterVars
  <2>2. \/ Decide(g, "user_denied")
        \/ thread' = [thread EXCEPT ![g] = "terminal"] /\ verdict' = verdict
    BY <1>3 DEF ConnectRefused
  <2> QED
    BY <1>0, <2>1, <2>2, DecideStep, MoveStep DEF Undecided, Reason
<1>4. CASE ReadAnswer(g) \/ ReadTimeout(g)
  <2>1. thread[g] = "dialog" /\ UNCHANGED <<waiter, audit, stdin>>
    BY <1>4 DEF ReadAnswer, ReadTimeout, waiterVars, termVars
  <2>2. \E r \in {"user_approved", "user_denied", "timeout_deny"} : Decide(g, r)
    BY <1>4 DEF ReadAnswer, ReadTimeout
  <2> QED
    BY <1>0, <2>1, <2>2, DecideStep DEF Undecided, Reason
<1>5. CASE StdinLock(g)
  <2>1. /\ thread[g] = "terminal" /\ stdin' = g
        /\ UNCHANGED <<waiter, thread, verdict, audit>>
    BY <1>5 DEF StdinLock, waiterVars, threadVars
  <2> QED
    BY <2>1 DEF AuditInv, ControlType, ThreadInv, WaiterInv, Outcome, Approving
<1> QED
  BY <1>1, <1>2, <1>3, <1>4, <1>5

(* The user answers on the terminal: the holder of the lock decides. *)
LEMMA LineStep ==
  ASSUME AuditInv, NEW yes \in BOOLEAN, StdinLine(yes)
  PROVE  AuditInv'
<1>1. stdin \in Gate /\ thread[stdin] = "terminal"
  BY DEF StdinLine, AuditInv, ControlType
<1>2. \E r \in {"user_approved", "user_denied"} : Decide(stdin, r)
  BY DEF StdinLine
<1>3. stdin' = NoGate /\ UNCHANGED <<waiter, audit>>
  BY DEF StdinLine, waiterVars
<1> QED
  BY <1>1, <1>2, <1>3, DecideStep DEF Undecided, Reason

(* The thread logs its verdict. *)
LEMMA AuditStep ==
  ASSUME AuditInv, NEW g \in Gate, Audit(g)
  PROVE  AuditInv'
<1>1. /\ thread[g] = "audit"
      /\ audit' = audit \cup {<<g, Outcome(g)>>} \/ (~ LogWritable /\ audit' = audit)
      /\ thread' = [thread EXCEPT ![g] = "respond"]
      /\ UNCHANGED <<waiter, verdict, stdin>>
  BY DEF Audit, waiterVars, termVars
<1>2. Outcome(g) \in {"approved", "denied"} /\ \A h \in Gate : Outcome(h)' = Outcome(h)
  BY <1>1 DEF Outcome, Approving
<1>3. ControlType' /\ (stdin' # NoGate => thread'[stdin'] = "terminal")
  BY <1>1, <1>2 DEF AuditInv, ControlType, Thread
<1>4. ASSUME NEW h \in Gate PROVE ThreadInv(h)' /\ WaiterInv(h)'
  <2>1. CASE h = g
    <3>1. \A o \in {"approved", "denied"} : <<g, o>> \notin audit
      BY <1>1 DEF AuditInv, ThreadInv
    <3>2. waiter[g] # "idle" /\ waiter[g] # "approved"
      BY <1>1 DEF AuditInv, WaiterInv
    <3>3. thread'[g] = "respond"
      BY <1>1 DEF AuditInv, ControlType
    <3>4. \A o \in {"approved", "denied"} : <<g, o>> \in audit' => o = Outcome(g)
      BY <1>1, <3>1
    <3> QED
      BY <1>1, <1>2, <2>1, <3>2, <3>3, <3>4 DEF ThreadInv, WaiterInv
  <2>2. CASE h # g
    <3>1. thread'[h] = thread[h] /\ \A o : <<h, o>> \in audit' <=> <<h, o>> \in audit
      BY <1>1, <2>2 DEF AuditInv, ControlType
    <3> QED
      BY <1>1, <1>2, <3>1 DEF AuditInv, ThreadInv, WaiterInv
  <2> QED
    BY <2>1, <2>2
<1> QED
  BY <1>3, <1>4 DEF AuditInv

(* The thread answers the orchestrator, if it still listens. *)
LEMMA RespondStep ==
  ASSUME AuditInv, NEW g \in Gate, Respond(g)
  PROVE  AuditInv'
<1>1. /\ thread[g] = "respond" /\ thread' = [thread EXCEPT ![g] = "done"]
      /\ UNCHANGED <<verdict, audit, stdin>>
  BY DEF Respond, termVars
<1>2. /\ waiter' \in [Gate -> {"idle", "asking", "approved", "denied", "gave_up"}]
      /\ \A h \in Gate : h # g => waiter'[h] = waiter[h]
      /\ waiter'[g] = "approved" => waiter[g] = "approved" \/ Approving(verdict[g])
      /\ waiter'[g] = "idle" => waiter[g] = "idle"
  BY DEF Respond, AuditInv, ControlType
<1>3. \A h \in Gate : Outcome(h)' = Outcome(h)
  BY <1>1 DEF Outcome, Approving
<1>4. ControlType' /\ (stdin' # NoGate => thread'[stdin'] = "terminal")
  BY <1>1, <1>2 DEF AuditInv, ControlType, Thread
<1>5. ASSUME NEW h \in Gate PROVE ThreadInv(h)' /\ WaiterInv(h)'
  <2>1. CASE h = g
    <3>1. thread'[g] = "done" /\ (LogWritable => <<g, Outcome(g)>> \in audit)
      BY <1>1 DEF AuditInv, ControlType, ThreadInv
    <3>2. ThreadInv(g)'
      BY <1>1, <1>3, <3>1 DEF AuditInv, ThreadInv
    <3>3. waiter[g] # "idle" /\ waiter[g] # "approved"
      BY <1>1 DEF AuditInv, WaiterInv
    <3>4. WaiterInv(g)'
      BY <1>1, <1>2, <3>1, <3>3 DEF WaiterInv, Outcome
    <3> QED
      BY <2>1, <3>2, <3>4
  <2>2. CASE h # g
    <3>1. thread'[h] = thread[h] /\ waiter'[h] = waiter[h]
      BY <1>1, <1>2, <2>2 DEF AuditInv, ControlType
    <3> QED
      BY <1>1, <1>3, <3>1 DEF AuditInv, ThreadInv, WaiterInv
  <2> QED
    BY <2>1, <2>2
<1> QED
  BY <1>4, <1>5 DEF AuditInv

(* The HAL process dies with all its threads. *)
LEMMA DieStep ==
  ASSUME AuditInv, HalDies
  PROVE  AuditInv'
<1>1. /\ thread' = [g \in Gate |-> IF Active(g) THEN "dead" ELSE thread[g]]
      /\ waiter' = [g \in Gate |-> IF Active(g) /\ waiter[g] = "asking" THEN "denied"
                                                                        ELSE waiter[g]]
      /\ stdin' = NoGate /\ UNCHANGED <<verdict, audit>>
  BY DEF HalDies
<1>2. ControlType'
  BY <1>1 DEF AuditInv, ControlType, Thread
<1>3. ASSUME NEW g \in Gate PROVE ThreadInv(g)' /\ WaiterInv(g)'
  BY <1>1 DEF AuditInv, ControlType, ThreadInv, WaiterInv, Outcome, Approving, Active
<1> QED
  BY <1>1, <1>2, <1>3 DEF AuditInv

-----------------------------------------------------------------------------
(* The invariant is inductive. *)
LEMMA AuditInvNext ==
  ASSUME AuditInv, [Next]_vars
  PROVE  AuditInv'
<1>1. ASSUME NEW g \in Gate,
             \/ \E op \in Op, zone \in Zone, agent \in Agent : Ask(g, op, zone, agent)
             \/ GiveUp(g)
      PROVE  AuditInv'
  BY <1>1, WaiterStep
<1>2. ASSUME NEW g \in Gate, DaemonStep(g) PROVE AuditInv'
  BY <1>2, ThreadStep, AuditStep, RespondStep DEF DaemonStep
<1>3. CASE UserStep
  <2>1. ASSUME NEW c \in Choice, Press(c) PROVE AuditInv'
    BY <2>1, FrameStep DEF Press, waiterVars, threadVars, termVars
  <2> QED
    BY <1>3, <2>1, LineStep DEF UserStep
<1>4. CASE WatchStep \/ WatchKilled \/ WatchStarts \/ AcceptError \/ HalStarts
  <2>1. UNCHANGED <<waiter, thread, verdict, audit, stdin>>
    BY <1>4 DEF WatchStep, Accept, Receive, Show, ReadKeyIdle, ReadKey, WatchJoins, WatchGone,
                WatchKilled, WatchStarts, AcceptError, HalStarts, waiterVars, threadVars, termVars
  <2> QED
    BY <2>1, FrameStep
<1>5. CASE HalDies
  BY <1>5, DieStep
<1>6. CASE UNCHANGED vars
  BY <1>6, FrameStep DEF vars, waiterVars, threadVars, termVars
<1> QED
  BY <1>1, <1>2, <1>3, <1>4, <1>5, <1>6 DEF Next

(* What HAL decided and logged stays consistent with what it answered. *)
THEOREM AuditInvariance == Spec => []AuditInv
<1>1. AuditInv /\ [Next]_vars => AuditInv'
  BY AuditInvNext
<1> QED
  BY <1>1, InitAuditInv, PTL DEF Spec

(* As long as audit.log can be written, the orchestrator counts a request   *)
(* as approved only when the log has the approval, and no request is logged *)
(* with both outcomes.                                                      *)
THEOREM ApprovalsAudited ==
  ASSUME LogWritable
  PROVE  Spec => []AuditedFirst
<1>1. AuditInv => AuditedFirst
  BY LogWritable DEF AuditInv, ThreadInv, WaiterInv, AuditedFirst
<1> QED
  BY <1>1, AuditInvariance, PTL

(* No verdict of the daemon, and no denial the orchestrator acted on, is    *)
(* ever revised: late answers and crashes change nothing.                   *)
THEOREM VerdictsFinal == Spec => VerdictFinal
<1> DEFINE Final(g) == /\ verdict[g] # "none" => verdict'[g] = verdict[g]
                       /\ waiter[g] \in {"denied", "gave_up"} => waiter'[g] = waiter[g]
<1>1. ASSUME AuditInv, [Next]_vars, NEW g \in Gate PROVE Final(g)
  <2>0. /\ ControlType /\ ThreadInv(g)
        /\ \A h \in Gate : thread[h] \in Undecided => verdict[h] = "none"
        /\ stdin # NoGate => stdin \in Gate /\ thread[stdin] = "terminal"
    BY <1>1 DEF AuditInv, ControlType, ThreadInv, Undecided
  <2>1. ASSUME NEW h \in Gate, NEW r \in Reason, thread[h] \in Undecided, Decide(h, r),
               waiter' = waiter
        PROVE  Final(g)
    BY <2>0, <2>1 DEF ControlType, Decide
  <2>2. ASSUME NEW h \in Gate,
               \/ \E op \in Op, zone \in Zone, agent \in Agent : Ask(h, op, zone, agent)
               \/ GiveUp(h) \/ Audit(h) \/ Respond(h) \/ StdinLock(h) \/ ConnectUi(h)
        PROVE  Final(g)
    BY <2>0, <2>2 DEF Ask, GiveUp, Audit, Respond, StdinLock, ConnectUi, ControlType,
                      waiterVars, threadVars
  <2>3. ASSUME NEW h \in Gate,
               Classify(h) \/ ConnectRefused(h) \/ ReadAnswer(h) \/ ReadTimeout(h)
        PROVE  Final(g)
    <3>1. /\ thread[h] \in Undecided /\ waiter' = waiter
          /\ verdict' = verdict \/ \E r \in Reason : Decide(h, r)
      BY <2>3 DEF Classify, ConnectRefused, ReadAnswer, ReadTimeout, Undecided, Reason, waiterVars
    <3> QED
      BY <2>1, <3>1
  <2>4. CASE UserStep
    <3>1. waiter' = waiter
      BY <2>4 DEF UserStep, Press, StdinLine, waiterVars
    <3>2. \/ verdict' = verdict
          \/ stdin # NoGate /\ \E r \in Reason : Decide(stdin, r)
      BY <2>4 DEF UserStep, Press, StdinLine, threadVars, Reason
    <3> QED
      BY <2>0, <2>1, <3>1, <3>2 DEF Undecided
  <2>5. CASE WatchStep \/ WatchKilled \/ WatchStarts \/ AcceptError \/ HalStarts
    BY <2>5 DEF WatchStep, Accept, Receive, Show, ReadKeyIdle, ReadKey, WatchJoins, WatchGone,
                WatchKilled, WatchStarts, AcceptError, HalStarts, waiterVars, threadVars
  <2>6. CASE HalDies
    BY <2>0, <2>6 DEF HalDies, ControlType
  <2>7. CASE UNCHANGED vars
    BY <2>7 DEF vars, waiterVars, threadVars
  <2> QED
    BY <1>1, <2>2, <2>3, <2>4, <2>5, <2>6, <2>7 DEF Next, DaemonStep
<1>2. AuditInv /\ [Next]_vars => \A g \in Gate : Final(g)
  BY <1>1
<1> QED
  BY <1>2, AuditInvariance, PTL DEF Spec, VerdictFinal

-----------------------------------------------------------------------------
(* The variables stay within their types.  *)

(* The daemon's threads and the orchestrator's waiters. *)
LEMMA DaemonTypes ==
  ASSUME TypeOK, NEW g \in Gate,
         \/ \E op \in Op, zone \in Zone, agent \in Agent : Ask(g, op, zone, agent)
         \/ GiveUp(g) \/ DaemonStep(g)
  PROVE  TypeOK'
<1>1. CASE \E op \in Op, zone \in Zone, agent \in Agent : Ask(g, op, zone, agent)
  <2>1. \A op \in Op, zone \in Zone, agent \in Agent :
           HalLevelV0(agent, GateAction(op), zone) \in Level
    BY DEF HalLevelV0, Level
  <2> QED
    BY <1>1, <2>1 DEF Ask, TypeOK, threadVars, watchVars, termVars, Thread
<1>2. CASE GiveUp(g) \/ Respond(g)
  <2>1. /\ waiter' \in [Gate -> {"idle", "asking", "approved", "denied", "gave_up"}]
        /\ thread' \in [Gate -> Thread]
    BY <1>2 DEF GiveUp, Respond, TypeOK, threadVars, Thread
  <2>2. UNCHANGED <<level, verdict, hal, stream, watchVars, termVars, audit, consent>>
    BY <1>2 DEF GiveUp, Respond, threadVars
  <2> QED
    BY <2>1, <2>2 DEF TypeOK, watchVars, termVars
<1>3. CASE Classify(g) \/ ReadAnswer(g) \/ ReadTimeout(g)
  <2>1. /\ thread' \in [Gate -> Thread] /\ verdict' \in [Gate -> Reason]
        /\ stream' \in [Gate -> {"none", "open", "yes", "no", "closed"}]
    BY <1>3 DEF Classify, ReadAnswer, ReadTimeout, Decide, TypeOK, Thread, Reason
  <2> QED
    BY <1>3, <2>1 DEF Classify, ReadAnswer, ReadTimeout, TypeOK, waiterVars, watchVars, termVars
<1>4. CASE ConnectUi(g)
  <2>1. backlog' \in Seq(Gate)
    BY <1>4 DEF ConnectUi, TypeOK
  <2> QED
    BY <1>4, <2>1 DEF ConnectUi, TypeOK, waiterVars, termVars, Thread
<1>5. CASE ConnectRefused(g)
  <2>1. prompts' = Append(prompts, g) \/ prompts' = prompts
    BY <1>5 DEF ConnectRefused
  <2>3. prompts' \in Seq(Gate)
    <3>1. prompts \in Seq(Gate)
      BY DEF TypeOK
    <3> QED
      BY <2>1, <3>1
  <2>2. thread' \in [Gate -> Thread] /\ verdict' \in [Gate -> Reason]
    BY <1>5 DEF ConnectRefused, Decide, TypeOK, Thread, Reason
  <2> QED
    BY <1>5, <2>2, <2>3 DEF ConnectRefused, TypeOK, waiterVars, watchVars
<1>6. CASE StdinLock(g)
  BY <1>6 DEF StdinLock, TypeOK, waiterVars, threadVars, watchVars
<1>7. CASE Audit(g)
  BY <1>7 DEF Audit, Outcome, TypeOK, waiterVars, watchVars, termVars, Thread
<1> QED
  BY <1>1, <1>2, <1>3, <1>4, <1>5, <1>6, <1>7 DEF DaemonStep

(* The watch process and the user's keys and lines. *)
LEMMA WatchTypes ==
  ASSUME TypeOK, WatchStep \/ UserStep \/ WatchStarts \/ WatchKilled \/ AcceptError
  PROVE  TypeOK'
<1>1. CASE Accept
  <2>1. channel' \in Seq(Gate) /\ backlog' \in Seq(Gate)
    BY <1>1 DEF Accept, TypeOK
  <2> QED
    BY <1>1, <2>1 DEF Accept, TypeOK, waiterVars, threadVars, termVars
<1>2. CASE Receive
  <2>1. queue' \in Seq(Gate) /\ channel' \in Seq(Gate)
    BY <1>2 DEF Receive, TypeOK
  <2> QED
    BY <1>2, <2>1 DEF Receive, TypeOK, waiterVars, threadVars, termVars
<1>3. CASE Show
  <2>1. shown' \in Gate
    BY <1>3 DEF Show, TypeOK
  <2> QED
    BY <1>3, <2>1 DEF Show, TypeOK, waiterVars, threadVars, termVars
<1>4. CASE ReadKeyIdle
  <2>1. keys' \in Seq([choice : Choice, about : Gate \cup {NoGate}])
    BY <1>4 DEF ReadKeyIdle, TypeOK
  <2> QED
    BY <1>4, <2>1 DEF ReadKeyIdle, TypeOK, waiterVars, threadVars, termVars
<1>5. CASE ReadKey
  <2>0. /\ keys # <<>> /\ keys' = Tail(keys)
        /\ queue # <<>> /\ (queue' = <<>> \/ queue' = Tail(queue))
    BY <1>5 DEF ReadKey
  <2>1. keys' \in Seq([choice : Choice, about : Gate \cup {NoGate}]) /\ queue' \in Seq(Gate)
    <3>1. keys \in Seq([choice : Choice, about : Gate \cup {NoGate}]) /\ queue \in Seq(Gate)
      BY DEF TypeOK
    <3>2. <<>> \in Seq(Gate) /\ Tail(queue) \in Seq(Gate)
      BY <2>0, <3>1
    <3>3. queue' \in Seq(Gate)
      BY <2>0, <3>2, Zenon
    <3>4. keys' \in Seq([choice : Choice, about : Gate \cup {NoGate}])
      BY <2>0, <3>1
    <3> QED
      BY <3>3, <3>4
  <2>2. /\ stream' \in [Gate -> {"none", "open", "yes", "no", "closed"}]
        /\ ui' \in {"off", "on", "quit"}
    BY <1>5 DEF ReadKey, Write, TypeOK
  <2> QED
    BY <1>5, <2>1, <2>2 DEF ReadKey, TypeOK, waiterVars, threadVars, termVars
<1>6. CASE WatchJoins \/ WatchKilled
  <2>1. WatchGone
    BY <1>6 DEF WatchJoins, WatchKilled
  <2>2. stream' \in [Gate -> {"none", "open", "yes", "no", "closed"}]
    BY <2>1 DEF WatchGone, TypeOK
  <2>3. <<>> \in Seq(Gate) /\ <<>> \in Seq([choice : Choice, about : Gate \cup {NoGate}])
    OBVIOUS
  <2> QED
    BY <2>1, <2>2, <2>3 DEF WatchGone, TypeOK, waiterVars, threadVars, termVars
<1>7. CASE WatchStarts \/ AcceptError
  BY <1>7 DEF WatchStarts, AcceptError, TypeOK, waiterVars, threadVars, termVars
<1>8. ASSUME NEW yes \in BOOLEAN, StdinLine(yes) PROVE TypeOK'
  <2>1. prompts' \in Seq(Gate) /\ prompts[Len(prompts)] \in Gate /\ stdin \in Gate
    BY <1>8 DEF StdinLine, TypeOK
  <2>2. /\ thread' \in [Gate -> Thread] /\ verdict' \in [Gate -> Reason]
        /\ consent' \subseteq Gate
    BY <1>8, <2>1 DEF StdinLine, Decide, TypeOK, Thread, Reason
  <2> QED
    BY <1>8, <2>1, <2>2 DEF StdinLine, TypeOK, waiterVars, watchVars
<1>9. ASSUME NEW c \in Choice, Press(c) PROVE TypeOK'
  <2>1. [choice |-> c, about |-> shown] \in [choice : Choice, about : Gate \cup {NoGate}]
    BY DEF TypeOK
  <2>2. keys' \in Seq([choice : Choice, about : Gate \cup {NoGate}])
    BY <1>9, <2>1 DEF Press, TypeOK
  <2>3. consent' \subseteq Gate
    BY <1>9 DEF Press, TypeOK
  <2> QED
    BY <1>9, <2>2, <2>3 DEF Press, TypeOK, waiterVars, threadVars, termVars
<1> QED
  BY <1>1, <1>2, <1>3, <1>4, <1>5, <1>6, <1>7, <1>8, <1>9 DEF WatchStep, UserStep

(* Every variable of the round trip stays within its type: the watch's      *)
(* queues hold requests only, and only a dialog on the screen is consented  *)
(* to.                                                                      *)
THEOREM FlowTypes == Spec => []TypeOK
<1>1. Init => TypeOK
  <2>1. <<>> \in Seq(Gate) /\ <<>> \in Seq([choice : Choice, about : Gate \cup {NoGate}])
    OBVIOUS
  <2> QED
    <3> SUFFICES ASSUME Init PROVE TypeOK
      OBVIOUS
    <3>1. /\ waiter \in [Gate -> {"idle", "asking", "approved", "denied", "gave_up"}]
          /\ level \in [Gate -> Level \cup {"Unknown"}] /\ thread \in [Gate -> Thread]
          /\ verdict \in [Gate -> Reason]
          /\ stream \in [Gate -> {"none", "open", "yes", "no", "closed"}]
      BY DEF Init, Level, Thread, Reason
    <3> QED
      BY <2>1, <3>1 DEF Init, TypeOK
<1>2. ASSUME TypeOK, [Next]_vars PROVE TypeOK'
  <2>1. CASE HalDies
    <3>1. /\ waiter' \in [Gate -> {"idle", "asking", "approved", "denied", "gave_up"}]
          /\ thread' \in [Gate -> Thread] /\ hal' \in BOOLEAN
          /\ stream' \in [Gate -> {"none", "open", "yes", "no", "closed"}]
      BY <1>2, <2>1 DEF HalDies, TypeOK, Thread
    <3>2. prompts' \in Seq(Gate) /\ stdin' \in Gate \cup {NoGate}
      BY <2>1 DEF HalDies
    <3> QED
      BY <1>2, <2>1, <3>1, <3>2 DEF HalDies, TypeOK, watchVars
  <2>2. CASE HalStarts \/ UNCHANGED vars
    BY <1>2, <2>2 DEF HalStarts, TypeOK, vars, waiterVars, threadVars, watchVars, termVars
  <2> QED
    BY <1>2, <2>1, <2>2, DaemonTypes, WatchTypes DEF Next
<1> QED
  BY <1>1, <1>2, PTL DEF Spec

-----------------------------------------------------------------------------
(* The line of dialogs the watch process holds.  Accepting and receiving    *)
(* only move the borders between the backlog, the channel and the queue.    *)

(* The line is a sequence of requests, laid out queue, channel, backlog. *)
LEMMA HeldPlaces ==
  ASSUME TypeOK
  PROVE  /\ Held \in Seq(Gate) /\ Len(Held) = Len(queue) + Len(channel) + Len(backlog)
         /\ \A i \in 1..Len(queue) : Held[i] = queue[i]
         /\ \A i \in 1..Len(channel) : Held[Len(queue) + i] = channel[i]
         /\ \A i \in 1..Len(backlog) : Held[Len(queue) + Len(channel) + i] = backlog[i]
<1>1. queue \in Seq(Gate) /\ channel \in Seq(Gate) /\ backlog \in Seq(Gate)
  BY DEF TypeOK
<1> DEFINE front == queue \o channel
<1>2. /\ front \in Seq(Gate) /\ Len(front) = Len(queue) + Len(channel)
      /\ \A i \in 1..Len(queue) : front[i] = queue[i]
      /\ \A i \in 1..Len(channel) : front[Len(queue) + i] = channel[i]
  BY <1>1, ConcatPlaces
<1> HIDE DEF front
<1>3. /\ front \o backlog \in Seq(Gate)
      /\ Len(front \o backlog) = Len(front) + Len(backlog)
      /\ \A i \in 1..Len(front) : (front \o backlog)[i] = front[i]
      /\ \A i \in 1..Len(backlog) : (front \o backlog)[Len(front) + i] = backlog[i]
  <2>1. front \in Seq(Gate) /\ backlog \in Seq(Gate)
    BY <1>1, <1>2
  <2> QED
    BY ONLY <2>1, ConcatPlaces
<1>4. Held = front \o backlog
  BY DEF Held, front
<1>5. Len(queue) \in Nat /\ Len(channel) \in Nat /\ Len(backlog) \in Nat
  BY <1>1
<1>6. \A i \in 1..Len(channel) : Len(queue) + i \in 1..Len(front)
  BY <1>2, <1>5
<1>7. Held \in Seq(Gate) /\ Len(Held) = Len(queue) + Len(channel) + Len(backlog)
  BY <1>2, <1>3, <1>4
<1>8. \A i \in 1..Len(front) : Held[i] = front[i]
  BY <1>3, <1>4
<1>9. \A i \in 1..Len(queue) : i \in 1..Len(front)
  BY <1>2, <1>5
<1>10. \A i \in 1..Len(backlog) : Held[Len(queue) + Len(channel) + i] = backlog[i]
  BY <1>2, <1>3, <1>4
<1>11. /\ \A i \in 1..Len(queue) : Held[i] = queue[i]
       /\ \A i \in 1..Len(channel) : Held[Len(queue) + i] = channel[i]
  BY <1>2, <1>6, <1>8, <1>9
<1> QED
  BY <1>7, <1>10, <1>11

(* A new connection joins at the end of the line. *)
LEMMA HeldGrows ==
  ASSUME TypeOK, NEW g \in Gate, ConnectUi(g)
  PROVE  Held' = Append(Held, g)
<1>1. queue \in Seq(Gate) /\ channel \in Seq(Gate) /\ backlog \in Seq(Gate)
  BY DEF TypeOK
<1>2. Held' = (queue \o channel) \o Append(backlog, g)
  BY DEF ConnectUi, Held
<1>3. queue \o channel \in Seq(Gate)
  BY <1>1
<1>4. \A front \in Seq(Gate) : front \o Append(backlog, g) = Append(front \o backlog, g)
  BY <1>1
<1> QED
  BY <1>2, <1>3, <1>4 DEF Held

(* The accept thread and the receiving loop leave the line as it is. *)
LEMMA HeldStays ==
  ASSUME TypeOK, Accept \/ Receive
  PROVE  Held' = Held
<1>1. queue \in Seq(Gate) /\ channel \in Seq(Gate) /\ backlog \in Seq(Gate)
  BY DEF TypeOK
<1>2. CASE Accept
  <2>1. Held' = (queue \o Append(channel, Head(backlog))) \o Tail(backlog) /\ backlog # <<>>
    BY <1>2 DEF Accept, Held
  <2>2. \A q, c, b \in Seq(Gate) :
           b # <<>> => (q \o Append(c, Head(b))) \o Tail(b) = (q \o c) \o b
    <3> SUFFICES ASSUME NEW q \in Seq(Gate), NEW c \in Seq(Gate), NEW b \in Seq(Gate), b # <<>>
                 PROVE  (q \o Append(c, Head(b))) \o Tail(b) = (q \o c) \o b
      OBVIOUS
    <3> DEFINE f == q \o c
    <3>1. Head(b) \in Gate /\ Tail(b) \in Seq(Gate) /\ f \in Seq(Gate)
      OBVIOUS
    <3>2. q \o Append(c, Head(b)) = Append(f, Head(b))
      BY <3>1
    <3> HIDE DEF f
    <3>3. Append(f, Head(b)) \o Tail(b) = f \o b
      BY <3>1, ConcatShift
    <3> QED
      BY <3>2, <3>3 DEF f
  <2> QED
    BY <1>1, <2>1, <2>2 DEF Held
<1>3. CASE Receive
  <2>1. Held' = ((queue \o channel) \o <<>>) \o backlog
    BY <1>3 DEF Receive, Held
  <2>2. \A f \in Seq(Gate) : f \o <<>> = f
    OBVIOUS
  <2>3. queue \o channel \in Seq(Gate)
    BY <1>1
  <2> QED
    BY <2>1, <2>2, <2>3 DEF Held
<1> QED
  BY <1>2, <1>3

(* Where a thread is before it has a dialog with the watch. *)
Early == {"none", "level", "connect", "terminal"}

(* A step that leaves the line alone, or empties it, closes streams at most *)
(* and sends no thread of a dialog back. *)
LEMMA DialogFrame ==
  ASSUME DialogInv, Held' = Held,
         ui' = "off" => ui = "off",
         \A g \in Gate : thread[g] \notin Early => thread'[g] \notin Early,
         \A g \in Gate : stream'[g] = "open" => stream[g] = "open",
         TypeOK
  PROVE  DialogInv'
<1>1. \A i \in 1..Len(Held) : Held[i] \in Gate
  BY HeldPlaces
<1> QED
  BY <1>1 DEF DialogInv, Early

(* The daemon's steps other than a new connection. *)
LEMMA DialogDaemon ==
  ASSUME TypeOK, AuditInv, DialogInv, NEW g \in Gate,
         \/ \E op \in Op, zone \in Zone, agent \in Agent : Ask(g, op, zone, agent)
         \/ GiveUp(g) \/ Classify(g) \/ ConnectRefused(g) \/ ReadAnswer(g)
         \/ ReadTimeout(g) \/ StdinLock(g) \/ Audit(g) \/ Respond(g)
  PROVE  DialogInv'
<1>1. UNCHANGED <<queue, channel, backlog, ui>>
  BY DEF Ask, GiveUp, Classify, ConnectRefused, ReadAnswer, ReadTimeout, StdinLock, Audit,
         Respond, watchVars
<1>2. Held' = Held
  BY <1>1 DEF Held
<1>3. \A h \in Gate : stream'[h] = "open" => stream[h] = "open"
  BY DEF Ask, GiveUp, Classify, ConnectRefused, ReadAnswer, ReadTimeout, StdinLock, Audit,
         Respond, TypeOK
<1>4. ASSUME NEW h \in Gate, thread[h] \notin Early PROVE thread'[h] \notin Early
  <2>1. thread' = thread \/ \E p \in Thread : thread' = [thread EXCEPT ![g] = p]
    BY DEF Ask, GiveUp, Classify, ConnectRefused, ReadAnswer, ReadTimeout, StdinLock, Audit,
           Respond, Decide, threadVars, Thread
  <2>2. CASE h # g
    BY <1>4, <2>1, <2>2 DEF TypeOK
  <2>3. CASE h = g /\ \E op \in Op, zone \in Zone, agent \in Agent : Ask(g, op, zone, agent)
    <3>1. waiter[g] = "idle" /\ thread[g] = "none"
      BY <2>3 DEF Ask, AuditInv, WaiterInv
    <3> QED
      BY <1>4, <2>3, <3>1 DEF Early
  <2>4. CASE h = g /\ (Classify(g) \/ ConnectRefused(g))
    BY <1>4, <2>4 DEF Classify, ConnectRefused, Early
  <2>5. CASE h = g /\ (ReadAnswer(g) \/ ReadTimeout(g) \/ Audit(g) \/ Respond(g))
    BY <2>5 DEF ReadAnswer, ReadTimeout, Audit, Respond, Decide, TypeOK, Early
  <2>6. CASE h = g /\ (GiveUp(g) \/ StdinLock(g))
    BY <1>4, <2>6 DEF GiveUp, StdinLock, threadVars
  <2> QED
    BY <2>2, <2>3, <2>4, <2>5, <2>6
<1> QED
  BY <1>1, <1>2, <1>3, <1>4, DialogFrame

(* A new connection: its request is in the line for the first time. *)
LEMMA DialogConnects ==
  ASSUME TypeOK, DialogInv, NEW g \in Gate, ConnectUi(g)
  PROVE  DialogInv'
<1>1. Held \in Seq(Gate) /\ Held' = Append(Held, g)
  BY HeldPlaces, HeldGrows
<1>2. /\ Len(Held') = Len(Held) + 1 /\ Len(Held) \in Nat /\ Held'[Len(Held) + 1] = g
      /\ \A i \in 1..Len(Held) : Held'[i] = Held[i] /\ Held[i] \in Gate
  BY <1>1
<1>3. /\ thread[g] = "connect" /\ thread' = [thread EXCEPT ![g] = "dialog"]
      /\ stream' = [stream EXCEPT ![g] = "open"] /\ ui' = ui /\ ui # "off"
  BY DEF ConnectUi
<1>4. \A i \in 1..Len(Held) : Held[i] # g
  BY <1>3 DEF DialogInv
<1>5. \A i, j \in 1..Len(Held') : Held'[i] = Held'[j] => i = j
  <2>1. \A i \in 1..Len(Held') : i \in 1..Len(Held) \/ i = Len(Held) + 1
    BY <1>2
  <2> QED
    BY <1>2, <1>4, <2>1 DEF DialogInv
<1>6. \A i \in 1..Len(Held') : thread'[Held'[i]] \notin Early
  <2>1. \A i \in 1..Len(Held') : i \in 1..Len(Held) \/ i = Len(Held) + 1
    BY <1>2
  <2>2. \A h \in Gate : thread[h] \notin Early => thread'[h] \notin Early
    BY <1>3 DEF TypeOK, Early
  <2>3. \A i \in 1..Len(Held) : thread[Held[i]] \notin Early
    BY DEF DialogInv, Early
  <2>4. thread'[g] \notin Early
    BY <1>3 DEF TypeOK, Early
  <2> QED
    BY <1>2, <2>1, <2>2, <2>3, <2>4
<1>7. ASSUME NEW h \in Gate, stream'[h] = "open"
      PROVE  \E i \in 1..Len(Held') : Held'[i] = h
  <2>1. CASE h = g
    <3>1. Len(Held) + 1 \in 1..Len(Held')
      BY <1>2
    <3> QED
      BY <1>2, <2>1, <3>1
  <2>2. CASE h # g
    <3>1. stream[h] = "open"
      BY <1>3, <1>7, <2>2 DEF TypeOK
    <3>2. PICK i \in 1..Len(Held) : Held[i] = h
      BY <3>1 DEF DialogInv
    <3>3. i \in 1..Len(Held') /\ Held'[i] = h
      BY <1>2, <3>2
    <3> QED
      BY <3>3
  <2> QED
    BY <2>1, <2>2
<1> QED
  BY <1>3, <1>5, <1>6, <1>7 DEF DialogInv, Early

(* A key: the front leaves the line with its stream answered, or, on        *)
(* [q]uit, the whole queue leaves and what has not been received stays.     *)
LEMMA DialogKey ==
  ASSUME TypeOK, DialogInv, ReadKey
  PROVE  DialogInv'
<1>0. /\ queue \in Seq(Gate) /\ channel \in Seq(Gate) /\ backlog \in Seq(Gate)
      /\ queue # <<>> /\ channel' = channel /\ backlog' = backlog
  BY DEF TypeOK, ReadKey
<1>8. PICK cut \in {1, Len(queue)} :
        /\ Head(keys).choice = "quit" => cut = Len(queue)
        /\ Head(keys).choice # "quit" => cut = 1
  OBVIOUS
<1>1. /\ Held \in Seq(Gate) /\ Len(Held) \in Nat /\ cut \in 1..Len(Held) /\ cut <= Len(queue)
  BY <1>0, <1>8, HeldPlaces
<1>2. /\ Held' \in Seq(Gate) /\ Len(Held') = Len(Held) - cut
      /\ \A i \in 1..Len(Held') : Held'[i] = Held[i + cut]
  <2>1. CASE Head(keys).choice = "quit"
    <3>1. queue' = <<>>
      BY <2>1 DEF ReadKey
    <3>2. Held' = (<<>> \o channel) \o backlog
      BY <1>0, <3>1 DEF Held
    <3>3. <<>> \o channel = channel
      BY <1>0
    <3>4. Held' = channel \o backlog
      BY <3>2, <3>3
    <3>5. /\ Held' \in Seq(Gate) /\ Len(Held') = Len(channel) + Len(backlog)
          /\ \A i \in 1..Len(channel) : Held'[i] = channel[i]
          /\ \A i \in 1..Len(backlog) : Held'[Len(channel) + i] = backlog[i]
      BY <1>0, <3>4, ConcatPlaces
    <3>6. cut = Len(queue)
      BY <1>8, <2>1
    <3>7. Len(queue) \in Nat /\ Len(channel) \in Nat /\ Len(backlog) \in Nat
      BY <1>0
    <3>8. ASSUME NEW i \in 1..Len(Held') PROVE Held'[i] = Held[i + cut]
      <4>1. CASE i <= Len(channel)
        <5>1. i \in 1..Len(channel) /\ i + cut = Len(queue) + i
          BY <3>5, <3>6, <3>7, <4>1
        <5> QED
          BY <3>5, <5>1, HeldPlaces
      <4>2. CASE i > Len(channel)
        <5>1. /\ i - Len(channel) \in 1..Len(backlog)
              /\ Len(channel) + (i - Len(channel)) = i
              /\ Len(queue) + Len(channel) + (i - Len(channel)) = i + cut
          BY <3>5, <3>6, <3>7, <4>2
        <5>2. /\ Held'[Len(channel) + (i - Len(channel))] = backlog[i - Len(channel)]
              /\ Held[Len(queue) + Len(channel) + (i - Len(channel))] = backlog[i - Len(channel)]
          BY <3>5, <5>1, HeldPlaces
        <5> QED
          BY <5>1, <5>2
      <4> QED
        BY <3>5, <3>7, <4>1, <4>2
    <3> QED
      BY <3>5, <3>6, <3>7, <3>8, HeldPlaces
  <2>2. CASE Head(keys).choice # "quit"
    <3>1. Held' = (Tail(queue) \o channel) \o backlog /\ cut = 1
      BY <1>0, <1>8, <2>2 DEF ReadKey, Held
    <3>2. Tail(queue) \o channel = Tail(queue \o channel)
      BY <1>0, ConcatTail
    <3>3. queue \o channel # <<>> /\ queue \o channel \in Seq(Gate)
      BY <1>0, ConcatTail
    <3>4. Tail(queue \o channel) \o backlog = Tail((queue \o channel) \o backlog)
      BY <1>0, <3>3, ConcatTail
    <3>5. Held' = Tail(Held)
      BY <3>1, <3>2, <3>4 DEF Held
    <3>6. Held # <<>>
      BY <1>1
    <3>7. \A t \in Seq(Gate) : t # <<>> =>
             /\ Tail(t) \in Seq(Gate) /\ Len(Tail(t)) = Len(t) - 1
             /\ \A i \in 1..Len(Tail(t)) : Tail(t)[i] = t[i + 1]
      OBVIOUS
    <3>8. /\ Held' \in Seq(Gate) /\ Len(Held') = Len(Held) - 1
          /\ \A i \in 1..Len(Held') : Held'[i] = Held[i + 1]
      BY <1>1, <3>5, <3>6, <3>7
    <3> QED
      BY <3>1, <3>8
  <2> QED
    BY <2>1, <2>2
<1>3. /\ \A g \in Gate : stream'[g] = "open" => stream[g] = "open"
      /\ \A i \in 1..cut : stream'[Held[i]] # "open"
  <2>1. \A i \in 1..cut : i \in 1..Len(queue) /\ Held[i] = queue[i] /\ queue[i] \in Gate
    BY <1>0, <1>1, HeldPlaces
  <2>2. CASE Head(keys).choice = "quit"
    <3>1. stream' = [g \in Gate |-> IF g \in Elements(queue) /\ stream[g] = "open" THEN "no"
                                                                        ELSE stream[g]]
      BY <2>2 DEF ReadKey, Write
    <3> QED
      BY <2>1, <3>1 DEF Elements
  <2>3. CASE Head(keys).choice # "quit"
    <3>1. PICK a \in {"yes", "no"} :
            stream' = [g \in Gate |-> IF g = Head(queue) /\ stream[g] = "open" THEN a
                                                                        ELSE stream[g]]
      BY <2>3 DEF ReadKey, Write
    <3>2. cut = 1 /\ Head(queue) = queue[1]
      BY <1>0, <1>8, <2>3
    <3> QED
      BY <2>1, <3>1, <3>2
  <2> QED
    BY <2>2, <2>3
<1>4. thread' = thread /\ ui' # "off"
  BY DEF ReadKey, threadVars
<1>5. \A i \in 1..Len(Held') : i + cut \in 1..Len(Held)
  BY <1>1, <1>2
<1>6. ASSUME NEW g \in Gate, stream'[g] = "open"
      PROVE  \E i \in 1..Len(Held') : Held'[i] = g
  <2>1. PICK k \in 1..Len(Held) : Held[k] = g
    BY <1>3, <1>6 DEF DialogInv
  <2>2. k > cut
    BY <1>1, <1>3, <1>6, <2>1
  <2>3. k - cut \in 1..Len(Held') /\ (k - cut) + cut = k
    BY <1>1, <1>2, <2>1, <2>2
  <2> QED
    BY <1>2, <2>1, <2>3
<1>7. \A i, j \in 1..Len(Held') : Held'[i] = Held'[j] => i = j
  <2>1. \A i, j \in 1..Len(Held') : i + cut = j + cut => i = j
    BY <1>1
  <2> QED
    BY <1>2, <1>5, <2>1 DEF DialogInv
<1> QED
  BY <1>2, <1>4, <1>5, <1>6, <1>7 DEF DialogInv

(* The invariant of the line is inductive, with the types and AuditInv. *)
LEMMA DialogInvNext ==
  ASSUME TypeOK, AuditInv, DialogInv, [Next]_vars
  PROVE  DialogInv'
<1>1. ASSUME NEW g \in Gate,
             \/ \E op \in Op, zone \in Zone, agent \in Agent : Ask(g, op, zone, agent)
             \/ GiveUp(g) \/ DaemonStep(g)
      PROVE  DialogInv'
  BY <1>1, DialogDaemon, DialogConnects DEF DaemonStep
<1>2. CASE Accept \/ Receive
  <2>1. UNCHANGED <<thread, stream, ui>>
    BY <1>2 DEF Accept, Receive, threadVars
  <2> QED
    BY <1>2, <2>1, HeldStays, DialogFrame
<1>3. CASE UserStep
  <2>1. UNCHANGED <<queue, channel, backlog, stream, ui>>
    BY <1>3 DEF UserStep, Press, StdinLine, watchVars
  <2>2. ASSUME NEW h \in Gate, thread[h] \notin Early PROVE thread'[h] \notin Early
    <3>1. ASSUME NEW yes \in BOOLEAN, StdinLine(yes) PROVE thread'[h] \notin Early
      <4>1. stdin # h /\ stdin \in Gate
        BY <2>2, <3>1 DEF StdinLine, AuditInv, Early, TypeOK
      <4>2. thread' = [thread EXCEPT ![stdin] = "audit"]
        BY <3>1 DEF StdinLine, Decide
      <4> QED
        BY <2>2, <4>1, <4>2 DEF TypeOK
    <3> QED
      BY <1>3, <2>2, <3>1 DEF UserStep, Press, threadVars
  <2>3. Held' = Held
    BY <2>1 DEF Held
  <2> QED
    BY <2>1, <2>2, <2>3, DialogFrame
<1>4. CASE Show \/ ReadKeyIdle \/ WatchStarts \/ AcceptError \/ HalStarts \/ UNCHANGED vars
  <2>1. UNCHANGED <<queue, channel, backlog, stream, thread>> /\ (ui' = "off" => ui = "off")
    BY <1>4 DEF Show, ReadKeyIdle, WatchStarts, AcceptError, HalStarts, vars, threadVars, watchVars
  <2>2. Held' = Held
    BY <2>1 DEF Held
  <2> QED
    BY <2>1, <2>2, DialogFrame
<1>5. CASE HalDies
  <2>1. UNCHANGED <<queue, channel, backlog, ui>>
    BY <1>5 DEF HalDies, watchVars
  <2>2. Held' = Held
    BY <2>1 DEF Held
  <2>3. /\ \A h \in Gate : thread[h] \notin Early => thread'[h] \notin Early
        /\ \A h \in Gate : stream'[h] = "open" => stream[h] = "open"
    BY <1>5 DEF HalDies, Early, Active
  <2> QED
    BY <2>1, <2>2, <2>3, DialogFrame
<1>6. CASE WatchJoins \/ WatchKilled
  <2>1. /\ Held' = (<<>> \o <<>>) \o <<>>
        /\ \A h \in Gate : stream'[h] # "open"
    BY <1>6 DEF WatchJoins, WatchKilled, WatchGone, Held
  <2>2. (<<>> \o <<>>) \o <<>> = <<>>
    OBVIOUS
  <2>3. Held' = <<>> /\ Len(Held') = 0
    BY <2>1, <2>2
  <2> QED
    BY <2>1, <2>3 DEF DialogInv
<1> QED
  BY <1>1, <1>2, <1>3, <1>4, <1>5, <1>6, DialogKey DEF Next, WatchStep

(* The watch holds every dialog of a waiting daemon thread once. *)
THEOREM DialogInvariance == Spec => []DialogInv
<1>1. Init => DialogInv
  <2> SUFFICES ASSUME Init PROVE DialogInv
    OBVIOUS
  <2>1. Held = (<<>> \o <<>>) \o <<>>
    BY DEF Init, Held
  <2>2. (<<>> \o <<>>) \o <<>> = <<>>
    OBVIOUS
  <2>3. Held = <<>> /\ Len(Held) = 0
    BY <2>1, <2>2
  <2> QED
    BY <2>3 DEF Init, DialogInv
<1>2. TypeOK /\ AuditInv /\ DialogInv /\ [Next]_vars => DialogInv'
  BY DialogInvNext
<1> QED
  BY <1>1, <1>2, FlowTypes, AuditInvariance, PTL DEF Spec

(* For any number of requests, a daemon thread that waits on the UI socket  *)
(* is in exactly one of the backlog, the channel and the queue of the watch *)
(* process: no dialog is lost or doubled while it is accepted, received,    *)
(* shown or answered, nor by [q]uit.                                        *)
THEOREM DialogsHeld == Spec => []DialogHeld
<1>1. ASSUME TypeOK, DialogInv PROVE DialogHeld
  <2> DEFINE At(s) == CASE s = "backlog" -> backlog [] s = "channel" -> channel
                         [] OTHER -> queue
             Where(g) == {s \in {"backlog", "channel", "queue"} : g \in Elements(At(s))}
  <2> SUFFICES ASSUME NEW g \in Gate, stream[g] = "open" PROVE Cardinality(Where(g)) = 1
    BY DEF DialogHeld
  <2>1. Len(queue) \in Nat /\ Len(channel) \in Nat /\ Len(backlog) \in Nat
    BY <1>1 DEF TypeOK
  <2>2. PICK k \in 1..Len(Held) : Held[k] = g
    BY <1>1 DEF DialogInv
  <2>3. \A i \in 1..Len(Held) : Held[i] = g => i = k
    BY <1>1, <2>2 DEF DialogInv
  <2>4. /\ \A i \in 1..Len(queue) : queue[i] = g => i = k
        /\ \A i \in 1..Len(channel) : channel[i] = g => Len(queue) + i = k
        /\ \A i \in 1..Len(backlog) : backlog[i] = g => Len(queue) + Len(channel) + i = k
    <3>1. /\ \A i \in 1..Len(queue) : i \in 1..Len(Held)
          /\ \A i \in 1..Len(channel) : Len(queue) + i \in 1..Len(Held)
          /\ \A i \in 1..Len(backlog) : Len(queue) + Len(channel) + i \in 1..Len(Held)
      BY <1>1, <2>1, HeldPlaces
    <3> QED
      BY <1>1, <2>3, <3>1, HeldPlaces
  <2>5. PICK s \in {"backlog", "channel", "queue"} : Where(g) = {s}
    <3>1. CASE k <= Len(queue)
      <4>1. k \in 1..Len(queue) /\ queue[k] = g
        BY <1>1, <2>1, <2>2, <3>1, HeldPlaces
      <4>2. g \in Elements(queue) /\ g \notin Elements(channel) /\ g \notin Elements(backlog)
        BY <2>1, <2>4, <4>1 DEF Elements
      <4> QED
        BY <4>2
    <3>2. CASE k > Len(queue) /\ k <= Len(queue) + Len(channel)
      <4>1. k - Len(queue) \in 1..Len(channel) /\ Len(queue) + (k - Len(queue)) = k
        BY <2>1, <3>2
      <4>2. channel[k - Len(queue)] = g
        BY <1>1, <2>2, <4>1, HeldPlaces
      <4>3. g \notin Elements(queue) /\ g \in Elements(channel) /\ g \notin Elements(backlog)
        BY <2>1, <2>4, <3>2, <4>1, <4>2 DEF Elements
      <4> QED
        BY <4>3
    <3>3. CASE k > Len(queue) + Len(channel)
      <4> DEFINE j == k - (Len(queue) + Len(channel))
      <4>1. j \in 1..Len(backlog) /\ Len(queue) + Len(channel) + j = k
        BY <1>1, <2>1, <3>3, HeldPlaces
      <4>2. backlog[j] = g
        BY <1>1, <2>2, <4>1, HeldPlaces
      <4>3. g \notin Elements(queue) /\ g \notin Elements(channel) /\ g \in Elements(backlog)
        BY <2>1, <2>4, <3>3, <4>1, <4>2 DEF Elements
      <4> QED
        BY <4>3
    <3>4. k <= Len(queue) \/ k > Len(queue) + Len(channel)
            \/ (k > Len(queue) /\ k <= Len(queue) + Len(channel))
      BY <2>1
    <3> HIDE DEF Where
    <3> QED
      BY <3>1, <3>2, <3>3, <3>4, Zenon
  <2> QED
    BY <2>5, FS_Singleton
<1> QED
  BY <1>1, FlowTypes, DialogInvariance, PTL

-----------------------------------------------------------------------------
(* Consent.  PolicyHalGate asks for an approval only where a path is on the *)
(* dangerous list; unless $HOME itself is, such a path is outside of it and *)
(* approval_flow grades it Block (or Confirm), never Silent or Notify.      *)
LEMMA AskedIsGraded ==
  ASSUME ~ HomeDangerous, NEW op \in Op, NEW zone \in Zone, NEW agent \in Agent,
         GateStatus(op, zone) = "approval_required", KnownAgent(agent)
  PROVE  HalLevelV0(agent, GateAction(op), zone) \notin {"Silent", "Notify"}
<1>1. ASSUME ~ DangerousPath(zone) PROVE Score(op, zone) \in Int /\ Score(op, zone) < 60
  <2> DEFINE raw == (IF IsDelete(op) THEN 25 ELSE 0) + (IF DangerousPath(zone) THEN 20 ELSE 0) - 15
             floors == {0} \cup (IF IsDelete(op) THEN {50} ELSE {})
                           \cup (IF DangerousPath(zone) THEN {70} ELSE {})
             F == floors \cup {raw}
  <2>1. Score(op, zone) = CHOOSE s \in F : \A x \in F : x <= s
    BY DEF Score
  <2>2. F = IF IsDelete(op) THEN {0, 50, 10} ELSE {0, 0 - 15}
    BY <1>1
  <2>3. \E s \in F : \A x \in F : x <= s
    BY <2>2
  <2>4. Score(op, zone) \in F
    <3> HIDE DEF F
    <3> QED
      BY <2>1, <2>3
  <2> QED
    BY <2>2, <2>4
<1>2. DangerousPath(zone)
  <2> SUFFICES ASSUME ~ DangerousPath(zone) PROVE FALSE
    OBVIOUS
  <2>1. Band(Score(op, zone)) \in {"Silent", "Notify"}
    BY <1>1 DEF Band
  <2> QED
    BY <2>1 DEF GateStatus
<1>3. zone = "system"
  BY <1>2 DEF DangerousPath
<1> QED
  BY <1>3 DEF HalLevelV0, OutsideUserHome

(* The banner, the queue and the unread key stay consistent. *)
LEMMA ScreenStep ==
  ASSUME TypeOK, ConsentInv, Len(keys) <= 1, Len(keys') <= 1, [Next]_vars
  PROVE  ScreenInv'
<1>0. /\ queue \in Seq(Gate) /\ channel \in Seq(Gate) /\ Len(keys) \in Nat
      /\ keys \in Seq([choice : Choice, about : Gate \cup {NoGate}])
      /\ consent \subseteq Gate /\ NoGate \notin consent
  BY GateAssumption DEF TypeOK
<1>1. ASSUME UNCHANGED <<queue, shown, keys, consent>> PROVE ScreenInv'
  BY <1>1 DEF ConsentInv, ScreenInv
<1>2. ASSUME NEW g \in Gate,
             \/ \E op \in Op, zone \in Zone, agent \in Agent : Ask(g, op, zone, agent)
             \/ GiveUp(g) \/ DaemonStep(g)
      PROVE  ScreenInv'
  <2>1. UNCHANGED <<queue, shown, keys, consent>>
    BY <1>2 DEF DaemonStep, Ask, GiveUp, Classify, ConnectUi, ConnectRefused, ReadAnswer,
                ReadTimeout, StdinLock, Audit, Respond, watchVars
  <2> QED
    BY <1>1, <2>1
<1>3. CASE \/ Accept \/ WatchStarts \/ AcceptError \/ HalDies \/ HalStarts \/ UNCHANGED vars
  <2>1. UNCHANGED <<queue, shown, keys, consent>>
    BY <1>3 DEF Accept, WatchStarts, AcceptError, HalDies, HalStarts, vars, watchVars
  <2> QED
    BY <1>1, <2>1
<1>4. CASE Receive
  <2>1. queue # <<>> => queue \o channel # <<>> /\ Head(queue \o channel) = Head(queue)
    BY <1>0, ConcatTail
  <2> QED
    BY <1>4, <2>1 DEF Receive, ConsentInv, ScreenInv
<1>5. CASE Show
  <2>1. shown = NoGate
    BY <1>5 DEF Show, ConsentInv, ScreenInv
  <2>2. \A i \in 1..Len(keys) : keys[i].choice # "allow"
    BY <1>0, <2>1 DEF ConsentInv, ScreenInv
  <2> QED
    BY <1>5, <2>2 DEF Show, ConsentInv, ScreenInv
<1>6. CASE ReadKeyIdle \/ ReadKey
  <2>1. keys # <<>> /\ keys' = Tail(keys)
    BY <1>6 DEF ReadKeyIdle, ReadKey
  <2>2. Len(keys') = Len(keys) - 1
    BY <1>0, <2>1
  <2>3. Len(keys') <= 0
    BY <1>0, <2>2 DEF ConsentInv, ScreenInv
  <2>4. shown' = NoGate
    BY <1>6 DEF ReadKeyIdle, ReadKey, ConsentInv, ScreenInv
  <2> QED
    BY <1>0, <2>2, <2>3, <2>4 DEF ScreenInv
<1>7. CASE WatchJoins \/ WatchKilled
  <2>1. shown' = NoGate /\ Len(keys') = 0
    BY <1>7 DEF WatchJoins, WatchKilled, WatchGone
  <2> QED
    BY <2>1 DEF ScreenInv
<1>8. ASSUME NEW yes \in BOOLEAN, StdinLine(yes) PROVE ScreenInv'
  <2>1. UNCHANGED <<queue, shown, keys>> /\ consent \subseteq consent'
    BY <1>8 DEF StdinLine, watchVars
  <2> QED
    BY <2>1 DEF ConsentInv, ScreenInv
<1>9. ASSUME NEW c \in Choice, Press(c) PROVE ScreenInv'
  <2>1. Len(keys) = 0
    BY <1>0, <1>9 DEF Press
  <2>2. keys = <<>>
    BY <1>0, <2>1
  <2>3. keys' = <<[choice |-> c, about |-> shown]>>
    BY <1>9, <2>2 DEF Press
  <2>4. Len(keys') = 1 /\ keys'[1].choice = c
    BY <2>3
  <2>5. c = "allow" => shown \in consent'
    BY <1>9 DEF Press
  <2> QED
    BY <1>9, <2>4, <2>5 DEF Press, ConsentInv, ScreenInv
<1> QED
  BY <1>2, <1>3, <1>4, <1>5, <1>6, <1>7, <1>8, <1>9 DEF Next, WatchStep, UserStep

(* The daemon approves what the user allowed; without a dialog, only what   *)
(* its own grading or its terminal lets through.                            *)
LEMMA ConsentDaemon ==
  ASSUME TypeOK, AuditInv, \A h \in Gate : Consented(h), NEW g \in Gate,
         \/ \E op \in Op, zone \in Zone, agent \in Agent : Ask(g, op, zone, agent)
         \/ GiveUp(g) \/ DaemonStep(g)
  PROVE  \A h \in Gate : Consented(h)'
<1>0. \A h \in Gate : ThreadInv(h) /\ WaiterInv(h)
  BY DEF AuditInv
<1>2. CASE \E op \in Op, zone \in Zone, agent \in Agent : Ask(g, op, zone, agent)
  <2>1. PICK l \in Level \cup {"Unknown"}, w \in {"asking", "denied"}, t \in {"level", "none"} :
          /\ HomeDangerous \/ l \notin {"Silent", "Notify"}
          /\ level' = [level EXCEPT ![g] = l]
          /\ waiter' = [waiter EXCEPT ![g] = w] /\ thread' = [thread EXCEPT ![g] = t]
          /\ UNCHANGED <<verdict, stream, consent>>
    <3>1. PICK op \in Op, zone \in Zone, agent \in Agent : Ask(g, op, zone, agent)
      BY <1>2
    <3> DEFINE l == IF KnownAgent(agent) THEN HalLevelV0(agent, GateAction(op), zone)
                                         ELSE "Unknown"
    <3>2. l \in Level \cup {"Unknown"} /\ (HomeDangerous \/ l \notin {"Silent", "Notify"})
      BY <3>1, AskedIsGraded DEF Ask, HalLevelV0, Level
    <3>3. level' = [level EXCEPT ![g] = l]
      BY <3>1 DEF Ask
    <3> HIDE DEF l
    <3> QED
      BY <3>1, <3>2, <3>3 DEF Ask, termVars
  <2>2. waiter[g] = "idle" /\ thread[g] = "none"
    BY <1>0, <1>2 DEF Ask, WaiterInv
  <2> QED
    BY <2>1, <2>2 DEF Consented, Unseen, TypeOK, Approving
<1>3. CASE GiveUp(g)
  BY <1>3 DEF GiveUp, Consented, Unseen, TypeOK, Approving, threadVars, termVars
<1>4. ASSUME NEW r \in Reason, Decide(g, r), thread[g] \in Undecided,
             Approving(r) => \/ g \in consent
                             \/ HomeDangerous /\ r = "auto_approved" /\ stream'[g] = "none",
             stream'[g] \in {stream[g], "closed"}, \A h \in Gate \ {g} : stream'[h] = stream[h],
             UNCHANGED <<waiter, level, consent>>
      PROVE  \A h \in Gate : Consented(h)'
  <2>1. verdict[g] = "none" /\ waiter[g] # "approved"
    BY <1>0, <1>4 DEF Undecided, ThreadInv, WaiterInv
  <2>2. verdict'[g] = r /\ thread'[g] = "audit"
    BY <1>4 DEF Decide, TypeOK
  <2>3. Consented(g)'
    BY <1>4, <2>1, <2>2 DEF Consented, Unseen
  <2>4. ASSUME NEW h \in Gate \ {g} PROVE Consented(h)'
    <3>1. verdict'[h] = verdict[h] /\ thread'[h] = thread[h] /\ stream'[h] = stream[h]
      BY <1>4 DEF Decide, TypeOK
    <3> QED
      BY <1>4, <3>1 DEF Consented, Unseen, Approving
  <2> QED
    BY <2>3, <2>4
<1>5. CASE Classify(g)
  <2>1. UNCHANGED <<waiter, level, stream, consent>> /\ thread[g] = "level"
    BY <1>5 DEF Classify, waiterVars, termVars
  <2>2. stream[g] = "none" /\ verdict[g] = "none"
    BY <1>0, <2>1 DEF Consented, ThreadInv
  <2>3. CASE Decide(g, "auto_denied")
    BY <1>4, <2>1, <2>3 DEF Reason, Approving, Undecided
  <2>4. CASE level[g] \in {"Silent", "Notify"} /\ Decide(g, "auto_approved")
    <3>1. HomeDangerous
      BY <2>4 DEF Consented
    <3> QED
      BY <1>4, <2>1, <2>2, <2>4, <3>1 DEF Reason, Undecided
  <2>5. CASE thread' = [thread EXCEPT ![g] = "connect"] /\ verdict' = verdict
    BY <2>1, <2>2, <2>5 DEF Consented, Unseen, TypeOK, Approving
  <2> QED
    BY <1>5, <2>3, <2>4, <2>5 DEF Classify
<1>6. CASE ConnectUi(g)
  <2>1. verdict[g] = "none"
    BY <1>0, <1>6 DEF ConnectUi, ThreadInv
  <2> QED
    BY <1>6, <2>1 DEF ConnectUi, Consented, Unseen, TypeOK, Approving, waiterVars, termVars
<1>7. CASE ConnectRefused(g)
  <2>1. UNCHANGED <<waiter, level, stream, consent>> /\ thread[g] = "connect"
    BY <1>7 DEF ConnectRefused, waiterVars
  <2>2. CASE Decide(g, "user_denied")
    BY <1>4, <2>1, <2>2 DEF Reason, Approving, Undecided
  <2>3. CASE Terminal /\ thread' = [thread EXCEPT ![g] = "terminal"] /\ verdict' = verdict
    BY <2>1, <2>3 DEF Consented, Unseen, TypeOK, Approving
  <2> QED
    BY <1>7, <2>2, <2>3 DEF ConnectRefused
<1>8. CASE ReadAnswer(g) \/ ReadTimeout(g)
  <2>1. /\ stream' = [stream EXCEPT ![g] = "closed"] /\ thread[g] = "dialog"
        /\ UNCHANGED <<waiter, level, consent>>
    BY <1>8 DEF ReadAnswer, ReadTimeout, waiterVars, termVars
  <2>2. PICK r \in {"user_denied", "timeout_deny"} \cup
                   (IF stream[g] = "yes" THEN {"user_approved"} ELSE {}) : Decide(g, r)
    BY <1>8 DEF ReadAnswer, ReadTimeout
  <2>3. Approving(r) => g \in consent
    BY <2>2 DEF Approving, Consented
  <2> QED
    BY <1>4, <2>1, <2>2, <2>3 DEF Reason, Undecided, TypeOK
<1>9. CASE StdinLock(g)
  BY <1>9 DEF StdinLock, Consented, Unseen, waiterVars, threadVars
<1>10. CASE Audit(g) \/ Respond(g)
  <2>1. PICK t \in {"respond", "done"} : thread' = [thread EXCEPT ![g] = t]
    BY <1>10 DEF Audit, Respond
  <2>2. UNCHANGED <<level, verdict, stream, consent>>
    BY <1>10 DEF Audit, Respond, waiterVars, termVars
  <2>3. \A h \in Gate : waiter'[h] = "approved" => waiter[h] = "approved" \/ Approving(verdict[h])
    BY <1>10 DEF Audit, Respond, waiterVars, TypeOK
  <2> QED
    BY <2>1, <2>2, <2>3 DEF Consented, Unseen, TypeOK, Approving
<1> QED
  BY <1>2, <1>3, <1>5, <1>6, <1>7, <1>8, <1>9, <1>10 DEF DaemonStep

(* A key answers the dialog it was typed for. *)
LEMMA ConsentKey ==
  ASSUME TypeOK, ConsentInv, ReadKey
  PROVE  \A h \in Gate : stream'[h] = "yes" => h \in consent
<1>0. /\ \A h \in Gate : stream[h] = "yes" => h \in consent
      /\ keys \in Seq([choice : Choice, about : Gate \cup {NoGate}]) /\ keys # <<>>
  BY DEF ConsentInv, Consented, ReadKey, TypeOK
<1>1. CASE Head(keys).choice = "quit"
  BY <1>0, <1>1 DEF ReadKey, Write
<1>2. CASE Head(keys).choice # "quit"
  <2>1. stream' = [h \in Gate |->
           IF h \in {Head(queue)} /\ stream[h] = "open"
             THEN (IF Head(keys).choice = "allow" THEN "yes" ELSE "no") ELSE stream[h]]
    BY <1>2 DEF ReadKey, Write
  <2>2. Head(keys).choice = "allow" => Head(queue) \in consent
    <3>1. 1 \in 1..Len(keys) /\ Head(keys) = keys[1] /\ shown = Head(queue)
      BY <1>0 DEF ReadKey
    <3> QED
      BY <3>1 DEF ConsentInv, ScreenInv
  <2> QED
    BY <1>0, <2>1, <2>2
<1> QED
  BY <1>1, <1>2

(* A line of the terminal answers the thread that holds the lock. *)
LEMMA ConsentLine ==
  ASSUME TypeOK, AuditInv, \A h \in Gate : Consented(h), NEW yes \in BOOLEAN, StdinLine(yes)
  PROVE  \A h \in Gate : Consented(h)'
<1> PICK g \in Gate : g = stdin
  BY DEF StdinLine, TypeOK
<1>1. thread[g] = "terminal" /\ verdict[g] = "none"
  BY DEF StdinLine, AuditInv, ThreadInv
<1>2. stream[g] = "none" /\ Terminal /\ waiter[g] # "approved"
  BY <1>1 DEF Consented, AuditInv, WaiterInv
<1>3. PICK r \in {"user_approved", "user_denied"} :
        /\ verdict' = [verdict EXCEPT ![g] = r]
        /\ thread' = [thread EXCEPT ![g] = "audit"]
  BY DEF StdinLine, Decide
<1>4. UNCHANGED <<waiter, level, stream>> /\ consent \subseteq consent'
  BY DEF StdinLine, waiterVars
<1>5. Consented(g)'
  <2>1. verdict'[g] = r /\ thread'[g] = "audit"
    BY <1>1, <1>3 DEF TypeOK
  <2> QED
    BY <1>1, <1>2, <1>4, <2>1 DEF Consented, Unseen, Approving
<1>6. ASSUME NEW h \in Gate, h # g PROVE Consented(h)'
  <2>1. verdict'[h] = verdict[h] /\ thread'[h] = thread[h]
    BY <1>3, <1>6 DEF TypeOK
  <2> QED
    BY <1>4, <2>1 DEF Consented, Unseen, Approving
<1> QED
  BY <1>5, <1>6

(* Consent is kept by every step between states with at most one key       *)
(* unread.                                                                  *)
LEMMA ConsentInvNext ==
  ASSUME TypeOK, AuditInv, ConsentInv, Len(keys) <= 1, Len(keys') <= 1, [Next]_vars
  PROVE  ConsentInv'
<1> SUFFICES \A h \in Gate : Consented(h)'
  BY ScreenStep DEF ConsentInv
<1>0. \A h \in Gate : Consented(h)
  BY DEF ConsentInv
<1>1. ASSUME UNCHANGED <<level, thread, verdict, waiter>>, consent \subseteq consent',
             \A h \in Gate : /\ stream'[h] = "yes" => h \in consent
                             /\ stream[h] = "none" => stream'[h] = "none"
      PROVE  \A h \in Gate : Consented(h)'
  BY <1>0, <1>1 DEF Consented, Unseen, Approving
<1>2. \A h \in Gate : stream[h] = "yes" => h \in consent
  BY <1>0 DEF Consented
<1>3. CASE \/ Accept \/ Receive \/ Show \/ ReadKeyIdle \/ WatchStarts \/ AcceptError \/ HalStarts
           \/ UNCHANGED vars \/ \E c \in Choice : Press(c)
  <2>1. /\ UNCHANGED <<level, thread, verdict, waiter, stream>>
        /\ consent \subseteq consent'
    BY <1>3 DEF Accept, Receive, Show, ReadKeyIdle, WatchStarts, AcceptError, HalStarts, vars,
                Press, waiterVars, threadVars, termVars
  <2> QED
    BY <1>1, <1>2, <2>1
<1>4. CASE WatchJoins \/ WatchKilled
  <2>1. /\ UNCHANGED <<level, thread, verdict, waiter, consent>>
        /\ stream' = [h \in Gate |-> IF stream[h] = "open" THEN "closed" ELSE stream[h]]
    BY <1>4 DEF WatchJoins, WatchKilled, WatchGone, waiterVars, threadVars, termVars
  <2> QED
    BY <1>1, <1>2, <2>1
<1>5. CASE ReadKey
  <2>1. UNCHANGED <<level, thread, verdict, waiter, consent>>
    BY <1>5 DEF ReadKey, waiterVars, threadVars, termVars
  <2>2. \A h \in Gate : stream[h] = "none" => stream'[h] = "none"
    BY <1>5 DEF ReadKey, Write
  <2> QED
    BY <1>1, <1>5, <2>1, <2>2, ConsentKey
<1>6. CASE HalDies
  <2> SUFFICES ASSUME NEW h \in Gate PROVE Consented(h)'
    OBVIOUS
  <2>1. /\ thread'[h] \in {thread[h], "dead"} /\ (thread'[h] = thread[h] => ~ Active(h))
        /\ stream'[h] = IF thread[h] = "dialog" THEN "closed" ELSE stream[h]
        /\ waiter'[h] \in {waiter[h], "denied"} /\ UNCHANGED <<level, verdict, consent>>
    BY <1>6 DEF HalDies, Active
  <2>2. thread[h] = "dialog" => ~ Approving(verdict[h])
    BY DEF AuditInv, ThreadInv, Approving
  <2> QED
    BY <1>0, <2>1, <2>2 DEF Consented, Unseen, Approving, Active
<1>7. CASE \E yes \in BOOLEAN : StdinLine(yes)
  BY <1>0, <1>7, ConsentLine
<1> QED
  BY <1>0, <1>3, <1>4, <1>5, <1>6, <1>7, ConsentDaemon DEF Next, WatchStep, UserStep

(* "HAL requires an explicit user approval before the action may proceed":  *)
(* whatever crashes, times out or arrives late, with or without a terminal  *)
(* and wherever $HOME is, a request the orchestrator counts as approved was *)
(* allowed by the user while it was on the screen, or had no dialog and is  *)
(* one of the two known ways round the watch.  The hypothesis is about the  *)
(* user alone: a second key typed while one is unread may answer a dialog   *)
(* that was not on the screen yet.                                          *)
THEOREM ApprovalsExplained == Spec /\ [](Len(keys) <= 1) => []ApprovalsAccounted
<1>1. Init => ConsentInv
  <2> SUFFICES ASSUME Init PROVE ConsentInv
    OBVIOUS
  <2>1. Len(keys) = 0 /\ shown = NoGate
    BY DEF Init
  <2> QED
    BY <2>1 DEF Init, ConsentInv, Consented, ScreenInv, Approving
<1>2. /\ TypeOK /\ AuditInv /\ ConsentInv /\ Len(keys) <= 1 /\ (Len(keys) <= 1)'
      /\ [Next]_vars
      => ConsentInv'
  BY ConsentInvNext
<1>3. ConsentInv => ApprovalsAccounted
  BY DEF ConsentInv, Consented, ApprovalsAccounted
<1> QED
  BY <1>1, <1>2, <1>3, FlowTypes, AuditInvariance, PTL DEF Spec

(* The same for the daemon without a terminal and an ordinary $HOME: there  *)
(* is no way round the watch.                                               *)
THEOREM ApprovalsExplicit ==
  ASSUME ~ HomeDangerous, ~ Terminal
  PROVE  Spec /\ [](Len(keys) <= 1) => []ExplicitApproval
<1>1. ApprovalsAccounted => ExplicitApproval
  BY DEF ApprovalsAccounted, ExplicitApproval, Unseen
<1> QED
  BY <1>1, ApprovalsExplained, PTL
===============================================================================
