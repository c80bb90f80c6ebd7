---------------------------- MODULE ApprovalFlow ----------------------------
(***************************************************************************)
(* The approval round trip behind HAL's approval_required answer.  The     *)
(* orchestrator waits, with a timeout, for a blocking gate on hal.sock.    *)
(* HAL (hal/src/approval_flow.rs) serves every connection in a thread of   *)
(* its own, which may have to ask the user: through `cognos approval       *)
(* watch` (cli/src/approval_watch.rs) when its socket accepts, else on the *)
(* daemon's terminal.  The watch process has an accept thread, a channel   *)
(* and a loop that shows one dialog at a time and reads the keyboard.      *)
(*                                                                         *)
(* Nothing is shared but sockets: each side may give up while the other    *)
(* still works on the request.                                             *)
(***************************************************************************)
EXTENDS HalPolicy, Sequences, FiniteSets

CONSTANTS
  Gate,         \* gate requests of the orchestrator
  NoGate,
  Terminal,     \* has the daemon a terminal?  Else its stdin is at end of file.
  LogWritable,  \* does every open and write of audit.log succeed?
  MaxTypeAhead  \* bound: keys typed and not yet read by the watch loop

ASSUME GateAssumption == NoGate \notin Gate
ASSUME FlowAssumption == {Terminal, LogWritable} \subseteq BOOLEAN /\ MaxTypeAhead \in Nat

VARIABLES
  waiter,   \* the orchestrator's side of each request
  level,    \* the v0 level of the request ("Unknown": unknown agent)
  thread,   \* where the daemon's thread for the request is
  verdict,  \* the GateReason it decided on
  hal,      \* is the HAL process up?
  stream,   \* the UI connection: the answer on it, or who still holds it
  ui,       \* the watch process: off, on, or past its loop and joining
  acceptor, \* is the accept thread running?
  backlog, channel, queue, \* dialogs: not accepted, not received, not answered
  shown,    \* the dialog whose banner was printed last and is unanswered
  keys,     \* typed and unread keys, with the dialog shown when typed
  stdin,    \* the thread that holds the stdin lock
  prompts,  \* terminal prompts on the screen without an answer
  audit,    \* lines of audit.log: <<request, outcome>>
  consent   \* history: requests the user looked at and allowed

waiterVars == <<waiter, level>>
threadVars == <<thread, verdict>>
watchVars == <<ui, acceptor, backlog, channel, queue, shown, keys>>
termVars == <<stdin, prompts>>
vars == <<waiterVars, threadVars, hal, stream, watchVars, termVars, audit, consent>>

Thread == {"none", "level", "connect", "dialog", "terminal", "audit", "respond",
           "done", "dead"}
Reason == {"none", "auto_approved", "user_approved", "auto_denied", "user_denied",
           "timeout_deny"}
Choice == {"allow", "deny", "quit"}

TypeOK ==
  /\ waiter \in [Gate -> {"idle", "asking", "approved", "denied", "gave_up"}]
  /\ level \in [Gate -> Level \cup {"Unknown"}]
  /\ thread \in [Gate -> Thread]
  /\ verdict \in [Gate -> Reason]
  /\ hal \in BOOLEAN
  /\ stream \in [Gate -> {"none", "open", "yes", "no", "closed"}]
  /\ ui \in {"off", "on", "quit"} /\ acceptor \in BOOLEAN
  /\ {backlog, channel, queue, prompts} \subseteq Seq(Gate)
  /\ shown \in Gate \cup {NoGate} /\ stdin \in Gate \cup {NoGate}
  /\ keys \in Seq([choice : Choice, about : Gate \cup {NoGate}])
  /\ audit \subseteq Gate \X {"approved", "denied"}
  /\ consent \subseteq Gate

Init ==
  /\ waiter = [g \in Gate |-> "idle"]
  /\ level = [g \in Gate |-> "Block"]
  /\ thread = [g \in Gate |-> "none"]
  /\ verdict = [g \in Gate |-> "none"]
  /\ hal = TRUE
  /\ stream = [g \in Gate |-> "none"]
  /\ ui = "off" /\ acceptor = FALSE
  /\ backlog = <<>> /\ channel = <<>> /\ queue = <<>>
  /\ shown = NoGate /\ keys = <<>>
  /\ stdin = NoGate /\ prompts = <<>>
  /\ audit = {} /\ consent = {}

Approving(reason) == reason \in {"auto_approved", "user_approved"}

(* The outcome audit_entry logs for a decided request. *)
Outcome(g) == IF Approving(verdict[g]) THEN "approved" ELSE "denied"

Elements(s) == {s[i] : i \in 1..Len(s)}

-----------------------------------------------------------------------------
(* The orchestrator: blocking_gate under tokio's timeout. *)

(* The RPC said approval_required for this operation, target and agent. *)
Ask(g, op, zone, agent) ==
  /\ waiter[g] = "idle"
  /\ GateStatus(op, zone) = "approval_required"
  /\ level' = [level EXCEPT ![g] = IF KnownAgent(agent)
                                   THEN HalLevelV0(agent, GateAction(op), zone)
                                   ELSE "Unknown"]
  /\ waiter' = [waiter EXCEPT ![g] = IF hal THEN "asking" ELSE "denied"]
  /\ thread' = [thread EXCEPT ![g] = IF hal THEN "level" ELSE "none"]
  /\ UNCHANGED <<verdict, hal, stream, watchVars, termVars, audit, consent>>

(* The outer timeout, or the handler is dropped; the thread knows nothing. *)
GiveUp(g) ==
  /\ waiter[g] = "asking"
  /\ waiter' = [waiter EXCEPT ![g] = "gave_up"]
  /\ UNCHANGED <<level, threadVars, hal, stream, watchVars, termVars, audit, consent>>

-----------------------------------------------------------------------------
(* The daemon: handle_connection, request_ui_decision, terminal_fallback. *)

(* Mutant: only denials are logged. *)
DecideUnlogged(g, reason) ==
  /\ verdict' = [verdict EXCEPT ![g] = reason]
  /\ thread' = [thread EXCEPT ![g] = IF Approving(reason) THEN "respond" ELSE "audit"]

Decide(g, reason) ==
  /\ verdict' = [verdict EXCEPT ![g] = reason]
  /\ thread' = [thread EXCEPT ![g] = "audit"]

Classify(g) ==
  /\ thread[g] = "level"
  /\ \/ level[g] = "Unknown" /\ Decide(g, "auto_denied")
     \/ level[g] \in {"Silent", "Notify"} /\ Decide(g, "auto_approved")
     \/ /\ level[g] \in {"Confirm", "Block"}
        /\ thread' = [thread EXCEPT ![g] = "connect"]
        /\ UNCHANGED verdict
  /\ UNCHANGED <<waiterVars, hal, stream, watchVars, termVars, audit, consent>>

(* The UI socket accepts as long as the watch process has it bound. *)
ConnectUi(g) ==
  /\ thread[g] = "connect" /\ ui # "off"
  /\ thread' = [thread EXCEPT ![g] = "dialog"]
  /\ stream' = [stream EXCEPT ![g] = "open"]
  /\ backlog' = Append(backlog, g)
  /\ UNCHANGED <<waiterVars, verdict, hal, ui, acceptor, channel, queue, shown, keys,
                 termVars, audit, consent>>

(* Nobody listens: prompt on the terminal; at end of file read_line gives *)
(* an empty line, which denies.                                           *)
ConnectRefused(g) ==
  /\ thread[g] = "connect" /\ ui = "off"
  /\ \/ /\ Terminal
        /\ thread' = [thread EXCEPT ![g] = "terminal"]
        /\ prompts' = Append(prompts, g)
        /\ UNCHANGED verdict
     \/ /\ ~ Terminal
        /\ Decide(g, "user_denied")
        /\ UNCHANGED prompts
  /\ UNCHANGED <<waiterVars, hal, stream, watchVars, stdin, audit, consent>>

(* read_exact on the UI stream returns, with an answer or an error. *)
ReadAnswer(g) ==
  /\ thread[g] = "dialog" /\ stream[g] # "open"
  /\ Decide(g, CASE stream[g] = "yes" -> "user_approved" [] stream[g] = "no" -> "user_denied"
                 [] OTHER -> "timeout_deny")
  /\ stream' = [stream EXCEPT ![g] = "closed"]
  /\ UNCHANGED <<waiterVars, hal, watchVars, termVars, audit, consent>>

(* Mutant: no timeout is set on the stream. *)
ReadForever(g) ==
  /\ thread[g] = "dialog" /\ stream[g] = "open" /\ ui = "off"
  /\ Decide(g, "timeout_deny")
  /\ stream' = [stream EXCEPT ![g] = "closed"]
  /\ UNCHANGED <<waiterVars, hal, watchVars, termVars, audit, consent>>

(* Mutant: reports the timeout as HalError. *)
ReadTimeoutError(g) ==
  /\ thread[g] = "dialog" /\ stream[g] = "open"
  /\ Decide(g, "hal_error")
  /\ stream' = [stream EXCEPT ![g] = "closed"]
  /\ UNCHANGED <<waiterVars, hal, watchVars, termVars, audit, consent>>

(* 30 seconds without an answer. *)
ReadTimeout(g) ==
  /\ thread[g] = "dialog" /\ stream[g] = "open"
  /\ Decide(g, "timeout_deny")
  /\ stream' = [stream EXCEPT ![g] = "closed"]
  /\ UNCHANGED <<waiterVars, hal, watchVars, termVars, audit, consent>>

(* stdin().read_line: the lock is held by whoever came first. *)
StdinLock(g) ==
  /\ thread[g] = "terminal" /\ stdin = NoGate
  /\ stdin' = g
  /\ UNCHANGED <<waiterVars, threadVars, hal, stream, watchVars, prompts, audit, consent>>

(* The user answers the prompt on the screen; the lock's holder reads it. *)
StdinLine(yes) ==
  LET about == prompts[Len(prompts)]
  IN /\ stdin # NoGate /\ prompts # <<>>
     /\ Decide(stdin, IF yes THEN "user_approved" ELSE "user_denied")
     /\ consent' = IF yes THEN consent \cup {about} ELSE consent
     /\ prompts' = SubSeq(prompts, 1, Len(prompts) - 1)
     /\ stdin' = NoGate
     /\ UNCHANGED <<waiterVars, hal, stream, watchVars, audit>>

(* audit_entry; a failed open or write is ignored. *)
Audit(g) ==
  /\ thread[g] = "audit"
  /\ \/ audit' = audit \cup {<<g, Outcome(g)>>}
     \/ ~ LogWritable /\ UNCHANGED audit
  /\ thread' = [thread EXCEPT ![g] = "respond"]
  /\ UNCHANGED <<waiterVars, verdict, hal, stream, watchVars, termVars, consent>>

(* Mutant: the answer counts although the waiter gave up. *)
RespondLate(g) ==
  /\ thread[g] = "respond"
  /\ thread' = [thread EXCEPT ![g] = "done"]
  /\ waiter' = [waiter EXCEPT ![g] = IF Approving(verdict[g]) THEN "approved" ELSE "denied"]
  /\ UNCHANGED <<level, verdict, hal, stream, watchVars, termVars, audit, consent>>

(* write_response; the write fails silently when the waiter is gone. *)
Respond(g) ==
  /\ thread[g] = "respond"
  /\ thread' = [thread EXCEPT ![g] = "done"]
  /\ waiter' = [waiter EXCEPT ![g] = IF @ # "asking" THEN @
                                     ELSE IF Approving(verdict[g]) THEN "approved"
                                     ELSE "denied"]
  /\ UNCHANGED <<level, verdict, hal, stream, watchVars, termVars, audit, consent>>

(* The HAL process dies with its threads and sockets; the waiters read an *)
(* error, which denies.                                                   *)
Active(g) == thread[g] \notin {"none", "done", "dead"}

HalDies ==
  /\ hal /\ hal' = FALSE
  /\ thread' = [g \in Gate |-> IF Active(g) THEN "dead" ELSE thread[g]]
  /\ waiter' = [g \in Gate |-> IF Active(g) /\ waiter[g] = "asking" THEN "denied"
                                                                     ELSE waiter[g]]
  /\ stream' = [g \in Gate |-> IF thread[g] = "dialog" THEN "closed" ELSE stream[g]]
  /\ stdin' = NoGate /\ prompts' = <<>>
  /\ UNCHANGED <<level, verdict, watchVars, audit, consent>>

HalStarts ==
  /\ ~ hal /\ hal' = TRUE
  /\ UNCHANGED <<waiterVars, threadVars, stream, watchVars, termVars, audit, consent>>

-----------------------------------------------------------------------------
(* cognos approval watch.  Bound: one watch process at a time. *)

WatchStarts ==
  /\ ui = "off" /\ ui' = "on" /\ acceptor' = TRUE
  /\ UNCHANGED <<waiterVars, threadVars, hal, stream, backlog, channel, queue, shown,
                 keys, termVars, audit, consent>>

(* The process ends: its sockets close, what it held is gone. *)
WatchGone ==
  /\ ui' = "off" /\ acceptor' = FALSE
  /\ stream' = [g \in Gate |-> IF stream[g] = "open" THEN "closed" ELSE stream[g]]
  /\ backlog' = <<>> /\ channel' = <<>> /\ queue' = <<>>
  /\ shown' = NoGate /\ keys' = <<>>
  /\ UNCHANGED <<waiterVars, threadVars, hal, termVars, audit, consent>>

WatchKilled == ui # "off" /\ WatchGone

(* run_watch_loop returns once accept_handle.join() does. *)
WatchJoins == ui = "quit" /\ ~ acceptor /\ WatchGone

(* The accept thread.  Its send cannot fail: the receiver lives in          *)
(* run_watch_loop until the thread was joined.                              *)
Accept ==
  /\ acceptor /\ backlog # <<>>
  /\ channel' = Append(channel, Head(backlog))
  /\ backlog' = Tail(backlog)
  /\ UNCHANGED <<waiterVars, threadVars, hal, stream, ui, acceptor, queue, shown, keys,
                 termVars, audit, consent>>

AcceptError ==
  /\ acceptor /\ acceptor' = FALSE
  /\ UNCHANGED <<waiterVars, threadVars, hal, stream, ui, backlog, channel, queue, shown,
                 keys, termVars, audit, consent>>

(* watch_main_loop: take over what the channel holds, print the front. *)
Receive ==
  /\ ui = "on" /\ channel # <<>>
  /\ queue' = queue \o channel /\ channel' = <<>>
  /\ UNCHANGED <<waiterVars, threadVars, hal, stream, ui, acceptor, backlog, shown, keys,
                 termVars, audit, consent>>

Show ==
  /\ ui = "on" /\ queue # <<>> /\ shown # Head(queue)
  /\ shown' = Head(queue)
  /\ UNCHANGED <<waiterVars, threadVars, hal, stream, ui, acceptor, backlog, channel,
                 queue, keys, termVars, audit, consent>>

(* The user types a key, meant for the dialog on the screen; [n]otice is    *)
(* an allow here.  Without a dialog only [q]uit makes sense.                *)
Press(choice) ==
  /\ ui = "on" /\ Len(keys) < MaxTypeAhead
  /\ shown = NoGate => choice = "quit"
  /\ keys' = Append(keys, [choice |-> choice, about |-> shown])
  /\ consent' = IF choice = "allow" THEN consent \cup {shown} ELSE consent
  /\ UNCHANGED <<waiterVars, threadVars, hal, stream, ui, acceptor, backlog, channel,
                 queue, shown, termVars, audit>>

(* write_dialog_response to the streams of S that the daemon still reads. *)
Write(S, answer) ==
  stream' = [g \in Gate |-> IF g \in S /\ stream[g] = "open" THEN answer ELSE stream[g]]

(* A key with no dialog pending. *)
ReadKeyIdle ==
  /\ ui = "on" /\ queue = <<>> /\ keys # <<>>
  /\ keys' = Tail(keys)
  /\ ui' = IF Head(keys).choice = "quit" THEN "quit" ELSE ui
  /\ UNCHANGED <<waiterVars, threadVars, hal, stream, acceptor, backlog, channel, queue,
                 shown, termVars, audit, consent>>

(* Mutant: shows the front and answers the back of the queue. *)
ReadKeyBack ==
  /\ ui = "on" /\ queue # <<>> /\ shown = Head(queue) /\ keys # <<>>
  /\ Head(keys).choice # "quit"
  /\ keys' = Tail(keys) /\ shown' = NoGate
  /\ Write({queue[Len(queue)]}, IF Head(keys).choice = "allow" THEN "yes" ELSE "no")
  /\ queue' = SubSeq(queue, 1, Len(queue) - 1)
  /\ UNCHANGED <<waiterVars, threadVars, hal, ui, acceptor, backlog, channel, termVars,
                 audit, consent>>

(* Mutant: [q]uit drops the rest of the queue without an answer. *)
ReadKeyQuitDrops ==
  /\ ui = "on" /\ queue # <<>> /\ shown = Head(queue) /\ keys # <<>>
  /\ Head(keys).choice = "quit"
  /\ keys' = Tail(keys) /\ shown' = NoGate
  /\ Write({Head(queue)}, "no")
  /\ queue' = <<>> /\ ui' = "quit"
  /\ UNCHANGED <<waiterVars, threadVars, hal, acceptor, backlog, channel, termVars,
                 audit, consent>>

(* A key answers the front, whatever it was typed for. *)
ReadKey ==
  /\ ui = "on" /\ queue # <<>> /\ shown = Head(queue) /\ keys # <<>>
  /\ keys' = Tail(keys) /\ shown' = NoGate
  /\ \/ /\ Head(keys).choice = "quit"
        /\ Write(Elements(queue), "no")
        /\ queue' = <<>> /\ ui' = "quit"
     \/ /\ Head(keys).choice # "quit"
        /\ Write({Head(queue)}, IF Head(keys).choice = "allow" THEN "yes" ELSE "no")
        /\ queue' = Tail(queue) /\ UNCHANGED ui
  /\ UNCHANGED <<waiterVars, threadVars, hal, acceptor, backlog, channel, termVars, audit,
                 consent>>

-----------------------------------------------------------------------------
(* The daemon's own steps for a request, none of which needs the user. *)
DaemonStep(g) ==
  \/ Classify(g) \/ ConnectUi(g) \/ ConnectRefused(g) \/ ReadAnswer(g)
  \/ ReadTimeout(g) \/ StdinLock(g) \/ Audit(g) \/ Respond(g)

WatchStep == Accept \/ Receive \/ Show \/ ReadKeyIdle \/ ReadKey \/ WatchJoins

UserStep == (\E yes \in BOOLEAN : StdinLine(yes)) \/ (\E c \in Choice : Press(c))

Next ==
  \/ \E g \in Gate :
       \/ \E op \in Op, zone \in Zone, agent \in Agent : Ask(g, op, zone, agent)
       \/ GiveUp(g) \/ DaemonStep(g)
  \/ WatchStep \/ UserStep
  \/ HalDies \/ HalStarts
  \/ WatchStarts \/ WatchKilled \/ AcceptError

(* Threads are scheduled and their 30 s read timeout fires; the user owes *)
(* nobody an answer.                                                      *)
Fairness == WF_vars(WatchStep) /\ \A g \in Gate : WF_vars(DaemonStep(g))

Spec == Init /\ [][Next]_vars
FairSpec == Spec /\ Fairness

-----------------------------------------------------------------------------
(* Properties *)

(* "HAL requires an explicit user approval before the action may proceed"  *)
(* (orchestrator/src/hal_gate.rs, Decision::ApprovalRequired): a request   *)
(* the orchestrator counts as approved was allowed by the user while that  *)
(* very request was on the screen.                                         *)
ExplicitApproval == \A g \in Gate : waiter[g] = "approved" => g \in consent

(* The orchestrator acts on an approval only when audit.log already has it, *)
(* whatever crashes; and no request is ever logged with both outcomes.      *)
AuditedFirst ==
  \A g \in Gate : /\ waiter[g] = "approved" => <<g, "approved">> \in audit
                  /\ ~ ({g} \X {"approved", "denied"} \subseteq audit)

(* A daemon thread that waits on the UI socket is known to the watch: its   *)
(* dialog is in exactly one of the backlog, the channel and the queue, also *)
(* after [q]uit and while newer dialogs arrive.                             *)
DialogHeld ==
  \A g \in Gate :
    stream[g] = "open" =>
      Cardinality({s \in {"backlog", "channel", "queue"} :
                     g \in Elements(CASE s = "backlog" -> backlog [] s = "channel" -> channel
                                      [] OTHER -> queue)}) = 1

(* The inductive invariant behind AuditedFirst and VerdictFinal. *)

ControlType ==
  /\ waiter \in [Gate -> {"idle", "asking", "approved", "denied", "gave_up"}]
  /\ thread \in [Gate -> Thread]
  /\ verdict \in [Gate -> Reason]
  /\ audit \subseteq Gate \X {"approved", "denied"}
  /\ stdin \in Gate \cup {NoGate}

(* A request has a verdict once its thread is past asking, and exactly one  *)
(* line of audit.log, with that verdict, once the thread wrote it.          *)
ThreadInv(g) ==
  /\ thread[g] \in {"none", "level", "connect", "dialog", "terminal"} => verdict[g] = "none"
  /\ thread[g] \in {"none", "level", "connect", "dialog", "terminal", "audit"}
       => \A o \in {"approved", "denied"} : <<g, o>> \notin audit
  /\ \A o \in {"approved", "denied"} : <<g, o>> \in audit => o = Outcome(g)
  /\ (LogWritable /\ thread[g] \in {"respond", "done"}) => <<g, Outcome(g)>> \in audit

WaiterInv(g) ==
  /\ waiter[g] = "idle" => thread[g] = "none"
  /\ waiter[g] = "approved" => thread[g] \in {"done", "dead"}
  /\ (LogWritable /\ waiter[g] = "approved") => <<g, "approved">> \in audit

AuditInv ==
  /\ ControlType
  /\ stdin # NoGate => thread[stdin] = "terminal"
  /\ \A g \in Gate : ThreadInv(g) /\ WaiterInv(g)

(* The inductive invariant behind DialogHeld, with AuditInv: what the watch *)
(* process holds, oldest first, is one line in which no request is twice    *)
(* and every request the daemon waits for has its place.                    *)
Held == queue \o channel \o backlog

DialogInv ==
  /\ \A i, j \in 1..Len(Held) : Held[i] = Held[j] => i = j
  /\ \A i \in 1..Len(Held) : thread[Held[i]] \notin {"none", "level", "connect", "terminal"}
  /\ \A g \in Gate : stream[g] = "open" => \E i \in 1..Len(Held) : Held[i] = g
  /\ ui = "off" => Held = <<>>

(* Without the conditions of a run: an approved request was allowed on the  *)
(* screen, or it never had a dialog, and then it is one of the two known    *)
(* ways round the watch, the daemon's own grading where $HOME is dangerous  *)
(* or a line typed on its terminal.                                         *)
Unseen(g) ==
  /\ stream[g] = "none"
  /\ \/ HomeDangerous /\ verdict[g] = "auto_approved"
     \/ Terminal /\ verdict[g] = "user_approved"

ApprovalsAccounted == \A g \in Gate : waiter[g] = "approved" => g \in consent \/ Unseen(g)

(* The inductive invariant behind it, with AuditInv, for a user who types   *)
(* no key while another is unread: the banner on the screen is the front of *)
(* the queue, an unread allow was typed for it, and a yes on a stream or an *)
(* approving verdict is one the user gave.                                  *)
ScreenInv ==
  /\ shown # NoGate => queue # <<>> /\ shown = Head(queue)
  /\ \A i \in 1..Len(keys) : keys[i].choice = "allow" => shown \in consent

Consented(g) ==
  /\ stream[g] = "yes" => g \in consent
  /\ HomeDangerous \/ level[g] \notin {"Silent", "Notify"}
  /\ thread[g] \in {"none", "level", "connect", "terminal"} => stream[g] = "none"
  /\ thread[g] = "terminal" => Terminal
  /\ Approving(verdict[g]) => g \in consent \/ Unseen(g)
  /\ waiter[g] = "approved" => Approving(verdict[g])

ConsentInv == ScreenInv /\ \A g \in Gate : Consented(g)

(* A verdict is final: an answer the user gives after the timeout, or a     *)
(* later crash, never turns a denial into an approval.                      *)
VerdictFinal ==
  [][\A g \in Gate : /\ verdict[g] # "none" => verdict'[g] = verdict[g]
                     /\ (waiter[g] \in {"denied", "gave_up"}) => waiter'[g] = waiter[g]]_vars

(* "Maximum wait: 30 seconds; after that, deny" (approval_flow.rs): every   *)
(* connection is answered or dies with the daemon, whatever the user does.  *)
DaemonAnswers ==
  \A g \in Gate : thread[g] = "level" ~> thread[g] \in {"done", "dead"}

(* [q]uit ends `cognos approval watch` ("watch stopped."). *)
QuitEnds == ui = "quit" ~> ui = "off"
=============================================================================
