------------------------------- MODULE EventBus -------------------------------
(***************************************************************************)
(* The broadcast buses: the orchestrator's EventBus (event_bus.rs), the    *)
(* stream of the gRPC server and the RPCs that feed it (grpc/src/server.rs)*)
(* and the agents' event stream (agent-ipc/src/server.rs).  The channel is *)
(* tokio's: a ring of fixed size that a slow receiver is overtaken by.     *)
(***************************************************************************)
EXTENDS Integers, Sequences, FiniteSets

CONSTANTS
  Subscribers,  \* receivers; the stream of a client
  RpcCalls,     \* RPCs in progress
  BusCapacity,  \* 1024
  MaxSubscribed \* bound: subscriptions made

ASSUME EventBusAssumption == BusCapacity \in Nat \ {0} /\ MaxSubscribed \in Nat

RpcKinds == {"HalGate", "DispatchIntent", "ResourceHint", "QueryMemory"}
\* emit_event: the kinds an RPC emits before and after its handler ran.
Before == [HalGate |-> "hal.gate_requested", DispatchIntent |-> "intent.dispatched", ResourceHint |-> "sched.hint"]
After == [HalGate |-> "hal.gate_decided", DispatchIntent |-> "intent.parsed"]

VARIABLES
  published,  \* the events sent while somebody listened, [kind, call]
  subs,       \* open receivers: where it began, next to read, read, skipped
  rpcs,       \* RPCs: what was asked, how far it is, the status of the answer
  subscribed, \* subscriptions made
  wired       \* with_hal_gate_handler, with_intent_handler: the server has its handlers
busVars == <<published, subs, rpcs, subscribed, wired>>

NoRpc == [kind |-> "none", at |-> "new", status |-> "none"]
BusInit ==
  /\ published = <<>> /\ subs = <<>> /\ rpcs = [c \in RpcCalls |-> NoRpc] /\ subscribed = 0
  /\ wired \in BOOLEAN

\* broadcast::Sender::send: without a receiver the event is gone, and publish
\* answers ChannelClosed; its callers ignore that.
Send(event) == published' = IF DOMAIN subs = {} THEN published ELSE Append(published, event)

\* subscribe: a receiver sees what is sent from now on.
SubscribeTo(s) ==
  /\ s \notin DOMAIN subs /\ subscribed < MaxSubscribed /\ subscribed' = subscribed + 1
  /\ subs' = [t \in DOMAIN subs \cup {s} |->
       IF t # s THEN subs[t]
       ELSE [from |-> Len(published) + 1, next |-> Len(published) + 1, got |-> <<>>, lost |-> {}]]
  /\ UNCHANGED <<published, rpcs, wired>>
DropReceiver(s) ==
  /\ s \in DOMAIN subs /\ subs' = [t \in DOMAIN subs \ {s} |-> subs[t]]
  /\ UNCHANGED <<published, rpcs, subscribed, wired>>

\* recv: the next event, or Lagged when it has been overwritten; the streams
\* then go on with the oldest that is left.
OldestWithSlack == Len(published) - BusCapacity + 2
Oldest == Len(published) - BusCapacity + 1
Receive(s) ==
  /\ s \in DOMAIN subs /\ subs[s].next \in Oldest..Len(published)
  /\ subs' = [subs EXCEPT ![s].got = Append(@, subs[s].next), ![s].next = @ + 1]
  /\ UNCHANGED <<published, rpcs, subscribed, wired>>
Lagged(s) ==
  /\ s \in DOMAIN subs /\ subs[s].next < Oldest
  /\ subs' = [subs EXCEPT ![s].lost = @ \cup subs[s].next..(Oldest - 1), ![s].next = Oldest]
  /\ UNCHANGED <<published, rpcs, subscribed, wired>>

-------------------------------------------------------------------------------
\* hal_gate, dispatch_intent, resource_hint, query_memory: the first event, if
\* any, then the handler (dispatch_intent awaits it), then the second.
BeginRpc(c, kind) ==
  /\ rpcs[c] = NoRpc
  /\ rpcs' = [rpcs EXCEPT ![c] = [kind |-> kind, at |-> "begun", status |-> "none"]]
  /\ IF kind \in DOMAIN Before THEN Send([kind |-> Before[kind], call |-> c]) ELSE UNCHANGED published
  /\ UNCHANGED <<subs, subscribed, wired>>
EndRpc(c, status) ==
  /\ rpcs[c].at = "begun" /\ (rpcs[c].kind \in DOMAIN After /\ wired)
  /\ rpcs' = [rpcs EXCEPT ![c].at = "ended", ![c].status = status]
  /\ Send([kind |-> After[rpcs[c].kind], call |-> c])
  /\ UNCHANGED <<subs, subscribed, wired>>
\* Without a handler the answer is "failed", not a stub decision.
EndPlain(c) ==
  /\ rpcs[c].at = "begun" /\ ~(rpcs[c].kind \in DOMAIN After /\ wired)
  /\ rpcs' = [rpcs EXCEPT ![c].at = "ended",
                          ![c].status = IF rpcs[c].kind \in DOMAIN After THEN "failed" ELSE "ok"]
  /\ UNCHANGED <<published, subs, subscribed, wired>>

BusNext ==
  \/ \E s \in Subscribers : SubscribeTo(s) \/ DropReceiver(s) \/ Receive(s) \/ Lagged(s)
  \/ \E c \in RpcCalls : EndPlain(c) \/ EndRpc(c, "granted") \/ \E kind \in RpcKinds : BeginRpc(c, kind)

BusTypeOK ==
  /\ DOMAIN subs \subseteq Subscribers /\ subscribed \in 0..MaxSubscribed
  /\ \A c \in RpcCalls : rpcs[c].kind \in RpcKinds \cup {"none"} /\ rpcs[c].at \in {"new", "begun", "ended"}
  /\ \A i \in DOMAIN published : published[i].call \in RpcCalls

(***************************************************************************)
(* A receiver gets every event sent since it subscribed, once and in the   *)
(* order sent, except those that were overwritten: it misses one only if a *)
(* whole ring of later events was sent.  No decision is sent before the    *)
(* request it answers, and a server without handlers announces none and    *)
(* answers failed (stream_events, event_stream, publish, hal_gate).        *)
(***************************************************************************)
StreamsFaithful ==
  /\ \A s \in DOMAIN subs :
       LET sub == subs[s]
           seen == {sub.got[i] : i \in DOMAIN sub.got} IN
       /\ \A i, j \in DOMAIN sub.got : i < j => sub.got[i] < sub.got[j]
       /\ seen \cup sub.lost = sub.from..(sub.next - 1) /\ seen \cap sub.lost = {}
       /\ \A i \in sub.lost : i + BusCapacity <= Len(published)
  /\ \A i, j \in DOMAIN published : published[i].call = published[j].call /\ i < j =>
       published[j].kind \in {After[k] : k \in DOMAIN After} /\ rpcs[published[j].call].status = "granted"
  /\ ~wired => \A c \in RpcCalls : rpcs[c].status \in {"none", "ok", "failed"}
\* The inductive invariant behind it.  A call has sent nothing before it began,
\* and one event at most before it ended.
BusShapes ==
  /\ published \in Seq([kind : {Before[k] : k \in DOMAIN Before} \cup {After[k] : k \in DOMAIN After},
                        call : RpcCalls])
  /\ rpcs \in [RpcCalls -> [kind : RpcKinds \cup {"none"}, at : {"new", "begun", "ended"},
                            status : {"none", "ok", "failed", "granted"}]]
  /\ \A s \in DOMAIN subs :
       subs[s] \in [from : Nat \ {0}, next : 1..(Len(published) + 1), got : Seq(Nat), lost : SUBSET Nat]
  /\ wired \in BOOLEAN

BusInv ==
  /\ BusTypeOK /\ BusShapes /\ StreamsFaithful
  /\ \A s \in DOMAIN subs : subs[s].from <= subs[s].next
  /\ \A i, j \in DOMAIN published :
       /\ rpcs[published[i].call].at # "new"
       /\ published[i].call = published[j].call /\ i # j => rpcs[published[i].call].at = "ended"
===============================================================================
