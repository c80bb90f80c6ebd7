------------------------------- MODULE AgentIpc -------------------------------
(***************************************************************************)
(* The coordinator of the agents' own IPC (ipc/agent-ipc/src): the agent   *)
(* registry, the capability runtime, the nonce cache, the rate limiter and *)
(* the dispatch handler that consults them one after the other, with other *)
(* calls and operators running in between.                                 *)
(***************************************************************************)
EXTENDS Integers, Sequences, FiniteSets, TLC

CONSTANTS
  IpcAgents,      \* names of agents
  IpcCaps,        \* the capabilities in play, of the twelve of Capability
  Calls,          \* dispatch calls that run concurrently
  Envelopes,      \* envelopes in circulation, [nonce, stamp, source, target, caps]
  Skew,           \* verify_timestamp: 30 s either way
  Retention,      \* nonces are kept for less than 60 s
  MaxPerWindow,   \* RateLimiter.max_per_second
  StaleAfter,     \* timeout of cleanup_stale
  MaxIpcEvents,   \* bound: calls made and changes of the registry and of grants
  MaxIpcTime      \* bound: the clock

ASSUME AgentIpcAssumption ==
  /\ {Skew, Retention, MaxPerWindow, StaleAfter, MaxIpcEvents, MaxIpcTime} \subseteq Nat
  /\ \A e \in Envelopes :
       e.source \in IpcAgents /\ e.target \in IpcAgents /\ e.caps \subseteq IpcCaps /\ e.stamp \in Int

Nonces == {e.nonce : e \in Envelopes}

VARIABLES
  agents,     \* AgentRegistry.inner: registered agents with heartbeat, health, trust
  grants,     \* CapabilityRuntime.active_tokens
  nonces,     \* AuthManager.nonce_cache: nonce -> time of its insertion
  windows,    \* RateLimiter.limits: agent -> [count, start]
  calls,      \* the dispatch calls in progress
  sweep,      \* cleanup_stale between its two locks: the agents it will remove
  ipcNow,     \* the clock, in seconds
  accepted,   \* nonce -> the validations that let it through, in order
  passed,     \* agent -> times of its calls the limiter let through
  dispatched, \* calls answered with success
  lapsed,     \* agents that were silent for too long at some time, or were unregistered
  ipcChanges  \* how often the registry or a grant was changed
registryVars == <<agents, grants, sweep, lapsed, ipcChanges>>
dispatchVars == <<nonces, windows, calls, accepted, passed, dispatched>>
agentIpcVars == <<agents, grants, sweep, lapsed, ipcChanges, nonces, windows, calls, accepted, passed, dispatched, ipcNow>>

Fresh == [beat |-> 0, healthy |-> TRUE, trust |-> 5]
Without(f, x) == [y \in DOMAIN f \ {x} |-> f[y]]
With(f, x, v) == [y \in DOMAIN f \cup {x} |-> IF y = x THEN v ELSE f[y]]
Idle == [at |-> "idle"]
Running(c) == calls[c].at \notin {"idle", "done"}

AgentIpcInit ==
  /\ agents = [a \in IpcAgents |-> Fresh] /\ grants = [a \in IpcAgents |-> IpcCaps]
  /\ nonces = <<>> /\ windows = <<>> /\ calls = [c \in Calls |-> Idle] /\ sweep = {}
  /\ ipcNow = 0 /\ accepted = [n \in Nonces |-> <<>>] /\ passed = [a \in IpcAgents |-> <<>>]
  /\ dispatched = 0 /\ ipcChanges = 0 /\ lapsed = {}

-------------------------------------------------------------------------------
\* What the source of a call has been entitled to since the call began:
\* recorded with the call, to be compared with what the call did.
HeldBy(a, g) == IF a \in DOMAIN g THEN g[a] ELSE {}
Trusted(a, reg) == a \in DOMAIN reg /\ reg[a].healthy /\ reg[a].trust >= 2
Changed(newAgents, newGrants) ==
  /\ ipcChanges + dispatched < MaxIpcEvents /\ ipcChanges' = ipcChanges + 1
  /\ agents' = newAgents /\ grants' = newGrants
  /\ calls' = [c \in Calls |->
       IF ~Running(c) THEN calls[c]
       ELSE [calls[c] EXCEPT !.trusted = @ \/ Trusted(calls[c].env.source, newAgents),
                             !.held = @ \cup HeldBy(calls[c].env.source, newGrants)]]
  /\ UNCHANGED <<nonces, windows, accepted, passed, dispatched, ipcNow>>

\* register, unregister, update_heartbeat, update_trust_score, mark_unhealthy
Register(a) == Changed(With(agents, a, [Fresh EXCEPT !.beat = ipcNow]), grants) /\ UNCHANGED <<sweep, lapsed>>
Unregister(a) ==
  a \in DOMAIN agents /\ Changed(Without(agents, a), grants) /\ lapsed' = lapsed \cup {a} /\ UNCHANGED sweep
HeartbeatFrom(a) ==
  /\ a \in DOMAIN agents
  /\ Changed([agents EXCEPT ![a].beat = ipcNow, ![a].healthy = TRUE], grants) /\ UNCHANGED <<sweep, lapsed>>
SetTrust(a, t) ==
  a \in DOMAIN agents /\ Changed([agents EXCEPT ![a].trust = t], grants) /\ UNCHANGED <<sweep, lapsed>>
MarkUnhealthy(a) ==
  a \in DOMAIN agents /\ Changed([agents EXCEPT ![a].healthy = FALSE], grants) /\ UNCHANGED <<sweep, lapsed>>

\* grant, revoke, isolate_agent (the last removes the whole set)
GrantCap(a, c) == Changed(agents, With(grants, a, HeldBy(a, grants) \cup {c})) /\ UNCHANGED <<sweep, lapsed>>
RevokeCap(a, c) ==
  a \in DOMAIN grants /\ Changed(agents, [grants EXCEPT ![a] = @ \ {c}]) /\ UNCHANGED <<sweep, lapsed>>
IsolateAgent(a) == Changed(agents, Without(grants, a)) /\ UNCHANGED <<sweep, lapsed>>

\* cleanup_stale: the silent agents are listed under the read lock and removed
\* under the write lock taken afterwards, without looking again.
StaleSooner == {a \in DOMAIN agents : ipcNow - agents[a].beat >= StaleAfter}
Stale == {a \in DOMAIN agents : ipcNow - agents[a].beat > StaleAfter}
ListStale ==
  /\ sweep = {} /\ Stale # {} /\ sweep' = Stale
  /\ UNCHANGED <<agents, grants, lapsed, ipcChanges, dispatchVars, ipcNow>>
RemoveStale ==
  /\ sweep # {} /\ sweep' = {}
  /\ Changed([a \in DOMAIN agents \ sweep |-> agents[a]], grants) /\ UNCHANGED lapsed

IpcTick ==
  /\ ipcNow < MaxIpcTime /\ ipcNow' = ipcNow + 1
  /\ lapsed' = lapsed \cup {a \in DOMAIN agents : ipcNow' - agents[a].beat > StaleAfter}
  /\ UNCHANGED <<agents, grants, sweep, ipcChanges, dispatchVars>>

-------------------------------------------------------------------------------
Step(c, next) == calls' = [calls EXCEPT ![c] = next]
Refuse(c) == Step(c, Idle)

\* RateLimiter::check: the count grows also when the call is refused.
Window(a) ==
  IF a \notin DOMAIN windows \/ ipcNow - windows[a].start >= 1 THEN [count |-> 0, start |-> ipcNow] ELSE windows[a]
Limited(a) == Window(a).count >= MaxPerWindow
DispatchCall(c, e) ==
  /\ ~Running(c) /\ ipcChanges + dispatched < MaxIpcEvents
  /\ windows' = With(windows, e.source, [Window(e.source) EXCEPT !.count = @ + 1])
  /\ dispatched' = dispatched + 1
  /\ IF Limited(e.source)
     THEN Refuse(c) /\ UNCHANGED passed
     ELSE /\ Step(c, [at |-> "nonce", env |-> e, todo |-> e.caps, seen |-> 0, checked |-> 0,
                      trusted |-> Trusted(e.source, agents), held |-> HeldBy(e.source, grants)])
          /\ passed' = [passed EXCEPT ![e.source] = Append(@, ipcNow)]
  /\ UNCHANGED <<registryVars, nonces, accepted, ipcNow>>

\* validate_integrity: the nonce is looked up, the stamp compared with the
\* clock, and only then is the nonce entered and the cache purged.
InTime(e) == e.stamp - ipcNow \in -Skew..Skew
CheckNonce(c) ==
  /\ calls[c].at = "nonce"
  /\ IF calls[c].env.nonce \in DOMAIN nonces \/ ~InTime(calls[c].env) THEN Refuse(c)
     ELSE Step(c, [calls[c] EXCEPT !.at = "enter", !.seen = Len(accepted[calls[c].env.nonce]), !.checked = ipcNow])
  /\ UNCHANGED <<registryVars, nonces, windows, accepted, passed, dispatched, ipcNow>>
KeptTooShort(n, at) == at + Retention > ipcNow + 1
Kept(n, at) == at + Retention > ipcNow
EnterNonce(c) ==
  /\ calls[c].at = "enter"
  /\ LET n == calls[c].env.nonce
         all == With(nonces, n, ipcNow) IN
     /\ nonces' = [m \in {m \in DOMAIN all : Kept(m, all[m])} |-> all[m]]
     /\ accepted' = [accepted EXCEPT ![n] =
          Append(@, [stamp |-> calls[c].env.stamp, at |-> ipcNow, seen |-> calls[c].seen,
                    checked |-> calls[c].checked])]
  /\ Step(c, [calls[c] EXCEPT !.at = "agent"])
  /\ UNCHANGED <<registryVars, windows, passed, dispatched, ipcNow>>

\* validate_envelope: the source's metadata, then one capability after the
\* other, each under a lock of its own; then the target must be registered.
CheckSource(c) ==
  /\ calls[c].at = "agent"
  /\ IF Trusted(calls[c].env.source, agents) THEN Step(c, [calls[c] EXCEPT !.at = "caps"]) ELSE Refuse(c)
  /\ UNCHANGED <<registryVars, nonces, windows, accepted, passed, dispatched, ipcNow>>
HasCapabilityNot(a, cap) == a \in DOMAIN grants
HasCapability(a, cap) == cap \in HeldBy(a, grants)
CheckCap(c, cap) ==
  /\ calls[c].at = "caps" /\ cap \in calls[c].todo
  /\ IF HasCapability(calls[c].env.source, cap) THEN Step(c, [calls[c] EXCEPT !.todo = @ \ {cap}]) ELSE Refuse(c)
  /\ UNCHANGED <<registryVars, nonces, windows, accepted, passed, dispatched, ipcNow>>
CheckTarget(c) ==
  /\ calls[c].at = "caps" /\ calls[c].todo = {}
  /\ IF calls[c].env.target \in DOMAIN agents THEN Step(c, [calls[c] EXCEPT !.at = "done"]) ELSE Refuse(c)
  /\ UNCHANGED <<registryVars, nonces, windows, accepted, passed, dispatched, ipcNow>>

AgentIpcNext ==
  \/ \E a \in IpcAgents :
       \/ Register(a) \/ Unregister(a) \/ HeartbeatFrom(a) \/ SetTrust(a, 1) \/ MarkUnhealthy(a) \/ IsolateAgent(a)
       \/ \E cap \in IpcCaps : GrantCap(a, cap) \/ RevokeCap(a, cap)
  \/ ListStale \/ RemoveStale \/ IpcTick
  \/ \E c \in Calls :
       \/ CheckNonce(c) \/ EnterNonce(c) \/ CheckSource(c) \/ CheckTarget(c)
       \/ \E cap \in IpcCaps : CheckCap(c, cap)
       \/ \E e \in Envelopes : DispatchCall(c, e)

AgentIpcTypeOK ==
  /\ DOMAIN agents \subseteq IpcAgents /\ DOMAIN grants \subseteq IpcAgents /\ DOMAIN nonces \subseteq Nonces
  /\ \A a \in DOMAIN grants : grants[a] \subseteq IpcCaps
  /\ sweep \subseteq IpcAgents /\ ipcNow \in 0..MaxIpcTime /\ dispatched \in 0..MaxIpcEvents

(***************************************************************************)
(* An envelope gets past the replay check a second time in two cases only: *)
(* its second validation looked the nonce up before the first had entered  *)
(* it, or it is stamped in the future by the whole skew and comes again    *)
(* when it is late by the whole skew, the moment its nonce is dropped      *)
(* (validate_integrity).                                                   *)
(***************************************************************************)
NonceOnce ==
  \A n \in Nonces : \A i, j \in DOMAIN accepted[n] : i < j =>
    \/ accepted[n][j].seen < i
    \/ /\ accepted[n][i].at = accepted[n][i].stamp - Skew
       /\ accepted[n][j].checked = accepted[n][j].stamp + Skew

(***************************************************************************)
(* A dispatched envelope used only capabilities its source held, and its   *)
(* source was healthy and trusted, at some moment since the call arrived:  *)
(* what was taken away before stays away, whatever is revoked, isolated,   *)
(* re-registered or swept meanwhile (validate_envelope).                   *)
(***************************************************************************)
DispatchEntitled ==
  \A c \in Calls : calls[c].at = "done" => calls[c].trusted /\ calls[c].env.caps \subseteq calls[c].held

(***************************************************************************)
(* Within any second an agent gets at most twice its rate past the limiter *)
(* (two fixed windows can touch it), and within one tick of the clock, as  *)
(* windows start at one, its rate; and an agent that is never silent for   *)
(* longer than the timeout stays registered (check, cleanup_stale).        *)
(***************************************************************************)
LimitsHold ==
  /\ \A a \in IpcAgents, t \in 0..MaxIpcTime :
       Cardinality({i \in DOMAIN passed[a] : passed[a][i] = t}) <= MaxPerWindow
  /\ IpcAgents \ DOMAIN agents \subseteq lapsed

\* The inductive invariant behind the three.  An accepted nonce is in the cache
\* or older than the retention; a call that found its nonce missing found every
\* acceptance it could see that old.
AgentIpcShapes ==
  /\ \A a \in DOMAIN agents : agents[a] \in [beat : Nat, healthy : BOOLEAN, trust : Nat]
  /\ \A n \in DOMAIN nonces : nonces[n] \in 0..ipcNow
  /\ DOMAIN windows \subseteq IpcAgents
  /\ \A a \in DOMAIN windows : windows[a] \in [count : Nat, start : 0..ipcNow]
  /\ calls \in [Calls -> {Idle} \cup [at : {"nonce", "enter", "agent", "caps", "done"}, env : Envelopes,
       todo : SUBSET IpcCaps, seen : Nat, checked : Nat, trusted : BOOLEAN, held : SUBSET IpcCaps]]
  /\ accepted \in [Nonces -> Seq([stamp : Int, at : Nat, seen : Nat, checked : Nat])]
  /\ passed \in [IpcAgents -> Seq(Nat)]
  /\ ipcChanges \in Nat /\ ipcChanges + dispatched <= MaxIpcEvents

Aged(entry, at) == entry.at + Retention <= at
NoncesInv ==
  /\ \A n \in Nonces : \A i \in DOMAIN accepted[n] :
       LET entry == accepted[n][i] IN
       /\ entry.checked <= entry.at /\ entry.checked - entry.stamp \in -Skew..Skew
       /\ \E e \in Envelopes : e.nonce = n /\ e.stamp = entry.stamp
       /\ Aged(entry, ipcNow) \/ (n \in DOMAIN nonces /\ entry.at <= nonces[n])
       /\ \A j \in DOMAIN accepted[n] : i < j => accepted[n][j].seen < i \/ Aged(entry, accepted[n][j].checked)
  /\ \A c \in Calls : calls[c].at = "enter" =>
       /\ calls[c].seen <= Len(accepted[calls[c].env.nonce])
       /\ calls[c].checked <= ipcNow /\ calls[c].checked - calls[c].env.stamp \in -Skew..Skew
       /\ \A i \in DOMAIN accepted[calls[c].env.nonce] :
            calls[c].seen < i \/ Aged(accepted[calls[c].env.nonce][i], calls[c].checked)

\* What a call has been shown to hold, it has held since it came.
EntitledInv ==
  \A c \in Calls : calls[c] # Idle =>
    /\ calls[c].at # "done" =>
         /\ HeldBy(calls[c].env.source, grants) \subseteq calls[c].held
         /\ Trusted(calls[c].env.source, agents) => calls[c].trusted
    /\ calls[c].at \in {"caps", "done"} => calls[c].trusted
    /\ calls[c].env.caps \ calls[c].todo \subseteq calls[c].held
    /\ calls[c].at = "done" => calls[c].todo = {}

\* The window of an agent that passed in this second is this second's.
PassedAt(a, t) == Cardinality({i \in DOMAIN passed[a] : passed[a][i] = t})
LimitsInv ==
  /\ LimitsHold
  /\ \A a \in IpcAgents : \A i \in DOMAIN passed[a] : passed[a][i] <= ipcNow
  /\ \A a \in IpcAgents :
       PassedAt(a, ipcNow) <= IF a \in DOMAIN windows /\ windows[a].start = ipcNow THEN windows[a].count ELSE 0
  /\ sweep \cup Stale \subseteq lapsed

AgentIpcInv == AgentIpcTypeOK /\ AgentIpcShapes /\ NoncesInv /\ EntitledInv /\ LimitsInv
===============================================================================
