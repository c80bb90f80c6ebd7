---------------------------- MODULE ModelRuntime ----------------------------
(***************************************************************************)
(* llm/llama_cpp: ModelPool (model_pool.rs), the requests in flight of     *)
(* InferenceEngine (inference_engine.rs), LlmContext (context.rs); and     *)
(* hypervisor/: HypervisorRuntime (runtime.rs) with its AuthorityVms       *)
(* (authority_vm.rs).  load_model is external: libllama is not linked yet  *)
(* and the binding fails every load, here it loads or fails.               *)
(***************************************************************************)
EXTENDS Integers, Sequences, FiniteSets, SequencesExt

CONSTANTS
  ModelSizes,               \* model id -> the sizes its file may be found to have, 0 if it is unreadable
  CapacityBytes,
  Clients, Targets,         \* callers of the pool; free bytes evict_lru is asked for
  Completions,              \* calls of complete and complete_stream
  ContextTokens, MaxTokens, \* the window's size; bound of the tokens appended
  Vms, MaxTurns             \* VM ids; bound of a VM's waiting time counted

ASSUME ModelRuntimeAssumption ==
  /\ IsFiniteSet(DOMAIN ModelSizes) /\ \A m \in DOMAIN ModelSizes : ModelSizes[m] \subseteq Nat
  /\ IsFiniteSet(Clients)
  /\ {CapacityBytes, ContextTokens, MaxTokens, MaxTurns} \subseteq Nat

VARIABLES
  resident, refs, usedBytes, \* ModelPool.models in the order of last_used, refcounts, used_bytes
  counted,                   \* size_bytes of each resident model's entry
  unreleased,                \* history: each client's acquires without a release
  overReleased,              \* history: models released more often than acquired
  inFlight, calls,           \* in_flight ids; each call's progress
  window, slotsUsed, head,   \* LlmContext: tokens and KV-cache state
  appended,                  \* history: tokens appended since the last reset
  vmQueue, vmState, waited   \* the scheduler's queue, the VMs; history: turns since a VM's last
poolVars == <<resident, refs, usedBytes, counted, unreleased, overReleased>>
callVars == <<inFlight, calls>>
contextVars == <<window, slotsUsed, head, appended>>
vmVars == <<vmQueue, vmState, waited>>
runtimeVars == <<resident, refs, usedBytes, counted, unreleased, overReleased, inFlight, calls,
                 window, slotsUsed, head, appended, vmQueue, vmState, waited>>

Models == DOMAIN ModelSizes
RuntimeInit ==
  /\ resident = <<>> /\ refs = [m \in Models |-> 0] /\ usedBytes = 0 /\ overReleased = {}
  /\ counted = [m \in Models |-> 0]
  /\ unreleased = [c \in Clients |-> {}]
  /\ inFlight = {} /\ calls = [r \in Completions |-> "new"]
  /\ window = <<>> /\ slotsUsed = 0 /\ head = 0 /\ appended = 0
  /\ vmQueue = <<>> /\ vmState = [v \in Vms |-> "none"] /\ waited = [v \in Vms |-> 0]

-------------------------------------------------------------------------------
Loaded == ToSet(resident)
FreeBytes == IF usedBytes > CapacityBytes THEN 0 ELSE CapacityBytes - usedBytes
Others(m) == RemoveFirst(resident, m)
SizeOf(s) == SumFunctionOnSet(counted, s)

\* load: a file whose size cannot be read is counted as 0 bytes.
Load(m, bytes) ==
  /\ m \notin Loaded /\ bytes <= FreeBytes
  /\ resident' = Append(resident, m) /\ refs' = [refs EXCEPT ![m] = 0]
  /\ usedBytes' = usedBytes + bytes /\ counted' = [counted EXCEPT ![m] = bytes]
  /\ UNCHANGED <<unreleased, overReleased, callVars, contextVars, vmVars>>
IsIdleAlways(m) == TRUE
\* A model is idle when its count is zero, whoever still keeps an Arc of it (the Arc keeps the memory).
IsIdle(m) == refs[m] = 0
Unload(m) ==
  /\ m \in Loaded /\ IsIdle(m) /\ resident' = Others(m)
  /\ usedBytes' = usedBytes - counted[m] /\ counted' = [counted EXCEPT ![m] = 0]
  /\ UNCHANGED <<refs, unreleased, overReleased, callVars, contextVars, vmVars>>
Acquire(c, m) ==
  /\ m \in Loaded /\ m \notin unreleased[c]
  /\ refs' = [refs EXCEPT ![m] = @ + 1] /\ resident' = Append(Others(m), m)
  /\ unreleased' = [unreleased EXCEPT ![c] = @ \cup {m}]
  /\ UNCHANGED <<usedBytes, counted, overReleased, callVars, contextVars, vmVars>>
\* release names a model, not a handle, and stops at zero.
Release(c, m) ==
  /\ m \in Loaded /\ refs' = [refs EXCEPT ![m] = IF @ = 0 THEN 0 ELSE @ - 1]
  /\ unreleased' = [unreleased EXCEPT ![c] = @ \ {m}]
  /\ overReleased' = (IF m \in unreleased[c] THEN overReleased ELSE overReleased \cup {m})
  /\ UNCHANGED <<resident, usedBytes, counted, callVars, contextVars, vmVars>>
\* evict_lru: idle models, least recently used first, until enough bytes are free.
EvictLru(target) ==
  LET left[k \in 0..Len(resident)] == \* resident after k candidates
        IF k = 0 THEN resident
        ELSE IF IsIdle(resident[k]) /\ FreeBytes + SizeOf(Loaded \ ToSet(left[k - 1])) < target
        THEN RemoveFirst(left[k - 1], resident[k]) ELSE left[k - 1]
      kept == left[Len(resident)] IN
  /\ kept # resident /\ resident' = kept /\ usedBytes' = usedBytes - SizeOf(Loaded \ ToSet(kept))
  /\ counted' = [m \in Models |-> IF m \in ToSet(kept) THEN counted[m] ELSE 0]
  /\ UNCHANGED <<refs, unreleased, overReleased, callVars, contextVars, vmVars>>

-------------------------------------------------------------------------------
\* complete and complete_stream: an entry under the lock, removed by the future or by the stream's first poll.
CallStarts(r) ==
  /\ calls[r] = "new" /\ calls' = [calls EXCEPT ![r] = "running"] /\ inFlight' = inFlight \cup {r}
  /\ UNCHANGED <<poolVars, contextVars, vmVars>>
CallEnds(r) ==
  /\ calls[r] = "running" /\ calls' = [calls EXCEPT ![r] = "ended"] /\ inFlight' = inFlight \ {r}
  /\ UNCHANGED <<poolVars, contextVars, vmVars>>
\* The caller drops the future, or a stream it never polled: nothing removes the entry.
CallDropped(r) ==
  /\ calls[r] = "running" /\ calls' = [calls EXCEPT ![r] = "dropped"]
  /\ UNCHANGED <<inFlight, poolVars, contextVars, vmVars>>

-------------------------------------------------------------------------------
FitsLoose(k) == Len(window) <= ContextTokens
Fits(k) == Len(window) + k <= ContextTokens
AppendTokens(k) ==
  /\ Fits(k) /\ appended + k <= MaxTokens /\ appended' = appended + k
  /\ window' = window \o [i \in 1..k |-> appended + i] /\ slotsUsed' = Len(window) + k
  /\ UNCHANGED <<head, poolVars, callVars, vmVars>>
ShiftTokens(n) ==
  LET d == Min({n, Len(window)}) IN
  /\ window' = SubSeq(window, d + 1, Len(window)) /\ head' = head + d /\ slotsUsed' = Len(window) - d
  /\ UNCHANGED <<appended, poolVars, callVars, vmVars>>
ResetContext ==
  /\ window' = <<>> /\ slotsUsed' = 0 /\ head' = 0 /\ appended' = 0
  /\ UNCHANGED <<poolVars, callVars, vmVars>>

-------------------------------------------------------------------------------
\* spawn and kill need the runtime that `run' borrows, so they fall between two runs.
Spawn(v) ==
  /\ vmState[v] = "none" /\ vmState' = [vmState EXCEPT ![v] = "halted"]
  /\ vmQueue' = Append(vmQueue, v) /\ waited' = [waited EXCEPT ![v] = 0]
  /\ UNCHANGED <<poolVars, callVars, contextVars>>
Kill(v) ==
  /\ vmState[v] # "none" /\ vmState' = [vmState EXCEPT ![v] = "none"]
  /\ vmQueue' = RemoveFirst(vmQueue, v)
  /\ UNCHANGED <<waited, poolVars, callVars, contextVars>>
RotatedBack == IF Len(vmQueue) < 3 THEN vmQueue ELSE <<vmQueue[2], vmQueue[1]>> \o SubSeq(vmQueue, 3, Len(vmQueue))
Rotated == Append(Tail(vmQueue), Head(vmQueue))
\* One turn of run: the head's program runs to its halt and the head goes to the back.
Turn ==
  /\ vmQueue # <<>> /\ vmQueue' = Rotated
  /\ vmState' = [vmState EXCEPT ![Head(vmQueue)] = "halted"]
  /\ waited' = [v \in Vms |-> IF v = Head(vmQueue) \/ vmState[v] = "none" THEN 0 ELSE Min({waited[v] + 1, MaxTurns})]
  /\ UNCHANGED <<poolVars, callVars, contextVars>>
\* invoke_host_call: every capability is granted, the VM ends up running, even a halted one.
InvokeHostCall(v) ==
  /\ vmState[v] # "none" /\ vmState' = [vmState EXCEPT ![v] = "running"]
  /\ UNCHANGED <<vmQueue, waited, poolVars, callVars, contextVars>>

-------------------------------------------------------------------------------
PoolIdle == resident = <<>> /\ overReleased = {} /\ unreleased = [c \in Clients |-> {}]
RuntimeNext ==
  \/ /\ appended = 0 /\ inFlight = {} /\ vmQueue = <<>>
     /\ \/ \E m \in Models : Unload(m) \/ \E bytes \in ModelSizes[m] : Load(m, bytes)
        \/ \E c \in Clients, m \in Models : Acquire(c, m) \/ Release(c, m)
        \/ \E b \in Targets : EvictLru(b)
  \/ /\ PoolIdle /\ appended = 0 /\ vmQueue = <<>>
     /\ \E r \in Completions : CallStarts(r) \/ CallEnds(r) \/ CallDropped(r)
  \/ /\ PoolIdle /\ inFlight = {} /\ vmQueue = <<>>
     /\ \/ \E k \in 1..ContextTokens : AppendTokens(k)
        \/ \E n \in 1..ContextTokens + 1 : ShiftTokens(n)
        \/ ResetContext
  \/ /\ PoolIdle /\ inFlight = {} /\ appended = 0
     /\ Turn \/ \E v \in Vms : Spawn(v) \/ Kill(v) \/ InvokeHostCall(v)

RuntimeTypeOK ==
  /\ refs \in [Models -> 0..Cardinality(Clients)] /\ usedBytes \in 0..CapacityBytes
  /\ unreleased \in [Clients -> SUBSET Models] /\ inFlight \subseteq Completions
  /\ vmState \in [Vms -> {"none", "halted", "running"}] /\ waited \in [Vms -> 0..MaxTurns]

Holders(m) == {c \in Clients : m \in unreleased[c]}

(***************************************************************************)
(* used_bytes is the sum of the sizes the resident models were loaded with *)
(* and within the capacity, whatever was loaded again with another size; a *)
(* model nobody released too often counts its holders and stays while one  *)
(* has not released it.  (An Arc kept past its release, or an extra        *)
(* release, lets the model go while its memory is in use; a model whose    *)
(* size could not be read takes memory that is not counted.)               *)
(***************************************************************************)
PoolSound ==
  /\ usedBytes = SizeOf(Loaded) /\ usedBytes <= CapacityBytes /\ Len(resident) = Cardinality(Loaded)
  /\ \A m \in Models \ overReleased :
       /\ m \in Loaded => refs[m] = Cardinality(Holders(m))
       /\ Holders(m) # {} => m \in Loaded

(***************************************************************************)
(* A request in flight is running, or its caller left before the entry's   *)
(* removal: those entries stay for the life of the engine.                 *)
(***************************************************************************)
InFlightKnown == inFlight = {r \in Completions : calls[r] \in {"running", "dropped"}}

(***************************************************************************)
(* The window holds the latest tokens since the reset in order, no more    *)
(* than its size; slots and head agree with it after any mix of calls.     *)
(***************************************************************************)
WindowSound ==
  /\ slotsUsed = Len(window) /\ Len(window) <= ContextTokens /\ head + slotsUsed = appended
  /\ \A i \in 1..Len(window) : window[i] = head + i

(***************************************************************************)
(* Every VM is queued once, and the longer one has waited the nearer it is *)
(* to its turn: none is overtaken.                                         *)
(***************************************************************************)
TurnsFair ==
  /\ ToSet(vmQueue) = {v \in Vms : vmState[v] # "none"}
  /\ Len(vmQueue) = Cardinality({v \in Vms : vmState[v] # "none"})
  /\ \A i, j \in 1..Len(vmQueue) : i < j => waited[vmQueue[i]] >= waited[vmQueue[j]]

(* The four are inductive with the types they need: in PoolSound no model   *)
(* is listed twice and none counts more references than it has holders.     *)
PoolInv ==
  /\ resident \in Seq(Models) /\ IsInjective(resident)
  /\ refs \in [Models -> Nat] /\ counted \in [Models -> Nat] /\ unreleased \in [Clients -> SUBSET Models]
  /\ \A m \in Models : refs[m] <= Cardinality(Holders(m))
  /\ PoolSound
CallsInv == calls \in [Completions -> {"new", "running", "ended", "dropped"}] /\ InFlightKnown
WindowInv == window \in Seq(Nat) /\ head \in Nat /\ appended \in Nat /\ WindowSound
TurnsInv ==
  /\ vmQueue \in Seq(Vms) /\ IsInjective(vmQueue)
  /\ vmState \in [Vms -> {"none", "halted", "running"}] /\ waited \in [Vms -> 0..MaxTurns]
  /\ TurnsFair
================================================================================
