-------------------------------- MODULE Anfs --------------------------------
(***************************************************************************)
(* anfs/: the overlay's FUSE handlers (overlay.rs), which ask AnfsSecurity *)
(* (security.rs) and append to the Journal (journal.rs) before they would  *)
(* act, and AnfsCache (cache.rs).  The backing store is a stub in the      *)
(* code: handlers reply ENOSYS after the journal, so checks, audit and     *)
(* journal are all the state there is.                                     *)
(***************************************************************************)
EXTENDS Integers, Sequences, FiniteSets, SequencesExt

CONSTANTS
  AuditCapacity,              \* AuditHandle.capacity
  DataCapacity, MetaCapacity, \* capacities of the two LruCaches
  CachePaths, Lengths,
  MaxChecks, MaxInserts       \* bounds: decisions, cache insertions

ASSUME AnfsAssumption ==
  /\ {AuditCapacity, DataCapacity, MetaCapacity} \subseteq Nat \ {0}
  /\ Lengths \subseteq Nat /\ {MaxChecks, MaxInserts} \subseteq Nat

VARIABLES
  lattice,                  \* agent -> capabilities; an agent without an entry is unknown
  auditBuffer, checks,      \* the ring of decisions; history: how many were made
  journal, sequence,        \* entries and next sequence number
  checkpointed,             \* history: entries dropped by checkpoints
  dataCache, metaCache,     \* LruCaches: the order of keys and each key's value
  cacheBytes, inserts       \* current_bytes; number of insertions
overlayVars == <<lattice, auditBuffer, checks, journal, sequence, checkpointed>>
cacheVars == <<dataCache, metaCache, cacheBytes, inserts>>
anfsVars == <<lattice, auditBuffer, checks, journal, sequence, checkpointed,
              dataCache, metaCache, cacheBytes, inserts>>

DefaultAgent == "anfs:default"
Agents == {DefaultAgent, "cognos.hal", "cognos.security", "cognos.anfs"}
DefaultLattice == [a \in Agents |->
  CASE a = "cognos.hal" -> {"hal", "root"} [] a = "cognos.security" -> {"security"}
    [] a = "cognos.anfs" -> {"anfs", "hal"} [] OTHER -> {}]
EmptyCache == [order |-> <<>>, value |-> <<>>]
AnfsInit ==
  /\ lattice = DefaultLattice /\ auditBuffer = <<>> /\ checks = 0
  /\ journal = <<>> /\ sequence = 0 /\ checkpointed = 0
  /\ dataCache = EmptyCache /\ metaCache = EmptyCache /\ cacheBytes = 0 /\ inserts = 0

-------------------------------------------------------------------------------
Knows(agent) == lattice[agent] # {}
Grant(agent, cap) ==
  /\ lattice' = [lattice EXCEPT ![agent] = @ \cup {cap}]
  /\ UNCHANGED <<auditBuffer, checks, journal, sequence, checkpointed, cacheVars>>

\* restricted_path_requirements; the empty set stands for None.
Required(path) ==
  CASE path = "~/.cognos" -> {"hal", "anfs"}
    [] path = "/etc/cognos" -> {"hal", "security"}
    [] path = "~/.ssh" -> {"security"}
    [] OTHER -> {}
Allowed(agent, path) ==
  Knows(agent) /\ (Required(path) = {} \/ lattice[agent] \cap Required(path) # {})

EmitLate(decision) ==
  Append(IF Len(auditBuffer) > AuditCapacity THEN Tail(auditBuffer) ELSE auditBuffer, decision)
Emit(decision) ==
  Append(IF Len(auditBuffer) >= AuditCapacity THEN Tail(auditBuffer) ELSE auditBuffer, decision)
\* check: every decision is emitted, then returned.
Check(agent, path) ==
  /\ checks < MaxChecks /\ checks' = checks + 1
  /\ auditBuffer' = Emit([n |-> checks + 1, agent |-> agent, path |-> path, allowed |-> Allowed(agent, path)])
CheckOnly(agent, path) ==
  Check(agent, path) /\ UNCHANGED <<lattice, journal, sequence, checkpointed, cacheVars>>

JournalAppend(entry) == journal' = Append(journal, entry) /\ sequence' = sequence + 1
\* lookup, getattr, read, readdir: the verdict is discarded.
Observe(path) == CheckOnly(DefaultAgent, path)
\* write, create, unlink, mkdir, rename: EACCES, or the entry is journalled whatever becomes of the operation.
MutateFirst(op, path) ==
  /\ Check(DefaultAgent, path)
  /\ JournalAppend([seq |-> sequence, check |-> checks + 1, op |-> op])
  /\ UNCHANGED <<lattice, checkpointed, cacheVars>>
Mutate(op, path) ==
  /\ Check(DefaultAgent, path)
  /\ IF Allowed(DefaultAgent, path)
     THEN JournalAppend([seq |-> sequence, check |-> checks + 1, op |-> op])
     ELSE UNCHANGED <<journal, sequence>>
  /\ UNCHANGED <<lattice, checkpointed, cacheVars>>
Checkpoint ==
  /\ journal # <<>> /\ journal' = <<>> /\ checkpointed' = checkpointed + Len(journal)
  /\ UNCHANGED <<lattice, auditBuffer, checks, sequence, cacheVars>>

-------------------------------------------------------------------------------
Has(cache, k) == k \in DOMAIN cache.value
\* retain drops the one place of k: insert lists a key once (OrderLists).
Without(order, k) == RemoveFirst(order, k)
DroppedValue(cache, k) == [order |-> cache.order, value |-> [x \in DOMAIN cache.value \ {k} |-> cache.value[x]]]
Dropped(cache, k) == [order |-> Without(cache.order, k), value |-> [x \in DOMAIN cache.value \ {k} |-> cache.value[x]]]
LruRemove(cache, k) == Dropped(cache, k)
\* LruCache::insert: a new key at capacity evicts the oldest insertion, however recently it was read.
Evicts(cache, k, capacity) == ~Has(cache, k) /\ Cardinality(DOMAIN cache.value) >= capacity
Insert(cache, k, v, capacity) ==
  LET room == IF Evicts(cache, k, capacity) THEN LruRemove(cache, Head(cache.order)) ELSE cache IN
  [order |-> IF Has(room, k) THEN room.order ELSE Append(room.order, k),
   value |-> [x \in DOMAIN room.value \cup {k} |-> IF x = k THEN v ELSE room.value[x]]]

\* insert: current_bytes grows by the whole length, what is replaced or evicted is not given back,
\* and max_bytes is only warned about.
CacheInsert(p, len) ==
  /\ inserts < MaxInserts /\ inserts' = inserts + 1
  /\ cacheBytes' = cacheBytes + len
  /\ dataCache' = Insert(dataCache, p, [len |-> len, dirty |-> FALSE], DataCapacity)
  /\ metaCache' = Insert(metaCache, p, len, MetaCapacity) /\ UNCHANGED overlayVars
MarkDirty(p) ==
  /\ Has(dataCache, p) /\ dataCache' = [dataCache EXCEPT !.value[p].dirty = TRUE]
  /\ UNCHANGED <<metaCache, cacheBytes, inserts, overlayVars>>
\* invalidate: a saturating subtraction.
Invalidate(p) ==
  LET len == IF Has(dataCache, p) THEN dataCache.value[p].len ELSE 0 IN
  /\ cacheBytes' = (IF cacheBytes > len THEN cacheBytes - len ELSE 0)
  /\ dataCache' = LruRemove(dataCache, p) /\ metaCache' = LruRemove(metaCache, p)
  /\ UNCHANGED <<inserts, overlayVars>>
\* flush_dirty: the marks are cleared and nothing is written.
FlushDirty ==
  /\ dataCache' = [dataCache EXCEPT !.value = [x \in DOMAIN @ |-> [@[x] EXCEPT !.dirty = FALSE]]]
  /\ UNCHANGED <<metaCache, cacheBytes, inserts, overlayVars>>

-------------------------------------------------------------------------------
Restricted == {"~/.cognos", "/etc/cognos", "~/.ssh"}
Mutations == {"write", "create", "delete", "mkdir", "rename"}
AnfsNext ==
  \/ /\ inserts = 0
     /\ \/ Grant(DefaultAgent, "anfs")
        \/ \E a \in Agents, p \in Restricted : CheckOnly(a, p)
        \/ Observe(".")
        \/ \E op \in Mutations : Mutate(op, ".")
        \/ Checkpoint
  \/ /\ checks = 0 /\ lattice = DefaultLattice
     /\ \/ \E p \in CachePaths, len \in Lengths : CacheInsert(p, len)
        \/ \E p \in CachePaths : MarkDirty(p) \/ Invalidate(p)
        \/ FlushDirty

AnfsTypeOK ==
  /\ lattice \in [Agents -> SUBSET {"hal", "root", "security", "anfs"}] /\ checks \in 0..MaxChecks
  /\ Len(auditBuffer) <= AuditCapacity /\ sequence \in 0..checks
  /\ DOMAIN dataCache.value \subseteq CachePaths /\ inserts \in 0..MaxInserts

(***************************************************************************)
(* The audit ring is the last decisions in order, however many came; each  *)
(* journal entry follows a decision to allow it and is numbered on from    *)
(* those a checkpoint dropped.                                             *)
(***************************************************************************)
JournalFollowsChecks ==
  /\ \A i \in 1..Len(auditBuffer) : auditBuffer[i].n = checks - Len(auditBuffer) + i
  /\ Len(auditBuffer) = Min({checks, AuditCapacity})
  /\ \A i \in 1..Len(journal) :
       /\ journal[i].seq = checkpointed + i - 1
       /\ \A j \in 1..Len(auditBuffer) : auditBuffer[j].n = journal[i].check => auditBuffer[j].allowed
  /\ sequence = checkpointed + Len(journal)

OrderLists(c) == ToSet(c.order) = DOMAIN c.value /\ Len(c.order) = Cardinality(DOMAIN c.value)
HeldBytes == [p \in DOMAIN dataCache.value |-> dataCache.value[p].len]

(***************************************************************************)
(* The order of each cache lists its keys once each and stays within its   *)
(* capacity, and current_bytes never tells of fewer bytes than are held    *)
(* (it may tell of more: it is not the bytes held).                        *)
(***************************************************************************)
CacheCounted ==
  /\ OrderLists(dataCache) /\ OrderLists(metaCache)
  /\ Cardinality(DOMAIN dataCache.value) <= DataCapacity /\ Cardinality(DOMAIN metaCache.value) <= MetaCapacity
  /\ cacheBytes >= SumFunction(HeldBytes)

(* JournalFollowsChecks is inductive once a journal entry is known to have *)
(* been checked before: no later decision can bear its number.             *)
Decision == [n : Nat, agent : Agents, path : Restricted \cup {"."}, allowed : BOOLEAN]
JournalInv ==
  /\ lattice \in [Agents -> SUBSET {"hal", "root", "security", "anfs"}]
  /\ checks \in 0..MaxChecks /\ checkpointed \in Nat
  /\ auditBuffer \in Seq(Decision)
  /\ journal \in Seq([seq : Nat, check : 1..checks, op : Mutations])
  /\ JournalFollowsChecks

(* CacheCounted is, once no key is listed twice. *)
LruInv(c) ==
  /\ c = [order |-> c.order, value |-> [p \in DOMAIN c.value |-> c.value[p]]]
  /\ c.order \in Seq(CachePaths) /\ IsInjective(c.order) /\ OrderLists(c)
CachesInv ==
  /\ LruInv(dataCache) /\ \A p \in DOMAIN dataCache.value : dataCache.value[p] \in [len : Nat, dirty : BOOLEAN]
  /\ LruInv(metaCache) /\ \A p \in DOMAIN metaCache.value : metaCache.value[p] \in Nat
  /\ cacheBytes \in Nat /\ inserts \in 0..MaxInserts
  /\ CacheCounted
================================================================================
