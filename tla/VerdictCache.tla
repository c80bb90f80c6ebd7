----------------------------- MODULE VerdictCache -----------------------------
(***************************************************************************)
(* HAL's cache of verdicts (hal/src/authority_compressor.rs): bounded, the *)
(* oldest insertion evicted first, entries expiring after a time to live,  *)
(* irreversible actions never cached, everything dropped when a policy,    *)
(* the trust or a capability changes.  VerdictMemo states what a caller    *)
(* may rely on; this module implements it.                                 *)
(***************************************************************************)
EXTENDS Integers, Sequences, SequencesExt

CONSTANTS
  CacheKeys,     \* digests of (agent, action, target, parameters)
  CacheVerdicts, \* the contents of a verdict
  CacheCapacity, CacheTTL,
  MaxCacheTime   \* bound: the clock

ASSUME CacheAssumption == CacheCapacity \in Nat \ {0} /\ {CacheTTL, MaxCacheTime} \subseteq Nat

VARIABLES
  cacheInner,  \* LruCache.inner: digest -> verdict
  cacheOrder,  \* LruCache.insert_order
  cacheHits,   \* digest -> hit count
  cacheNow,
  cacheAnswer, \* what the last call of compress was asked and returned
  cacheLatest  \* history: the verdict last stored for a digest since the last invalidation
cacheVars == <<cacheInner, cacheOrder, cacheHits, cacheNow, cacheAnswer, cacheLatest>>

HitCap == 2  \* bound: hit counts, which nothing reads back
NoVerdict == [hit |-> FALSE]
Verdict == [says : CacheVerdicts, issued : 0..MaxCacheTime]
Dropping(f, k) == [x \in DOMAIN f \ {k} |-> f[x]]
Putting(f, k, v) == [x \in DOMAIN f \cup {k} |-> IF x = k THEN v ELSE f[x]]

CacheInit ==
  /\ cacheInner = <<>> /\ cacheOrder = <<>> /\ cacheHits = <<>> /\ cacheLatest = <<>>
  /\ cacheNow = 0 /\ cacheAnswer = NoVerdict

LruInsertTwice(k, v) ==
  LET full == Cardinality(DOMAIN cacheInner) >= CacheCapacity /\ cacheOrder # <<>>
      kept == IF full THEN Dropping(cacheInner, Head(cacheOrder)) ELSE cacheInner IN
  /\ cacheInner' = Putting(kept, k, v)
  /\ cacheOrder' = Append(IF full THEN Tail(cacheOrder) ELSE cacheOrder, k)
LruInsertOnce(k, v) ==
  LET full == Cardinality(DOMAIN cacheInner) >= CacheCapacity /\ cacheOrder # <<>>
      kept == IF full THEN Dropping(cacheInner, Head(cacheOrder)) ELSE cacheInner IN
  IF k \in DOMAIN cacheInner THEN UNCHANGED <<cacheInner, cacheOrder>>
  ELSE /\ cacheInner' = Putting(kept, k, v)
       /\ cacheOrder' = Append(IF full THEN Tail(cacheOrder) ELSE cacheOrder, k)
\* LruCache::insert: a new key evicts the oldest one of a full cache.
LruInsert(k, v) ==
  LET full == Cardinality(DOMAIN cacheInner) >= CacheCapacity /\ cacheOrder # <<>>
      kept == IF full THEN Dropping(cacheInner, Head(cacheOrder)) ELSE cacheInner IN
  IF k \in DOMAIN cacheInner
  THEN cacheInner' = Putting(cacheInner, k, v) /\ UNCHANGED cacheOrder
  ELSE /\ cacheInner' = Putting(kept, k, v)
       /\ cacheOrder' = Append(IF full THEN Tail(cacheOrder) ELSE cacheOrder, k)

CachingAll(irreversible) == TRUE
\* The test store and compress begin with.
Caching(irreversible) == ~irreversible
\* store: the verdict may have been issued at any earlier time.
CacheStore(k, irreversible, v) ==
  /\ v.issued <= cacheNow
  /\ IF Caching(irreversible) THEN LruInsert(k, v) /\ cacheHits' = Putting(cacheHits, k, 0)
     ELSE UNCHANGED <<cacheInner, cacheOrder, cacheHits>>
  /\ cacheLatest' = IF irreversible THEN cacheLatest ELSE Putting(cacheLatest, k, v)
  /\ UNCHANGED <<cacheNow, cacheAnswer>>

CacheHitExpired(k, irreversible) == Caching(irreversible) /\ k \in DOMAIN cacheInner
\* compress: an expired entry is left where it is.  A hit counts.
CacheHit(k, irreversible) ==
  Caching(irreversible) /\ k \in DOMAIN cacheInner /\ cacheNow - cacheInner[k].issued <= CacheTTL
Compress(k, irreversible) ==
  LET n == IF k \in DOMAIN cacheHits THEN cacheHits[k] + 1 ELSE 1 IN
  /\ IF CacheHit(k, irreversible)
     THEN /\ cacheHits' = Putting(cacheHits, k, IF n > HitCap THEN HitCap ELSE n)
          /\ cacheAnswer' = [hit |-> TRUE, key |-> k, irreversible |-> irreversible,
                             verdict |-> cacheInner[k], at |-> cacheNow]
     ELSE cacheAnswer' = NoVerdict /\ UNCHANGED cacheHits
  /\ UNCHANGED <<cacheInner, cacheOrder, cacheNow, cacheLatest>>

LruClearOrder == cacheOrder' = <<>> /\ UNCHANGED cacheInner
\* LruCache::clear
LruClear == cacheInner' = <<>> /\ cacheOrder' = <<>>
CacheInvalidate ==
  /\ LruClear /\ cacheHits' = <<>> /\ cacheLatest' = <<>>
  /\ UNCHANGED <<cacheNow, cacheAnswer>>

CacheTick ==
  /\ cacheNow < MaxCacheTime /\ cacheNow' = cacheNow + 1
  /\ UNCHANGED <<cacheInner, cacheOrder, cacheHits, cacheAnswer, cacheLatest>>

CacheNext ==
  \/ \E k \in CacheKeys, irreversible \in BOOLEAN :
       \/ Compress(k, irreversible)
       \/ \E v \in Verdict : CacheStore(k, irreversible, v)
  \/ CacheInvalidate \/ CacheTick

CacheTypeOK ==
  /\ DOMAIN cacheInner \subseteq CacheKeys /\ cacheOrder \in Seq(CacheKeys)
  /\ \A k \in DOMAIN cacheInner : cacheInner[k] \in Verdict
  /\ DOMAIN cacheHits \subseteq CacheKeys /\ cacheNow \in 0..MaxCacheTime

(***************************************************************************)
(* The eviction list and the map list the same digests, each once: if they *)
(* came apart, eviction would remove nothing and the cache grow without    *)
(* bound, or an entry could never be evicted (LruCache::insert, clear).    *)
(***************************************************************************)
CacheBookkeeping ==
  /\ ToSet(cacheOrder) = DOMAIN cacheInner
  /\ Len(cacheOrder) = Cardinality(DOMAIN cacheInner)
  /\ Len(cacheOrder) <= CacheCapacity

\* Inductive: no digest is listed twice, and what is cached is what was stored last.
CacheCurrent == \A k \in DOMAIN cacheInner : k \in DOMAIN cacheLatest /\ cacheInner[k] = cacheLatest[k]
CacheInv == CacheTypeOK /\ CacheBookkeeping /\ IsInjective(cacheOrder) /\ CacheCurrent

Memo == INSTANCE VerdictMemo WITH memo <- cacheLatest, now <- cacheNow, answer <- cacheAnswer

(***************************************************************************)
(* The cache implements the memo: what compress returns is the verdict     *)
(* stored last for that digest since the last invalidation, not older than *)
(* the time to live, and never for an irreversible action, nor a verdict   *)
(* reached for one (compress, store, invalidate, LruCache::insert, clear). *)
(***************************************************************************)
CacheServesFresh == Memo!MemoSpec
================================================================================
