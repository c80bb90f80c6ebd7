------------------------------- MODULE HalProofs -------------------------------
(***************************************************************************)
(* HAL's components for every value of their constants: the verdict cache  *)
(* implements the memo and keeps its books, the rules in force are the     *)
(* rules installed, an agent's initiative is bounded, what was written     *)
(* down can be read back, and a decider never loosens.                     *)
(***************************************************************************)
EXTENDS MCHal, ProofLemmas, TLAPS

(* A step drives one component and leaves the others as they are. *)
LEMMA OneDriven ==
  ASSUME [Next]_vars
  PROVE  /\ [CalNext]_calVars /\ [CacheNext]_cacheVars /\ [PreloadNext]_preloadVars
         /\ [AssessNext]_assessVars /\ [TrustNext]_trustVars /\ [ActivityNext]_activityVars
         /\ [PrivilegeNext]_privilegeVars /\ [GovernanceNext]_governanceVars
         /\ [ContinuityNext]_continuityVars /\ [RecordsNext]_recordVars /\ [GuardsNext]_guardsVars
<1>1. CASE UNCHANGED vars
  BY <1>1 DEF vars
<1>2. CASE Next
  BY <1>2 DEF Next
<1> QED
  BY <1>1, <1>2

-------------------------------------------------------------------------------
(* The verdict cache. *)

(* An empty cache keeps its books (AuthorityCompressor::new, invalidate). *)
LEMMA EmptyCacheBooks ==
  ASSUME cacheInner = <<>>, cacheOrder = <<>>
  PROVE  CacheBookkeeping /\ IsInjective(cacheOrder)
<1>1. DOMAIN cacheInner = {} /\ ToSet(cacheOrder) = {} /\ Len(cacheOrder) = 0
  BY DEF ToSet
<1>2. Cardinality({}) = 0
  BY FS_EmptySet
<1> QED
  BY <1>1, <1>2, CacheAssumption DEF CacheBookkeeping, IsInjective

LEMMA CacheInitial ==
  ASSUME CacheInit
  PROVE  CacheInv
<1>1. CacheTypeOK
  BY CacheAssumption DEF CacheInit, CacheTypeOK
<1>2. CacheCurrent
  BY DEF CacheInit, CacheCurrent
<1> QED
  BY <1>1, <1>2, EmptyCacheBooks DEF CacheInit, CacheInv

(* An insertion of a listed digest lists nothing new; any other one lists  *)
(* it last, and first unlists the oldest of a full cache (LruCache::insert). *)
LEMMA InsertBooks ==
  ASSUME CacheInv, NEW k \in CacheKeys, NEW v \in Verdict, LruInsert(k, v)
  PROVE  /\ CacheBookkeeping' /\ IsInjective(cacheOrder)' /\ cacheOrder' \in Seq(CacheKeys)
         /\ DOMAIN cacheInner' \subseteq CacheKeys /\ \A x \in DOMAIN cacheInner' : cacheInner'[x] \in Verdict
         /\ \E kept \in SUBSET DOMAIN cacheInner :
              cacheInner' = [x \in kept \cup {k} |-> IF x = k THEN v ELSE cacheInner[x]]
<1> DEFINE full == Cardinality(DOMAIN cacheInner) >= CacheCapacity /\ cacheOrder # <<>>
<1>1. /\ cacheOrder \in Seq(CacheKeys) /\ IsInjective(cacheOrder)
      /\ DOMAIN cacheInner \subseteq CacheKeys /\ \A x \in DOMAIN cacheInner : cacheInner[x] \in Verdict
      /\ ToSet(cacheOrder) = DOMAIN cacheInner /\ Len(cacheOrder) <= CacheCapacity
      /\ Cardinality(DOMAIN cacheInner) = Len(cacheOrder) /\ CacheCapacity \in Nat \ {0}
  BY CacheAssumption DEF CacheInv, CacheTypeOK, CacheBookkeeping
<1>2. CASE k \in DOMAIN cacheInner
  <2>1. cacheOrder' = cacheOrder /\ cacheInner' = Putting(cacheInner, k, v)
    BY <1>2 DEF LruInsert
  <2>2. DOMAIN cacheInner' = DOMAIN cacheInner
    BY <1>2, <2>1 DEF Putting
  <2>3. \A x \in DOMAIN cacheInner' : cacheInner'[x] \in Verdict
    BY <1>1, <2>1, <2>2 DEF Putting
  <2>4. cacheInner' = [x \in DOMAIN cacheInner \cup {k} |-> IF x = k THEN v ELSE cacheInner[x]]
    BY <2>1 DEF Putting
  <2>5. CacheBookkeeping' /\ IsInjective(cacheOrder)'
    BY <1>1, <2>1, <2>2 DEF CacheBookkeeping
  <2> QED
    BY <1>1, <2>1, <2>2, <2>3, <2>4, <2>5
<1>3. CASE k \notin DOMAIN cacheInner
  <2> DEFINE list == IF full THEN Tail(cacheOrder) ELSE cacheOrder
             kept == IF full THEN DOMAIN cacheInner \ {Head(cacheOrder)} ELSE DOMAIN cacheInner
  <2>1. /\ list \in Seq(CacheKeys) /\ IsInjective(list) /\ ToSet(list) = kept /\ Len(list) < CacheCapacity
    <3>1. CASE full
      <4>1. /\ Tail(cacheOrder) \in Seq(CacheKeys) /\ IsInjective(Tail(cacheOrder))
            /\ Len(Tail(cacheOrder)) = Len(cacheOrder) - 1
            /\ ToSet(Tail(cacheOrder)) = ToSet(cacheOrder) \ {Head(cacheOrder)}
        BY <1>1, <3>1, ListTail
      <4>2. Len(cacheOrder) - 1 < CacheCapacity /\ Len(cacheOrder) \in Nat
        BY <1>1
      <4> QED
        BY <1>1, <3>1, <4>1, <4>2
    <3>2. CASE ~full
      <4>1. Len(cacheOrder) < CacheCapacity
        BY <1>1, <3>2
      <4> QED
        BY <1>1, <3>2, <4>1
    <3> QED
      BY <3>1, <3>2
  <2>2. cacheOrder' = Append(list, k)
    BY <1>3 DEF LruInsert
  <2>3. cacheInner' = [x \in kept \cup {k} |-> IF x = k THEN v ELSE cacheInner[x]]
    BY <1>3 DEF LruInsert, Putting, Dropping
  <2>4. kept \subseteq DOMAIN cacheInner /\ k \notin kept
    BY <1>3
  <2> HIDE DEF list, kept, full
  <2>5. /\ cacheOrder' \in Seq(CacheKeys) /\ IsInjective(cacheOrder') /\ Len(cacheOrder') = Len(list) + 1
        /\ ToSet(cacheOrder') = kept \cup {k}
    BY <2>1, <2>2, <2>4, ListAppend
  <2>6. DOMAIN cacheInner' = kept \cup {k}
    BY <2>3
  <2>7. Cardinality(DOMAIN cacheInner') = Len(cacheOrder')
    BY <2>5, <2>6, ListedOnce
  <2>8. Len(cacheOrder') <= CacheCapacity
    BY <2>1, <2>5, <1>1
  <2>9. \A x \in DOMAIN cacheInner' : cacheInner'[x] \in Verdict
    BY <1>1, <2>3, <2>4
  <2> QED
    BY <1>1, <2>3, <2>4, <2>5, <2>6, <2>7, <2>8, <2>9 DEF CacheBookkeeping
<1> QED
  BY <1>2, <1>3

LEMMA CacheStep ==
  ASSUME CacheInv, [CacheNext]_cacheVars
  PROVE  CacheInv'
<1>1. /\ cacheOrder \in Seq(CacheKeys) /\ DOMAIN cacheInner \subseteq CacheKeys
      /\ \A x \in DOMAIN cacheInner : cacheInner[x] \in Verdict
      /\ DOMAIN cacheHits \subseteq CacheKeys /\ cacheNow \in 0..MaxCacheTime /\ MaxCacheTime \in Nat
      /\ CacheBookkeeping /\ IsInjective(cacheOrder) /\ CacheCurrent
  BY CacheAssumption DEF CacheInv, CacheTypeOK
<1>2. ASSUME NEW k \in CacheKeys, NEW irreversible \in BOOLEAN, NEW v \in Verdict, CacheStore(k, irreversible, v)
      PROVE  CacheInv'
  <2>1. CASE irreversible
    <3>1. UNCHANGED <<cacheInner, cacheOrder, cacheHits, cacheNow, cacheLatest>>
      BY <1>2, <2>1 DEF CacheStore, Caching
    <3> QED
      BY <1>1, <3>1 DEF CacheInv, CacheTypeOK, CacheBookkeeping, CacheCurrent
  <2>2. CASE ~irreversible
    <3>1. /\ LruInsert(k, v) /\ cacheHits' = Putting(cacheHits, k, 0) /\ cacheNow' = cacheNow
          /\ cacheLatest' = Putting(cacheLatest, k, v)
      BY <1>2, <2>2 DEF CacheStore, Caching
    <3>2. /\ CacheBookkeeping' /\ IsInjective(cacheOrder)' /\ cacheOrder' \in Seq(CacheKeys)
          /\ DOMAIN cacheInner' \subseteq CacheKeys /\ \A x \in DOMAIN cacheInner' : cacheInner'[x] \in Verdict
      BY <3>1, InsertBooks
    <3>3. DOMAIN cacheHits' \subseteq CacheKeys
      BY <1>1, <3>1 DEF Putting
    <3>4. PICK kept \in SUBSET DOMAIN cacheInner :
                 cacheInner' = [x \in kept \cup {k} |-> IF x = k THEN v ELSE cacheInner[x]]
      BY <3>1, InsertBooks
    <3>5. cacheLatest' = [x \in DOMAIN cacheLatest \cup {k} |-> IF x = k THEN v ELSE cacheLatest[x]]
      BY <3>1 DEF Putting
    <3>6. CacheCurrent'
      BY <1>1, <3>4, <3>5 DEF CacheCurrent
    <3> QED
      BY <1>1, <3>1, <3>2, <3>3, <3>6 DEF CacheInv, CacheTypeOK
  <2> QED
    BY <2>1, <2>2
<1>3. ASSUME NEW k \in CacheKeys, NEW irreversible \in BOOLEAN, Compress(k, irreversible)
      PROVE  CacheInv'
  <2>1. UNCHANGED <<cacheInner, cacheOrder, cacheNow, cacheLatest>>
    BY <1>3 DEF Compress
  <2>2. DOMAIN cacheHits' \subseteq CacheKeys
    BY <1>1, <1>3 DEF Compress, Putting
  <2> QED
    BY <1>1, <2>1, <2>2 DEF CacheInv, CacheTypeOK, CacheBookkeeping, CacheCurrent
<1>4. CASE CacheInvalidate
  <2>1. cacheInner' = <<>> /\ cacheOrder' = <<>> /\ cacheHits' = <<>> /\ cacheNow' = cacheNow
    BY <1>4 DEF CacheInvalidate, LruClear
  <2>2. CacheTypeOK'
    BY <1>1, <2>1 DEF CacheTypeOK
  <2>3. DOMAIN cacheInner' = {} /\ ToSet(cacheOrder') = {} /\ Len(cacheOrder') = 0 /\ DOMAIN cacheOrder' = {}
    BY <2>1 DEF ToSet
  <2>4. Cardinality({}) = 0
    BY FS_EmptySet
  <2> QED
    BY <2>2, <2>3, <2>4, CacheAssumption DEF CacheInv, CacheBookkeeping, IsInjective, CacheCurrent
<1>5. CASE CacheTick
  BY <1>1, <1>5 DEF CacheTick, CacheInv, CacheTypeOK, CacheBookkeeping, CacheCurrent
<1>6. CASE UNCHANGED cacheVars
  BY <1>1, <1>6 DEF cacheVars, CacheInv, CacheTypeOK, CacheBookkeeping, CacheCurrent
<1> QED
  BY <1>2, <1>3, <1>4, <1>5, <1>6 DEF CacheNext

(***************************************************************************)
(* The cache keeps its books in every behaviour: the list to evict from    *)
(* and the map hold the same digests, each once, within the capacity, and  *)
(* every entry is the verdict stored last (LruCache::insert, invalidate).  *)
(***************************************************************************)
THEOREM CacheInvariance == Spec => []CacheInv
<1>1. Init => CacheInv
  BY CacheInitial DEF Init
<1>2. CacheInv /\ [Next]_vars => CacheInv'
  BY CacheStep, OneDriven
<1> QED
  BY <1>1, <1>2, PTL DEF Spec

(* Every call of the cache is one of the memo's: storing remembers, a hit  *)
(* serves what was stored last, invalidating forgets (AuthorityCompressor). *)
LEMMA MemoStep ==
  ASSUME CacheInv, [CacheNext]_cacheVars
  PROVE  [Memo!MemoNext]_<<cacheLatest, cacheNow, cacheAnswer>>
<1>1. CacheCurrent /\ DOMAIN cacheInner \subseteq CacheKeys
  BY DEF CacheInv, CacheTypeOK
<1>2. ASSUME NEW k \in CacheKeys, NEW irreversible \in BOOLEAN, NEW v \in Verdict, CacheStore(k, irreversible, v)
      PROVE  Memo!MemoNext
  <2>1. Memo!Remember(k, irreversible, v)
    BY <1>2 DEF CacheStore, Putting, Memo!Remember
  <2>2. v \in [says : CacheVerdicts, issued : 0..MaxCacheTime]
    BY DEF Verdict
  <2> QED
    BY <2>1, <2>2 DEF Memo!MemoNext
<1>3. ASSUME NEW k \in CacheKeys, NEW irreversible \in BOOLEAN, Compress(k, irreversible), CacheHit(k, irreversible)
      PROVE  Memo!MemoNext
  <2>1. /\ k \in DOMAIN cacheLatest /\ cacheInner[k] = cacheLatest[k] /\ irreversible = FALSE
        /\ cacheNow - cacheLatest[k].issued <= CacheTTL
    BY <1>1, <1>3 DEF CacheHit, Caching, CacheCurrent
  <2>2. /\ UNCHANGED <<cacheNow, cacheLatest>>
        /\ cacheAnswer' = [hit |-> TRUE, key |-> k, irreversible |-> FALSE, verdict |-> cacheLatest[k], at |-> cacheNow]
    BY <1>3, <2>1 DEF Compress
  <2>3. Memo!Serve(k)
    BY <2>1, <2>2 DEF Memo!Serve
  <2> QED
    BY <2>3 DEF Memo!MemoNext
<1>4. ASSUME NEW k \in CacheKeys, NEW irreversible \in BOOLEAN, Compress(k, irreversible), ~CacheHit(k, irreversible)
      PROVE  Memo!MemoNext
  BY <1>4 DEF Compress, NoVerdict, Memo!Miss, Memo!MemoNext
<1>5. CacheInvalidate => Memo!MemoNext
  BY DEF CacheInvalidate, Memo!Forget, Memo!MemoNext
<1>6. CacheTick => Memo!MemoNext
  BY DEF CacheTick, Memo!Tick, Memo!MemoNext
<1>7. UNCHANGED cacheVars => UNCHANGED <<cacheLatest, cacheNow, cacheAnswer>>
  BY DEF cacheVars
<1> QED
  BY <1>2, <1>3, <1>4, <1>5, <1>6, <1>7 DEF CacheNext

(***************************************************************************)
(* The cache implements the memo, whatever its capacity and time to live:  *)
(* compress returns only the verdict stored last for that digest since the *)
(* last invalidation, no older than the time to live, and neither for an   *)
(* irreversible action nor one reached for it.                             *)
(***************************************************************************)
THEOREM CacheImplementsMemo == Spec => CacheServesFresh
<1>1. Init => Memo!MemoInit
  BY DEF Init, CacheInit, NoVerdict, Memo!MemoInit
<1>2. CacheInv /\ [Next]_vars => [Memo!MemoNext]_<<cacheLatest, cacheNow, cacheAnswer>>
  BY MemoStep, OneDriven
<1> QED
  BY <1>1, <1>2, CacheInvariance, PTL DEF Spec, CacheServesFresh, Memo!MemoSpec

-------------------------------------------------------------------------------
(* Installed policies. *)

(* The place of the first policy below a new one: all before it are not.   *)
LEMMA FirstBelow ==
  ASSUME PoliciesInv, NEW p \in Policy
  PROVE  LET next == SelectInSeq(policies, LAMBDA q : q.priority < p.priority) IN
         \/ next = 0 /\ \A i \in DOMAIN policies : policies[i].priority >= p.priority
         \/ /\ next \in DOMAIN policies /\ policies[next].priority < p.priority
            /\ \A i \in 1..(next - 1) : policies[i].priority >= p.priority
<1> DEFINE I == {i \in 1..Len(policies) : policies[i].priority < p.priority}
           next == SelectInSeq(policies, LAMBDA q : q.priority < p.priority)
<1>1. next = IF I # {} THEN CHOOSE m \in I : \A n \in I : m <= n ELSE 0
  BY DEF SelectInSeq, Min
<1>2. policies \in Seq(Policy) /\ Len(policies) \in Nat /\ DOMAIN policies = 1..Len(policies)
  BY DEF PoliciesInv
<1>3. \A q \in Policy : q.priority \in Int
  BY GovernanceAssumption DEF Policy
<1>4. p.priority \in Int /\ \A i \in 1..Len(policies) : policies[i].priority \in Int
  BY <1>2, <1>3
<1>5. I \subseteq 1..Len(policies) /\ I \in SUBSET Nat
  BY <1>2
<1>6. CASE I = {}
  <2>1. next = 0
    BY <1>1, <1>6
  <2>2. \A i \in 1..Len(policies) : policies[i].priority >= p.priority
    BY <1>4, <1>6
  <2> QED
    BY <1>2, <2>1, <2>2
<1>7. CASE I # {}
  <2>1. \E m \in I : \A n \in I : m <= n
    BY ONLY <1>5, <1>7, LeastNatural
  <2>2. next \in I /\ \A n \in I : next <= n
    BY <1>1, <1>7, <2>1
  <2>3. next \in DOMAIN policies /\ policies[next].priority < p.priority
    BY <1>2, <2>2
  <2>4. ASSUME NEW i \in 1..(next - 1)
        PROVE  policies[i].priority >= p.priority
    <3>1. i \in 1..Len(policies) /\ ~(next <= i)
      BY <1>2, <2>3
    <3>2. i \notin I
      BY <2>2, <3>1
    <3> QED
      BY <1>4, <3>1, <3>2
  <2> QED
    BY <2>3, <2>4
<1> QED
  BY <1>6, <1>7

(* A new policy lands behind all that beat it and in front of all that it  *)
(* beats, so that the order of the search is kept (install_policy).        *)
LEMMA PlacedInOrder ==
  ASSUME PoliciesInv, NEW p \in Policy, p.number = installs,
         \A i \in DOMAIN policies : policies[i].id # p.id
  PROVE  /\ Placed(p) \in Seq(Policy)
         /\ \A i \in DOMAIN Placed(p) : Placed(p)[i].number < installs + 1
         /\ \A i, j \in DOMAIN Placed(p) :
              i < j => Beats(Placed(p)[i], Placed(p)[j]) /\ Placed(p)[i].id # Placed(p)[j].id
<1> DEFINE next == SelectInSeq(policies, LAMBDA q : q.priority < p.priority)
           t == Placed(p)
<1>1. /\ policies \in Seq(Policy) /\ Len(policies) \in Nat /\ DOMAIN policies = 1..Len(policies)
      /\ installs \in Nat /\ \A i \in 1..Len(policies) : policies[i] \in Policy
  BY DEF PoliciesInv
<1>2. \A q \in Policy : q.priority \in Int /\ q.number \in Nat
  BY GovernanceAssumption DEF Policy
<1>3. \/ next = 0 /\ \A i \in DOMAIN policies : policies[i].priority >= p.priority
      \/ /\ next \in DOMAIN policies /\ policies[next].priority < p.priority
         /\ \A i \in 1..(next - 1) : policies[i].priority >= p.priority
  BY FirstBelow
<1>4. t = IF next = 0 THEN Append(policies, p) ELSE InsertAt(policies, next, p)
  BY DEF Placed
<1> HIDE DEF next, t
<1>5. /\ \A i \in 1..Len(policies) : policies[i].number < installs /\ policies[i].id # p.id
      /\ \A i, j \in 1..Len(policies) : i < j => Beats(policies[i], policies[j]) /\ policies[i].id # policies[j].id
  BY <1>1 DEF PoliciesInv
<1>6. CASE next = 0 /\ \A i \in DOMAIN policies : policies[i].priority >= p.priority
  <2>1. /\ t \in Seq(Policy) /\ Len(t) = Len(policies) + 1 /\ DOMAIN t = 1..(Len(policies) + 1)
        /\ t[Len(policies) + 1] = p /\ \A i \in 1..Len(policies) : t[i] = policies[i]
    BY <1>1, <1>4, <1>6
  <2>2. \A i \in 1..Len(policies) : Beats(policies[i], p)
    BY <1>1, <1>2, <1>5, <1>6 DEF Beats
  <2>3. \A i \in DOMAIN t : t[i].number < installs + 1
    BY <1>1, <1>2, <1>5, <2>1
  <2>4. ASSUME NEW i \in DOMAIN t, NEW j \in DOMAIN t, i < j
        PROVE  Beats(t[i], t[j]) /\ t[i].id # t[j].id
    <3>1. i \in 1..Len(policies) /\ (j \in 1..Len(policies) \/ j = Len(policies) + 1)
      BY <1>1, <2>1, <2>4
    <3>2. CASE j = Len(policies) + 1
      BY <1>5, <2>1, <2>2, <3>1, <3>2
    <3>3. CASE j \in 1..Len(policies)
      BY <1>5, <2>1, <2>4, <3>1, <3>3
    <3> QED
      BY <3>1, <3>2, <3>3
  <2> QED
    BY <2>1, <2>3, <2>4 DEF t
<1>7. CASE /\ next \in DOMAIN policies /\ policies[next].priority < p.priority
           /\ \A i \in 1..(next - 1) : policies[i].priority >= p.priority
  <2>1. next \in 1..Len(policies) /\ next # 0
    BY <1>1, <1>7
  <2>2. t = InsertAt(policies, next, p)
    BY <1>4, <2>1
  <2>3. /\ t \in Seq(Policy) /\ Len(t) = Len(policies) + 1
        /\ \A i \in 1..(next - 1) : t[i] = policies[i]
        /\ t[next] = p
        /\ \A i \in next..Len(policies) : t[i + 1] = policies[i]
    <3> DEFINE u == InsertAt(policies, next, p)
    <3>1. u \in Seq(Policy) /\ Len(u) = Len(policies) + 1
      BY <1>1, <2>1, InsertedPlaces
    <3>2. \A i \in 1..(next - 1) : u[i] = policies[i]
      BY <1>1, <2>1, InsertedPlaces
    <3>3. u[next] = p
      BY <1>1, <2>1, InsertedPlaces
    <3>4. \A i \in next..Len(policies) : u[i + 1] = policies[i]
      BY <1>1, <2>1, InsertedPlaces
    <3> QED
      BY <2>2, <3>1, <3>2, <3>3, <3>4
  <2>4. DOMAIN t = 1..(Len(policies) + 1)
    BY <2>3
  <2>5. \A i \in 1..(next - 1) : Beats(policies[i], p)
    BY <1>1, <1>2, <1>5, <1>7, <2>1 DEF Beats
  <2>6. ASSUME NEW i \in next..Len(policies)
        PROVE  Beats(p, policies[i])
    <3>1. i \in 1..Len(policies) /\ (i = next \/ next < i)
      BY <1>1, <2>1
    <3>2. policies[i].priority <= policies[next].priority
      BY <1>1, <1>2, <1>5, <2>1, <3>1 DEF Beats
    <3> QED
      BY <1>1, <1>2, <1>7, <2>1, <3>1, <3>2 DEF Beats
  <2>7. ASSUME NEW i \in 1..(Len(policies) + 1)
        PROVE  \/ i \in 1..(next - 1) /\ i \in 1..Len(policies) /\ t[i] = policies[i]
               \/ i = next /\ t[i] = p
               \/ /\ i - 1 \in next..Len(policies) /\ i - 1 \in 1..Len(policies)
                  /\ t[i] = policies[i - 1] /\ i > next
    <3>1. CASE i < next
      BY <1>1, <2>1, <2>3, <3>1
    <3>2. CASE i = next
      BY <2>3, <3>2
    <3>3. CASE i > next
      <4>1. i - 1 \in next..Len(policies) /\ i - 1 \in 1..Len(policies) /\ (i - 1) + 1 = i
        BY <1>1, <2>1, <3>3
      <4> QED
        BY <2>3, <3>3, <4>1
    <3> QED
      BY <1>1, <2>1, <3>1, <3>2, <3>3
  <2>8. \A i \in DOMAIN t : t[i].number < installs + 1
    BY <1>1, <1>2, <1>5, <2>4, <2>7
  <2>9. ASSUME NEW i \in DOMAIN t, NEW j \in DOMAIN t, i < j
        PROVE  Beats(t[i], t[j]) /\ t[i].id # t[j].id
    <3>1. i \in 1..(Len(policies) + 1) /\ j \in 1..(Len(policies) + 1) /\ next \in Nat
      BY <1>1, <2>1, <2>4
    <3>2. CASE j < next
      <4>1. t[i] = policies[i] /\ t[j] = policies[j] /\ {i, j} \subseteq 1..Len(policies)
        BY <2>1, <2>7, <2>9, <3>1, <3>2
      <4> QED
        BY <1>5, <2>9, <4>1
    <3>3. CASE j = next
      <4>1. i \in 1..(next - 1) /\ i \in 1..Len(policies) /\ t[i] = policies[i] /\ t[j] = p
        BY <2>1, <2>7, <2>9, <3>1, <3>3
      <4> QED
        BY <1>5, <2>5, <4>1
    <3>4. CASE j > next
      <4>1. j - 1 \in next..Len(policies) /\ j - 1 \in 1..Len(policies) /\ t[j] = policies[j - 1]
        BY <2>1, <2>7, <3>1, <3>4
      <4>2. CASE i < next
        <5>1. i \in 1..Len(policies) /\ t[i] = policies[i] /\ i < j - 1
          BY <2>1, <2>7, <2>9, <3>1, <3>4, <4>2
        <5> QED
          BY <1>5, <4>1, <5>1
      <4>3. CASE i = next
        BY <1>5, <2>3, <2>6, <4>1, <4>3
      <4>4. CASE i > next
        <5>1. i - 1 \in 1..Len(policies) /\ t[i] = policies[i - 1] /\ i - 1 < j - 1
          BY <2>1, <2>7, <2>9, <3>1, <4>4
        <5> QED
          BY <1>5, <4>1, <5>1
      <4> QED
        BY <3>1, <4>2, <4>3, <4>4
    <3> QED
      BY <3>1, <3>2, <3>3, <3>4
  <2> QED
    BY <2>3, <2>8, <2>9 DEF t
<1> QED
  BY <1>3, <1>6, <1>7

LEMMA PoliciesStep ==
  ASSUME PoliciesInv, [GovernanceNext]_governanceVars
  PROVE  PoliciesInv'
<1>1. /\ policies \in Seq(Policy) /\ Len(policies) \in Nat /\ DOMAIN policies = 1..Len(policies)
      /\ installs \in Nat
  BY DEF PoliciesInv
<1>2. /\ \A i \in 1..Len(policies) : policies[i].number < installs
      /\ \A i, j \in 1..Len(policies) : i < j => Beats(policies[i], policies[j]) /\ policies[i].id # policies[j].id
  BY <1>1 DEF PoliciesInv
<1>3. ASSUME UNCHANGED <<policies, installs>>
      PROVE  PoliciesInv'
  BY <1>3 DEF PoliciesInv
<1>4. ASSUME NEW id \in PolicyIds, NEW priority \in PolicyPriorities, NEW condition \in Condition,
             NEW effect \in PolicyEffects, InstallPolicy(id, priority, condition, effect)
      PROVE  PoliciesInv'
  <2> DEFINE p == [id |-> id, priority |-> priority, matches |-> condition, effect |-> effect, number |-> installs]
  <2>1. policies' = Placed(p) /\ installs' = installs + 1 /\ \A i \in DOMAIN policies : policies[i].id # id
    BY <1>4 DEF InstallPolicy, Installed
  <2>2. condition \in SUBSET ActionRequest
    BY DEF Condition, Atoms
  <2>3. p \in Policy /\ p.number = installs /\ p.id = id
    BY <1>1, <2>2 DEF Policy
  <2> HIDE DEF p
  <2>4. Placed(p) \in Seq(Policy)
    BY <2>1, <2>3, PlacedInOrder
  <2>5. \A i \in DOMAIN Placed(p) : Placed(p)[i].number < installs + 1
    BY <2>1, <2>3, PlacedInOrder
  <2>6. \A i, j \in DOMAIN Placed(p) :
              i < j => Beats(Placed(p)[i], Placed(p)[j]) /\ Placed(p)[i].id # Placed(p)[j].id
    BY <2>1, <2>3, PlacedInOrder
  <2>7. installs' \in Nat
    BY <1>1, <2>1
  <2> QED
    BY <2>1, <2>4, <2>5, <2>6, <2>7 DEF PoliciesInv, Beats
<1>5. ASSUME NEW id \in PolicyIds, RemovePolicy(id)
      PROVE  PoliciesInv'
  <2>1. PICK n \in 1..Len(policies) : policies' = RemoveAt(policies, n)
    BY <1>1, <1>5 DEF RemovePolicy
  <2>2. installs' = installs
    BY <1>5 DEF RemovePolicy
  <2> DEFINE u == RemoveAt(policies, n)
  <2>3. u \in Seq(Policy) /\ Len(u) = Len(policies) - 1
    BY <1>1, RemovedPlaces
  <2>4. \A i \in 1..(n - 1) : u[i] = policies[i]
    BY <1>1, RemovedPlaces
  <2>5. \A i \in n..(Len(policies) - 1) : u[i] = policies[i + 1]
    BY <1>1, RemovedPlaces
  <2> DEFINE old(i) == IF i < n THEN i ELSE i + 1
  <2> HIDE DEF u
  <2>6. DOMAIN u = 1..(Len(policies) - 1)
    BY <1>1, <2>3
  <2>7. ASSUME NEW i \in DOMAIN u
        PROVE  old(i) \in 1..Len(policies) /\ u[i] = policies[old(i)] /\ i \in Nat
    BY <1>1, <2>4, <2>5, <2>6
  <2>8. ASSUME NEW i \in DOMAIN u, NEW j \in DOMAIN u, i < j
        PROVE  old(i) < old(j)
    BY <2>7, <2>8
  <2> HIDE DEF old
  <2>9. /\ \A i \in DOMAIN u : u[i].number < installs
        /\ \A i, j \in DOMAIN u : i < j => Beats(u[i], u[j]) /\ u[i].id # u[j].id
    BY <1>2, <2>7, <2>8
  <2>10. policies' = u
    BY <2>1 DEF u
  <2> QED
    BY <1>1, <2>2, <2>3, <2>9, <2>10 DEF PoliciesInv, Beats
<1>6. ASSUME NEW p \in Proposals, ProposeChange(p) \/ ApplyIfReady(p) \/ Revert(p) \/ \E t \in 0..metaNow : Ratify(p, t)
      PROVE  UNCHANGED <<policies, installs>>
  BY <1>6 DEF ProposeChange, ApplyIfReady, Revert, Ratify
<1>7. CASE MetaTick \/ UNCHANGED governanceVars
  BY <1>3, <1>7 DEF MetaTick, governanceVars
<1> QED
  BY <1>3, <1>4, <1>5, <1>6, <1>7 DEF GovernanceNext, KernelNext, MetaNext

(* In that order the first match beats every other match, so that the      *)
(* verdict is the one of the rule that should decide (evaluate).           *)
LEMMA FirstMatchFound ==
  ASSUME PoliciesInv
  PROVE  FirstMatchWins
<1>1. /\ policies \in Seq(Policy) /\ Len(policies) \in Nat /\ DOMAIN policies = 1..Len(policies)
      /\ \A i, j \in 1..Len(policies) : i < j => Beats(policies[i], policies[j]) /\ policies[i].id # policies[j].id
  BY DEF PoliciesInv
<1>2. IsInjective([i \in DOMAIN policies |-> policies[i].id])
  BY <1>1 DEF IsInjective
<1> SUFFICES ASSUME NEW r \in ActionRequest
             PROVE  LET Matching == {i \in DOMAIN policies : r \in policies[i].matches} IN
                    IF Matching = {} THEN VerdictFor(r).effect = "Deny"
                    ELSE \E i \in Matching :
                           /\ VerdictFor(r) = [effect |-> policies[i].effect, policy |-> policies[i].id]
                           /\ \A j \in Matching \ {i} : Beats(policies[i], policies[j])
  BY <1>2 DEF FirstMatchWins
<1> DEFINE M == {i \in 1..Len(policies) : r \in policies[i].matches}
           first == SelectInSeq(policies, LAMBDA q : r \in q.matches)
<1>3. first = IF M # {} THEN CHOOSE m \in M : \A n \in M : m <= n ELSE 0
  BY DEF SelectInSeq, Min
<1>4. VerdictFor(r) = IF first = 0 THEN [effect |-> "Deny", policy |-> "none"]
                      ELSE [effect |-> policies[first].effect, policy |-> policies[first].id]
  BY DEF VerdictFor
<1>5. M \in SUBSET Nat /\ M \subseteq 1..Len(policies)
  BY <1>1
<1> HIDE DEF first
<1>6. CASE M = {}
  BY <1>1, <1>3, <1>4, <1>6
<1>7. CASE M # {}
  <2>1. \E m \in M : \A n \in M : m <= n
    BY ONLY <1>5, <1>7, LeastNatural
  <2>2. first \in M /\ \A n \in M : first <= n
    BY <1>3, <1>7, <2>1
  <2> HIDE DEF M
  <2>3. first \in 1..Len(policies) /\ first # 0
    BY <1>1, <1>5, <2>2
  <2>4. VerdictFor(r) = [effect |-> policies[first].effect, policy |-> policies[first].id]
    BY <1>4, <2>3
  <2>5. ASSUME NEW j \in M \ {first}
        PROVE  Beats(policies[first], policies[j])
    <3>1. first < j /\ j \in 1..Len(policies)
      BY <1>1, <1>5, <2>2, <2>3
    <3> QED
      BY <1>1, <2>3, <3>1
  <2>6. M = {i \in DOMAIN policies : r \in policies[i].matches}
    BY <1>1 DEF M
  <2> QED
    BY <1>7, <2>2, <2>4, <2>5, <2>6
<1> QED
  BY <1>6, <1>7

(* A change is applied only from the state its approval put it in, so that *)
(* the approval and the delay lie behind it (ratify, apply_if_ready).      *)
LEMMA ChangesStep ==
  ASSUME ChangesInv, [GovernanceNext]_governanceVars
  PROVE  ChangesInv'
<1> DEFINE Sound(c, t) ==
      /\ c \in Change
      /\ c.state = "Ratified" => c.approved /\ c.effective = c.since + ApprovalDelay
      /\ c.state \in {"Applied", "Reverted"} => c.approved /\ t >= c.since + ApprovalDelay
<1>1. /\ DOMAIN proposals \subseteq Proposals /\ metaNow \in 0..MaxMetaTime
      /\ \A x \in DOMAIN proposals : Sound(proposals[x], metaNow)
      /\ ApprovalDelay \in Nat /\ MaxMetaTime \in Nat
  BY GovernanceAssumption DEF ChangesInv, AppliedReviewed
<1>2. SUFFICES /\ DOMAIN proposals' \subseteq Proposals /\ metaNow' \in 0..MaxMetaTime
               /\ \A x \in DOMAIN proposals' : Sound(proposals'[x], metaNow')
  BY DEF ChangesInv, AppliedReviewed
<1>3. CASE UNCHANGED <<proposals, metaNow>>
  BY <1>1, <1>3
<1>4. CASE MetaTick
  <2>1. proposals' = proposals /\ metaNow' = metaNow + 1 /\ metaNow' \in 0..MaxMetaTime
    BY <1>1, <1>4 DEF MetaTick
  <2>2. ASSUME NEW x \in DOMAIN proposals
        PROVE  Sound(proposals[x], metaNow + 1)
    <3>1. Sound(proposals[x], metaNow) /\ proposals[x].since \in Nat
      BY <1>1 DEF Change
    <3> QED
      BY <1>1, <3>1
  <2> QED
    BY <1>1, <2>1, <2>2
<1>5. ASSUME NEW p \in Proposals, ProposeChange(p)
      PROVE  /\ DOMAIN proposals' \subseteq Proposals /\ metaNow' \in 0..MaxMetaTime
             /\ \A x \in DOMAIN proposals' : Sound(proposals'[x], metaNow')
  <2>1. /\ metaNow' = metaNow
        /\ proposals' = [x \in DOMAIN proposals \cup {p} |-> IF x = p THEN NoProposal ELSE proposals[x]]
    BY <1>5 DEF ProposeChange
  <2>2. Sound(NoProposal, metaNow)
    BY DEF NoProposal, Change
  <2> HIDE DEF Sound
  <2> QED
    BY <1>1, <2>1, <2>2
<1>6. ASSUME NEW p \in DOMAIN proposals, NEW c, Sound(c, metaNow), metaNow' = metaNow,
             proposals' = [proposals EXCEPT ![p] = c]
      PROVE  /\ DOMAIN proposals' \subseteq Proposals /\ metaNow' \in 0..MaxMetaTime
             /\ \A x \in DOMAIN proposals' : Sound(proposals'[x], metaNow')
  <2> HIDE DEF Sound
  <2> QED
    BY <1>1, <1>6
<1>7. ASSUME NEW p \in Proposals, NEW t \in 0..metaNow, Ratify(p, t)
      PROVE  /\ DOMAIN proposals' \subseteq Proposals /\ metaNow' \in 0..MaxMetaTime
             /\ \A x \in DOMAIN proposals' : Sound(proposals'[x], metaNow')
  <2> DEFINE c == [proposals[p] EXCEPT !.state = "Ratified", !.approved = TRUE,
                                       !.effective = t + ApprovalDelay, !.since = t]
  <2>1. p \in DOMAIN proposals /\ metaNow' = metaNow /\ proposals' = [proposals EXCEPT ![p] = c]
    BY <1>7 DEF Ratify
  <2>2. proposals[p] \in Change /\ t \in Nat /\ t + ApprovalDelay \in Nat
    BY <1>1, <2>1
  <2>3. c \in Change /\ c.state = "Ratified" /\ c.approved /\ c.effective = c.since + ApprovalDelay
    BY <2>2 DEF Change
  <2> HIDE DEF c
  <2>4. Sound(c, metaNow)
    BY <2>3
  <2> QED
    BY <1>6, <2>1, <2>4
<1>8. ASSUME NEW p \in Proposals, ApplyIfReady(p)
      PROVE  /\ DOMAIN proposals' \subseteq Proposals /\ metaNow' \in 0..MaxMetaTime
             /\ \A x \in DOMAIN proposals' : Sound(proposals'[x], metaNow')
  <2> DEFINE c == [proposals[p] EXCEPT !.state = "Applied"]
  <2>1. p \in DOMAIN proposals /\ metaNow' = metaNow /\ proposals' = [proposals EXCEPT ![p] = c]
    BY <1>8 DEF ApplyIfReady
  <2>2. /\ proposals[p] \in Change /\ proposals[p].approved
        /\ metaNow >= proposals[p].since + ApprovalDelay
    BY <1>1, <1>8, <2>1 DEF ApplyIfReady, ReadyToApply
  <2>3. /\ c \in Change /\ c.state = "Applied"
        /\ c.approved = proposals[p].approved /\ c.since = proposals[p].since
    BY <2>2 DEF Change
  <2> HIDE DEF c
  <2>4. Sound(c, metaNow)
    BY <2>2, <2>3
  <2> QED
    BY <1>6, <2>1, <2>4
<1>9. ASSUME NEW p \in Proposals, Revert(p)
      PROVE  /\ DOMAIN proposals' \subseteq Proposals /\ metaNow' \in 0..MaxMetaTime
             /\ \A x \in DOMAIN proposals' : Sound(proposals'[x], metaNow')
  <2> DEFINE c == [proposals[p] EXCEPT !.state = "Reverted"]
  <2>1. p \in DOMAIN proposals /\ metaNow' = metaNow /\ proposals' = [proposals EXCEPT ![p] = c]
    BY <1>9 DEF Revert
  <2>2. /\ proposals[p] \in Change /\ proposals[p].approved
        /\ metaNow >= proposals[p].since + ApprovalDelay
    BY <1>1, <1>9, <2>1 DEF Revert
  <2>3. /\ c \in Change /\ c.state = "Reverted"
        /\ c.approved = proposals[p].approved /\ c.since = proposals[p].since
    BY <2>2 DEF Change
  <2> HIDE DEF c
  <2>4. Sound(c, metaNow)
    BY <2>2, <2>3
  <2> QED
    BY <1>6, <2>1, <2>4
<1>10. KernelNext => UNCHANGED <<proposals, metaNow>>
  BY DEF KernelNext, InstallPolicy, RemovePolicy
<1>11. UNCHANGED governanceVars => UNCHANGED <<proposals, metaNow>>
  BY DEF governanceVars
<1> HIDE DEF Sound
<1> QED
  BY <1>3, <1>4, <1>5, <1>7, <1>8, <1>9, <1>10, <1>11 DEF GovernanceNext, MetaNext

LEMMA GovernanceInitial ==
  ASSUME GovernanceInit
  PROVE  PoliciesInv /\ ChangesInv
BY GovernanceAssumption DEF GovernanceInit, PoliciesInv, ChangesInv, AppliedReviewed
-------------------------------------------------------------------------------
(* The preload filters and the guards. *)

(* Whatever was locked or opted in, no prediction passes either filter     *)
(* against the rules both have, nor its own switches (should_preload,      *)
(* filter).                                                                *)
LEMMA FiltersAlwaysAgree == FiltersAgree
<1> SUFFICES ASSUME NEW p \in Prediction, Evaluate(p) = "Allow" \/ Filter(p) = "Pass"
             PROVE  /\ p.domain \notin HighIntimacy /\ p.path # "sensitive" /\ (p.night => p.domain \in NightOk)
                    /\ Evaluate(p) = "Allow" => Unlocked(p.domain)
                    /\ Filter(p) = "Pass" => p.domain \in optedIn
  BY DEF FiltersAgree, Unlocked
<1>1. Evaluate(p) = "Allow" =>
        /\ p.domain \notin HighIntimacy /\ p.path # "sensitive" /\ (p.night => p.domain \in NightOk)
        /\ Unlocked(p.domain)
  BY DEF Evaluate, HoldBack
<1>2. ASSUME Filter(p) = "Pass"
      PROVE  /\ p.domain \notin HighIntimacy /\ p.path # "sensitive" /\ (p.night => p.domain \in NightOk)
             /\ p.domain \in optedIn
  <2>1. ~Intimate(p)
    BY <1>2 DEF Filter
  <2>2. p.domain \notin DefaultPrivate /\ p.path # "sensitive"
    BY <2>1 DEF Intimate
  <2>3. p.domain \in optedIn
    BY <1>2, <2>1, <2>2 DEF Filter
  <2>4. ~p.night \/ p.domain \in NightOk
    BY <1>2, <2>1, <2>2, <2>3 DEF Filter
  <2> QED
    BY <2>2, <2>3, <2>4 DEF DefaultPrivate
<1> QED
  BY <1>1, <1>2

LEMMA GuardsInitial ==
  ASSUME GuardsInit
  PROVE  GuardsInv
BY DEF GuardsInit, GuardsInv

LEMMA GuardsStep ==
  ASSUME GuardsInv, [GuardsNext]_guardsVars
  PROVE  GuardsInv'
<1>1. ASSUME NEW p \in DOMAIN CustomPaths, Protect(p)
      PROVE  GuardsInv'
  BY <1>1 DEF Protect, GuardsInv
<1>2. ASSUME NEW t \in Threats, Disarm(t)
      PROVE  GuardsInv'
  BY <1>2 DEF Disarm, GuardsInv
<1>3. ASSUME NEW a \in {"Accepted", "Rejected", "Undid", "OverrodeAct", "OverrodeRefusal"}, Recalibrate(a)
      PROVE  GuardsInv'
  BY <1>3 DEF Recalibrate, GuardsInv
<1>4. CASE UNCHANGED guardsVars
  BY <1>4 DEF guardsVars, GuardsInv
<1> QED
  BY <1>1, <1>2, <1>3, <1>4 DEF GuardsNext

(* An added path stands for no threat of its own, and a heavier agency     *)
(* weight only lowers the benefit of what was not asked for (classify,     *)
(* evaluate).                                                              *)
LEMMA GuardsSeeThreats ==
  ASSUME GuardsInv
  PROVE  DefaultThreatsSeen
<1>1. /\ protectedPaths \subseteq DOMAIN CustomPaths /\ agencyWeight \in Nat /\ agencyWeight >= 150
      /\ DOMAIN CustomPaths \cap DOMAIN DefaultPaths = {}
  BY GuardsAssumption DEF GuardsInv
<1>2. ASSUME NEW target \in DOMAIN DefaultPaths
      PROVE  IF DefaultPaths[target] \in armed THEN ExistentialVerdict(target) = "Catastrophic"
                                               ELSE ExistentialVerdict(target) # "Safe"
  <2>1. Covering(target) \cap DOMAIN DefaultPaths = {target}
    BY <1>1 DEF Covering
  <2>2. Classify(target) = {DefaultPaths[target]}
    BY <2>1 DEF Classify
  <2> QED
    BY <2>2 DEF ExistentialVerdict
<1>3. ASSUME NEW help \in 0..10, NEW loss \in 0..10
      PROVE  /\ Recommend(help, loss, FALSE, agencyWeight) >= Recommend(help, loss, FALSE, 150)
             /\ Recommend(help, loss, TRUE, agencyWeight) = 1
  <2>1. loss * agencyWeight \in Int /\ loss * agencyWeight >= loss * 150
    <3>1. PICK d \in Nat : agencyWeight = 150 + d
      <4>1. agencyWeight - 150 \in Nat /\ agencyWeight = 150 + (agencyWeight - 150)
        BY <1>1
      <4> QED
        BY <4>1
    <3>2. loss * agencyWeight = loss * 150 + loss * d
      BY <3>1
    <3>3. loss * d \in Nat
      OBVIOUS
    <3> QED
      BY <3>2, <3>3
  <2>2. NetBenefit(help, loss, FALSE, agencyWeight) <= NetBenefit(help, loss, FALSE, 150)
        /\ NetBenefit(help, loss, FALSE, agencyWeight) \in Int /\ NetBenefit(help, loss, FALSE, 150) \in Int
    BY <2>1 DEF NetBenefit
  <2>3. NetBenefit(help, loss, TRUE, agencyWeight) > 500
    BY DEF NetBenefit
  <2>4. \A x, y \in Int : x <= y => RecommendAt(x) >= RecommendAt(y)
    BY DEF RecommendAt
  <2>5. RecommendAt(NetBenefit(help, loss, TRUE, agencyWeight)) = 1
    BY <2>3 DEF RecommendAt
  <2> QED
    BY <2>2, <2>4, <2>5 DEF Recommend
<1> QED
  BY <1>2, <1>3 DEF DefaultThreatsSeen

(***************************************************************************)
(* The rules in force are the rules installed: whatever was installed and  *)
(* removed, the highest matching policy decides and the earliest of those, *)
(* a change in force was approved and waited, the two preload filters      *)
(* agree, and no added path hides a threat to a default one.               *)
(***************************************************************************)
THEOREM RulesInForce == Spec => []RulesSound
<1> DEFINE Inv == PoliciesInv /\ ChangesInv /\ GuardsInv
<1>1. Init => Inv
  BY GovernanceInitial, GuardsInitial DEF Init
<1>2. Inv /\ [Next]_vars => Inv'
  BY PoliciesStep, ChangesStep, GuardsStep, OneDriven
<1>3. Inv => RulesSound
  BY FirstMatchFound, FiltersAlwaysAgree, GuardsSeeThreats DEF RulesSound, ChangesInv
<1> QED
  BY <1>1, <1>2, <1>3, PTL DEF Spec

-------------------------------------------------------------------------------
(* The snapshot file and the recovery points. *)

LEMMA ContinuityInitial ==
  ASSUME ContinuityInit
  PROVE  SnapshotsInv /\ SettledInv /\ PointsInv
<1>1. SnapshotsInv /\ SettledInv
  BY DEF ContinuityInit, SnapshotsInv, SettledInv, Busy
<1>2. PointsInv
  BY DEF ContinuityInit, PointsInv, PointsAreLatest
<1> QED
  BY <1>1, <1>2

(* What a step of a writer leaves behind or acknowledges was its own       *)
(* snapshot, so that no file left behind is ever an acknowledged one.      *)
LEMMA SnapshotsStep ==
  ASSUME SnapshotsInv, [ContinuityNext]_continuityVars
  PROVE  SnapshotsInv'
<1> DEFINE Step == {"idle", "created", "synced"}
           Doing == [step : Step, snapshot : Nat]
<1>1. /\ writer \in [Writers -> Doing] /\ snapshots \in Nat /\ tmp \cup returned \subseteq 1..snapshots
      /\ file \in returned \cup {Missing} /\ onDisk \subseteq returned \cup {Missing}
      /\ tmp \cap returned = {}
  BY DEF SnapshotsInv
<1>2. \A w \in Writers : writer[w].step # "idle" =>
        /\ writer[w].snapshot \in 1..snapshots /\ writer[w].snapshot \notin tmp \cup returned
        /\ \A x \in Writers : writer[x].step # "idle" /\ writer[x].snapshot = writer[w].snapshot => x = w
  BY DEF SnapshotsInv, Busy
<1>3. SUFFICES
      /\ writer' \in [Writers -> Doing] /\ snapshots' \in Nat /\ tmp' \cup returned' \subseteq 1..snapshots'
      /\ file' \in returned' \cup {Missing} /\ onDisk' \subseteq returned' \cup {Missing}
      /\ tmp' \cap returned' = {}
      /\ \A w \in Writers : writer'[w].step # "idle" =>
           /\ writer'[w].snapshot \in 1..snapshots' /\ writer'[w].snapshot \notin tmp' \cup returned'
           /\ \A x \in Writers : writer'[x].step # "idle" /\ writer'[x].snapshot = writer'[w].snapshot => x = w
  BY DEF SnapshotsInv, Busy
<1>4. CASE UNCHANGED snapshotVars
  BY <1>1, <1>2, <1>4 DEF snapshotVars
<1>5. ASSUME NEW w \in Writers, CreateTmp(w)
      PROVE  SnapshotsInv'
  <2>1. /\ snapshots' = snapshots + 1 /\ UNCHANGED <<tmp, file, onDisk, returned>>
        /\ writer' = [writer EXCEPT ![w] = [step |-> "created", snapshot |-> snapshots + 1]]
    BY <1>5 DEF CreateTmp
  <2>2. writer' \in [Writers -> Doing]
    BY <1>1, <2>1
  <2>3. /\ \A x \in Writers \ {w} : writer'[x] = writer[x]
        /\ writer'[w].snapshot = snapshots + 1
    BY <1>1, <2>1
  <2>4. 1..snapshots \subseteq 1..(snapshots + 1) /\ snapshots + 1 \notin 1..snapshots /\ snapshots + 1 \in 1..(snapshots + 1)
    BY <1>1
  <2>5. tmp' \cup returned' \subseteq 1..snapshots' /\ snapshots + 1 \notin tmp \cup returned
    BY <1>1, <2>1, <2>4
  <2>6. \A x \in Writers : writer'[x].step # "idle" =>
           /\ writer'[x].snapshot \in 1..snapshots' /\ writer'[x].snapshot \notin tmp' \cup returned'
           /\ \A y \in Writers : writer'[y].step # "idle" /\ writer'[y].snapshot = writer'[x].snapshot => y = x
    BY <1>2, <2>1, <2>3, <2>4, <2>5
  <2> QED
    BY <1>1, <2>1, <2>2, <2>5, <2>6 DEF SnapshotsInv, Busy
<1>6. ASSUME NEW w \in Writers, SyncTmp(w)
      PROVE  SnapshotsInv'
  <2>1. /\ writer[w].step # "idle" /\ UNCHANGED <<tmp, file, onDisk, returned, snapshots>>
        /\ writer' = [writer EXCEPT ![w].step = "synced"]
    BY <1>6 DEF SyncTmp
  <2>2. writer' \in [Writers -> Doing]
    BY <1>1, <2>1
  <2>3. \A x \in Writers : writer'[x].snapshot = writer[x].snapshot /\ (writer'[x].step # "idle" <=> writer[x].step # "idle")
    BY <1>1, <2>1
  <2> QED
    BY <1>1, <1>2, <2>1, <2>2, <2>3 DEF SnapshotsInv, Busy
<1>7. ASSUME NEW w \in Writers, WriteFails(w)
      PROVE  SnapshotsInv'
  <2>1. /\ writer[w].step # "idle" /\ UNCHANGED <<file, onDisk, returned, snapshots>>
        /\ writer' = [writer EXCEPT ![w].step = "idle"] /\ tmp' = tmp \cup {writer[w].snapshot}
    BY <1>7 DEF WriteFails
  <2>2. writer' \in [Writers -> Doing]
    BY <1>1, <2>1
  <2>3. /\ \A x \in Writers : writer'[x].snapshot = writer[x].snapshot /\ (writer'[x].step # "idle" => writer[x].step # "idle" /\ x # w)
    BY <1>1, <2>1
  <2> QED
    BY <1>1, <1>2, <2>1, <2>2, <2>3 DEF SnapshotsInv, Busy
<1>8. ASSUME NEW w \in Writers, Rename(w)
      PROVE  SnapshotsInv'
  <2>1. /\ writer[w].step # "idle" /\ UNCHANGED <<tmp, snapshots>>
        /\ writer' = [writer EXCEPT ![w].step = "idle"] /\ file' = writer[w].snapshot
        /\ onDisk' = onDisk \cup {writer[w].snapshot} /\ returned' = returned \cup {writer[w].snapshot}
    BY <1>8 DEF Rename, RenameReady
  <2>2. writer' \in [Writers -> Doing]
    BY <1>1, <2>1
  <2>3. /\ \A x \in Writers : writer'[x].snapshot = writer[x].snapshot /\ (writer'[x].step # "idle" => writer[x].step # "idle" /\ x # w)
    BY <1>1, <2>1
  <2> QED
    BY <1>1, <1>2, <2>1, <2>2, <2>3 DEF SnapshotsInv, Busy
<1>9. CASE WriteBack
  BY <1>1, <1>2, <1>9 DEF WriteBack
<1>10. CASE PowerFailure
  <2>1. /\ UNCHANGED <<returned, snapshots>>
        /\ file' \in onDisk /\ onDisk' = {file'}
        /\ tmp' = tmp \cup {writer[w].snapshot : w \in {x \in Writers : writer[x].step # "idle"}}
        /\ writer' = [w \in Writers |-> [step |-> "idle", snapshot |-> 0]]
    BY <1>10 DEF PowerFailure
  <2>2. \A n \in tmp' : n \in tmp \/ (n \in 1..snapshots /\ n \notin returned)
    BY <1>2, <2>1
  <2>3. writer' \in [Writers -> Doing] /\ \A w \in Writers : writer'[w].step = "idle"
    BY <2>1
  <2> QED
    BY <1>1, <2>1, <2>2, <2>3
<1>11. RecoveryNext \/ GuardNext \/ UNCHANGED continuityVars => UNCHANGED snapshotVars
  BY DEF RecoveryNext, GuardNext, continuityVars, Checkpoint, ChangeState, SetRollbackPolicy, Restore,
         RegisterPath, FileChanges, EmergencyLockdown, ReleaseLockdown
<1>12. SnapshotNext => SnapshotsInv' \/ WriteBack \/ PowerFailure
  BY <1>5, <1>6, <1>7, <1>8 DEF SnapshotNext
<1>13. CASE SnapshotsInv'
  BY <1>13 DEF SnapshotsInv, Busy
<1> QED
  BY <1>4, <1>9, <1>10, <1>11, <1>12, <1>13 DEF ContinuityNext

(* The name on the disk moves on from nothing only: a rename adds a        *)
(* snapshot to what a power failure may leave, and what it leaves or the   *)
(* kernel writes back is all there is (write_atomic).                      *)
LEMMA SettledStep ==
  ASSUME SnapshotsInv, SettledInv, [ContinuityNext]_continuityVars
  PROVE  SettledInv'
<1>1. /\ settled \in BOOLEAN /\ file \in onDisk /\ (settled => Missing \notin onDisk)
      /\ writer \in [Writers -> [step : {"idle", "created", "synced"}, snapshot : Nat]]
  BY DEF SettledInv, SnapshotsInv
<1>2. CASE UNCHANGED <<file, onDisk, settled>>
  BY <1>1, <1>2 DEF SettledInv
<1>3. ASSUME NEW w \in Writers, Rename(w)
      PROVE  SettledInv'
  <2>1. writer[w].snapshot \in Nat /\ writer[w].snapshot # Missing
    BY <1>1 DEF Missing
  <2>2. /\ file' = writer[w].snapshot /\ settled' = settled
        /\ onDisk' = onDisk \cup {writer[w].snapshot}
    BY <1>3 DEF Rename, RenameReady
  <2> QED
    BY <1>1, <2>1, <2>2 DEF SettledInv
<1>4. CASE WriteBack
  BY <1>1, <1>4 DEF WriteBack, SettledInv
<1>5. CASE PowerFailure
  BY <1>1, <1>5 DEF PowerFailure, SettledInv
<1>6. ASSUME NEW w \in Writers, CreateTmp(w) \/ SyncTmp(w) \/ WriteFails(w)
      PROVE  UNCHANGED <<file, onDisk, settled>>
  BY <1>6 DEF CreateTmp, SyncTmp, WriteFails
<1>7. RecoveryNext \/ GuardNext \/ UNCHANGED continuityVars => UNCHANGED <<file, onDisk, settled>>
  BY DEF RecoveryNext, GuardNext, continuityVars, Checkpoint, ChangeState, SetRollbackPolicy, Restore,
         RegisterPath, FileChanges, EmergencyLockdown, ReleaseLockdown, snapshotVars
<1> QED
  BY <1>2, <1>3, <1>4, <1>5, <1>6, <1>7 DEF ContinuityNext, SnapshotNext

Point == [id : Nat, label : Nat]
Latest(s, n, l) ==
  /\ s \in Seq(Point)
  /\ \A i \in 1..Len(s) : s[i].label <= l
  /\ \A i \in 1..Len(s) : s[i].id = n - Len(s) + i
  /\ \A i, j \in 1..Len(s) : i < j => s[i].label <= s[j].label

LEMMA LatestAppend ==
  ASSUME NEW n \in Nat, NEW l \in Nat, NEW s, Latest(s, n, l), NEW p \in Point, p.id = n + 1, p.label = l
  PROVE  Latest(Append(s, p), n + 1, l)
<1> DEFINE t == Append(s, p)
<1>1. s \in Seq(Point) /\ Len(s) \in Nat
  BY DEF Latest
<1>2. /\ t \in Seq(Point) /\ Len(t) = Len(s) + 1
      /\ t[Len(s) + 1] = p /\ \A i \in 1..Len(s) : t[i] = s[i]
  BY <1>1
<1> HIDE DEF t
<1>3. /\ \A i \in 1..Len(s) : s[i].label <= l
      /\ \A i \in 1..Len(s) : s[i].id = n - Len(s) + i
      /\ \A i, j \in 1..Len(s) : i < j => s[i].label <= s[j].label
  BY DEF Latest
<1>4. ASSUME NEW i \in 1..Len(t)
      PROVE  \/ i \in 1..Len(s) /\ t[i] = s[i]
             \/ i = Len(s) + 1 /\ t[i] = p
  BY <1>1, <1>2
<1>5. \A i \in 1..Len(t) : t[i].label <= l
  BY <1>3, <1>4
<1>6. ASSUME NEW i \in 1..Len(t)
      PROVE  t[i].id = (n + 1) - Len(t) + i
  <2>1. (n + 1) - Len(t) + i = n - Len(s) + i
    BY <1>1, <1>2
  <2>2. CASE i \in 1..Len(s) /\ t[i] = s[i]
    BY <1>3, <2>1, <2>2
  <2>3. CASE i = Len(s) + 1 /\ t[i] = p
    BY <1>1, <2>1, <2>3
  <2> QED
    BY <1>4, <2>2, <2>3
<1>7. ASSUME NEW i \in 1..Len(t), NEW j \in 1..Len(t), i < j
      PROVE  t[i].label <= t[j].label
  <2>1. i \in 1..Len(s) /\ t[i] = s[i]
    BY <1>1, <1>2, <1>7
  <2> QED
    BY <1>3, <1>4, <1>7, <2>1
<1> QED
  BY <1>2, <1>5, <1>6, <1>7 DEF Latest, t

LEMMA LatestTail ==
  ASSUME NEW n \in Nat, NEW l \in Nat, NEW s, Latest(s, n, l), s # <<>>
  PROVE  Latest(Tail(s), n, l)
<1> DEFINE t == Tail(s)
<1>1. s \in Seq(Point) /\ Len(s) \in Nat
  BY DEF Latest
<1>2. t \in Seq(Point) /\ Len(t) = Len(s) - 1 /\ Len(t) \in Nat /\ \A i \in 1..Len(t) : t[i] = s[i + 1]
  BY <1>1
<1> HIDE DEF t
<1>3. /\ \A i \in 1..Len(s) : s[i].label <= l
      /\ \A i \in 1..Len(s) : s[i].id = n - Len(s) + i
      /\ \A i, j \in 1..Len(s) : i < j => s[i].label <= s[j].label
  BY DEF Latest
<1>4. ASSUME NEW i \in 1..Len(t)
      PROVE  i + 1 \in 1..Len(s) /\ t[i] = s[i + 1] /\ n - Len(s) + (i + 1) = n - Len(t) + i
  BY <1>1, <1>2
<1>5. ASSUME NEW i \in 1..Len(t)
      PROVE  t[i].label <= l /\ t[i].id = n - Len(t) + i
  BY <1>3, <1>4
<1>6. ASSUME NEW i \in 1..Len(t), NEW j \in 1..Len(t), i < j
      PROVE  t[i].label <= t[j].label
  <2>1. i + 1 \in 1..Len(s) /\ j + 1 \in 1..Len(s) /\ i + 1 < j + 1
    BY <1>4, <1>6
  <2> QED
    BY <1>3, <1>4, <2>1
<1> QED
  BY <1>2, <1>5, <1>6 DEF Latest, t

(* Appending the newest and dropping the oldest keeps the latest, in order *)
(* (RecoveryKernel::checkpoint).                                           *)
LEMMA PointsStep ==
  ASSUME PointsInv, [ContinuityNext]_continuityVars
  PROVE  PointsInv'
<1>1. Latest(points, checkpoints, label) /\ checkpoints \in Nat /\ label \in Nat
  <2>1. points \in Seq(Point) /\ DOMAIN points = 1..Len(points)
    BY DEF PointsInv, Point
  <2>2. /\ \A i \in DOMAIN points : points[i].label <= label
        /\ \A i \in DOMAIN points : points[i].id = checkpoints - Len(points) + i
        /\ \A i, j \in DOMAIN points : i < j => points[i].label <= points[j].label
    BY DEF PointsInv, PointsAreLatest
  <2>3. checkpoints \in Nat /\ label \in Nat
    BY DEF PointsInv
  <2> QED
    BY <2>1, <2>2, <2>3 DEF Latest
<1>2. SUFFICES Latest(points', checkpoints', label') /\ checkpoints' \in Nat /\ label' \in Nat
  <2>1. points' \in Seq(Point) /\ DOMAIN points' = 1..Len(points')
    BY <1>2 DEF Latest
  <2>2. /\ \A i \in DOMAIN points' : points'[i].label <= label'
        /\ \A i \in DOMAIN points' : points'[i].id = checkpoints' - Len(points') + i
        /\ \A i, j \in DOMAIN points' : i < j => points'[i].label <= points'[j].label
    BY <1>2, <2>1 DEF Latest
  <2> QED
    BY <1>2, <2>1, <2>2 DEF PointsInv, PointsAreLatest, Point
<1>3. CASE Checkpoint
  <2> DEFINE p == [id |-> checkpoints + 1, label |-> label]
             all == Append(points, p)
  <2>1. /\ checkpoints' = checkpoints + 1 /\ label' = label
        /\ points' = IF Len(all) > MaxPoints THEN Tail(all) ELSE all
    BY <1>3 DEF Checkpoint
  <2>2. p \in Point /\ p.id = checkpoints + 1 /\ p.label = label
    BY <1>1 DEF Point
  <2> HIDE DEF p
  <2>3. Latest(all, checkpoints + 1, label) /\ all # <<>>
    <3>1. Latest(all, checkpoints + 1, label)
      BY <1>1, <2>2, LatestAppend
    <3>2. points \in Seq(Point)
      BY <1>1 DEF Latest
    <3>3. all # <<>>
      BY <2>2, <3>2
    <3> QED
      BY <3>1, <3>3
  <2> HIDE DEF all
  <2>4. Latest(Tail(all), checkpoints + 1, label)
    BY <1>1, <2>3, LatestTail
  <2> QED
    BY <1>1, <2>1, <2>3, <2>4
<1>4. CASE ChangeState
  <2>1. points' = points /\ checkpoints' = checkpoints /\ label' = label + 1
    BY <1>4 DEF ChangeState
  <2>2. \A q \in Point : q.label \in Nat
    BY DEF Point
  <2>3. points \in Seq(Point) /\ \A i \in 1..Len(points) : points[i].label <= label
    BY <1>1 DEF Latest
  <2>4. \A i \in 1..Len(points) : points[i].label \in Nat
    BY <2>2, <2>3
  <2>5. \A i \in 1..Len(points) : points[i].label <= label + 1
    BY <1>1, <2>3, <2>4
  <2> QED
    BY <1>1, <2>1, <2>5 DEF Latest
<1>5. CASE UNCHANGED <<points, checkpoints, label>>
  BY <1>1, <1>5
<1>6. SnapshotNext \/ GuardNext \/ UNCHANGED continuityVars => UNCHANGED <<points, checkpoints, label>>
  BY DEF SnapshotNext, GuardNext, continuityVars, snapshotVars, recoveryVars, guardVars, CreateTmp, SyncTmp,
         WriteFails, Rename, WriteBack, PowerFailure, RegisterPath, FileChanges, EmergencyLockdown, ReleaseLockdown
<1>7. ASSUME NEW p, SetRollbackPolicy(p)
      PROVE  UNCHANGED <<points, checkpoints, label>>
  BY <1>7 DEF SetRollbackPolicy
<1>8. ASSUME NEW id, Restore(id)
      PROVE  UNCHANGED <<points, checkpoints, label>>
  BY <1>8 DEF Restore
<1> QED
  BY <1>3, <1>4, <1>5, <1>6, <1>7, <1>8 DEF ContinuityNext, RecoveryNext

-------------------------------------------------------------------------------
(* The chain and its replay, the identities and their lineages. *)

LEMMA RecordsInitial ==
  ASSUME RecordsInit
  PROVE  ChainInv /\ IdentitiesInv
<1>1. ChainInv
  <2>1. chain = <<>> /\ head = Genesis
    BY DEF RecordsInit
  <2>2. ToSet(chain) = {} /\ chain \in Seq({}) /\ DOMAIN chain = {}
    BY <2>1 DEF ToSet
  <2> QED
    BY <2>1, <2>2 DEF ChainInv, Verifies
<1>2. IdentitiesInv
  <2>1. (CHOOSE r \in Roots : TRUE) \in Roots
    BY RecordsAssumption
  <2> DEFINE first == CHOOSE r \in Roots : TRUE
  <2>2. identities = <<[root |-> first, lineage |-> <<>>]>>
    BY DEF RecordsInit
  <2> HIDE DEF first
  <2>3. [root |-> first, lineage |-> <<>>] \in [root : Roots, lineage : Seq(Roots)]
    BY <2>1 DEF first
  <2>4. identities \in Seq([root : Roots, lineage : Seq(Roots)]) /\ Len(identities) = 1
    BY <2>2, <2>3
  <2> QED
    BY <2>4 DEF IdentitiesInv
<1> QED
  BY <1>1, <1>2

(* An appended entry follows the head, so that the chain verifies from its *)
(* first entry to its last at every moment (AuditChain::append, verify).   *)
LEMMA ChainStep ==
  ASSUME ChainInv, [RecordsNext]_recordVars
  PROVE  ChainInv'
<1>1. /\ chain \in Seq(ToSet(chain)) /\ Len(chain) \in Nat /\ DOMAIN chain = 1..Len(chain)
      /\ \A i \in 1..Len(chain) : chain[i].entry.ts \in Nat
      /\ \A i \in 1..Len(chain) : Follows(i)
      /\ head = IF chain = <<>> THEN Genesis ELSE Last(chain).hash
  BY DEF ChainInv, Verifies
<1>2. CASE UNCHANGED <<chain, head>>
  BY <1>2 DEF ChainInv, Verifies, Follows
<1>3. ASSUME NEW a, NEW l, NEW ts \in 0..stampNow, AppendEntry(a, l, ts)
      PROVE  ChainInv'
  <2> DEFINE entry == [agent |-> a, level |-> l, ts |-> ts]
             link == [seq |-> Len(chain), prev |-> head, entry |-> entry, hash |-> ComputeHash(head, entry)]
             S == ToSet(chain) \cup {link}
             t == Append(chain, link)
  <2>1. chain' = t /\ head' = link.hash
    BY <1>3 DEF AppendEntry
  <2>2. link.entry.ts \in Nat /\ link.hash = ComputeHash(link.prev, link.entry) /\ link.prev = head
    OBVIOUS
  <2> HIDE DEF link
  <2>3. chain \in Seq(S)
    BY <1>1
  <2>4. /\ t \in Seq(S) /\ Len(t) = Len(chain) + 1 /\ DOMAIN t = 1..(Len(chain) + 1)
        /\ t[Len(chain) + 1] = link /\ \A i \in 1..Len(chain) : t[i] = chain[i]
    BY <1>1, <2>3
  <2> HIDE DEF t
  <2>5. ToSet(t) = S
    <3>1. \A i \in 1..(Len(chain) + 1) : t[i] \in S
      BY <2>4
    <3>2. \A i \in 1..Len(chain) : chain[i] \in ToSet(t)
      BY <1>1, <2>4 DEF ToSet
    <3>3. link \in ToSet(t)
      BY <1>1, <2>4 DEF ToSet
    <3> QED
      BY <1>1, <2>4, <3>1, <3>2, <3>3 DEF ToSet
  <2>6. \A i \in 1..(Len(chain) + 1) : i \in 1..Len(chain) \/ i = Len(chain) + 1
    BY <1>1
  <2>7. \A i \in DOMAIN t : t[i].entry.ts \in Nat
    BY <1>1, <2>2, <2>4, <2>6
  <2>8. ASSUME NEW i \in DOMAIN t
        PROVE  /\ t[i].prev = (IF i = 1 THEN Genesis ELSE t[i - 1].hash)
               /\ t[i].hash = ComputeHash(t[i].prev, t[i].entry)
    <3>1. CASE i \in 1..Len(chain)
      <4>1. t[i] = chain[i] /\ (i # 1 => i - 1 \in 1..Len(chain) /\ t[i - 1] = chain[i - 1])
        BY <1>1, <2>4, <3>1
      <4> QED
        BY <1>1, <3>1, <4>1 DEF Follows
    <3>2. CASE i = Len(chain) + 1
      <4>1. t[i] = link
        BY <2>4, <3>2
      <4>2. CASE Len(chain) = 0
        <5>1. chain = <<>>
          BY <1>1, <4>2
        <5> QED
          BY <1>1, <2>2, <3>2, <4>1, <4>2, <5>1
      <4>3. CASE Len(chain) # 0
        <5>1. chain # <<>> /\ Last(chain) = chain[Len(chain)] /\ i - 1 = Len(chain) /\ i # 1
          BY <1>1, <3>2, <4>3 DEF Last
        <5>2. t[i - 1] = chain[Len(chain)]
          BY <1>1, <2>4, <4>3, <5>1
        <5> QED
          BY <1>1, <2>2, <4>1, <5>1, <5>2
      <4> QED
        BY <4>2, <4>3
    <3> QED
      BY <2>4, <2>6, <3>1, <3>2
  <2>9. t # <<>> /\ Last(t) = link
    BY <1>1, <2>4 DEF Last
  <2> QED
    BY <2>1, <2>4, <2>5, <2>7, <2>8, <2>9 DEF ChainInv, Verifies, Follows
<1>4. StampTick \/ IdentityNext \/ RewriteNext \/ UNCHANGED recordVars => UNCHANGED <<chain, head>>
  BY DEF StampTick, IdentityNext, RewriteNext, recordVars, Fork, SetRoot, Watch, EvaluateRewrite
<1> QED
  BY <1>2, <1>3, <1>4 DEF RecordsNext, ChainNext

(* In a chain whose neighbours are in the order of their stamps, all are.  *)
LEMMA StampsOrdered ==
  ASSUME ChainInv, \A i \in 2..Len(chain) : chain[i - 1].entry.ts <= chain[i].entry.ts,
         NEW i \in 1..Len(chain)
  PROVE  \A j \in i..Len(chain) : chain[i].entry.ts <= chain[j].entry.ts
<1> DEFINE S == {n \in Nat : i + n <= Len(chain) => chain[i].entry.ts <= chain[i + n].entry.ts}
<1>1. /\ Len(chain) \in Nat /\ \A k \in 1..Len(chain) : chain[k].entry.ts \in Nat
  BY DEF ChainInv
<1>2. 0 \in S
  BY <1>1
<1>3. ASSUME NEW n \in S
      PROVE  n + 1 \in S
  <2> SUFFICES ASSUME i + (n + 1) <= Len(chain)
               PROVE  chain[i].entry.ts <= chain[i + (n + 1)].entry.ts
    OBVIOUS
  <2>1. i + n \in 1..Len(chain) /\ i + (n + 1) \in 2..Len(chain) /\ i + (n + 1) - 1 = i + n
        /\ i + (n + 1) \in 1..Len(chain)
    BY <1>1
  <2>2. chain[i].entry.ts <= chain[i + n].entry.ts
    BY <1>1, <2>1
  <2>3. chain[i + n].entry.ts <= chain[i + (n + 1)].entry.ts
    BY <2>1
  <2>4. /\ chain[i].entry.ts \in Nat /\ chain[i + n].entry.ts \in Nat
        /\ chain[i + (n + 1)].entry.ts \in Nat
    BY <1>1, <2>1
  <2>5. \A x, y, z \in Nat : x <= y /\ y <= z => x <= z
    OBVIOUS
  <2> QED
    BY ONLY <2>2, <2>3, <2>4, <2>5
<1>4. S = Nat
  <2>1. S \in SUBSET Nat
    OBVIOUS
  <2> HIDE DEF S
  <2> QED
    BY <1>2, <1>3, <2>1, NatSetInduction
<1>5. ASSUME NEW j \in i..Len(chain)
      PROVE  chain[i].entry.ts <= chain[j].entry.ts
  <2>1. j - i \in Nat /\ i + (j - i) = j /\ j <= Len(chain)
    BY <1>1
  <2>2. j - i \in S
    BY <1>4, <2>1
  <2> QED
    BY <2>1, <2>2
<1> QED
  BY <1>5

(* What the reconstruction walks is a prefix with no stamp too late, and   *)
(* what follows it starts too late (reconstruct_state).                    *)
LEMMA WalkedPrefix ==
  ASSUME ChainInv, NEW at \in Nat
  PROVE  \E n \in 0..Len(chain) :
           /\ Len(Walked(at)) = n /\ DOMAIN Walked(at) = 1..n
           /\ \A i \in 1..n : Walked(at)[i] = chain[i] /\ chain[i].entry.ts <= at
           /\ n < Len(chain) => chain[n + 1].entry.ts > at
<1> DEFINE I == {i \in 1..Len(chain) : chain[i].entry.ts > at}
           late == SelectInSeq(chain, LAMBDA c : c.entry.ts > at)
<1>1. late = IF I # {} THEN CHOOSE m \in I : \A n \in I : m <= n ELSE 0
  BY DEF SelectInSeq, Min
<1>2. Walked(at) = IF late = 0 THEN chain ELSE SubSeq(chain, 1, late - 1)
  BY DEF Walked
<1>3. /\ chain \in Seq(ToSet(chain)) /\ Len(chain) \in Nat /\ DOMAIN chain = 1..Len(chain)
      /\ \A i \in 1..Len(chain) : chain[i].entry.ts \in Nat
  BY DEF ChainInv
<1>4. I \in SUBSET Nat /\ I \subseteq 1..Len(chain)
  BY <1>3
<1> HIDE DEF late
<1>5. CASE I = {}
  <2>1. Walked(at) = chain
    BY <1>1, <1>2, <1>5
  <2>2. \A i \in 1..Len(chain) : chain[i].entry.ts <= at
    BY <1>3, <1>5
  <2>3. Len(chain) \in 0..Len(chain) /\ ~(Len(chain) < Len(chain))
    BY <1>3
  <2> QED
    BY <1>3, <2>1, <2>2, <2>3
<1>6. CASE I # {}
  <2>1. \E m \in I : \A n \in I : m <= n
    BY ONLY <1>4, <1>6, LeastNatural
  <2>2. late \in I /\ \A n \in I : late <= n
    BY <1>1, <1>6, <2>1
  <2>3. late \in 1..Len(chain) /\ chain[late].entry.ts > at /\ late # 0 /\ late - 1 \in 0..Len(chain)
    BY <1>3, <2>2
  <2>4. ASSUME NEW i \in 1..(late - 1)
        PROVE  chain[i].entry.ts <= at
    <3>1. i \in 1..Len(chain) /\ ~(late <= i)
      BY <1>3, <2>3
    <3> QED
      BY <1>3, <2>2, <3>1
  <2>5. Walked(at) = SubSeq(chain, 1, late - 1)
    BY <1>2, <2>3
  <2>6. /\ Len(SubSeq(chain, 1, late - 1)) = late - 1 /\ DOMAIN SubSeq(chain, 1, late - 1) = 1..(late - 1)
        /\ \A i \in 1..(late - 1) : SubSeq(chain, 1, late - 1)[i] = chain[i]
    BY <1>3, <2>3
  <2>7. (late - 1) + 1 = late
    BY <1>3, <2>3
  <2> QED
    BY <2>3, <2>4, <2>5, <2>6, <2>7
<1> QED
  BY <1>5, <1>6

(* The reconstruction counts entries of the replay's range, and all of     *)
(* them when no stamp is out of order (reconstruct_state, replay_range).   *)
LEMMA ReplayCounts ==
  ASSUME ChainInv
  PROVE  ReplayAgrees
<1>1. /\ chain \in Seq(ToSet(chain)) /\ Len(chain) \in Nat /\ DOMAIN chain = 1..Len(chain)
      /\ \A i \in 1..Len(chain) : chain[i].entry.ts \in Nat
      /\ Verifies /\ (chain # <<>> => head = Last(chain).hash)
  BY DEF ChainInv
<1>2. ASSUME NEW at \in 0..MaxStamp, NEW a \in ChainAgents
      PROVE  LET Ordered == \A i \in 2..Len(chain) : chain[i - 1].entry.ts <= chain[i].entry.ts
                 replayed == Cardinality({i \in ReplayRange(0, at) : chain[i].entry.agent = a}) IN
             /\ ActionCount(at, a) <= replayed
             /\ Ordered => ActionCount(at, a) = replayed
  <2> DEFINE W == {i \in DOMAIN Walked(at) : Walked(at)[i].entry.agent = a}
             R == {i \in ReplayRange(0, at) : chain[i].entry.agent = a}
  <2>1. at \in Nat
    BY RecordsAssumption
  <2>2. PICK n \in 0..Len(chain) :
           /\ Len(Walked(at)) = n /\ DOMAIN Walked(at) = 1..n
           /\ \A i \in 1..n : Walked(at)[i] = chain[i] /\ chain[i].entry.ts <= at
           /\ n < Len(chain) => chain[n + 1].entry.ts > at
    BY <2>1, WalkedPrefix
  <2>3. 1..n \subseteq 1..Len(chain)
    BY <1>1
  <2>4. W \subseteq R
    <3> SUFFICES ASSUME NEW i \in W PROVE i \in R
      OBVIOUS
    <3>1. i \in 1..n /\ chain[i].entry.agent = a /\ chain[i].entry.ts <= at /\ i \in 1..Len(chain)
      BY <2>2, <2>3
    <3> QED
      BY <1>1, <2>1, <3>1 DEF ReplayRange
  <2>5. IsFiniteSet(R)
    <3>1. R \subseteq 1..Len(chain)
      BY <1>1 DEF ReplayRange
    <3>2. IsFiniteSet(1..Len(chain))
      BY <1>1, FS_Interval
    <3> QED
      BY <3>1, <3>2, FS_Subset
  <2>6. Cardinality(W) <= Cardinality(R)
    BY <2>4, <2>5, FS_Subset
  <2>7. ASSUME \A i \in 2..Len(chain) : chain[i - 1].entry.ts <= chain[i].entry.ts
        PROVE  R \subseteq W
    <3> SUFFICES ASSUME NEW i \in R, i \notin 1..n PROVE FALSE
      BY <2>2
    <3>1. i \in 1..Len(chain) /\ chain[i].entry.ts <= at
      BY <1>1, <2>1 DEF ReplayRange
    <3>2. n < Len(chain) /\ n + 1 \in 1..Len(chain) /\ i \in (n + 1)..Len(chain)
      BY <1>1, <3>1
    <3>3. chain[n + 1].entry.ts > at
      BY <2>2, <3>2
    <3>4. chain[n + 1].entry.ts <= chain[i].entry.ts
      BY <2>7, <3>2, StampsOrdered
    <3>5. chain[n + 1].entry.ts \in Nat /\ chain[i].entry.ts \in Nat
      BY <1>1, <3>1, <3>2
    <3> QED
      BY <2>1, <3>1, <3>3, <3>4, <3>5
  <2> QED
    BY <2>4, <2>6, <2>7 DEF ActionCount
<1> QED
  BY <1>1, <1>2 DEF ReplayAgrees

LEMMA IdentitiesStep ==
  ASSUME IdentitiesInv, [RecordsNext]_recordVars
  PROVE  IdentitiesInv'
<1> DEFINE Identity == [root : Roots, lineage : Seq(Roots)]
<1>1. /\ identities \in Seq(Identity) /\ Len(identities) \in Nat /\ DOMAIN identities = 1..Len(identities)
      /\ \A i \in 1..Len(identities) :
           identities[i] \in Identity /\ identities[i].root \in Roots /\ identities[i].lineage \in Seq(Roots)
      /\ \A i \in 2..Len(identities) :
           /\ identities[i].lineage # <<>>
           /\ \E j \in 1..(i - 1) : Front(identities[i].lineage) = identities[j].lineage
  <2>1. identities \in Seq(Identity)
    BY DEF IdentitiesInv
  <2>2. \A i \in 2..Len(identities) :
           /\ identities[i].lineage # <<>>
           /\ \E j \in 1..(i - 1) : Front(identities[i].lineage) = identities[j].lineage
    BY DEF IdentitiesInv
  <2>3. \A r \in Identity : r.root \in Roots /\ r.lineage \in Seq(Roots)
    OBVIOUS
  <2> HIDE DEF Identity
  <2>4. /\ Len(identities) \in Nat /\ DOMAIN identities = 1..Len(identities)
        /\ \A i \in 1..Len(identities) : identities[i] \in Identity
    BY <2>1
  <2> QED
    BY <2>1, <2>2, <2>3, <2>4
<1>2. CASE UNCHANGED identities
  BY <1>2 DEF IdentitiesInv
<1>3. ASSUME NEW k \in DOMAIN identities, Fork(k)
      PROVE  IdentitiesInv'
  <2> DEFINE old == identities[k].lineage
             new == Append(old, identities[k].root)
             f == [root |-> identities[k].root, lineage |-> new]
             t == Append(identities, f)
  <2>1. identities' = t
    BY <1>3 DEF Fork
  <2>2. old \in Seq(Roots) /\ identities[k].root \in Roots /\ k \in 1..Len(identities)
    BY <1>1
  <2> HIDE DEF old
  <2>3. new \in Seq(Roots) /\ new # <<>> /\ Front(new) = old
    <3>1. new \in Seq(Roots) /\ new # <<>> /\ Len(new) = Len(old) + 1 /\ Len(old) \in Nat
      BY <2>2
    <3>2. Front(new) = SubSeq(new, 1, Len(old))
      BY <3>1 DEF Front
    <3>3. \A i \in 1..Len(old) : new[i] = old[i]
      BY <2>2
    <3>4. /\ SubSeq(new, 1, Len(old)) \in Seq(Roots) /\ Len(SubSeq(new, 1, Len(old))) = Len(old)
          /\ \A i \in 1..Len(old) : SubSeq(new, 1, Len(old))[i] = new[i]
      BY <3>1
    <3>5. SubSeq(new, 1, Len(old)) = old
      BY <2>2, <3>3, <3>4, SeqAgree
    <3> QED
      BY <3>1, <3>2, <3>5
  <2> HIDE DEF new
  <2>4. f \in Identity /\ f.lineage = new
    BY <2>2, <2>3
  <2> HIDE DEF f
  <2>5. /\ t \in Seq(Identity) /\ Len(t) = Len(identities) + 1
        /\ t[Len(identities) + 1] = f /\ \A i \in 1..Len(identities) : t[i] = identities[i]
    BY <1>1, <2>4
  <2> HIDE DEF t
  <2>6. ASSUME NEW i \in 2..Len(t)
        PROVE  t[i].lineage # <<>> /\ \E j \in 1..(i - 1) : Front(t[i].lineage) = t[j].lineage
    <3>1. CASE i \in 2..Len(identities)
      <4>1. PICK j \in 1..(i - 1) : Front(identities[i].lineage) = identities[j].lineage
        BY <1>1, <3>1
      <4>2. j \in 1..Len(identities) /\ i \in 1..Len(identities)
        BY <1>1, <3>1
      <4> QED
        BY <1>1, <2>5, <3>1, <4>1, <4>2
    <3>2. CASE i = Len(identities) + 1
      <4>1. t[i] = f /\ t[k].lineage = old /\ k \in 1..(i - 1)
        BY <1>1, <2>2, <2>5, <3>2 DEF old
      <4> QED
        BY <2>3, <2>4, <4>1
    <3> QED
      BY <1>1, <2>5, <3>1, <3>2
  <2> QED
    BY <2>1, <2>5, <2>6 DEF IdentitiesInv
<1>4. ASSUME NEW k \in DOMAIN identities, NEW r \in Roots, SetRoot(k, r)
      PROVE  IdentitiesInv'
  <2> DEFINE g == [identities[k] EXCEPT !.root = r]
             t == [identities EXCEPT ![k] = g]
  <2>1. identities' = t
    BY <1>4 DEF SetRoot
  <2>2. g \in Identity /\ g.lineage = identities[k].lineage
    BY <1>1
  <2> HIDE DEF g
  <2>3. t \in Seq(Identity) /\ Len(t) = Len(identities)
    BY <1>1, <2>2
  <2>4. \A i \in 1..Len(identities) : t[i].lineage = identities[i].lineage
    BY <1>1, <2>2
  <2> HIDE DEF t
  <2>5. ASSUME NEW i \in 2..Len(t)
        PROVE  t[i].lineage # <<>> /\ \E j \in 1..(i - 1) : Front(t[i].lineage) = t[j].lineage
    <3>1. i \in 2..Len(identities) /\ i \in 1..Len(identities)
      BY <1>1, <2>3
    <3>2. PICK j \in 1..(i - 1) : Front(identities[i].lineage) = identities[j].lineage
      BY <1>1, <3>1
    <3>3. j \in 1..Len(identities)
      BY <1>1, <3>1
    <3> QED
      BY <1>1, <2>4, <3>1, <3>2, <3>3
  <2> QED
    BY <2>1, <2>3, <2>5 DEF IdentitiesInv
<1>5. ChainNext \/ RewriteNext \/ UNCHANGED recordVars => UNCHANGED identities
  BY DEF ChainNext, StampTick, RewriteNext, recordVars, AppendEntry, Watch, EvaluateRewrite
<1> QED
  BY <1>2, <1>3, <1>4, <1>5 DEF RecordsNext, IdentityNext

(* The last root of a lineage is in it, whatever the roots are now         *)
(* (is_descended_from).                                                    *)
LEMMA LineagesKeep ==
  ASSUME IdentitiesInv
  PROVE  LineagesGrow
<1> SUFFICES ASSUME NEW i \in 2..Len(identities)
             PROVE  /\ identities[i].lineage # <<>> /\ DescendedFrom(i, Last(identities[i].lineage))
                    /\ \E j \in 1..(i - 1) : Front(identities[i].lineage) = identities[j].lineage
  BY DEF LineagesGrow
<1>1. identities[i].lineage # <<>> /\ \E j \in 1..(i - 1) : Front(identities[i].lineage) = identities[j].lineage
  BY DEF IdentitiesInv
<1>2. identities[i].lineage \in Seq(Roots)
  <2> DEFINE Identity == [root : Roots, lineage : Seq(Roots)]
  <2>1. identities \in Seq(Identity) /\ i \in 1..Len(identities)
    BY DEF IdentitiesInv
  <2>2. \A r \in Identity : r.lineage \in Seq(Roots)
    OBVIOUS
  <2> HIDE DEF Identity
  <2> QED
    BY <2>1, <2>2
<1>3. Last(identities[i].lineage) \in ToSet(identities[i].lineage)
  BY <1>1, <1>2 DEF Last, ToSet
<1> QED
  BY <1>1, <1>3 DEF DescendedFrom

(***************************************************************************)
(* What HAL writes down can be read back: the chain verifies and the       *)
(* reconstruction counts no more than the replay, lineages grow from their *)
(* parents', the snapshot file is never torn and never gone once one was   *)
(* on the disk, through failed writes and power failures, the recovery     *)
(* points are the latest, and the cache's list and map agree.              *)
(***************************************************************************)
THEOREM RecordsReadable == Spec => []RecordsSound
<1> DEFINE Inv == ChainInv /\ IdentitiesInv /\ SnapshotsInv /\ SettledInv /\ PointsInv
<1>1. Init => Inv
  BY RecordsInitial, ContinuityInitial DEF Init
<1>2. Inv /\ [Next]_vars => Inv'
  BY ChainStep, IdentitiesStep, SnapshotsStep, SettledStep, PointsStep, OneDriven
<1>3. Inv /\ CacheInv => RecordsSound
  BY ReplayCounts, LineagesKeep DEF RecordsSound, SnapshotsInv, SettledInv, SnapshotWhole, PointsInv, CacheInv
<1> QED
  BY <1>1, <1>2, <1>3, CacheInvariance, PTL DEF Spec

-------------------------------------------------------------------------------
(* The autonomy budget and recursion. *)

LEMMA PrivilegesInitial ==
  ASSUME PrivilegeInit
  PROVE  BudgetInv /\ DepthInv /\ RateInv
<1>1. BudgetInv
  BY PrivilegeAssumption DEF PrivilegeInit, BudgetInv, Rank
<1>2. DepthInv
  BY PrivilegeAssumption DEF PrivilegeInit, DepthInv
<1>3. RateInv
  BY DEF PrivilegeInit, RateInv
<1> QED
  BY <1>1, <1>2, <1>3

(* A risky action is let through while units are left, and the last unit   *)
(* leaves at most the other callers' decisions to be carried out           *)
(* (can_auto_execute, consume_budget).                                     *)
LEMMA BudgetStep ==
  ASSUME BudgetInv, [PrivilegeNext]_privilegeVars
  PROVE  BudgetInv'
<1>1. /\ level \in DOMAIN Rank /\ risky \in Nat /\ spent \in Nat /\ spent <= MaxPerPeriod
      /\ allowed \in [{"mild", "risky"} -> Nat] /\ allowed["mild"] + allowed["risky"] <= MaxCallers
      /\ allowed["mild"] \in Nat /\ allowed["risky"] \in Nat
      /\ spent < MaxPerPeriod => risky <= spent
      /\ ~(spent < MaxPerPeriod) => risky + allowed["risky"] <= MaxPerPeriod + MaxCallers - 1
      /\ MaxPerPeriod \in Nat /\ MaxCallers \in Nat \ {0}
  BY PrivilegeAssumption DEF BudgetInv
<1>2. ASSUME NEW to \in DOMAIN Rank, Escalate(to) \/ Deescalate(to)
      PROVE  BudgetInv'
  BY <1>1, <1>2 DEF Escalate, Deescalate, BudgetInv
<1>3. ASSUME NEW risk \in {2, 3, 5, 6}, AskController(risk)
      PROVE  BudgetInv'
  <2>1. /\ UNCHANGED <<level, spent, risky>> /\ allowed["mild"] + allowed["risky"] < MaxCallers
        /\ allowed' = [allowed EXCEPT ![Class(risk)] = @ + 1]
        /\ (risk >= 3 => spent < MaxPerPeriod)
    BY <1>3 DEF AskController, CanAutoExecute
  <2>2. CASE risk >= 3
    <3>1. allowed' = [allowed EXCEPT !["risky"] = @ + 1]
      BY <2>1, <2>2 DEF Class
    <3> QED
      BY <1>1, <2>1, <2>2, <3>1 DEF BudgetInv
  <2>3. CASE ~(risk >= 3)
    <3>1. allowed' = [allowed EXCEPT !["mild"] = @ + 1]
      BY <2>1, <2>3 DEF Class
    <3> QED
      BY <1>1, <2>1, <3>1 DEF BudgetInv
  <2> QED
    BY <2>2, <2>3
<1>4. ASSUME ConsumeBudget("mild")
      PROVE  BudgetInv'
  <2>1. /\ level' = level /\ spent' = (IF spent < MaxPerPeriod THEN spent + 1 ELSE spent) /\ risky' = risky
        /\ allowed["mild"] > 0 /\ allowed' = [allowed EXCEPT !["mild"] = @ - 1]
    BY <1>4 DEF ConsumeBudget
  <2>2. /\ allowed' \in [{"mild", "risky"} -> Nat] /\ allowed'["risky"] = allowed["risky"]
        /\ allowed'["mild"] + allowed'["risky"] <= MaxCallers /\ allowed["risky"] <= MaxCallers - 1
    BY <1>1, <2>1
  <2>3. spent' < MaxPerPeriod => risky' <= spent'
    BY <1>1, <2>1
  <2>4. ~(spent' < MaxPerPeriod) => risky' + allowed'["risky"] <= MaxPerPeriod + MaxCallers - 1
    BY <1>1, <2>1, <2>2
  <2> QED
    BY <1>1, <2>1, <2>2, <2>3, <2>4 DEF BudgetInv
<1>5. ASSUME ConsumeBudget("risky")
      PROVE  BudgetInv'
  <2>1. /\ level' = level /\ spent' = (IF spent < MaxPerPeriod THEN spent + 1 ELSE spent) /\ risky' = risky + 1
        /\ allowed["risky"] > 0 /\ allowed' = [allowed EXCEPT !["risky"] = @ - 1]
    BY <1>5 DEF ConsumeBudget
  <2>2. /\ allowed' \in [{"mild", "risky"} -> Nat] /\ allowed'["risky"] = allowed["risky"] - 1
        /\ allowed'["mild"] + allowed'["risky"] <= MaxCallers /\ allowed["risky"] <= MaxCallers
    BY <1>1, <2>1
  <2>3. spent' < MaxPerPeriod => risky' <= spent'
    BY <1>1, <2>1
  <2>4. ~(spent' < MaxPerPeriod) => risky' + allowed'["risky"] <= MaxPerPeriod + MaxCallers - 1
    BY <1>1, <2>1, <2>2
  <2> QED
    BY <1>1, <2>1, <2>2, <2>3, <2>4 DEF BudgetInv
<1>6. CASE ResetPeriod
  BY <1>1, <1>6 DEF ResetPeriod, BudgetInv
<1>7. CASE UNCHANGED autonomyVars
  BY <1>7 DEF autonomyVars, BudgetInv
<1>8. RecursionNext \/ UNCHANGED privilegeVars => UNCHANGED autonomyVars
  BY DEF RecursionNext, autonomyVars, privilegeVars
<1> QED
  BY <1>2, <1>3, <1>4, <1>5, <1>6, <1>7, <1>8 DEF PrivilegeNext, AutonomyNext

(* One guard is alive at a time, and its drop gives back what its entry    *)
(* took unless it was released (enter, Drop, release).                     *)
LEMMA DepthStep ==
  ASSUME DepthInv, [PrivilegeNext]_privilegeVars
  PROVE  DepthInv'
<1>1. /\ depth \in [Agents -> Nat] /\ released \in [Agents -> Nat] /\ guard \in Agents \cup {"none"}
      /\ \A a \in Agents : depth[a] = released[a] + (IF guard = a THEN 1 ELSE 0)
      /\ "none" \notin Agents
  BY PrivilegeAssumption DEF DepthInv
<1>2. CASE UNCHANGED <<depth, released, guard>>
  BY <1>2 DEF DepthInv
<1>3. ASSUME NEW a \in Agents, Enter(a)
      PROVE  DepthInv'
  <2>1. CASE UNCHANGED <<depth, guard>>
    BY <1>1, <1>3, <2>1 DEF Enter, DepthInv
  <2>2. CASE depth' = [depth EXCEPT ![a] = @ + 1] /\ guard' = a
    <3>1. guard = "none" /\ released' = released
      BY <1>3 DEF Enter
    <3>2. depth' \in [Agents -> Nat]
      BY <1>1, <2>2
    <3>3. \A x \in Agents : depth[x] = released[x]
      BY <1>1, <3>1
    <3>4. \A x \in Agents : depth'[x] = released[x] + (IF a = x THEN 1 ELSE 0)
      BY <1>1, <2>2, <3>3
    <3> QED
      BY <1>1, <2>2, <3>1, <3>2, <3>4 DEF DepthInv
  <2> QED
    BY <1>3, <2>1, <2>2 DEF Enter
<1>4. CASE DropGuard
  <2>1. guard \in Agents /\ guard' = "none" /\ released' = released
        /\ depth' = [depth EXCEPT ![guard] = IF @ > 0 THEN @ - 1 ELSE 0]
    BY <1>1, <1>4 DEF DropGuard
  <2>2. depth[guard] = released[guard] + 1 /\ released[guard] \in Nat
    BY <1>1, <2>1
  <2>3. depth' \in [Agents -> Nat]
    BY <1>1, <2>1, <2>2
  <2>4. \A x \in Agents : depth'[x] = released[x]
    BY <1>1, <2>1, <2>2
  <2> QED
    BY <1>1, <2>1, <2>3, <2>4 DEF DepthInv
<1>5. CASE ReleaseGuard
  <2>1. guard \in Agents /\ guard' = "none" /\ depth' = depth
        /\ released' = [released EXCEPT ![guard] = @ + 1]
    BY <1>1, <1>5 DEF ReleaseGuard
  <2>2. released' \in [Agents -> Nat]
    BY <1>1, <2>1
  <2>3. \A x \in Agents : depth[x] = released'[x]
    BY <1>1, <2>1
  <2> QED
    BY <1>1, <2>1, <2>2, <2>3 DEF DepthInv
<1>6. AutonomyNext \/ PrivilegeTick \/ UNCHANGED privilegeVars => UNCHANGED <<depth, released, guard>>
  BY DEF AutonomyNext, recursionVars, privilegeVars, PrivilegeTick
<1> QED
  BY <1>2, <1>3, <1>4, <1>5, <1>6 DEF PrivilegeNext, RecursionNext

(* What retain leaves are the last entries, and what it drops is old.      *)
LEMMA RecentEntries ==
  ASSUME RateInv, NEW a \in Agents
  PROVE  \E n \in 0..Len(entries[a]) :
           /\ Recent(a) \in Seq(Nat) /\ Len(Recent(a)) = Len(entries[a]) - n
           /\ \A i \in 1..Len(Recent(a)) : Recent(a)[i] = entries[a][n + i]
           /\ \A i \in 1..n : time - entries[a][i] >= RateWindow
<1> DEFINE s == entries[a]
           I == {i \in 1..Len(s) : time - s[i] < RateWindow}
           first == SelectInSeq(s, LAMBDA t : time - t < RateWindow)
<1>1. first = IF I # {} THEN CHOOSE m \in I : \A n \in I : m <= n ELSE 0
  BY DEF SelectInSeq, Min
<1>2. Recent(a) = IF first = 0 THEN <<>> ELSE SubSeq(s, first, Len(s))
  BY DEF Recent
<1>3. s \in Seq(Nat) /\ time \in Nat /\ RateWindow \in Nat
  BY PrivilegeAssumption DEF RateInv
<1> HIDE DEF first, s
<1>4. Len(s) \in Nat /\ \A i \in 1..Len(s) : s[i] \in Nat
  BY <1>3
<1>5. I \in SUBSET Nat /\ I \subseteq 1..Len(s)
  BY <1>4
<1> SUFFICES \E n \in 0..Len(s) :
           /\ Recent(a) \in Seq(Nat) /\ Len(Recent(a)) = Len(s) - n
           /\ \A i \in 1..Len(Recent(a)) : Recent(a)[i] = s[n + i]
           /\ \A i \in 1..n : time - s[i] >= RateWindow
  BY DEF s
<1>6. CASE I = {}
  <2>1. Recent(a) = <<>>
    BY <1>1, <1>2, <1>6
  <2>2. ASSUME NEW i \in 1..Len(s) PROVE time - s[i] >= RateWindow
    <3>1. i \notin I
      BY <1>6
    <3>2. ~(time - s[i] < RateWindow)
      BY <3>1
    <3>3. s[i] \in Nat
      BY <1>4
    <3> HIDE DEF I
    <3> QED
      BY <1>3, <3>2, <3>3
  <2>3. Recent(a) \in Seq(Nat) /\ Len(Recent(a)) = Len(s) - Len(s) /\ 1..Len(Recent(a)) = {}
    BY <1>4, <2>1
  <2>4. \A i \in 1..Len(Recent(a)) : Recent(a)[i] = s[Len(s) + i]
    BY <2>3
  <2>5. Len(s) \in 0..Len(s)
    BY <1>4
  <2> QED
    BY Zenon, <2>2, <2>3, <2>4, <2>5
<1>7. CASE I # {}
  <2>1. \E m \in I : \A n \in I : m <= n
    BY ONLY <1>5, <1>7, LeastNatural
  <2>2. first \in I /\ \A n \in I : first <= n
    BY <1>1, <1>7, <2>1
  <2>3. first \in 1..Len(s) /\ first # 0 /\ first - 1 \in 0..Len(s)
    BY <1>4, <2>2
  <2>4. ASSUME NEW i \in 1..(first - 1)
        PROVE  time - s[i] >= RateWindow
    <3>1. i \in 1..Len(s) /\ ~(first <= i)
      BY <1>4, <2>3
    <3> QED
      BY <1>3, <1>4, <2>2, <3>1
  <2>5. Recent(a) = SubSeq(s, first, Len(s))
    BY <1>2, <2>3
  <2>6. /\ SubSeq(s, first, Len(s)) \in Seq(Nat)
        /\ Len(SubSeq(s, first, Len(s))) = Len(s) - (first - 1)
        /\ \A i \in 1..(Len(s) - (first - 1)) : SubSeq(s, first, Len(s))[i] = s[(first - 1) + i]
    BY <1>3, <1>4, <2>3
  <2> QED
    BY <2>3, <2>4, <2>5, <2>6
<1> QED
  BY <1>6, <1>7

(* What RateInv says of one agent: its listed entries, all of them. *)
Rated(e, acc, instant) ==
  LET gone == Len(acc) - Len(e) IN
  /\ gone \in Nat /\ \A i \in DOMAIN e : e[i] = acc[gone + i]
  /\ \A i \in 1..gone : instant - acc[i] >= RateWindow
  /\ \A i, j \in DOMAIN acc : j >= i + WindowMaxEntries => acc[j] - acc[i] >= RateWindow

(* Dropping old entries from the list keeps it the end of all of them, and *)
(* whatever is not listed is then a window old (retain).                   *)
LEMMA RatedRecent ==
  ASSUME NEW e \in Seq(Nat), NEW acc \in Seq(Nat), NEW instant \in Nat, Rated(e, acc, instant),
         NEW n \in 0..Len(e), NEW r \in Seq(Nat), Len(r) = Len(e) - n,
         \A i \in 1..Len(r) : r[i] = e[n + i],
         \A i \in 1..n : instant - e[i] >= RateWindow
  PROVE  Rated(r, acc, instant)
<1> DEFINE gone == Len(acc) - Len(e)
<1>a. /\ Len(e) \in Nat /\ Len(acc) \in Nat /\ Len(r) \in Nat /\ n \in Nat
      /\ DOMAIN e = 1..Len(e) /\ n <= Len(e)
  OBVIOUS
<1>b. /\ gone \in Nat
      /\ \A i \in DOMAIN e : e[i] = acc[gone + i]
      /\ \A i \in 1..gone : instant - acc[i] >= RateWindow
      /\ \A i, j \in DOMAIN acc : j >= i + WindowMaxEntries => acc[j] - acc[i] >= RateWindow
  BY Zenon DEF Rated
<1>1. /\ Len(e) \in Nat /\ Len(acc) \in Nat /\ Len(r) \in Nat /\ gone \in Nat /\ n \in Nat /\ n <= Len(e)
      /\ \A i \in 1..Len(e) : e[i] = acc[gone + i]
      /\ \A i \in 1..gone : instant - acc[i] >= RateWindow
      /\ \A i, j \in DOMAIN acc : j >= i + WindowMaxEntries => acc[j] - acc[i] >= RateWindow
  BY <1>a, <1>b, Zenon
<1>2. Len(acc) - Len(r) = gone + n /\ gone + n \in Nat
  BY <1>1
<1> HIDE DEF gone
<1>3. ASSUME NEW i \in 1..Len(r)
      PROVE  r[i] = acc[(gone + n) + i]
  <2>1. n + i \in 1..Len(e) /\ gone + (n + i) = (gone + n) + i
    BY <1>1
  <2> QED
    BY <1>1, <2>1
<1>4. ASSUME NEW i \in 1..(gone + n)
      PROVE  instant - acc[i] >= RateWindow
  <2>1. CASE i <= gone
    BY <1>1, <2>1
  <2>2. CASE i > gone
    <3>1. i - gone \in 1..n /\ i - gone \in 1..Len(e) /\ gone + (i - gone) = i
      BY <1>1, <2>2
    <3>2. e[i - gone] = acc[i]
      BY <1>1, <3>1
    <3> QED
      BY <3>1, <3>2
  <2> QED
    BY <1>1, <2>1, <2>2
<1>5. DOMAIN r = 1..Len(r)
  OBVIOUS
<1> QED
  BY <1>1, <1>2, <1>3, <1>4, <1>5 DEF Rated

(* An entry is accepted when fewer than the limit are listed, so that the  *)
(* one the limit before it is not, and is a window older (enter).          *)
LEMMA RatedAppend ==
  ASSUME NEW e \in Seq(Nat), NEW acc \in Seq(Nat), NEW instant \in Nat, Rated(e, acc, instant),
         Len(e) < WindowMaxEntries
  PROVE  Rated(Append(e, instant), Append(acc, instant), instant)
<1> DEFINE gone == Len(acc) - Len(e)
           f == Append(e, instant)
           all == Append(acc, instant)
<1>a. /\ Len(e) \in Nat /\ Len(acc) \in Nat /\ DOMAIN e = 1..Len(e) /\ DOMAIN acc = 1..Len(acc)
      /\ WindowMaxEntries \in Nat
  BY PrivilegeAssumption
<1>b. /\ gone \in Nat
      /\ \A i \in DOMAIN e : e[i] = acc[gone + i]
      /\ \A i \in 1..gone : instant - acc[i] >= RateWindow
      /\ \A i, j \in DOMAIN acc : j >= i + WindowMaxEntries => acc[j] - acc[i] >= RateWindow
  BY Zenon DEF Rated
<1>1. /\ Len(e) \in Nat /\ Len(acc) \in Nat /\ gone \in Nat /\ WindowMaxEntries \in Nat
      /\ \A i \in 1..Len(e) : e[i] = acc[gone + i]
      /\ \A i \in 1..gone : instant - acc[i] >= RateWindow
      /\ \A i, j \in 1..Len(acc) : j >= i + WindowMaxEntries => acc[j] - acc[i] >= RateWindow
  BY <1>a, <1>b, Zenon
<1>2. /\ DOMAIN f = 1..(Len(e) + 1) /\ Len(f) = Len(e) + 1 /\ f[Len(e) + 1] = instant
      /\ \A i \in 1..Len(e) : f[i] = e[i]
  OBVIOUS
<1>3. /\ DOMAIN all = 1..(Len(acc) + 1) /\ Len(all) = Len(acc) + 1 /\ all[Len(acc) + 1] = instant
      /\ \A i \in 1..Len(acc) : all[i] = acc[i]
  OBVIOUS
<1>4. Len(all) - Len(f) = gone
  BY <1>1, <1>2, <1>3
<1> HIDE DEF f, all
<1>5. ASSUME NEW i \in 1..(Len(e) + 1)
      PROVE  f[i] = all[gone + i]
  <2>1. CASE i = Len(e) + 1
    <3>1. gone + i = Len(acc) + 1
      BY <1>1, <2>1
    <3> QED
      BY <1>2, <1>3, <2>1, <3>1
  <2>2. CASE i # Len(e) + 1
    <3>1. i \in 1..Len(e) /\ gone + i \in 1..Len(acc)
      BY <1>1, <2>2
    <3> QED
      BY <1>1, <1>2, <1>3, <3>1
  <2> QED
    BY <2>1, <2>2
<1>6. ASSUME NEW i \in 1..gone
      PROVE  i \in 1..Len(acc) /\ instant - all[i] >= RateWindow
  <2>1. i \in 1..Len(acc)
    BY <1>1
  <2> QED
    BY <1>1, <1>3, <2>1
<1>7. ASSUME NEW i \in 1..(Len(acc) + 1), NEW j \in 1..(Len(acc) + 1), j >= i + WindowMaxEntries
      PROVE  all[j] - all[i] >= RateWindow
  <2>1. i \in 1..Len(acc)
    BY <1>1, <1>7
  <2>2. CASE j = Len(acc) + 1
    <3>1. i \in 1..gone
      BY <1>1, <1>7, <2>2
    <3> QED
      BY <1>3, <1>6, <2>2, <3>1
  <2>3. CASE j # Len(acc) + 1
    <3>1. j \in 1..Len(acc)
      BY <1>1, <2>3
    <3> QED
      BY <1>1, <1>3, <1>7, <2>1, <3>1
  <2> QED
    BY <2>2, <2>3
<1> HIDE DEF gone
<1>8. Rated(f, all, instant)
  BY <1>1, <1>2, <1>3, <1>4, <1>5, <1>6, <1>7 DEF Rated
<1> QED
  BY <1>8 DEF f, all

LEMMA RateStep ==
  ASSUME RateInv, [PrivilegeNext]_privilegeVars
  PROVE  RateInv'
<1>1. /\ entries \in [Agents -> Seq(Nat)] /\ acceptedAt \in [Agents -> Seq(Nat)] /\ time \in Nat /\ RateWindow \in Nat
      /\ \A a \in Agents : Rated(entries[a], acceptedAt[a], time)
  BY PrivilegeAssumption DEF RateInv, Rated
<1>2. ASSUME /\ entries' \in [Agents -> Seq(Nat)] /\ acceptedAt' \in [Agents -> Seq(Nat)] /\ time' \in Nat
             /\ \A a \in Agents : Rated(entries'[a], acceptedAt'[a], time')
      PROVE  RateInv'
  BY <1>2 DEF RateInv, Rated
<1>3. CASE UNCHANGED <<entries, acceptedAt, time>>
  BY <1>1, <1>2, <1>3
<1>4. CASE PrivilegeTick
  <2>1. entries' = entries /\ acceptedAt' = acceptedAt /\ time' = time + 1
    BY <1>4 DEF PrivilegeTick
  <2>2. ASSUME NEW a \in Agents
        PROVE  Rated(entries'[a], acceptedAt'[a], time')
    <3> DEFINE e == entries[a]
               acc == acceptedAt[a]
    <3>1. Rated(e, acc, time) /\ e \in Seq(Nat) /\ acc \in Seq(Nat)
      BY <1>1
    <3> HIDE DEF e, acc
    <3>2. Len(e) \in Nat /\ Len(acc) \in Nat /\ \A i \in 1..Len(acc) : acc[i] \in Nat
      BY <3>1
    <3>3. Len(acc) - Len(e) \in Nat /\ \A i \in 1..(Len(acc) - Len(e)) : time - acc[i] >= RateWindow
      BY <3>1, Zenon DEF Rated
    <3>4. \A i \in 1..(Len(acc) - Len(e)) : (time + 1) - acc[i] >= RateWindow
      <4> SUFFICES ASSUME NEW i \in 1..(Len(acc) - Len(e))
                   PROVE  (time + 1) - acc[i] >= RateWindow
        OBVIOUS
      <4>1. i \in 1..Len(acc)
        BY <3>2, <3>3
      <4> QED
        BY <1>1, <3>2, <3>3, <4>1
    <3>5. Rated(e, acc, time + 1)
      BY <3>1, <3>4, Zenon DEF Rated
    <3> QED
      BY <2>1, <3>5 DEF e, acc
  <2> QED
    BY <1>1, <1>2, <2>1, <2>2
<1>5. ASSUME NEW a \in Agents, Enter(a)
      PROVE  RateInv'
  <2>1. PICK n \in 0..Len(entries[a]) :
           /\ Recent(a) \in Seq(Nat) /\ Len(Recent(a)) = Len(entries[a]) - n
           /\ \A i \in 1..Len(Recent(a)) : Recent(a)[i] = entries[a][n + i]
           /\ \A i \in 1..n : time - entries[a][i] >= RateWindow
    BY RecentEntries
  <2>2. entries[a] \in Seq(Nat) /\ acceptedAt[a] \in Seq(Nat) /\ Rated(entries[a], acceptedAt[a], time)
    BY <1>1
  <2>3. Rated(Recent(a), acceptedAt[a], time)
    BY <1>1, <2>1, <2>2, RatedRecent
  <2>4. time' = time
    BY <1>5 DEF Enter
  <2>5. CASE entries' = [entries EXCEPT ![a] = Recent(a)] /\ acceptedAt' = acceptedAt
    BY <1>1, <1>2, <2>1, <2>3, <2>4, <2>5
  <2>6. CASE /\ ~(Len(Recent(a)) >= WindowMaxEntries)
             /\ entries' = [entries EXCEPT ![a] = Append(Recent(a), time)]
             /\ acceptedAt' = [acceptedAt EXCEPT ![a] = Append(@, time)]
    <3>1. Len(Recent(a)) \in Nat /\ Len(Recent(a)) < WindowMaxEntries
      BY <2>1, <2>6, PrivilegeAssumption
    <3>2. Rated(Append(Recent(a), time), Append(acceptedAt[a], time), time)
      BY <1>1, <2>1, <2>2, <2>3, <3>1, RatedAppend
    <3>3. Append(Recent(a), time) \in Seq(Nat) /\ Append(acceptedAt[a], time) \in Seq(Nat)
      BY <1>1, <2>1, <2>2
    <3> QED
      BY <1>1, <1>2, <2>4, <2>6, <3>2, <3>3
  <2> QED
    BY <1>5, <2>5, <2>6 DEF Enter
<1>6. AutonomyNext \/ DropGuard \/ ReleaseGuard \/ UNCHANGED privilegeVars
        => UNCHANGED <<entries, acceptedAt, time>>
  BY DEF AutonomyNext, recursionVars, privilegeVars, DropGuard, ReleaseGuard
<1> QED
  BY <1>3, <1>4, <1>5, <1>6 DEF PrivilegeNext, RecursionNext

(* Entries of one window are fewer than the limit apart, so the first of   *)
(* them and the limit bound their number.                                  *)
LEMMA WindowCount ==
  ASSUME RateInv, NEW a \in Agents, NEW t \in Nat
  PROVE  Cardinality({i \in DOMAIN acceptedAt[a] : acceptedAt[a][i] \in t..(t + RateWindow - 1)}) <= WindowMaxEntries
<1> DEFINE acc == acceptedAt[a]
           S == {i \in DOMAIN acc : acc[i] \in t..(t + RateWindow - 1)}
<1>1. /\ acc \in Seq(Nat) /\ RateWindow \in Nat /\ WindowMaxEntries \in Nat
      /\ \A i, j \in DOMAIN acc : j >= i + WindowMaxEntries => acc[j] - acc[i] >= RateWindow
  BY PrivilegeAssumption DEF RateInv
<1> SUFFICES Cardinality(S) <= WindowMaxEntries
  OBVIOUS
<1> HIDE DEF acc
<1>2. S \in SUBSET Nat
  BY <1>1
<1>3. CASE S = {}
  <2>1. Cardinality({}) = 0
    BY FS_EmptySet
  <2>2. Cardinality(S) = 0
    BY <1>3, <2>1
  <2> QED
    BY <1>1, <2>2
<1>4. CASE S # {}
  <2>1. PICK m \in S : \A k \in S : m <= k
    BY ONLY <1>2, <1>4, LeastNatural
  <2>2. m \in Nat
    BY <1>2, <2>1
  <2>3. ASSUME NEW j \in S
        PROVE  j \in m..(m + WindowMaxEntries - 1)
    <3>1. acc[j] \in t..(t + RateWindow - 1) /\ acc[m] \in t..(t + RateWindow - 1) /\ m <= j /\ j \in Nat
      BY <1>2, <2>1
    <3>2. ~(acc[j] - acc[m] >= RateWindow)
      BY <1>1, <3>1
    <3>3. ~(j >= m + WindowMaxEntries)
      BY <1>1, <2>1, <3>2
    <3> QED
      BY <1>1, <2>2, <3>1, <3>3
  <2>4. S \subseteq m..(m + WindowMaxEntries - 1)
    BY <2>3
  <2>5. m <= m + WindowMaxEntries - 1
    BY <1>1, <2>1, <2>2, <2>3
  <2>6. IsFiniteSet(m..(m + WindowMaxEntries - 1))
        /\ Cardinality(m..(m + WindowMaxEntries - 1)) = WindowMaxEntries
    <3>1. m \in Int /\ m + WindowMaxEntries - 1 \in Int /\ ~(m > m + WindowMaxEntries - 1)
          /\ (m + WindowMaxEntries - 1) - m + 1 = WindowMaxEntries
      BY <1>1, <2>2, <2>5
    <3> QED
      BY <3>1, FS_Interval
  <2> HIDE DEF S
  <2> QED
    BY <1>1, <2>4, <2>6, FS_Subset
<1> QED
  BY <1>3, <1>4

(* However many callers ask and pay in whatever order, the risky actions   *)
(* outrun the budget by the other callers under way at most, and recursion *)
(* keeps to its accounts (can_auto_execute, consume_budget, enter, Drop).  *)
THEOREM InitiativeBounded == Spec => []PrivilegesHeld
<1> DEFINE Inv == BudgetInv /\ DepthInv /\ RateInv
<1>1. Init => Inv
  BY PrivilegesInitial DEF Init
<1>2. Inv /\ [Next]_vars => Inv'
  BY BudgetStep, DepthStep, RateStep, OneDriven
<1>3. Inv => PrivilegesHeld
  <2> SUFFICES ASSUME Inv
               PROVE  BudgetHeld /\ RecursionAccounted
    BY DEF PrivilegesHeld
  <2>1. BudgetHeld
    BY PrivilegeAssumption DEF BudgetInv, BudgetHeld
  <2>2. \A a \in Agents : released[a] = 0 => depth[a] = IF guard = a THEN 1 ELSE 0
    BY DEF DepthInv
  <2>3. 0..time \subseteq Nat
    BY DEF RateInv
  <2>4. RecursionAccounted
    BY <2>2, <2>3, WindowCount DEF RecursionAccounted
  <2> QED
    BY <2>1, <2>4
<1> QED
  BY <1>1, <1>2, <1>3, PTL DEF Spec

-------------------------------------------------------------------------------
(* Assessments. *)

(* What each decision restrains. *)
LEMMA Restraints ==
  /\ Restraint["Allow"] = 0 /\ Restraint["Notify"] = 1 /\ Restraint["Confirm"] = 2
  /\ Restraint["Escalate"] = 3 /\ Restraint["Block"] = 3
  BY DEF Restraint

(* The early returns of the three deciders are ordered so that more reason *)
(* for concern reaches one that restrains as much (final_decision,         *)
(* policy_decision, decision_from_confidence).                             *)
LEMMA NeverLooser ==
  ASSUME NEW by \in {"validator", "policy", "confidence"}, NEW violations, NEW extra,
         NEW risk \in Nat, NEW confidence \in Nat, NEW r \in Nat, NEW c \in Nat,
         r >= risk, c <= confidence
  PROVE  Restraint[Decide(by, violations \cup extra, r, c)] >= Restraint[Decide(by, violations, risk, confidence)]
<1>1. CASE by = "validator"
  <2>1. Restraint[ValidatorDecision(violations \cup extra, r, c)] >= Restraint[ValidatorDecision(violations, risk, confidence)]
    BY Restraints DEF ValidatorDecision
  <2> QED
    BY <1>1, <2>1 DEF Decide
<1>2. CASE by = "policy"
  <2>1. Restraint[PolicyDecision(violations \cup extra, r, c)] >= Restraint[PolicyDecision(violations, risk, confidence)]
    BY Restraints DEF PolicyDecision
  <2> QED
    BY <1>2, <2>1 DEF Decide
<1>3. CASE by = "confidence"
  <2>1. Restraint[ConfidenceDecision(r, c)] >= Restraint[ConfidenceDecision(risk, confidence)]
    BY Restraints DEF ConfidenceDecision
  <2> QED
    BY <1>3, <2>1 DEF Decide
<1> QED
  BY <1>1, <1>2, <1>3

(* The weighted sum is clamped (score_action). *)
LEMMA ScoreRange ==
  ASSUME NEW a \in ProposedAction
  PROVE  RawScore(a) \in 0..10000
<1> DEFINE i == Irreversibility[a.irreversibility]
           s == Scope[a.scope]
           t == TrustContext[a.trust]
           m == TimeAnomaly[a.time]
           v == VibeFlag[a.vibe]
           h == UserHistory[a.history]
           p == PatternMatch[a.pattern]
           sum == 25 * i + 20 * s + 20 * t + 10 * m + 10 * v - 10 * h - 5 * p
<1>1. /\ i \in Int /\ s \in Int /\ t \in Int /\ m \in Int /\ v \in Int /\ h \in Int /\ p \in Int
  BY DEF ProposedAction, Irreversibility, Scope, TrustContext, TimeAnomaly, VibeFlag, UserHistory, PatternMatch
<1>2. RawScore(a) = Clamp(sum, 0, 10000)
  BY DEF RawScore
<1> HIDE DEF i, s, t, m, v, h, p
<1>3. sum \in Int
  BY <1>1
<1> HIDE DEF sum
<1> QED
  BY <1>2, <1>3 DEF Clamp

(* The highest of some floors is found by any member above the others. *)
LEMMA HighestFloor ==
  ASSUME NEW F \in SUBSET Int, NEW x \in F, \A y \in F : y <= x
  PROVE  (CHOOSE z \in F : \A y \in F : y <= z) = x
<1>1. \A z \in F : (\A y \in F : y <= z) => z = x
  OBVIOUS
<1> QED
  BY <1>1

(* The floors an action triggers (HardFloorAction::triggers). *)
LEMMA Triggers ==
  ASSUME NEW a \in ProposedAction
  PROVE  \A x : x \in {FloorOf[t] : t \in HardFloorTriggers(a)} <=>
                  \/ x = 10000 /\ a.irreversibility = "Irreversible" /\ a.kernel
                  \/ x = 8000 /\ a.vibe # "None"
                  \/ x = 7000 /\ a.kernel
                  \/ x = 5000 /\ a.delete
<1>1. \A t : t \in HardFloorTriggers(a) <=>
               \/ t = "IrreversibleKernel" /\ a.irreversibility = "Irreversible" /\ a.kernel
               \/ t = "AiUnreviewed" /\ a.vibe # "None"
               \/ t = "KernelAdjacent" /\ a.kernel
               \/ t = "Delete" /\ a.delete
  BY DEF HardFloorTriggers
<1>2. /\ FloorOf["IrreversibleKernel"] = 10000 /\ FloorOf["AiUnreviewed"] = 8000
      /\ FloorOf["KernelAdjacent"] = 7000 /\ FloorOf["Delete"] = 5000
  BY DEF FloorOf
<1> QED
  BY <1>1, <1>2

(* The floors of the two scorers raise the same score to the same height,  *)
(* outside the two cases (score_action, apply_hard_floors).                *)
LEMMA ScorersMeet ==
  ASSUME NEW a \in ProposedAction
  PROVE  \/ ScoreAction(a) = Fuse(a)
         \/ a.kernel /\ a.irreversibility = "Irreversible" /\ Fuse(a) = 10000
         \/ ~a.kernel /\ a.scope = "KernelLevel" /\ Fuse(a) < 7000
<1> DEFINE s == RawScore(a)
           F == {FloorOf[t] : t \in HardFloorTriggers(a)} \cup {s}
           ai == a.vibe # "None"
           sealed == a.irreversibility = "Irreversible" /\ a.kernel
<1>1. s \in 0..10000
  BY ScoreRange
<1>2. a.kernel \in BOOLEAN /\ a.delete \in BOOLEAN
  BY DEF ProposedAction
<1>3. \A x : x \in F <=> \/ x = 10000 /\ sealed
                         \/ x = 8000 /\ ai
                         \/ x = 7000 /\ a.kernel
                         \/ x = 5000 /\ a.delete
                         \/ x = s
  BY Triggers
<1>4. F \in SUBSET Int
  <2> HIDE DEF F, s
  <2> QED
    BY <1>1, <1>3
<1>5. Fuse(a) = CHOOSE z \in F : \A y \in F : y <= z
  BY DEF Fuse
<1>6. \A x \in F : (\A y \in F : y <= x) => Fuse(a) = x
  BY <1>4, <1>5, HighestFloor
<1>7. ScoreAction(a) = LET x == IF a.delete /\ s < 5000 THEN 5000 ELSE s
                           y == IF (a.kernel \/ a.scope = "KernelLevel") /\ x < 7000 THEN 7000 ELSE x
                       IN  IF ai /\ y < 8000 THEN 8000 ELSE y
  BY DEF ScoreAction, AtLeast
<1> HIDE DEF s, F
<1>8. CASE sealed
  <2>1. 10000 \in F
    BY <1>3, <1>8
  <2>2. ASSUME NEW y \in F
        PROVE  y <= 10000
    <3>1. y = 10000 \/ y = 8000 \/ y = 7000 \/ y = 5000 \/ y = s
      BY <1>3
    <3>2. s <= 10000 /\ 10000 <= 10000 /\ 8000 <= 10000 /\ 7000 <= 10000 /\ 5000 <= 10000
      BY <1>1
    <3> QED
      BY <3>1, <3>2
  <2> QED
    BY <1>6, <1>8, <2>1, <2>2
<1>9. CASE ~sealed /\ (a.kernel \/ a.scope # "KernelLevel")
  <2> DEFINE z == ScoreAction(a)
  <2>1. z = LET x == IF a.delete /\ s < 5000 THEN 5000 ELSE s
                y == IF a.kernel /\ x < 7000 THEN 7000 ELSE x
            IN  IF ai /\ y < 8000 THEN 8000 ELSE y
    <3>1. CASE a.kernel
      BY <1>1, <1>2, <1>7, <3>1
    <3>2. CASE ~a.kernel
      <4>1. a.scope # "KernelLevel"
        BY <1>9, <3>2
      <4> QED
        BY <1>1, <1>2, <1>7, <3>2, <4>1
    <3> QED
      BY <3>1, <3>2
  <2> HIDE DEF z, ai
  <2>2. /\ \/ z = s \/ (z = 5000 /\ a.delete) \/ (z = 7000 /\ a.kernel) \/ (z = 8000 /\ ai)
        /\ s <= z /\ (a.delete => 5000 <= z) /\ (a.kernel => 7000 <= z) /\ (ai => 8000 <= z)
    BY <1>1, <2>1
  <2>3. z \in F
    BY <1>3, <2>2
  <2>4. \A y \in F : y <= z
    BY <1>3, <1>9, <2>2
  <2> QED
    BY <1>6, <2>3, <2>4 DEF z
<1>10. CASE ~a.kernel /\ a.scope = "KernelLevel"
  <2>1. CASE ai
    <3>1. ScoreAction(a) \in F /\ \A y \in F : y <= ScoreAction(a)
      BY <1>1, <1>2, <1>3, <1>7, <1>10, <2>1
    <3> QED
      BY <1>6, <3>1
  <2>2. CASE ~ai /\ s >= 7000
    <3>1. ScoreAction(a) \in F /\ \A y \in F : y <= ScoreAction(a)
      BY <1>1, <1>2, <1>3, <1>7, <1>10, <2>2
    <3> QED
      BY <1>6, <3>1
  <2>3. CASE ~ai /\ ~(s >= 7000)
    <3> DEFINE x == IF a.delete /\ s < 5000 THEN 5000 ELSE s
    <3>1. x \in F /\ x < 7000 /\ \A y \in F : y <= x
      BY <1>1, <1>2, <1>3, <1>10, <2>3
    <3>2. Fuse(a) = x
      BY <1>6, <3>1
    <3> QED
      BY <1>10, <3>1, <3>2
  <2> QED
    BY <2>1, <2>2, <2>3
<1> QED
  BY <1>2, <1>8, <1>9, <1>10

(* More than three escalations in the window violate a rule that stops the *)
(* request in any session (metrics, evaluate, policy_decision).            *)
LEMMA EscalationsStop ==
  ASSUME NEW a \in AssessAgents, NEW severity, NEW syscall, NEW session,
         EvaluateRequest(a, severity, syscall, session),
         Cardinality({i \in DOMAIN history[a] : history[a][i].escalation}) > 3
  PROVE  assessed'.decision \in {"Escalate", "Block"}
<1>1. history[a] # <<>>
  <2> SUFFICES ASSUME history[a] = <<>>
               PROVE  FALSE
    OBVIOUS
  <2>1. DOMAIN history[a] = {}
    OBVIOUS
  <2>2. {i \in DOMAIN history[a] : history[a][i].escalation} = {}
    BY <2>1
  <2>3. Cardinality({}) = 0
    BY FS_EmptySet
  <2> QED
    BY <2>2, <2>3
<1>2. Metrics(a).escalations > 3
  BY <1>1 DEF Metrics
<1>3. \A context, risk, confidence, b :
        context.behavioral.escalations > 3
          => PolicyDecision(PolicyViolations(context, risk, confidence, b), risk, confidence) \in {"Escalate", "Block"}
  <2> SUFFICES ASSUME NEW context, NEW risk, NEW confidence, NEW b, context.behavioral.escalations > 3
               PROVE  PolicyDecision(PolicyViolations(context, risk, confidence, b), risk, confidence) \in {"Escalate", "Block"}
    OBVIOUS
  <2>1. "repeated_escalation" \in PolicyViolations(context, risk, confidence, b)
    BY DEF PolicyViolations, PolicyRules
  <2> QED
    BY <2>1 DEF PolicyDecision
<1>4. PICK context, risk, confidence, b :
        /\ context.behavioral = Metrics(a)
        /\ assessed'.decision = PolicyDecision(PolicyViolations(context, risk, confidence, b), risk, confidence)
  BY DEF EvaluateRequest
<1> QED
  BY <1>2, <1>3, <1>4

(* The highest floor that applies lies on or above the border of its band, *)
(* and a later one only lifts the score further (score_action, from_score).*)
LEMMA FloorsHold ==
  ASSUME NEW a \in ProposedAction
  PROVE  /\ a.vibe # "None" => RiskLevelOf(ScoreAction(a)) = "Block"
         /\ a.kernel \/ a.scope = "KernelLevel" => RiskLevelOf(ScoreAction(a)) \in {"Confirm", "Block"}
         /\ a.delete => RiskLevelOf(ScoreAction(a)) # "Silent"
<1> DEFINE s == RawScore(a)
<1>1. s \in 0..10000
  BY ScoreRange
<1>2. ScoreAction(a) = LET x == IF a.delete /\ s < 5000 THEN 5000 ELSE s
                           y == IF (a.kernel \/ a.scope = "KernelLevel") /\ x < 7000 THEN 7000 ELSE x
                       IN  IF a.vibe # "None" /\ y < 8000 THEN 8000 ELSE y
  BY DEF ScoreAction, AtLeast
<1>3. a.kernel \in BOOLEAN /\ a.delete \in BOOLEAN
  BY DEF ProposedAction
<1> HIDE DEF s
<1> DEFINE z == ScoreAction(a)
<1>4. z \in 0..10000
  BY <1>1, <1>2
<1>5. ASSUME a.vibe # "None"
      PROVE  RiskLevelOf(z) = "Block"
  <2>1. z >= 8000
    BY <1>1, <1>2, <1>5
  <2> HIDE DEF z
  <2> QED
    BY <1>4, <2>1 DEF RiskLevelOf
<1>6. ASSUME a.kernel \/ a.scope = "KernelLevel"
      PROVE  RiskLevelOf(z) \in {"Confirm", "Block"}
  <2>1. z >= 7000
    BY <1>1, <1>2, <1>6
  <2> HIDE DEF z
  <2> QED
    BY <1>4, <2>1 DEF RiskLevelOf
<1>7. ASSUME a.delete
      PROVE  RiskLevelOf(z) # "Silent"
  <2>1. z >= 5000
    BY <1>1, <1>2, <1>7
  <2> HIDE DEF z
  <2> QED
    BY <1>4, <2>1 DEF RiskLevelOf
<1> QED
  BY <1>5, <1>6, <1>7

LEMMA AssessStep ==
  ASSUME NoLoosening /\ ScorersAgree /\ FloorsReachBands /\ EscalatorsStopped, [AssessNext]_assessVars
  PROVE  (NoLoosening /\ ScorersAgree /\ FloorsReachBands /\ EscalatorsStopped)'
<1>1. ASSUME assessed' = Unasked
      PROVE  (NoLoosening /\ ScorersAgree /\ FloorsReachBands /\ EscalatorsStopped)'
  <2>1. assessed'.by = "nobody"
    BY <1>1 DEF Unasked
  <2> QED
    BY <2>1 DEF NoLoosening, ScorersAgree, FloorsReachBands, EscalatorsStopped
<1>2. ASSUME NEW a \in AssessAgents, NEW o \in Observations, assessed = Unasked, ObserveAction(a, o)
      PROVE  (NoLoosening /\ ScorersAgree /\ FloorsReachBands /\ EscalatorsStopped)'
  BY <1>1, <1>2 DEF ObserveAction
<1>3. ASSUME NEW a \in AssessAgents, NEW severity, NEW syscall, NEW session,
             EvaluateRequest(a, severity, syscall, session)
      PROVE  (NoLoosening /\ ScorersAgree /\ FloorsReachBands /\ EscalatorsStopped)'
  <2>1. assessed'.by = "request" /\ assessed'.agent = a /\ history' = history
    BY <1>3 DEF EvaluateRequest
  <2>2. Cardinality({i \in DOMAIN history[a] : history[a][i].escalation}) > 3
          => assessed'.decision \in {"Escalate", "Block"}
    BY <1>3, EscalationsStop
  <2>3. EscalatorsStopped'
    BY <2>1, <2>2 DEF EscalatorsStopped
  <2> QED
    BY <2>1, <2>3 DEF NoLoosening, ScorersAgree, FloorsReachBands
<1>4. ASSUME NEW by \in {"validator", "policy", "confidence"}, NEW risk \in Risks, NEW confidence \in Confidences,
             NEW violations \in SUBSET RulesOf(by), Ask(by, violations, risk, confidence)
      PROVE  (NoLoosening /\ ScorersAgree /\ FloorsReachBands /\ EscalatorsStopped)'
  <2>1. /\ assessed'.by = by /\ assessed'.violations = violations
        /\ assessed'.risk = risk /\ assessed'.confidence = confidence
        /\ assessed'.decision = Decide(by, violations, risk, confidence)
    BY <1>4 DEF Ask
  <2>2. Risks \subseteq Nat /\ Confidences \subseteq Nat
    <3>1. \A x : x \in Risks \/ x \in Confidences => x \in 0..10000
      BY AssessAssumption
    <3>2. \A x : x \in 0..10000 => x \in Nat
      OBVIOUS
    <3> QED
      BY ONLY <3>1, <3>2
  <2>3. ASSUME NEW r \in Risks, NEW c \in Confidences, NEW extra, r >= risk, c <= confidence
        PROVE  Restraint[Decide(by, violations \cup extra, r, c)] >= Restraint[Decide(by, violations, risk, confidence)]
    BY <2>2, <2>3, NeverLooser
  <2>4. NoLoosening'
    BY <2>1, <2>3 DEF NoLoosening
  <2> QED
    BY <2>1, <2>4 DEF ScorersAgree, FloorsReachBands, EscalatorsStopped
<1>5. ASSUME NEW a \in ScoredActions, ScoreBoth(a)
      PROVE  (NoLoosening /\ ScorersAgree /\ FloorsReachBands /\ EscalatorsStopped)'
  <2>1. /\ assessed'.by = "scorers" /\ assessed'.action = a
        /\ assessed'.scored = ScoreAction(a) /\ assessed'.fused = Fuse(a)
        /\ assessed'.level = RiskLevelOf(ScoreAction(a))
    BY <1>5 DEF ScoreBoth
  <2>2. a \in ProposedAction
    BY AssessAssumption
  <2>3. ScorersAgree'
    BY <2>1, <2>2, ScorersMeet DEF ScorersAgree
  <2>4. FloorsReachBands'
    BY <2>1, <2>2, FloorsHold DEF FloorsReachBands
  <2> QED
    BY <2>1, <2>3, <2>4 DEF NoLoosening, EscalatorsStopped
<1>6. CASE UNCHANGED assessVars
  <2>1. assessed' = assessed /\ history' = history
    BY <1>6 DEF assessVars
  <2>2. NoLoosening'
    BY <2>1 DEF NoLoosening
  <2>3. ScorersAgree'
    BY <2>1 DEF ScorersAgree
  <2>4. FloorsReachBands'
    BY <2>1 DEF FloorsReachBands
  <2>5. EscalatorsStopped'
    BY <2>1 DEF EscalatorsStopped
  <2> QED
    BY <2>2, <2>3, <2>4, <2>5
<1> QED
  BY <1>1, <1>2, <1>3, <1>4, <1>5, <1>6 DEF AssessNext

(* However an agent behaved and whatever is asked, a decider asked with    *)
(* more reason for concern restrains no less, the scorers agree but for    *)
(* the two known cases, a floored action is shown as its floor demands,    *)
(* and an agent that kept escalating is stopped                            *)
(* (action_validator.rs, policy_engine.rs, confidence_engine.rs,           *)
(* risk_scorer.rs, score_fusion.rs, behavioral_model.rs).                  *)
THEOREM AssessmentsHold == Spec => []AssessmentsSound
<1> DEFINE Inv == NoLoosening /\ ScorersAgree /\ FloorsReachBands /\ EscalatorsStopped
<1>1. Init => Inv
  BY DEF Init, AssessInit, Unasked, NoLoosening, ScorersAgree, FloorsReachBands, EscalatorsStopped
<1>2. Inv /\ [Next]_vars => Inv'
  BY AssessStep, OneDriven
<1>3. Inv => AssessmentsSound
  BY DEF AssessmentsSound
<1> QED
  BY <1>1, <1>2, <1>3, PTL DEF Spec

-------------------------------------------------------------------------------
(* Thresholds and suspicion. *)

(* A threshold in the file is forced into its class's range when it is     *)
(* read, and feedback keeps it there (load_persisted, record_feedback).    *)
LEMMA ThresholdsInRange ==
  ASSUME NEW c \in CalClasses
  PROVE  /\ CalDefault[c] \in CalFloor(c)..20
         /\ \A x \in Nat : CalClamp(c, x) \in CalFloor(c)..20
         /\ CalFloor(c) \in 2..18
<1>1. c \in DOMAIN CalDefault
  BY CalAssumption
<1>2. CalFloor(c) \in 2..18
  BY DEF CalFloor
<1>3. CalDefault[c] \in CalFloor(c)..20
  BY <1>1 DEF CalFloor, CalDefault
<1>4. \A x \in Nat : CalClamp(c, x) \in CalFloor(c)..20
  BY <1>2 DEF CalClamp
<1> QED
  BY <1>2, <1>3, <1>4

LEMMA CalDefaultsHeld ==
  CalDefaults \in [CalClasses -> Nat] /\ \A c \in CalClasses : CalDefaults[c] \in CalFloor(c)..20
<1>1. \A c \in CalClasses : CalDefault[c] \in CalFloor(c)..20 /\ CalFloor(c) \in 2..18
  BY ThresholdsInRange
<1> QED
  BY <1>1 DEF CalDefaults

LEMMA CalInitial ==
  ASSUME CalInit
  PROVE  CalInv
BY CalDefaultsHeld DEF CalInit, CalInv

LEMMA CalStep ==
  ASSUME CalInv, [CalNext]_calVars
  PROVE  CalInv'
<1>1. /\ calMem \in [CalClasses -> Nat] /\ \A c \in CalClasses : calMem[c] \in CalFloor(c)..20
      /\ calFile \in {Absent, Torn} \cup [CalClasses -> Nat]
  BY DEF CalInv
<1>2. ASSUME NEW mem \in [CalClasses -> Nat], \A c \in CalClasses : mem[c] \in CalFloor(c)..20,
             calMem' = mem, Persist(mem) \/ UNCHANGED calFile
      PROVE  CalInv'
  BY <1>1, <1>2 DEF Persist, CalInv
<1>3. CASE CalLoad
  <2>1. CalLoaded \in [CalClasses -> Nat] /\ \A c \in CalClasses : CalLoaded[c] \in CalFloor(c)..20
    <3>1. CASE calFile \in {Absent, Torn}
      BY <3>1, CalDefaultsHeld DEF CalLoaded
    <3>2. CASE calFile \notin {Absent, Torn}
      <4>1. CalLoaded = [c \in CalClasses |-> CalClamp(c, calFile[c])]
        BY <3>2 DEF CalLoaded
      <4>2. \A c \in CalClasses : CalClamp(c, calFile[c]) \in CalFloor(c)..20 /\ CalFloor(c) \in 2..18
        BY <1>1, <3>2, ThresholdsInRange
      <4> QED
        BY <4>1, <4>2
    <3> QED
      BY <3>1, <3>2
  <2>2. calMem' = CalLoaded /\ (Persist(CalLoaded) \/ UNCHANGED calFile)
    BY <1>3 DEF CalLoad
  <2> QED
    BY <1>2, <2>1, <2>2
<1>4. ASSUME NEW c \in CalClasses, NEW f \in Feedback, RecordFeedback(c, f)
      PROVE  CalInv'
  <2>1. CalFloor(c) \in 2..18 /\ calMem[c] \in CalFloor(c)..20
    BY <1>1, ThresholdsInRange
  <2>2. NewThreshold(c, f) \in CalFloor(c)..20 /\ NewThreshold(c, f) \in Nat
    BY <2>1 DEF NewThreshold, Feedback
  <2>3. calMem' = [calMem EXCEPT ![c] = NewThreshold(c, f)] /\ Persist(calMem')
    BY <1>4 DEF RecordFeedback
  <2>4. calMem' \in [CalClasses -> Nat] /\ \A d \in CalClasses : calMem'[d] \in CalFloor(d)..20
    BY <1>1, <2>2, <2>3
  <2> QED
    BY <1>2, <2>3, <2>4
<1>5. CASE CalStop \/ UNCHANGED calVars
  BY <1>1, <1>5 DEF CalStop, calVars, CalInv
<1>6. ASSUME NEW c \in CalClasses, NEW x \in CalEdits, CalEdit(c, x)
      PROVE  CalInv'
  <2>1. x \in Nat
    BY CalAssumption
  <2> QED
    BY <1>1, <1>6, <2>1 DEF CalEdit, CalInv
<1> QED
  BY <1>3, <1>4, <1>5, <1>6 DEF CalNext

(* No feedback, edit, torn write or restart takes a threshold out of its   *)
(* range, whatever the classes and the edits (trust_calibration.rs).       *)
THEOREM FloorsHeld == Spec => [](part = "calibration" => CalFloorsHeld)
<1>1. Init => CalInv
  BY CalInitial DEF Init
<1>2. CalInv /\ [Next]_vars => CalInv'
  BY CalStep, OneDriven
<1>3. CalInv => (part = "calibration" => CalFloorsHeld)
  BY DEF CalInv, CalFloorsHeld
<1> QED
  BY <1>1, <1>2, <1>3, PTL DEF Spec

(* The stream is the latest anomalies pushed, in order, up to its limit    *)
(* (push_anomaly), and only setting an agent's trust state ends suspicion  *)
(* (decay_trust, recover_trust).                                           *)
LEMMA SuspicionInitial ==
  ASSUME TrustInit
  PROVE  SuspicionInv
<1>1. CompromisedAgents = {}
  BY DEF TrustInit, CompromisedAgents
<1> QED
  BY <1>1 DEF TrustInit, SuspicionInv

LEMMA StreamStep ==
  ASSUME SuspicionInv, PushAnomaly
  PROVE  SuspicionInv'
<1> DEFINE n == Len(anomalies)
           stream == Append(anomalies, pushed')
<1>1. /\ anomalies \in Seq(Nat) /\ n \in Nat /\ pushed \in Nat /\ n <= pushed /\ DOMAIN anomalies = 1..n
      /\ \A i \in 1..n : anomalies[i] = pushed - n + i
  BY DEF SuspicionInv
<1>2. pushed' = pushed + 1 /\ pushed' \in Nat
  BY <1>1 DEF PushAnomaly
<1>3. /\ stream \in Seq(Nat) /\ stream # <<>> /\ Len(stream) = n + 1
      /\ \A i \in 1..n : stream[i] = anomalies[i]
      /\ stream[n + 1] = pushed'
  BY <1>1, <1>2
<1> HIDE DEF n, stream
<1>4. \A i \in 1..(n + 1) : stream[i] = pushed' - (n + 1) + i
  <2> SUFFICES ASSUME NEW i \in 1..(n + 1)
               PROVE  stream[i] = pushed' - (n + 1) + i
    OBVIOUS
  <2>1. CASE i = n + 1
    BY <1>1, <1>2, <1>3, <2>1
  <2>2. CASE i # n + 1
    <3>1. i \in 1..n
      BY <1>1, <2>2
    <3> QED
      BY <1>1, <1>2, <1>3, <3>1
  <2> QED
    BY <2>1, <2>2
<1>5. /\ Tail(stream) \in Seq(Nat) /\ Len(Tail(stream)) = n
      /\ \A i \in 1..n : Tail(stream)[i] = stream[i + 1]
  BY <1>1, <1>3
<1>6. \A i \in 1..n : Tail(stream)[i] = pushed' - n + i
  BY <1>1, <1>2, <1>4, <1>5
<1>7. anomalies' = stream \/ anomalies' = Tail(stream)
  BY DEF PushAnomaly, stream
<1>8. /\ anomalies' \in Seq(Nat) /\ Len(anomalies') <= pushed'
      /\ \A i \in 1..Len(anomalies') : anomalies'[i] = pushed' - Len(anomalies') + i
  <2>1. CASE anomalies' = stream
    <3>1. n + 1 <= pushed'
      BY <1>1, <1>2
    <3> QED
      BY <1>3, <1>4, <2>1, <3>1
  <2>2. CASE anomalies' = Tail(stream)
    <3>1. n <= pushed'
      BY <1>1, <1>2
    <3> QED
      BY <1>5, <1>6, <2>2, <3>1
  <2> QED
    BY <1>7, <2>1, <2>2
<1>9. low' = low /\ trust' = trust
  BY DEF PushAnomaly
<1> QED
  BY <1>2, <1>8, <1>9 DEF SuspicionInv, CompromisedAgents

LEMMA SuspicionStep ==
  ASSUME SuspicionInv, [TrustNext]_trustVars
  PROVE  SuspicionInv'
<1> DEFINE Stream == UNCHANGED <<anomalies, pushed>>
<1>1. low = {a \in DOMAIN trust : trust[a].suspected}
  BY DEF SuspicionInv, CompromisedAgents
<1>2. ASSUME Stream, low' = {a \in DOMAIN trust' : trust'[a].suspected}
      PROVE  SuspicionInv'
  BY <1>2 DEF SuspicionInv, CompromisedAgents
<1>3. ASSUME NEW a \in TrustAgents, NEW x \in {2, 5, 20}, SetTrustState(a, x)
      PROVE  SuspicionInv'
  <2>1. /\ trust' = [y \in DOMAIN trust \cup {a} |-> IF y = a THEN [current |-> x, suspected |-> FALSE] ELSE trust[y]]
        /\ low' = low \ {a} /\ Stream
    BY <1>3 DEF SetTrustState, Setting
  <2>2. \A y \in DOMAIN trust' : trust'[y].suspected <=> y # a /\ trust[y].suspected
    BY <2>1
  <2>3. low' = {y \in DOMAIN trust' : trust'[y].suspected}
    BY <1>1, <2>1, <2>2
  <2> QED
    BY <1>2, <2>1, <2>3
<1>4. ASSUME NEW a \in TrustAgents, NEW x \in {2, 5, 20}, DecayTrust(a, x)
      PROVE  SuspicionInv'
  <2> DEFINE current == Limited(trust[a].current - x, 0, 20)
  <2>1. /\ a \in DOMAIN trust
        /\ trust' = [trust EXCEPT ![a] = [current |-> current, suspected |-> trust[a].suspected \/ current < 4]]
        /\ low' = (IF current < 4 THEN low \cup {a} ELSE low) /\ Stream
    BY <1>4 DEF DecayTrust
  <2> HIDE DEF current
  <2>2. /\ DOMAIN trust' = DOMAIN trust
        /\ trust'[a].suspected = (trust[a].suspected \/ current < 4)
        /\ \A y \in DOMAIN trust : y # a => trust'[y] = trust[y]
    BY <2>1
  <2>3. low' = {y \in DOMAIN trust' : trust'[y].suspected}
    BY <1>1, <2>1, <2>2
  <2> QED
    BY <1>2, <2>1, <2>3
<1>5. ASSUME NEW a \in TrustAgents, NEW x \in {2, 5, 20}, RecoverTrust(a, x)
      PROVE  SuspicionInv'
  <2>1. /\ trust' = [trust EXCEPT ![a].current = Limited(@ + x, 0, 20)] /\ low' = low /\ Stream
    BY <1>5 DEF RecoverTrust
  <2>2. DOMAIN trust' = DOMAIN trust /\ \A y \in DOMAIN trust : trust'[y].suspected = trust[y].suspected
    BY <2>1
  <2>3. low' = {y \in DOMAIN trust' : trust'[y].suspected}
    BY <1>1, <2>1, <2>2
  <2> QED
    BY <1>2, <2>1, <2>3
<1>6. ASSUME UNCHANGED stateVars
      PROVE  SuspicionInv'
  BY <1>6 DEF stateVars, SuspicionInv, CompromisedAgents
<1>7. TemporalNext \/ ReputationNext \/ TrustTick \/ UNCHANGED trustVars => UNCHANGED stateVars
  BY DEF TemporalNext, ReputationNext, TrustTick, trustVars, stateVars, Reinforce, SetHalfLife, DecayAll,
         ReputationDecay, Outcome
<1> QED
  BY <1>3, <1>4, <1>5, <1>6, <1>7, StreamStep DEF TrustNext, StateNext

(* However trust decays and recovers, an agent that once fell below 0.20   *)
(* stays suspected until its state is set anew, and the stream is the      *)
(* latest anomalies in order (runtime_state.rs).                           *)
THEOREM SuspicionHeld == Spec => []SuspicionKept
<1>1. Init => SuspicionInv
  BY SuspicionInitial DEF Init
<1>2. SuspicionInv /\ [Next]_vars => SuspicionInv'
  BY SuspicionStep, OneDriven
<1>3. SuspicionInv => SuspicionKept
  <2> SUFFICES ASSUME SuspicionInv
               PROVE  SuspicionKept
    OBVIOUS
  <2>1. anomalies \in Seq(Nat) /\ \A i \in 1..Len(anomalies) : anomalies[i] = pushed - Len(anomalies) + i
    BY DEF SuspicionInv
  <2>2. anomalies = [i \in 1..Len(anomalies) |-> pushed - Len(anomalies) + i]
    BY <2>1
  <2> QED
    BY <2>2 DEF SuspicionInv, SuspicionKept
<1> QED
  BY <1>1, <1>2, <1>3, PTL DEF Spec

-------------------------------------------------------------------------------
(* Earned trust. *)

(* A power is its base times the power before it. *)
PowerTable(b, n, f) == f = [i \in 0..n |-> IF i = 0 THEN 1 ELSE b * f[i - 1]]
LEMMA PowerTables ==
  ASSUME NEW b \in Nat \ {0}, NEW n \in Nat
  PROVE  \E f : PowerTable(b, n, f)
<1> DEFINE X == Nat \ {0}
           G == [x \in X |-> b * x]
<1>1. 1 \in X /\ G \in [X -> X]
  OBVIOUS
<1> HIDE DEF G
<1>2. Iterated(X, 1, G, n)
  BY <1>1, IterationExists
<1>3. PICK f \in [0..n -> X] : f[0] = 1 /\ \A i \in 1..n : f[i] = G[f[i - 1]]
  BY <1>2 DEF Iterated
<1>4. ASSUME NEW i \in 0..n
      PROVE  f[i] = IF i = 0 THEN 1 ELSE b * f[i - 1]
  <2>1. CASE i = 0
    BY <1>3, <2>1
  <2>2. CASE i # 0
    <3>1. i \in 1..n /\ i - 1 \in 0..n
      BY <2>2
    <3>2. f[i - 1] \in X /\ f[i] = G[f[i - 1]]
      BY <1>3, <3>1
    <3> QED
      BY <2>2, <3>2 DEF G
  <2> QED
    BY <2>1, <2>2
<1>5. f = [i \in 0..n |-> IF i = 0 THEN 1 ELSE b * f[i - 1]]
  BY <1>4
<1> QED
  BY <1>5 DEF PowerTable

LEMMA PowerTablesAgree ==
  ASSUME NEW b \in Nat \ {0}, NEW n \in Nat, NEW m \in Nat, n <= m,
         NEW f, PowerTable(b, n, f), NEW g, PowerTable(b, m, g)
  PROVE  f[n] = g[n] /\ f[n] \in Nat \ {0}
<1> DEFINE S == {i \in Nat : i <= n => f[i] = g[i] /\ f[i] \in Nat \ {0}}
<1>1. /\ \A i \in 0..n : f[i] = IF i = 0 THEN 1 ELSE b * f[i - 1]
      /\ \A i \in 0..m : g[i] = IF i = 0 THEN 1 ELSE b * g[i - 1]
  BY DEF PowerTable
<1>2. 0 \in S
  BY <1>1
<1>3. ASSUME NEW i \in S
      PROVE  i + 1 \in S
  <2>1. i \in Nat /\ i + 1 \in Nat /\ i + 1 # 0 /\ (i + 1) - 1 = i
    OBVIOUS
  <2>2. ASSUME i + 1 <= n
        PROVE  f[i + 1] = g[i + 1] /\ f[i + 1] \in Nat \ {0}
    <3>1. i + 1 \in 0..n /\ i + 1 \in 0..m /\ i <= n
      BY <2>1, <2>2
    <3>2. f[i + 1] = b * f[i] /\ g[i + 1] = b * g[i]
      BY <1>1, <2>1, <3>1
    <3>3. f[i] = g[i] /\ f[i] \in Nat \ {0}
      BY <3>1
    <3>4. \A x \in Nat \ {0} : b * x \in Nat \ {0}
      OBVIOUS
    <3> QED
      BY <3>2, <3>3, <3>4
  <2> QED
    BY <2>1, <2>2
<1>4. S = Nat
  <2> HIDE DEF S
  <2>1. S \in SUBSET Nat
    BY DEF S
  <2> QED
    BY <1>2, <1>3, <2>1, NatSetInduction
<1> QED
  BY <1>4

LEMMA PowerLaws ==
  ASSUME NEW b \in Nat \ {0}, NEW n \in Nat
  PROVE  Power(b, 0) = 1 /\ Power(b, n) \in Nat \ {0} /\ Power(b, n + 1) = b * Power(b, n)
<1> DEFINE Table(k) == CHOOSE f : PowerTable(b, k, f)
<1>1. \A k \in Nat : PowerTable(b, k, Table(k))
  BY PowerTables
<1>2. \A k \in Nat : Power(b, k) = Table(k)[k]
  BY DEF Power, PowerTable
<1> HIDE DEF Table
<1>3. Table(0)[0] = 1
  BY <1>1 DEF PowerTable
<1>4. Table(n)[n] = Table(n + 1)[n] /\ Table(n)[n] \in Nat \ {0}
  BY <1>1, PowerTablesAgree
<1>5. Table(n + 1)[n + 1] = b * Table(n + 1)[n]
  <2>1. n + 1 \in 0..(n + 1) /\ n + 1 # 0 /\ (n + 1) - 1 = n
    OBVIOUS
  <2>2. \A i \in 0..(n + 1) : Table(n + 1)[i] = IF i = 0 THEN 1 ELSE b * Table(n + 1)[i - 1]
    BY <1>1 DEF PowerTable
  <2> QED
    BY <2>1, <2>2
<1> QED
  BY <1>2, <1>3, <1>4, <1>5

(* Dividing twice is dividing by the product, rounding down both times. *)
LEMMA DividedTwice ==
  ASSUME NEW e \in Int, NEW a \in Nat \ {0}, NEW b \in {2, 4}
  PROVE  (e \div a) \div b = e \div (b * a) /\ e \div a \in Int
<1> DEFINE q == e \div a
           r == q \div b
           c == b * a
<1>1. q \in Int /\ a * q <= e /\ e < a * q + a
  OBVIOUS
<1>2. r \in Int /\ b * r <= q /\ q < b * r + b
  BY <1>1
<1>3. c \in Nat \ {0}
  OBVIOUS
<1> HIDE DEF q, r
<1>4. c * r <= e /\ e < c * r + c
  <2>1. \A x, y \in Int : x <= y => a * x <= a * y
    OBVIOUS
  <2>2. a * (b * r) <= a * q /\ a * (q + 1) <= a * (b * r + b)
    BY <1>1, <1>2, <2>1
  <2>3. a * (b * r) = c * r /\ a * (b * r + b) = c * r + c /\ a * (q + 1) = a * q + a
    BY <1>1, <1>2
  <2> QED
    BY <1>1, <1>2, <1>3, <2>2, <2>3
<1> HIDE DEF c
<1>5. e \div c = r
  BY <1>2, <1>3, <1>4
<1> QED
  BY <1>1, <1>5 DEF q, r, c

(* What is earned is whole, whatever has decayed of it. *)
LEMMA DecayedWhole ==
  ASSUME now \in Nat, NEW a,
         a \in DOMAIN earned => earned[a] \in TrustEntry /\ earned[a].since <= now
  PROVE  /\ EntryOf(a) \in TrustEntry /\ EntryOf(a).since <= now /\ DecayedEarned(a) \in Int
         /\ (a \notin DOMAIN earned => EntryOf(a).since = now /\ DecayedEarned(a) = 0)
         /\ (EntryOf(a).since = now => DecayedEarned(a) = EntryOf(a).earned)
<1>1. EntryOf(a) \in TrustEntry /\ EntryOf(a).since <= now
  BY DEF EntryOf, Fresh, TrustEntry
<1>2. a \notin DOMAIN earned => EntryOf(a).since = now /\ EntryOf(a).earned = 0
  BY DEF EntryOf, Fresh
<1> DEFINE e == EntryOf(a)
           n == now - e.since
           p == Power(e.halving, n)
<1>3. e.earned \in Int /\ e.halving \in Nat \ {0} /\ n \in Nat /\ now \in Nat /\ e.since \in Nat
  BY <1>1 DEF TrustEntry
<1>4. DecayedEarned(a) = e.earned \div p
  BY DEF DecayedEarned
<1> HIDE DEF e, n
<1>5. p \in Nat \ {0} /\ Power(e.halving, 0) = 1
  BY <1>3, PowerLaws
<1>6. e.since = now => n = 0
  BY <1>3 DEF n
<1>7. e.since = now => p = 1
  BY <1>5, <1>6
<1> HIDE DEF p
<1>8. e.earned \div p \in Int /\ (p = 1 => e.earned \div p = e.earned)
  BY <1>3, <1>5
<1> QED
  BY <1>1, <1>2, <1>4, <1>7, <1>8 DEF e

LEMMA LazyInitial ==
  ASSUME TrustInit
  PROVE  LazyInv
<1>1. now = 0 /\ earned = <<>> /\ eager = [a \in TrustAgents |-> 0] /\ DOMAIN earned = {}
  BY DEF TrustInit
<1>2. \A a \in TrustAgents : DecayedEarned(a) = 0
  BY <1>1, DecayedWhole
<1> QED
  BY <1>1, <1>2 DEF LazyInv

(* Setting an agent's entry leaves the others' (reinforce, set_half_life). *)
LEMMA EntrySet ==
  ASSUME LazyInv, NEW a \in TrustAgents, NEW e \in TrustEntry, e.since <= now, now' = now,
         earned' = Setting(earned, a, e)
  PROVE  /\ EntryOf(a)' = e
         /\ \A b \in DOMAIN earned' : earned'[b] \in TrustEntry /\ earned'[b].since <= now'
         /\ \A b \in TrustAgents \ {a} : DecayedEarned(b)' = DecayedEarned(b)
<1>1. DOMAIN earned' = DOMAIN earned \cup {a} /\ earned'[a] = e
      /\ \A b \in DOMAIN earned \ {a} : earned'[b] = earned[b]
  BY DEF Setting
<1>2. \A b \in TrustAgents \ {a} : EntryOf(b)' = EntryOf(b)
  BY <1>1 DEF EntryOf, Fresh
<1> QED
  BY <1>1, <1>2 DEF EntryOf, DecayedEarned, LazyInv

LEMMA ReinforceStep ==
  ASSUME LazyInv, NEW a \in TrustAgents, NEW d \in TrustDeltas, Reinforce(a, d)
  PROVE  LazyInv'
<1> DEFINE e == EntryOf(a)
           x == DecayedEarned(a) + d
           f == [e EXCEPT !.earned = x, !.since = now, !.reinforced = @ + 1]
<1>1. e \in TrustEntry /\ DecayedEarned(a) \in Int /\ d \in Int /\ now \in Nat
  BY DecayedWhole, TrustAssumption DEF LazyInv
<1>2. x \in Int
  BY <1>1
<1>3. /\ earned' = Setting(earned, a, f) /\ eager' = [eager EXCEPT ![a] = @ + d] /\ now' = now
      /\ rewritten' = rewritten
  BY DEF Reinforce
<1> HIDE DEF e, x
<1>4. f \in TrustEntry /\ f.since = now /\ f.earned = x
  <2>1. e.halving \in {2, 4} /\ e.reinforced \in Nat
        /\ e = [earned |-> e.earned, since |-> e.since, halving |-> e.halving, reinforced |-> e.reinforced]
    BY <1>1 DEF TrustEntry
  <2> DEFINE n == e.reinforced + 1
             g == [e EXCEPT !.earned = x]
             h == [g EXCEPT !.since = now]
  <2>2. f = [h EXCEPT !.reinforced = n]
    OBVIOUS
  <2> HIDE DEF n
  <2>3. g = [earned |-> x, since |-> e.since, halving |-> e.halving, reinforced |-> e.reinforced]
    BY <2>1
  <2> HIDE DEF g
  <2>4. h = [earned |-> x, since |-> now, halving |-> e.halving, reinforced |-> e.reinforced]
    BY <2>3
  <2> HIDE DEF h
  <2>5. f = [earned |-> x, since |-> now, halving |-> e.halving, reinforced |-> n]
    BY <2>2, <2>4
  <2>6. n \in Nat
    BY <2>1 DEF n
  <2> QED
    BY <1>1, <1>2, <2>1, <2>5, <2>6 DEF TrustEntry
<1> HIDE DEF f
<1>5. /\ EntryOf(a)' = f
      /\ \A b \in DOMAIN earned' : earned'[b] \in TrustEntry /\ earned'[b].since <= now'
      /\ \A b \in TrustAgents \ {a} : DecayedEarned(b)' = DecayedEarned(b)
  BY <1>1, <1>3, <1>4, EntrySet
<1>6. DecayedEarned(a)' = x
  <2>1. DecayedEarned(a)' = f.earned \div Power(f.halving, now - f.since)
    BY <1>3, <1>5 DEF DecayedEarned
  <2>2. now - f.since = 0 /\ f.halving \in Nat \ {0}
    BY <1>1, <1>4 DEF TrustEntry
  <2>3. Power(f.halving, now - f.since) = 1
    BY <2>2, PowerLaws
  <2>4. x \div 1 = x
    BY <1>2
  <2> QED
    BY <1>4, <2>1, <2>3, <2>4
<1>7. eager' \in [TrustAgents -> Int]
  BY <1>1, <1>3 DEF LazyInv
<1>8. ASSUME NEW b \in TrustAgents \ rewritten'
      PROVE  eager'[b] = DecayedEarned(b)'
  <2>1. CASE b = a
    BY <1>3, <1>6, <2>1 DEF LazyInv, x
  <2>2. CASE b # a
    BY <1>3, <1>5, <2>2 DEF LazyInv
  <2> QED
    BY <2>1, <2>2
<1> QED
  BY <1>1, <1>3, <1>5, <1>7, <1>8 DEF LazyInv

LEMMA SetHalfLifeStep ==
  ASSUME LazyInv, NEW a \in TrustAgents, NEW h \in {2, 4}, SetHalfLife(a, h)
  PROVE  LazyInv'
<1> DEFINE e == EntryOf(a)
           f == [e EXCEPT !.halving = h]
<1>1. e \in TrustEntry /\ e.since <= now /\ now \in Nat
  BY DecayedWhole DEF LazyInv
<1>2. /\ earned' = Setting(earned, a, f) /\ eager' = eager /\ now' = now
      /\ rewritten' = IF e.since < now /\ e.halving # h THEN rewritten \cup {a} ELSE rewritten
  BY DEF SetHalfLife
<1>3. DecayedEarned(a) = e.earned \div Power(e.halving, now - e.since)
  BY DEF DecayedEarned
<1> HIDE DEF e
<1>4. f \in TrustEntry /\ f.since = e.since /\ f.earned = e.earned /\ f.halving = h
  BY <1>1 DEF TrustEntry
<1> HIDE DEF f
<1>5. /\ EntryOf(a)' = f
      /\ \A b \in DOMAIN earned' : earned'[b] \in TrustEntry /\ earned'[b].since <= now'
      /\ \A b \in TrustAgents \ {a} : DecayedEarned(b)' = DecayedEarned(b)
  BY <1>1, <1>2, <1>4, EntrySet
<1>6. ~(e.since < now /\ e.halving # h) => DecayedEarned(a)' = DecayedEarned(a)
  <2>1. DecayedEarned(a)' = e.earned \div Power(h, now - e.since)
    BY <1>2, <1>4, <1>5 DEF DecayedEarned
  <2>2. CASE e.halving = h
    BY <1>3, <2>1, <2>2
  <2>3. CASE ~(e.since < now)
    <3>1. now - e.since = 0 /\ e.halving \in Nat \ {0} /\ h \in Nat \ {0}
      BY <1>1, <2>3 DEF TrustEntry
    <3>2. Power(e.halving, now - e.since) = 1 /\ Power(h, now - e.since) = 1
      BY <3>1, PowerLaws
    <3> QED
      BY <1>3, <2>1, <3>2
  <2> QED
    BY <2>2, <2>3
<1>7. ASSUME NEW b \in TrustAgents \ rewritten'
      PROVE  eager'[b] = DecayedEarned(b)'
  <2>1. CASE b = a
    BY <1>2, <1>6, <2>1 DEF LazyInv
  <2>2. CASE b # a
    BY <1>2, <1>5, <2>2 DEF LazyInv
  <2> QED
    BY <2>1, <2>2
<1> QED
  BY <1>1, <1>2, <1>5, <1>7 DEF LazyInv

(* Pruning an entry that has decayed to nothing forgets nothing but its    *)
(* half-life, and nothing halves to nothing.                               *)
LEMMA DecayAllStep ==
  ASSUME LazyInv, DecayAll
  PROVE  LazyInv'
<1>1. /\ earned' = [a \in {x \in DOMAIN earned : DecayedEarned(x) # 0} |-> earned[a]]
      /\ now' = now /\ eager' = eager /\ rewritten' = rewritten /\ now \in Nat
  BY DEF DecayAll, LazyInv
<1>2. \A a \in DOMAIN earned' : a \in DOMAIN earned /\ earned'[a] = earned[a]
  BY <1>1
<1>3. ASSUME NEW a \in TrustAgents
      PROVE  DecayedEarned(a)' = DecayedEarned(a)
  <2>1. CASE a \in DOMAIN earned'
    <3>1. EntryOf(a)' = EntryOf(a)
      BY <1>2, <2>1 DEF EntryOf
    <3> QED
      BY <1>1, <3>1 DEF DecayedEarned
  <2>2. CASE a \notin DOMAIN earned'
    <3>1. DecayedEarned(a) = 0
      <4>1. a \notin DOMAIN earned => DecayedEarned(a) = 0
        BY DecayedWhole DEF LazyInv
      <4> QED
        BY <1>1, <2>2, <4>1
    <3>2. EntryOf(a)' = [earned |-> 0, since |-> now, halving |-> 2, reinforced |-> 0]
      BY <1>1, <2>2 DEF EntryOf, Fresh
    <3>3. DecayedEarned(a)' = 0 \div Power(2, now - now)
      BY <1>1, <3>2 DEF DecayedEarned
    <3>4. now - now = 0 /\ Power(2, 0) = 1 /\ 0 \div 1 = 0
      BY <1>1, PowerLaws
    <3> QED
      BY <3>1, <3>3, <3>4
  <2> QED
    BY <2>1, <2>2
<1> QED
  BY <1>1, <1>2, <1>3 DEF LazyInv

(* A tick halves what halving at every tick keeps, and adds one to the     *)
(* power that reading divides by.                                          *)
LEMMA TrustTickStep ==
  ASSUME LazyInv, TrustTick
  PROVE  LazyInv'
<1>1. /\ now' = now + 1 /\ earned' = earned /\ rewritten' = rewritten /\ now \in Nat
      /\ eager' = [a \in TrustAgents |-> eager[a] \div EntryOf(a).halving]
  BY DEF TrustTick, LazyInv
<1>2. ASSUME NEW a \in TrustAgents
      PROVE  /\ eager'[a] \in Int
             /\ eager[a] = DecayedEarned(a) => eager'[a] = DecayedEarned(a)'
  <2> DEFINE e == EntryOf(a)
             n == now - e.since
             p == Power(e.halving, n)
  <2>1. /\ e \in TrustEntry /\ e.since <= now /\ DecayedEarned(a) \in Int
        /\ (a \notin DOMAIN earned => DecayedEarned(a) = 0)
    BY DecayedWhole DEF LazyInv
  <2>2. DecayedEarned(a) = e.earned \div p /\ eager'[a] = eager[a] \div e.halving
    BY <1>1 DEF DecayedEarned
  <2>3. CASE a \in DOMAIN earned
    <3>1. DecayedEarned(a)' = e.earned \div Power(e.halving, (now + 1) - e.since)
      BY <1>1, <2>3 DEF DecayedEarned, EntryOf
    <3> HIDE DEF e
    <3>2. n \in Nat /\ (now + 1) - e.since = n + 1 /\ e.earned \in Int /\ e.halving \in {2, 4}
          /\ e.halving \in Nat \ {0}
      BY <1>1, <2>1 DEF TrustEntry
    <3> HIDE DEF n
    <3>3. p \in Nat \ {0} /\ Power(e.halving, n + 1) = e.halving * p
      BY <3>2, PowerLaws
    <3> HIDE DEF p
    <3>4. (e.earned \div p) \div e.halving = e.earned \div (e.halving * p)
      BY <3>2, <3>3, DividedTwice
    <3>5. eager[a] \in Int => eager[a] \div e.halving \in Int
      BY <3>2
    <3>6. eager[a] \in Int
      BY DEF LazyInv
    <3> QED
      BY <2>2, <3>1, <3>2, <3>3, <3>4, <3>5, <3>6
  <2>4. CASE a \notin DOMAIN earned
    <3>1. EntryOf(a)' = [earned |-> 0, since |-> now + 1, halving |-> 2, reinforced |-> 0]
          /\ e.halving = 2
      BY <1>1, <2>4 DEF EntryOf, Fresh
    <3>2. DecayedEarned(a)' = 0 \div Power(2, (now + 1) - (now + 1))
      BY <1>1, <3>1 DEF DecayedEarned
    <3>3. (now + 1) - (now + 1) = 0 /\ Power(2, 0) = 1 /\ 0 \div 1 = 0
      BY <1>1, PowerLaws
    <3>4. eager[a] \in Int
      BY DEF LazyInv
    <3>5. eager'[a] = eager[a] \div 2
      BY <2>2, <3>1
    <3>6. eager[a] \div 2 \in Int /\ (eager[a] = 0 => eager[a] \div 2 = 0)
      BY <3>4
    <3> QED
      BY <2>1, <2>4, <3>2, <3>3, <3>5, <3>6
  <2> QED
    BY <2>3, <2>4
<1>3. eager' \in [TrustAgents -> Int]
  BY <1>1, <1>2
<1>4. \A a \in DOMAIN earned' : earned'[a] \in TrustEntry /\ earned'[a].since <= now'
  BY <1>1 DEF LazyInv, TrustEntry
<1>5. now' \in Nat
  BY <1>1
<1> QED
  BY <1>1, <1>2, <1>3, <1>4, <1>5 DEF LazyInv

LEMMA LazyStep ==
  ASSUME LazyInv, [TrustNext]_trustVars
  PROVE  LazyInv'
<1>1. CASE TemporalNext
  <2>1. ASSUME NEW a \in TrustAgents, NEW d \in TrustDeltas, Reinforce(a, d)
        PROVE  LazyInv'
    BY <2>1, ReinforceStep
  <2>2. ASSUME NEW a \in TrustAgents, NEW h \in {2, 4}, SetHalfLife(a, h)
        PROVE  LazyInv'
    BY <2>2, SetHalfLifeStep
  <2> QED
    BY <1>1, <2>1, <2>2, DecayAllStep DEF TemporalNext
<1>2. CASE UNCHANGED <<now, temporalVars>>
  BY <1>2 DEF temporalVars, LazyInv, DecayedEarned, EntryOf, Fresh
<1>3. ReputationNext \/ StateNext \/ UNCHANGED trustVars => UNCHANGED <<now, temporalVars>>
  BY DEF ReputationNext, StateNext, trustVars, temporalVars, ReputationDecay, Outcome, SetTrustState,
         DecayTrust, RecoverTrust, PushAnomaly
<1> QED
  BY <1>1, <1>2, <1>3, TrustTickStep DEF TrustNext

-------------------------------------------------------------------------------
(* Counters of activity. *)

LEMMA ActivityInitial ==
  ASSUME ActivityInit
  PROVE  ActivityInv
<1>1. clock = 0 /\ windows = <<>> /\ calls = <<>> /\ DOMAIN windows = {} /\ DOMAIN calls = {}
      /\ closed = [k \in EventKind |-> 0] /\ observed = [k \in EventKind |-> 0]
  BY DEF ActivityInit, Zero
<1>2. IsFiniteSet({})
  BY FS_EmptySet
<1>3. ASSUME NEW k \in EventKind
      PROVE  SumFunction([a \in DOMAIN windows |-> windows[a].counts[k]]) = 0
  <2> DEFINE f == [a \in DOMAIN windows |-> windows[a].counts[k]]
  <2>1. DOMAIN f = {}
    BY <1>1
  <2> HIDE DEF f
  <2>2. SumFunction(f) = 0
    BY <1>2, <2>1, SumOfZeros DEF SumFunction
  <2> QED
    BY <2>2 DEF f
<1>4. ActivityTypeOK
  BY <1>1, ActivityAssumption DEF ActivityTypeOK
<1>5. EventsCountedOnce
  BY <1>1, <1>3 DEF EventsCountedOnce
<1>6. closed \in Counts /\ observed \in Counts
  BY <1>1 DEF Counts
<1> QED
  BY <1>1, <1>2, <1>4, <1>5, <1>6 DEF ActivityInv

(* What a window's closing takes out of it goes into the closed counts.    *)
LEMMA RolloverKept ==
  ASSUME NEW w \in Window, clock \in Nat
  PROVE  /\ Rollover(w) \in Window /\ Closing(w) \in Counts
         /\ \A k \in EventKind : w.counts[k] = Closing(w)[k] + Rollover(w).counts[k]
         /\ w.opened <= clock => Rollover(w).opened <= clock
<1>1. w.counts \in Counts /\ w.opened \in Int /\ w.sample \in Counts /\ Zero \in Counts
      /\ \A k \in EventKind : Zero[k] = 0
  BY DEF Window, Counts, Zero
<1>2. CASE Expired(w)
  <2>1. Rollover(w) = [counts |-> Zero, opened |-> clock, sample |-> w.counts] /\ Closing(w) = w.counts
    BY <1>2 DEF Rollover, Closing
  <2>2. \A k \in EventKind : w.counts[k] \in Nat
    BY <1>1 DEF Counts
  <2> QED
    BY <1>1, <2>1, <2>2 DEF Window
<1>3. CASE ~Expired(w)
  <2>1. Rollover(w) = w /\ Closing(w) = Zero
    BY <1>3 DEF Rollover, Closing
  <2>2. \A k \in EventKind : w.counts[k] \in Nat
    BY <1>1 DEF Counts
  <2> QED
    BY <1>1, <2>1, <2>2
<1> QED
  BY <1>2, <1>3

LEMMA ObserveStep ==
  ASSUME ActivityInv, NEW a \in WatchedAgents, NEW k \in EventKind, Observe(a, k)
  PROVE  ActivityInv'
<1> DEFINE w == IF a \in DOMAIN windows THEN windows[a] ELSE [counts |-> Zero, opened |-> clock, sample |-> Zero]
           r == Rollover(w)
           n == [r EXCEPT !.counts[k] = @ + 1]
           D == DOMAIN windows
<1>1. /\ windows' = Entering(windows, a, n)
      /\ closed' = [x \in EventKind |-> closed[x] + Closing(w)[x]]
      /\ observed' = [observed EXCEPT ![k] = @ + 1]
      /\ clock' = clock /\ calls' = calls
  BY DEF Observe
<1>2. /\ clock \in Nat /\ closed \in Counts /\ observed \in Counts /\ IsFiniteSet(D)
      /\ \A b \in D : windows[b] \in Window /\ windows[b].opened <= clock
  BY DEF ActivityInv, ActivityTypeOK
<1>3. Zero \in Counts /\ \A x \in EventKind : Zero[x] = 0
  BY DEF Zero, Counts
<1>4. w \in Window /\ w.opened <= clock /\ (a \notin D => w.counts = Zero)
  BY <1>2, <1>3 DEF Window
<1> HIDE DEF w, D
<1>5. /\ r \in Window /\ Closing(w) \in Counts /\ r.opened <= clock
      /\ \A x \in EventKind : w.counts[x] = Closing(w)[x] + r.counts[x]
  BY <1>2, <1>4, RolloverKept
<1> HIDE DEF r
<1>6. /\ n \in Window /\ n.opened <= clock
      /\ \A x \in EventKind : n.counts[x] = IF x = k THEN r.counts[x] + 1 ELSE r.counts[x]
  BY <1>5 DEF Window, Counts
<1> HIDE DEF n
<1>7. DOMAIN windows' = D \cup {a} /\ windows'[a] = n /\ \A b \in D \ {a} : windows'[b] = windows[b]
  BY <1>1 DEF Entering, D
<1>8. IsFiniteSet(DOMAIN windows') /\ \A b \in DOMAIN windows' : windows'[b] \in Window /\ windows'[b].opened <= clock'
  BY <1>1, <1>2, <1>6, <1>7, FS_AddElement
<1>9. closed' \in Counts /\ observed' \in Counts
  BY <1>1, <1>2, <1>5 DEF Counts
<1>10. ASSUME NEW x \in EventKind
       PROVE  observed'[x] = closed'[x] + SumFunction([b \in DOMAIN windows' |-> windows'[b].counts[x]])
  <2> DEFINE u == [b \in D |-> windows[b].counts[x]]
             v == [b \in DOMAIN windows' |-> windows'[b].counts[x]]
             one == IF x = k THEN 1 ELSE 0
  <2>1. observed[x] = closed[x] + SumFunctionOnSet(u, D)
    BY DEF ActivityInv, EventsCountedOnce, SumFunction, D
  <2>2. /\ DOMAIN v = D \cup {a} /\ v[a] = n.counts[x] /\ (a \in D => u[a] = w.counts[x])
        /\ (\A b \in D : u[b] \in Nat) /\ (\A b \in D \ {a} : v[b] = u[b] /\ v[b] \in Nat)
    <3>1. \A b \in D : u[b] = windows[b].counts[x] /\ u[b] \in Nat
      BY <1>2 DEF Window, Counts
    <3>2. DOMAIN v = D \cup {a} /\ v[a] = n.counts[x] /\ \A b \in D \ {a} : v[b] = windows[b].counts[x]
      BY <1>7
    <3>3. a \in D => w = windows[a]
      BY DEF w, D
    <3> QED
      BY <3>1, <3>2, <3>3
  <2>3. /\ n.counts[x] = r.counts[x] + one /\ w.counts[x] = Closing(w)[x] + r.counts[x]
        /\ r.counts[x] \in Nat /\ Closing(w)[x] \in Nat /\ one \in Nat
    BY <1>5, <1>6 DEF Window, Counts
  <2>4. observed'[x] = observed[x] + one /\ closed'[x] = closed[x] + Closing(w)[x]
        /\ observed[x] \in Nat /\ closed[x] \in Nat
    BY <1>1, <1>2 DEF Counts
  <2> HIDE DEF u, v, one
  <2>5. v[a] \in Nat
    BY <2>2, <2>3
  <2>6. SumFunctionOnSet(u, D) \in Nat
    BY <1>2, <2>2, SumLaws
  <2>7. CASE a \in D
    <3>1. \A b \in D : u[b] \in Nat /\ v[b] \in Nat
      BY <2>2, <2>5
    <3>2. SumFunctionOnSet(v, D) = SumFunctionOnSet(u, D) - u[a] + v[a]
      BY <1>2, <2>2, <2>7, <3>1, SumChanged
    <3>3. SumFunction(v) = SumFunctionOnSet(v, D)
      BY <2>2, <2>7 DEF SumFunction
    <3>4. observed'[x] = closed'[x] + SumFunction(v)
      BY <2>1, <2>2, <2>3, <2>4, <2>6, <2>7, <3>2, <3>3
    <3> QED
      BY <3>4 DEF v
  <2>8. CASE a \notin D
    <3> DEFINE T == D \cup {a}
    <3>1. /\ IsFiniteSet(T) /\ a \in T /\ T \ {a} = D
          /\ (\A b \in T : v[b] \in Nat) /\ (\A b \in T \ {a} : u[b] = v[b])
      BY <1>2, <2>2, <2>5, <2>8, FS_AddElement
    <3> HIDE DEF T
    <3>2. SumFunctionOnSet(v, T) = SumFunctionOnSet(u, T \ {a}) + v[a]
      BY <3>1, SumGrown
    <3>3. w.counts[x] = 0
      BY <1>3, <1>4, <2>8
    <3>4. SumFunction(v) = SumFunctionOnSet(v, T)
      BY <2>2 DEF SumFunction, T
    <3>5. SumFunctionOnSet(v, T) = SumFunctionOnSet(u, D) + v[a]
      BY <3>1, <3>2
    <3>6. v[a] = r.counts[x] + one /\ Closing(w)[x] = 0 /\ r.counts[x] = 0
      BY <2>2, <2>3, <3>3
    <3> DEFINE before == SumFunctionOnSet(u, D)
    <3>7. /\ SumFunction(v) = before + one /\ observed[x] = closed[x] + before
          /\ closed'[x] = closed[x]
      <4>1. closed[x] \in Nat
        BY <1>2 DEF Counts
      <4> QED
        BY <2>1, <2>3, <2>4, <2>6, <3>4, <3>5, <3>6, <4>1
    <3>8. closed[x] \in Nat /\ before \in Nat /\ one \in Nat
      BY <1>2, <2>3, <2>6 DEF Counts
    <3> HIDE DEF before
    <3>9. observed'[x] = closed'[x] + SumFunction(v)
      BY <2>4, <3>7, <3>8
    <3> QED
      BY <3>9 DEF v
  <2> QED
    BY <2>7, <2>8
<1> QED
  BY <1>1, <1>8, <1>9, <1>10 DEF ActivityInv, ActivityTypeOK, EventsCountedOnce

LEMMA RolloverAllStep ==
  ASSUME ActivityInv, RolloverAll
  PROVE  ActivityInv'
<1> DEFINE D == DOMAIN windows
<1>1. /\ windows' = [a \in D |-> Rollover(windows[a])] /\ clock' = clock /\ calls' = calls /\ observed' = observed
      /\ closed' = [x \in EventKind |-> closed[x] + SumFunction([a \in D |-> Closing(windows[a])[x]])]
  BY DEF RolloverAll
<1>2. /\ clock \in Nat /\ closed \in Counts /\ observed \in Counts /\ IsFiniteSet(D)
      /\ \A b \in D : windows[b] \in Window /\ windows[b].opened <= clock
  BY DEF ActivityInv, ActivityTypeOK
<1>3. ASSUME NEW b \in D
      PROVE  /\ Rollover(windows[b]) \in Window /\ Closing(windows[b]) \in Counts
             /\ \A x \in EventKind : windows[b].counts[x] = Closing(windows[b])[x] + Rollover(windows[b]).counts[x]
             /\ Rollover(windows[b]).opened <= clock
  BY <1>2, RolloverKept
<1>4. ASSUME NEW x \in EventKind
      PROVE  /\ closed'[x] \in Nat
             /\ observed'[x] = closed'[x] + SumFunction([b \in DOMAIN windows' |-> windows'[b].counts[x]])
  <2> DEFINE u == [b \in D |-> windows[b].counts[x]]
             v == [b \in D |-> Closing(windows[b])[x]]
             w == [b \in DOMAIN windows' |-> windows'[b].counts[x]]
  <2>1. observed[x] = closed[x] + SumFunctionOnSet(u, D)
    BY DEF ActivityInv, EventsCountedOnce, SumFunction
  <2>2. \A b \in D : v[b] \in Nat /\ w[b] \in Nat /\ u[b] = v[b] + w[b]
    BY <1>1, <1>3 DEF Window, Counts
  <2>3. DOMAIN v = D /\ DOMAIN w = D /\ closed'[x] = closed[x] + SumFunction(v)
    BY <1>1
  <2> HIDE DEF u, v, w, D
  <2>4. SumFunctionOnSet(u, D) = SumFunctionOnSet(v, D) + SumFunctionOnSet(w, D)
    BY <1>2, <2>2, SumAdded
  <2>5. SumFunctionOnSet(v, D) \in Nat
    BY <1>2, <2>2, SumLaws
  <2>6. SumFunctionOnSet(w, D) \in Nat
    BY <1>2, <2>2, SumLaws
  <2>7. closed[x] \in Nat
    BY <1>2 DEF Counts
  <2>8. SumFunction(v) = SumFunctionOnSet(v, D) /\ SumFunction(w) = SumFunctionOnSet(w, D)
    BY <2>3 DEF SumFunction
  <2> QED
    BY <1>1, <2>1, <2>3, <2>4, <2>5, <2>6, <2>7, <2>8 DEF w
<1>5. closed' \in Counts
  BY <1>1, <1>4 DEF Counts
<1>6. DOMAIN windows' = D /\ \A b \in D : windows'[b] \in Window /\ windows'[b].opened <= clock'
  BY <1>1, <1>3
<1> QED
  BY <1>1, <1>2, <1>4, <1>5, <1>6 DEF ActivityInv, ActivityTypeOK, EventsCountedOnce

(* The call profiles: the total and the dangerous calls are counted along. *)
LEMMA ProfilesStep ==
  ASSUME ActivityInv, ResetCalls \/ \E a \in WatchedAgents, s \in Syscalls : RecordSyscall(a, s)
  PROVE  ActivityInv'
<1> DEFINE Whole(p) == /\ p \in Profile /\ p.total \in 0..MaxActivity
                       /\ p.total = SumFunction(p.counts) /\ p.dangerous = SumFunctionOnSet(p.counts, Dangerous)
<1>1. IsFiniteSet(Syscalls) /\ IsFiniteSet(Dangerous) /\ Dangerous \subseteq Syscalls
  <2>1. Dangerous \subseteq Syscalls /\ Syscalls = {"OpenAt"} \cup {"Connect"} \cup {"Unlink"} \cup {"Execve"}
    BY DEF Dangerous, Syscalls
  <2>2. IsFiniteSet(Syscalls)
    BY <2>1, FS_Singleton, FS_Union
  <2> QED
    BY <2>1, <2>2, FS_Subset
<1>2. MaxActivity \in Nat
  BY ActivityAssumption
<1>3. Whole(NoCalls)
  <2> DEFINE c == [s \in Syscalls |-> 0]
  <2>1. NoCalls = [counts |-> c, dangerous |-> 0, total |-> 0] /\ c \in [Syscalls -> Nat]
    BY DEF NoCalls
  <2>2. DOMAIN c = Syscalls /\ \A s \in Syscalls : c[s] = 0
    OBVIOUS
  <2> HIDE DEF c
  <2>3. SumFunction(c) = 0
    BY <1>1, <2>2, SumOfZeros DEF SumFunction
  <2>4. SumFunctionOnSet(c, Dangerous) = 0
    BY <1>1, <2>2, SumOfZeros
  <2> QED
    BY <1>2, <2>1, <2>3, <2>4 DEF Profile
<1>4. \A a \in DOMAIN calls : Whole(calls[a])
  BY DEF ActivityInv, ActivityTypeOK, EventsCountedOnce
<1>5. UNCHANGED <<clock, windows, closed, observed>>
  BY DEF ResetCalls, RecordSyscall
<1>6. \A a \in DOMAIN calls' : Whole(calls'[a])
  <2>1. CASE ResetCalls
    <3> HIDE DEF Whole
    <3> QED
      BY <1>3, <2>1 DEF ResetCalls
  <2>2. ASSUME NEW a \in WatchedAgents, NEW s \in Syscalls, RecordSyscall(a, s)
        PROVE  \A b \in DOMAIN calls' : Whole(calls'[b])
    <3> DEFINE p == IF a \in DOMAIN calls THEN calls[a] ELSE NoCalls
               c == [p.counts EXCEPT ![s] = @ + 1]
               one == IF s \in Dangerous THEN 1 ELSE 0
               q == [counts |-> c, total |-> p.total + 1, dangerous |-> p.dangerous + one]
    <3>1. p.total < MaxActivity /\ calls' = Entering(calls, a, q)
      BY <2>2 DEF RecordSyscall
    <3>2. Whole(p)
      BY <1>3, <1>4
    <3> HIDE DEF p
    <3>3. /\ p.counts \in [Syscalls -> Nat] /\ p.total \in Nat /\ p.dangerous \in Nat
          /\ p.total = SumFunctionOnSet(p.counts, Syscalls)
          /\ p.dangerous = SumFunctionOnSet(p.counts, Dangerous)
      BY <3>2 DEF Profile, SumFunction
    <3>4. /\ c \in [Syscalls -> Nat] /\ DOMAIN c = Syscalls /\ c[s] = p.counts[s] + 1
          /\ \A x \in Syscalls \ {s} : c[x] = p.counts[x]
          /\ \A x \in Syscalls : p.counts[x] \in Nat /\ c[x] \in Nat
      BY <3>3
    <3> HIDE DEF c
    <3>5. SumFunctionOnSet(c, Syscalls) = SumFunctionOnSet(p.counts, Syscalls) - p.counts[s] + c[s]
      BY <1>1, <3>4, SumChanged
    <3>6. SumFunction(c) = p.total + 1
      BY <3>3, <3>4, <3>5 DEF SumFunction
    <3>7. SumFunctionOnSet(c, Dangerous) = p.dangerous + one
      <4>1. CASE s \in Dangerous
        <5>1. /\ \A x \in Dangerous : p.counts[x] \in Nat /\ c[x] \in Nat
              /\ \A x \in Dangerous \ {s} : c[x] = p.counts[x]
          BY <1>1, <3>4
        <5>2. SumFunctionOnSet(c, Dangerous) = SumFunctionOnSet(p.counts, Dangerous) - p.counts[s] + c[s]
          BY <1>1, <3>4, <4>1, <5>1, SumChanged
        <5> QED
          BY <3>3, <3>4, <4>1, <5>2
      <4>2. CASE s \notin Dangerous
        <5>1. \A x \in Dangerous : p.counts[x] \in Nat /\ p.counts[x] = c[x]
          BY <1>1, <3>4, <4>2
        <5>2. SumFunctionOnSet(p.counts, Dangerous) = SumFunctionOnSet(c, Dangerous)
          BY <1>1, <5>1, SumSame
        <5> QED
          BY <3>3, <4>2, <5>2
      <4> QED
        BY <4>1, <4>2
    <3>8. one \in Nat
      OBVIOUS
    <3> HIDE DEF one
    <3>9. Whole(q)
      BY <1>2, <3>1, <3>3, <3>4, <3>6, <3>7, <3>8 DEF Profile
    <3> HIDE DEF q, Whole
    <3>10. \A b \in DOMAIN calls' : b = a \/ b \in DOMAIN calls
      BY <3>1 DEF Entering
    <3>11. calls'[a] = q /\ \A b \in DOMAIN calls \ {a} : calls'[b] = calls[b]
      BY <3>1 DEF Entering
    <3> QED
      BY <1>4, <3>9, <3>10, <3>11
  <2> QED
    BY <2>1, <2>2
<1> QED
  BY <1>5, <1>6 DEF ActivityInv, ActivityTypeOK, EventsCountedOnce

LEMMA ActivityStep ==
  ASSUME ActivityInv, [ActivityNext]_activityVars
  PROVE  ActivityInv'
<1>1. CASE ActivityTick
  <2>1. clock' = clock + 1 /\ clock < MaxWatchTime /\ UNCHANGED <<windows, closed, observed, calls>>
        /\ clock \in Nat /\ MaxWatchTime \in Nat
    BY <1>1, ActivityAssumption DEF ActivityTick, ActivityInv, ActivityTypeOK
  <2>2. \A a \in DOMAIN windows : windows[a].opened \in Int /\ windows[a].opened <= clock + 1
    BY <2>1 DEF ActivityInv, ActivityTypeOK, Window
  <2> QED
    BY <2>1, <2>2 DEF ActivityInv, ActivityTypeOK, EventsCountedOnce
<1>2. CASE UNCHANGED activityVars
  BY <1>2 DEF activityVars, ActivityInv, ActivityTypeOK, EventsCountedOnce
<1>3. CASE \E a \in WatchedAgents, k \in EventKind : Observe(a, k)
  BY <1>3, ObserveStep
<1> QED
  BY <1>1, <1>2, <1>3, RolloverAllStep, ProfilesStep DEF ActivityNext

(* Reading trust lazily is exact, suspicion is kept, thresholds keep to    *)
(* their ranges and every event is counted in one window, for any agents,  *)
(* classes, bounds and half-lives (temporal_trust.rs, runtime_state.rs,    *)
(* authority_calibration.rs, behavior_monitor.rs, syscall_tracker.rs).     *)
THEOREM TrustHolds == Spec => []TrustSound
<1>1. Init => LazyInv /\ ActivityInv
  BY LazyInitial, ActivityInitial DEF Init
<1>2. LazyInv /\ ActivityInv /\ [Next]_vars => (LazyInv /\ ActivityInv)'
  BY LazyStep, ActivityStep, OneDriven
<1>3. LazyInv => LazyTrustExact
  BY DEF LazyInv, LazyTrustExact, TrustAt
<1>4. ActivityInv => EventsCountedOnce
  BY DEF ActivityInv
<1>5. /\ LazyTrustExact /\ EventsCountedOnce /\ SuspicionKept
      /\ (part = "calibration" => CalFloorsHeld)
      => TrustSound
  BY DEF TrustSound
<1> QED
  BY <1>1, <1>2, <1>3, <1>4, <1>5, SuspicionHeld, FloorsHeld, PTL DEF Spec

-------------------------------------------------------------------------------
(* Types.  The type invariants are inductive together with the invariants  *)
(* above and with the bounds that follow here.                             *)

LEMMA PreloadInitial ==
  ASSUME PreloadInit
  PROVE  PreloadTypeOK
BY PreloadAssumption DEF PreloadInit, PreloadTypeOK

LEMMA PreloadStep ==
  ASSUME PreloadTypeOK, [PreloadNext]_preloadVars
  PROVE  PreloadTypeOK'
<1>1. ASSUME NEW d \in Domains, RecordAcceptance(d)
      PROVE  PreloadTypeOK'
  <2>1. accepted[d] + 1 \in 0..MaxAcceptance
    BY <1>1, PreloadAssumption DEF RecordAcceptance, PreloadTypeOK
  <2>2. accepted' = [accepted EXCEPT ![d] = accepted[d] + 1] /\ UNCHANGED <<locked, disabled, optedIn>>
    BY <1>1 DEF RecordAcceptance
  <2> QED
    BY <2>1, <2>2 DEF PreloadTypeOK
<1>2. ASSUME NEW d \in Domains, Lock(d) \/ Unlock(d) \/ OptIn(d) \/ OptOut(d)
      PROVE  PreloadTypeOK'
  BY <1>2 DEF Lock, Unlock, OptIn, OptOut, PreloadTypeOK
<1>3. ASSUME NEW a \in ActionKeys, DisableAction(a) \/ EnableAction(a)
      PROVE  PreloadTypeOK'
  BY <1>3 DEF DisableAction, EnableAction, PreloadTypeOK
<1>4. CASE UNCHANGED preloadVars
  BY <1>4 DEF preloadVars, PreloadTypeOK
<1> QED
  BY <1>1, <1>2, <1>3, <1>4 DEF PreloadNext

(* A window never holds more observations than it has room for (observe).  *)
LEMMA WindowsBounded ==
  /\ AssessInit => AssessTypeOK
  /\ AssessTypeOK /\ [AssessNext]_assessVars => AssessTypeOK'
<1> DEFINE W == BoundedSeq(Observations, WindowSize)
<1>1. W = {s \in Seq(Observations) : Len(s) <= WindowSize}
  <2>1. WindowSize \in Nat
    BY AssessAssumption
  <2> QED
    BY <2>1 DEF BoundedSeq, SeqOf
<1> HIDE DEF W
<1>2. AssessInit => AssessTypeOK
  <2>1. <<>> \in W
    BY <1>1, AssessAssumption
  <2> QED
    BY <2>1 DEF W, AssessInit, Unasked, AssessTypeOK
<1>3. ASSUME AssessTypeOK, NEW a \in AssessAgents, NEW o \in Observations, ObserveAction(a, o)
      PROVE  AssessTypeOK'
  <2>1. history[a] \in W /\ history \in [AssessAgents -> W]
    BY <1>3 DEF AssessTypeOK, W
  <2> DEFINE h == IF Len(history[a]) >= WindowSize THEN Tail(history[a]) ELSE history[a]
  <2>2. h \in Seq(Observations) /\ Len(h) + 1 <= WindowSize
    <3>1. /\ history[a] \in Seq(Observations) /\ Len(history[a]) \in Nat /\ Len(history[a]) <= WindowSize
          /\ WindowSize \in Nat \ {0}
      BY <1>1, <2>1, AssessAssumption
    <3>2. CASE Len(history[a]) >= WindowSize
      <4>1. history[a] # <<>>
        BY <3>1, <3>2
      <4>2. Tail(history[a]) \in Seq(Observations) /\ Len(Tail(history[a])) = Len(history[a]) - 1
        BY <3>1, <4>1
      <4> QED
        BY <3>1, <3>2, <4>2
    <3>3. CASE ~(Len(history[a]) >= WindowSize)
      BY <3>1, <3>3
    <3> QED
      BY <3>2, <3>3
  <2> HIDE DEF h
  <2>3. Append(h, o) \in W
    BY <1>1, <2>2
  <2>4. history' = [history EXCEPT ![a] = Append(h, o)] /\ assessed' = assessed
    BY <1>3 DEF ObserveAction, h
  <2>5. history' \in [AssessAgents -> W]
    BY <2>1, <2>3, <2>4
  <2> QED
    BY <1>3, <2>4, <2>5 DEF AssessTypeOK, W
<1>4. ASSUME NEW a, NEW severity, NEW syscall, NEW session, EvaluateRequest(a, severity, syscall, session)
      PROVE  history' = history /\ assessed'.by = "request"
  BY <1>4 DEF EvaluateRequest
<1>5. ASSUME NEW by \in {"validator", "policy", "confidence"}, NEW risk, NEW confidence, NEW violations,
             Ask(by, violations, risk, confidence)
      PROVE  history' = history /\ assessed'.by = by
  BY <1>5 DEF Ask
<1>6. ASSUME NEW a, ScoreBoth(a)
      PROVE  history' = history /\ assessed'.by = "scorers"
  BY <1>6 DEF ScoreBoth
<1>7. ASSUME assessed' = Unasked, history' = history
      PROVE  assessed'.by = "nobody"
  BY <1>7 DEF Unasked
<1>8. UNCHANGED assessVars => history' = history /\ assessed' = assessed
  BY DEF assessVars
<1>9. AssessTypeOK /\ [AssessNext]_assessVars => AssessTypeOK'
  <2> SUFFICES ASSUME AssessTypeOK, [AssessNext]_assessVars PROVE AssessTypeOK'
    OBVIOUS
  <2>1. ASSUME history' = history,
               assessed'.by \in {"nobody", "request", "validator", "policy", "confidence", "scorers"}
        PROVE  AssessTypeOK'
    BY <2>1 DEF AssessTypeOK
  <2>2. AssessTypeOK /\ assessed' = assessed => assessed'.by \in {"nobody", "request", "validator", "policy", "confidence", "scorers"}
    BY DEF AssessTypeOK
  <2> QED
    BY <1>3, <1>4, <1>5, <1>6, <1>7, <1>8, <2>1, <2>2 DEF AssessNext
<1> QED
  BY <1>2, <1>9

(* The task that serves is up or down, and the thresholds it holds are in  *)
(* the range of the type (trust_calibration.rs).                           *)
LEMMA CalTyped ==
  /\ CalInit => calUp \in BOOLEAN
  /\ calUp \in BOOLEAN /\ [CalNext]_calVars => (calUp \in BOOLEAN)'
  /\ CalInv /\ calUp \in BOOLEAN => CalTypeOK
<1>1. CalInit => calUp \in BOOLEAN
  BY DEF CalInit
<1>2. calUp \in BOOLEAN /\ [CalNext]_calVars => (calUp \in BOOLEAN)'
  BY DEF CalNext, CalLoad, CalStop, RecordFeedback, CalEdit, Persist, calVars
<1>3. CalInv /\ calUp \in BOOLEAN => CalTypeOK
  <2> SUFFICES ASSUME CalInv, calUp \in BOOLEAN PROVE CalTypeOK
    OBVIOUS
  <2>1. \A c \in CalClasses : calMem[c] \in CalFloor(c)..20 /\ CalFloor(c) \in 2..18
    BY ThresholdsInRange DEF CalInv
  <2>2. calMem \in [CalClasses -> 2..20]
    BY <2>1 DEF CalInv
  <2> QED
    BY <2>2 DEF CalInv, CalTypeOK
<1> QED
  BY <1>1, <1>2, <1>3

(* The depth is checked before it grows (enter).                           *)
DepthBounds == (\A a \in Agents : depth[a] <= MaxDepth) /\ time \in 0..MaxPrivTime
LEMMA DepthBounded ==
  /\ PrivilegeInit => DepthBounds
  /\ DepthInv /\ DepthBounds /\ [PrivilegeNext]_privilegeVars => DepthBounds'
  /\ BudgetInv /\ DepthInv /\ DepthBounds => PrivilegeTypeOK
<1>1. PrivilegeInit => DepthBounds
  BY PrivilegeAssumption DEF PrivilegeInit, DepthBounds
<1>2. ASSUME DepthInv, DepthBounds, [PrivilegeNext]_privilegeVars
      PROVE  DepthBounds'
  <2>1. /\ depth \in [Agents -> Nat] /\ \A a \in Agents : depth[a] <= MaxDepth
        /\ time \in 0..MaxPrivTime /\ {MaxDepth, MaxPrivTime} \subseteq Nat
        /\ guard \in Agents \cup {"none"}
    BY <1>2, PrivilegeAssumption DEF DepthInv, DepthBounds
  <2>2. ASSUME NEW a \in Agents, Enter(a)
        PROVE  DepthBounds'
    <3>1. depth' = depth \/ depth' = [depth EXCEPT ![a] = depth[a] + 1]
      BY <2>2 DEF Enter
    <3>2. depth[a] < MaxDepth /\ time' = time
      BY <2>2 DEF Enter
    <3>3. \A b \in Agents : depth'[b] <= MaxDepth
      BY <2>1, <3>1, <3>2
    <3> QED
      BY <2>1, <3>2, <3>3 DEF DepthBounds
  <2>3. CASE DropGuard
    <3>1. guard \in Agents /\ time' = time
          /\ depth' = [depth EXCEPT ![guard] = IF depth[guard] > 0 THEN depth[guard] - 1 ELSE 0]
      BY <2>1, <2>3 DEF DropGuard
    <3>2. \A b \in Agents : depth'[b] <= MaxDepth
      BY <2>1, <3>1
    <3> QED
      BY <2>1, <3>1, <3>2 DEF DepthBounds
  <2>4. CASE PrivilegeTick
    <3>1. depth' = depth /\ time' \in 0..MaxPrivTime
      BY <2>1, <2>4 DEF PrivilegeTick
    <3> QED
      BY <2>1, <3>1 DEF DepthBounds
  <2>5. ReleaseGuard \/ AutonomyNext \/ UNCHANGED privilegeVars => UNCHANGED <<depth, time>>
    BY DEF ReleaseGuard, AutonomyNext, recursionVars, privilegeVars
  <2>6. UNCHANGED <<depth, time>> => DepthBounds'
    BY <2>1 DEF DepthBounds
  <2> QED
    BY <1>2, <2>2, <2>3, <2>4, <2>5, <2>6 DEF PrivilegeNext, RecursionNext
<1>3. ASSUME BudgetInv, DepthInv, DepthBounds
      PROVE  PrivilegeTypeOK
  <2>1. \A a \in Agents : depth[a] \in 0..MaxDepth
    BY <1>3, PrivilegeAssumption DEF DepthInv, DepthBounds
  <2>2. depth \in [Agents -> 0..MaxDepth] /\ guard \in Agents \cup {"none"} /\ time \in 0..MaxPrivTime
    BY <1>3, <2>1 DEF DepthInv, DepthBounds
  <2>3. level \in DOMAIN Rank /\ spent \in 0..MaxPerPeriod
    BY <1>3, PrivilegeAssumption DEF BudgetInv
  <2>4. allowed \in [{"mild", "risky"} -> 0..MaxCallers]
    BY <1>3, PrivilegeAssumption DEF BudgetInv
  <2> QED
    BY <2>2, <2>3, <2>4 DEF PrivilegeTypeOK
<1> QED
  BY <1>1, <1>2, <1>3

(* Policies are installed from a finite set of identifiers.                *)
LEMMA InstallsBounded ==
  /\ GovernanceInit => installs <= Cardinality(PolicyIds)
  /\ /\ PoliciesInv /\ installs <= Cardinality(PolicyIds) /\ [GovernanceNext]_governanceVars
     => (installs <= Cardinality(PolicyIds))'
  /\ PoliciesInv /\ ChangesInv /\ installs <= Cardinality(PolicyIds) => GovernanceTypeOK
<1> DEFINE n == Cardinality(PolicyIds)
<1>1. n \in Nat
  BY GovernanceAssumption, FS_CardinalityType
<1>2. GovernanceInit => installs <= n
  BY <1>1 DEF GovernanceInit
<1>3. ASSUME PoliciesInv, installs <= n, [GovernanceNext]_governanceVars
      PROVE  installs' <= n
  <2>1. installs \in Nat
    BY <1>3 DEF PoliciesInv
  <2>2. ASSUME NEW id, NEW priority, NEW condition, NEW effect, InstallPolicy(id, priority, condition, effect)
        PROVE  installs' = installs + 1 /\ installs < n
    BY <2>2 DEF InstallPolicy
  <2>3. \A id : RemovePolicy(id) => installs' = installs
    BY DEF RemovePolicy
  <2>4. MetaNext \/ UNCHANGED governanceVars => installs' = installs
    BY DEF MetaNext, ProposeChange, ApplyIfReady, Revert, Ratify, MetaTick, governanceVars
  <2> HIDE DEF n
  <2>5. installs' = installs \/ (installs' = installs + 1 /\ installs < n)
    BY <1>3, <2>2, <2>3, <2>4 DEF GovernanceNext, KernelNext
  <2> QED
    BY <1>1, <1>3, <2>1, <2>5
<1>4. ASSUME PoliciesInv, ChangesInv, installs <= n
      PROVE  GovernanceTypeOK
  <2>1. policies \in Seq(Policy) /\ installs \in 0..n
    BY <1>1, <1>4 DEF PoliciesInv
  <2>2. \A i \in DOMAIN policies : policies[i] \in Policy
    BY <2>1
  <2>3. \A i \in DOMAIN policies :
          /\ policies[i].id \in PolicyIds /\ policies[i].effect \in Effect
          /\ policies[i].priority \in PolicyPriorities /\ policies[i].matches \subseteq ActionRequest
    BY <2>2, GovernanceAssumption DEF Policy
  <2> QED
    BY <1>4, <2>1, <2>3 DEF ChangesInv, GovernanceTypeOK
<1> QED
  BY <1>2, <1>3, <1>4

(* Recovery points beyond the limit are dropped (checkpoint), and only     *)
(* files of HAL's own are hashed (register_path).                          *)
ContinuityBounds == snapshots <= MaxSnapshots /\ Len(points) <= MaxPoints /\ DOMAIN baseline \subseteq OwnFiles
LEMMA ContinuityBounded ==
  /\ ContinuityInit => ContinuityBounds
  /\ /\ SnapshotsInv /\ PointsInv /\ ContinuityBounds /\ [ContinuityNext]_continuityVars
     => ContinuityBounds'
  /\ SnapshotsInv /\ SettledInv /\ ContinuityBounds => ContinuityTypeOK
<1>1. ContinuityInit => ContinuityBounds
  BY ContinuityAssumption DEF ContinuityInit, ContinuityBounds
<1>2. ASSUME SnapshotsInv, PointsInv, ContinuityBounds, [ContinuityNext]_continuityVars
      PROVE  ContinuityBounds'
  <2>1. snapshots \in Nat /\ points \in Seq([id : Nat, label : Nat]) /\ checkpoints \in Nat /\ label \in Nat
        /\ MaxSnapshots \in Nat /\ MaxPoints \in Nat \ {0}
    BY <1>2, ContinuityAssumption DEF SnapshotsInv, PointsInv
  <2>2. snapshots <= MaxSnapshots /\ Len(points) <= MaxPoints /\ DOMAIN baseline \subseteq OwnFiles
    BY <1>2 DEF ContinuityBounds
  <2>3. snapshots' = snapshots \/ (snapshots < MaxSnapshots /\ snapshots' = snapshots + 1)
    BY <1>2 DEF ContinuityNext, SnapshotNext, RecoveryNext, GuardNext, CreateTmp, SyncTmp, WriteFails, Rename,
                WriteBack, PowerFailure, Checkpoint, ChangeState, SetRollbackPolicy, Restore, RegisterPath,
                FileChanges, EmergencyLockdown, ReleaseLockdown, snapshotVars, continuityVars
  <2>4. points' = points \/ Checkpoint
    BY <1>2 DEF ContinuityNext, SnapshotNext, RecoveryNext, GuardNext, CreateTmp, SyncTmp, WriteFails, Rename,
                WriteBack, PowerFailure, ChangeState, SetRollbackPolicy, Restore, RegisterPath,
                FileChanges, EmergencyLockdown, ReleaseLockdown, recoveryVars, continuityVars
  <2>5. baseline' = baseline \/ \E f \in OwnFiles : RegisterPath(f)
    BY <1>2 DEF ContinuityNext, SnapshotNext, RecoveryNext, GuardNext, CreateTmp, SyncTmp, WriteFails, Rename,
                WriteBack, PowerFailure, Checkpoint, ChangeState, SetRollbackPolicy, Restore,
                FileChanges, EmergencyLockdown, ReleaseLockdown, guardVars, continuityVars
  <2>6. snapshots' <= MaxSnapshots
    BY <2>1, <2>2, <2>3
  <2>7. Len(points') <= MaxPoints
    <3>1. CASE points' = points
      BY <2>2, <3>1
    <3>2. CASE Checkpoint
      <4> DEFINE new == [id |-> checkpoints', label |-> label]
                 all == Append(points, new)
      <4>1. new \in [id : Nat, label : Nat]
        BY <2>1, <3>2 DEF Checkpoint
      <4> HIDE DEF new
      <4>6. points \in Seq([id : Nat, label : Nat])
        BY <2>1
      <4>7. all \in Seq([id : Nat, label : Nat]) /\ Len(all) = Len(points) + 1
        BY <4>1, <4>6
      <4>2. all \in Seq([id : Nat, label : Nat]) /\ Len(all) = Len(points) + 1 /\ all # <<>>
        BY <4>6, <4>7
      <4>3. points' = IF Len(all) > MaxPoints THEN Tail(all) ELSE all
        BY <3>2 DEF Checkpoint, new
      <4> HIDE DEF all
      <4>4. Len(Tail(all)) = Len(all) - 1 /\ Len(all) \in Nat
        BY <4>2
      <4>5. Len(points) \in Nat
        BY <2>1
      <4> QED
        BY <2>1, <2>2, <4>2, <4>3, <4>4, <4>5
    <3> QED
      BY <2>4, <3>1, <3>2
  <2>8. DOMAIN baseline' \subseteq OwnFiles
    BY <2>2, <2>5 DEF RegisterPath
  <2> QED
    BY <2>6, <2>7, <2>8 DEF ContinuityBounds
<1>3. ASSUME SnapshotsInv, SettledInv, ContinuityBounds
      PROVE  ContinuityTypeOK
  <2>1. snapshots \in Nat /\ snapshots <= MaxSnapshots /\ MaxSnapshots \in Nat
        /\ tmp \subseteq 1..snapshots /\ returned \subseteq 1..snapshots /\ file \in returned \cup {Missing}
    BY <1>3, ContinuityAssumption DEF SnapshotsInv, ContinuityBounds
  <2>2. \A s \in 1..snapshots : s \in 1..MaxSnapshots /\ s \in 0..MaxSnapshots
    BY <2>1
  <2>3. file \in 0..MaxSnapshots \cup {Missing, Partial} /\ tmp \subseteq 1..MaxSnapshots
    BY <2>1, <2>2
  <2>4. \A w \in Writers : writer[w].step \in {"idle", "created", "synced"}
    BY <1>3 DEF SnapshotsInv
  <2> QED
    BY <1>3, <2>3, <2>4 DEF ContinuityTypeOK, ContinuityBounds, SettledInv
<1> QED
  BY <1>1, <1>2, <1>3

(* A request is kept only for a watched path, and no path is ever          *)
(* unwatched (evaluate, watch).                                            *)
RecordsBounds ==
  /\ Len(chain) <= MaxEntries /\ stampNow \in 0..MaxStamp
  /\ pending \in Seq(watched) /\ WatchedPaths \subseteq watched
LEMMA RecordsBounded ==
  /\ RecordsInit => RecordsBounds
  /\ ChainInv /\ RecordsBounds /\ [RecordsNext]_recordVars => RecordsBounds'
  /\ IdentitiesInv /\ RecordsBounds => RecordsTypeOK
<1>1. RecordsInit => RecordsBounds
  BY RecordsAssumption DEF RecordsInit, RecordsBounds
<1>2. ASSUME ChainInv, RecordsBounds, [RecordsNext]_recordVars
      PROVE  RecordsBounds'
  <2>1. chain \in Seq(ToSet(chain)) /\ Len(chain) \in Nat /\ {MaxEntries, MaxStamp} \subseteq Nat
    BY <1>2, RecordsAssumption DEF ChainInv
  <2>2. /\ Len(chain) <= MaxEntries /\ stampNow \in 0..MaxStamp
        /\ pending \in Seq(watched) /\ WatchedPaths \subseteq watched
    BY <1>2 DEF RecordsBounds
  <2>3. ASSUME NEW a, NEW l, NEW ts, AppendEntry(a, l, ts)
        PROVE  RecordsBounds'
    <3>1. /\ Len(chain) < MaxEntries /\ UNCHANGED <<stampNow, watched, pending>>
          /\ \E e : chain' = Append(chain, e)
      BY <2>3 DEF AppendEntry
    <3>2. Len(chain') = Len(chain) + 1
      BY <2>1, <3>1
    <3> QED
      BY <2>1, <2>2, <3>1, <3>2 DEF RecordsBounds
  <2>4. ASSUME NEW p, EvaluateRewrite(p)
        PROVE  RecordsBounds'
    <3>1. /\ UNCHANGED <<chain, stampNow, watched>>
          /\ pending' = IF p \in watched THEN Append(pending, p) ELSE pending
      BY <2>4 DEF EvaluateRewrite
    <3>2. pending' \in Seq(watched)
      BY <2>2, <3>1
    <3> QED
      BY <2>2, <3>1, <3>2 DEF RecordsBounds
  <2>5. ASSUME NEW p, Watch(p)
        PROVE  RecordsBounds'
    <3>1. UNCHANGED <<chain, stampNow, pending>> /\ watched' = watched \cup {p}
      BY <2>5 DEF Watch
    <3>2. pending \in Seq(watched \cup {p})
      BY <2>2
    <3> QED
      BY <2>2, <3>1, <3>2 DEF RecordsBounds
  <2>6. CASE StampTick
    <3>1. stampNow' \in 0..MaxStamp /\ UNCHANGED <<chain, watched, pending>>
      BY <2>1, <2>2, <2>6 DEF StampTick
    <3> QED
      BY <2>2, <3>1 DEF RecordsBounds
  <2>7. IdentityNext \/ UNCHANGED recordVars => UNCHANGED <<chain, stampNow, watched, pending>>
    BY DEF IdentityNext, Fork, SetRoot, recordVars
  <2>8. UNCHANGED <<chain, stampNow, watched, pending>> => RecordsBounds'
    BY <2>2 DEF RecordsBounds
  <2> QED
    BY <1>2, <2>3, <2>4, <2>5, <2>6, <2>7, <2>8 DEF RecordsNext, ChainNext, RewriteNext
<1>3. ASSUME IdentitiesInv, RecordsBounds
      PROVE  RecordsTypeOK
  <2> DEFINE Identity == [root : Roots, lineage : Seq(Roots)]
  <2>1. identities \in Seq(Identity)
    BY <1>3 DEF IdentitiesInv
  <2>2. \A r \in Identity : r.root \in Roots /\ r.lineage \in Seq(Roots)
    OBVIOUS
  <2>3. \A i \in DOMAIN identities : identities[i] \in Identity
    <3> HIDE DEF Identity
    <3> QED
      BY <2>1
  <2>4. \A i \in DOMAIN identities : identities[i].root \in Roots /\ identities[i].lineage \in Seq(Roots)
    BY ONLY <2>2, <2>3
  <2>5. ToSet(pending) \subseteq watched
    <3>1. pending \in Seq(watched)
      BY <1>3 DEF RecordsBounds
    <3> QED
      BY <3>1 DEF ToSet
  <2> QED
    BY <1>3, <2>4, <2>5 DEF RecordsBounds, RecordsTypeOK
<1> QED
  BY <1>1, <1>2, <1>3

(* Scores and trust are clamped whenever they move, and neutral trust is   *)
(* approached, never passed (decay_all, decay_trust, recover_trust).       *)
Reputation == [score : 0..100, decided : Nat, escalated : Nat, updated : Nat]
Standing == [current : 0..20, suspected : BOOLEAN]
TrustBounds ==
  /\ now \in 0..MaxTrustTime /\ rewritten \subseteq TrustAgents
  /\ \A a \in DOMAIN score : score[a] \in Reputation /\ score[a].escalated <= score[a].decided
  /\ \A a \in DOMAIN trust : trust[a] \in Standing
  /\ Len(anomalies) <= StreamLimit

LEMMA PulledTowardsNeutral ==
  ASSUME NEW r \in Reputation, now \in Nat
  PROVE  Pull(r) \in Reputation /\ Pull(r).escalated = r.escalated /\ Pull(r).decided = r.decided
<1> DEFINE elapsed == now - r.updated
           share == IF elapsed >= 2 THEN 2 ELSE elapsed
           pulled == r.score + ((50 - r.score) * share) \div 2
<1>1. r.score \in 0..100 /\ r.updated \in Nat /\ r.escalated \in Nat /\ r.decided \in Nat
  BY DEF Reputation
<1>2. Pull(r) = IF elapsed <= 0 THEN r ELSE [r EXCEPT !.score = pulled, !.updated = now]
  BY DEF Pull
<1>3. elapsed > 0 => share \in {1, 2}
  BY <1>1
<1>4. ((50 - r.score) * 1) \div 2 = (50 - r.score) \div 2 /\ ((50 - r.score) * 2) \div 2 = 50 - r.score
  BY <1>1
<1>5. share \in {1, 2} => pulled \in 0..100
  <2> HIDE DEF share
  <2>1. CASE share = 1
    BY <1>1, <1>4, <2>1
  <2>2. CASE share = 2
    BY <1>1, <1>4, <2>2
  <2> QED
    BY <2>1, <2>2
<1> HIDE DEF elapsed, share, pulled
<1>6. CASE elapsed <= 0
  BY <1>2, <1>6
<1>7. CASE ~(elapsed <= 0)
  <2>1. elapsed \in Int
    BY <1>1 DEF elapsed
  <2>2. pulled \in 0..100
    BY <1>3, <1>5, <1>7, <2>1
  <2>3. Pull(r) = [r EXCEPT !.score = pulled, !.updated = now]
    BY <1>2, <1>7
  <2> QED
    BY <2>2, <2>3 DEF Reputation
<1> QED
  BY <1>6, <1>7

LEMMA TrustBounded ==
  /\ TrustInit => TrustBounds
  /\ SuspicionInv /\ TrustBounds /\ [TrustNext]_trustVars => TrustBounds'
  /\ LazyInv /\ TrustBounds => TrustTypeOK
<1> DEFINE Scores(s) == \A a \in DOMAIN s : s[a] \in Reputation /\ s[a].escalated <= s[a].decided
           Standings(t) == \A a \in DOMAIN t : t[a] \in Standing
<1>1. TrustInit => TrustBounds
  BY TrustAssumption DEF TrustInit, TrustBounds
<1>2. ASSUME SuspicionInv, TrustBounds, [TrustNext]_trustVars
      PROVE  TrustBounds'
  <2>1. /\ now \in 0..MaxTrustTime /\ rewritten \subseteq TrustAgents /\ Len(anomalies) <= StreamLimit
        /\ MaxTrustTime \in Nat /\ StreamLimit \in Nat \ {0} /\ anomalies \in Seq(Nat) /\ pushed \in Nat
        /\ now \in Nat
    BY <1>2, TrustAssumption DEF TrustBounds, SuspicionInv
  <2>2. Scores(score) /\ Standings(trust)
    BY <1>2 DEF TrustBounds
  <2>3. Scores(score')
    <3>1. ASSUME NEW a, NEW o \in DOMAIN Delta, Outcome(a, o)
          PROVE  Scores(score')
      <4> DEFINE r == ReputationOf(a)
                 moved == Limited(r.score + Delta[o], 0, 100)
                 more == r.escalated + (IF o \in {"AutoFailed", "UserOverrode"} THEN 1 ELSE 0)
                 new == [score |-> moved, decided |-> r.decided + 1, escalated |-> more, updated |-> now]
      <4>1. r \in Reputation /\ r.escalated <= r.decided
        BY <2>1, <2>2 DEF ReputationOf, NewReputation, Reputation
      <4>2. r.score \in 0..100 /\ r.escalated \in Nat /\ r.decided \in Nat
        BY <4>1 DEF Reputation
      <4> HIDE DEF r
      <4>3. Delta[o] \in Int
        BY DEF Delta
      <4>4. moved \in 0..100
        <5>1. \A x \in Int : Limited(x, 0, 100) \in 0..100
          BY DEF Limited
        <5>2. r.score + Delta[o] \in Int
          BY <4>2, <4>3
        <5> QED
          BY <5>1, <5>2
      <4>5. new \in Reputation /\ new.escalated <= new.decided
        <5> HIDE DEF moved
        <5> QED
          BY <2>1, <4>1, <4>2, <4>4 DEF Reputation
      <4>6. score' = Setting(score, a, new)
        BY <3>1 DEF Outcome, r
      <4> HIDE DEF new
      <4> QED
        BY <2>2, <4>5, <4>6 DEF Setting
    <3>2. CASE ReputationDecay
      <4>1. score' = [a \in DOMAIN score |-> Pull(score[a])]
        BY <3>2 DEF ReputationDecay
      <4>2. ASSUME NEW a \in DOMAIN score
            PROVE  score'[a] \in Reputation /\ score'[a].escalated <= score'[a].decided
        <5>1. score[a] \in Reputation /\ score[a].escalated <= score[a].decided
          BY <2>2
        <5>2. score'[a] = Pull(score[a])
          BY <4>1
        <5> QED
          BY <2>1, <5>1, <5>2, PulledTowardsNeutral
      <4> QED
        BY <4>1, <4>2
    <3>3. TemporalNext \/ StateNext \/ TrustTick \/ UNCHANGED trustVars => score' = score
      BY DEF TemporalNext, Reinforce, SetHalfLife, DecayAll, StateNext, SetTrustState, DecayTrust, RecoverTrust,
             PushAnomaly, TrustTick, trustVars
    <3> HIDE DEF Scores
    <3> QED
      BY <1>2, <2>2, <3>1, <3>2, <3>3 DEF TrustNext, ReputationNext
  <2>4. Standings(trust')
    <3>1. \A x \in Int : Limited(x, 0, 20) \in 0..20
      BY DEF Limited
    <3>2. ASSUME NEW a, NEW x \in {2, 5, 20}, SetTrustState(a, x)
          PROVE  Standings(trust')
      <4>1. trust' = Setting(trust, a, [current |-> x, suspected |-> FALSE])
        BY <3>2 DEF SetTrustState
      <4>2. [current |-> x, suspected |-> FALSE] \in Standing
        BY DEF Standing
      <4> QED
        BY <2>2, <4>1, <4>2 DEF Setting
    <3>3. ASSUME NEW a, NEW x \in {2, 5, 20}, DecayTrust(a, x)
          PROVE  Standings(trust')
      <4> DEFINE current == Limited(trust[a].current - x, 0, 20)
                 flag == trust[a].suspected \/ current < 4
      <4>1. a \in DOMAIN trust /\ trust' = [trust EXCEPT ![a] = [current |-> current, suspected |-> flag]]
        BY <3>3 DEF DecayTrust
      <4>2. current \in 0..20 /\ flag \in BOOLEAN
        BY <2>2, <3>1, <4>1 DEF Standing
      <4>3. [current |-> current, suspected |-> flag] \in Standing
        BY <4>2 DEF Standing
      <4> HIDE DEF current, flag
      <4> QED
        BY <2>2, <4>1, <4>3
    <3>4. ASSUME NEW a, NEW x \in {2, 5, 20}, RecoverTrust(a, x)
          PROVE  Standings(trust')
      <4> DEFINE new == [trust[a] EXCEPT !.current = Limited(trust[a].current + x, 0, 20)]
      <4>1. a \in DOMAIN trust /\ trust' = [trust EXCEPT ![a] = new]
        BY <3>4 DEF RecoverTrust
      <4>2. trust[a] \in Standing /\ trust[a].current + x \in Int
        BY <2>2, <4>1 DEF Standing
      <4>3. new \in Standing
        BY <3>1, <4>2 DEF Standing
      <4> HIDE DEF new
      <4> QED
        BY <2>2, <4>1, <4>3
    <3>5. PushAnomaly \/ TemporalNext \/ ReputationNext \/ TrustTick \/ UNCHANGED trustVars => trust' = trust
      BY DEF PushAnomaly, TemporalNext, Reinforce, SetHalfLife, DecayAll, ReputationNext, ReputationDecay, Outcome,
             TrustTick, trustVars, stateVars
    <3> HIDE DEF Standings
    <3> QED
      BY <1>2, <2>2, <3>2, <3>3, <3>4, <3>5 DEF TrustNext, StateNext
  <2>5. Len(anomalies') <= StreamLimit
    <3>1. CASE PushAnomaly
      <4> DEFINE stream == Append(anomalies, pushed')
      <4>1. pushed' \in Nat
        BY <2>1, <3>1 DEF PushAnomaly
      <4>2. stream \in Seq(Nat) /\ Len(stream) = Len(anomalies) + 1 /\ stream # <<>> /\ Len(anomalies) \in Nat
        BY <2>1, <4>1
      <4>3. anomalies' = IF Len(stream) > StreamLimit THEN Tail(stream) ELSE stream
        BY <3>1 DEF PushAnomaly
      <4> HIDE DEF stream
      <4>4. Len(Tail(stream)) = Len(stream) - 1
        BY <4>2
      <4> QED
        BY <2>1, <4>2, <4>3, <4>4
    <3>2. ~PushAnomaly => anomalies' = anomalies
      BY <1>2 DEF TrustNext, StateNext, SetTrustState, DecayTrust, RecoverTrust, TemporalNext, Reinforce, SetHalfLife,
                  DecayAll, ReputationNext, ReputationDecay, Outcome, TrustTick, trustVars, stateVars
    <3> QED
      BY <2>1, <3>1, <3>2
  <2>6. now' \in 0..MaxTrustTime
    <3>1. CASE TrustTick
      BY <2>1, <3>1 DEF TrustTick
    <3>2. ~TrustTick => now' = now
      BY <1>2 DEF TrustNext, StateNext, SetTrustState, DecayTrust, RecoverTrust, PushAnomaly, TemporalNext, Reinforce,
                  SetHalfLife, DecayAll, ReputationNext, ReputationDecay, Outcome, trustVars
    <3> QED
      BY <2>1, <3>1, <3>2
  <2>7. rewritten' \subseteq TrustAgents
    <3>1. \A a \in TrustAgents : \A h : SetHalfLife(a, h) => rewritten' \subseteq TrustAgents
      BY <2>1 DEF SetHalfLife
    <3>2. ASSUME ~\E a \in TrustAgents : \E h \in {2, 4} : SetHalfLife(a, h)
          PROVE  rewritten' = rewritten
      BY <1>2, <3>2 DEF TrustNext, StateNext, SetTrustState, DecayTrust, RecoverTrust, PushAnomaly, TemporalNext,
                        Reinforce, DecayAll, ReputationNext, ReputationDecay, Outcome, TrustTick, trustVars, temporalVars
    <3> QED
      BY <2>1, <3>1, <3>2
  <2> QED
    BY <2>3, <2>4, <2>5, <2>6, <2>7 DEF TrustBounds
<1>3. ASSUME LazyInv, TrustBounds
      PROVE  TrustTypeOK
  <2>1. \A a \in DOMAIN earned : earned[a] \in TrustEntry /\ earned[a].since <= now
    BY <1>3 DEF LazyInv
  <2>2. \A a \in DOMAIN earned : earned[a].earned \in Int /\ earned[a].since \in 0..now
    BY <1>3, <2>1 DEF TrustEntry, LazyInv
  <2>3. \A a \in DOMAIN score : score[a].score \in 0..100 /\ score[a].escalated <= score[a].decided
    BY <1>3 DEF TrustBounds, Reputation
  <2>4. \A a \in DOMAIN trust : trust[a].current \in 0..20
    BY <1>3 DEF TrustBounds, Standing
  <2> QED
    BY <1>3, <2>2, <2>3, <2>4 DEF TrustBounds, TrustTypeOK
<1> QED
  BY <1>1, <1>2, <1>3

(* Every variable of HAL's components keeps to its type: scores and trust  *)
(* to their ranges, windows, streams and recovery points to their limits,  *)
(* depths to the limit of recursion, for any agents, classes and bounds.   *)
THEOREM HalTypes == Spec => []HalTypeOK
<1> DEFINE Held == /\ CalInv /\ CacheInv /\ LazyInv /\ SuspicionInv /\ ActivityInv
                   /\ BudgetInv /\ DepthInv /\ PoliciesInv /\ ChangesInv
                   /\ SnapshotsInv /\ SettledInv /\ PointsInv /\ ChainInv /\ IdentitiesInv /\ GuardsInv
           Bound == /\ calUp \in BOOLEAN /\ PreloadTypeOK /\ AssessTypeOK /\ DepthBounds
                    /\ installs <= Cardinality(PolicyIds) /\ ContinuityBounds /\ RecordsBounds /\ TrustBounds
<1>1. Init => Held /\ Bound
  BY CalInitial, CacheInitial, LazyInitial, SuspicionInitial, ActivityInitial, PrivilegesInitial, GovernanceInitial,
     ContinuityInitial, RecordsInitial, GuardsInitial, PreloadInitial, WindowsBounded, CalTyped, DepthBounded,
     InstallsBounded, ContinuityBounded, RecordsBounded, TrustBounded DEF Init
<1>2. Held /\ Bound /\ [Next]_vars => Held' /\ Bound'
  <2> SUFFICES ASSUME Held, Bound, [Next]_vars PROVE Held' /\ Bound'
    OBVIOUS
  <2>1. /\ [CalNext]_calVars /\ [CacheNext]_cacheVars /\ [PreloadNext]_preloadVars
        /\ [AssessNext]_assessVars /\ [TrustNext]_trustVars /\ [ActivityNext]_activityVars
        /\ [PrivilegeNext]_privilegeVars /\ [GovernanceNext]_governanceVars
        /\ [ContinuityNext]_continuityVars /\ [RecordsNext]_recordVars /\ [GuardsNext]_guardsVars
    BY OneDriven
  <2>2. (CalInv /\ CacheInv /\ LazyInv /\ SuspicionInv /\ ActivityInv)'
    BY <2>1, CalStep, CacheStep, LazyStep, SuspicionStep, ActivityStep
  <2>3. (BudgetInv /\ DepthInv /\ PoliciesInv /\ ChangesInv)'
    BY <2>1, BudgetStep, DepthStep, PoliciesStep, ChangesStep
  <2>4. (SnapshotsInv /\ SettledInv /\ PointsInv /\ ChainInv /\ IdentitiesInv /\ GuardsInv)'
    BY <2>1, SnapshotsStep, SettledStep, PointsStep, ChainStep, IdentitiesStep, GuardsStep
  <2>5. (calUp \in BOOLEAN)' /\ PreloadTypeOK' /\ AssessTypeOK' /\ DepthBounds'
    BY <2>1, CalTyped, PreloadStep, WindowsBounded, DepthBounded
  <2>6. (installs <= Cardinality(PolicyIds))' /\ ContinuityBounds' /\ RecordsBounds' /\ TrustBounds'
    BY <2>1, InstallsBounded, ContinuityBounded, RecordsBounded, TrustBounded
  <2> QED
    BY <2>2, <2>3, <2>4, <2>5, <2>6
<1>3. Held /\ Bound => HalTypeOK
  <2> SUFFICES ASSUME Held, Bound PROVE HalTypeOK
    OBVIOUS
  <2>1. CalTypeOK /\ CacheTypeOK /\ PreloadTypeOK /\ AssessTypeOK /\ TrustTypeOK /\ ActivityTypeOK
    BY CalTyped, TrustBounded DEF CacheInv, ActivityInv
  <2>2. PrivilegeTypeOK /\ GovernanceTypeOK /\ ContinuityTypeOK /\ RecordsTypeOK /\ GuardsTypeOK
    BY DepthBounded, InstallsBounded, ContinuityBounded, RecordsBounded DEF GuardsInv, GuardsTypeOK
  <2> QED
    BY <2>1, <2>2 DEF HalTypeOK
<1> QED
  BY <1>1, <1>2, <1>3, PTL DEF Spec
===============================================================================
