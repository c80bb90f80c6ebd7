------------------------------ MODULE VerdictMemo ------------------------------
(***************************************************************************)
(* What HAL promises of its verdict cache (authority_compressor.rs), said  *)
(* without a cache: the latest verdict of every reversible request since   *)
(* the last invalidation is known, and a caller gets that one, if it is    *)
(* not older than the time to live, or nothing.  What a bounded cache may  *)
(* forget only turns answers into misses.                                  *)
(***************************************************************************)
EXTENDS Integers

CONSTANTS CacheKeys, CacheVerdicts, CacheTTL, MaxCacheTime
VARIABLES
  memo,   \* digest -> the verdict stored last
  now,
  answer  \* the outcome of the last question

MemoInit == memo = <<>> /\ now = 0 /\ answer = [hit |-> FALSE]

\* A verdict reached for an irreversible action is never remembered.
Remember(k, irreversible, v) ==
  /\ v.issued <= now
  /\ memo' = IF irreversible THEN memo
             ELSE [x \in DOMAIN memo \cup {k} |-> IF x = k THEN v ELSE memo[x]]
  /\ UNCHANGED <<now, answer>>

Miss == answer' = [hit |-> FALSE] /\ UNCHANGED <<memo, now>>

Serve(k) ==
  /\ k \in DOMAIN memo /\ now - memo[k].issued <= CacheTTL
  /\ answer' = [hit |-> TRUE, key |-> k, irreversible |-> FALSE, verdict |-> memo[k], at |-> now]
  /\ UNCHANGED <<memo, now>>

Forget == memo' = <<>> /\ UNCHANGED <<now, answer>>

Tick == now < MaxCacheTime /\ now' = now + 1 /\ UNCHANGED <<memo, answer>>

MemoNext ==
  \/ \E k \in CacheKeys, irreversible \in BOOLEAN, v \in [says : CacheVerdicts, issued : 0..MaxCacheTime] :
       Remember(k, irreversible, v)
  \/ Miss \/ Forget \/ Tick \/ \E k \in CacheKeys : Serve(k)

MemoSpec == MemoInit /\ [][MemoNext]_<<memo, now, answer>>
================================================================================
