----------------------------- MODULE TrustRecords -----------------------------
(***************************************************************************)
(* What HAL remembers about how far an agent is trusted:                   *)
(*   TemporalTrust (temporal_trust.rs): earned trust that halves with      *)
(*     time, computed when it is read;                                     *)
(*   ReputationEngine (reputation_engine.rs): outcomes move a score, time  *)
(*     pulls it back to neutral;                                           *)
(*   RuntimeState (runtime_state.rs): the trust map, with its suspicion    *)
(*     flag, and the bounded streams of anomalies and audit events.        *)
(* Time is in ticks; halving once per tick is the default half-life.       *)
(***************************************************************************)
EXTENDS Integers, Sequences, FiniteSets, SequencesExt

CONSTANTS
  TrustAgents,
  TrustDeltas,   \* reinforcements, multiples of 4^MaxTrustTime
  MaxTrustTime,  \* bound: the clock
  MaxReinforced, \* bound: reinforcements and outcomes per agent
  StreamLimit    \* 5000 anomalies, 10000 audit events, scaled down

ASSUME TrustAssumption ==
  MaxTrustTime \in Nat /\ StreamLimit \in Nat \ {0} /\ MaxReinforced \in Nat /\ TrustDeltas \subseteq Int

Neutral == 5 * 4^MaxTrustTime
Limited(x, lo, hi) == IF x < lo THEN lo ELSE IF x > hi THEN hi ELSE x

VARIABLES
  now,
  earned,     \* TemporalTrust: agent -> [earned, since, halving], tracked agents only
  eager,      \* what the earned trust would be, were it halved at every tick
  rewritten,  \* agents whose half-life changed after their trust had begun to decay
  score,      \* ReputationEngine: agent -> [score, decided, escalated, updated]
  trust,      \* RuntimeState.trust_map: agent -> [current, suspected]
  low,        \* agents whose trust has decayed below 0.20 since it was last set
  anomalies,  \* RuntimeState.anomaly_stream
  pushed      \* anomalies pushed so far
trustVars == <<now, earned, eager, rewritten, score, trust, low, anomalies, pushed>>
temporalVars == <<earned, eager, rewritten>>
stateVars == <<trust, low, anomalies, pushed>>

TrustInit ==
  /\ now = 0 /\ earned = <<>> /\ eager = [a \in TrustAgents |-> 0] /\ rewritten = {}
  /\ score = <<>> /\ trust = <<>> /\ low = {} /\ anomalies = <<>> /\ pushed = 0

Setting(f, k, v) == [x \in DOMAIN f \cup {k} |-> IF x = k THEN v ELSE f[x]]

-------------------------------------------------------------------------------
(* Temporal trust.                                                         *)
Power(b, n) == LET power[i \in 0..n] == IF i = 0 THEN 1 ELSE b * power[i - 1] IN power[n]
Fresh == [earned |-> 0, since |-> now, halving |-> 2, reinforced |-> 0]
EntryOf(a) == IF a \in DOMAIN earned THEN earned[a] ELSE Fresh
DecayedEarnedOnce(a) == LET e == EntryOf(a) IN IF now > e.since THEN e.earned \div e.halving ELSE e.earned
DecayedEarned(a) == LET e == EntryOf(a) IN e.earned \div Power(e.halving, now - e.since)
TrustAt(a) == Limited(Neutral + DecayedEarned(a), 0, 2 * Neutral)

Reinforce(a, delta) ==
  LET e == EntryOf(a) IN
  /\ e.reinforced < MaxReinforced
  /\ earned' = Setting(earned, a, [e EXCEPT !.earned = DecayedEarned(a) + delta, !.since = now,
                                         !.reinforced = @ + 1])
  /\ eager' = [eager EXCEPT ![a] = @ + delta]
  /\ UNCHANGED <<now, rewritten, score, stateVars>>

SetHalfLife(a, halving) ==
  /\ earned' = Setting(earned, a, [EntryOf(a) EXCEPT !.halving = halving])
  /\ rewritten' = IF EntryOf(a).since < now /\ EntryOf(a).halving # halving
                  THEN rewritten \cup {a} ELSE rewritten
  /\ UNCHANGED <<now, eager, score, stateVars>>

\* decay_all: entries that have become neutral are dropped, half-life included.
DecayAll ==
  /\ earned' = [a \in {x \in DOMAIN earned : DecayedEarned(x) # 0} |-> earned[a]]
  /\ UNCHANGED <<now, eager, rewritten, score, stateVars>>

-------------------------------------------------------------------------------
(* Reputation, in hundredths.  Neutral is 50.                              *)
Delta == [Approved |-> 2, Rejected |-> -5, AutoSucceeded |-> 1, AutoFailed |-> -10, UserOverrode |-> -15]
NewReputation == [score |-> 50, decided |-> 0, escalated |-> 0, updated |-> now]
ReputationOf(a) == IF a \in DOMAIN score THEN score[a] ELSE NewReputation

Outcome(a, o) ==
  LET r == ReputationOf(a) IN
  /\ r.decided < MaxReinforced
  /\ score' = Setting(score, a, [score |-> Limited(r.score + Delta[o], 0, 100), decided |-> r.decided + 1,
       escalated |-> r.escalated + (IF o \in {"AutoFailed", "UserOverrode"} THEN 1 ELSE 0), updated |-> now])
  /\ UNCHANGED <<now, temporalVars, stateVars>>

\* decay_all: a tick is ten hours, and 5 % per hour of the distance to neutral
\* goes, at most all of it.
Pull(r) ==
  LET elapsed == now - r.updated
      share == IF elapsed >= 2 THEN 2 ELSE elapsed IN
  IF elapsed <= 0 THEN r ELSE [r EXCEPT !.score = @ + ((50 - @) * share) \div 2, !.updated = now]
ReputationDecay ==
  /\ score' = [a \in DOMAIN score |-> Pull(score[a])]
  /\ UNCHANGED <<now, temporalVars, stateVars>>

-------------------------------------------------------------------------------
(* Runtime state, in twentieths.  Suspicion starts below 4.                *)
SetTrustState(a, current) ==
  /\ trust' = Setting(trust, a, [current |-> current, suspected |-> FALSE]) /\ low' = low \ {a}
  /\ UNCHANGED <<now, temporalVars, score, anomalies, pushed>>
DecayTrust(a, amount) ==
  /\ a \in DOMAIN trust
  /\ LET current == Limited(trust[a].current - amount, 0, 20) IN
     /\ trust' = [trust EXCEPT ![a] = [current |-> current, suspected |-> @.suspected \/ current < 4]]
     /\ low' = IF current < 4 THEN low \cup {a} ELSE low
  /\ UNCHANGED <<now, temporalVars, score, anomalies, pushed>>
RecoverTrustClears(a, amount) ==
  /\ a \in DOMAIN trust
  /\ trust' = [trust EXCEPT ![a] = [current |-> Limited(@.current + amount, 0, 20),
                                    suspected |-> @.current + amount < 4]]
  /\ UNCHANGED <<now, temporalVars, score, low, anomalies, pushed>>
RecoverTrust(a, amount) ==
  /\ a \in DOMAIN trust
  /\ trust' = [trust EXCEPT ![a].current = Limited(@ + amount, 0, 20)]
  /\ UNCHANGED <<now, temporalVars, score, low, anomalies, pushed>>
CompromisedAgents == {a \in DOMAIN trust : trust[a].suspected}

PushAnomalyFull ==
  /\ pushed < StreamLimit + 2 /\ pushed' = pushed + 1 /\ anomalies' = Append(anomalies, pushed')
  /\ UNCHANGED <<now, temporalVars, score, trust, low>>
PushAnomaly ==
  /\ pushed < StreamLimit + 2 /\ pushed' = pushed + 1
  /\ LET stream == Append(anomalies, pushed') IN
     anomalies' = IF Len(stream) > StreamLimit THEN Tail(stream) ELSE stream
  /\ UNCHANGED <<now, temporalVars, score, trust, low>>

-------------------------------------------------------------------------------
TrustTick ==
  /\ now < MaxTrustTime /\ now' = now + 1
  /\ eager' = [a \in TrustAgents |-> eager[a] \div EntryOf(a).halving]
  /\ UNCHANGED <<earned, rewritten, score, stateVars>>

\* The three records share no state: a behaviour drives one of them.
TemporalNext ==
  \/ \E a \in TrustAgents : \/ \E d \in TrustDeltas : Reinforce(a, d)
                            \/ \E h \in {2, 4} : SetHalfLife(a, h)
  \/ DecayAll
ReputationNext == ReputationDecay \/ \E a \in TrustAgents, o \in DOMAIN Delta : Outcome(a, o)
StateNext ==
  \/ \E a \in TrustAgents, x \in {2, 5, 20} : SetTrustState(a, x) \/ DecayTrust(a, x) \/ RecoverTrust(a, x)
  \/ PushAnomaly
TrustNext ==
  \/ score = <<>> /\ trust = <<>> /\ pushed = 0 /\ TemporalNext
  \/ earned = <<>> /\ trust = <<>> /\ pushed = 0 /\ ReputationNext
  \/ earned = <<>> /\ score = <<>> /\ now = 0 /\ StateNext
  \/ TrustTick

TrustTypeOK ==
  /\ now \in 0..MaxTrustTime /\ rewritten \subseteq TrustAgents
  /\ \A a \in DOMAIN earned : earned[a].earned \in Int /\ earned[a].since \in 0..now
  /\ \A a \in DOMAIN score : score[a].score \in 0..100 /\ score[a].escalated <= score[a].decided
  /\ \A a \in DOMAIN trust : trust[a].current \in 0..20
  /\ Len(anomalies) <= StreamLimit

(***************************************************************************)
(* Reading decayed trust lazily gives what decaying it at every tick would *)
(* have given, however reads, reinforcements, prunings and ticks           *)
(* interleave - unless a half-life was changed while trust was decaying,   *)
(* which the code applies to the past as well (trust_at, reinforce,        *)
(* decay_all, set_half_life).                                              *)
(***************************************************************************)
LazyTrustExact ==
  \A a \in TrustAgents \ rewritten : TrustAt(a) = Limited(Neutral + eager[a], 0, 2 * Neutral)

(***************************************************************************)
(* The anomaly stream holds the latest anomalies in order, and an agent    *)
(* whose trust once decayed below 0.20 stays suspected through every       *)
(* recovery until a new trust state is set (decay_trust, recover_trust).   *)
(***************************************************************************)
SuspicionKept ==
  /\ low = CompromisedAgents
  /\ anomalies = [i \in 1..Len(anomalies) |-> pushed - Len(anomalies) + i]

\* Inductive: what LazyTrustExact says, before the trust is clamped.
TrustEntry == [earned : Int, since : Nat, halving : {2, 4}, reinforced : Nat]
LazyInv ==
  /\ now \in Nat /\ eager \in [TrustAgents -> Int]
  /\ \A a \in DOMAIN earned : earned[a] \in TrustEntry /\ earned[a].since <= now
  /\ \A a \in TrustAgents \ rewritten : eager[a] = DecayedEarned(a)

\* Inductive: what SuspicionKept says, with the stream's places spelt out.
SuspicionInv ==
  /\ low = CompromisedAgents
  /\ anomalies \in Seq(Nat) /\ pushed \in Nat /\ Len(anomalies) <= pushed
  /\ \A i \in 1..Len(anomalies) : anomalies[i] = pushed - Len(anomalies) + i
================================================================================
