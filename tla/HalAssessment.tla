---------------------------- MODULE HalAssessment ----------------------------
(***************************************************************************)
(* HAL's record of what agents did and the verdicts that follow from it:   *)
(*   BehavioralModel (behavioral_model.rs), a window of observations;      *)
(*   PolicyEngine over the metrics of that window (policy_engine.rs);      *)
(*   single scorings of the two scorers and single calls of the deciders.  *)
(***************************************************************************)
EXTENDS Integers, FiniteSets, Sequences, SequencesExt

-------------------------------------------------------------------------------
(***************************************************************************)
(* HAL's scorers and deciders, as operators:                               *)
(*   risk_scorer.rs and score_fusion.rs, two scorers of the same formula;  *)
(*   risk_weights.rs, confidence_engine.rs and session_context.rs, the     *)
(*   risk and the confidence of a request;                                 *)
(*   action_validator.rs, policy_engine.rs and confidence_engine.rs, three *)
(*   deciders over a risk, a confidence and the rules that were violated.  *)
(* Numbers are fixed point: a score of the code is a number of hundredths, *)
(* a weighted sum of ten-thousandths.  All literals of the code are exact  *)
(* in them; what f32 rounding adds is left out.                            *)
(***************************************************************************)

Clamp(x, lo, hi) == IF x < lo THEN lo ELSE IF x > hi THEN hi ELSE x
Unit == 100

-------------------------------------------------------------------------------
(* The seven component scores of risk_scorer.rs, in hundredths.            *)
Irreversibility == [FullyReversible |-> 0, ReversibleWithEffort |-> 30, HardToReverse |-> 70, Irreversible |-> 100]
Scope == [SingleFileUserHome |-> 0, MultipleFileSingleDir |-> 30, SystemWide |-> 70, KernelLevel |-> 100]
TrustContext == [KnownTrusted |-> 0, KnownAnomalous |-> 40, NewApp |-> 70, Unknown |-> 100]
TimeAnomaly == [Normal |-> 0, UnusualHour |-> 50, UnusualTimeAndScope |-> 100]
VibeFlag == [None |-> 0, AiGeneratedUnreviewed |-> 80, AiGeneratedKernelAdjacent |-> 100]
UserHistory == [Never |-> 0, Rare |-> 30, Frequent |-> 70, Routine |-> 100]
PatternMatch == [NoMatch |-> 0, PartialMatch |-> 50, ExactMatch |-> 100]

ProposedAction ==
  [irreversibility : DOMAIN Irreversibility, scope : DOMAIN Scope, trust : DOMAIN TrustContext,
   time : DOMAIN TimeAnomaly, vibe : DOMAIN VibeFlag, history : DOMAIN UserHistory,
   pattern : DOMAIN PatternMatch, kernel : BOOLEAN, delete : BOOLEAN]

\* The weighted sum both scorers compute, clamped to 0..1 (in ten-thousandths).
RawScore(a) ==
  Clamp(25 * Irreversibility[a.irreversibility] + 20 * Scope[a.scope] + 20 * TrustContext[a.trust]
        + 10 * TimeAnomaly[a.time] + 10 * VibeFlag[a.vibe]
        - 10 * UserHistory[a.history] - 5 * PatternMatch[a.pattern], 0, 10000)

RiskLevelUpTo(score) ==
  IF score <= 3000 THEN "Silent" ELSE IF score <= 6000 THEN "Notify"
  ELSE IF score <= 8000 THEN "Confirm" ELSE "Block"
\* RiskLevel::from_score: a score on a border belongs to the band above it.
RiskLevelOf(score) ==
  IF score < 3000 THEN "Silent" ELSE IF score < 6000 THEN "Notify"
  ELSE IF score < 8000 THEN "Confirm" ELSE "Block"

AtLeast(x, floor, applies) == IF applies /\ x < floor THEN floor ELSE x

ScoreActionElse(a) ==
  LET ai == a.vibe # "None"
      kernel == a.kernel \/ a.scope = "KernelLevel" IN
  IF a.delete THEN AtLeast(RawScore(a), 5000, TRUE)
  ELSE AtLeast(AtLeast(RawScore(a), 7000, kernel), 8000, ai)
\* score_action: three floors in ascending order.
ScoreAction(a) ==
  LET ai == a.vibe # "None"
      kernel == a.kernel \/ a.scope = "KernelLevel" IN
  AtLeast(AtLeast(AtLeast(RawScore(a), 5000, a.delete), 7000, kernel), 8000, ai)

\* HardFloorAction::triggers and apply_hard_floors: the floors of all triggers.
HardFloorTriggers(a) ==
  {t \in {"IrreversibleKernel", "AiUnreviewed", "KernelAdjacent", "Delete"} :
     CASE t = "IrreversibleKernel" -> a.irreversibility = "Irreversible" /\ a.kernel
       [] t = "AiUnreviewed" -> a.vibe # "None"
       [] t = "KernelAdjacent" -> a.kernel
       [] t = "Delete" -> a.delete}
FloorOf == [Delete |-> 5000, KernelAdjacent |-> 7000, AiUnreviewed |-> 8000, IrreversibleKernel |-> 10000]
Fuse(a) ==
  LET floors == {FloorOf[t] : t \in HardFloorTriggers(a)} \cup {RawScore(a)} IN
  CHOOSE x \in floors : \A y \in floors : y <= x

-------------------------------------------------------------------------------
(* The risk and the confidence of a request, in ten-thousandths.           *)
SeverityScore == [Low |-> 10, Moderate |-> 35, High |-> 70, Critical |-> 100]
SyscallScore == [Safe |-> 5, Sensitive |-> 40, Dangerous |-> 80, Irreversible |-> 100]

\* compute_risk
ComputeRisk(v) ==
  Clamp(22 * v.intent + 20 * v.syscall + 18 * v.trustDeficit + 15 * v.anomaly
        + 10 * v.volatility - 8 * v.userConfidence - 7 * v.provenance, 0, 10000)

ProvenanceComponent(p) ==
  (IF p.signed THEN 50 ELSE 0) + (IF p.replayChecked THEN 25 ELSE 0) + (IF p.chained THEN 25 ELSE 0)

BehavioralComponent(b) ==
  Clamp(100 * b.stability - 40 * b.anomaly - 30 * b.volatility - 500 * b.escalations, 0, 10000)

SessionComponent(s) ==
  Clamp(10000 - (IF s.present THEN 0 ELSE 4500) - (IF s.confirm THEN 2000 ELSE 0)
        - 35 * (Unit - s.attention), 0, 10000)

\* compute_confidence
ComputeConfidence(trust, p, b, s) ==
  Clamp(40 * trust + 30 * ProvenanceComponent(p)
        + (20 * BehavioralComponent(b)) \div 100 + (10 * SessionComponent(s)) \div 100, 0, 10000)

\* SessionEngine: the attention score, and the sessions it builds.
AttentionScore(idle, focused, fullscreen) ==
  Clamp(100 - (IF idle \in {"minute", "five minutes"} THEN 35 ELSE 0)
        - (IF idle = "five minutes" THEN 45 ELSE 0) - (IF focused THEN 0 ELSE 15)
        + (IF fullscreen THEN 5 ELSE 0), 0, 100)
ActiveSession == [present |-> TRUE, confirm |-> FALSE, attention |-> 100]
UnattendedSession == [present |-> FALSE, confirm |-> TRUE, attention |-> 0]
RequireConfirmation(s, risk) == ~s.present \/ s.attention < 35 \/ risk > 6500

-------------------------------------------------------------------------------
(* The deciders.  Risks and confidences are in ten-thousandths.            *)
Decision == {"Allow", "Notify", "Confirm", "Block", "Escalate"}
ValidatorRules == {"dangerous_path_access", "raw_shell_execution", "privilege_escalation",
                   "destructive_pattern", "suspicious_network", "irreversible_action"}
PolicyRules == {"risk_boundary_exceeded", "irreversible_action_locked", "user_presence_required",
                "multi_factor_requirement", "behavioral_anomaly", "repeated_escalation"}

\* final_decision
ValidatorDecision(violations, risk, confidence) ==
  IF "destructive_pattern" \in violations THEN "Block"
  ELSE IF "privilege_escalation" \in violations THEN "Escalate"
  ELSE IF risk > 9000 \/ confidence < 2500 THEN "Block"
  ELSE IF risk > 7000 THEN "Confirm"
  ELSE IF violations # {} THEN "Notify" ELSE "Allow"

PolicyDecisionNotify(violations, risk, confidence) ==
  IF "irreversible_action_locked" \in violations THEN "Block"
  ELSE IF violations \cap {"behavioral_anomaly", "repeated_escalation"} # {} THEN "Escalate"
  ELSE IF violations # {} THEN "Notify"
  ELSE IF risk > 9500 \/ confidence < 2000 THEN "Block"
  ELSE IF risk > 7000 THEN "Confirm" ELSE "Allow"
\* policy_decision
PolicyDecision(violations, risk, confidence) ==
  IF "irreversible_action_locked" \in violations THEN "Block"
  ELSE IF violations \cap {"behavioral_anomaly", "repeated_escalation"} # {} THEN "Escalate"
  ELSE IF risk > 9500 \/ confidence < 2000 THEN "Block"
  ELSE IF risk > 7000 THEN "Confirm"
  ELSE IF violations # {} THEN "Notify" ELSE "Allow"

\* decision_from_confidence
ConfidenceDecision(risk, confidence) ==
  IF risk > 9000 \/ confidence < 2000 THEN "Block"
  ELSE IF risk > 7000 THEN "Confirm"
  ELSE IF confidence < 4500 THEN "Notify" ELSE "Allow"

Decide(by, violations, risk, confidence) ==
  CASE by = "validator" -> ValidatorDecision(violations, risk, confidence)
    [] by = "policy" -> PolicyDecision(violations, risk, confidence)
    [] by = "confidence" -> ConfidenceDecision(risk, confidence)
RulesOf(by) == CASE by = "validator" -> ValidatorRules
                 [] by = "policy" -> PolicyRules [] by = "confidence" -> {}

\* PolicyEngine::evaluate: the rules a request violates.
PolicyViolations(c, risk, confidence, b) ==
  {r \in PolicyRules :
     CASE r = "risk_boundary_exceeded" -> risk > b.maximumAllowedRisk
       [] r = "irreversible_action_locked" ->
            b.irreversibleLock /\ (c.severity = "Critical" \/ c.syscall = "Irreversible")
       [] r = "user_presence_required" -> b.requirePresence /\ ~c.session.present
       [] r = "multi_factor_requirement" -> b.requireMultiFactor /\ confidence < 9200
       [] r = "behavioral_anomaly" -> c.behavioral.anomaly > 85
       [] r = "repeated_escalation" -> c.behavioral.escalations > 3}

\* requires_user_prompt and escalation_required of the three results.
PromptNeeded(by, decision, risk, confidence) ==
  IF by = "confidence" THEN confidence < 5500 \/ risk > 6500 ELSE decision = "Confirm"
EscalationNeeded(decision) == decision \in {"Escalate", "Block"}

\* How much a decision restrains: Block and Escalate both stop the action.
Restraint == [Allow |-> 0, Notify |-> 1, Confirm |-> 2, Escalate |-> 3, Block |-> 3]

-------------------------------------------------------------------------------

CONSTANTS
  AssessAgents,
  Observations, \* [action, succeeded, escalation, hour], as the model stores them
  WindowSize, RecentSize, \* WINDOW and RECENT, scaled down
  Risks, Confidences,     \* the risks and confidences the deciders are asked about
  ScoredActions           \* the actions the scorers are asked about

ASSUME AssessAssumption ==
  /\ {WindowSize, RecentSize} \subseteq Nat /\ WindowSize > 0
  /\ Risks \cup Confidences \subseteq 0..10000 /\ ScoredActions \subseteq ProposedAction

VARIABLES
  history,   \* per agent: the window of observations
  assessed   \* the last verdict, with what it was asked for
assessVars == <<history, assessed>>

Unasked == [by |-> "nobody"]
AssessInit == history = [a \in AssessAgents |-> <<>>] /\ assessed = Unasked

\* observe: a full window drops its oldest observation.
ObserveAction(a, o) ==
  /\ history' = [history EXCEPT ![a] = Append(IF Len(@) >= WindowSize THEN Tail(@) ELSE @, o)]
  /\ UNCHANGED assessed

\* metrics, in hundredths; an agent without history gets neutral ones.
RecentStart(h) == IF Len(h) > RecentSize THEN Len(h) - RecentSize ELSE 0
Novelty(h) ==
  LET start == RecentStart(h)
      known == {h[i].action : i \in 1..start}
      novel == {i \in (start + 1)..Len(h) : h[i].action \notin known} IN
  IF start = 0 THEN 50 ELSE (100 * Cardinality(novel)) \div (Len(h) - start)
Volatility(h) ==
  IF Len(h) < 2 THEN 0
  ELSE (100 * Cardinality({i \in 1..(Len(h) - 1) : h[i].succeeded # h[i + 1].succeeded})) \div (Len(h) - 1)
MetricsRecent(a) ==
  LET h == history[a] IN
  IF h = <<>> THEN [anomaly |-> 50, volatility |-> 50, escalations |-> 0, stability |-> 50]
  ELSE [anomaly |-> Novelty(h), volatility |-> Volatility(h),
        escalations |-> Cardinality({i \in (RecentStart(h) + 1)..Len(h) : h[i].escalation}),
        stability |-> (100 * Cardinality({i \in DOMAIN h : h[i].succeeded})) \div Len(h)]
Metrics(a) ==
  LET h == history[a] IN
  IF h = <<>> THEN [anomaly |-> 50, volatility |-> 50, escalations |-> 0, stability |-> 50]
  ELSE [anomaly |-> Novelty(h), volatility |-> Volatility(h),
        escalations |-> Cardinality({i \in DOMAIN h : h[i].escalation}),
        stability |-> (100 * Cardinality({i \in DOMAIN h : h[i].succeeded})) \div Len(h)]

\* PolicyEngine::evaluate on a HALContext that a caller has filled by asking the
\* engines in turn: metrics, confidence, risk.  No function of the crate does all
\* of it; the context's fields say which engine each of them comes from.
Bounds == [maximumAllowedRisk |-> 6000, irreversibleLock |-> TRUE,
           requirePresence |-> TRUE, requireMultiFactor |-> FALSE]
EvaluateRequest(a, severity, syscall, session) ==
  LET b == Metrics(a)
      proof == [signed |-> TRUE, replayChecked |-> TRUE, chained |-> TRUE]
      confidence == ComputeConfidence(70, proof, b, session)
      risk == ComputeRisk([intent |-> SeverityScore[severity], syscall |-> SyscallScore[syscall],
                           trustDeficit |-> 30, anomaly |-> b.anomaly, volatility |-> b.volatility,
                           userConfidence |-> 0, provenance |-> ProvenanceComponent(proof)])
      context == [severity |-> severity, syscall |-> syscall, session |-> session, behavioral |-> b]
      violated == PolicyViolations(context, risk, confidence, Bounds) IN
  /\ assessed' = [by |-> "request", agent |-> a, session |-> session, context |-> context,
                  violations |-> violated, decision |-> PolicyDecision(violated, risk, confidence)]
  /\ UNCHANGED history

\* One call of one decider, and one scoring by each scorer.
Ask(by, violations, risk, confidence) ==
  /\ assessed' = [by |-> by, violations |-> violations, risk |-> risk, confidence |-> confidence,
                  decision |-> Decide(by, violations, risk, confidence)]
  /\ UNCHANGED history
ScoreBoth(a) ==
  /\ assessed' = [by |-> "scorers", action |-> a, scored |-> ScoreAction(a), fused |-> Fuse(a),
                  level |-> RiskLevelOf(ScoreAction(a))]
  /\ UNCHANGED history

\* A verdict is about the moment it is given: the next observation withdraws it.
AssessNext ==
  \/ \E a \in AssessAgents :
       \/ \E o \in Observations : assessed = Unasked /\ ObserveAction(a, o)
       \/ \E severity \in {"Low", "Critical"}, syscall \in {"Safe", "Dangerous"},
             session \in {ActiveSession, UnattendedSession} :
            assessed = Unasked /\ EvaluateRequest(a, severity, syscall, session)
  \/ /\ assessed = Unasked /\ \A a \in AssessAgents : history[a] = <<>>
     /\ \/ \E by \in {"validator", "policy", "confidence"}, risk \in Risks, confidence \in Confidences :
             \E violations \in SUBSET RulesOf(by) : Ask(by, violations, risk, confidence)
        \/ \E a \in ScoredActions : ScoreBoth(a)
  \/ assessed # Unasked /\ assessed' = Unasked /\ UNCHANGED history

AssessTypeOK ==
  /\ history \in [AssessAgents -> BoundedSeq(Observations, WindowSize)]
  /\ assessed.by \in {"nobody", "request", "validator", "policy", "confidence", "scorers"}

(***************************************************************************)
(* Adding a violation, raising the risk or lowering the confidence never   *)
(* makes any of the three deciders restrain less (the order of the early   *)
(* returns in final_decision, policy_decision, decision_from_confidence).  *)
(***************************************************************************)
NoLoosening ==
  assessed.by \in {"validator", "policy", "confidence"} =>
    \A r \in Risks, c \in Confidences, extra \in SUBSET RulesOf(assessed.by) :
      r >= assessed.risk /\ c <= assessed.confidence =>
        Restraint[Decide(assessed.by, assessed.violations \cup extra, r, c)] >= Restraint[assessed.decision]

(***************************************************************************)
(* The two scorers agree: they differ only for an irreversible             *)
(* kernel-adjacent action, which score_fusion.rs puts at 1.0, and for a    *)
(* kernel-level scope without the kernel flag, which only risk_scorer.rs   *)
(* floors.                                                                 *)
(***************************************************************************)
ScorersAgree ==
  assessed.by = "scorers" =>
    LET a == assessed.action IN
    \/ assessed.scored = assessed.fused
    \/ a.kernel /\ a.irreversibility = "Irreversible" /\ assessed.fused = 10000
    \/ ~a.kernel /\ a.scope = "KernelLevel" /\ assessed.fused < 7000

(***************************************************************************)
(* No trust, routine or pattern takes an action below the band of its hard *)
(* floor, which lies on the border of a band: unreviewed AI code is shown  *)
(* in full, a kernel action in a dialog at least, and a delete never goes  *)
(* unnoticed (score_action, from_score).                                   *)
(***************************************************************************)
FloorsReachBands ==
  assessed.by = "scorers" =>
    LET a == assessed.action IN
    /\ a.vibe # "None" => assessed.level = "Block"
    /\ a.kernel \/ a.scope = "KernelLevel" => assessed.level \in {"Confirm", "Block"}
    /\ a.delete => assessed.level # "Silent"

(***************************************************************************)
(* An agent with more than three escalation attempts in its window is      *)
(* stopped, whatever else it did since and whatever it asks for            *)
(* (behavioral_model.rs counts, policy_engine.rs escalates).               *)
(***************************************************************************)
EscalatorsStopped ==
  assessed.by = "request" =>
    (Cardinality({i \in DOMAIN history[assessed.agent] : history[assessed.agent][i].escalation}) > 3
       => assessed.decision \in {"Escalate", "Block"})
===============================================================================
