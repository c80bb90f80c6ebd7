-------------------------------- MODULE HalGuards --------------------------------
(***************************************************************************)
(* The last three opinions on an action:                                   *)
(*   ExistentialGovernor (hal/src/existential_governor.rs): targets under  *)
(*     protected paths, and a kill switch for each kind of threat;         *)
(*   AutonomousConstitution (autonomous_constitution.rs): five articles;   *)
(*   CognitiveEquilibrium (cognitive_equilibrium.rs): helpfulness against  *)
(*     the loss of agency, weighed by what the user answered before.       *)
(* Scores are in tenths, weights in hundredths, the benefit in thousandths.*)
(***************************************************************************)
EXTENDS Integers, FiniteSets

CONSTANTS
  CustomPaths,  \* paths callers protect, with the targets that lie under each
  MaxAnswers  \* bound: answers of the user

\* The default protected paths, by the threat they stand for.
DefaultPaths == [halBinaries |-> "HalItself", halConfig |-> "HalItself", audit |-> "AuditChain",
                 kernel |-> "Kernel", procSys |-> "Kernel", modules |-> "Kernel",
                 memory |-> "MemoryStore", keys |-> "AuthKeys", tokens |-> "AuthKeys"]
ASSUME GuardsAssumption == MaxAnswers \in Nat /\ DOMAIN CustomPaths \cap DOMAIN DefaultPaths = {}
Threats == {DefaultPaths[p] : p \in DOMAIN DefaultPaths}
Targets == DOMAIN DefaultPaths \cup {"elsewhere"}

VARIABLES
  protectedPaths,  \* the paths callers added
  armed,           \* KillSwitchState
  helpWeight, agencyWeight,
  feedback         \* length of the history
guardsVars == <<protectedPaths, armed, helpWeight, agencyWeight, feedback>>

GuardsInit ==
  /\ protectedPaths = {} /\ armed = Threats
  /\ helpWeight = 100 /\ agencyWeight = 150 /\ feedback = 0

Protect(p) == protectedPaths' = protectedPaths \cup {p} /\ UNCHANGED <<armed, helpWeight, agencyWeight, feedback>>
Disarm(t) == armed' = armed \ {t} /\ UNCHANGED <<protectedPaths, helpWeight, agencyWeight, feedback>>

\* The paths a target lies under.  An added path is a threat only when it lies
\* under a default one itself, which those here do not.
Covering(target) == ({target} \cap DOMAIN DefaultPaths) \cup {p \in protectedPaths : target \in CustomPaths[p]}
ClassifyFirst(target) == IF \E p \in protectedPaths : target \in CustomPaths[p] THEN {}
                         ELSE {DefaultPaths[p] : p \in Covering(target) \cap DOMAIN DefaultPaths}
Classify(target) == {DefaultPaths[p] : p \in Covering(target) \cap DOMAIN DefaultPaths}
ExistentialVerdict(target) ==
  LET threats == Classify(target) IN
  CASE threats = {} -> "Safe" [] threats \cap armed # {} -> "Catastrophic" [] OTHER -> "Threatens"

\* The articles in their order, by what an action touches.
Articles == <<"hal", "information", "audit", "autonomy", "user">>
ConstitutionVerdict(touches) ==
  IF \E i \in DOMAIN Articles : Articles[i] \in touches
  THEN CHOOSE i \in DOMAIN Articles : Articles[i] \in touches /\ \A j \in 1..(i - 1) : Articles[j] \notin touches
  ELSE 0

Recommendations == <<"Act", "ActWithNotice", "Ask", "Abstain">>
NetBenefit(help, loss, requested, weight) ==
  IF requested THEN (IF help > 10 THEN help ELSE 10) * 100 ELSE help * 100 - loss * weight
RecommendAt(net) == IF net > 500 THEN 1 ELSE IF net > 0 THEN 2 ELSE IF net > -250 THEN 3 ELSE 4
Recommend(help, loss, requested, weight) == RecommendAt(NetBenefit(help, loss, requested, weight))

\* A refusal weighs agency more; an acceptance weighs help more, which no
\* evaluation reads.
Recalibrate(answer) ==
  /\ feedback < MaxAnswers /\ feedback' = feedback + 1
  /\ helpWeight' = helpWeight + (IF answer \in {"Accepted", "OverrodeRefusal"} THEN 1 ELSE 0)
  /\ agencyWeight' = agencyWeight + (IF answer \in {"Rejected", "Undid", "OverrodeAct"} THEN 1 ELSE 0)
  /\ UNCHANGED <<protectedPaths, armed>>

GuardsNext ==
  \/ \E p \in DOMAIN CustomPaths : Protect(p)
  \/ \E t \in Threats : Disarm(t)
  \/ \E a \in {"Accepted", "Rejected", "Undid", "OverrodeAct", "OverrodeRefusal"} : Recalibrate(a)

GuardsTypeOK ==
  /\ protectedPaths \subseteq DOMAIN CustomPaths /\ armed \subseteq Threats
  /\ helpWeight + agencyWeight = 250 + feedback

(***************************************************************************)
(* No path a caller adds hides a default one: a target under a default     *)
(* path is never Safe, and Catastrophic while its switch is armed,         *)
(* whatever added path it lies under too (the paths are walked in no       *)
(* order).  Of targets under added paths alone it says nothing: classify   *)
(* finds no threat there.  And no answer of the user makes an unrequested  *)
(* action more welcome than it was at the start, nor a requested one less  *)
(* (classify, evaluate, recalibrate).                                      *)
(***************************************************************************)
DefaultThreatsSeen ==
  /\ \A target \in DOMAIN DefaultPaths :
       IF DefaultPaths[target] \in armed THEN ExistentialVerdict(target) = "Catastrophic"
                                         ELSE ExistentialVerdict(target) # "Safe"
  /\ \A help, loss \in 0..10 :
       /\ Recommend(help, loss, FALSE, agencyWeight) >= Recommend(help, loss, FALSE, 150)
       /\ Recommend(help, loss, TRUE, agencyWeight) = 1

\* Inductive: weights only grow.
GuardsInv ==
  /\ protectedPaths \subseteq DOMAIN CustomPaths /\ armed \subseteq Threats
  /\ {helpWeight, agencyWeight, feedback} \subseteq Nat /\ agencyWeight >= 150
  /\ helpWeight + agencyWeight = 250 + feedback
================================================================================
