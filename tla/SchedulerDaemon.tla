--------------------------- MODULE SchedulerDaemon ---------------------------
(***************************************************************************)
(* The scheduler: SchedulerDaemon (daemon.rs), which follows the detected  *)
(* scenario with hysteresis and lets a user override it; the PolicyTable   *)
(* (policy.rs); and SchedulerRuntime (runtime.rs) with its predictor.      *)
(* One Tick is one period of the daemon's loop; ages count periods.        *)
(***************************************************************************)
EXTENDS Integers, FiniteSets

CONSTANTS
  Samples,       \* metrics, as the predicates detect_scenario reads off them
  Hysteresis,    \* the hysteresis, in periods
  OverrideTimes, \* durations of an override in periods; 0 ends before the next tick
  WriteFailures, \* sets of knobs whose writes may fail together
  Weights,       \* CPU weights a table override may ask for
  MinHistory     \* samples the predictor needs

Scenario == {"CodingActive", "VideoRendering", "BatteryCritical", "IdleOvernight", "Gaming", "VibeCoding", "GeneralUse"}
Knobs == {"governor", "weight", "memory", "nice"}
Never == -1

ASSUME SchedulerAssumption ==
  /\ Hysteresis \in Nat \ {0} /\ OverrideTimes \subseteq Nat /\ MinHistory \in Nat \ {0}
  /\ WriteFailures \subseteq SUBSET Knobs

VARIABLES
  current,   \* current_scenario; "none" before the first tick
  timer,     \* age of scenario_since; Never when it is None
  override,  \* the user's override and the periods it has left
  knobs,     \* what the governor, the cgroup and the hint file hold
  agreed,    \* history: periods since a tick's detection agreed with current or replaced it
  switched,  \* history: what agreed was when the last tick switched by the timer, else Never
  table,     \* PolicyTable: the CPU weight of each scenario
  samples, runtimeScenario, runtimeApplied \* SchedulerRuntime
daemonVars == <<current, timer, override, knobs, agreed, switched>>
runtimeSchedVars == <<samples, runtimeScenario, runtimeApplied>>
schedulerVars == <<current, timer, override, knobs, agreed, switched,
                   table, samples, runtimeScenario, runtimeApplied>>

\* policy_for with set_sched_hints; memory in tenths of a GB.
Row(g, w, m, n) == [governor |-> g, weight |-> w, memory |-> m, nice |-> n]
PolicyFor == [CodingActive |-> Row("performance", 150, 12, 5), VideoRendering |-> Row("performance", 50, 8, 10),
              BatteryCritical |-> Row("powersave", 10, 4, 19), IdleOvernight |-> Row("powersave", 400, 20, 15),
              Gaming |-> Row("performance", 30, 8, 10), VibeCoding |-> Row("schedutil", 200, 18, 5),
              GeneralUse |-> Row("schedutil", 100, 12, 5)]
DefaultTable == [PolicyFor EXCEPT !["BatteryCritical"].weight = 50]
EnvelopeWeights == 10..400

DetectScenario(m) ==
  CASE m.battery = "critical" -> "BatteryCritical"
    [] m.battery # "critical" /\ m.app = "editor" /\ m.battery = "charged" ->
         IF m.ai THEN "VibeCoding" ELSE "CodingActive"
    [] OTHER ->
         IF m.gpu = "full" /\ m.render THEN "VideoRendering"
         ELSE IF m.app = "game" \/ (m.gpu \in {"busy", "full"} /\ m.working) THEN "Gaming"
         ELSE IF m.overnight THEN "IdleOvernight" ELSE "GeneralUse"

NoOverride == [scenario |-> "none", left |-> 0, open |-> FALSE]
Capped(n) == IF n > Hysteresis THEN Hysteresis ELSE n
Older(n) == IF n = Never THEN Never ELSE Capped(n + 1)

SchedulerInit ==
  /\ current = "none" /\ timer = Never /\ override = NoOverride
  /\ knobs = Row("boot", 0, 0, 0) /\ agreed = 0 /\ switched = Never
  /\ table = [s \in Scenario |-> DefaultTable[s].weight]
  /\ samples = 0 /\ runtimeScenario = "GeneralUse" /\ runtimeApplied = 0

\* apply_policy: every knob is written, a failed write is logged and forgotten.
ApplyPolicy(s, failing) == knobs' = [k \in Knobs |-> IF k \in failing THEN knobs[k] ELSE PolicyFor[s][k]]

\* An override in force: the tick follows it, looks at nothing else and leaves scenario_since running.
InForce == override.scenario # "none" /\ (override.open \/ override.left > 0)
OverrideTick(failing) ==
  /\ InForce
  /\ IF override.scenario # current THEN ApplyPolicy(override.scenario, failing) ELSE UNCHANGED knobs
  /\ current' = override.scenario
  /\ override' = [override EXCEPT !.left = IF @ = 0 THEN 0 ELSE @ - 1]
  /\ timer' = Older(timer) /\ agreed' = Older(agreed) /\ switched' = Never
  /\ UNCHANGED <<table, runtimeSchedVars>>

\* The rest of a tick: scenario_since and whether to switch.
TimerAfterRunning(detected) ==
  IF current = "none" \/ detected = current THEN timer ELSE IF timer = Never THEN 0 ELSE Older(timer)
TimerAfter(detected) ==
  IF current = "none" THEN timer
  ELSE IF detected = current THEN Never ELSE IF timer = Never THEN 0 ELSE Older(timer)
DetectTick(m, failing) ==
  LET detected == DetectScenario(m)
      due == current # "none" /\ detected # current /\ timer # Never /\ Older(timer) >= Hysteresis IN
  /\ ~InForce /\ override' = NoOverride
  /\ switched' = (IF due THEN Older(agreed) ELSE Never)
  /\ IF current = "none" \/ due
     THEN /\ ApplyPolicy(detected, failing) /\ timer' = Never /\ current' = detected /\ agreed' = 0
     ELSE /\ timer' = TimerAfter(detected) /\ UNCHANGED <<knobs, current>>
          /\ agreed' = (IF detected = current THEN 0 ELSE Older(agreed))
  /\ UNCHANGED <<table, runtimeSchedVars>>

\* apply_user_override: applies at once, without touching the scenario or its timer.
ApplyUserOverride(s, left, open, failing) ==
  /\ override' = [scenario |-> s, left |-> left, open |-> open]
  /\ ApplyPolicy(s, failing)
  /\ UNCHANGED <<current, timer, agreed, switched, table, runtimeSchedVars>>

\* PolicyTable::override.
OverrideTable(s, w) ==
  /\ w \in EnvelopeWeights
  /\ table' = [table EXCEPT ![s] = w] /\ UNCHANGED <<daemonVars, runtimeSchedVars>>

\* Predictor::push_sample and SchedulerRuntime::tick; the heuristic predicts GeneralUse.
PushSample == samples < MinHistory /\ samples' = samples + 1 /\ UNCHANGED <<daemonVars, table, runtimeScenario, runtimeApplied>>
Predict == "GeneralUse"
RuntimeTick ==
  /\ samples >= MinHistory
  /\ runtimeScenario # Predict \/ runtimeApplied = 0
  /\ runtimeScenario' = Predict /\ runtimeApplied' = runtimeApplied + 1
  /\ UNCHANGED <<daemonVars, table, samples>>

SchedulerNext ==
  \/ \E failing \in WriteFailures : \/ OverrideTick(failing)
                                    \/ \E m \in Samples : DetectTick(m, failing)
                                    \/ \E s \in {"Gaming", "VibeCoding"}, left \in OverrideTimes, open \in BOOLEAN :
                                         ApplyUserOverride(s, left, open, failing)
  \/ PushSample \/ RuntimeTick
  \/ \E w \in Weights : current = "none" /\ OverrideTable("Gaming", w)

SchedulerTypeOK ==
  /\ current \in Scenario \cup {"none"} /\ {timer, switched} \subseteq -1..Hysteresis /\ agreed \in 0..Hysteresis
  /\ override.scenario \in Scenario \cup {"none"}
  /\ DOMAIN knobs = Knobs /\ table \in [Scenario -> EnvelopeWeights]
  /\ samples \in 0..MinHistory /\ runtimeScenario = "GeneralUse" /\ runtimeApplied \in 0..1

(***************************************************************************)
(* The timer switches no sooner than the hysteresis after the last switch  *)
(* it made, and after the last tick that still detected the scenario it    *)
(* leaves.  This is all that hysteresis keeps: neither the scenario it     *)
(* switches to nor any other one was detected throughout (daemon.rs:77     *)
(* and 125 ask that the new one be stable), since scenario_since is not    *)
(* reset when the detection moves from one candidate to another, and it    *)
(* runs on while an override is in force.                                  *)
(***************************************************************************)
NoHastySwitch == switched # Never => switched >= Hysteresis

(* What keeps it: the timer never runs ahead of the detections.            *)
SchedulerInv ==
  /\ SchedulerTypeOK /\ NoHastySwitch
  /\ current = "none" => timer = Never
  /\ timer # Never => agreed >= timer
================================================================================
