--------------------------- MODULE ServicesProofs ---------------------------
(***************************************************************************)
(* What holds of the services for all values of their constants: the       *)
(* scheduler, the intent engine and what follows it, the memory index and  *)
(* fabric, and the command lines.                                          *)
(***************************************************************************)
EXTENDS MCServices, ProofLemmas, TLAPS

-------------------------------------------------------------------------------
(* The scheduler.                                                          *)

LEMMA AgesCapped ==
  ASSUME NEW n \in 0..Hysteresis
  PROVE  Older(n) \in 0..Hysteresis /\ Older(n) >= n /\ (Older(n) = n + 1 \/ Older(n) = Hysteresis)
BY SchedulerAssumption DEF Older, Capped, Never

LEMMA AgesKept ==
  ASSUME NEW m \in 0..Hysteresis, NEW n \in 0..Hysteresis, m <= n
  PROVE  Older(m) <= Older(n)
BY SchedulerAssumption DEF Older, Capped, Never

LEMMA ScenariosDetected ==
  ASSUME NEW m
  PROVE  DetectScenario(m) \in Scenario
BY DEF DetectScenario, Scenario

LEMMA SchedulerInitial == SchedulerInit => SchedulerInv
<1> SUFFICES ASSUME SchedulerInit PROVE SchedulerInv
  OBVIOUS
<1>1. \A s \in Scenario : DefaultTable[s].weight \in EnvelopeWeights
  BY DEF Scenario, EnvelopeWeights, DefaultTable, PolicyFor, Row
<1>2. SchedulerTypeOK
  BY <1>1, SchedulerAssumption DEF SchedulerInit, SchedulerTypeOK, NoOverride, Never, Row, Knobs, Scenario
<1> QED
  BY <1>2, SchedulerAssumption DEF SchedulerInit, SchedulerInv, NoHastySwitch, Never

LEMMA OverrideTickStep ==
  ASSUME SchedulerInv, NEW failing \in WriteFailures, OverrideTick(failing)
  PROVE  SchedulerInv'
<1>1. /\ timer \in -1..Hysteresis /\ agreed \in 0..Hysteresis /\ override.scenario \in Scenario
      /\ (timer # Never => agreed >= timer)
  BY DEF SchedulerInv, SchedulerTypeOK, OverrideTick, InForce
<1>2. /\ timer' = Older(timer) /\ agreed' = Older(agreed) /\ override'.scenario = override.scenario
      /\ table' = table /\ samples' = samples /\ runtimeScenario' = runtimeScenario /\ runtimeApplied' = runtimeApplied
      /\ current' = override.scenario /\ switched' = Never
      /\ knobs' = knobs \/ knobs' = [k \in Knobs |-> IF k \in failing THEN knobs[k] ELSE PolicyFor[override.scenario][k]]
  BY DEF OverrideTick, ApplyPolicy, runtimeSchedVars
<1>3. /\ timer = Never => timer' = Never
      /\ timer # Never => timer \in 0..Hysteresis /\ timer' \in 0..Hysteresis /\ timer' # Never
  <2>1. timer # Never => timer \in 0..Hysteresis
    BY <1>1 DEF Never
  <2> QED
    BY <1>2, <2>1, AgesCapped DEF Never, Older
<1>4. agreed' \in 0..Hysteresis /\ (timer' # Never => agreed' >= timer')
  BY <1>1, <1>2, <1>3, AgesCapped, AgesKept
<1>5. SchedulerTypeOK'
  BY <1>1, <1>2, <1>3, <1>4, SchedulerAssumption DEF SchedulerInv, SchedulerTypeOK, Never
<1>6. current' # "none"
  BY <1>1, <1>2 DEF Scenario
<1> QED
  BY <1>2, <1>4, <1>5, <1>6 DEF SchedulerInv, NoHastySwitch

LEMMA DetectTickStep ==
  ASSUME SchedulerInv, NEW failing \in WriteFailures, NEW m, DetectTick(m, failing)
  PROVE  SchedulerInv'
<1> DEFINE detected == DetectScenario(m)
           due == current # "none" /\ detected # current /\ timer # Never /\ Older(timer) >= Hysteresis
<1>1. /\ timer \in -1..Hysteresis /\ agreed \in 0..Hysteresis /\ (timer # Never => agreed >= timer)
      /\ detected \in Scenario /\ detected # "none"
  BY ScenariosDetected DEF SchedulerInv, SchedulerTypeOK, Scenario
<1>2. /\ override' = NoOverride /\ table' = table /\ samples' = samples
      /\ runtimeScenario' = runtimeScenario /\ runtimeApplied' = runtimeApplied
      /\ switched' = (IF due THEN Older(agreed) ELSE Never)
  BY DEF DetectTick, runtimeSchedVars
<1>3. timer # Never => timer \in 0..Hysteresis /\ Older(timer) \in 0..Hysteresis /\ Older(timer) # Never
  <2>1. timer # Never => timer \in 0..Hysteresis
    BY <1>1 DEF Never
  <2> QED
    BY <2>1, AgesCapped DEF Never
<1>4. Older(agreed) \in 0..Hysteresis /\ (timer # Never => Older(agreed) >= Older(timer))
  BY <1>1, <1>3, AgesCapped, AgesKept
<1>5. switched' \in -1..Hysteresis /\ NoHastySwitch'
  <2>1. due => Older(agreed) >= Hysteresis
    BY <1>3, <1>4, SchedulerAssumption
  <2> HIDE DEF due
  <2> QED
    BY <1>2, <1>4, <2>1, SchedulerAssumption DEF NoHastySwitch, Never
<1>6. CASE current = "none" \/ due
  <2>1. /\ timer' = Never /\ current' = detected /\ agreed' = 0
        /\ knobs' = [k \in Knobs |-> IF k \in failing THEN knobs[k] ELSE PolicyFor[detected][k]]
    BY <1>6 DEF DetectTick, ApplyPolicy
  <2>2. SchedulerTypeOK'
    BY <1>1, <1>2, <1>5, <2>1, SchedulerAssumption DEF SchedulerInv, SchedulerTypeOK, Never, NoOverride
  <2> QED
    BY <1>1, <1>5, <2>1, <2>2 DEF SchedulerInv
<1>7. CASE ~(current = "none" \/ due)
  <2>1. /\ timer' = TimerAfter(detected) /\ knobs' = knobs /\ current' = current
        /\ agreed' = (IF detected = current THEN 0 ELSE Older(agreed))
    BY <1>7 DEF DetectTick
  <2>2. /\ detected = current => timer' = Never
        /\ detected # current => timer' = IF timer = Never THEN 0 ELSE Older(timer)
    BY <1>7, <2>1 DEF TimerAfter
  <2>3. timer' \in -1..Hysteresis /\ agreed' \in 0..Hysteresis /\ (timer' # Never => agreed' >= timer')
    BY <1>3, <1>4, <2>1, <2>2, SchedulerAssumption DEF Never
  <2>4. SchedulerTypeOK'
    BY <1>2, <1>5, <2>1, <2>3 DEF SchedulerInv, SchedulerTypeOK, NoOverride
  <2> QED
    BY <1>5, <1>7, <2>1, <2>3, <2>4 DEF SchedulerInv
<1> QED
  BY <1>6, <1>7

LEMMA SchedulerStep ==
  ASSUME SchedulerInv, [SchedulerNext]_schedulerVars
  PROVE  SchedulerInv'
<1> USE DEF schedulerVars, daemonVars, runtimeSchedVars
<1>1. CASE UNCHANGED schedulerVars
  BY <1>1 DEF SchedulerInv, SchedulerTypeOK, NoHastySwitch
<1>2. ASSUME NEW failing \in WriteFailures, OverrideTick(failing)
      PROVE  SchedulerInv'
  BY <1>2, OverrideTickStep
<1>3. ASSUME NEW failing \in WriteFailures, NEW m \in Samples, DetectTick(m, failing)
      PROVE  SchedulerInv'
  BY <1>3, DetectTickStep
<1>4. ASSUME NEW failing \in WriteFailures, NEW s \in {"Gaming", "VibeCoding"}, NEW left \in OverrideTimes, NEW open \in BOOLEAN,
             ApplyUserOverride(s, left, open, failing)
      PROVE  SchedulerInv'
  <2>1. s \in Scenario
    BY DEF Scenario
  <2>2. SchedulerTypeOK'
    BY <1>4, <2>1 DEF ApplyUserOverride, ApplyPolicy, SchedulerInv, SchedulerTypeOK
  <2> QED
    BY <1>4, <2>2 DEF ApplyUserOverride, SchedulerInv, NoHastySwitch
<1>5. CASE PushSample
  BY <1>5, SchedulerAssumption DEF PushSample, SchedulerInv, SchedulerTypeOK, NoHastySwitch
<1>6. CASE RuntimeTick
  <2>1. runtimeApplied' \in 0..1 /\ runtimeScenario' = "GeneralUse"
    BY <1>6 DEF RuntimeTick, Predict, SchedulerInv, SchedulerTypeOK
  <2> QED
    BY <1>6, <2>1 DEF RuntimeTick, SchedulerInv, SchedulerTypeOK, NoHastySwitch
<1>7. ASSUME NEW w \in Weights, OverrideTable("Gaming", w)
      PROVE  SchedulerInv'
  <2>1. table' \in [Scenario -> EnvelopeWeights]
    BY <1>7 DEF OverrideTable, SchedulerInv, SchedulerTypeOK
  <2> QED
    BY <1>7, <2>1 DEF OverrideTable, SchedulerInv, SchedulerTypeOK, NoHastySwitch
<1> QED
  BY <1>1, <1>2, <1>3, <1>4, <1>5, <1>6, <1>7 DEF SchedulerNext

-------------------------------------------------------------------------------
(* The command lines.                                                      *)

LEMMA EditingKinds ==
  ASSUME NEW e \in Editing
  PROVE  e.at \in {"read", "emptied"} /\ e.file \in Files /\ e.path \in EditPaths /\ e.seen \subseteq EditPaths /\ e # Idle
BY DEF Editing, Idle

LEMMA CommandInitial == CommandInit => CommandInv
<1> SUFFICES ASSUME CommandInit PROVE CommandInv
  OBVIOUS
<1>1. CommandTypeOK
  BY CommandAssumption DEF CommandInit, CommandTypeOK
<1>2. work \in [Invocations -> {Idle} \cup Editing]
  BY DEF CommandInit
<1>3. \A f \in Files : Busy(f) = {} /\ lists[f] = asked[f]
  BY DEF CommandInit, Busy, Idle
<1> QED
  BY <1>1, <1>2, <1>3 DEF CommandInit, CommandInv

(* An edit that comes alone is the only one under way, and has read what   *)
(* the earlier ones amount to.                                             *)
Edits == /\ work \in [Invocations -> {Idle} \cup Editing]
         /\ lists \in [Files -> SUBSET EditPaths] /\ asked \in [Files -> SUBSET EditPaths] /\ edits \in 0..MaxRuns
Alone == ~overlapped => \A f \in Files :
           /\ \A i, j \in Busy(f) : i = j
           /\ \A i \in Busy(f) : work[i].seen = asked[f] /\ (work[i].at = "read" => lists[f] = asked[f])
           /\ Busy(f) = {} => lists[f] = asked[f]

LEMMA ReadListStep ==
  ASSUME Edits, Alone, NEW i \in Invocations, NEW f \in Files, NEW op \in {"add", "remove"}, NEW path \in EditPaths,
         ReadList(i, f, op, path)
  PROVE  Edits' /\ Alone'
<1> DEFINE e == [at |-> "read", file |-> f, op |-> op, path |-> path, seen |-> lists[f]]
<1>1. /\ work[i] = Idle /\ edits < MaxRuns /\ edits' = edits + 1 /\ lists' = lists /\ asked' = asked
      /\ work' = [work EXCEPT ![i] = e] /\ overlapped' = (overlapped \/ Busy(f) # {})
  BY DEF ReadList
<1>2. e \in Editing /\ e.at = "read" /\ e.file = f /\ e.seen = lists[f]
  BY DEF Edits, Editing
<1> HIDE DEF e
<1>3. Edits'
  <2>1. edits' \in 0..MaxRuns
    BY <1>1, CommandAssumption DEF Edits
  <2> QED
    BY <1>1, <1>2, <2>1 DEF Edits
<1>4. \A g \in Files \ {f} : Busy(g)' = Busy(g)
  BY <1>1, <1>2 DEF Busy, Edits, Idle
<1>5. Busy(f)' = Busy(f) \cup {i}
  BY <1>1, <1>2 DEF Busy, Edits, Idle
<1>6. ASSUME ~overlapped', NEW g \in Files
      PROVE  /\ \A k, j \in Busy(g)' : k = j
             /\ \A k \in Busy(g)' : work'[k].seen = asked'[g] /\ (work'[k].at = "read" => lists'[g] = asked'[g])
             /\ Busy(g)' = {} => lists'[g] = asked'[g]
  <2>1. ~overlapped /\ Busy(f) = {}
    BY <1>1, <1>6
  <2>2. CASE g = f
    <3>1. Busy(g)' = {i} /\ work'[i] = e /\ lists[f] = asked[f]
      BY <1>1, <1>5, <2>1, <2>2 DEF Alone, Edits
    <3> QED
      BY <1>1, <1>2, <2>2, <3>1
  <2>3. CASE g # f
    <3>1. Busy(g)' = Busy(g) /\ \A k \in Busy(g) : work'[k] = work[k]
      BY <1>1, <1>4, <2>3 DEF Busy, Edits, Idle
    <3> QED
      BY <1>1, <2>1, <3>1 DEF Alone
  <2> QED
    BY <2>2, <2>3
<1> QED
  BY <1>3, <1>6 DEF Alone

LEMMA TruncateListStep ==
  ASSUME Edits, Alone, NEW i \in Invocations, TruncateList(i)
  PROVE  Edits' /\ Alone'
<1> DEFINE e == work[i]
           n == [work[i] EXCEPT !.at = "emptied"]
<1>1. /\ e.at = "read" /\ lists' = [lists EXCEPT ![e.file] = {}] /\ work' = [work EXCEPT ![i] = n]
      /\ asked' = asked /\ edits' = edits /\ overlapped' = overlapped
  BY DEF TruncateList
<1>2. e \in Editing /\ e.file \in Files
  BY <1>1 DEF Edits, Idle, Editing
<1>3. n \in Editing /\ n.at = "emptied" /\ n.file = e.file /\ n.seen = e.seen
  BY <1>2 DEF Editing
<1> HIDE DEF e, n
<1>4. Edits'
  BY <1>1, <1>2, <1>3 DEF Edits
<1>5. i \in Busy(e.file) /\ \A g \in Files : Busy(g)' = Busy(g) /\ (g # e.file => i \notin Busy(g))
  BY <1>1, <1>2, <1>3 DEF Busy, Edits, Idle, e
<1>6. ASSUME ~overlapped', NEW g \in Files
      PROVE  /\ \A k, j \in Busy(g)' : k = j
             /\ \A k \in Busy(g)' : work'[k].seen = asked'[g] /\ (work'[k].at = "read" => lists'[g] = asked'[g])
             /\ Busy(g)' = {} => lists'[g] = asked'[g]
  <2>1. \A k \in Invocations : k # i => work'[k] = work[k]
    BY <1>1 DEF Edits
  <2>2. CASE g = e.file
    <3>1. Busy(g) = {i} /\ work'[i] = n /\ e.seen = asked[g]
      BY <1>1, <1>5, <1>6, <2>2 DEF Alone, Edits, e
    <3> QED
      BY <1>1, <1>3, <1>5, <3>1
  <2>3. CASE g # e.file
    <3>1. lists'[g] = lists[g] /\ \A k \in Busy(g) : work'[k] = work[k]
      BY <1>1, <1>5, <2>1, <2>3 DEF Busy, Edits
    <3> QED
      BY <1>1, <1>5, <1>6, <3>1 DEF Alone
  <2> QED
    BY <2>2, <2>3
<1> QED
  BY <1>4, <1>6 DEF Alone

(* The two ways in which an edit ends.                                     *)
LEMMA EditEnds ==
  ASSUME Edits, Alone, NEW i \in Invocations, work[i] # Idle, NEW paths \in SUBSET EditPaths,
         lists' = [lists EXCEPT ![work[i].file] = paths] \/ (lists' = lists /\ work[i].at = "read" /\ paths = asked[work[i].file]),
         \E more \in SUBSET EditPaths : /\ asked' = [asked EXCEPT ![work[i].file] = more]
                                        /\ work[i].seen = asked[work[i].file] => more = paths,
         work' = [work EXCEPT ![i] = Idle], edits' = edits,
         overlapped' = (overlapped \/ Busy(work[i].file) # {i})
  PROVE  Edits' /\ Alone'
<1> DEFINE e == work[i]
<1>1. e \in Editing /\ e.file \in Files
  BY DEF Edits, Idle, Editing
<1>2. PICK more \in SUBSET EditPaths : /\ asked' = [asked EXCEPT ![e.file] = more]
                                       /\ e.seen = asked[e.file] => more = paths
  OBVIOUS
<1>3. lists' \in [Files -> SUBSET EditPaths] /\ \A g \in Files : g # e.file => lists'[g] = lists[g]
  BY <1>1 DEF Edits
<1>4. Edits'
  BY <1>1, <1>2, <1>3 DEF Edits
<1>5. \A g \in Files : Busy(g)' = Busy(g) \ {i} /\ (g # e.file => i \notin Busy(g))
  BY <1>1 DEF Busy, Edits, Idle
<1>6. ASSUME ~overlapped', NEW g \in Files
      PROVE  /\ \A k, j \in Busy(g)' : k = j
             /\ \A k \in Busy(g)' : work'[k].seen = asked'[g] /\ (work'[k].at = "read" => lists'[g] = asked'[g])
             /\ Busy(g)' = {} => lists'[g] = asked'[g]
  <2>1. ~overlapped /\ Busy(e.file) = {i}
    BY <1>6
  <2>2. CASE g = e.file
    <3>1. e.seen = asked[g] /\ (e.at = "read" => lists[g] = asked[g])
      BY <2>1, <2>2 DEF Alone
    <3>2. asked'[g] = paths
      BY <1>1, <1>2, <2>2, <3>1 DEF Edits
    <3>3. lists'[g] = paths
      BY <1>1, <2>2, <3>1 DEF Edits
    <3>4. Busy(g)' = {}
      BY <1>5, <2>1, <2>2
    <3> QED
      BY <3>2, <3>3, <3>4
  <2>3. CASE g # e.file
    <3>1. lists'[g] = lists[g] /\ asked'[g] = asked[g] /\ Busy(g)' = Busy(g)
      BY <1>1, <1>2, <1>3, <1>5, <2>3 DEF Edits
    <3>2. \A k \in Busy(g) : work'[k] = work[k]
      BY <1>5, <2>3 DEF Busy, Edits
    <3> QED
      BY <2>1, <3>1, <3>2 DEF Alone
  <2> QED
    BY <2>2, <2>3
<1> QED
  BY <1>4, <1>6 DEF Alone

LEMMA WriteListStep ==
  ASSUME Edits, Alone, NEW i \in Invocations, WriteList(i)
  PROVE  Edits' /\ Alone'
<1> DEFINE e == work[i]
           more == IF e.op = "add" THEN asked[e.file] \cup {e.path} ELSE asked[e.file] \ {e.path}
           paths == Edited(e.op, e.path, e.seen)
<1>1. /\ e.at = "emptied" /\ lists' = [lists EXCEPT ![e.file] = paths] /\ asked' = [asked EXCEPT ![e.file] = more]
      /\ work' = [work EXCEPT ![i] = Idle] /\ overlapped' = (overlapped \/ Busy(e.file) # {i}) /\ edits' = edits
  BY DEF WriteList
<1>2. e \in Editing /\ e # Idle /\ e.file \in Files /\ e.path \in EditPaths /\ e.seen \subseteq EditPaths
  BY <1>1 DEF Edits, Idle, Editing
<1>3. more \subseteq EditPaths /\ paths \subseteq EditPaths /\ (e.seen = asked[e.file] => more = paths)
  BY <1>2 DEF Edited, Edits
<1> HIDE DEF more, paths
<1> QED
  BY <1>1, <1>2, <1>3, EditEnds

LEMMA LeaveListStep ==
  ASSUME Edits, Alone, NEW i \in Invocations, LeaveList(i)
  PROVE  Edits' /\ Alone'
<1> DEFINE e == work[i]
           paths == asked[e.file]
           more == asked[e.file] \cup {e.path}
<1>1. /\ e.at = "read" /\ e.path \in e.seen /\ lists' = lists /\ asked' = [asked EXCEPT ![e.file] = more]
      /\ work' = [work EXCEPT ![i] = Idle] /\ overlapped' = (overlapped \/ Busy(e.file) # {i}) /\ edits' = edits
  BY DEF LeaveList
<1>2. e \in Editing /\ e # Idle /\ e.file \in Files /\ e.path \in EditPaths /\ e.seen \subseteq EditPaths
  BY <1>1 DEF Edits, Idle, Editing
<1>3. more \subseteq EditPaths /\ paths \subseteq EditPaths /\ (e.seen = asked[e.file] => more = paths)
  BY <1>1, <1>2 DEF Edits
<1>4. lists' = lists /\ e.at = "read" /\ paths = asked[e.file]
  BY <1>1
<1> HIDE DEF more
<1> QED
  BY <1>1, <1>2, <1>3, <1>4, EditEnds

LEMMA TuiStep ==
  ASSUME CommandInv, TuiNext
  PROVE  /\ row' \in Nat /\ (moved' \/ row' = 0 \/ row' < CurrentLen') /\ agents' \in 0..MaxAgents /\ decisions' \in 0..DecisionCap
         /\ UNCHANGED <<listVars, model, exit>>
<1>1. /\ row \in Nat /\ agents \in 0..MaxAgents /\ decisions \in 0..DecisionCap /\ DecisionCap \in Nat /\ MaxAgents \in Nat
      /\ moved \/ row = 0 \/ row < CurrentLen
  BY CommandAssumption DEF CommandInv, CommandTypeOK
<1>2. CurrentLen \in Nat
  BY <1>1 DEF CurrentLen
<1>3. UNCHANGED <<listVars, model, exit>>
  BY DEF TuiNext, pullVars
<1>4. ASSUME NEW t \in {"agents", "decisions", "memory", "metrics"}, PickTab(t)
      PROVE  row' \in Nat /\ moved' /\ agents' \in 0..MaxAgents /\ decisions' \in 0..DecisionCap
  BY <1>1, <1>4 DEF PickTab
<1>5. CASE MoveUp
  <2>1. CurrentLen' = CurrentLen /\ agents' = agents /\ decisions' = decisions
    BY <1>5 DEF MoveUp, CurrentLen
  <2>2. row' \in Nat /\ (moved' \/ row' = 0 \/ row' < CurrentLen)
    BY <1>1, <1>2, <1>5 DEF MoveUp
  <2> QED
    BY <1>1, <1>3, <2>1, <2>2
<1>6. CASE MoveDown
  <2>1. CurrentLen' = CurrentLen /\ agents' = agents /\ decisions' = decisions
    BY <1>6 DEF MoveDown, CurrentLen
  <2>2. row' \in Nat /\ row' < CurrentLen
    BY <1>1, <1>2, <1>6 DEF MoveDown, Below
  <2> QED
    BY <1>1, <1>3, <2>1, <2>2
<1>7. CASE HalDecided
  <2>1. /\ agents' = agents /\ row' = row /\ moved' = moved /\ tab' = tab
        /\ decisions' \in 0..DecisionCap /\ decisions' >= decisions
    BY <1>1, <1>7 DEF HalDecided
  <2>2. CurrentLen' >= CurrentLen /\ CurrentLen' \in Nat
    BY <1>1, <2>1 DEF CurrentLen
  <2> QED
    BY <1>1, <1>2, <1>3, <2>1, <2>2
<1>8. CASE Quits
  BY <1>1, <1>3, <1>8 DEF Quits, CurrentLen
<1>9. ASSUME NEW n \in 0..MaxAgents, AgentsUpdated(n)
      PROVE  row' \in Nat /\ moved' /\ agents' \in 0..MaxAgents /\ decisions' \in 0..DecisionCap
  BY <1>1, <1>9 DEF AgentsUpdated
<1> QED
  BY <1>3, <1>4, <1>5, <1>6, <1>7, <1>8, <1>9 DEF TuiNext

LEMMA CommandStep ==
  ASSUME CommandInv, [CommandNext]_commandVars
  PROVE  CommandInv'
<1> USE DEF listVars, pullVars, tuiVars
<1>1. /\ Edits /\ Alone /\ row \in Nat /\ agents \in 0..MaxAgents /\ decisions \in 0..DecisionCap
      /\ model \in {"absent", "whole", "part", "error page"} /\ (moved \/ row = 0 \/ row < CurrentLen)
  BY DEF CommandInv, CommandTypeOK, Edits, Alone
<1>2. ASSUME /\ Edits' /\ Alone' /\ row' \in Nat /\ agents' \in 0..MaxAgents /\ decisions' \in 0..DecisionCap
             /\ model' \in {"absent", "whole", "part", "error page"} /\ (moved' \/ row' = 0 \/ row' < CurrentLen')
      PROVE  CommandInv'
  BY <1>2 DEF CommandInv, CommandTypeOK, Edits, Alone
<1>3. ASSUME UNCHANGED listVars PROVE Edits' /\ Alone'
  <2>1. \A f \in Files : Busy(f)' = Busy(f)
    BY <1>3 DEF Busy
  <2>2. Edits'
    BY <1>1, <1>3 DEF Edits
  <2> QED
    BY <1>1, <1>3, <2>1, <2>2 DEF Alone
<1>4. ASSUME UNCHANGED tuiVars
      PROVE  /\ row' \in Nat /\ agents' \in 0..MaxAgents /\ decisions' \in 0..DecisionCap
             /\ (moved' \/ row' = 0 \/ row' < CurrentLen')
  <2>1. CurrentLen' = CurrentLen
    BY <1>4 DEF CurrentLen
  <2> QED
    BY <1>1, <1>4, <2>1
<1>6. CASE UNCHANGED commandVars
  BY <1>1, <1>2, <1>3, <1>4, <1>6 DEF commandVars
<1>7. ASSUME Edits', Alone', UNCHANGED <<pullVars, exit, tuiVars>>
      PROVE  CommandInv'
  BY <1>1, <1>2, <1>4, <1>7
<1>8. ASSUME NEW i \in Invocations, NEW f \in Files, NEW op \in {"add", "remove"}, NEW p \in EditPaths, ReadList(i, f, op, p)
      PROVE  CommandInv'
  BY <1>1, <1>7, <1>8, ReadListStep DEF ReadList
<1>9. ASSUME NEW i \in Invocations, TruncateList(i) \/ WriteList(i) \/ LeaveList(i)
      PROVE  CommandInv'
  <2>1. Edits' /\ Alone'
    BY <1>1, <1>9, TruncateListStep, WriteListStep, LeaveListStep
  <2>2. UNCHANGED <<pullVars, exit, tuiVars>>
    BY <1>9 DEF TruncateList, WriteList, LeaveList
  <2> QED
    BY <1>7, <2>1, <2>2
<1>10. ASSUME NEW c \in {"whole", "part", "error page", "nothing"}, PullModel(c)
       PROVE  CommandInv'
  <2>1. model' \in {"absent", "whole", "part", "error page"} /\ UNCHANGED <<listVars, exit, tuiVars>>
    BY <1>1, <1>10 DEF PullModel
  <2> QED
    BY <1>2, <1>3, <1>4, <2>1
<1>11. CASE RemoveModel
  BY <1>2, <1>3, <1>4, <1>11 DEF RemoveModel
<1>12. CASE CmdIntent
  <2>1. UNCHANGED <<listVars, pullVars, tuiVars>>
    BY <1>12 DEF CmdIntent
  <2> QED
    BY <1>1, <1>2, <1>3, <1>4, <2>1
<1>13. CASE TuiNext
  <2>1. /\ row' \in Nat /\ (moved' \/ row' = 0 \/ row' < CurrentLen') /\ agents' \in 0..MaxAgents /\ decisions' \in 0..DecisionCap
        /\ UNCHANGED <<listVars, model, exit>>
    BY <1>13, TuiStep
  <2> QED
    BY <1>1, <1>2, <1>3, <2>1
<1> QED
  BY <1>6, <1>8, <1>9, <1>10, <1>11, <1>12, <1>13 DEF CommandNext

LEMMA CommandsTold ==
  ASSUME CommandInv
  PROVE  EditsKept /\ RowShown
<1>1. EditsKept
  BY DEF CommandInv, EditsKept
<1>2. CurrentLen \in Nat
  <2>1. MaxAgents \in Nat /\ DecisionCap \in Nat
    BY CommandAssumption
  <2>2. agents \in 0..MaxAgents /\ decisions \in 0..DecisionCap
    BY DEF CommandInv, CommandTypeOK
  <2>3. agents \in Nat /\ decisions \in Nat
    BY <2>1, <2>2
  <2> QED
    BY <2>3 DEF CurrentLen
<1>3. RowShown
  BY <1>2 DEF CommandInv, RowShown
<1> QED
  BY <1>1, <1>3
-------------------------------------------------------------------------------
(* The intent engine.                                                      *)

LEMMA IntentTypes == IntentInv => IntentTypeOK
<1> SUFFICES ASSUME IntentInv PROVE IntentTypeOK
  OBVIOUS
<1>1. \A i \in Inputs : cache[i].id \in Requests \cup {"nobody"}
  BY DEF IntentInv, CacheGood, Stored, Entries, NoEntryYet
<1>2. \A r \in Requests : reply[r].status \in {"none", "ok", "unsupported", "failed"}
  BY DEF IntentInv, ReplyGood, Replies, NoReply
<1> QED
  BY <1>1, <1>2 DEF IntentTypeOK, IntentInv, IntentShape

LEMMA EntryNames ==
  ASSUME NEW e \in Entries
  PROVE  /\ e # NoEntryYet /\ e.id \in Requests /\ e.source = "model" /\ e.born \in Nat
         /\ \A t \in Nat : [e EXCEPT !.used = t] \in Entries /\ [e EXCEPT !.used = t].id = e.id
BY DEF Entries, NoEntryYet

LEMMA IntentInitial == IntentInit => IntentInv
<1> SUFFICES ASSUME IntentInit PROVE IntentInv
  OBVIOUS
<1>1. IntentShape
  BY IntentAssumption DEF IntentInit, IntentShape
<1>2. Stored = {}
  BY DEF IntentInit, Stored
<1>3. CacheGood
  BY <1>2, FS_EmptySet, IntentAssumption DEF IntentInit, CacheGood
<1>4. HolderGood
  BY NamesAssumption DEF IntentInit, HolderGood
<1>5. \A r \in Requests : ReplyGood(r)
  BY DEF IntentInit, ReplyGood
<1> QED
  BY <1>1, <1>3, <1>4, <1>5 DEF IntentInv

(* Entries that leave the cache, or are only marked as used.                *)
LEMMA CacheShrinks ==
  ASSUME CacheGood, DOMAIN cache' = Inputs,
         \A j \in Inputs : \/ cache'[j] = NoEntryYet \/ cache'[j] = cache[j]
                           \/ j \in Stored /\ cache'[j] \in Entries /\ cache'[j].id = cache[j].id
  PROVE  CacheGood'
<1>1. Stored' \subseteq Stored
  BY DEF Stored
<1>2. IsFiniteSet(Stored') /\ Cardinality(Stored') <= Cardinality(Stored)
  BY <1>1, FS_Subset DEF CacheGood
<1>3. Cardinality(Stored) \in Nat /\ Cardinality(Stored') \in Nat /\ MaxEntries \in Nat
  BY <1>2, FS_CardinalityType, IntentAssumption DEF CacheGood
<1>4. \A j \in Stored' : cache'[j] \in Entries /\ InputOf(cache'[j].id) = j
  BY <1>1 DEF CacheGood, Stored
<1> QED
  BY <1>2, <1>3, <1>4 DEF CacheGood

(* The cache never outgrows its limit: at the limit the oldest entry goes.  *)
LEMMA InsertKept ==
  ASSUME CacheGood, NEW i, NEW e \in Entries, InputOf(e.id) = i, cache' \in Insert(i, e)
  PROVE  CacheGood'
<1> DEFINE oldest == {j \in Stored : \A k \in Stored : cache[j].used <= cache[k].used}
           victims == IF Cardinality(Stored) >= MaxEntries THEN oldest ELSE {i}
<1>1. CASE e.confidence < 80
  <2>1. cache' = cache
    BY <1>1 DEF Insert
  <2> QED
    BY <2>1, CacheShrinks DEF CacheGood
<1>2. CASE ~(e.confidence < 80)
  <2>1. PICK v \in victims : cache' = [j \in Inputs |-> IF j = i THEN e ELSE IF j = v THEN NoEntryYet ELSE cache[j]]
    BY <1>2 DEF Insert
  <2>2. Stored' \subseteq (Stored \ {v}) \cup {i}
    BY <2>1 DEF Stored
  <2>3. /\ IsFiniteSet(Stored) /\ Cardinality(Stored) \in Nat /\ Cardinality(Stored) <= MaxEntries
        /\ MaxEntries \in Nat /\ MaxEntries > 0
    BY FS_CardinalityType, IntentAssumption DEF CacheGood
  <2>4. IsFiniteSet(Stored') /\ Cardinality(Stored') <= MaxEntries
    <3>1. CASE Cardinality(Stored) >= MaxEntries
      <4> DEFINE rest == Stored \ {v}
      <4>1. v \in Stored
        BY <2>1, <3>1
      <4>2. IsFiniteSet(rest) /\ Cardinality(rest) = Cardinality(Stored) - 1
        BY <2>3, <4>1, FS_RemoveElement
      <4> HIDE DEF rest
      <4>3. IsFiniteSet(rest \cup {i}) /\ Cardinality(rest \cup {i}) <= Cardinality(Stored)
        <5> DEFINE m == Cardinality(rest)
                   n == Cardinality(rest \cup {i})
        <5>1. m \in Nat
          BY <4>2, FS_CardinalityType
        <5>2. IsFiniteSet(rest \cup {i}) /\ n = IF i \in rest THEN m ELSE m + 1
          BY <4>2, FS_AddElement
        <5>3. m = Cardinality(Stored) - 1
          BY <4>2
        <5> HIDE DEF m, n
        <5>4. n <= Cardinality(Stored)
          BY <2>3, <5>1, <5>2, <5>3
        <5> QED
          BY <5>2, <5>4 DEF n
      <4>4. Stored' \subseteq rest \cup {i}
        BY <2>2 DEF rest
      <4>5. IsFiniteSet(Stored') /\ Cardinality(Stored') <= Cardinality(rest \cup {i})
        BY <4>3, <4>4, FS_Subset
      <4>6. Cardinality(Stored') \in Nat /\ Cardinality(rest \cup {i}) \in Nat
        BY <4>3, <4>5, FS_CardinalityType
      <4> QED
        BY <2>3, <4>3, <4>5, <4>6
    <3>2. CASE ~(Cardinality(Stored) >= MaxEntries)
      <4>1. IsFiniteSet(Stored \cup {i}) /\ Cardinality(Stored \cup {i}) <= Cardinality(Stored) + 1
        <5> DEFINE m == Cardinality(Stored)
                   n == Cardinality(Stored \cup {i})
        <5>1. IsFiniteSet(Stored \cup {i}) /\ n = IF i \in Stored THEN m ELSE m + 1
          BY <2>3, FS_AddElement
        <5>2. m \in Nat
          BY <2>3
        <5> HIDE DEF m, n
        <5>3. n <= m + 1
          BY <5>1, <5>2
        <5> QED
          BY <5>1, <5>3 DEF m, n
      <4>2. IsFiniteSet(Stored') /\ Cardinality(Stored') <= Cardinality(Stored \cup {i})
        BY <2>2, <4>1, FS_Subset
      <4>3. Cardinality(Stored') \in Nat /\ Cardinality(Stored \cup {i}) \in Nat
        BY <4>1, <4>2, FS_CardinalityType
      <4> QED
        BY <2>3, <3>2, <4>1, <4>2, <4>3
    <3> QED
      BY <3>1, <3>2
  <2>5. \A j \in Stored' : cache'[j] \in Entries /\ InputOf(cache'[j].id) = j
    BY <2>1 DEF CacheGood, Stored
  <2> QED
    BY <2>1, <2>4, <2>5 DEF CacheGood
<1> QED
  BY <1>1, <1>2

(* Answering frees the parser and gives one reply.                          *)
LEMMA AnswerStep ==
  ASSUME IntentShape, HolderGood, \A s \in Requests : ReplyGood(s), NEW r \in Requests,
         NEW a \in Replies(r), ~a.hit => a.id = r, a.hit => a.age <= MaxAge /\ a.source # "keyword",
         holder \in {r, Free}, Answer(r, a), time' = time
  PROVE  IntentShape' /\ HolderGood' /\ \A s \in Requests : ReplyGood(s)'
<1>1. /\ reply' = [reply EXCEPT ![r] = a] /\ phase' = [phase EXCEPT ![r] = "done"] /\ holder' = Free
  BY DEF Answer
<1>2. IntentShape'
  BY <1>1 DEF IntentShape
<1>3. HolderGood'
  BY <1>1, NamesAssumption DEF HolderGood, IntentShape
<1>4. \A s \in Requests : reply'[s] = IF s = r THEN a ELSE reply[s]
  BY <1>1 DEF IntentShape
<1>5. \A s \in Requests : ReplyGood(s)'
  BY <1>4 DEF ReplyGood
<1> QED
  BY <1>2, <1>3, <1>5

LEMMA LookupStep ==
  ASSUME IntentInv, NEW r \in Requests, Lookup(r)
  PROVE  IntentInv'
<1> DEFINE i == InputOf(r)
           missed == i # BlankInput /\ ~(i \in Stored /\ ~Expired(i))
<1>1. IntentShape /\ CacheGood /\ HolderGood /\ \A s \in Requests : ReplyGood(s)
  BY DEF IntentInv
<1>2. phase[r] = "waiting" /\ holder = Free /\ time' = time /\ time \in Nat /\ MaxAge \in Nat
  <2>1. time \in Nat /\ MaxAge \in Nat
    BY <1>1, IntentAssumption DEF IntentShape
  <2> QED
    BY <2>1 DEF Lookup
<1>3. CASE i = BlankInput
  <2> DEFINE a == [status |-> "ok", id |-> r, hit |-> FALSE, from |-> r, source |-> "none", age |-> 0]
  <2>1. Answer(r, a) /\ cache' = cache
    BY <1>3 DEF Lookup
  <2>2. a \in Replies(r) /\ a.hit = FALSE /\ a.id = r
    BY DEF Replies
  <2> HIDE DEF a
  <2>3. IntentShape' /\ HolderGood' /\ \A s \in Requests : ReplyGood(s)'
    BY <1>1, <1>2, <2>1, <2>2, AnswerStep
  <2>4. CacheGood'
    BY <1>1, <2>1 DEF CacheGood, Stored
  <2> QED
    BY <2>3, <2>4 DEF IntentInv
<1>4. CASE i # BlankInput /\ i \in Stored /\ ~Expired(i)
  <2> DEFINE e == cache[i]
             age == time - e.born
             a == [status |-> StatusOf(e.goal), id |-> e.id, hit |-> TRUE, from |-> e.id, source |-> e.source, age |-> age]
  <2>1. Answer(r, a) /\ cache' = [cache EXCEPT ![i].used = time]
    BY <1>4 DEF Lookup
  <2>2. e \in Entries /\ InputOf(e.id) = i /\ i \in Inputs
    BY <1>1, <1>4 DEF CacheGood, Stored
  <2>3. age \in Int /\ age <= MaxAge /\ e.id \in Requests /\ e.source = "model" /\ StatusOf(e.goal) \in {"ok", "unsupported"}
    BY <1>2, <1>4, <2>2, EntryNames DEF Expired, StatusOf
  <2>4. a \in Replies(r) /\ a.hit = TRUE /\ a.age = age /\ a.source = "model"
    <3> HIDE DEF age, e
    <3> QED
      BY <2>2, <2>3 DEF Replies
  <2> HIDE DEF a, age
  <2>5. IntentShape' /\ HolderGood' /\ \A s \in Requests : ReplyGood(s)'
    BY <1>1, <1>2, <2>1, <2>3, <2>4, AnswerStep
  <2>6. DOMAIN cache' = Inputs /\ \A j \in Inputs : cache'[j] = IF j = i THEN [e EXCEPT !.used = time] ELSE cache[j]
    BY <1>1, <2>1 DEF CacheGood
  <2> HIDE DEF e
  <2>7. [e EXCEPT !.used = time] \in Entries /\ [e EXCEPT !.used = time].id = e.id
    BY <1>2, <2>2, EntryNames
  <2>8. CacheGood'
    BY <1>1, <1>4, <2>6, <2>7, CacheShrinks DEF e
  <2> QED
    BY <2>5, <2>8 DEF IntentInv
<1>5. CASE missed
  <2>1. /\ cache' = (IF i \in Stored THEN [cache EXCEPT ![i] = NoEntryYet] ELSE cache)
        /\ phase' = [phase EXCEPT ![r] = "inferring"] /\ holder' = r /\ reply' = reply
    BY <1>5 DEF Lookup
  <2>2. IntentShape'
    BY <1>1, <1>2, <2>1 DEF IntentShape
  <2>3. HolderGood'
    BY <1>1, <1>2, <2>1, NamesAssumption DEF HolderGood, IntentShape
  <2>4. \A s \in Requests : ReplyGood(s)'
    BY <1>1, <2>1 DEF ReplyGood
  <2>5. DOMAIN cache' = Inputs /\ \A j \in Inputs : cache'[j] = NoEntryYet \/ cache'[j] = cache[j]
    BY <1>1, <2>1 DEF CacheGood
  <2>6. CacheGood'
    BY <1>1, <2>5, CacheShrinks
  <2> QED
    BY <2>2, <2>3, <2>4, <2>6 DEF IntentInv
<1> QED
  BY <1>3, <1>4, <1>5

(* Output that parses is answered, and the keyword answer always parses.   *)
LEMMA KeywordParsed ==
  ASSUME NEW certain \in BOOLEAN
  PROVE  LET o == KeywordOutput(certain) IN
         Parsed(o) /\ o.confidence \in {40, 25} /\ o.source = "keyword"
BY DEF KeywordOutput, Parsed

LEMMA FinishStep ==
  ASSUME IntentInv, NEW r \in Requests, holder = r, NEW o, Parsed(o), Finish(r, o),
         o.source \in {"model", "keyword"}, o \in Outputs \/ (o.confidence < 80)
  PROVE  IntentInv'
<1> DEFINE e == [id |-> r, goal |-> o.goal, confidence |-> o.confidence, source |-> o.source, born |-> time, used |-> time]
           a == [status |-> StatusOf(o.goal), id |-> r, hit |-> FALSE, from |-> r, source |-> o.source, age |-> 0]
<1>1. IntentShape /\ CacheGood /\ HolderGood /\ \A s \in Requests : ReplyGood(s)
  BY DEF IntentInv
<1>2. cache' \in Insert(InputOf(r), e) /\ Answer(r, a) /\ time' = time /\ time \in Nat
  <2>1. time \in Nat
    BY <1>1, IntentAssumption DEF IntentShape
  <2> QED
    BY <2>1 DEF Finish
<1>3. StatusOf(o.goal) \in {"ok", "unsupported"}
  BY DEF StatusOf
<1>4. a \in Replies(r) /\ a.hit = FALSE /\ a.id = r
  BY <1>3 DEF Replies
<1>5. IntentShape' /\ HolderGood' /\ \A s \in Requests : ReplyGood(s)'
  <2> HIDE DEF a
  <2> QED
    BY <1>1, <1>2, <1>4, AnswerStep
<1>6. CacheGood'
  <2>1. CASE o.confidence < 80
    <3>1. e.confidence < 80
      BY <2>1
    <3>2. cache' = cache
      BY <1>2, <3>1 DEF Insert
    <3> QED
      BY <1>1, <3>2 DEF CacheGood, Stored
  <2>2. CASE o \in Outputs
    <3>1. e \in Entries /\ e.id = r
      BY <1>2, <2>2, NamesAssumption DEF Entries
    <3> HIDE DEF e
    <3> QED
      BY <1>1, <1>2, <3>1, InsertKept
  <2> QED
    BY <2>1, <2>2
<1> QED
  BY <1>5, <1>6 DEF IntentInv

LEMMA InferStep ==
  ASSUME IntentInv, NEW r \in Requests, Infers(r)
  PROVE  IntentInv'
<1>1. IntentShape /\ CacheGood /\ HolderGood /\ \A s \in Requests : ReplyGood(s)
  BY DEF IntentInv
<1>2. phase[r] \in {"inferring", "correcting"} /\ holder = r
  BY <1>1 DEF Infers, CompletionFails, Completes, HolderGood
<1>3. ASSUME NEW certain \in BOOLEAN, Finish(r, KeywordOutput(certain))
      PROVE  IntentInv'
  <2>1. Parsed(KeywordOutput(certain)) /\ KeywordOutput(certain).confidence < 80 /\ KeywordOutput(certain).source = "keyword"
    BY KeywordParsed
  <2> QED
    BY <1>2, <1>3, <2>1, FinishStep
<1>4. ASSUME NEW o \in Outputs, Parsed(o), Finish(r, o)
      PROVE  IntentInv'
  BY <1>2, <1>4, FinishStep, NamesAssumption
<1>5. ASSUME phase[r] = "inferring", phase' = [phase EXCEPT ![r] = "correcting"], UNCHANGED <<holder, cache, reply, time>>
      PROVE  IntentInv'
  <2>1. IntentShape' /\ HolderGood'
    BY <1>1, <1>5 DEF IntentShape, HolderGood
  <2>2. CacheGood' /\ \A s \in Requests : ReplyGood(s)'
    BY <1>1, <1>5 DEF CacheGood, Stored, ReplyGood
  <2> QED
    BY <2>1, <2>2 DEF IntentInv
<1>6. CASE CompletionFails(r)
  BY <1>3, <1>6 DEF CompletionFails
<1>7. ASSUME NEW o \in Outputs, Completes(r, o)
      PROVE  IntentInv'
  BY <1>3, <1>4, <1>5, <1>7 DEF Completes
<1> QED
  BY <1>6, <1>7 DEF Infers

LEMMA IntentStep ==
  ASSUME IntentInv, [IntentNext]_intentVars
  PROVE  IntentInv'
<1>1. IntentShape /\ CacheGood /\ HolderGood /\ \A s \in Requests : ReplyGood(s)
  BY DEF IntentInv
<1>2. UNCHANGED cache => CacheGood'
  BY <1>1 DEF CacheGood, Stored
<1>3. UNCHANGED reply => \A s \in Requests : ReplyGood(s)'
  BY <1>1 DEF ReplyGood
<1>4. CASE UNCHANGED intentVars
  <2>1. IntentShape' /\ HolderGood'
    BY <1>1, <1>4 DEF IntentShape, HolderGood, intentVars
  <2> QED
    BY <1>2, <1>3, <1>4, <2>1 DEF IntentInv, intentVars
<1>5. ASSUME NEW r \in Requests, Arrive(r) \/ Cancel(r)
      PROVE  IntentInv'
  <2>1. IntentShape' /\ HolderGood'
    BY <1>1, <1>5, NamesAssumption DEF Arrive, Cancel, IntentShape, HolderGood
  <2> QED
    BY <1>2, <1>3, <1>5, <2>1 DEF IntentInv, Arrive, Cancel
<1>6. CASE InvalidateAll
  <2>1. IntentShape' /\ HolderGood'
    BY <1>1, <1>6 DEF InvalidateAll, IntentShape, HolderGood
  <2>2. DOMAIN cache' = Inputs /\ \A j \in Inputs : cache'[j] = NoEntryYet
    BY <1>6 DEF InvalidateAll
  <2>3. CacheGood'
    BY <1>1, <2>2, CacheShrinks
  <2> QED
    BY <1>3, <1>6, <2>1, <2>3 DEF IntentInv, InvalidateAll
<1>7. CASE IntentTick
  <2>1. IntentShape' /\ HolderGood'
    BY <1>1, <1>7, IntentAssumption DEF IntentTick, IntentShape, HolderGood
  <2> QED
    BY <1>2, <1>3, <1>7, <2>1 DEF IntentInv, IntentTick
<1> QED
  BY <1>4, <1>5, <1>6, <1>7, LookupStep, InferStep DEF IntentNext

LEMMA RepliesHold == IntentInv => RepliesSound
<1> SUFFICES ASSUME IntentInv PROVE RepliesSound
  OBVIOUS
<1>1. CacheGood /\ HolderGood /\ \A r \in Requests : ReplyGood(r)
  BY DEF IntentInv
<1>2. \A r \in Requests : reply[r].status # "failed"
  BY <1>1 DEF ReplyGood, Replies, NoReply
<1>3. ASSUME NEW r \in Requests, NEW s \in Requests, r # s, reply[r] # NoReply, reply[s] # NoReply, reply[r].id = reply[s].id
      PROVE  (reply[r].hit \/ reply[s].hit) /\ InputOf(r) = InputOf(s)
  <2>1. /\ InputOf(reply[r].id) = InputOf(r) /\ (~reply[r].hit => reply[r].id = r)
        /\ InputOf(reply[s].id) = InputOf(s) /\ (~reply[s].hit => reply[s].id = s)
    BY <1>1, <1>3 DEF ReplyGood, Replies
  <2> QED
    BY <1>3, <2>1
<1>4. \A r \in Requests : reply[r] # NoReply /\ reply[r].hit => reply[r].age <= MaxAge /\ reply[r].source # "keyword"
  BY <1>1 DEF ReplyGood
<1> QED
  BY <1>1, <1>2, <1>3, <1>4 DEF RepliesSound, CacheGood, HolderGood
-------------------------------------------------------------------------------
(* The memory index.                                                       *)

LEMMA StampsOfRange == \A s : Stamps(s) = {e.stamp : e \in Range(s)}
BY DEF Stamps, Range

LEMMA RangeAppended ==
  ASSUME NEW S, NEW s \in Seq(S), NEW e
  PROVE  /\ Range(Append(s, e)) = Range(s) \cup {e} /\ Stamps(Append(s, e)) = Stamps(s) \cup {e.stamp}
         /\ \A k \in 1..Len(s) : Append(s, e)[k] = s[k]
         /\ Append(s, e)[Len(s) + 1] = e /\ Len(Append(s, e)) = Len(s) + 1 /\ Len(s) \in Nat
<1> DEFINE t == Append(s, e)
<1>1. /\ Len(s) \in Nat /\ DOMAIN s = 1..Len(s) /\ DOMAIN t = 1..(Len(s) + 1)
      /\ (\A k \in 1..Len(s) : t[k] = s[k]) /\ t[Len(s) + 1] = e /\ Len(t) = Len(s) + 1
  <2> DEFINE T == S \cup {e}
  <2>1. s \in Seq(T) /\ e \in T
    OBVIOUS
  <2> HIDE DEF T
  <2> QED
    BY <2>1
<1> HIDE DEF t
<1>2. Range(t) = Range(s) \cup {e}
  <2>1. \A k \in DOMAIN t : t[k] \in Range(s) \cup {e}
    BY <1>1 DEF Range
  <2>2. \A k \in DOMAIN s : s[k] \in Range(t)
    BY <1>1 DEF Range
  <2>3. e \in Range(t)
    BY <1>1 DEF Range
  <2> QED
    BY <2>1, <2>2, <2>3 DEF Range
<1>3. Stamps(t) = Stamps(s) \cup {e.stamp}
  BY <1>2, StampsOfRange
<1> QED
  BY <1>1, <1>2, <1>3 DEF t

(* wipe_domain keeps the records of the other domains, in their order.      *)
LEMMA RecordsKept ==
  ASSUME NEW L, records \in Seq(L), NEW d
  PROVE  KeptRecords(d) \in Seq(L) /\ Range(KeptRecords(d)) = {e \in Range(records) : Keeps(e, d)}
<1> DEFINE N == Len(records)
           Next1(i, s) == IF Keeps(records[i], d) THEN Append(s, records[i]) ELSE s
           Rec(f) == f = [i \in 0..N |-> IF i = 0 THEN <<>>
                                          ELSE IF Keeps(records[i], d) THEN Append(f[i - 1], records[i]) ELSE f[i - 1]]
           kept == CHOOSE f : Rec(f)
           Good(i, s) == s \in Seq(L) /\ Range(s) = {e \in {records[j] : j \in 1..i} : Keeps(e, d)}
<1>1. N \in Nat /\ DOMAIN records = 1..N /\ \A i \in 1..N : records[i] \in L
  OBVIOUS
<1>2. KeptRecords(d) = kept[N]
  BY DEF KeptRecords
<1>3. \E f : Rec(f)
  <2> DEFINE X == Seq(L)
             G == [x \in (1..N) \X X |-> Next1(x[1], x[2])]
  <2>1. G \in [(1..N) \X X -> X] /\ <<>> \in X
    <3> SUFFICES ASSUME NEW x \in (1..N) \X X PROVE Next1(x[1], x[2]) \in X
      OBVIOUS
    <3>1. x[1] \in 1..N /\ x[2] \in Seq(L) /\ records[x[1]] \in L
      BY <1>1
    <3> HIDE DEF Keeps
    <3> QED
      BY <3>1
  <2> HIDE DEF G, X
  <2>2. PICK f \in [0..N -> X] : f[0] = <<>> /\ \A i \in 1..N : f[i] = G[<<i, f[i - 1]>>]
    <3>1. WalkOf(X, <<>>, N, G)
      BY <1>1, <2>1, WalkExists
    <3> QED
      BY <3>1 DEF WalkOf
  <2>3. ASSUME NEW i \in 1..N PROVE f[i] = Next1(i, f[i - 1])
    <3>1. i - 1 \in 0..N
      BY <1>1
    <3>2. f[i - 1] \in X
      BY <2>2, <3>1
    <3>3. <<i, f[i - 1]>> \in (1..N) \X X
      BY <3>2
    <3> QED
      BY <2>2, <3>3 DEF G
  <2>4. f = [i \in 0..N |-> IF i = 0 THEN <<>> ELSE Next1(i, f[i - 1])]
    <3> HIDE DEF Next1
    <3>1. \A i \in 0..N : f[i] = IF i = 0 THEN <<>> ELSE Next1(i, f[i - 1])
      <4> SUFFICES ASSUME NEW i \in 0..N PROVE f[i] = IF i = 0 THEN <<>> ELSE Next1(i, f[i - 1])
        OBVIOUS
      <4>1. CASE i = 0
        BY <2>2, <4>1
      <4>2. CASE i # 0
        <5>1. i \in 1..N
          BY <1>1, <4>2
        <5> QED
          BY <2>3, <4>2, <5>1
      <4> QED
        BY <4>1, <4>2
    <3> QED
      BY <2>2, <3>1
  <2> QED
    BY <2>4
<1>4. Rec(kept)
  BY <1>3
<1> HIDE DEF kept
<1>5. kept[0] = <<>> /\ \A i \in 1..N : kept[i] = Next1(i, kept[i - 1])
  <2>1. \A i \in 0..N : kept[i] = IF i = 0 THEN <<>> ELSE Next1(i, kept[i - 1])
    BY <1>4
  <2> HIDE DEF Next1
  <2> QED
    BY <1>1, <2>1
<1> DEFINE At == {i \in Nat : i <= N => Good(i, kept[i])}
<1>6. 0 \in At
  <2>1. <<>> \in Seq(L) /\ Range(<<>>) = {} /\ 1..0 = {}
    BY DEF Range
  <2>2. Good(0, kept[0])
    BY <1>5, <2>1
  <2> HIDE DEF Good
  <2> QED
    BY <2>2
<1>7. ASSUME NEW i \in At PROVE i + 1 \in At
  <2>1. SUFFICES ASSUME i + 1 <= N PROVE Good(i + 1, kept[i + 1])
    OBVIOUS
  <2> DEFINE s == kept[i]
             r == records[i + 1]
  <2>2. i \in Nat /\ i <= N /\ i + 1 \in 1..N /\ (i + 1) - 1 = i /\ 1..(i + 1) = 1..i \cup {i + 1}
    BY <1>1, <2>1
  <2>3. s \in Seq(L) /\ Range(s) = {e \in {records[j] : j \in 1..i} : Keeps(e, d)} /\ r \in L
    BY <1>1, <2>2
  <2>4. kept[i + 1] = IF Keeps(r, d) THEN Append(s, r) ELSE s
    BY <1>5, <2>2
  <2>5. {records[j] : j \in 1..(i + 1)} = {records[j] : j \in 1..i} \cup {r}
    BY <2>2
  <2> HIDE DEF s, r, Keeps
  <2>6. CASE Keeps(r, d)
    <3>1. kept[i + 1] = Append(s, r) /\ Append(s, r) \in Seq(L)
      BY <2>3, <2>4, <2>6
    <3>2. Range(Append(s, r)) = Range(s) \cup {r}
      BY <2>3, RangeAppended
    <3> QED
      BY <2>3, <2>5, <2>6, <3>1, <3>2
  <2>7. CASE ~Keeps(r, d)
    BY <2>3, <2>4, <2>5, <2>7
  <2> QED
    BY <2>6, <2>7
<1>8. At = Nat
  <2> HIDE DEF At
  <2>1. At \in SUBSET Nat
    BY DEF At
  <2> QED
    BY <1>6, <1>7, <2>1, NatSetInduction
<1>9. Good(N, kept[N])
  <2> HIDE DEF Good
  <2>1. N \in At /\ N <= N
    BY <1>1, <1>8
  <2> QED
    BY <2>1
<1>10. Range(records) = {records[j] : j \in 1..N}
  BY <1>1 DEF Range
<1> QED
  BY <1>2, <1>9, <1>10

LEMMA NothingIn == Range(<<>>) = {} /\ Stamps(<<>>) = {} /\ \A S : <<>> \in Seq(S) /\ Len(<<>>) = 0
BY DEF Range, Stamps

LEMMA IndexInitial == IndexInit => IndexInv
<1> SUFFICES ASSUME IndexInit PROVE IndexInv
  OBVIOUS
<1>1. /\ queue = <<>> /\ records = <<>> /\ ragged = FALSE /\ drain = NotDraining /\ wiper = NotWiping /\ appended = 0
      /\ wiper.kept = <<>> /\ wiper.phase = "none"
      /\ tried = {} /\ indexed = {} /\ late = {} /\ wiped = {} /\ raced = {} /\ restored = {} /\ torn = {}
  BY DEF IndexInit, NotWiping
<1>2. Range(queue) = {} /\ Range(records) = {} /\ Range(wiper.kept) = {} /\ Stamps(records) = {} /\ Stamps(wiper.kept) = {}
  BY <1>1, NothingIn
<1>3. IndexShape
  <2>1. appended \in 0..MaxQueued /\ {queue, records, wiper.kept} \subseteq Seq(Lines) /\ Len(queue) <= appended
    BY <1>1, IndexAssumption, NothingIn
  <2>2. drain \in [phase : {"idle", "reading", "end"}, line : 0..MaxQueued] /\ drain.line <= Len(queue)
    BY <1>1, IndexAssumption, NothingIn DEF NotDraining
  <2>3. tried \cup indexed \cup late \cup wiped \cup raced \cup restored \cup torn \subseteq 1..appended /\ ragged \in BOOLEAN
    BY <1>1
  <2> QED
    BY <1>1, <2>1, <2>2, <2>3 DEF IndexShape
<1>4. DrainInv
  BY <1>1 DEF DrainInv, LinesTried, NotDraining
<1>5. StampsApart /\ StoreInv
  BY <1>1, <1>2 DEF StampsApart, StoreInv, RecordsHeld, WipedStaysGone
<1> QED
  BY <1>3, <1>4, <1>5 DEF IndexInv

(* What IndexShape says, one by one. *)
LEMMA IndexTypes ==
  ASSUME IndexShape
  PROVE  /\ appended \in Nat /\ appended <= MaxQueued /\ MaxQueued \in Nat
         /\ queue \in Seq(Lines) /\ records \in Seq(Lines) /\ wiper.kept \in Seq(Lines)
         /\ Len(queue) \in Nat /\ Len(queue) <= appended /\ DOMAIN queue = 1..Len(queue)
         /\ drain.phase \in {"idle", "reading", "end"} /\ drain.line \in Nat /\ drain.line <= Len(queue)
         /\ \A e \in Range(queue) \cup Range(records) \cup Range(wiper.kept) : e \in Lines /\ e.stamp \in 1..appended /\ e.path \in Paths
<1>1. appended \in Nat /\ appended <= MaxQueued /\ MaxQueued \in Nat
  BY IndexAssumption DEF IndexShape
<1>2. queue \in Seq(Lines) /\ records \in Seq(Lines) /\ wiper.kept \in Seq(Lines)
  BY DEF IndexShape
<1>3. \A s \in Seq(Lines) : \A e \in Range(s) : e \in Lines
  BY DEF Range
<1>4. \A e \in Lines : e.stamp \in 1..appended /\ e.path \in Paths
  BY DEF Lines
<1>5. Len(queue) \in Nat /\ DOMAIN queue = 1..Len(queue)
  BY <1>2
<1>6. drain.phase \in {"idle", "reading", "end"} /\ drain.line \in Nat
  BY <1>1 DEF IndexShape
<1>7. Len(queue) <= appended /\ drain.line <= Len(queue)
  BY DEF IndexShape
<1> QED
  BY <1>1, <1>2, <1>3, <1>4, <1>5, <1>6, <1>7

(* Steps on one of the two files.                                           *)
LEMMA QueueMoves ==
  ASSUME StoreInv, UNCHANGED <<records, wiper, indexed, wiped, raced, restored, torn>>
  PROVE  StoreInv'
BY DEF StoreInv, RecordsHeld, Held, WipedStaysGone, Keeps

LEMMA StoreMoves ==
  ASSUME IndexInv, UNCHANGED <<queue, drain, appended, tried, late>>,
         records' \in Seq(Lines), wiper'.kept \in Seq(Lines), ragged' \in BOOLEAN,
         Range(records') \cup Range(wiper'.kept) \subseteq Range(records) \cup Range(wiper.kept),
         wiper'.phase \in {"none", "read", "writing"}, wiper'.phase = "none" => wiper' = NotWiping,
         indexed' \cup wiped' \cup raced' \cup restored' \cup torn' \subseteq 1..appended, StoreInv'
  PROVE  IndexInv'
<1>1. Lines' = Lines
  BY DEF Lines
<1>2. IndexShape'
  BY <1>1 DEF IndexInv, IndexShape
<1>3. StampsApart'
  BY DEF IndexInv, StampsApart
<1>4. DrainInv'
  BY DEF IndexInv, DrainInv, LinesTried
<1> QED
  BY <1>2, <1>3, <1>4 DEF IndexInv

LEMMA EnqueueStep ==
  ASSUME IndexInv, NEW p \in Paths, Enqueue(p)
  PROVE  IndexInv'
<1> DEFINE e == [path |-> p, stamp |-> appended + 1]
<1>1. /\ appended < MaxQueued /\ appended' = appended + 1 /\ queue' = Append(queue, e)
      /\ late' = IF drain.phase = "end" THEN late \cup {appended + 1} ELSE late
      /\ UNCHANGED <<records, ragged, drain, wiper, tried, indexed, wiped, raced, restored, torn>>
  BY DEF Enqueue
<1>2. /\ appended \in Nat /\ MaxQueued \in Nat /\ queue \in Seq(Lines) /\ records \in Seq(Lines) /\ wiper.kept \in Seq(Lines)
      /\ Len(queue) \in Nat /\ Len(queue) <= appended /\ drain.line \in Nat /\ drain.line <= Len(queue)
      /\ \A x \in Range(queue) \cup Range(records) \cup Range(wiper.kept) : x.stamp \in 1..appended
  BY IndexTypes DEF IndexInv
<1>3. e.stamp = appended + 1 /\ e \in Lines' /\ Lines \subseteq Lines'
  BY <1>1, <1>2 DEF Lines
<1> HIDE DEF e
<1>4. /\ Range(queue') = Range(queue) \cup {e} /\ Stamps(queue') = Stamps(queue) \cup {appended + 1}
      /\ \A k \in 1..Len(queue) : queue'[k] = queue[k]
      /\ queue'[Len(queue) + 1] = e /\ Len(queue') = Len(queue) + 1
  BY <1>1, <1>2, <1>3, RangeAppended
<1>5. queue' \in Seq(Lines') /\ records' \in Seq(Lines') /\ wiper'.kept \in Seq(Lines')
  <2> DEFINE A == Lines
             B == Lines'
  <2>1. A \subseteq B /\ e \in B /\ queue \in Seq(A) /\ records \in Seq(A) /\ wiper.kept \in Seq(A)
    BY <1>2, <1>3
  <2> HIDE DEF A, B
  <2>2. queue \in Seq(B) /\ records \in Seq(B) /\ wiper.kept \in Seq(B)
    BY <2>1
  <2>3. Append(queue, e) \in Seq(B)
    BY <2>1, <2>2
  <2> QED
    BY <1>1, <2>2, <2>3 DEF B
<1>6. IndexShape'
  <2>1. appended' \in 0..MaxQueued /\ Len(queue') <= appended' /\ drain'.line <= Len(queue')
    BY <1>1, <1>2, <1>4
  <2>2. tried' \cup indexed' \cup late' \cup wiped' \cup raced' \cup restored' \cup torn' \subseteq 1..appended'
    <3>1. 1..appended' = 1..appended \cup {appended + 1}
      BY <1>1, <1>2
    <3>2. tried \cup indexed \cup late \cup wiped \cup raced \cup restored \cup torn \subseteq 1..appended
      BY DEF IndexInv, IndexShape
    <3> QED
      BY <1>1, <3>1, <3>2
  <2>3. drain' \in [phase : {"idle", "reading", "end"}, line : 0..MaxQueued] /\ (drain'.phase = "idle" => drain' = NotDraining)
    BY <1>1 DEF IndexInv, IndexShape
  <2> QED
    BY <1>1, <1>5, <2>1, <2>2, <2>3 DEF IndexInv, IndexShape
<1>7. StampsApart'
  <2> DEFINE old == Range(queue) \cup Range(records) \cup Range(wiper.kept)
  <2>1. (Range(queue) \cup Range(records) \cup Range(wiper.kept))' = old \cup {e}
    BY <1>1, <1>4
  <2>2. \A x \in old : x.stamp # appended + 1
    BY <1>2
  <2>3. \A x, y \in old : x.stamp = y.stamp => x = y
    BY DEF IndexInv, StampsApart
  <2> HIDE DEF old
  <2>4. \A x, y \in old \cup {e} : x.stamp = y.stamp => x = y
    BY <1>3, <2>2, <2>3
  <2> QED
    BY <2>1, <2>4 DEF StampsApart
<1>8. DrainInv'
  <2>1. LinesTried'
    <3>1. (1..appended)' = 1..appended \cup {appended + 1}
      BY <1>1, <1>2
    <3> QED
      BY <1>1, <1>4, <3>1 DEF IndexInv, DrainInv, LinesTried
  <2>2. \A k \in 1..drain.line : queue'[k].stamp \in tried'
    BY <1>1, <1>2, <1>4 DEF IndexInv, DrainInv
  <2>3. drain.phase = "end" => \A k \in (drain.line + 1)..(Len(queue) + 1) : queue'[k].stamp \in late'
    <3> SUFFICES ASSUME drain.phase = "end", NEW k \in (drain.line + 1)..(Len(queue) + 1) PROVE queue'[k].stamp \in late'
      OBVIOUS
    <3>1. late' = late \cup {appended + 1}
      BY <1>1
    <3>2. CASE k = Len(queue) + 1
      BY <1>3, <1>4, <3>1, <3>2
    <3>3. CASE k # Len(queue) + 1
      <4>1. k \in (drain.line + 1)..Len(queue) /\ k \in 1..Len(queue)
        BY <1>2, <3>3
      <4> QED
        BY <1>4, <3>1, <4>1 DEF IndexInv, DrainInv
    <3> QED
      BY <3>2, <3>3
  <2> QED
    BY <1>1, <1>4, <2>1, <2>2, <2>3 DEF DrainInv
<1>9. StoreInv'
  BY <1>1, QueueMoves DEF IndexInv
<1> QED
  BY <1>6, <1>7, <1>8, <1>9 DEF IndexInv

LEMMA IndexLineStep ==
  ASSUME IndexInv, IndexLine
  PROVE  IndexInv'
<1> DEFINE e == queue[drain.line + 1]
<1>1. /\ drain.phase = "reading" /\ drain.line < Len(queue) /\ drain' = [drain EXCEPT !.line = @ + 1]
      /\ tried' = tried \cup {e.stamp} /\ UNCHANGED <<queue, wiper, appended, late, restored>>
      /\ WriteRecord(e) \/ (ragged' \in {ragged, ragged \/ e.path \in Indexable} /\ UNCHANGED <<records, indexed, wiped, raced, torn>>)
  BY DEF IndexLine
<1>2. /\ appended \in Nat /\ MaxQueued \in Nat /\ appended <= MaxQueued /\ queue \in Seq(Lines) /\ records \in Seq(Lines)
      /\ wiper.kept \in Seq(Lines) /\ Len(queue) \in Nat /\ Len(queue) <= appended /\ DOMAIN queue = 1..Len(queue)
      /\ drain.line \in Nat
  BY IndexTypes DEF IndexInv
<1>3. e \in Range(queue) /\ e \in Lines /\ e.stamp \in 1..appended
  <2>1. drain.line + 1 \in DOMAIN queue
    BY <1>1, <1>2
  <2>2. e \in Range(queue)
    BY <2>1 DEF Range
  <2> QED
    BY <2>2, IndexTypes DEF IndexInv
<1>4. drain'.line = drain.line + 1 /\ drain'.phase = "reading" /\ drain' \in [phase : {"idle", "reading", "end"}, line : 0..MaxQueued]
  BY <1>1, <1>2 DEF IndexInv, IndexShape
<1>5. DrainInv'
  <2>1. \A k \in 1..(drain.line + 1) : queue[k].stamp \in tried'
    <3> SUFFICES ASSUME NEW k \in 1..(drain.line + 1) PROVE queue[k].stamp \in tried'
      OBVIOUS
    <3>1. CASE k = drain.line + 1
      BY <1>1, <3>1
    <3>2. CASE k # drain.line + 1
      <4>1. k \in 1..drain.line
        BY <1>2, <3>2
      <4> QED
        BY <1>1, <4>1 DEF IndexInv, DrainInv
    <3> QED
      BY <3>1, <3>2
  <2>2. LinesTried'
    BY <1>1 DEF IndexInv, DrainInv, LinesTried
  <2> QED
    BY <1>1, <1>4, <2>1, <2>2 DEF DrainInv
<1> HIDE DEF e
<1>6. ragged' \in BOOLEAN
  BY <1>1 DEF IndexInv, IndexShape, WriteRecord
<1>7. ASSUME records' \in Seq(Lines), Range(records') \subseteq Range(records) \cup {e}, StoreInv',
             indexed' \cup wiped' \cup raced' \cup torn' \subseteq indexed \cup wiped \cup raced \cup torn \cup {e.stamp}
      PROVE  IndexInv'
  <2>1. Lines' = Lines
    BY <1>1 DEF Lines
  <2>2. tried' \cup indexed' \cup late' \cup wiped' \cup raced' \cup restored' \cup torn' \subseteq 1..appended
    <3>1. tried \cup indexed \cup late \cup wiped \cup raced \cup restored \cup torn \subseteq 1..appended
      BY DEF IndexInv, IndexShape
    <3> QED
      BY <1>1, <1>3, <1>7, <3>1
  <2>3. drain'.line <= Len(queue')
    BY <1>1, <1>2, <1>4
  <2>4. IndexShape'
    BY <1>1, <1>2, <1>4, <1>6, <1>7, <2>1, <2>2, <2>3 DEF IndexInv, IndexShape
  <2>5. StampsApart'
    BY <1>1, <1>3, <1>7 DEF IndexInv, StampsApart
  <2> QED
    BY <1>5, <1>7, <2>4, <2>5 DEF IndexInv
<1>8. CASE UNCHANGED <<records, indexed, wiped, raced, torn>>
  <2>1. StoreInv'
    BY <1>1, <1>8, QueueMoves DEF IndexInv
  <2> QED
    BY <1>2, <1>7, <1>8, <2>1
<1>9. CASE WriteRecord(e)
  <2>1. /\ indexed' = indexed \cup {e.stamp} /\ raced \subseteq raced' /\ raced' \subseteq raced \cup {e.stamp}
        /\ wiper # NotWiping => e.stamp \in raced'
    BY <1>9 DEF WriteRecord
  <2>2. \A x \in Range(wiper.kept) : Keeps(x, wiper.domain)
    BY DEF IndexInv, StoreInv
  <2>3. CASE ragged
    <3>1. records' = records /\ wiped' = wiped /\ torn' = torn \cup {e.stamp}
      BY <1>9, <2>3 DEF WriteRecord
    <3>2. StoreInv'
      BY <1>1, <2>1, <2>2, <3>1 DEF IndexInv, StoreInv, RecordsHeld, Held, WipedStaysGone, Keeps
    <3> QED
      BY <1>2, <1>7, <2>1, <3>1, <3>2
  <2>4. CASE ~ragged
    <3>1. records' = Append(records, e) /\ wiped' = wiped \ {e.stamp} /\ torn' = torn
      BY <1>9, <2>4 DEF WriteRecord
    <3>2. Range(records') = Range(records) \cup {e} /\ Stamps(records') = Stamps(records) \cup {e.stamp}
      BY <1>2, <3>1, RangeAppended
    <3>3. records' \in Seq(Lines)
      BY <1>2, <1>3, <3>1
    <3>4. wiper.phase # "none" => e.stamp \in raced'
      BY <2>1 DEF NotWiping
    <3>5. RecordsHeld' /\ WipedStaysGone'
      BY <1>1, <2>1, <3>1, <3>2 DEF IndexInv, StoreInv, RecordsHeld, Held, WipedStaysGone
    <3>6. Stamps(wiper.kept) \cap wiped' \subseteq restored \cup raced'
      BY <2>1, <3>1 DEF IndexInv, StoreInv
    <3>7. wiper.phase = "read" =>
            \A r \in Range(records') : r.stamp \in Stamps(wiper.kept) \cup raced' \/ ~Keeps(r, wiper.domain)
      BY <2>1, <3>2, <3>4 DEF IndexInv, StoreInv
    <3>8. wiper.phase = "writing" => Stamps(records') \subseteq raced'
      BY <2>1, <3>2, <3>4 DEF IndexInv, StoreInv
    <3>9. StoreInv'
      BY <1>1, <2>2, <3>5, <3>6, <3>7, <3>8 DEF StoreInv, Keeps
    <3> QED
      BY <1>7, <2>1, <3>1, <3>2, <3>3, <3>9
  <2> QED
    BY <2>3, <2>4
<1> QED
  BY <1>1, <1>8, <1>9

(* The other moves of a drain leave records and wipes alone.                *)
LEMMA DrainStep ==
  ASSUME IndexInv, OpenQueue \/ ReachEnd \/ Truncate \/ CrashDraining
  PROVE  IndexInv'
<1>1. /\ UNCHANGED <<records, wiper, appended, tried, indexed, late, wiped, raced, restored, torn>>
      /\ queue' = queue \/ queue' = <<>>
  BY DEF OpenQueue, ReachEnd, Truncate, CrashDraining
<1>2. /\ appended \in Nat /\ MaxQueued \in Nat /\ appended <= MaxQueued /\ queue \in Seq(Lines)
      /\ Len(queue) \in Nat /\ Len(queue) <= appended /\ DOMAIN queue = 1..Len(queue) /\ drain.line \in Nat
  BY IndexTypes DEF IndexInv
<1>3. Lines' = Lines
  BY <1>1 DEF Lines
<1>4. queue' \in Seq(Lines) /\ Len(queue') <= appended /\ Range(queue') \subseteq Range(queue)
  <2>1. CASE queue' = queue
    BY <1>2, <2>1
  <2>2. CASE queue' = <<>>
    <3>1. <<>> \in Seq(Lines) /\ Len(<<>>) = 0 /\ Range(<<>>) = {}
      BY DEF Range
    <3> QED
      BY <1>2, <2>2, <3>1
  <2> QED
    BY <1>1, <2>1, <2>2
<1>5. /\ drain' \in [phase : {"idle", "reading", "end"}, line : 0..MaxQueued] /\ drain'.line <= Len(queue')
      /\ drain'.phase = "idle" => drain' = NotDraining
  <2>1. CASE OpenQueue
    BY <1>2, <2>1 DEF OpenQueue, NotDraining
  <2>2. CASE ReachEnd
    BY <1>2, <2>2 DEF ReachEnd, IndexInv, IndexShape
  <2>3. CASE Truncate \/ CrashDraining
    <3>1. drain' = NotDraining /\ Len(queue') \in Nat
      BY <1>1, <1>2, <2>3 DEF Truncate, CrashDraining
    <3> QED
      BY <1>2, <3>1 DEF NotDraining
  <2> QED
    BY <2>1, <2>2, <2>3
<1>6. IndexShape'
  <2>1. ragged' \in BOOLEAN
    BY DEF OpenQueue, ReachEnd, Truncate, CrashDraining, IndexInv, IndexShape
  <2> QED
    BY <1>1, <1>3, <1>4, <1>5, <2>1 DEF IndexInv, IndexShape
<1>7. StampsApart' /\ StoreInv'
  BY <1>1, <1>4, QueueMoves DEF IndexInv, StampsApart
<1>8. DrainInv'
  <2>1. CASE OpenQueue \/ CrashDraining
    <3>1. queue' = queue /\ drain'.line = 0 /\ drain'.phase # "end"
      BY <2>1 DEF OpenQueue, CrashDraining, NotDraining
    <3> QED
      BY <1>1, <3>1 DEF IndexInv, DrainInv, LinesTried
  <2>2. CASE ReachEnd
    <3>1. queue' = queue /\ drain'.line = drain.line /\ drain.line = Len(queue)
      BY <2>2 DEF ReachEnd, IndexInv, IndexShape
    <3>2. (drain.line + 1)..Len(queue) = {}
      BY <1>2, <3>1
    <3> QED
      BY <1>1, <3>1, <3>2 DEF IndexInv, DrainInv, LinesTried
  <2>3. CASE Truncate
    <3>1. drain.phase = "end" /\ queue' = <<>> /\ drain'.line = 0 /\ drain'.phase = "idle"
      BY <2>3 DEF Truncate, Truncates, NotDraining
    <3>2. Stamps(queue) \subseteq tried \cup late
      <4> SUFFICES ASSUME NEW k \in 1..Len(queue) PROVE queue[k].stamp \in tried \cup late
        BY <1>2 DEF Stamps
      <4>1. k \in 1..drain.line \/ k \in (drain.line + 1)..Len(queue)
        BY <1>2
      <4> QED
        BY <3>1, <4>1 DEF IndexInv, DrainInv
    <3> QED
      BY <1>1, <3>1, <3>2 DEF IndexInv, DrainInv, LinesTried
  <2> QED
    BY <2>1, <2>2, <2>3
<1> QED
  BY <1>6, <1>7, <1>8 DEF IndexInv

LEMMA ReadToWipeStep ==
  ASSUME IndexInv, NEW d, ReadToWipe(d)
  PROVE  IndexInv'
<1> DEFINE kept == KeptRecords(d)
<1>1. /\ wiper = NotWiping /\ wiper' = [phase |-> "read", domain |-> d, kept |-> kept]
      /\ UNCHANGED <<queue, records, ragged, drain, appended, tried, indexed, late, wiped, raced, restored, torn>>
  BY DEF ReadToWipe
<1>2. records \in Seq(Lines) /\ \A e \in Range(records) : e.stamp \in 1..appended
  BY IndexTypes DEF IndexInv
<1>3. kept \in Seq(Lines) /\ Range(kept) = {e \in Range(records) : Keeps(e, d)}
  BY <1>2, RecordsKept
<1> HIDE DEF kept
<1>4. wiper'.kept = kept /\ wiper'.phase = "read" /\ wiper'.domain = d /\ wiper.phase = "none"
  BY <1>1 DEF NotWiping
<1>5. \A r \in Range(records) : r.stamp \in Stamps(kept) \/ ~Keeps(r, d)
  BY <1>3, StampsOfRange
<1>6. Stamps(kept) \subseteq Stamps(records)
  BY <1>3, StampsOfRange
<1>7. RecordsHeld' /\ WipedStaysGone'
  BY <1>1, <1>4 DEF IndexInv, StoreInv, RecordsHeld, Held, WipedStaysGone
<1>8. Stamps(wiper'.kept) \cap wiped' \subseteq restored' \cup raced'
  BY <1>1, <1>4, <1>6 DEF IndexInv, StoreInv, WipedStaysGone
<1>9. (\A r \in Range(wiper.kept) : Keeps(r, wiper.domain))'
  BY <1>3, <1>4 DEF Keeps
<1>10. (\A r \in Range(records) : r.stamp \in Stamps(wiper.kept) \cup raced \/ ~Keeps(r, wiper.domain))'
  BY <1>1, <1>4, <1>5 DEF Keeps
<1>11. StoreInv'
  BY <1>4, <1>7, <1>8, <1>9, <1>10 DEF StoreInv
<1>12. indexed' \cup wiped' \cup raced' \cup restored' \cup torn' \subseteq 1..appended /\ ragged' \in BOOLEAN
  BY <1>1 DEF IndexInv, IndexShape
<1>13. Range(records') \cup Range(wiper'.kept) \subseteq Range(records) \cup Range(wiper.kept)
  BY <1>1, <1>3, <1>4
<1> QED
  BY <1>1, <1>2, <1>3, <1>4, <1>11, <1>12, <1>13, StoreMoves

LEMMA LeaveStoreStep ==
  ASSUME IndexInv, LeaveStore
  PROVE  IndexInv'
<1>1. /\ wiper.phase = "read" /\ wiper' = NotWiping
      /\ UNCHANGED <<queue, records, ragged, drain, appended, tried, indexed, late, wiped, raced, restored, torn>>
  BY DEF LeaveStore
<1>2. wiper'.kept = <<>> /\ wiper'.phase = "none" /\ Range(wiper'.kept) = {} /\ Stamps(wiper'.kept) = {}
  BY <1>1 DEF NotWiping, Range, Stamps
<1>3. StoreInv'
  BY <1>1, <1>2 DEF IndexInv, StoreInv, RecordsHeld, Held, WipedStaysGone
<1>4. indexed' \cup wiped' \cup raced' \cup restored' \cup torn' \subseteq 1..appended /\ ragged' \in BOOLEAN
  BY <1>1 DEF IndexInv, IndexShape
<1>5. records' \in Seq(Lines) /\ wiper'.kept \in Seq(Lines)
  BY <1>1, <1>2, IndexTypes DEF IndexInv
<1> QED
  BY <1>1, <1>2, <1>3, <1>4, <1>5, StoreMoves

LEMMA TruncateStoreStep ==
  ASSUME IndexInv, TruncateStore
  PROVE  IndexInv'
<1> DEFINE d == wiper.domain
           gone == {r.stamp : r \in {x \in Range(records) : DomainOf(x.path) = d}}
<1>1. /\ wiper.phase = "read" /\ wiper' = [phase |-> "writing", domain |-> d, kept |-> wiper.kept] /\ records' = <<>> /\ ragged' = FALSE
      /\ wiped' = wiped \cup gone /\ UNCHANGED <<queue, drain, appended, tried, indexed, late, raced, restored, torn>>
  BY DEF TruncateStore
<1>2. /\ records \in Seq(Lines) /\ wiper.kept \in Seq(Lines) /\ \A e \in Range(records) : e.stamp \in 1..appended
  BY IndexTypes DEF IndexInv
<1>3. Range(records') = {} /\ Stamps(records') = {} /\ records' \in Seq(Lines)
  BY <1>1 DEF Range, Stamps
<1>4. /\ wiper'.kept = wiper.kept /\ wiper'.domain = d /\ wiper'.phase = "writing"
  BY <1>1
<1> HIDE DEF gone
<1>5. gone \subseteq 1..appended
  BY <1>2 DEF gone
<1>6. RecordsHeld'
  <2>1. \A r \in Range(records) : r.stamp \in Stamps(wiper.kept) \cup raced \cup gone
    <3> SUFFICES ASSUME NEW r \in Range(records) PROVE r.stamp \in Stamps(wiper.kept) \cup raced \cup gone
      OBVIOUS
    <3>1. r.stamp \in Stamps(wiper.kept) \cup raced \/ ~Keeps(r, d)
      BY <1>1 DEF IndexInv, StoreInv
    <3> QED
      BY <3>1 DEF Keeps, gone
  <2>2. Stamps(records) \subseteq Stamps(wiper.kept) \cup raced \cup gone
    BY <2>1, StampsOfRange
  <2> QED
    BY <1>1, <1>4, <2>2 DEF IndexInv, StoreInv, RecordsHeld, Held
<1>7. Stamps(wiper.kept) \cap gone = {}
  <2> SUFFICES ASSUME NEW e \in Range(wiper.kept), NEW r \in Range(records), DomainOf(r.path) = d, e.stamp = r.stamp PROVE FALSE
    BY StampsOfRange DEF gone
  <2>1. e = r
    BY DEF IndexInv, StampsApart
  <2>2. Keeps(e, d)
    BY DEF IndexInv, StoreInv
  <2> QED
    BY <2>1, <2>2 DEF Keeps
<1>8. StoreInv'
  <2>1. Stamps(wiper'.kept) \cap wiped' \subseteq restored' \cup raced'
    BY <1>1, <1>4, <1>7 DEF IndexInv, StoreInv
  <2>2. (\A r \in Range(wiper.kept) : Keeps(r, wiper.domain))'
    BY <1>4 DEF IndexInv, StoreInv, Keeps
  <2>3. WipedStaysGone'
    BY <1>3 DEF WipedStaysGone
  <2> QED
    BY <1>3, <1>4, <1>6, <2>1, <2>2, <2>3 DEF StoreInv
<1>9. indexed' \cup wiped' \cup raced' \cup restored' \cup torn' \subseteq 1..appended /\ ragged' \in BOOLEAN
  BY <1>1, <1>5 DEF IndexInv, IndexShape
<1> QED
  BY <1>1, <1>2, <1>3, <1>4, <1>8, <1>9, StoreMoves

(* The first m and the last ones of a sequence.                             *)
LEMMA Split ==
  ASSUME NEW S, NEW s \in Seq(S), NEW m \in 0..Len(s)
  PROVE  /\ SubSeq(s, 1, m) \in Seq(S) /\ SubSeq(s, m + 1, Len(s)) \in Seq(S)
         /\ Range(s) = Range(SubSeq(s, 1, m)) \cup Range(SubSeq(s, m + 1, Len(s)))
<1> DEFINE a == SubSeq(s, 1, m)
           b == SubSeq(s, m + 1, Len(s))
<1>1. Len(s) \in Nat /\ m \in Nat /\ m <= Len(s) /\ DOMAIN s = 1..Len(s) /\ \A k \in 1..Len(s) : s[k] \in S
  OBVIOUS
<1>2. a \in Seq(S) /\ Len(a) = m /\ DOMAIN a = 1..m /\ \A k \in 1..m : a[k] = s[k]
  BY <1>1
<1>3. b \in Seq(S) /\ DOMAIN b = 1..(Len(s) - m) /\ \A k \in 1..(Len(s) - m) : b[k] = s[m + k]
  <2>1. b \in Seq(S)
    BY <1>1
  <2>2. Len(b) = Len(s) - m
    OBVIOUS
  <2>3. \A k \in 1..Len(b) : b[k] = s[(m + 1) + k - 1]
    BY <1>1
  <2>4. \A k \in 1..Len(b) : (m + 1) + k - 1 = m + k
    BY <1>1
  <2> QED
    BY <2>1, <2>2, <2>3, <2>4
<1> HIDE DEF a, b
<1>4. Range(a) \subseteq Range(s) /\ Range(b) \subseteq Range(s)
  <2>1. \A k \in DOMAIN a : a[k] \in Range(s)
    BY <1>1, <1>2 DEF Range
  <2>2. \A k \in DOMAIN b : b[k] \in Range(s)
    <3> SUFFICES ASSUME NEW k \in 1..(Len(s) - m) PROVE b[k] \in Range(s)
      BY <1>3
    <3>1. m + k \in DOMAIN s
      BY <1>1
    <3> QED
      BY <1>3, <3>1 DEF Range
  <2> QED
    BY <2>1, <2>2 DEF Range
<1>5. ASSUME NEW k \in DOMAIN s PROVE s[k] \in Range(a) \cup Range(b)
  <2>1. CASE k <= m
    BY <1>1, <1>2, <1>5, <2>1 DEF Range
  <2>2. CASE k > m
    <3>1. k - m \in 1..(Len(s) - m) /\ m + (k - m) = k
      BY <1>1, <1>5, <2>2
    <3> QED
      BY <1>3, <3>1 DEF Range
  <2> QED
    BY <1>1, <2>1, <2>2
<1> QED
  BY <1>2, <1>3, <1>4, <1>5 DEF Range, a, b

LEMMA RangesConcat ==
  ASSUME NEW S, NEW s \in Seq(S), NEW t \in Seq(S)
  PROVE  s \o t \in Seq(S) /\ Range(s \o t) = Range(s) \cup Range(t)
<1> DEFINE u == s \o t
<1>1. /\ Len(s) \in Nat /\ Len(t) \in Nat /\ DOMAIN s = 1..Len(s) /\ DOMAIN t = 1..Len(t)
      /\ u \in Seq(S) /\ Len(u) = Len(s) + Len(t) /\ DOMAIN u = 1..(Len(s) + Len(t))
      /\ \A k \in 1..(Len(s) + Len(t)) : u[k] = IF k <= Len(s) THEN s[k] ELSE t[k - Len(s)]
  OBVIOUS
<1> HIDE DEF u
<1>2. ASSUME NEW k \in DOMAIN u PROVE u[k] \in Range(s) \cup Range(t)
  <2>1. k <= Len(s) => k \in DOMAIN s /\ u[k] = s[k]
    BY <1>1, <1>2
  <2>2. ~(k <= Len(s)) => k - Len(s) \in DOMAIN t /\ u[k] = t[k - Len(s)]
    BY <1>1, <1>2
  <2> QED
    BY <2>1, <2>2 DEF Range
<1>3. ASSUME NEW k \in DOMAIN s PROVE s[k] \in Range(u)
  <2>1. k \in DOMAIN u /\ u[k] = s[k]
    BY <1>1, <1>3
  <2> QED
    BY <2>1 DEF Range
<1>4. ASSUME NEW k \in DOMAIN t PROVE t[k] \in Range(u)
  <2>1. k + Len(s) \in DOMAIN u /\ ~(k + Len(s) <= Len(s)) /\ (k + Len(s)) - Len(s) = k
    BY <1>1, <1>4
  <2>2. u[k + Len(s)] = t[k]
    BY <1>1, <2>1
  <2> QED
    BY <2>1, <2>2 DEF Range
<1>5. Range(u) = Range(s) \cup Range(t)
  BY <1>2, <1>3, <1>4 DEF Range
<1> QED
  BY <1>1, <1>5 DEF u

LEMMA WriteKeptStep ==
  ASSUME IndexInv, NEW m \in 0..Len(wiper.kept), NEW n \in 0..Len(records), WriteKept(m, n)
  PROVE  IndexInv'
<1> DEFINE first == SubSeq(wiper.kept, 1, m)
           rest == SubSeq(wiper.kept, m + 1, Len(wiper.kept))
           tail == SubSeq(records, n + 1, Len(records))
<1>1. /\ wiper.phase = "writing" /\ records' = first \o tail /\ ragged' \in BOOLEAN /\ torn' = torn \cup Stamps(rest)
      /\ wiper' = NotWiping /\ UNCHANGED <<queue, drain, appended, tried, indexed, late, wiped, raced, restored>>
  BY DEF WriteKept
<1>2. /\ records \in Seq(Lines) /\ wiper.kept \in Seq(Lines)
      /\ \A e \in Range(records) \cup Range(wiper.kept) : e.stamp \in 1..appended
  BY IndexTypes DEF IndexInv
<1>3. /\ first \in Seq(Lines) /\ Range(wiper.kept) = Range(first) \cup Range(rest)
      /\ tail \in Seq(Lines) /\ Range(tail) \subseteq Range(records)
  <2>1. first \in Seq(Lines) /\ Range(wiper.kept) = Range(first) \cup Range(rest)
    BY <1>2, Split
  <2>2. tail \in Seq(Lines) /\ Range(tail) \subseteq Range(records)
    BY <1>2, Split
  <2> QED
    BY <2>1, <2>2
<1> HIDE DEF first, rest, tail
<1>4. records' \in Seq(Lines) /\ Range(records') = Range(first) \cup Range(tail)
  BY <1>1, <1>3, RangesConcat
<1>5. Stamps(records') = Stamps(first) \cup Stamps(tail) /\ Stamps(wiper.kept) = Stamps(first) \cup Stamps(rest)
  BY <1>3, <1>4, StampsOfRange
<1>6. Stamps(tail) \subseteq Stamps(records) /\ Stamps(records) \subseteq raced
  BY <1>1, <1>3, StampsOfRange DEF IndexInv, StoreInv
<1>7. wiper'.kept = <<>> /\ wiper'.phase = "none" /\ Range(wiper'.kept) = {} /\ Stamps(wiper'.kept) = {} /\ wiper'.kept \in Seq(Lines)
  BY <1>1 DEF NotWiping, Range, Stamps
<1>8. RecordsHeld'
  BY <1>1, <1>5, <1>6, <1>7 DEF IndexInv, StoreInv, RecordsHeld, Held
<1>9. WipedStaysGone'
  BY <1>1, <1>5, <1>6 DEF IndexInv, StoreInv, WipedStaysGone
<1>10. StoreInv'
  BY <1>1, <1>7, <1>8, <1>9 DEF StoreInv
<1>11. indexed' \cup wiped' \cup raced' \cup restored' \cup torn' \subseteq 1..appended
  <2>1. Stamps(rest) \subseteq 1..appended
    BY <1>2, <1>5, StampsOfRange
  <2> QED
    BY <1>1, <2>1 DEF IndexInv, IndexShape
<1>12. Range(records') \cup Range(wiper'.kept) \subseteq Range(records) \cup Range(wiper.kept)
  BY <1>3, <1>4, <1>7
<1> QED
  BY <1>1, <1>4, <1>7, <1>10, <1>11, <1>12, StoreMoves

LEMMA WipeStep ==
  ASSUME IndexInv, Wipe
  PROVE  IndexInv'
<1>1. /\ records' = <<>> /\ ragged' = FALSE /\ UNCHANGED <<queue, drain, appended, tried, indexed, late, raced, torn>>
      /\ wiper.phase = "writing" => /\ wiped' = wiped \cup Stamps(records) \cup Stamps(wiper.kept)
                                    /\ wiper' = NotWiping /\ restored' = restored
      /\ wiper.phase # "writing" => /\ wiped' = wiped \cup Stamps(records) /\ wiper' = wiper
                                    /\ restored' = restored \cup (Stamps(wiper.kept) \cap Stamps(records))
  BY DEF Wipe
<1>2. Range(records') = {} /\ Stamps(records') = {} /\ records' \in Seq(Lines)
  BY <1>1 DEF Range, Stamps
<1>3. wiper.kept \in Seq(Lines) /\ Stamps(records) \cup Stamps(wiper.kept) \subseteq 1..appended
  BY IndexTypes, StampsOfRange DEF IndexInv
<1>4. indexed' \cup wiped' \cup raced' \cup restored' \cup torn' \subseteq 1..appended /\ ragged' \in BOOLEAN
  BY <1>1, <1>3 DEF IndexInv, IndexShape
<1>5. WipedStaysGone'
  BY <1>2 DEF WipedStaysGone
<1>6. CASE wiper.phase = "writing"
  <2>1. wiper'.kept = <<>> /\ wiper'.phase = "none" /\ Range(wiper'.kept) = {} /\ Stamps(wiper'.kept) = {} /\ wiper'.kept \in Seq(Lines)
    <3>1. wiper'.kept = <<>> /\ wiper'.phase = "none"
      BY <1>1, <1>6 DEF NotWiping
    <3> QED
      BY <3>1, NothingIn
  <2>2. RecordsHeld'
    BY <1>1, <1>6 DEF IndexInv, StoreInv, RecordsHeld, Held
  <2>3. StoreInv'
    BY <1>5, <2>1, <2>2 DEF StoreInv
  <2> QED
    BY <1>1, <1>2, <1>4, <1>6, <2>1, <2>3, StoreMoves
<1>7. CASE wiper.phase # "writing"
  <2>1. RecordsHeld'
    BY <1>1, <1>7 DEF IndexInv, StoreInv, RecordsHeld, Held
  <2>2. Stamps(wiper'.kept) \cap wiped' \subseteq restored' \cup raced'
    BY <1>1, <1>7 DEF IndexInv, StoreInv
  <2>3. (\A r \in Range(wiper.kept) : Keeps(r, wiper.domain))'
    BY <1>1, <1>7 DEF IndexInv, StoreInv, Keeps
  <2>4. StoreInv'
    BY <1>1, <1>2, <1>5, <1>7, <2>1, <2>2, <2>3 DEF StoreInv
  <2>5. wiper'.phase \in {"none", "read", "writing"} /\ (wiper'.phase = "none" => wiper' = NotWiping)
    BY <1>1, <1>7 DEF IndexInv, IndexShape
  <2> QED
    BY <1>1, <1>2, <1>3, <1>4, <1>7, <2>4, <2>5, StoreMoves
<1> QED
  BY <1>6, <1>7

LEMMA IndexStep ==
  ASSUME IndexInv, [IndexNext]_indexVars
  PROVE  IndexInv'
<1>1. CASE UNCHANGED indexVars
  BY <1>1 DEF indexVars, IndexInv, IndexShape, Lines, StampsApart, DrainInv, LinesTried,
              StoreInv, RecordsHeld, Held, WipedStaysGone, Keeps
<1>2. ASSUME NEW p \in Paths, ReadToWipe(DomainOf(p)) PROVE IndexInv'
  BY <1>2, ReadToWipeStep
<1>3. ASSUME NEW m \in 0..Len(wiper.kept), NEW n \in 0..Len(records), WriteKept(m, n) PROVE IndexInv'
  BY <1>3, WriteKeptStep
<1> QED
  BY <1>1, <1>2, <1>3, EnqueueStep, IndexLineStep, DrainStep, LeaveStoreStep, TruncateStoreStep, WipeStep DEF IndexNext

LEMMA IndexHolds ==
  ASSUME IndexInv
  PROVE  IndexTypeOK /\ LinesTried /\ RecordsHeld /\ WipedStaysGone
<1>1. /\ appended \in Nat /\ appended <= MaxQueued /\ MaxQueued \in Nat
      /\ drain.phase \in {"idle", "reading", "end"} /\ drain.line \in Nat /\ drain.line <= Len(queue) /\ Len(queue) <= appended
      /\ Len(queue) \in Nat
      /\ \A e \in Range(queue) \cup Range(records) \cup Range(wiper.kept) : e.stamp \in 1..appended
  BY IndexTypes DEF IndexInv
<1>2. 1..appended \subseteq 1..MaxQueued
  BY <1>1
<1>3. Stamps(queue) \cup Stamps(records) \subseteq 1..appended
  BY <1>1, StampsOfRange
<1>4. IndexTypeOK
  BY <1>1, <1>2, <1>3 DEF IndexInv, IndexShape, IndexTypeOK
<1> QED
  BY <1>4 DEF IndexInv, DrainInv, StoreInv

-------------------------------------------------------------------------------
(* The memory fabric.                                                      *)

(* The ranks of a list by offset are all different, so that sorting moves   *)
(* every block to a place of its own.                                      *)
Rearranged(s, t) ==
  \E q \in [DOMAIN s -> DOMAIN s] :
    /\ \A j, k \in DOMAIN s : q[j] = q[k] => j = k
    /\ \A i \in DOMAIN s : \E k \in DOMAIN s : q[k] = i
    /\ \A k \in DOMAIN s : t[k] = s[q[k]]

LEMMA ByOffsetPermutes ==
  ASSUME NEW s \in Seq(FreeBlock)
  PROVE  /\ ByOffset(s) \in Seq(FreeBlock) /\ DOMAIN ByOffset(s) = DOMAIN s
         /\ Rearranged(s, ByOffset(s))
<1> DEFINE n == Len(s)
           D == 1..n
           Upto(i) == {j \in D : s[j].offset < s[i].offset \/ (s[j].offset = s[i].offset /\ j <= i)}
           R == [i \in D |-> RankByOffset(s, i)]
           q == [k \in D |-> CHOOSE i \in D : RankByOffset(s, i) = k]
<1>1. n \in Nat /\ DOMAIN s = D /\ \A i \in D : s[i] \in FreeBlock /\ s[i].offset \in Nat
  <2>1. n \in Nat /\ DOMAIN s = D /\ \A i \in D : s[i] \in FreeBlock
    OBVIOUS
  <2> QED
    BY <2>1 DEF FreeBlock
<1>2. \A i \in D : RankByOffset(s, i) = Cardinality(Upto(i))
  BY <1>1 DEF RankByOffset
<1>3. IsFiniteSet(D) /\ Cardinality(D) = n
  <2> HIDE DEF n
  <2> QED
    BY <1>1, FS_Interval
<1>4. \A i \in D : IsFiniteSet(Upto(i)) /\ Cardinality(Upto(i)) <= n /\ Cardinality(Upto(i)) \in Nat
  <2> SUFFICES ASSUME NEW i \in D PROVE IsFiniteSet(Upto(i)) /\ Cardinality(Upto(i)) <= n /\ Cardinality(Upto(i)) \in Nat
    OBVIOUS
  <2>1. Upto(i) \in SUBSET D
    OBVIOUS
  <2> HIDE DEF Upto, D
  <2>2. IsFiniteSet(Upto(i)) /\ Cardinality(Upto(i)) <= n
    BY <1>3, <2>1, FS_Subset
  <2> QED
    BY <2>2, FS_CardinalityType
<1>5. ASSUME NEW i \in D, NEW j \in D, i # j, j \in Upto(i)
      PROVE  Cardinality(Upto(j)) < Cardinality(Upto(i))
  <2>1. Upto(j) \in SUBSET Upto(i)
    BY <1>1, <1>5
  <2>2. i \in Upto(i) /\ i \notin Upto(j)
    BY <1>1, <1>5
  <2> HIDE DEF Upto, D
  <2>3. Cardinality(Upto(j)) <= Cardinality(Upto(i)) /\ Cardinality(Upto(j)) # Cardinality(Upto(i))
    BY <1>4, <2>1, <2>2, FS_Subset
  <2> QED
    BY <1>4, <2>3
<1>6. \A i, j \in D : i # j => j \in Upto(i) \/ i \in Upto(j)
  BY <1>1
<1>7. \A i \in D : Cardinality(Upto(i)) \in 1..n
  <2> SUFFICES ASSUME NEW i \in D PROVE Cardinality(Upto(i)) \in 1..n
    OBVIOUS
  <2>1. i \in Upto(i)
    BY <1>1
  <2> HIDE DEF Upto, D
  <2>2. Cardinality(Upto(i)) # 0
    BY <1>4, <2>1, FS_EmptySet
  <2> QED
    BY <1>1, <1>4, <2>2
<1> HIDE DEF Upto
<1>8. \A x, y \in D : R[x] = R[y] => x = y
  BY <1>2, <1>4, <1>5, <1>6
<1>9. R \in [D -> 1..Cardinality(D)]
  BY <1>2, <1>3, <1>7
<1>10. \A k \in D : \E i \in D : R[i] = k
  <2> HIDE DEF R
  <2>1. \A k \in 1..Cardinality(D) : \E i \in D : R[i] = k
    BY <1>3, <1>8, <1>9, RanksReached
  <2> QED
    BY <1>3, <2>1
<1>11. \A i \in D : R[i] = RankByOffset(s, i) /\ R[i] \in D
  BY <1>3, <1>9
<1>12. q \in [D -> D] /\ \A k \in D : R[q[k]] = k
  BY <1>10, <1>11
<1>13. ByOffset(s) = [k \in D |-> s[q[k]]]
  BY <1>1 DEF ByOffset
<1>14. \A i \in D : q[R[i]] = i
  BY <1>8, <1>11, <1>12
<1> HIDE DEF q, R
<1>15. DOMAIN ByOffset(s) = D /\ ByOffset(s) \in Seq(FreeBlock)
  <2>1. ByOffset(s) \in [1..n -> FreeBlock]
    BY <1>1, <1>12, <1>13
  <2> QED
    BY <1>1, <2>1
<1>16. Rearranged(s, ByOffset(s))
  <2> HIDE DEF D
  <2>1. \A j, k \in DOMAIN s : q[j] = q[k] => j = k
    BY <1>1, <1>12
  <2>2. \A i \in DOMAIN s : \E k \in DOMAIN s : q[k] = i
    BY <1>1, <1>11, <1>14
  <2>3. \A k \in DOMAIN s : ByOffset(s)[k] = s[q[k]]
    BY <1>1, <1>13
  <2>4. q \in [DOMAIN s -> DOMAIN s]
    BY <1>1, <1>12
  <2> QED
    BY <2>1, <2>2, <2>3, <2>4 DEF Rearranged
<1> QED
  BY <1>1, <1>15, <1>16

LEMMA TiledRearranged ==
  ASSUME NEW s, NEW t, NEW acquired, Tiled(s, acquired), DOMAIN t = DOMAIN s, Rearranged(s, t)
  PROVE  Tiled(t, acquired)
<1> DEFINE D == DOMAIN s
<1>1. PICK q \in [D -> D] : /\ \A j, k \in D : q[j] = q[k] => j = k
                            /\ \A i \in D : \E k \in D : q[k] = i
                            /\ \A k \in D : t[k] = s[q[k]]
  BY DEF Rearranged
<1>2. UNION {Cells(t[i]) : i \in D} = UNION {Cells(s[i]) : i \in D}
  <2>1. {Cells(t[i]) : i \in D} = {Cells(s[i]) : i \in D}
    BY <1>1
  <2> QED
    BY <2>1
<1>3. \A i, j \in D : i # j => Cells(t[i]) \cap Cells(t[j]) = {}
  BY <1>1 DEF Tiled
<1>4. \A i \in D, h \in acquired : Cells(t[i]) \cap Cells(h) = {}
  BY <1>1 DEF Tiled
<1> QED
  BY <1>2, <1>3, <1>4 DEF Tiled

(* A block b is acquired out of the block at i, and the others are moved:   *)
(* what is left of that block, if anything, is in the new list.             *)
LEMMA TiledMoved ==
  ASSUME NEW s, NEW t, NEW acquired, Tiled(s, acquired), NEW i \in DOMAIN s, NEW b,
         Cells(b) \subseteq Cells(s[i]),
         NEW q \in [DOMAIN t -> DOMAIN s],
         \A j, k \in DOMAIN t : q[j] = q[k] => j = k,
         \A j \in DOMAIN t : q[j] # i => t[j] = s[q[j]],
         \A j \in DOMAIN t : q[j] = i => Cells(t[j]) = Cells(s[i]) \ Cells(b),
         \A k \in DOMAIN s : k # i \/ Cells(s[i]) # Cells(b) => \E j \in DOMAIN t : q[j] = k
  PROVE  Tiled(t, acquired \cup {b})
<1>1. \A j \in DOMAIN t : Cells(t[j]) \subseteq Cells(s[q[j]]) /\ Cells(t[j]) \cap Cells(b) = {}
  BY DEF Tiled
<1>2. \A j, k \in DOMAIN t : j # k => Cells(t[j]) \cap Cells(t[k]) = {}
  BY <1>1 DEF Tiled
<1>3. \A j \in DOMAIN t, h \in acquired \cup {b} : Cells(t[j]) \cap Cells(h) = {}
  BY <1>1 DEF Tiled
<1>4. \A h, k \in acquired \cup {b} : h # k => Cells(h) \cap Cells(k) = {}
  BY DEF Tiled
<1>5. (UNION {Cells(t[j]) : j \in DOMAIN t}) \cup (UNION {Cells(h) : h \in acquired \cup {b}})
        = (UNION {Cells(s[j]) : j \in DOMAIN s}) \cup (UNION {Cells(h) : h \in acquired})
  <2>1. ASSUME NEW j \in DOMAIN t, NEW x \in Cells(t[j]) PROVE \E k \in DOMAIN s : x \in Cells(s[k])
    BY <1>1
  <2>2. ASSUME NEW k \in DOMAIN s, NEW x \in Cells(s[k]), x \notin Cells(b) PROVE \E j \in DOMAIN t : x \in Cells(t[j])
    BY <2>2
  <2> QED
    BY <2>1, <2>2
<1> QED
  BY <1>2, <1>3, <1>4, <1>5 DEF Tiled

LEMMA SwapRemoved ==
  ASSUME NEW S, NEW s \in Seq(S), NEW i \in DOMAIN s
  PROVE  /\ SwapRemove(s, i) \in Seq(S) /\ Len(SwapRemove(s, i)) = Len(s) - 1
         /\ DOMAIN SwapRemove(s, i) = 1..(Len(s) - 1)
         /\ \A j \in 1..(Len(s) - 1) : SwapRemove(s, i)[j] = s[IF j = i THEN Len(s) ELSE j]
<1> DEFINE n == Len(s)
           t == SwapRemove(s, i)
<1>1. n \in Nat \ {0} /\ i \in 1..n /\ \A j \in 1..n : s[j] \in S
  OBVIOUS
<1>2. t = [j \in 1..(n - 1) |-> IF j = i THEN s[n] ELSE s[j]]
  BY DEF SwapRemove
<1> HIDE DEF t, n
<1>3. t \in [1..(n - 1) -> S] /\ n - 1 \in Nat /\ n \in 1..n
  BY <1>1, <1>2
<1>4. t \in Seq(S) /\ Len(t) = n - 1 /\ DOMAIN t = 1..(n - 1)
  BY <1>3
<1>5. \A j \in 1..(n - 1) : t[j] = s[IF j = i THEN n ELSE j]
  BY <1>2
<1> QED
  BY <1>4, <1>5 DEF t, n

LEMMA AcquireStep ==
  ASSUME PoolInv, NEW size \in PoolSizes, Acquire(size)
  PROVE  PoolInv'
<1> DEFINE fits == {i \in DOMAIN freeList : freeList[i].size >= size}
           at == CHOOSE k \in fits : \A m \in fits : k <= m
           block == freeList[at]
           rest == Remainder(block, size)
           left == SwapRemove(freeList, at)
           b == [offset |-> block.offset, size |-> size]
           list == IF rest = <<>> THEN left ELSE left \o rest
           n == Len(freeList)
<1>1. /\ fits # {} /\ inflated' = inflated /\ releases' = releases
      /\ freeList' = (IF rest = <<>> THEN left ELSE ByOffset(left \o rest))
      /\ handles' = {h \in handles : h.offset # block.offset} \cup {b}
  BY DEF Acquire
<1>2. SUFFICES ASSUME ~inflated
               PROVE  /\ freeList' \in Seq(FreeBlock) /\ handles' \subseteq [offset : Nat, size : Nat \ {0}]
                      /\ Tiled(freeList', handles')
  BY <1>1 DEF PoolInv
<1>3. freeList \in Seq(FreeBlock) /\ handles \subseteq [offset : Nat, size : Nat \ {0}] /\ Tiled(freeList, handles)
  BY <1>2 DEF PoolInv
<1>4. n \in Nat /\ DOMAIN freeList = 1..n
  BY <1>3
<1>5. at \in fits
  <2>1. fits \in SUBSET Nat
    BY <1>4
  <2> HIDE DEF fits
  <2>2. \E m \in fits : \A k \in fits : m <= k
    BY <1>1, <2>1, LeastNatural
  <2> QED
    BY <2>2
<1>6. at \in 1..n /\ block \in FreeBlock /\ block.size >= size
  BY <1>3, <1>4, <1>5
<1>7. size \in Nat \ {0} /\ block.offset \in Nat /\ block.size \in Nat
  BY <1>6, FabricAssumption DEF FreeBlock
<1> HIDE DEF fits, at
<1>8. b \in [offset : Nat, size : Nat \ {0}]
  BY <1>7
<1>9. Cells(b) \subseteq Cells(block) /\ block.offset \in Cells(block)
  BY <1>6, <1>7 DEF Cells
<1>10. \A h \in handles : h.offset # block.offset
  <2> SUFFICES ASSUME NEW h \in handles, h.offset = block.offset PROVE FALSE
    OBVIOUS
  <2>1. h.size \in Nat \ {0} /\ h.offset \in Nat
    BY <1>3
  <2>2. block.offset \in Cells(h)
    BY <2>1 DEF Cells
  <2> QED
    BY <1>3, <1>4, <1>6, <1>9, <2>2 DEF Tiled
<1>11. handles' = handles \cup {b}
  <2>1. {h \in handles : h.offset # block.offset} = handles
    BY <1>10
  <2> HIDE DEF block, b
  <2> QED
    BY <1>1, <2>1
<1>12. /\ left \in Seq(FreeBlock) /\ Len(left) = n - 1 /\ DOMAIN left = 1..(n - 1)
       /\ \A j \in 1..(n - 1) : left[j] = freeList[IF j = at THEN n ELSE j]
  <2>1. at \in DOMAIN freeList
    BY <1>4, <1>6
  <2> QED
    BY <1>3, <2>1, SwapRemoved
<1> HIDE DEF left
<1>13. /\ rest = <<>> => Cells(b) = Cells(block)
       /\ rest # <<>> => /\ rest \in Seq(FreeBlock) /\ Len(rest) = 1
                         /\ Cells(rest[1]) = Cells(block) \ Cells(b)
  <2>1. CASE block.size > size
    <3> DEFINE r == [offset |-> block.offset + size, size |-> block.size - size]
    <3>1. rest = <<r>> /\ rest # <<>>
      BY <2>1 DEF Remainder
    <3>2. r \in FreeBlock
      BY <1>7, <2>1 DEF FreeBlock
    <3>3. Cells(r) = Cells(block) \ Cells(b)
      <4>1. r.offset = block.offset + size /\ r.size = block.size - size /\ b.offset = block.offset /\ b.size = size
        OBVIOUS
      <4> HIDE DEF r, b, block
      <4>2. Cells(r) = (block.offset + size)..(block.offset + block.size - 1)
        BY <1>7, <4>1 DEF Cells
      <4>3. Cells(b) = block.offset..(block.offset + size - 1)
        BY <4>1 DEF Cells
      <4>4. Cells(block) = block.offset..(block.offset + block.size - 1)
        BY DEF Cells
      <4> QED
        BY <1>7, <2>1, <4>2, <4>3, <4>4
    <3> HIDE DEF r, rest
    <3>4. rest \in Seq(FreeBlock) /\ Len(rest) = 1 /\ rest[1] = r
      BY <3>1, <3>2
    <3> QED
      BY <3>1, <3>3, <3>4
  <2>2. CASE ~(block.size > size)
    <3>1. rest = <<>> /\ block.size = size
      BY <1>6, <1>7, <2>2 DEF Remainder
    <3>2. Cells(b) = Cells(block)
      BY <3>1 DEF Cells
    <3> QED
      BY <3>1, <3>2
  <2> QED
    BY <2>1, <2>2
<1> HIDE DEF rest
<1>14. /\ list \in Seq(FreeBlock) /\ DOMAIN list = IF rest = <<>> THEN 1..(n - 1) ELSE 1..n
       /\ \A j \in 1..(n - 1) : list[j] = freeList[IF j = at THEN n ELSE j]
       /\ rest # <<>> => Cells(list[n]) = Cells(block) \ Cells(b)
  <2>1. CASE rest = <<>>
    BY <1>12, <2>1
  <2>2. CASE rest # <<>>
    <3>1. rest \in Seq(FreeBlock) /\ Len(rest) = 1
      BY <1>13, <2>2
    <3>2. /\ list \in Seq(FreeBlock) /\ Len(list) = Len(left) + 1
          /\ \A j \in 1..Len(left) : list[j] = left[j]
          /\ \A j \in 1..1 : list[Len(left) + j] = rest[j]
      BY <1>12, <2>2, <3>1, ConcatPlaces
    <3> HIDE DEF list
    <3>3. n - 1 + 1 = n /\ 1 \in 1..1
      BY <1>4
    <3>4. Len(list) = n /\ (\A j \in 1..(n - 1) : list[j] = left[j]) /\ list[n] = rest[1]
      BY <1>12, <3>2, <3>3
    <3>5. DOMAIN list = 1..n
      BY <3>2, <3>4
    <3> QED
      BY <1>12, <1>13, <2>2, <3>2, <3>4, <3>5
  <2> QED
    BY <2>1, <2>2
<1>15. Tiled(list, handles \cup {b})
  <2> DEFINE q == [j \in DOMAIN list |-> IF j = at THEN n ELSE IF j = n THEN at ELSE j]
  <2>1. DOMAIN list \subseteq 1..n /\ 1..(n - 1) \subseteq DOMAIN list
    BY <1>4, <1>14
  <2> HIDE DEF list
  <2>2. q \in [DOMAIN list -> DOMAIN freeList]
    BY <1>4, <1>6, <2>1
  <2>3. \A j, k \in DOMAIN list : q[j] = q[k] => j = k
    BY <1>4, <1>6, <2>1
  <2>4. ASSUME NEW j \in DOMAIN list, q[j] # at PROVE list[j] = freeList[q[j]]
    <3>1. j # n
      BY <2>4
    <3>2. j \in 1..(n - 1)
      BY <1>4, <2>1, <3>1
    <3> QED
      BY <1>14, <3>1, <3>2
  <2>5. ASSUME NEW j \in DOMAIN list, q[j] = at PROVE Cells(list[j]) = Cells(freeList[at]) \ Cells(b)
    <3>1. j = n
      BY <2>5
    <3>2. rest # <<>>
      BY <1>4, <1>14, <2>5, <3>1
    <3> QED
      BY <1>14, <3>1, <3>2
  <2>6. ASSUME NEW k \in DOMAIN freeList, k # at \/ Cells(freeList[at]) # Cells(b)
        PROVE  \E j \in DOMAIN list : q[j] = k
    <3>1. CASE k = at
      <4>1. rest # <<>>
        BY <1>13, <2>6, <3>1
      <4>2. n \in DOMAIN list
        BY <1>4, <1>6, <1>14, <4>1
      <4> QED
        BY <3>1, <4>2
    <3>2. CASE k # at
      <4>1. k \in 1..n
        BY <1>4
      <4>2. CASE k = n
        <5>1. at \in 1..(n - 1)
          BY <1>4, <1>6, <3>2, <4>2
        <5> QED
          BY <2>1, <4>2, <5>1
      <4>3. CASE k # n
        <5>1. k \in 1..(n - 1)
          BY <1>4, <4>1, <4>3
        <5> QED
          BY <2>1, <3>2, <4>3, <5>1
      <4> QED
        BY <4>2, <4>3
    <3> QED
      BY <3>1, <3>2
  <2> HIDE DEF q, b
  <2>7. at \in DOMAIN freeList /\ Cells(b) \subseteq Cells(freeList[at])
    BY <1>4, <1>6, <1>9
  <2> QED
    BY <1>3, <2>2, <2>3, <2>4, <2>5, <2>6, <2>7, TiledMoved
<1>16. freeList' \in Seq(FreeBlock) /\ Tiled(freeList', handles')
  <2> HIDE DEF b
  <2>1. CASE rest = <<>>
    BY <1>1, <1>11, <1>14, <1>15, <2>1
  <2>2. CASE rest # <<>>
    <3>1. freeList' = ByOffset(list)
      BY <1>1, <2>2
    <3> HIDE DEF list
    <3>2. /\ ByOffset(list) \in Seq(FreeBlock) /\ DOMAIN ByOffset(list) = DOMAIN list
          /\ Rearranged(list, ByOffset(list))
      BY <1>14, ByOffsetPermutes
    <3>3. Tiled(ByOffset(list), handles \cup {b})
      BY <1>15, <3>2, TiledRearranged
    <3> QED
      BY <1>11, <3>1, <3>2, <3>3
  <2> QED
    BY <2>1, <2>2
<1> QED
  BY <1>3, <1>8, <1>11, <1>16

LEMMA ReleaseStep ==
  ASSUME PoolInv, NEW h \in handles, Release(h)
  PROVE  PoolInv'
<1> DEFINE back == [offset |-> h.offset, size |-> BlockSize(h.size)]
           list == Append(freeList, back)
           n == Len(freeList)
<1>1. /\ releases' \in 0..MaxReleases /\ handles' = handles \ {h} /\ freeList' = ByOffset(list)
      /\ inflated' = (inflated \/ BlockSize(h.size) # h.size)
  BY FabricAssumption DEF Release, PoolInv
<1>2. SUFFICES ASSUME ~inflated, BlockSize(h.size) = h.size
               PROVE  /\ freeList' \in Seq(FreeBlock) /\ handles' \subseteq [offset : Nat, size : Nat \ {0}]
                      /\ Tiled(freeList', handles')
  BY <1>1 DEF PoolInv
<1>3. freeList \in Seq(FreeBlock) /\ handles \subseteq [offset : Nat, size : Nat \ {0}] /\ Tiled(freeList, handles)
  BY <1>2 DEF PoolInv
<1>4. back = h /\ h \in FreeBlock
  BY <1>2, <1>3 DEF FreeBlock
<1> HIDE DEF back
<1>5. /\ list \in Seq(FreeBlock) /\ DOMAIN list = 1..(n + 1) /\ DOMAIN freeList = 1..n /\ n \in Nat
      /\ list[n + 1] = h /\ \A j \in 1..n : list[j] = freeList[j]
  BY <1>3, <1>4
<1> HIDE DEF list, n
<1>6. Tiled(list, handles \ {h})
  <2>1. \A j \in DOMAIN list : j \in 1..n \/ j = n + 1
    BY <1>5
  <2>2. \A j, k \in DOMAIN list : j # k => Cells(list[j]) \cap Cells(list[k]) = {}
    BY <1>3, <1>5, <2>1 DEF Tiled
  <2>3. \A j \in DOMAIN list, k \in handles \ {h} : Cells(list[j]) \cap Cells(k) = {}
    BY <1>3, <1>5, <2>1 DEF Tiled
  <2>4. \A g, k \in handles \ {h} : g # k => Cells(g) \cap Cells(k) = {}
    BY <1>3 DEF Tiled
  <2>5. (UNION {Cells(list[j]) : j \in DOMAIN list}) \cup (UNION {Cells(k) : k \in handles \ {h}})
          = (UNION {Cells(freeList[j]) : j \in DOMAIN freeList}) \cup (UNION {Cells(k) : k \in handles})
    <3>1. n + 1 \in DOMAIN list /\ \A j \in 1..n : j \in DOMAIN list
      BY <1>5
    <3>2. ASSUME NEW j \in DOMAIN list, NEW x \in Cells(list[j])
          PROVE  (\E k \in DOMAIN freeList : x \in Cells(freeList[k])) \/ x \in Cells(h)
      BY <1>5, <2>1, <3>2
    <3>3. \A j \in DOMAIN freeList : \E k \in DOMAIN list : Cells(freeList[j]) = Cells(list[k])
      BY <1>5, <3>1
    <3>4. \E k \in DOMAIN list : Cells(h) = Cells(list[k])
      BY <1>5, <3>1
    <3> QED
      BY <3>2, <3>3, <3>4
  <2> QED
    BY <1>3, <2>2, <2>3, <2>4, <2>5 DEF Tiled
<1>7. /\ ByOffset(list) \in Seq(FreeBlock) /\ DOMAIN ByOffset(list) = DOMAIN list
      /\ Rearranged(list, ByOffset(list))
  BY <1>5, ByOffsetPermutes
<1>8. Tiled(ByOffset(list), handles \ {h})
  BY <1>6, <1>7, TiledRearranged
<1> QED
  BY <1>1, <1>3, <1>7, <1>8

LEMMA PoolHolds == PoolInv => PoolTiles
BY DEF PoolInv, PoolTiles, Tiled, Blocks, Range

LEMMA PageRounded ==
  ASSUME NEW size \in Nat
  PROVE  RoundUpToPage(size) \in Nat /\ RoundUpToPage(size) <= size + PageUnits
<1>1. PageUnits \in Nat \ {0}
  BY FabricAssumption
<1>2. CASE size = 0
  BY <1>1, <1>2 DEF RoundUpToPage
<1>3. CASE size # 0
  <2> DEFINE m == size + PageUnits - 1
             d == m \div PageUnits
  <2>1. m \in Nat /\ RoundUpToPage(size) = d * PageUnits
    BY <1>1, <1>3 DEF RoundUpToPage
  <2>2. d \in Nat /\ m = PageUnits * d + (m % PageUnits) /\ m % PageUnits \in 0..(PageUnits - 1)
    <3> HIDE DEF m
    <3> QED
      BY <1>1, <2>1
  <2>3. PageUnits * d = d * PageUnits /\ d * PageUnits \in Nat
    <3> HIDE DEF d
    <3> QED
      BY <1>1, <2>2
  <2> DEFINE whole == d * PageUnits
  <2>4. whole \in Nat /\ whole <= m
    <3> DEFINE left == m % PageUnits
    <3>1. left \in Nat /\ whole \in Nat /\ m = whole + left
      BY <2>2, <2>3
    <3> HIDE DEF whole, left, m
    <3> QED
      BY <3>1
  <2> HIDE DEF whole, d
  <2> QED
    BY <1>1, <2>1, <2>4 DEF whole
<1> QED
  BY <1>2, <1>3

(* The sum of a list of sizes, with one more and with one less.            *)
LEMMA SumAppended ==
  ASSUME NEW s \in Seq(Nat), NEW x \in Nat
  PROVE  SumFunction(Append(s, x)) = SumFunction(s) + x /\ SumFunction(s) \in Nat
<1> DEFINE n == Len(s)
           t == Append(s, x)
           T == 1..(n + 1)
<1>1. /\ n \in Nat /\ DOMAIN s = 1..n /\ DOMAIN t = T /\ t[n + 1] = x
      /\ \A j \in 1..n : t[j] = s[j] /\ s[j] \in Nat
  OBVIOUS
<1> HIDE DEF t, n
<1>2. IsFiniteSet(T) /\ IsFiniteSet(1..n) /\ n + 1 \in T /\ T \ {n + 1} = 1..n
  <2>1. n + 1 \in T /\ T \ {n + 1} = 1..n /\ n + 1 \in Int /\ n \in Int
    BY <1>1
  <2> QED
    BY <2>1, FS_Interval
<1>3. SumFunctionOnSet(t, T) = SumFunctionOnSet(s, T \ {n + 1}) + t[n + 1]
  <2>1. (\A j \in T : t[j] \in Nat) /\ \A j \in T \ {n + 1} : s[j] = t[j]
    BY <1>1
  <2> HIDE DEF T
  <2> QED
    BY <1>2, <2>1, SumGrown
<1>4. SumFunctionOnSet(s, 1..n) \in Nat
  BY <1>1, <1>2, SumLaws
<1>5. SumFunction(t) = SumFunctionOnSet(t, T) /\ SumFunction(s) = SumFunctionOnSet(s, 1..n)
  BY <1>1 DEF SumFunction, SumFunctionOnSet, FoldFunction
<1> QED
  BY <1>1, <1>2, <1>3, <1>4, <1>5 DEF t

LEMMA SumSwapped ==
  ASSUME NEW s \in Seq(Nat), NEW i \in DOMAIN s
  PROVE  SumFunction(s) = SumFunction(SwapRemove(s, i)) + s[i] /\ SumFunction(SwapRemove(s, i)) \in Nat
<1> DEFINE n == Len(s)
           t == SwapRemove(s, i)
           u == [s EXCEPT ![i] = s[n]]
<1>1. n \in Nat \ {0} /\ DOMAIN s = 1..n /\ i \in 1..n /\ \A j \in 1..n : s[j] \in Nat
  OBVIOUS
<1>2. /\ t \in Seq(Nat) /\ Len(t) = n - 1 /\ DOMAIN t = 1..(n - 1)
      /\ \A j \in 1..(n - 1) : t[j] = s[IF j = i THEN n ELSE j]
  BY SwapRemoved
<1>3. DOMAIN u = 1..n /\ \A j \in 1..n : u[j] = s[IF j = i THEN n ELSE j] /\ u[j] \in Nat
  BY <1>1
<1> HIDE DEF t, u, n
<1>4. IsFiniteSet(1..n) /\ IsFiniteSet(1..(n - 1)) /\ n \in 1..n /\ (1..n) \ {n} = 1..(n - 1)
  <2>1. n \in 1..n /\ (1..n) \ {n} = 1..(n - 1) /\ n - 1 \in Int /\ n \in Int
    BY <1>1
  <2> QED
    BY <2>1, FS_Interval
<1>5. SumFunctionOnSet(u, 1..n) = SumFunctionOnSet(s, 1..n) - s[i] + u[i]
  <2> DEFINE T == 1..n
  <2>1. \A x \in T : s[x] \in Nat /\ u[x] \in Nat
    BY <1>1, <1>3
  <2>2. \A x \in T \ {i} : u[x] = s[x]
    BY <1>1, <1>3
  <2>3. i \in T
    BY <1>1
  <2>4. IsFiniteSet(T)
    BY <1>4
  <2> HIDE DEF T
  <2>5. SumFunctionOnSet(u, T) = SumFunctionOnSet(s, T) - s[i] + u[i]
    <3>1. (\A x \in T : s[x] \in Nat) /\ \A x \in T : u[x] \in Nat
      BY <2>1
    <3>2. (\A x \in T \ {i} : s[x] = u[x]) /\ s[i] \in Nat /\ u[i] \in Nat
      BY <2>1, <2>2, <2>3
    <3>3. SumFunctionOnSet(u, T) = SumFunctionOnSet(s, T \ {i}) + u[i]
      BY <2>3, <2>4, <3>1, <3>2, SumGrown
    <3>4. SumFunctionOnSet(s, T) = SumFunctionOnSet(s, T \ {i}) + s[i]
      BY <2>3, <2>4, <3>1, SumLaws
    <3>5. SumFunctionOnSet(s, T \ {i}) \in Nat
      <4> DEFINE R == T \ {i}
      <4>1. IsFiniteSet(R) /\ \A x \in R : s[x] \in Nat
        BY <2>4, <3>1, FS_Subset
      <4> HIDE DEF R
      <4>2. SumFunctionOnSet(s, R) \in Nat
        BY <4>1, SumLaws
      <4> QED
        BY <4>2 DEF R
    <3> QED
      BY <3>2, <3>3, <3>4, <3>5
  <2> QED
    BY <2>5 DEF T
<1>6. SumFunctionOnSet(u, 1..n) = SumFunctionOnSet(t, 1..(n - 1)) + u[n]
  <2> DEFINE T == 1..n
  <2>1. (\A x \in T : u[x] \in Nat) /\ (\A x \in T \ {n} : t[x] = u[x]) /\ n \in T /\ IsFiniteSet(T)
    BY <1>1, <1>2, <1>3, <1>4
  <2>2. T \ {n} = 1..(n - 1)
    BY <1>4
  <2> HIDE DEF T
  <2>3. SumFunctionOnSet(u, T) = SumFunctionOnSet(t, T \ {n}) + u[n]
    BY <2>1, SumGrown
  <2> QED
    BY <2>2, <2>3 DEF T
<1>7. u[n] = s[n] /\ u[i] = s[n] /\ s[n] \in Nat /\ s[i] \in Nat
  BY <1>1, <1>3
<1>8. SumFunctionOnSet(s, 1..n) \in Nat /\ SumFunctionOnSet(t, 1..(n - 1)) \in Nat
  <2>1. \A j \in 1..(n - 1) : t[j] \in Nat
    BY <1>2
  <2> QED
    BY <1>1, <1>4, <2>1, SumLaws
<1>9. SumFunctionOnSet(s, 1..n) = SumFunctionOnSet(t, 1..(n - 1)) + s[i]
  <2> DEFINE a == SumFunctionOnSet(s, 1..n)
             c == SumFunctionOnSet(t, 1..(n - 1))
             d == SumFunctionOnSet(u, 1..n)
             x == s[i]
             y == s[n]
  <2>1. d = a - x + y /\ d = c + y /\ a \in Nat /\ c \in Nat /\ x \in Nat /\ y \in Nat
    BY <1>5, <1>6, <1>7, <1>8
  <2> HIDE DEF a, c, d, x, y
  <2>2. a = c + x
    BY <2>1
  <2> QED
    BY <2>2 DEF a, c, x
<1>10. SumFunction(t) = SumFunctionOnSet(t, 1..(n - 1)) /\ SumFunction(s) = SumFunctionOnSet(s, 1..n)
  BY <1>1, <1>2 DEF SumFunction, SumFunctionOnSet, FoldFunction
<1> QED
  BY <1>8, <1>9, <1>10 DEF t

LEMMA LockStep ==
  ASSUME LockInv, LockNext
  PROVE  LockInv'
<1>1. /\ buffers \in Seq(Nat) /\ Len(buffers) <= MaxBuffers /\ locked \in Nat /\ dropped \in Nat
      /\ locked = SumFunction(buffers) + dropped /\ locked <= MaxLocked + PageUnits
      /\ PageUnits \in Nat \ {0} /\ MaxLocked \in Nat /\ MaxBuffers \in Nat /\ LockSizes \subseteq Nat
  BY FabricAssumption DEF LockInv, LockedCounted
<1>2. ASSUME NEW size \in LockSizes, Allocate(size)
      PROVE  LockInv'
  <2> DEFINE x == RoundUpToPage(size)
  <2>1. size \in Nat /\ x \in Nat /\ x <= size + PageUnits
    BY <1>1, PageRounded
  <2>2. /\ locked + size <= MaxLocked /\ Len(buffers) < MaxBuffers
        /\ buffers' = Append(buffers, x) /\ locked' = locked + x /\ dropped' = dropped
    BY <1>2 DEF Allocate, WithinLimit
  <2> HIDE DEF x
  <2>3. SumFunction(buffers') = SumFunction(buffers) + x /\ SumFunction(buffers) \in Nat
    BY <1>1, <2>1, <2>2, SumAppended
  <2>4. buffers' \in Seq(Nat) /\ Len(buffers') <= MaxBuffers
    BY <1>1, <2>1, <2>2
  <2>5. locked' \in Nat /\ dropped' \in Nat /\ locked' <= MaxLocked + PageUnits
    BY <1>1, <2>1, <2>2
  <2>6. locked' = SumFunction(buffers') + dropped'
    BY <1>1, <2>1, <2>2, <2>3
  <2> QED
    BY <2>4, <2>5, <2>6 DEF LockInv, LockedCounted
<1>3. ASSUME NEW i \in DOMAIN buffers, buffers' = SwapRemove(buffers, i)
      PROVE  /\ buffers' \in Seq(Nat) /\ Len(buffers') <= MaxBuffers /\ buffers[i] \in Nat
             /\ SumFunction(buffers) = SumFunction(buffers') + buffers[i] /\ SumFunction(buffers') \in Nat
  <2>1. SwapRemove(buffers, i) \in Seq(Nat) /\ Len(SwapRemove(buffers, i)) = Len(buffers) - 1
    BY <1>1, SwapRemoved
  <2>2. SumFunction(buffers) = SumFunction(SwapRemove(buffers, i)) + buffers[i] /\ SumFunction(SwapRemove(buffers, i)) \in Nat
    BY <1>1, SumSwapped
  <2>3. Len(buffers) \in Nat /\ buffers[i] \in Nat
    BY <1>1
  <2> QED
    BY <1>1, <1>3, <2>1, <2>2, <2>3
<1>4. ASSUME NEW i \in DOMAIN buffers, Deallocate(i)
      PROVE  LockInv'
  <2>1. buffers' = SwapRemove(buffers, i) /\ locked' = locked - buffers[i] /\ dropped' = dropped
    BY <1>4 DEF Deallocate
  <2>2. /\ buffers' \in Seq(Nat) /\ Len(buffers') <= MaxBuffers /\ buffers[i] \in Nat
        /\ SumFunction(buffers) = SumFunction(buffers') + buffers[i] /\ SumFunction(buffers') \in Nat
    BY <1>3, <2>1
  <2>3. locked' = SumFunction(buffers') + dropped' /\ locked' \in Nat /\ locked' <= MaxLocked + PageUnits
    <3> DEFINE a == SumFunction(buffers)
               c == SumFunction(buffers')
               x == buffers[i]
    <3>1. locked = a + dropped /\ a = c + x /\ c \in Nat /\ x \in Nat /\ locked' = locked - x /\ dropped' = dropped
      BY <1>1, <2>1, <2>2
    <3> HIDE DEF a, c, x
    <3>2. locked' = c + dropped' /\ locked' \in Nat /\ locked' <= MaxLocked + PageUnits
      BY <1>1, <3>1
    <3> QED
      BY <3>2 DEF c
  <2> QED
    BY <1>1, <2>1, <2>2, <2>3 DEF LockInv, LockedCounted
<1>5. ASSUME NEW i \in DOMAIN buffers, DropBytes(i)
      PROVE  LockInv'
  <2>1. buffers' = SwapRemove(buffers, i) /\ dropped' = dropped + buffers[i] /\ locked' = locked
    BY <1>5 DEF DropBytes
  <2>2. /\ buffers' \in Seq(Nat) /\ Len(buffers') <= MaxBuffers /\ buffers[i] \in Nat
        /\ SumFunction(buffers) = SumFunction(buffers') + buffers[i] /\ SumFunction(buffers') \in Nat
    BY <1>3, <2>1
  <2>3. locked' = SumFunction(buffers') + dropped' /\ dropped' \in Nat
    <3> DEFINE a == SumFunction(buffers)
               c == SumFunction(buffers')
               x == buffers[i]
    <3>1. locked = a + dropped /\ a = c + x /\ c \in Nat /\ x \in Nat /\ locked' = locked /\ dropped' = dropped + x
      BY <1>1, <2>1, <2>2
    <3> HIDE DEF a, c, x
    <3>2. locked' = c + dropped' /\ dropped' \in Nat
      BY <1>1, <3>1
    <3> QED
      BY <3>2 DEF c
  <2> QED
    BY <1>1, <2>1, <2>2, <2>3 DEF LockInv, LockedCounted
<1> QED
  BY <1>2, <1>4, <1>5 DEF LockNext

(* The agent map: every region was asked for, and the owner that was last  *)
(* found still holds the pointer, for a change of the map forgets it.      *)
RegionInv == regions \in [FabricAgents -> RegionSizes \cup {NoRegion}] /\ OwnersTrue

LEMMA RegionStep ==
  ASSUME RegionInv, RegionNext
  PROVE  RegionInv'
<1>1. PICK a \in FabricAgents :
        \/ \E n \in RegionSizes : AllocateRegion(a, n)
        \/ DeallocateRegion(a)
        \/ \E p \in UNION {0..(2 * GuardSize + 2 * n) : n \in RegionSizes} : VerifyOwner(p, a)
  BY DEF RegionNext
<1>2. regions \in [FabricAgents -> RegionSizes \cup {NoRegion}]
  BY DEF RegionInv
<1>3. ASSUME NEW n \in RegionSizes, AllocateRegion(a, n)
      PROVE  RegionInv'
  BY <1>2, <1>3 DEF AllocateRegion, RegionInv, OwnersTrue
<1>4. ASSUME DeallocateRegion(a)
      PROVE  RegionInv'
  BY <1>2, <1>4 DEF DeallocateRegion, RegionInv, OwnersTrue
<1>5. ASSUME NEW p \in UNION {0..(2 * GuardSize + 2 * n) : n \in RegionSizes}, VerifyOwner(p, a)
      PROVE  RegionInv'
  <2>1. PICK owner \in {b \in FabricAgents : Inside(p, b)} \cup {"nobody"} :
          /\ owner = "nobody" => ~\E b \in FabricAgents : Inside(p, b)
          /\ verified' = [agent |-> a, ptr |-> p, owner |-> owner]
    BY <1>5 DEF VerifyOwner
  <2>2. regions' = regions /\ verified'.agent = a /\ verified'.ptr = p /\ verified'.owner = owner
    BY <1>5, <2>1 DEF VerifyOwner
  <2>3. p \in Int
    BY FabricAssumption
  <2> DEFINE around == {b \in FabricAgents : regions[b] # NoRegion /\ p \in Base(regions[b])..(Base(regions[b]) + regions[b] - 1)}
  <2>4. \A b \in FabricAgents : b \in around <=> Inside(p, b)
    <3> SUFFICES ASSUME NEW b \in FabricAgents, regions[b] # NoRegion
                 PROVE  p \in Base(regions[b])..(Base(regions[b]) + regions[b] - 1)
                          <=> p >= Base(regions[b]) /\ p < Base(regions[b]) + regions[b]
      BY DEF Inside
    <3>1. regions[b] \in Nat /\ GuardSize \in Nat
      BY <1>2, FabricAssumption
    <3>2. Base(regions[b]) \in Nat
      BY <3>1 DEF Base
    <3> HIDE DEF Base
    <3> QED
      BY <2>3, <3>1, <3>2
  <2> HIDE DEF around
  <2>5. owner # "nobody" => owner \in around
    BY <2>1, <2>4
  <2>6. owner = "nobody" => around = {}
    <3>1. around \subseteq FabricAgents
      BY DEF around
    <3> QED
      BY <2>1, <2>4, <3>1
  <2>7. ASSUME a \in around, owner # a PROVE Cardinality(around) > 1
    <3>1. owner \in around
      BY <2>5, <2>6, <2>7
    <3>2. IsFiniteSet(around)
      <4>1. around \in SUBSET FabricAgents
        BY DEF around
      <4> QED
        BY <4>1, FabricAssumption, FS_Subset
    <3>3. IsFiniteSet(around \ {a}) /\ Cardinality(around \ {a}) = Cardinality(around) - 1
      BY <2>7, <3>2, FS_RemoveElement
    <3>4. Cardinality(around \ {a}) # 0
      BY <2>7, <3>1, <3>3, FS_EmptySet
    <3>5. Cardinality(around \ {a}) \in Nat /\ Cardinality(around) \in Nat
      BY <3>2, <3>3, FS_CardinalityType
    <3> DEFINE c == Cardinality(around)
               d == Cardinality(around \ {a})
    <3>6. d = c - 1 /\ d # 0 /\ c \in Nat /\ d \in Nat
      BY <3>3, <3>4, <3>5
    <3> HIDE DEF c, d
    <3>7. c > 1
      BY <3>6
    <3> QED
      BY <3>7 DEF c
  <2>8. OwnersTrue'
    BY <2>2, <2>5, <2>6, <2>7 DEF OwnersTrue, around, Base
  <2> QED
    BY <1>2, <2>2, <2>8 DEF RegionInv
<1> QED
  BY <1>1, <1>3, <1>4, <1>5

LEMMA FabricInitial == FabricInit => PoolInv /\ LockInv /\ RegionInv
<1> SUFFICES ASSUME FabricInit PROVE PoolInv /\ LockInv /\ RegionInv
  OBVIOUS
<1> DEFINE arena == [offset |-> 0, size |-> PoolTotal]
<1>1. PoolTotal \in Nat /\ MaxReleases \in Nat /\ MaxBuffers \in Nat /\ MaxLocked \in Nat /\ PageUnits \in Nat
  BY FabricAssumption
<1>2. PoolInv
  <2>1. freeList = <<arena>> /\ handles = {} /\ releases = 0 /\ inflated = FALSE
    BY DEF FabricInit
  <2>2. arena \in FreeBlock /\ Cells(arena) = 0..(PoolTotal - 1)
    BY <1>1 DEF FreeBlock, Cells
  <2> HIDE DEF arena
  <2>3. freeList \in Seq(FreeBlock) /\ DOMAIN freeList = 1..1 /\ freeList[1] = arena
    BY <2>1, <2>2
  <2>4. (UNION {Cells(freeList[i]) : i \in DOMAIN freeList}) \cup (UNION {Cells(h) : h \in handles}) = Cells(arena)
    BY <2>1, <2>3
  <2>5. Tiled(freeList, handles)
    BY <2>1, <2>2, <2>3, <2>4 DEF Tiled
  <2> QED
    BY <1>1, <2>1, <2>3, <2>5 DEF PoolInv
<1>3. LockInv
  <2>1. buffers = <<>> /\ locked = 0 /\ dropped = 0
    BY DEF FabricInit
  <2>2. buffers \in Seq(Nat) /\ Len(buffers) = 0 /\ DOMAIN buffers = {}
    BY <2>1
  <2>3. SumFunction(buffers) = SumFunctionOnSet(buffers, {})
    BY <2>2 DEF SumFunction, SumFunctionOnSet, FoldFunction
  <2>4. SumFunctionOnSet(buffers, {}) = 0
    BY FS_EmptySet, SumLaws
  <2> QED
    BY <1>1, <2>1, <2>2, <2>3, <2>4 DEF LockInv, LockedCounted
<1>4. RegionInv
  BY DEF FabricInit, RegionInv, OwnersTrue
<1> QED
  BY <1>2, <1>3, <1>4

FabricInv == PoolInv /\ LockInv /\ RegionInv

LEMMA FabricStep ==
  ASSUME FabricInv, FabricNext
  PROVE  FabricInv'
<1>1. ASSUME UNCHANGED lockVars PROVE LockInv'
  BY <1>1 DEF FabricInv, LockInv, LockedCounted, lockVars
<1>2. ASSUME UNCHANGED poolVars PROVE PoolInv'
  BY <1>2 DEF FabricInv, PoolInv, Tiled, Cells, poolVars
<1>3. ASSUME UNCHANGED regionVars PROVE RegionInv'
  BY <1>3 DEF FabricInv, RegionInv, OwnersTrue, Base, regionVars
<1>4. CASE PoolNext
  <2>1. PoolInv'
    BY <1>4, AcquireStep, ReleaseStep DEF PoolNext, FabricInv
  <2>2. UNCHANGED lockVars /\ UNCHANGED regionVars
    BY <1>4 DEF PoolNext, Acquire, Release
  <2> QED
    BY <1>1, <1>3, <2>1, <2>2 DEF FabricInv
<1>5. CASE LockNext
  <2>1. LockInv'
    BY <1>5, LockStep DEF FabricInv
  <2>2. UNCHANGED poolVars /\ UNCHANGED regionVars
    BY <1>5 DEF LockNext, Allocate, Deallocate, DropBytes
  <2> QED
    BY <1>2, <1>3, <2>1, <2>2 DEF FabricInv
<1>6. CASE RegionNext
  <2>1. RegionInv'
    BY <1>6, RegionStep DEF FabricInv
  <2>2. UNCHANGED poolVars /\ UNCHANGED lockVars
    BY <1>6 DEF RegionNext, AllocateRegion, DeallocateRegion, VerifyOwner
  <2> QED
    BY <1>1, <1>2, <2>1, <2>2 DEF FabricInv
<1> QED
  BY <1>4, <1>5, <1>6 DEF FabricNext

LEMMA FabricHolds == FabricInv => FabricTypeOK /\ PoolTiles /\ LockedCounted /\ OwnersTrue
BY PoolHolds DEF FabricInv, FabricTypeOK, PoolInv, LockInv, RegionInv

-------------------------------------------------------------------------------
(* What follows a parsed intent: the choices.                              *)

(* A list that is not empty has a last one among its largest.               *)
LEMMA LargestExists ==
  ASSUME NEW n \in Nat \ {0}, NEW f, \A i \in 1..n : f[i] \in Int
  PROVE  \E i \in 1..n : \A j \in 1..n : f[j] <= f[i] /\ (f[j] = f[i] => j <= i)
<1> DEFINE Good(m, i) == \A j \in 1..m : f[j] <= f[i] /\ (f[j] = f[i] => j <= i)
           S == {m \in Nat : m + 1 <= n => \E i \in 1..(m + 1) : Good(m + 1, i)}
<1>1. 0 \in S
  <2>1. Good(1, 1)
    BY DEF Good
  <2> HIDE DEF Good
  <2> QED
    BY <2>1
<1>2. ASSUME NEW m \in S PROVE m + 1 \in S
  <2>1. SUFFICES ASSUME m + 2 <= n PROVE \E i \in 1..(m + 2) : Good(m + 2, i)
    OBVIOUS
  <2>2. PICK i \in 1..(m + 1) : Good(m + 1, i)
    <3> HIDE DEF Good
    <3> QED
      BY <2>1
  <2>3. CASE f[m + 2] >= f[i]
    <3>1. Good(m + 2, m + 2)
      <4> SUFFICES ASSUME NEW j \in 1..(m + 2) PROVE f[j] <= f[m + 2] /\ (f[j] = f[m + 2] => j <= m + 2)
        OBVIOUS
      <4>1. CASE j = m + 2
        BY <2>1, <4>1
      <4>2. CASE j # m + 2
        <5>1. j \in 1..(m + 1) /\ f[j] \in Int /\ f[i] \in Int /\ f[m + 2] \in Int
          BY <2>1, <4>2
        <5>2. f[j] <= f[i]
          BY <2>2, <5>1
        <5> QED
          BY <2>3, <5>1, <5>2
      <4> QED
        BY <4>1, <4>2
    <3> HIDE DEF Good
    <3> QED
      BY <3>1
  <2>4. CASE ~(f[m + 2] >= f[i])
    <3>1. Good(m + 2, i)
      <4> SUFFICES ASSUME NEW j \in 1..(m + 2) PROVE f[j] <= f[i] /\ (f[j] = f[i] => j <= i)
        OBVIOUS
      <4>1. CASE j = m + 2
        <5>1. f[j] \in Int /\ f[i] \in Int
          BY <2>1
        <5> QED
          BY <2>4, <4>1, <5>1
      <4>2. CASE j # m + 2
        <5>1. j \in 1..(m + 1)
          BY <4>2
        <5> QED
          BY <2>2, <5>1
      <4> QED
        BY <4>1, <4>2
    <3> HIDE DEF Good
    <3>2. i \in 1..(m + 2)
      OBVIOUS
    <3> QED
      BY <3>1, <3>2
  <2> QED
    BY <2>3, <2>4
<1>3. n - 1 \in S /\ (n - 1) + 1 = n
  <2> HIDE DEF S
  <2>1. S = Nat
    <3>1. S \in SUBSET Nat
      BY DEF S
    <3> QED
      BY <1>1, <1>2, <3>1, NatSetInduction
  <2> QED
    BY <2>1
<1>4. \E i \in 1..n : Good(n, i)
  <2> HIDE DEF Good
  <2> QED
    BY <1>3
<1> QED
  BY <1>4

LEMMA MostRecent ==
  ASSUME NEW cands \in CandidateLists, Len(cands) > 0
  PROVE  LargestBy(cands, ByRecency) \in DOMAIN cands
<1> DEFINE n == Len(cands)
           f == [i \in 1..n |-> cands[i].recency]
<1>1. n \in Nat \ {0} /\ DOMAIN cands = 1..n /\ \A i \in 1..n : cands[i].recency \in Int
  BY ChoicesAssumption
<1> HIDE DEF n
<1>2. \E i \in 1..n : \A j \in 1..n : f[j] <= f[i] /\ (f[j] = f[i] => j <= i)
  <2>1. \A i \in 1..n : f[i] \in Int
    BY <1>1
  <2> HIDE DEF f
  <2> QED
    BY <1>1, <2>1, LargestExists
<1>3. \E i \in DOMAIN cands : /\ \A j \in DOMAIN cands : cands[j].recency <= cands[i].recency
                              /\ \A j \in DOMAIN cands : cands[j].recency = cands[i].recency => j <= i
  BY <1>1, <1>2
<1> QED
  BY <1>3 DEF LargestBy, ByRecency

LEMMA PicksKnown ==
  ASSUME NEW ctx \in Contexts, NEW cands \in CandidateLists, learned[ctx] # Nothing, cands # <<>>
  PROVE  /\ AutoPick(ctx, cands) \in Nat \ {0}
         /\ \/ cands[AutoPick(ctx, cands)].target = learned[ctx]
            \/ \A i \in DOMAIN cands : cands[i].target # learned[ctx]
<1> DEFINE same == {i \in DOMAIN cands : cands[i].target = learned[ctx]}
<1>1. AutoPick(ctx, cands) = IF same = {} THEN 1 ELSE CHOOSE i \in same : \A j \in same : i <= j
  BY DEF AutoPick
<1>2. CASE same = {}
  BY <1>1, <1>2
<1>3. CASE same # {}
  <2>1. same \in SUBSET (Nat \ {0})
    BY ChoicesAssumption
  <2>2. \A i \in same : cands[i].target = learned[ctx]
    OBVIOUS
  <2> HIDE DEF same
  <2>3. \E i \in same : \A j \in same : i <= j
    BY <1>3, <2>1, LeastNatural
  <2>4. AutoPick(ctx, cands) \in same
    BY <1>1, <1>3, <2>3
  <2> QED
    BY <2>1, <2>2, <2>4
<1> QED
  BY <1>2, <1>3

(* A question is asked exactly when nothing is picked without one.          *)
LEMMA AsksOrPicks ==
  ASSUME NEW ctx \in Contexts, NEW cands \in CandidateLists, Len(cands) >= 2
  PROVE  Asks(ctx, cands) <=> AutoPick(ctx, cands) = 0
<1>1. cands # <<>> /\ Len(cands) > 0
  <2>1. Len(cands) \in Nat
    BY ChoicesAssumption
  <2>2. Len(<<>>) = 0
    OBVIOUS
  <2> QED
    BY <2>1, <2>2
<1>2. CASE learned[ctx] # Nothing
  BY <1>1, <1>2, PicksKnown DEF Asks
<1>3. CASE learned[ctx] = Nothing
  <2>1. CASE Classify(cands) = "Recency"
    <3>1. LargestBy(cands, ByRecency) \in DOMAIN cands
      BY <1>1, MostRecent
    <3>2. LargestBy(cands, ByRecency) # 0
      BY <3>1, ChoicesAssumption
    <3>3. AutoPick(ctx, cands) = LargestBy(cands, ByRecency)
      BY <1>3, <2>1 DEF AutoPick
    <3> QED
      BY <2>1, <3>2, <3>3 DEF Asks
  <2>2. CASE Classify(cands) # "Recency"
    <3>1. AutoPick(ctx, cands) = 0
      BY <1>3, <2>2 DEF AutoPick
    <3> QED
      BY <1>3, <2>2, <3>1 DEF Asks
  <2> QED
    BY <2>1, <2>2
<1> QED
  BY <1>2, <1>3

LEMMA ChoicesInitial == ChoicesInit => ChoicesInv
<1> SUFFICES ASSUME ChoicesInit PROVE ChoicesInv
  OBVIOUS
<1>1. resolved.how # "auto"
  BY DEF ChoicesInit, Unresolved
<1>2. learned = Unlearned /\ stored = Unlearned /\ chosen = Unlearned /\ DOMAIN Unlearned = Contexts
  BY DEF ChoicesInit, Unlearned
<1>3. forgot \in BOOLEAN /\ nodes \subseteq GraphNodes /\ edges \subseteq nodes \X nodes
  BY DEF ChoicesInit
<1> QED
  BY <1>1, <1>2, <1>3 DEF ChoicesInv, ChoicesTypeOK

LEMMA ChoicesStep ==
  ASSUME ChoicesInv, ChoicesNext
  PROVE  ChoicesInv'
<1>1. ChoicesTypeOK /\ DOMAIN stored = Contexts
  BY DEF ChoicesInv
<1>2. ASSUME NEW ctx \in Contexts, NEW cands \in CandidateLists, TryAutoResolve(ctx, cands)
      PROVE  ChoicesInv'
  <2>1. /\ learned' = learned /\ stored' = stored /\ chosen' = chosen /\ forgot' = forgot /\ nodes' = nodes /\ edges' = edges
        /\ resolved'.how = "auto" /\ resolved'.ctx = ctx /\ resolved'.cands = cands
        /\ resolved'.target = cands[AutoPick(ctx, cands)].target
    BY <1>2 DEF TryAutoResolve
  <2>2. ASSUME ~forgot, chosen[ctx] # Nothing
        PROVE  \/ cands[AutoPick(ctx, cands)].target = chosen[ctx]
               \/ \A i \in DOMAIN cands : cands[i].target # chosen[ctx]
    <3>1. learned[ctx] = chosen[ctx]
      BY <2>2 DEF ChoicesInv
    <3>2. CASE cands = <<>>
      BY <3>2
    <3>3. CASE cands # <<>>
      BY <2>2, <3>1, <3>3, PicksKnown
    <3> QED
      BY <3>2, <3>3
  <2>3. (ChoicesTypeOK /\ DOMAIN stored = Contexts /\ (~forgot => learned = chosen /\ stored = chosen))'
    BY <2>1 DEF ChoicesInv, ChoicesTypeOK
  <2> QED
    BY <2>1, <2>2, <2>3 DEF ChoicesInv
<1>3. ASSUME NEW ctx \in Contexts, NEW cands \in CandidateLists, NEW response, NEW written \in BOOLEAN,
             Resolve(ctx, cands, response, written)
      PROVE  ChoicesInv'
  <2> DEFINE target == cands[Selected(cands, response)].target
  <2>1. /\ learned' = [learned EXCEPT ![ctx] = target] /\ chosen' = [chosen EXCEPT ![ctx] = target]
        /\ stored' = (IF written THEN learned' ELSE stored)
        /\ forgot' = (forgot \/ ~written) /\ resolved' = Unresolved /\ nodes' = nodes /\ edges' = edges
    BY <1>3 DEF Resolve
  <2> HIDE DEF target
  <2>2. DOMAIN learned' = Contexts /\ DOMAIN chosen' = Contexts /\ DOMAIN stored' = Contexts
    BY <1>1, <2>1 DEF ChoicesTypeOK
  <2>3. ~forgot' => learned' = chosen' /\ stored' = chosen'
    BY <2>1 DEF ChoicesInv
  <2>4. forgot' \in BOOLEAN
    BY <2>1
  <2>5. resolved'.how # "auto"
    BY <2>1 DEF Unresolved
  <2> QED
    BY <1>1, <2>1, <2>2, <2>3, <2>4, <2>5 DEF ChoicesInv, ChoicesTypeOK
<1>4. ASSUME StopWhileWriting PROVE ChoicesInv'
  BY <1>1, <1>4 DEF StopWhileWriting, ChoicesInv, ChoicesTypeOK, Unlearned, Unresolved
<1>5. ASSUME LoadChoices PROVE ChoicesInv'
  BY <1>1, <1>5 DEF LoadChoices, ChoicesInv, ChoicesTypeOK, Unresolved
<1>6. ASSUME UNCHANGED memoryVars, nodes' \subseteq GraphNodes, edges' \subseteq nodes' \X nodes'
      PROVE  ChoicesInv'
  BY <1>6 DEF memoryVars, ChoicesInv, ChoicesTypeOK
<1>7. ASSUME NEW n \in GraphNodes, AddNode(n) PROVE ChoicesInv'
  BY <1>1, <1>6, <1>7 DEF AddNode, ChoicesTypeOK
<1>8. ASSUME NEW a \in GraphNodes, NEW b \in GraphNodes, AddDependency(a, b) PROVE ChoicesInv'
  BY <1>1, <1>6, <1>8 DEF AddDependency, ChoicesTypeOK
<1> QED
  BY <1>2, <1>3, <1>4, <1>5, <1>7, <1>8 DEF ChoicesNext

LEMMA ChoicesHold == ChoicesInv => ChoicesHonoured
BY AsksOrPicks DEF ChoicesInv, ChoicesHonoured

-------------------------------------------------------------------------------
(* What follows a parsed intent: the order of the actions.                 *)

LEMMA RangeIsSet == \A s : Range(s) = ToSet(s)
BY DEF Range, ToSet

(* sort_deterministic lists a set, each member once.                        *)
LEMMA SortedLists ==
  ASSUME NEW S \in SUBSET Nat, IsFiniteSet(S)
  PROVE  /\ Sorted(S) \in Seq(S) /\ Range(Sorted(S)) = S
         /\ IsInjective(Sorted(S))
<1> DEFINE Upto(n) == {m \in S : m <= n}
           R == [n \in S |-> Cardinality(Upto(n))]
           c == Cardinality(S)
           t == [k \in 1..c |-> CHOOSE n \in S : Cardinality({m \in S : m <= n}) = k]
<1>1. c \in Nat
  BY FS_CardinalityType
<1>2. Sorted(S) = t
  BY DEF Sorted
<1>3. \A n \in S : IsFiniteSet(Upto(n)) /\ Cardinality(Upto(n)) \in Nat /\ Cardinality(Upto(n)) <= c
  <2> SUFFICES ASSUME NEW n \in S PROVE IsFiniteSet(Upto(n)) /\ Cardinality(Upto(n)) \in Nat /\ Cardinality(Upto(n)) <= c
    OBVIOUS
  <2>1. Upto(n) \in SUBSET S
    OBVIOUS
  <2> HIDE DEF Upto
  <2>2. IsFiniteSet(Upto(n)) /\ Cardinality(Upto(n)) <= c
    BY <2>1, FS_Subset
  <2> QED
    BY <2>2, FS_CardinalityType
<1>4. ASSUME NEW m \in S, NEW n \in S, m < n
      PROVE  Cardinality(Upto(m)) # Cardinality(Upto(n))
  <2>4. \A x \in S : x \in Nat
    OBVIOUS
  <2>5. n <= n /\ ~(n <= m) /\ \A x \in S : x <= m => x <= n
    BY <1>4, <2>4
  <2>1. Upto(m) \in SUBSET Upto(n) /\ n \in Upto(n) /\ n \notin Upto(m)
    <3>1. Upto(m) \subseteq Upto(n)
      BY <2>5
    <3>2. n \in Upto(n) /\ n \notin Upto(m)
      BY <2>5
    <3> QED
      BY <3>1, <3>2
  <2> HIDE DEF Upto
  <2> QED
    BY <1>3, <2>1, FS_Subset
<1>5. \A n \in S : Cardinality(Upto(n)) \in 1..c
  <2> SUFFICES ASSUME NEW n \in S PROVE Cardinality(Upto(n)) \in 1..c
    OBVIOUS
  <2>1. n \in Upto(n)
    OBVIOUS
  <2> HIDE DEF Upto, c
  <2>2. Cardinality(Upto(n)) # 0
    BY <1>3, <2>1, FS_EmptySet
  <2> QED
    BY <1>1, <1>3, <2>2
<1>6. \A m, n \in S : R[m] = R[n] => m = n
  <2> HIDE DEF Upto
  <2> SUFFICES ASSUME NEW m \in S, NEW n \in S, m # n PROVE R[m] # R[n]
    OBVIOUS
  <2>1. m < n \/ n < m
    OBVIOUS
  <2> QED
    BY <1>4, <2>1
<1>7. \A k \in 1..c : \E n \in S : R[n] = k
  <2>1. R \in [S -> 1..c]
    <3> HIDE DEF Upto, c
    <3> QED
      BY <1>5
  <2> HIDE DEF R
  <2> QED
    BY <1>6, <2>1, RanksReached
<1>8. \A n \in S : R[n] = Cardinality({m \in S : m <= n}) /\ R[n] \in 1..c
  BY <1>5
<1> HIDE DEF R, Upto
<1>9. \A k \in 1..c : \E n \in S : Cardinality({m \in S : m <= n}) = k
  BY <1>7, <1>8
<1>10. t \in [1..c -> S] /\ \A k \in 1..c : R[t[k]] = k
  <2> HIDE DEF c
  <2>1. \A k \in 1..c : t[k] \in S /\ Cardinality({m \in S : m <= t[k]}) = k
    BY <1>9
  <2>2. t = [k \in 1..c |-> t[k]]
    OBVIOUS
  <2> HIDE DEF t
  <2> QED
    BY <1>8, <2>1, <2>2
<1> HIDE DEF t, c
<1>11. \A n \in S : t[R[n]] = n
  <2> SUFFICES ASSUME NEW n \in S PROVE t[R[n]] = n
    OBVIOUS
  <2>1. R[n] \in 1..c
    BY <1>8
  <2>2. t[R[n]] \in S
    BY <1>10, <2>1
  <2>3. R[t[R[n]]] = R[n]
    BY <1>10, <2>1
  <2> QED
    BY <1>6, <2>2, <2>3
<1>12. t \in Seq(S) /\ DOMAIN t = 1..c
  BY <1>1, <1>10
<1>13. IsInjective(t)
  BY <1>10, <1>12 DEF IsInjective
<1>14. Range(t) = S
  <2>1. \A n \in S : n \in Range(t)
    BY <1>8, <1>11, <1>12 DEF Range
  <2>2. Range(t) \subseteq S
    BY <1>10, <1>12 DEF Range
  <2> QED
    BY <2>1, <2>2
<1> QED
  BY <1>2, <1>12, <1>13, <1>14

(* One list of different members after another, with none in common.        *)
LEMMA ListConcat ==
  ASSUME NEW S, NEW s \in Seq(S), NEW t \in Seq(S), IsInjective(s), IsInjective(t),
         Range(s) \cap Range(t) = {}
  PROVE  s \o t \in Seq(S) /\ IsInjective(s \o t) /\ Range(s \o t) = Range(s) \cup Range(t)
<1> DEFINE u == s \o t
           m == Len(s)
           n == Len(t)
<1>1. m \in Nat /\ n \in Nat /\ DOMAIN s = 1..m /\ DOMAIN t = 1..n
  OBVIOUS
<1>2. /\ u \in Seq(S) /\ Len(u) = m + n
      /\ (\A i \in 1..m : u[i] = s[i]) /\ \A i \in 1..n : u[m + i] = t[i]
  BY ConcatPlaces
<1> HIDE DEF u
<1>3. DOMAIN u = 1..(m + n)
  BY <1>2
<1> HIDE DEF m, n
<1>4. \A i \in 1..(m + n) : (i \in 1..m /\ u[i] = s[i]) \/ (i > m /\ i - m \in 1..n /\ u[i] = t[i - m])
  <2> SUFFICES ASSUME NEW i \in 1..(m + n), i > m PROVE i - m \in 1..n /\ u[i] = t[i - m]
    BY <1>1, <1>2
  <2>1. i - m \in 1..n /\ m + (i - m) = i
    BY <1>1
  <2> QED
    BY <1>2, <2>1
<1>5. \A i \in 1..m : s[i] \in Range(s)
  BY <1>1 DEF Range
<1>6. \A i \in 1..n : t[i] \in Range(t)
  BY <1>1 DEF Range
<1>7. IsInjective(u)
  <2> SUFFICES ASSUME NEW i \in 1..(m + n), NEW j \in 1..(m + n), u[i] = u[j] PROVE i = j
    BY <1>3 DEF IsInjective
  <2>1. CASE i \in 1..m /\ j \in 1..m
    BY <1>1, <1>2, <2>1 DEF IsInjective
  <2>2. CASE i > m /\ j > m
    <3>1. i - m \in 1..n /\ j - m \in 1..n /\ t[i - m] = t[j - m]
      BY <1>1, <1>4, <2>2
    <3>2. i - m = j - m
      BY <1>1, <3>1 DEF IsInjective
    <3> QED
      BY <1>1, <3>2
  <2>3. CASE i \in 1..m /\ j > m
    BY <1>1, <1>4, <1>5, <1>6, <2>3
  <2>4. CASE i > m /\ j \in 1..m
    BY <1>1, <1>4, <1>5, <1>6, <2>4
  <2> QED
    BY <1>4, <2>1, <2>2, <2>3, <2>4
<1>8. Range(u) = Range(s) \cup Range(t)
  <2>1. \A i \in DOMAIN u : u[i] \in Range(s) \cup Range(t)
    BY <1>3, <1>4, <1>5, <1>6
  <2>2. \A i \in 1..m : s[i] \in Range(u)
    <3> SUFFICES ASSUME NEW i \in 1..m PROVE s[i] \in Range(u)
      OBVIOUS
    <3>1. i \in DOMAIN u /\ u[i] = s[i]
      BY <1>1, <1>2, <1>3
    <3> QED
      BY <3>1 DEF Range
  <2>3. \A i \in 1..n : t[i] \in Range(u)
    <3> SUFFICES ASSUME NEW i \in 1..n PROVE t[i] \in Range(u)
      OBVIOUS
    <3>1. m + i \in DOMAIN u /\ u[m + i] = t[i]
      BY <1>1, <1>2, <1>3
    <3> QED
      BY <3>1 DEF Range
  <2>4. Range(u) \subseteq Range(s) \cup Range(t)
    BY <2>1 DEF Range
  <2>5. Range(s) \subseteq Range(u)
    BY <1>1, <2>2 DEF Range
  <2>6. Range(t) \subseteq Range(u)
    BY <1>1, <2>3 DEF Range
  <2> QED
    BY <2>4, <2>5, <2>6
<1> QED
  BY <1>2, <1>7, <1>8 DEF u

(* What Kahn's loop keeps: placed and queued nodes are listed once, what    *)
(* they depend on is placed already, and each node in neither list waits    *)
(* for one that is not placed.                                             *)
KahnState == [order : Seq(nodes), queue : Seq(nodes)]
KahnKept(k) ==
  /\ k \in KahnState /\ IsInjective(k.order) /\ IsInjective(k.queue)
  /\ Range(k.order) \cap Range(k.queue) = {}
  /\ \A n \in Range(k.order) \cup Range(k.queue) : \A p \in nodes : <<p, n>> \in edges => p \in Range(k.order)
  /\ \A n \in nodes \ (Range(k.order) \cup Range(k.queue)) : \E p \in nodes \ Range(k.order) : <<p, n>> \in edges
  /\ \A i, j \in DOMAIN k.order : <<k.order[i], k.order[j]>> \in edges => i < j

LEMMA NodesFinite ==
  ASSUME nodes \subseteq GraphNodes, NEW S \in SUBSET nodes
  PROVE  IsFiniteSet(S) /\ S \in SUBSET Nat /\ Cardinality(S) \in Nat /\ Cardinality(S) <= Cardinality(GraphNodes)
<1>1. S \in SUBSET GraphNodes /\ IsFiniteSet(GraphNodes) /\ GraphNodes \in SUBSET Nat
  BY ChoicesAssumption
<1>2. IsFiniteSet(S) /\ Cardinality(S) <= Cardinality(GraphNodes)
  BY <1>1, FS_Subset
<1> QED
  BY <1>1, <1>2, FS_CardinalityType

LEMMA KahnStarts ==
  ASSUME nodes \subseteq GraphNodes
  PROVE  KahnKept([order |-> <<>>, queue |-> Sorted({n \in nodes : \A p \in nodes : <<p, n>> \notin edges})])
<1> DEFINE free == {n \in nodes : \A p \in nodes : <<p, n>> \notin edges}
           q == Sorted(free)
           k == [order |-> <<>>, queue |-> q]
<1>1. free \in SUBSET nodes
  OBVIOUS
<1>2. /\ \A n \in free : \A p \in nodes : <<p, n>> \notin edges
      /\ \A n \in nodes \ free : \E p \in nodes : <<p, n>> \in edges
  OBVIOUS
<1> HIDE DEF free
<1>3. IsFiniteSet(free) /\ free \in SUBSET Nat
  BY <1>1, NodesFinite
<1>4. q \in Seq(free) /\ Range(q) = free /\ IsInjective(q)
  BY <1>3, SortedLists
<1> HIDE DEF q
<1>5. q \in Seq(nodes) /\ <<>> \in Seq(nodes)
  BY <1>1, <1>4
<1>6. Range(<<>>) = {} /\ IsInjective(<<>>) /\ DOMAIN <<>> = {}
  BY DEF Range, IsInjective
<1>7. k.order = <<>> /\ k.queue = q /\ k \in KahnState
  BY <1>5 DEF KahnState
<1> HIDE DEF k
<1>8. KahnKept(k)
  BY <1>1, <1>2, <1>4, <1>6, <1>7 DEF KahnKept
<1> QED
  BY <1>8 DEF k, q, free

LEMMA KahnKeeps ==
  ASSUME nodes \subseteq GraphNodes, NEW k, KahnKept(k), k.queue # <<>>
  PROVE  KahnKept(KahnStep(k)) /\ Len(KahnStep(k).order) = Len(k.order) + 1
<1> DEFINE n == Head(k.queue)
           P == Range(k.order)
           W == Range(k.queue)
           placed == P \cup {n}
           ready == {m \in nodes \ placed : <<n, m>> \in edges /\ \A p \in nodes : <<p, m>> \in edges => p \in placed}
           more == Sorted(ready)
           order == Append(k.order, n)
           tail == Tail(k.queue)
           waiting == tail \o more
           next == [order |-> order, queue |-> waiting]
<1>1. KahnStep(k) = next
  BY DEF KahnStep
<1>2. /\ k.order \in Seq(nodes) /\ k.queue \in Seq(nodes) /\ IsInjective(k.order) /\ IsInjective(k.queue)
      /\ P \cap W = {}
      /\ \A m \in P \cup W : \A p \in nodes : <<p, m>> \in edges => p \in P
      /\ \A m \in nodes \ (P \cup W) : \E p \in nodes \ P : <<p, m>> \in edges
      /\ \A i, j \in DOMAIN k.order : <<k.order[i], k.order[j]>> \in edges => i < j
  BY DEF KahnKept, KahnState
<1>3. /\ tail \in Seq(nodes) /\ IsInjective(tail) /\ Range(tail) = W \ {n} /\ n \in W
  BY <1>2, ListTail, RangeIsSet
<1>4. n \in nodes /\ P \subseteq nodes /\ W \subseteq nodes
  <2>1. n \in nodes
    BY <1>2
  <2>2. (\A i \in DOMAIN k.order : k.order[i] \in nodes) /\ \A i \in DOMAIN k.queue : k.queue[i] \in nodes
    BY <1>2
  <2> QED
    BY <2>1, <2>2 DEF Range
<1> HIDE DEF tail, n, P, W
<1>5. n \notin P
  BY <1>2, <1>3
<1>6. /\ order \in Seq(nodes) /\ IsInjective(order) /\ Len(order) = Len(k.order) + 1 /\ Range(order) = placed
  BY <1>2, <1>4, <1>5, ListAppend, RangeIsSet DEF P
<1>7. /\ ready \in SUBSET nodes
      /\ \A m \in ready : m \notin placed /\ <<n, m>> \in edges /\ \A p \in nodes : <<p, m>> \in edges => p \in placed
      /\ \A m \in nodes \ placed : m \notin ready /\ <<n, m>> \in edges => \E p \in nodes \ placed : <<p, m>> \in edges
  OBVIOUS
<1> HIDE DEF ready
<1>8. more \in Seq(ready) /\ Range(more) = ready /\ IsInjective(more)
  <2>1. IsFiniteSet(ready) /\ ready \in SUBSET Nat
    BY <1>7, NodesFinite
  <2> QED
    BY <2>1, SortedLists
<1> HIDE DEF more
<1>9. more \in Seq(nodes)
  BY <1>7, <1>8
<1>10. Range(tail) \cap Range(more) = {}
  <2> SUFFICES ASSUME NEW m \in W, m \in ready PROVE FALSE
    BY <1>3, <1>8
  <2>1. <<n, m>> \in edges
    BY <1>7
  <2>2. n \in P
    BY <1>2, <1>4, <2>1
  <2> QED
    BY <1>5, <2>2
<1>11. waiting \in Seq(nodes) /\ IsInjective(waiting) /\ Range(waiting) = (W \ {n}) \cup ready
  BY <1>3, <1>8, <1>9, <1>10, ListConcat
<1>12. Range(order) \cap Range(waiting) = {}
  BY <1>2, <1>6, <1>7, <1>11
<1>13. \A m \in Range(order) \cup Range(waiting) : \A p \in nodes : <<p, m>> \in edges => p \in Range(order)
  <2> SUFFICES ASSUME NEW m \in Range(order) \cup Range(waiting), NEW p \in nodes, <<p, m>> \in edges PROVE p \in placed
    BY <1>6
  <2>1. m \in P \cup W \/ m \in ready
    BY <1>3, <1>6, <1>11
  <2> QED
    BY <1>2, <1>7, <2>1
<1>14. \A m \in nodes \ (Range(order) \cup Range(waiting)) : \E p \in nodes \ Range(order) : <<p, m>> \in edges
  <2> SUFFICES ASSUME NEW m \in nodes, m \notin placed, m \notin W, m \notin ready
               PROVE  \E p \in nodes \ placed : <<p, m>> \in edges
    BY <1>6, <1>11
  <2>1. PICK p \in nodes \ P : <<p, m>> \in edges
    BY <1>2
  <2>2. CASE p = n
    BY <1>7, <2>1, <2>2
  <2>3. CASE p # n
    BY <2>1, <2>3
  <2> QED
    BY <2>2, <2>3
<1>15. \A i, j \in DOMAIN order : <<order[i], order[j]>> \in edges => i < j
  <2> DEFINE c == Len(k.order)
  <2>1. /\ c \in Nat /\ DOMAIN k.order = 1..c /\ DOMAIN order = 1..(c + 1)
        /\ order[c + 1] = n /\ \A i \in 1..c : order[i] = k.order[i]
    BY <1>2, <1>4
  <2> HIDE DEF c, order
  <2> SUFFICES ASSUME NEW i \in 1..(c + 1), NEW j \in 1..(c + 1), <<order[i], order[j]>> \in edges PROVE i < j
    BY <2>1
  <2>2. \A h \in 1..c : order[h] \in P
    BY <2>1 DEF P, Range
  <2>3. order[i] \in nodes /\ order[j] \in P \cup W
    BY <1>3, <1>4, <2>1, <2>2
  <2>4. order[i] \in P
    BY <1>2, <2>3
  <2>5. i \in 1..c
    BY <1>5, <2>1, <2>4
  <2>6. CASE j = c + 1
    BY <2>1, <2>5, <2>6
  <2>7. CASE j \in 1..c
    BY <1>2, <2>1, <2>5, <2>7
  <2> QED
    BY <2>1, <2>6, <2>7
<1>16. next.order = order /\ next.queue = waiting /\ next \in KahnState
  BY <1>6, <1>11 DEF KahnState
<1> HIDE DEF next, order, waiting
<1> QED
  BY <1>1, <1>6, <1>11, <1>12, <1>13, <1>14, <1>15, <1>16 DEF KahnKept

(* The loop runs until the queue is empty.                                  *)
LEMMA KahnEnds ==
  ASSUME nodes \subseteq GraphNodes
  PROVE  \E k : KahnKept(k) /\ k.queue = <<>> /\ ExecutionOrder = k.order
<1> DEFINE N == Cardinality(GraphNodes)
           start == [order |-> <<>>, queue |-> Sorted({n \in nodes : \A p \in nodes : <<p, n>> \notin edges})]
           Step1(k) == IF k.queue = <<>> THEN k ELSE KahnStep(k)
           Rec(f) == f = [i \in 0..N |-> IF i = 0 THEN start ELSE IF f[i - 1].queue = <<>> THEN f[i - 1] ELSE KahnStep(f[i - 1])]
           run == CHOOSE f : Rec(f)
           X == {k \in KahnState : KahnKept(k)}
<1>1. N \in Nat
  BY ChoicesAssumption, FS_CardinalityType
<1>2. ExecutionOrder = run[N].order
  BY DEF ExecutionOrder
<1>3. start \in X
  BY KahnStarts DEF KahnKept
<1>4. \A k \in X : Step1(k) \in X
  BY KahnKeeps DEF KahnKept
<1> HIDE DEF start
<1>5. \E f : Rec(f)
  <2> DEFINE G == [k \in X |-> Step1(k)]
  <2>1. G \in [X -> X]
    <3> HIDE DEF X, Step1
    <3> QED
      BY <1>4
  <2> HIDE DEF G, X
  <2>2. PICK f \in [0..N -> X] : f[0] = start /\ \A i \in 1..N : f[i] = G[f[i - 1]]
    <3> HIDE DEF N
    <3>1. Iterated(X, start, G, N)
      BY <1>1, <1>3, <2>1, IterationExists
    <3> QED
      BY <3>1 DEF Iterated
  <2> HIDE DEF N
  <2>3. \A i \in 1..N : f[i] = Step1(f[i - 1])
    <3> SUFFICES ASSUME NEW i \in 1..N PROVE f[i] = Step1(f[i - 1])
      OBVIOUS
    <3>1. f[i - 1] \in X
      BY <1>1, <2>2
    <3> HIDE DEF Step1
    <3> QED
      BY <2>2, <3>1 DEF G
  <2>4. \A i \in 0..N : f[i] = IF i = 0 THEN start ELSE Step1(f[i - 1])
    <3> HIDE DEF Step1
    <3> SUFFICES ASSUME NEW i \in 0..N PROVE f[i] = IF i = 0 THEN start ELSE Step1(f[i - 1])
      OBVIOUS
    <3>1. CASE i = 0
      BY <2>2, <3>1
    <3>2. CASE i # 0
      <4>1. i \in 1..N
        BY <1>1, <3>2
      <4> QED
        BY <2>3, <3>2, <4>1
    <3> QED
      BY <3>1, <3>2
  <2>5. f = [i \in 0..N |-> IF i = 0 THEN start ELSE Step1(f[i - 1])]
    <3> HIDE DEF Step1
    <3> QED
      BY <2>2, <2>4
  <2>6. Rec(f)
    BY <2>5
  <2> QED
    BY <2>6
<1>6. Rec(run)
  BY <1>5
<1> HIDE DEF run, N
<1>7. run[0] = start /\ \A i \in 1..N : run[i] = Step1(run[i - 1])
  <2>1. \A i \in 0..N : run[i] = IF i = 0 THEN start ELSE Step1(run[i - 1])
    BY <1>6
  <2> HIDE DEF Step1, Rec
  <2> QED
    BY <1>1, <2>1
<1> HIDE DEF Rec
<1> DEFINE Good(i) == KahnKept(run[i]) /\ (run[i].queue = <<>> \/ Len(run[i].order) = i)
           At == {i \in Nat : i <= N => Good(i)}
<1>8. 0 \in At
  <2>1. KahnKept(start) /\ Len(start.order) = 0
    BY <1>3 DEF X, start
  <2>2. Good(0)
    BY <1>7, <2>1
  <2> HIDE DEF Good
  <2> QED
    BY <2>2
<1>9. ASSUME NEW i \in At PROVE i + 1 \in At
  <2>1. SUFFICES ASSUME i + 1 <= N PROVE Good(i + 1)
    OBVIOUS
  <2> DEFINE k == run[i]
  <2>2. KahnKept(k) /\ (k.queue = <<>> \/ Len(k.order) = i) /\ i \in Nat
    BY <1>1, <2>1
  <2>3. run[i + 1] = Step1(k)
    <3>1. i + 1 \in 1..N /\ (i + 1) - 1 = i
      BY <1>1, <2>1, <2>2
    <3> HIDE DEF Step1
    <3> QED
      BY <1>7, <3>1
  <2> HIDE DEF k
  <2>4. CASE k.queue = <<>>
    BY <2>2, <2>3, <2>4
  <2>5. CASE k.queue # <<>>
    <3>1. KahnKept(KahnStep(k)) /\ Len(KahnStep(k).order) = Len(k.order) + 1
      BY <2>2, <2>5, KahnKeeps
    <3>2. run[i + 1] = KahnStep(k)
      BY <2>3, <2>5
    <3> QED
      BY <2>2, <2>5, <3>1, <3>2
  <2> QED
    BY <2>4, <2>5
<1>10. Good(N)
  <2> HIDE DEF Good
  <2>1. At = Nat
    <3> HIDE DEF At
    <3>1. At \in SUBSET Nat
      BY DEF At
    <3> QED
      BY <1>8, <1>9, <3>1, NatSetInduction
  <2>2. N \in At /\ N <= N
    BY <1>1, <2>1
  <2> QED
    BY <2>2
<1> DEFINE last == run[N]
<1>11. KahnKept(last) /\ (last.queue = <<>> \/ Len(last.order) = N)
  BY <1>10
<1> HIDE DEF last
<1>12. last.queue = <<>>
  <2>1. SUFFICES ASSUME Len(last.order) = N, last.queue # <<>> PROVE FALSE
    BY <1>11
  <2> DEFINE P == Range(last.order)
             W == Range(last.queue)
  <2>2. /\ last.order \in Seq(nodes) /\ last.queue \in Seq(nodes) /\ IsInjective(last.order) /\ P \cap W = {}
    BY <1>11 DEF KahnKept, KahnState
  <2>3. Cardinality(P) = N
    BY <2>1, <2>2, ListedOnce, RangeIsSet
  <2>4. P \subseteq nodes /\ W \subseteq nodes
    <3>1. (\A i \in DOMAIN last.order : last.order[i] \in nodes) /\ \A i \in DOMAIN last.queue : last.queue[i] \in nodes
      BY <2>2
    <3> QED
      BY <3>1 DEF Range
  <2>5. last.queue[1] \in W
    <3>1. 1 \in DOMAIN last.queue
      BY <2>1, <2>2
    <3> QED
      BY <3>1 DEF Range
  <2> HIDE DEF P, W
  <2>6. P = GraphNodes
    BY <2>3, <2>4, ChoicesAssumption, FS_Subset DEF N
  <2> QED
    BY <2>2, <2>4, <2>5, <2>6
<1> QED
  BY <1>2, <1>11, <1>12 DEF last

LEMMA OrderHolds ==
  ASSUME nodes \subseteq GraphNodes, edges \subseteq nodes \X nodes
  PROVE  OrderSound
<1> DEFINE order == ExecutionOrder
           reach == {s \in SUBSET nodes : s # {} /\ \A n \in s : \E p \in s : <<p, n>> \in edges}
           P == Range(order)
<1>1. PICK k : KahnKept(k) /\ k.queue = <<>> /\ order = k.order
  BY KahnEnds
<1> HIDE DEF order
<1>2. /\ order \in Seq(nodes) /\ IsInjective(order)
      /\ \A n \in nodes \ P : \E p \in nodes \ P : <<p, n>> \in edges
      /\ \A i, j \in DOMAIN order : <<order[i], order[j]>> \in edges => i < j
  <2>1. Range(<<>>) = {}
    BY DEF Range
  <2> QED
    BY <1>1, <2>1 DEF KahnKept, KahnState
<1>3. Cardinality(P) = Len(order) /\ P \subseteq nodes
  <2>1. \A i \in DOMAIN order : order[i] \in nodes
    BY <1>2
  <2> QED
    BY <1>2, <2>1, ListedOnce, RangeIsSet DEF Range
<1>4. Len(order) = Cardinality(nodes) <=> P = nodes
  <2>1. IsFiniteSet(nodes)
    BY NodesFinite
  <2> HIDE DEF P
  <2> QED
    BY <1>3, <2>1, FS_Subset
<1>5. P # nodes => nodes \ P \in reach
  <2> HIDE DEF P
  <2> QED
    BY <1>2, <1>3
<1>6. ASSUME P = nodes, NEW s \in reach
      PROVE  FALSE
  <2> DEFINE at == {i \in DOMAIN order : order[i] \in s}
  <2>1. at \in SUBSET Nat
    BY <1>2
  <2>2. at # {}
    <3>1. PICK n \in s : n \in P
      BY <1>6
    <3> QED
      BY <3>1 DEF Range
  <2> HIDE DEF at
  <2>3. PICK i \in at : \A j \in at : i <= j
    BY <2>1, <2>2, LeastNatural
  <2>4. i \in DOMAIN order /\ order[i] \in s
    BY <2>3 DEF at
  <2>5. PICK p \in s : <<p, order[i]>> \in edges
    BY <1>6, <2>4
  <2>6. p \in P
    BY <1>6, <2>5
  <2>7. PICK j \in DOMAIN order : order[j] = p
    BY <2>6 DEF Range
  <2>8. j \in at /\ j < i
    BY <1>2, <2>4, <2>5, <2>7 DEF at
  <2>9. i \in Nat /\ j \in Nat /\ i <= j
    BY <2>1, <2>3, <2>8
  <2> QED
    BY <2>8, <2>9
<1>7. Len(order) = Cardinality(nodes) <=> reach = {}
  <2> HIDE DEF reach, P
  <2> QED
    BY <1>4, <1>5, <1>6
<1>8. \A i, j \in DOMAIN order : i # j => order[i] # order[j]
  BY <1>2 DEF IsInjective
<1> QED
  BY <1>2, <1>7, <1>8 DEF OrderSound, order

-------------------------------------------------------------------------------
(* The services together: in a behaviour one of them moves, and what keeps  *)
(* each holds of all.                                                      *)
ServicesInv ==
  /\ SchedulerInv
  /\ IntentInv
  /\ ChoicesInv
  /\ IndexInv
  /\ FabricInv
  /\ CommandInv

LEMMA ServicesStart == Init => ServicesInv
BY SchedulerInitial, IntentInitial, ChoicesInitial, IndexInitial, FabricInitial, CommandInitial
   DEF Init, ServicesInv, FabricInv

LEMMA OneMoves ==
  ASSUME [Next]_vars
  PROVE  /\ [SchedulerNext]_schedulerVars
         /\ [IntentNext]_intentVars
         /\ [ChoicesNext]_choiceVars
         /\ [IndexNext]_indexVars
         /\ [FabricNext]_fabricVars
         /\ [CommandNext]_commandVars
BY DEF Next, vars

LEMMA ServicesStep ==
  ASSUME ServicesInv, [Next]_vars
  PROVE  ServicesInv'
<1>1. SchedulerInv'
  BY OneMoves, SchedulerStep DEF ServicesInv
<1>2. IntentInv'
  BY OneMoves, IntentStep DEF ServicesInv
<1>3. ChoicesInv'
  <2>1. CASE ChoicesNext
    BY <2>1, ChoicesStep DEF ServicesInv
  <2>2. CASE UNCHANGED choiceVars
    BY <2>2 DEF choiceVars, ServicesInv, ChoicesInv, ChoicesTypeOK
  <2> QED
    BY <2>1, <2>2, OneMoves
<1>4. IndexInv'
  BY OneMoves, IndexStep DEF ServicesInv
<1>5. FabricInv'
  <2>1. CASE FabricNext
    BY <2>1, FabricStep DEF ServicesInv
  <2>2. CASE UNCHANGED fabricVars
    <3>1. PoolInv'
      BY <2>2 DEF fabricVars, ServicesInv, FabricInv, PoolInv, Tiled, Cells
    <3>2. LockInv'
      BY <2>2 DEF fabricVars, ServicesInv, FabricInv, LockInv, LockedCounted
    <3>3. RegionInv'
      BY <2>2 DEF fabricVars, ServicesInv, FabricInv, RegionInv, OwnersTrue, Base
    <3> QED
      BY <3>1, <3>2, <3>3 DEF FabricInv
  <2> QED
    BY <2>1, <2>2, OneMoves
<1>6. CommandInv'
  BY OneMoves, CommandStep DEF ServicesInv
<1> QED
  BY <1>1, <1>2, <1>3, <1>4, <1>5, <1>6 DEF ServicesInv

LEMMA ServicesImplied ==
  ASSUME ServicesInv
  PROVE  ServicesTypeOK /\ IntentSound /\ ServicesSound
<1>1. IndexTypeOK /\ LinesTried /\ RecordsHeld /\ WipedStaysGone
  BY IndexHolds DEF ServicesInv
<1>2. FabricTypeOK /\ PoolTiles /\ LockedCounted /\ OwnersTrue
  BY FabricHolds DEF ServicesInv
<1>3. EditsKept /\ RowShown
  BY CommandsTold DEF ServicesInv
<1>4. RepliesSound /\ IntentTypeOK
  BY RepliesHold, IntentTypes DEF ServicesInv
<1>5. ChoicesHonoured /\ OrderSound
  BY ChoicesHold, OrderHolds DEF ServicesInv, ChoicesInv, ChoicesTypeOK
<1>6. NoHastySwitch
  BY DEF ServicesInv, SchedulerInv
<1>7. ServicesTypeOK
  BY <1>1, <1>2, <1>4 DEF ServicesTypeOK, ServicesInv, SchedulerInv, ChoicesInv, CommandInv
<1> QED
  BY <1>1, <1>2, <1>3, <1>4, <1>5, <1>6, <1>7 DEF IntentSound, ServicesSound

(***************************************************************************)
(* What the services keep to: the timer never hurries a switch (daemon.rs); *)
(* every queued file is tried, and records are kept and forgotten but for   *)
(* the overlaps and torn writes the definitions name (indexer.rs); the pool *)
(* tiles its arena, the locked total and region owners are right            *)
(* (memory/fabric); command lines lose edits only when they overlap, and    *)
(* the row they highlight exists (main.rs, tui.rs).                         *)
(***************************************************************************)
THEOREM ServicesHold == Spec => []ServicesSound
<1>1. ServicesInv => ServicesSound
  BY ServicesImplied
<1> QED
  BY <1>1, ServicesStart, ServicesStep, PTL DEF Spec

(***************************************************************************)
(* The intent engine's answers are the requester's own or an unexpired one  *)
(* of the same input, and only confident ones are cached (parser.rs); the   *)
(* user's choices are honoured (disambiguation.rs); and execution_order     *)
(* places every action after those it depends on, all of them exactly when  *)
(* the graph has no cycle (action_graph.rs).                               *)
(***************************************************************************)
THEOREM IntentHolds == Spec => []IntentSound
<1>1. ServicesInv => IntentSound
  BY ServicesImplied
<1> QED
  BY <1>1, ServicesStart, ServicesStep, PTL DEF Spec

(***************************************************************************)
(* The services' state keeps its shape and its bounds: the queue of the     *)
(* indexer, the buffers of the allocator, the decisions the command line    *)
(* shows stay within their capacities.                                      *)
(***************************************************************************)
THEOREM ServicesTypes == Spec => []ServicesTypeOK
<1>1. ServicesInv => ServicesTypeOK
  BY ServicesImplied
<1> QED
  BY <1>1, ServicesStart, ServicesStep, PTL DEF Spec
===============================================================================
