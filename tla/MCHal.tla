------------------------------- MODULE MCHal -------------------------------
(*****************************************************************************)
(* Model-checking instance of HAL's components.  They share no state, so a   *)
(* behaviour drives one of them, chosen at the start: the states are the sum *)
(* of theirs, not the product.                                               *)
(*****************************************************************************)
EXTENDS TrustCalibration, VerdictCache, PreloadGates, HalAssessment, TrustRecords, ActivityMonitors, Privileges, GovernanceKernel, Continuity, HalRecords, HalGuards

CalibratedClasses == {"FileDelete", "KernelAdjacent"}
PreloadDomains == {"work", "personal", "travel"}
ObservedActions == {
  [action |-> "read", succeeded |-> TRUE, escalation |-> FALSE, hour |-> 9],
  [action |-> "read", succeeded |-> FALSE, escalation |-> TRUE, hour |-> 9],
  [action |-> "write", succeeded |-> TRUE, escalation |-> TRUE, hour |-> 22],
  [action |-> "delete", succeeded |-> FALSE, escalation |-> FALSE, hour |-> 3]}
BandRisks == {2499, 2500, 4999, 5000, 6001, 7500, 8500, 9500}
BandConfidences == {1999, 2000, 4000, 5500, 7000, 9000}
EveryScoredAction == ProposedAction
Reinforcements == {-48, 80}
InstalledEffects == {"Allow"}
PriorityBands == {-1000, 0, 7}
ProtectedAbove == [varLib |-> {"audit", "memory", "tokens"}, homes |-> {"elsewhere"}]

VARIABLE part \* the component of this behaviour
vars == <<part, calVars, cacheVars, preloadVars, assessVars, trustVars, activityVars, privilegeVars, governanceVars, continuityVars, recordVars, guardsVars>>

Init ==
  /\ part \in {"calibration", "cache", "preload", "assessment", "trust", "activity", "privileges", "governance", "continuity", "records", "guards"}
  /\ CalInit
  /\ CacheInit
  /\ PreloadInit
  /\ AssessInit
  /\ TrustInit
  /\ ActivityInit
  /\ PrivilegeInit
  /\ GovernanceInit
  /\ ContinuityInit
  /\ RecordsInit
  /\ GuardsInit

Next ==
  \/ /\ part = "calibration" /\ CalNext
     /\ UNCHANGED <<part, cacheVars, preloadVars, assessVars, trustVars, activityVars, privilegeVars, governanceVars, continuityVars, recordVars, guardsVars>>
  \/ /\ part = "cache" /\ CacheNext
     /\ UNCHANGED <<part, calVars, preloadVars, assessVars, trustVars, activityVars, privilegeVars, governanceVars, continuityVars, recordVars, guardsVars>>
  \/ /\ part = "preload" /\ PreloadNext
     /\ UNCHANGED <<part, calVars, cacheVars, assessVars, trustVars, activityVars, privilegeVars, governanceVars, continuityVars, recordVars, guardsVars>>
  \/ /\ part = "assessment" /\ AssessNext
     /\ UNCHANGED <<part, calVars, cacheVars, preloadVars, trustVars, activityVars, privilegeVars, governanceVars, continuityVars, recordVars, guardsVars>>
  \/ /\ part = "trust" /\ TrustNext
     /\ UNCHANGED <<part, calVars, cacheVars, preloadVars, assessVars, activityVars, privilegeVars, governanceVars, continuityVars, recordVars, guardsVars>>
  \/ /\ part = "activity" /\ ActivityNext
     /\ UNCHANGED <<part, calVars, cacheVars, preloadVars, assessVars, trustVars, privilegeVars, governanceVars, continuityVars, recordVars, guardsVars>>
  \/ /\ part = "privileges" /\ PrivilegeNext
     /\ UNCHANGED <<part, calVars, cacheVars, preloadVars, assessVars, trustVars, activityVars, governanceVars, continuityVars, recordVars, guardsVars>>
  \/ /\ part = "governance" /\ GovernanceNext
     /\ UNCHANGED <<part, calVars, cacheVars, preloadVars, assessVars, trustVars, activityVars, privilegeVars, continuityVars, recordVars, guardsVars>>
  \/ /\ part = "continuity" /\ ContinuityNext
     /\ UNCHANGED <<part, calVars, cacheVars, preloadVars, assessVars, trustVars, activityVars, privilegeVars, governanceVars, recordVars, guardsVars>>
  \/ /\ part = "records" /\ RecordsNext
     /\ UNCHANGED <<part, calVars, cacheVars, preloadVars, assessVars, trustVars, activityVars, privilegeVars, governanceVars, continuityVars, guardsVars>>
  \/ /\ part = "guards" /\ GuardsNext
     /\ UNCHANGED <<part, calVars, cacheVars, preloadVars, assessVars, trustVars, activityVars, privilegeVars, governanceVars, continuityVars, recordVars>>

Spec == Init /\ [][Next]_vars

HalTypeOK ==
  /\ CalTypeOK /\ CacheTypeOK /\ PreloadTypeOK /\ AssessTypeOK /\ TrustTypeOK /\ ActivityTypeOK
  /\ PrivilegeTypeOK /\ GovernanceTypeOK /\ ContinuityTypeOK /\ RecordsTypeOK /\ GuardsTypeOK

(***************************************************************************)
(* How a request is judged: more reason for concern never loosens one of   *)
(* the deciders, the two scorers agree outside the two cases the sources   *)
(* differ in, a floored action is shown as its floor demands, and an agent *)
(* that kept escalating is stopped.                                        *)
(***************************************************************************)
AssessmentsSound ==
  part = "assessment" => NoLoosening /\ ScorersAgree /\ FloorsReachBands /\ EscalatorsStopped

(***************************************************************************)
(* What is remembered of an agent and of the user: trust decayed lazily is *)
(* trust decayed at every tick, suspicion outlives recovery, a threshold   *)
(* never sinks under its floor across crashes and edits of the file, and   *)
(* the activity of every window is counted once.                           *)
(***************************************************************************)
TrustSound ==
  /\ part = "trust" => LazyTrustExact /\ SuspicionKept
  /\ part = "calibration" => CalFloorsHeld
  /\ part = "activity" => EventsCountedOnce

(***************************************************************************)
(* What bounds an agent's initiative: the actions it executes by itself    *)
(* stay within the autonomy budget up to the callers under way, and the    *)
(* depth and the rate of its recursion are accounted for.                  *)
(***************************************************************************)
PrivilegesHeld == part = "privileges" => BudgetHeld /\ RecursionAccounted

(***************************************************************************)
(* The rules in force are the rules installed: policies by priority, a     *)
(* change only after approval and delay, the two preload filters           *)
(* consistent, and no default threat hidden by a path added to it.         *)
(***************************************************************************)
RulesSound ==
  /\ part = "governance" => FirstMatchWins /\ AppliedReviewed
  /\ part = "preload" => FiltersAgree
  /\ part = "guards" => DefaultThreatsSeen

(***************************************************************************)
(* What is written down can be read back: the chain and its replay, the    *)
(* lineage of forks, a snapshot in full through crashes, the latest        *)
(* recovery points, and the cache's eviction list.                         *)
(***************************************************************************)
RecordsSound ==
  /\ part = "records" => ReplayAgrees /\ LineagesGrow
  /\ part = "continuity" => SnapshotWhole /\ PointsAreLatest
  /\ part = "cache" => CacheBookkeeping

==============================================================================
