----------------------------- MODULE MCServices -----------------------------
(*****************************************************************************)
(* Model-checking instance of the services around the orchestrator.  They    *)
(* share no state, so a behaviour drives one of them, chosen at the start.   *)
(*****************************************************************************)
EXTENDS SchedulerDaemon, IntentEngine, MemoryService, CommandLine

SampledMetrics == {
  [battery |-> "critical", app |-> "editor", ai |-> FALSE, gpu |-> "idle", render |-> FALSE, working |-> TRUE, overnight |-> FALSE],
  [battery |-> "charged", app |-> "editor", ai |-> TRUE, gpu |-> "idle", render |-> FALSE, working |-> TRUE, overnight |-> FALSE],
  [battery |-> "low", app |-> "editor", ai |-> FALSE, gpu |-> "full", render |-> TRUE, working |-> TRUE, overnight |-> FALSE],
  [battery |-> "charged", app |-> "other", ai |-> FALSE, gpu |-> "busy", render |-> FALSE, working |-> TRUE, overnight |-> FALSE],
  [battery |-> "charged", app |-> "other", ai |-> FALSE, gpu |-> "idle", render |-> FALSE, working |-> FALSE, overnight |-> TRUE]}
FailingKnobs == {{}, {"governor"}}

FirstInput(r) == IF r \in {"r1", "r2"} THEN "find" ELSE IF r = "r3" THEN "send" ELSE ""
Output(goal, confidence) ==
  [json |-> TRUE, goal |-> goal, scores |-> "in range", candidates |-> TRUE, required |-> FALSE, question |-> FALSE,
   confidence |-> confidence, source |-> "model"]
ModelOutputs == {
  Output("search_file", 90), Output("network_send", 80), Output("search_file", 79), Output("empty", 90),
  [Output("search_file", 90) EXCEPT !.required = TRUE], [Output("search_file", 90) EXCEPT !.scores = "out of range"],
  [Output("search_file", 90) EXCEPT !.json = FALSE]}

Candidate(t, d, draft, c, r) == [target |-> t, domain |-> d, draft |-> draft, confidence |-> c, recency |-> r]
AskedLists == {
  <<>>, <<Candidate("a", "work", FALSE, 5, 5)>>,
  <<Candidate("a", "work", FALSE, 5, 9), Candidate("b", "work", FALSE, 7, 4)>>,
  <<Candidate("a", "work", FALSE, 5, 5), Candidate("b", "home", TRUE, 5, 5)>>,
  <<Candidate("b", "work", TRUE, 6, 5), Candidate("c", "work", FALSE, 5, 2)>>}

DomainOfPath(p) == IF p = "plan" THEN "work" ELSE "none"

VARIABLE part \* the component of this behaviour
vars == <<part, schedulerVars, intentVars, choiceVars, indexVars, fabricVars, commandVars>>

Init ==
  /\ part \in {"scheduler", "intent", "choices", "index", "fabric", "cli"}
  /\ SchedulerInit
  /\ IntentInit
  /\ ChoicesInit
  /\ IndexInit
  /\ FabricInit
  /\ CommandInit

Next ==
  \/ /\ part = "scheduler" /\ SchedulerNext
     /\ UNCHANGED <<part, intentVars, choiceVars, indexVars, fabricVars, commandVars>>
  \/ /\ part = "intent" /\ IntentNext
     /\ UNCHANGED <<part, schedulerVars, choiceVars, indexVars, fabricVars, commandVars>>
  \/ /\ part = "choices" /\ ChoicesNext
     /\ UNCHANGED <<part, schedulerVars, intentVars, indexVars, fabricVars, commandVars>>
  \/ /\ part = "index" /\ IndexNext
     /\ UNCHANGED <<part, schedulerVars, intentVars, choiceVars, fabricVars, commandVars>>
  \/ /\ part = "fabric" /\ FabricNext
     /\ UNCHANGED <<part, schedulerVars, intentVars, choiceVars, indexVars, commandVars>>
  \/ /\ part = "cli" /\ CommandNext
     /\ UNCHANGED <<part, schedulerVars, intentVars, choiceVars, indexVars, fabricVars>>

Spec == Init /\ [][Next]_vars


\* Fairness of the intent engine: the parser's lock is fair and every inference ends.
Fairness ==
  /\ \A r \in Requests : SF_intentVars(part = "intent" /\ Lookup(r))
  /\ \A r \in Requests : WF_intentVars(part = "intent" /\ Infers(r))
FairSpec == Spec /\ Fairness

ServicesTypeOK == SchedulerTypeOK /\ IntentTypeOK /\ ChoicesTypeOK /\ IndexTypeOK /\ FabricTypeOK /\ CommandTypeOK

(***************************************************************************)
(* An intent's answer is its own or an unexpired one of the same input,    *)
(* cached only when confident; the user's choices are honoured and actions *)
(* ordered after what they depend on.                                      *)
(***************************************************************************)
IntentSound ==
  /\ part = "intent" => RepliesSound
  /\ part = "choices" => ChoicesHonoured /\ OrderSound

(***************************************************************************)
(* The timer never hurries a switch of scenario; the index tries every     *)
(* queued file, and keeps and forgets its records, but for the overlaps    *)
(* and torn writes named there; the pool tiles its arena, the locked total *)
(* and the owners are right; command lines lose edits only when they       *)
(* overlap, and the row they highlight exists.                             *)
(***************************************************************************)
ServicesSound ==
  /\ part = "scheduler" => NoHastySwitch
  /\ part = "index" => LinesTried /\ RecordsHeld /\ WipedStaysGone
  /\ part = "fabric" => PoolTiles /\ LockedCounted /\ OwnersTrue
  /\ part = "cli" => EditsKept /\ RowShown

(***************************************************************************)
(* A request that waits for the parser is answered or its caller leaves.   *)
(***************************************************************************)
ServicesProgress == part = "intent" => RequestsEnd

==============================================================================
