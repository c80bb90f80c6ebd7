--------------------------- MODULE GovernanceKernel ---------------------------
(***************************************************************************)
(* The rules HAL decides by, and how the rules change:                     *)
(*   GovernanceKernel (hal/src/governance_kernel.rs): installed policies,  *)
(*     the first match wins, nothing matching means Deny;                  *)
(*   MetaGovernance (meta_governance.rs): a change of policy is proposed,  *)
(*     ratified by a human, applied after a delay, and may be reverted.    *)
(* A behaviour drives one of the two: they share no state.                 *)
(***************************************************************************)
EXTENDS Integers, Sequences, SequencesExt

CONSTANTS
  PolicyIds, PolicyPriorities, PolicyEffects,
  GovernedAgents, GovernedActions, GovernedRisks, \* what an ActionRequest is told apart by
  Proposals, ApprovalDelay,
  MaxMetaTime  \* bound: the clock

Effect == {"Allow", "Deny", "Ask", "Log"}
ASSUME GovernanceAssumption ==
  /\ IsFiniteSet(PolicyIds) /\ PolicyPriorities \subseteq Int /\ PolicyEffects \subseteq Effect
  /\ GovernedRisks \subseteq Nat /\ {ApprovalDelay, MaxMetaTime} \subseteq Nat

ActionRequest == [agent : GovernedAgents, action : GovernedActions, risk : GovernedRisks]
\* A condition is the set of requests it matches; And and Or nest, one level
\* of them here.
Atoms == {ActionRequest} \cup {{r \in ActionRequest : r.action = a} : a \in GovernedActions}
                         \cup {{r \in ActionRequest : r.agent = a} : a \in GovernedAgents}
                         \cup {{r \in ActionRequest : r.risk >= t} : t \in GovernedRisks}
Condition == Atoms \cup {a \cap b : a, b \in Atoms} \cup {a \cup b : a, b \in Atoms}

VARIABLES
  policies,   \* GovernanceKernel.policies, as they are searched
  installs,   \* installations so far: each policy carries its number
  proposals,  \* MetaGovernance.history
  metaNow
governanceVars == <<policies, installs, proposals, metaNow>>

GovernanceInit == policies = <<>> /\ installs = 0 /\ proposals = <<>> /\ metaNow = 0

Installed(id) == \E i \in DOMAIN policies : policies[i].id = id
Reserved(priority) == priority \in -1000..-1

PlacedFirst(p) == LET next == SelectInSeq(policies, LAMBDA q : q.priority <= p.priority) IN
                  IF next = 0 THEN Append(policies, p) ELSE InsertAt(policies, next, p)
\* push, then a stable sort by descending priority: the new policy goes behind
\* those of its own priority, in front of the first one below it.
Placed(p) == LET next == SelectInSeq(policies, LAMBDA q : q.priority < p.priority) IN
             IF next = 0 THEN Append(policies, p) ELSE InsertAt(policies, next, p)

InstallPolicy(id, priority, condition, effect) ==
  /\ ~Installed(id) /\ ~Reserved(priority) /\ installs < Cardinality(PolicyIds)
  /\ installs' = installs + 1
  /\ policies' = Placed([id |-> id, priority |-> priority, matches |-> condition, effect |-> effect,
                         number |-> installs])
  /\ UNCHANGED <<proposals, metaNow>>

\* retain: one policy has the identifier, or none.
RemovePolicy(id) ==
  /\ \E i \in DOMAIN policies : policies[i].id = id /\ policies' = RemoveAt(policies, i)
  /\ UNCHANGED <<installs, proposals, metaNow>>

VerdictFor(r) ==
  LET i == SelectInSeq(policies, LAMBDA q : r \in q.matches) IN
  IF i = 0 THEN [effect |-> "Deny", policy |-> "none"]
  ELSE [effect |-> policies[i].effect, policy |-> policies[i].id]

-------------------------------------------------------------------------------
NoProposal == [state |-> "Pending", approved |-> FALSE, effective |-> 0, since |-> 0]

ProposeChange(p) ==
  /\ p \notin DOMAIN proposals
  /\ proposals' = [x \in DOMAIN proposals \cup {p} |-> IF x = p THEN NoProposal ELSE proposals[x]]
  /\ UNCHANGED <<policies, installs, metaNow>>

\* The approval carries its own time, of now or earlier.
Ratify(p, approvedAt) ==
  /\ p \in DOMAIN proposals /\ proposals[p].state = "Pending"
  /\ proposals' = [proposals EXCEPT ![p].state = "Ratified", ![p].approved = TRUE,
                                    ![p].effective = approvedAt + ApprovalDelay, ![p].since = approvedAt]
  /\ UNCHANGED <<policies, installs, metaNow>>

ReadyOnRatify(p) == proposals[p].state = "Ratified"
ReadyToApply(p) == proposals[p].state = "Ratified" /\ metaNow >= proposals[p].effective
\* The audit entry is a string in the record: the chain is not written.
ApplyIfReady(p) ==
  /\ p \in DOMAIN proposals /\ ReadyToApply(p)
  /\ proposals' = [proposals EXCEPT ![p].state = "Applied"]
  /\ UNCHANGED <<policies, installs, metaNow>>

Revert(p) ==
  /\ p \in DOMAIN proposals /\ proposals[p].state = "Applied"
  /\ proposals' = [proposals EXCEPT ![p].state = "Reverted"]
  /\ UNCHANGED <<policies, installs, metaNow>>

MetaTick == metaNow < MaxMetaTime /\ metaNow' = metaNow + 1 /\ UNCHANGED <<policies, installs, proposals>>

KernelNext ==
  \E id \in PolicyIds :
    \/ \E priority \in PolicyPriorities, condition \in Condition, effect \in PolicyEffects :
         InstallPolicy(id, priority, condition, effect)
    \/ RemovePolicy(id)
MetaNext ==
  \/ \E p \in Proposals : \/ ProposeChange(p) \/ ApplyIfReady(p) \/ Revert(p)
                          \/ \E t \in 0..metaNow : Ratify(p, t)
  \/ MetaTick
GovernanceNext ==
  \/ metaNow = 0 /\ proposals = <<>> /\ KernelNext
  \/ installs = 0 /\ MetaNext

Beats(p, q) == p.priority > q.priority \/ (p.priority = q.priority /\ p.number < q.number)

GovernanceTypeOK ==
  /\ installs \in 0..Cardinality(PolicyIds) /\ metaNow \in 0..MaxMetaTime
  /\ \A i \in DOMAIN policies :
       /\ policies[i].id \in PolicyIds /\ policies[i].effect \in Effect
       /\ policies[i].priority \in PolicyPriorities /\ policies[i].matches \subseteq ActionRequest
  /\ DOMAIN proposals \subseteq Proposals

(***************************************************************************)
(* Whatever was installed and removed in whatever order, a request gets    *)
(* the verdict of the matching policy of the highest priority - the one    *)
(* installed first, of several -, and Deny when none matches; and an       *)
(* identifier names one policy (install_policy, remove_policy, evaluate).  *)
(***************************************************************************)
FirstMatchWins ==
  LET Matching(r) == {i \in DOMAIN policies : r \in policies[i].matches} IN
  /\ \A r \in ActionRequest :
       IF Matching(r) = {} THEN VerdictFor(r).effect = "Deny"
       ELSE \E i \in Matching(r) :
              /\ VerdictFor(r) = [effect |-> policies[i].effect, policy |-> policies[i].id]
              /\ \A j \in Matching(r) \ {i} : Beats(policies[i], policies[j])
  /\ IsInjective([i \in DOMAIN policies |-> policies[i].id])

(***************************************************************************)
(* A change that is or was in force was approved by a human and had waited *)
(* the whole delay since the time that approval states, which ratify takes *)
(* as it comes (ratify, apply_if_ready, revert).                           *)
(***************************************************************************)
AppliedReviewed ==
  \A p \in DOMAIN proposals : proposals[p].state \in {"Applied", "Reverted"} =>
    /\ proposals[p].approved
    /\ metaNow >= proposals[p].since + ApprovalDelay

\* Inductive: the policies lie in the order they beat one another in, and a
\* ratified change waits the delay from its approval.
Policy == [id : PolicyIds, priority : PolicyPriorities, matches : SUBSET ActionRequest,
           effect : PolicyEffects, number : Nat]
Change == [state : {"Pending", "Ratified", "Applied", "Reverted"}, approved : BOOLEAN,
           effective : Nat, since : Nat]
PoliciesInv ==
  /\ policies \in Seq(Policy) /\ installs \in Nat
  /\ \A i \in DOMAIN policies : policies[i].number < installs
  /\ \A i, j \in DOMAIN policies : i < j => Beats(policies[i], policies[j]) /\ policies[i].id # policies[j].id
ChangesInv ==
  /\ DOMAIN proposals \subseteq Proposals /\ metaNow \in 0..MaxMetaTime
  /\ \A p \in DOMAIN proposals :
       /\ proposals[p] \in Change
       /\ proposals[p].state = "Ratified" =>
            proposals[p].approved /\ proposals[p].effective = proposals[p].since + ApprovalDelay
  /\ AppliedReviewed
================================================================================
