----------------------------- MODULE PreloadGates -----------------------------
(***************************************************************************)
(* The two filters between a context prediction and the user:              *)
(*   RestraintRuntime (hal/src/restraint_runtime.rs over restraint_model)  *)
(*     decides whether a prediction may be preloaded;                      *)
(*   CognitiveFirewall (hal/src/cognitive_firewall.rs) decides whether it  *)
(*     may be shown.                                                       *)
(* A prediction is what the two tell apart of it.                          *)
(***************************************************************************)
EXTENDS Integers, FiniteSets

CONSTANTS
  Domains,       \* life domains
  ActionKeys,    \* keys of user-disabled actions
  MaxAcceptance  \* bound: positive interactions counted per domain

ASSUME PreloadAssumption == MaxAcceptance \in Nat

HighIntimacy == {"personal", "finance", "health", "private"}
DefaultPrivate == HighIntimacy \cup {"relationships", "therapy"}
NightOk == {"coding", "work"}
AcceptanceThreshold == 3

\* Words in the action, the domain or the paths: "sensitive" stands for those
\* both lists have (diary, password, ...), "tender" for those only the firewall
\* looks for (love, bank, ...), "content" for read, extract and parse.
Prediction == [confident : BOOLEAN, domain : Domains, night : BOOLEAN,
               action : {"plain", "content", "sensitive", "tender"},
               path : {"plain", "sensitive", "tender"}]

\* Every private domain name is itself a word of the firewall's lexicon
\* ("relationships" contains "relationship").
Intimate(p) == \/ {p.action, p.path} \cap {"sensitive", "tender"} # {}
               \/ p.domain \in DefaultPrivate

VARIABLES
  accepted,  \* DomainAcceptance.positive_counts
  locked,    \* DomainAcceptance.locked
  disabled,  \* the actions whose gate has user_disabled
  optedIn    \* DomainFilter.opted_in
preloadVars == <<accepted, locked, disabled, optedIn>>

PreloadInit ==
  /\ accepted = [d \in Domains |-> 0] /\ locked = {} /\ disabled = {} /\ optedIn = {}

Unlocked(d) == d \notin locked /\ accepted[d] >= AcceptanceThreshold

HoldBackByDay(p) ==
  ~p.confident \/ p.domain \in HighIntimacy \/ p.path = "sensitive" \/ p.action = "content" \/ ~Unlocked(p.domain)
\* should_preload's checks, in their order; evaluate repeats the first one and
\* turns every HoldBack into Suppress.  A gate the user disabled is not read.
HoldBack(p) ==
  \/ ~p.confident
  \/ p.domain \in HighIntimacy
  \/ p.path = "sensitive"
  \/ p.night /\ p.domain \notin NightOk
  \/ p.action = "content"
  \/ ~Unlocked(p.domain)
Evaluate(p) == IF HoldBack(p) THEN "Suppress" ELSE "Allow"

Filter(p) ==
  CASE Intimate(p) -> "EmotionalContent"
    [] ~Intimate(p) /\ p.domain \in DefaultPrivate -> "PrivateDomain"
    [] ~Intimate(p) /\ p.domain \notin DefaultPrivate \cup optedIn -> "UnrequestedDomain"
    [] ~Intimate(p) /\ p.domain \in optedIn \ DefaultPrivate /\ p.night /\ p.domain \notin NightOk
       -> "TimeInappropriate"
    [] OTHER -> "Pass"

RecordAcceptance(d) ==
  /\ accepted[d] < MaxAcceptance
  /\ accepted' = [accepted EXCEPT ![d] = @ + 1] /\ UNCHANGED <<locked, disabled, optedIn>>
Lock(d) == locked' = locked \cup {d} /\ UNCHANGED <<accepted, disabled, optedIn>>
Unlock(d) == locked' = locked \ {d} /\ UNCHANGED <<accepted, disabled, optedIn>>
OptIn(d) == optedIn' = optedIn \cup {d} /\ UNCHANGED <<accepted, locked, disabled>>
OptOut(d) == optedIn' = optedIn \ {d} /\ UNCHANGED <<accepted, locked, disabled>>
DisableAction(a) == disabled' = disabled \cup {a} /\ UNCHANGED <<accepted, locked, optedIn>>
EnableAction(a) == disabled' = disabled \ {a} /\ UNCHANGED <<accepted, locked, optedIn>>

PreloadNext ==
  \/ \E d \in Domains : \/ RecordAcceptance(d) \/ Lock(d) \/ Unlock(d)
                        \/ OptIn(d) \/ OptOut(d)
  \/ \E a \in ActionKeys : DisableAction(a) \/ EnableAction(a)

PreloadTypeOK ==
  /\ accepted \in [Domains -> 0..MaxAcceptance] /\ locked \subseteq Domains
  /\ disabled \subseteq ActionKeys /\ optedIn \subseteq Domains

(***************************************************************************)
(* The two filters agree where both must: nothing about a private domain   *)
(* or a sensitive path, and nothing at night outside work, passes either   *)
(* (two independent lists of words, domains and hours, in two files).  And *)
(* each keeps to its own switches: what is preloaded is of a domain the    *)
(* user has not locked since and accepted often enough, what is shown of   *)
(* one opted into and not out of again.  A lock does not stop the second   *)
(* filter, and a disabled action stops neither (should_preload, filter).   *)
(***************************************************************************)
FiltersAgree ==
  \A p \in Prediction :
    /\ (Evaluate(p) = "Allow" \/ Filter(p) = "Pass") =>
         /\ p.domain \notin HighIntimacy
         /\ p.path # "sensitive"
         /\ p.night => p.domain \in NightOk
    /\ Evaluate(p) = "Allow" => p.domain \notin locked /\ accepted[p.domain] >= AcceptanceThreshold
    /\ Filter(p) = "Pass" => p.domain \in optedIn
================================================================================
