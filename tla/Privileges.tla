------------------------------ MODULE Privileges ------------------------------
(***************************************************************************)
(* What bounds an agent's own initiative in HAL:                           *)
(*   autonomy_controller.rs, the autonomy level and its action budget;     *)
(*   recursion_limiter.rs, how deep and how often an agent may recurse.    *)
(***************************************************************************)
EXTENDS Integers, Sequences, FiniteSets, SequencesExt

CONSTANTS
  Agents,        \* agent names
  MaxPerPeriod,  \* ActionBudget.max_per_period
  MaxCallers,    \* bound: callers between can_auto_execute and consume_budget
  MaxDepth, RateWindow, WindowMaxEntries, \* RecursionLimiter
  MaxEnters,     \* bound: recursive entries accepted
  MaxPrivTime    \* bound: the clock

ASSUME PrivilegeAssumption ==
  /\ "none" \notin Agents /\ MaxCallers \in Nat \ {0}
  /\ {MaxPerPeriod, MaxDepth, RateWindow, WindowMaxEntries, MaxEnters, MaxPrivTime} \subseteq Nat

Rank == [Supervised |-> 0, Advisory |-> 1, SemiAutonomous |-> 2, Autonomous |-> 3]

VARIABLES
  level,    \* AutonomyController.level
  spent,    \* ActionBudget.current
  allowed,  \* positive decisions not carried out yet, of actions of less and of more than risk 0.3
  risky,    \* actions of risk 0.3 and more executed on their own in this period
  depth,    \* RecursionLimiter.depth
  entries,  \* RecursionLimiter.recent_entries: times of the entries in the window
  guard,    \* the agent of the one live RecursionGuard, or "none"
  released, \* guards given up with release()
  acceptedAt, \* times of all accepted entries
  time
autonomyVars == <<level, spent, allowed, risky>>
recursionVars == <<depth, entries, guard, released, acceptedAt, time>>
privilegeVars == <<level, spent, allowed, risky, depth, entries, guard, released, acceptedAt, time>>

PrivilegeInit ==
  /\ level = "Supervised" /\ spent = 0 /\ allowed = [mild |-> 0, risky |-> 0] /\ risky = 0
  /\ depth = [a \in Agents |-> 0] /\ entries = [a \in Agents |-> <<>>] /\ guard = "none"
  /\ released = [a \in Agents |-> 0] /\ acceptedAt = [a \in Agents |-> <<>>] /\ time = 0

-------------------------------------------------------------------------------
Escalate(to) == Rank[to] = Rank[level] + 1 /\ level' = to /\ UNCHANGED <<spent, allowed, risky>>
\* deescalate, and revert_to_supervised through it
Deescalate(to) == Rank[to] < Rank[level] /\ level' = to /\ UNCHANGED <<spent, allowed, risky>>

CanAutoExecuteUnpaid(risk) ==
  \/ level = "SemiAutonomous" /\ risk < 3
  \/ level = "Autonomous" /\ risk < 6
\* can_auto_execute, of an action off the block list: a per-agent level is never
\* set, so the controller's counts.  Risks are in tenths.  It reads the budget
\* only at the highest level.
CanAutoExecute(risk) ==
  \/ level = "SemiAutonomous" /\ risk < 3
  \/ level = "Autonomous" /\ risk < 6 /\ spent < MaxPerPeriod
Class(risk) == IF risk >= 3 THEN "risky" ELSE "mild"
\* A caller asks, and goes ahead on a positive decision ...
AskController(risk) ==
  /\ CanAutoExecute(risk) /\ allowed.mild + allowed.risky < MaxCallers
  /\ allowed' = [allowed EXCEPT ![Class(risk)] = @ + 1]
  /\ UNCHANGED <<level, spent, risky>>
\* ... then calls consume_budget, which an exhausted budget refuses: too late.
ConsumeBudget(class) ==
  /\ allowed[class] > 0 /\ allowed' = [allowed EXCEPT ![class] = @ - 1]
  /\ spent' = IF spent < MaxPerPeriod THEN spent + 1 ELSE spent
  /\ risky' = IF class = "risky" THEN risky + 1 ELSE risky
  /\ UNCHANGED level
\* reset_period
ResetPeriod == spent' = 0 /\ risky' = 0 /\ UNCHANGED <<level, allowed>>

AutonomyNext ==
  /\ \/ \E to \in DOMAIN Rank : Escalate(to) \/ Deescalate(to)
     \/ \E risk \in {2, 3, 5, 6} : AskController(risk)
     \/ \E class \in {"mild", "risky"} : ConsumeBudget(class)
     \/ ResetPeriod
  /\ UNCHANGED recursionVars

-------------------------------------------------------------------------------
RecentAll(a) == IF entries[a] = <<>> THEN <<>> ELSE Tail(entries[a])
\* enter: the depth first, then the entries of the last window - the last ones,
\* as their times only grow.  The guard borrows the limiter, so that only one is alive at a time.
Recent(a) == LET first == SelectInSeq(entries[a], LAMBDA t : time - t < RateWindow) IN
             IF first = 0 THEN <<>> ELSE SubSeq(entries[a], first, Len(entries[a]))
Enter(a) ==
  /\ guard = "none" /\ Len(acceptedAt[a]) < MaxEnters /\ depth[a] < MaxDepth
  /\ IF Len(Recent(a)) >= WindowMaxEntries
     THEN entries' = [entries EXCEPT ![a] = Recent(a)] /\ UNCHANGED <<depth, guard, acceptedAt>>
     ELSE /\ entries' = [entries EXCEPT ![a] = Append(Recent(a), time)]
          /\ acceptedAt' = [acceptedAt EXCEPT ![a] = Append(@, time)]
          /\ depth' = [depth EXCEPT ![a] = @ + 1] /\ guard' = a
  /\ UNCHANGED <<released, time>>
\* drop; release() marks the guard, and its drop then leaves the depth as it is.
DropGuard ==
  /\ guard # "none" /\ guard' = "none"
  /\ depth' = [depth EXCEPT ![guard] = IF @ > 0 THEN @ - 1 ELSE 0]
  /\ UNCHANGED <<entries, released, acceptedAt, time>>
ReleaseGuard ==
  /\ guard # "none" /\ guard' = "none" /\ released' = [released EXCEPT ![guard] = @ + 1]
  /\ UNCHANGED <<depth, entries, acceptedAt, time>>
PrivilegeTick == time < MaxPrivTime /\ time' = time + 1 /\ UNCHANGED <<depth, entries, guard, released, acceptedAt>>

RecursionNext ==
  /\ DropGuard \/ ReleaseGuard \/ PrivilegeTick \/ \E a \in Agents : Enter(a)
  /\ UNCHANGED autonomyVars

\* The two share no state: a behaviour drives one of them.
PrivilegeNext ==
  \/ time = 0 /\ acceptedAt = [a \in Agents |-> <<>>] /\ AutonomyNext
  \/ level = "Supervised" /\ spent = 0 /\ allowed = [mild |-> 0, risky |-> 0] /\ RecursionNext

PrivilegeTypeOK ==
  /\ level \in DOMAIN Rank /\ spent \in 0..MaxPerPeriod
  /\ allowed \in [{"mild", "risky"} -> 0..MaxCallers]
  /\ depth \in [Agents -> 0..MaxDepth]
  /\ guard \in Agents \cup {"none"} /\ time \in 0..MaxPrivTime

(***************************************************************************)
(* However the level goes up and down, the actions of risk 0.3 and more    *)
(* that execute by themselves in a period outrun the budget by no more     *)
(* than the callers that were told yes before the last unit was spent:     *)
(* with one caller at a time, not at all (can_auto_execute,                *)
(* consume_budget).                                                        *)
(***************************************************************************)
BudgetHeld == risky <= MaxPerPeriod + MaxCallers - 1

(***************************************************************************)
(* An agent that has always dropped its guards is as deep as its live      *)
(* guard says, so that it is never refused for a recursion that is over;   *)
(* and no window of time has more entries of an agent than the limit       *)
(* (enter, Drop).                                                          *)
(***************************************************************************)
RecursionAccounted ==
  \A a \in Agents :
    /\ released[a] = 0 => depth[a] = IF guard = a THEN 1 ELSE 0
    /\ \A t \in 0..time :
         Cardinality({i \in DOMAIN acceptedAt[a] : acceptedAt[a][i] \in t..(t + RateWindow - 1)}) <= WindowMaxEntries

\* Inductive: while units are left, every risky action has paid; once none is,
\* no decision is added to those being carried out.  A released guard stays
\* counted.  An entry no longer listed has left the window, and any two that
\* are WindowMaxEntries apart are a window apart.
BudgetInv ==
  /\ level \in DOMAIN Rank /\ {risky, spent} \subseteq Nat /\ spent <= MaxPerPeriod
  /\ allowed \in [{"mild", "risky"} -> Nat] /\ allowed.mild + allowed.risky <= MaxCallers
  /\ IF spent < MaxPerPeriod THEN risky <= spent
     ELSE risky + allowed.risky <= MaxPerPeriod + MaxCallers - 1
DepthInv ==
  /\ depth \in [Agents -> Nat] /\ released \in [Agents -> Nat] /\ guard \in Agents \cup {"none"}
  /\ \A a \in Agents : depth[a] = released[a] + (IF guard = a THEN 1 ELSE 0)
RateInv ==
  /\ entries \in [Agents -> Seq(Nat)] /\ acceptedAt \in [Agents -> Seq(Nat)] /\ time \in Nat
  /\ \A a \in Agents :
       LET gone == Len(acceptedAt[a]) - Len(entries[a]) IN
       /\ gone \in Nat /\ \A i \in DOMAIN entries[a] : entries[a][i] = acceptedAt[a][gone + i]
       /\ \A i \in 1..gone : time - acceptedAt[a][i] >= RateWindow
       /\ \A i, j \in DOMAIN acceptedAt[a] :
            j >= i + WindowMaxEntries => acceptedAt[a][j] - acceptedAt[a][i] >= RateWindow
================================================================================
