--------------------------- MODULE ActivityMonitors ---------------------------
(***************************************************************************)
(* HAL's counters of agent activity:                                       *)
(*   BehaviorMonitor (behavior_monitor.rs): events per window of 60 s,     *)
(*     closed by the first event or sweep after its end, when its rates    *)
(*     become the agent's anomaly score;                                   *)
(*   SyscallTracker (syscall_tracker.rs): calls per agent since a reset.   *)
(***************************************************************************)
EXTENDS Integers, FiniteSets, Functions

CONSTANTS
  WatchedAgents,
  WindowTicks,   \* WINDOW_SECS
  MaxActivity,   \* bound: events observed per kind, calls per agent
  MaxWatchTime   \* bound: the clock

ASSUME ActivityAssumption == WindowTicks \in Nat \ {0} /\ {MaxActivity, MaxWatchTime} \subseteq Nat

EventKind == {"Syscall", "FileOp", "NetOp", "CapabilityUse"}
Syscalls == {"OpenAt", "Connect", "Unlink", "Execve"}
Dangerous == {"Unlink", "Execve"}

VARIABLES
  clock,
  windows,   \* agent -> [counts, opened, sample], agents seen so far
  closed,    \* events counted in closed windows, per kind
  observed,  \* events observed, per kind
  calls      \* agent -> [counts, dangerous, total]
activityVars == <<clock, windows, closed, observed, calls>>

Entering(f, k, v) == [x \in DOMAIN f \cup {k} |-> IF x = k THEN v ELSE f[x]]
Zero == [k \in EventKind |-> 0]

ActivityInit == clock = 0 /\ windows = <<>> /\ closed = Zero /\ observed = Zero /\ calls = <<>>

\* maybe_rollover: the counts of a window that is at least 60 s old become the
\* sample its rates are computed from, and start again at zero.
Expired(w) == clock - w.opened >= WindowTicks
RolloverKeeps(w) ==
  IF Expired(w) THEN [counts |-> [Zero EXCEPT !["CapabilityUse"] = w.counts["CapabilityUse"]],
                      opened |-> clock, sample |-> w.counts] ELSE w
Rollover(w) == IF Expired(w) THEN [counts |-> Zero, opened |-> clock, sample |-> w.counts] ELSE w
Closing(w) == IF Expired(w) THEN w.counts ELSE Zero

Observe(a, k) ==
  LET w == IF a \in DOMAIN windows THEN windows[a]
           ELSE [counts |-> Zero, opened |-> clock, sample |-> Zero] IN
  /\ observed[k] < MaxActivity
  /\ windows' = Entering(windows, a, [Rollover(w) EXCEPT !.counts[k] = @ + 1])
  /\ closed' = [x \in EventKind |-> closed[x] + Closing(w)[x]]
  /\ observed' = [observed EXCEPT ![k] = @ + 1]
  /\ UNCHANGED <<clock, calls>>

RolloverAll ==
  /\ windows' = [a \in DOMAIN windows |-> Rollover(windows[a])]
  /\ closed' = [x \in EventKind |->
                  closed[x] + SumFunction([a \in DOMAIN windows |-> Closing(windows[a])[x]])]
  /\ UNCHANGED <<clock, observed, calls>>

\* SyscallTracker::record and reset_all.
NoCalls == [counts |-> [s \in Syscalls |-> 0], dangerous |-> 0, total |-> 0]
RecordSyscall(a, s) ==
  LET p == IF a \in DOMAIN calls THEN calls[a] ELSE NoCalls IN
  /\ p.total < MaxActivity
  /\ calls' = Entering(calls, a, [counts |-> [p.counts EXCEPT ![s] = @ + 1], total |-> p.total + 1,
                              dangerous |-> p.dangerous + (IF s \in Dangerous THEN 1 ELSE 0)])
  /\ UNCHANGED <<clock, windows, closed, observed>>
ResetCalls == calls' = [a \in DOMAIN calls |-> NoCalls] /\ UNCHANGED <<clock, windows, closed, observed>>

ActivityTick == clock < MaxWatchTime /\ clock' = clock + 1 /\ UNCHANGED <<windows, closed, observed, calls>>

\* The two counters share no state: a behaviour drives one of them.
ActivityNext ==
  \/ \E a \in WatchedAgents, k \in EventKind : calls = <<>> /\ Observe(a, k)
  \/ RolloverAll
  \/ windows = <<>> /\ (ResetCalls \/ \E a \in WatchedAgents, s \in Syscalls : RecordSyscall(a, s))
  \/ ActivityTick

ActivityTypeOK ==
  /\ clock \in 0..MaxWatchTime /\ \A a \in DOMAIN windows : windows[a].opened <= clock
  /\ \A a \in DOMAIN calls : calls[a].total \in 0..MaxActivity

(***************************************************************************)
(* Every event is counted in exactly one window, whether an event, a sweep *)
(* or both close it, and no window's counts run on into the next; and the  *)
(* totals of the call profiles are the sums of their parts, so that the    *)
(* dangerous-call rate is one (maybe_rollover, rollover_all, record).      *)
(***************************************************************************)
EventsCountedOnce ==
  /\ \A k \in EventKind :
       observed[k] = closed[k] + SumFunction([a \in DOMAIN windows |-> windows[a].counts[k]])
  /\ \A a \in DOMAIN calls :
       /\ calls[a].total = SumFunction(calls[a].counts)
       /\ calls[a].dangerous = SumFunctionOnSet(calls[a].counts, Dangerous)

\* Inductive: the sums are over finitely many agents, of naturals.
Counts == [EventKind -> Nat]
Window == [counts : Counts, opened : Int, sample : Counts]
Profile == [counts : [Syscalls -> Nat], dangerous : Nat, total : Nat]
ActivityInv ==
  /\ ActivityTypeOK /\ EventsCountedOnce /\ closed \in Counts /\ observed \in Counts
  /\ IsFiniteSet(DOMAIN windows) /\ \A a \in DOMAIN windows : windows[a] \in Window
  /\ \A a \in DOMAIN calls : calls[a] \in Profile
================================================================================
