------------------------------ MODULE Cluster ------------------------------
(***************************************************************************)
(* cluster/: QuorumTracker (quorum.rs), asked about the answers of one     *)
(* epoch while nodes fail, come back and membership changes, and           *)
(* StateReplication (state_replication.rs), which applies log entries and  *)
(* restores snapshots that arrive late, twice or out of order.             *)
(***************************************************************************)
EXTENDS Integers, FiniteSets

CONSTANTS
  ClusterNodes,
  Percents,             \* fractions a supermajority may ask for, in percent
  MaxEpochs, MaxAnswers, MaxIndex \* bounds: reconfigurations, answers kept of an epoch, log entries

ASSUME ClusterAssumption ==
  {MaxEpochs, MaxAnswers, MaxIndex} \subseteq Nat /\ Percents \subseteq 0..100 /\ IsFiniteSet(ClusterNodes)

VARIABLES
  members, live, failed, kind, epoch, \* QuorumTracker
  granted,                            \* history: answers that had a quorum in this epoch, live ones only
  applied, version, furthest,         \* StateReplication per node; furthest is history
  snapshots                           \* snapshots taken and still to be delivered
quorumVars == <<members, live, failed, kind, epoch, granted>>
replicaVars == <<applied, version, furthest, snapshots>>
clusterVars == <<members, live, failed, kind, epoch, granted, applied, version, furthest, snapshots>>

Majority == [name |-> "majority", percent |-> 0, up |-> FALSE]
AllNodes == [name |-> "all", percent |-> 100, up |-> FALSE]
(* The fraction is an f32: where the exact product is a whole number the   *)
(* rounded one may lie just above it, and its ceiling one higher (up).     *)
Supermajority(p, up) == [name |-> "super", percent |-> p, up |-> up]
(* A fraction that is no number: clamp keeps NaN, whose cast is 0. *)
NotANumber == [name |-> "nan", percent |-> 0, up |-> FALSE]
QuorumKinds == {Majority, AllNodes, NotANumber} \cup {Supermajority(p, up) : p \in Percents, up \in BOOLEAN}

ClusterInit ==
  /\ members = ClusterNodes /\ live = ClusterNodes /\ failed = {} /\ epoch = 0 /\ granted = {}
  /\ kind \in QuorumKinds
  /\ applied = [n \in ClusterNodes |-> 0] /\ version = applied /\ furthest = applied /\ snapshots = {}

QuorumSizeHalf ==
  LET n == Cardinality(members) IN
  CASE kind.name = "majority" -> (n + 1) \div 2 [] kind.name = "all" -> n [] kind.name = "nan" -> 0
    [] OTHER -> (n * kind.percent) \div 100
QuorumSize ==
  LET n == Cardinality(members) IN
  CASE kind.name = "majority" -> n \div 2 + 1
    [] kind.name = "all" -> n
    [] kind.name = "nan" -> 0
    [] OTHER -> (n * kind.percent + (IF kind.up THEN 100 ELSE 99)) \div 100
HasQuorum(respondents) == Cardinality(respondents \cap live) >= QuorumSize

Ask(respondents) ==
  /\ HasQuorum(respondents) /\ Cardinality(granted) < MaxAnswers
  /\ granted' = granted \cup {respondents \cap live}
  /\ UNCHANGED <<members, live, failed, kind, epoch, replicaVars>>
MarkAlive(n) ==
  /\ n \in failed /\ failed' = failed \ {n} /\ live' = live \cup {n}
  /\ UNCHANGED <<members, kind, epoch, granted, replicaVars>>
MarkFailed(n) ==
  /\ n \in live /\ live' = live \ {n} /\ failed' = failed \cup {n}
  /\ UNCHANGED <<members, kind, epoch, granted, replicaVars>>
\* reconfigure: the new members are all taken for live; their product rounds anew.
Reconfigure(new) ==
  /\ epoch < MaxEpochs /\ epoch' = epoch + 1
  /\ members' = new /\ live' = new /\ failed' = {} /\ granted' = {}
  /\ kind' = kind \/ \E up \in BOOLEAN : kind.name = "super" /\ kind' = Supermajority(kind.percent, up)
  /\ UNCHANGED replicaVars

-------------------------------------------------------------------------------
Reach(n, index) == furthest' = [furthest EXCEPT ![n] = IF index > @ THEN index ELSE @]
ExpectedOrLater(n, index) == index > applied[n]
Expected(n, index) == index = applied[n] + 1
\* apply an entry; any other index is a Conflict.
ApplyEntry(n, index) ==
  /\ Expected(n, index)
  /\ applied' = [applied EXCEPT ![n] = index] /\ version' = [version EXCEPT ![n] = @ + 1]
  /\ Reach(n, index) /\ UNCHANGED <<snapshots, quorumVars>>
TakeSnapshot(n) ==
  /\ snapshots' = snapshots \cup {[index |-> applied[n], version |-> version[n]]}
  /\ UNCHANGED <<applied, version, furthest, quorumVars>>
NewerAny(n, s) == s.index # applied[n]
Newer(n, s) == s.index > applied[n]
Restore(n, s) ==
  /\ Newer(n, s)
  /\ applied' = [applied EXCEPT ![n] = s.index] /\ version' = [version EXCEPT ![n] = s.version]
  /\ Reach(n, s.index) /\ UNCHANGED <<snapshots, quorumVars>>

ClusterNext ==
  \/ /\ applied = [n \in ClusterNodes |-> 0] /\ snapshots = {}
     /\ \/ \E s \in SUBSET ClusterNodes : Ask(s)
        \/ \E n \in ClusterNodes : MarkAlive(n) \/ MarkFailed(n)
        \/ \E s \in SUBSET ClusterNodes : Reconfigure(s)
  \/ /\ epoch = 0 /\ granted = {} /\ failed = {} /\ kind = Majority
     /\ \E n \in ClusterNodes :
          \/ TakeSnapshot(n)
          \/ \E i \in 1..MaxIndex : ApplyEntry(n, i)
          \/ \E s \in snapshots : Restore(n, s)

ClusterTypeOK ==
  /\ members \subseteq ClusterNodes /\ epoch \in 0..MaxEpochs /\ granted \subseteq SUBSET members
  /\ applied \in [ClusterNodes -> 0..MaxIndex] /\ snapshots \subseteq [index : 0..MaxIndex, version : 0..MaxIndex]

(***************************************************************************)
(* Members are either live or failed, and two quorums of one epoch share a *)
(* node whatever failed in between, for a majority, for all of a non-empty *)
(* membership and for a supermajority of more than half, however its f32   *)
(* product rounds; smaller fractions and NaN are not refused by the code,  *)
(* and let disjoint sets decide.                                           *)
(***************************************************************************)
QuorumsMeet ==
  /\ live \cup failed = members /\ live \cap failed = {}
  /\ members # {} /\ kind.name # "nan" /\ (kind.name = "super" => kind.percent > 50) =>
       \A a, b \in granted : a \cap b # {}

(***************************************************************************)
(* Entries and snapshots in any order and number never take a replica      *)
(* back, skip an entry or count one twice.                                 *)
(***************************************************************************)
ReplicasOrdered == \A n \in ClusterNodes : applied[n] = furthest[n] /\ version[n] = applied[n]

(* QuorumsMeet is inductive with the size of the granted quorums: each one *)
(* outweighs half of the members, who do not change within an epoch.       *)
QuorumInv ==
  /\ members \subseteq ClusterNodes /\ epoch \in 0..MaxEpochs
  /\ kind \in QuorumKinds
  /\ live \cup failed = members /\ live \cap failed = {}
  /\ \A a \in granted : a \subseteq members /\ Cardinality(a) >= QuorumSize

(* ReplicasOrdered is, once every snapshot counts what its index counts. *)
ReplicaInv ==
  /\ applied \in [ClusterNodes -> 0..MaxIndex] /\ version = applied /\ furthest = applied
  /\ snapshots \subseteq [index : 0..MaxIndex, version : 0..MaxIndex]
  /\ \A s \in snapshots : s.version = s.index
================================================================================
