----------------------------- MODULE MCPlatform -----------------------------
(*****************************************************************************)
(* Model-checking instance of the platform: cluster, mesh, file systems,     *)
(* model runtime and packages.  They share no state, so a behaviour drives   *)
(* one of them, chosen at the start.                                         *)
(*****************************************************************************)
EXTENDS Cluster, Mesh, Anfs, AnfsFiles, ModelRuntime, Packages

SampleSizes == [m \in {"m1", "m2", "m3"} |-> CASE m = "m1" -> {2} [] m = "m2" -> {3, 0} [] OTHER -> {5}]

VARIABLE part \* the component of this behaviour
vars == <<part, clusterVars, meshVars, anfsVars, filesVars, runtimeVars, packageVars>>

Init ==
  /\ part \in {"cluster", "mesh", "anfs", "files", "models", "packages"}
  /\ ClusterInit
  /\ MeshInit
  /\ AnfsInit
  /\ FilesInit
  /\ RuntimeInit
  /\ PackagesInit
  /\ (kind = Majority \/ part = "cluster") /\ (~inTmp \/ part = "files") /\ (aptHere \/ part = "packages")

Next ==
  \/ /\ part = "cluster" /\ ClusterNext
     /\ UNCHANGED <<part, meshVars, anfsVars, filesVars, runtimeVars, packageVars>>
  \/ /\ part = "mesh" /\ MeshNext
     /\ UNCHANGED <<part, clusterVars, anfsVars, filesVars, runtimeVars, packageVars>>
  \/ /\ part = "anfs" /\ AnfsNext
     /\ UNCHANGED <<part, clusterVars, meshVars, filesVars, runtimeVars, packageVars>>
  \/ /\ part = "files" /\ FilesNext
     /\ UNCHANGED <<part, clusterVars, meshVars, anfsVars, runtimeVars, packageVars>>
  \/ /\ part = "models" /\ RuntimeNext
     /\ UNCHANGED <<part, clusterVars, meshVars, anfsVars, filesVars, packageVars>>
  \/ /\ part = "packages" /\ PackagesNext
     /\ UNCHANGED <<part, clusterVars, meshVars, anfsVars, filesVars, runtimeVars>>

Spec == Init /\ [][Next]_vars

PlatformTypeOK == ClusterTypeOK /\ MeshTypeOK /\ AnfsTypeOK /\ FilesTypeOK /\ RuntimeTypeOK /\ PackagesTypeOK

(***************************************************************************)
(* Quorums of an epoch meet and replicas go forward one entry at a time;   *)
(* the components of the mesh graph are its connected parts.               *)
(***************************************************************************)
ClusterSound ==
  /\ part = "cluster" => QuorumsMeet /\ ReplicasOrdered
  /\ part = "mesh" => ComponentsTrue

(***************************************************************************)
(* The journal follows the checks and the caches keep to their order and   *)
(* capacity; the last delete of a second is kept, reads and relations are  *)
(* counted as stated.                                                      *)
(***************************************************************************)
FilesSound ==
  /\ part = "anfs" => JournalFollowsChecks /\ CacheCounted
  /\ part = "files" => LastDeleteKept /\ ReadsCounted /\ EdgesCounted

(***************************************************************************)
(* The model pool, its requests and contexts keep their accounts, no VM is *)
(* overtaken; approvals are earned, remove keeps to apt-get where it is,   *)
(* restarts are bounded.                                                   *)
(***************************************************************************)
RuntimeSound ==
  /\ part = "models" => PoolSound /\ InFlightKnown /\ WindowSound /\ TurnsFair
  /\ part = "packages" => ApprovalEarned /\ CommandsSound /\ RestartsBounded

==============================================================================
