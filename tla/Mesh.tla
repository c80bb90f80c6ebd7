-------------------------------- MODULE Mesh --------------------------------
(***************************************************************************)
(* mesh/: AgentTopology (agent_topology.rs), one node's picture of the     *)
(* mesh and the search its partition detector runs over it.                *)
(***************************************************************************)
EXTENDS Integers, FiniteSets

CONSTANTS MeshNodes, LocalNode

ASSUME MeshAssumption == LocalNode \in MeshNodes /\ IsFiniteSet(MeshNodes)

VARIABLES
  known, links, \* graph.nodes, graph.edges
  lastResult    \* partition_detector.last_result, {} for None
meshVars == <<known, links, lastResult>>

MeshInit == known = {LocalNode} /\ links = {} /\ lastResult = {}

AddNeighbor(n) ==
  /\ n # LocalNode
  /\ known' = known \cup {LocalNode, n} /\ links' = links \cup {{LocalNode, n}}
  /\ UNCHANGED lastResult
(* The local node is not refused here: it too can be taken out. *)
RemoveNeighbor(n) ==
  /\ known' = known \ {n} /\ links' = {e \in links : n \notin e}
  /\ UNCHANGED lastResult

NeighborsOnly(n) == {n} \cup {m \in known : {n, m} \in links}
\* connected_components: what a search from each node visits.
Component(n) ==
  LET visited[i \in 0..Cardinality(MeshNodes)] ==
        IF i = 0 THEN {n} ELSE visited[i - 1] \cup {m \in known : \E k \in visited[i - 1] : {k, m} \in links} IN
  visited[Cardinality(MeshNodes)]
Components == {Component(n) : n \in known}
\* discover: gossip refuses without peers; a partition found is kept, none found clears nothing.
Discover ==
  /\ Cardinality(known) > 1
  /\ lastResult' = (IF Cardinality(Components) > 1 THEN Components ELSE lastResult)
  /\ UNCHANGED <<known, links>>

MeshNext == Discover \/ \E n \in MeshNodes : AddNeighbor(n) \/ RemoveNeighbor(n)

MeshTypeOK ==
  /\ known \subseteq MeshNodes /\ \A e \in links : e \subseteq known /\ Cardinality(e) = 2
  /\ UNION lastResult \subseteq MeshNodes

(***************************************************************************)
(* Whatever was added and removed, the local node itself included, the     *)
(* components the detector compares are the connected parts of the graph:  *)
(* each known node is in one, two do not overlap, no edge joins two.       *)
(***************************************************************************)
ComponentsTrue ==
  /\ UNION Components = known
  /\ \A c, d \in Components : c = d \/ c \cap d = {}
  /\ \A e \in links : \E c \in Components : e \subseteq c

(* The graph is a star around the local node, with nodes beside it once    *)
(* the local node was taken out and came back.                             *)
TopologyInv ==
  /\ known \subseteq MeshNodes
  /\ \A e \in links : LocalNode \in known /\ \E m \in known \ {LocalNode} : e = {LocalNode, m}
  /\ lastResult \subseteq SUBSET MeshNodes
================================================================================
