---------------------------- MODULE PlatformProofs ----------------------------
(***************************************************************************)
(* The platform's parts for every value of their constants: quorums meet   *)
(* and replicas go forward (cluster/), the components of a node's graph    *)
(* are its connected parts (mesh/), the journal follows the checks, caches *)
(* keep to their order and capacity, the last delete is kept (anfs/,       *)
(* memory/anfs), the model pool, the window and the VMs' turns keep their  *)
(* accounts (llm/, hypervisor/), and what unipkg/ scores, recommends and   *)
(* restarts is what it says.                                               *)
(***************************************************************************)
EXTENDS MCPlatform, ProofLemmas, TLAPS

(* A step drives one part and leaves the others as they are. *)
LEMMA OneDriven ==
  ASSUME [Next]_vars
  PROVE  /\ [ClusterNext]_clusterVars /\ [MeshNext]_meshVars /\ [AnfsNext]_anfsVars
         /\ [FilesNext]_filesVars /\ [RuntimeNext]_runtimeVars /\ [PackagesNext]_packageVars
<1>1. CASE UNCHANGED vars
  BY <1>1 DEF vars
<1>2. CASE Next
  BY <1>2 DEF Next
<1> QED
  BY <1>1, <1>2

-------------------------------------------------------------------------------
(* The cluster. *)

(* Two sets of more than half of the members share one. *)
LEMMA HalvesMeet ==
  ASSUME NEW M, IsFiniteSet(M), NEW A \in SUBSET M, NEW B \in SUBSET M,
         Cardinality(A) + Cardinality(B) > Cardinality(M)
  PROVE  A \cap B # {}
<1> SUFFICES ASSUME A \cap B = {} PROVE FALSE
  OBVIOUS
<1>1. IsFiniteSet(A) /\ IsFiniteSet(B)
  BY FS_Subset
<1>2. /\ Cardinality(A \cup B) = Cardinality(A) + Cardinality(B) - Cardinality(A \cap B)
      /\ IsFiniteSet(A \cup B)
  BY <1>1, FS_Union
<1>3. Cardinality(A \cap B) = 0
  BY FS_EmptySet
<1>4. Cardinality(A \cup B) <= Cardinality(M)
  <2>1. A \cup B \in SUBSET M
    OBVIOUS
  <2> QED
    BY <2>1, FS_Subset
<1>5. /\ Cardinality(A) \in Nat /\ Cardinality(B) \in Nat /\ Cardinality(M) \in Nat
      /\ Cardinality(A \cup B) \in Nat
  BY <1>1, <1>2, FS_CardinalityType
<1> QED
  BY <1>2, <1>3, <1>4, <1>5

(* What required_count rounds up to is more than half of the nodes, for    *)
(* each kind QuorumsMeet speaks of (quorum.rs).                            *)
LEMMA QuorumOutweighs ==
  ASSUME QuorumInv, members # {}, kind.name # "nan", kind.name = "super" => kind.percent > 50
  PROVE  QuorumSize \in Nat /\ 2 * QuorumSize > Cardinality(members)
<1> DEFINE n == Cardinality(members)
<1>1. n \in Nat /\ n # 0
  <2>1. members \in SUBSET ClusterNodes /\ IsFiniteSet(ClusterNodes)
    BY ClusterAssumption DEF QuorumInv
  <2>2. IsFiniteSet(members)
    BY <2>1, FS_Subset
  <2> QED
    BY <2>2, FS_CardinalityType, FS_EmptySet
<1>2. kind \in {Majority, AllNodes} \cup {Supermajority(p, up) : p \in Percents, up \in BOOLEAN}
  BY DEF QuorumInv, QuorumKinds, NotANumber
<1>3. QuorumSize = CASE kind.name = "majority" -> n \div 2 + 1
                     [] kind.name = "all" -> n
                     [] kind.name = "nan" -> 0
                     [] OTHER -> (n * kind.percent + (IF kind.up THEN 100 ELSE 99)) \div 100
  BY DEF QuorumSize
<1> HIDE DEF n
<1>4. CASE kind = Majority
  <2>1. QuorumSize = n \div 2 + 1
    BY <1>3, <1>4 DEF Majority
  <2> QED
    BY <1>1, <2>1 DEF n
<1>5. CASE kind = AllNodes
  <2>1. QuorumSize = n
    BY <1>3, <1>5 DEF AllNodes
  <2> QED
    BY <1>1, <2>1 DEF n
<1>6. ASSUME NEW p \in Percents, NEW up \in BOOLEAN, kind = Supermajority(p, up)
      PROVE  QuorumSize \in Nat /\ 2 * QuorumSize > n
  <2>1. kind.name = "super" /\ kind.percent = p /\ kind.up = up
    BY <1>6 DEF Supermajority
  <2>2. p \in Nat /\ p > 50
    BY <2>1, ClusterAssumption
  <2>3. QuorumSize = (n * p + 99) \div 100 \/ QuorumSize = (n * p + 100) \div 100
    BY <1>3, <2>1
  <2>4. n * p \in Nat /\ n * p >= n * 51
    <3>1. p - 51 \in Nat
      BY <2>2
    <3>2. n * (p - 51) \in Nat /\ n * (p - 51) = n * p - n * 51
      BY <1>1, <2>2, <3>1
    <3> QED
      BY <1>1, <2>2, <3>2
  <2> DEFINE m == n * p
  <2>5. m \in Nat /\ m >= n * 51 /\ (QuorumSize = (m + 99) \div 100 \/ QuorumSize = (m + 100) \div 100)
    BY <2>3, <2>4
  <2> HIDE DEF m
  <2> QED
    BY <1>1, <2>5
<1> QED
  BY <1>2, <1>4, <1>5, <1>6 DEF n

LEMMA QuorumsMeetHold ==
  ASSUME QuorumInv
  PROVE  QuorumsMeet
<1> SUFFICES ASSUME members # {}, kind.name # "nan", kind.name = "super" => kind.percent > 50,
                    NEW a \in granted, NEW b \in granted
             PROVE  a \cap b # {}
  BY DEF QuorumsMeet, QuorumInv
<1>1. IsFiniteSet(members)
  <2>1. members \in SUBSET ClusterNodes /\ IsFiniteSet(ClusterNodes)
    BY ClusterAssumption DEF QuorumInv
  <2> QED
    BY <2>1, FS_Subset
<1>2. a \in SUBSET members /\ b \in SUBSET members
  BY DEF QuorumInv
<1>3. Cardinality(a) >= QuorumSize /\ Cardinality(b) >= QuorumSize
  BY DEF QuorumInv
<1>4. QuorumSize \in Nat /\ 2 * QuorumSize > Cardinality(members)
  BY QuorumOutweighs
<1>5. IsFiniteSet(a) /\ IsFiniteSet(b)
  BY <1>1, <1>2, FS_Subset
<1>6. Cardinality(a) \in Nat /\ Cardinality(b) \in Nat /\ Cardinality(members) \in Nat
  BY <1>1, <1>5, FS_CardinalityType
<1>7. Cardinality(a) + Cardinality(b) > Cardinality(members)
  BY <1>3, <1>4, <1>6
<1> QED
  BY <1>1, <1>2, <1>7, HalvesMeet

LEMMA ClusterInitial ==
  ASSUME ClusterInit
  PROVE  QuorumInv /\ ReplicaInv
BY ClusterAssumption DEF ClusterInit, QuorumInv, ReplicaInv

LEMMA QuorumStep ==
  ASSUME QuorumInv, [ClusterNext]_clusterVars
  PROVE  QuorumInv'
<1>1. ASSUME NEW s \in SUBSET ClusterNodes, Ask(s)
      PROVE  QuorumInv'
  BY <1>1 DEF Ask, HasQuorum, QuorumSize, QuorumInv
<1>2. ASSUME NEW n \in ClusterNodes, MarkAlive(n) \/ MarkFailed(n)
      PROVE  QuorumInv'
  BY <1>2 DEF MarkAlive, MarkFailed, QuorumSize, QuorumInv
<1>3. ASSUME NEW s \in SUBSET ClusterNodes, Reconfigure(s)
      PROVE  QuorumInv'
  <2>1. kind' \in QuorumKinds
    BY <1>3 DEF Reconfigure, QuorumInv, QuorumKinds, Majority, AllNodes, NotANumber, Supermajority
  <2> QED
    BY <1>3, <2>1, ClusterAssumption DEF Reconfigure, QuorumInv
<1>4. ASSUME UNCHANGED quorumVars
      PROVE  QuorumInv'
  BY <1>4 DEF quorumVars, QuorumSize, QuorumInv
<1>5. ASSUME NEW n \in ClusterNodes,
             TakeSnapshot(n) \/ (\E i \in 1..MaxIndex : ApplyEntry(n, i)) \/ (\E s \in snapshots : Restore(n, s))
      PROVE  UNCHANGED quorumVars
  BY <1>5 DEF TakeSnapshot, ApplyEntry, Restore
<1>6. CASE UNCHANGED clusterVars
  BY <1>4, <1>6 DEF clusterVars, quorumVars
<1> QED
  BY <1>1, <1>2, <1>3, <1>4, <1>5, <1>6 DEF ClusterNext

LEMMA ReplicaStep ==
  ASSUME ReplicaInv, [ClusterNext]_clusterVars
  PROVE  ReplicaInv'
<1>1. /\ applied \in [ClusterNodes -> 0..MaxIndex] /\ version = applied /\ furthest = applied
      /\ snapshots \subseteq [index : 0..MaxIndex, version : 0..MaxIndex]
      /\ \A s \in snapshots : s.version = s.index
  BY DEF ReplicaInv
<1>2. ASSUME NEW n \in ClusterNodes, TakeSnapshot(n)
      PROVE  ReplicaInv'
  <2> DEFINE t == [index |-> applied[n], version |-> version[n]]
  <2>1. t \in [index : 0..MaxIndex, version : 0..MaxIndex] /\ t.version = t.index
    BY <1>1
  <2>2. snapshots' = snapshots \cup {t} /\ UNCHANGED <<applied, version, furthest>>
    BY <1>2 DEF TakeSnapshot
  <2> HIDE DEF t
  <2> QED
    BY <1>1, <2>1, <2>2 DEF ReplicaInv
<1>3. ASSUME NEW n \in ClusterNodes, NEW i \in 1..MaxIndex, ApplyEntry(n, i)
      PROVE  ReplicaInv'
  <2>1. /\ applied' = [applied EXCEPT ![n] = i] /\ version' = [version EXCEPT ![n] = version[n] + 1]
        /\ i = applied[n] + 1 /\ applied[n] \in 0..MaxIndex /\ UNCHANGED snapshots
    BY <1>1, <1>3 DEF ApplyEntry, Expected
  <2>2. furthest' = [furthest EXCEPT ![n] = i]
    <3>1. i > furthest[n]
      BY <1>1, <2>1
    <3>2. Reach(n, i)
      BY <1>3 DEF ApplyEntry
    <3> QED
      BY <3>1, <3>2 DEF Reach
  <2> QED
    BY <1>1, <2>1, <2>2 DEF ReplicaInv
<1>4. ASSUME NEW n \in ClusterNodes, NEW s \in snapshots, Restore(n, s)
      PROVE  ReplicaInv'
  <2>1. /\ applied' = [applied EXCEPT ![n] = s.index] /\ version' = [version EXCEPT ![n] = s.version]
        /\ s.index > applied[n] /\ s.index \in 0..MaxIndex /\ s.version = s.index /\ UNCHANGED snapshots
    BY <1>1, <1>4 DEF Restore, Newer
  <2>2. furthest' = [furthest EXCEPT ![n] = s.index]
    BY <1>1, <1>4, <2>1 DEF Restore, Reach
  <2> QED
    BY <1>1, <2>1, <2>2 DEF ReplicaInv
<1>5. ASSUME UNCHANGED replicaVars
      PROVE  ReplicaInv'
  BY <1>1, <1>5 DEF replicaVars, ReplicaInv
<1>6. ASSUME NEW s \in SUBSET ClusterNodes, Ask(s) \/ Reconfigure(s)
      PROVE  UNCHANGED replicaVars
  BY <1>6 DEF Ask, Reconfigure
<1>7. ASSUME NEW n \in ClusterNodes, MarkAlive(n) \/ MarkFailed(n)
      PROVE  UNCHANGED replicaVars
  BY <1>7 DEF MarkAlive, MarkFailed
<1>8. CASE UNCHANGED clusterVars
  BY <1>5, <1>8 DEF clusterVars, replicaVars
<1> QED
  BY <1>2, <1>3, <1>4, <1>5, <1>6, <1>7, <1>8 DEF ClusterNext


-------------------------------------------------------------------------------
(* The mesh. *)

LEMMA MeshInitial ==
  ASSUME MeshInit
  PROVE  TopologyInv
BY MeshAssumption DEF MeshInit, TopologyInv

(* What connected_components visits from a node: it, in a round its        *)
(* neighbours, and so on.                                                  *)
LEMMA ComponentWalk ==
  ASSUME NEW n \in known
  PROVE  \E v : /\ DOMAIN v = 0..Cardinality(MeshNodes)
                /\ v[0] = {n}
                /\ \A i \in 1..Cardinality(MeshNodes) :
                     v[i] = v[i - 1] \cup {m \in known : \E k \in v[i - 1] : {k, m} \in links}
                /\ Component(n) = v[Cardinality(MeshNodes)]
<1> DEFINE N == Cardinality(MeshNodes)
           X == SUBSET known
           start == {n}
           Step(s) == s \cup {m \in known : \E k \in s : {k, m} \in links}
           G == [s \in X |-> Step(s)]
           Rounds(v) == v = [i \in 0..N |-> IF i = 0 THEN start ELSE Step(v[i - 1])]
<1>1. N \in Nat
  BY MeshAssumption, FS_CardinalityType
<1>2. G \in [X -> X] /\ start \in X /\ \A s \in X : G[s] = Step(s)
  OBVIOUS
<1>6. Component(n) = (CHOOSE v : Rounds(v))[N]
  BY DEF Component
<1> HIDE DEF N, X, start, G, Step
<1>3. PICK f \in [0..N -> X] : f[0] = start /\ \A i \in 1..N : f[i] = G[f[i - 1]]
  <2>1. Iterated(X, start, G, N)
    BY <1>1, <1>2, IterationExists
  <2> QED
    BY <2>1 DEF Iterated
<1>4. \A i \in 1..N : f[i] = Step(f[i - 1])
  <2> TAKE i \in 1..N
  <2>1. f[i - 1] \in X
    BY <1>1, <1>3
  <2> QED
    BY <1>2, <1>3, <2>1
<1>5. Rounds(f)
  <2>1. \A i \in 0..N : f[i] = IF i = 0 THEN start ELSE Step(f[i - 1])
    BY <1>1, <1>3, <1>4
  <2> QED
    BY <2>1
<1> DEFINE v == CHOOSE w : Rounds(w)
<1>7. Rounds(v)
  BY <1>5
<1> HIDE DEF v
<1>8. DOMAIN v = 0..N /\ v[0] = start /\ \A i \in 1..N : v[i] = Step(v[i - 1])
  <2>1. \A i \in 0..N : v[i] = IF i = 0 THEN start ELSE Step(v[i - 1])
    BY <1>7
  <2>2. 0 \in 0..N /\ \A i \in 1..N : i \in 0..N /\ i # 0
    BY <1>1
  <2> QED
    BY <1>7, <2>1, <2>2
<1>9. Component(n) = v[N]
  BY <1>6 DEF v
<1> QED
  BY <1>8, <1>9 DEF N, start, Step

(* In a star the search from a tied node visits the whole star, and from   *)
(* another node just it.                                                   *)
LEMMA StarComponents ==
  ASSUME TopologyInv, NEW n \in known
  PROVE  Component(n) = IF n \in UNION links THEN UNION links ELSE {n}
<1> DEFINE N == Cardinality(MeshNodes)
           Star == UNION links
           Next1(s) == s \cup {m \in known : \E k \in s : {k, m} \in links}
<1>1. N \in Nat
  BY MeshAssumption, FS_CardinalityType
<1>2. PICK v : /\ v[0] = {n}
               /\ \A i \in 1..N : v[i] = Next1(v[i - 1])
               /\ Component(n) = v[N]
  BY ComponentWalk
<1>3. \A e \in links : LocalNode \in known /\ \E m \in known \ {LocalNode} : e = {LocalNode, m}
  BY DEF TopologyInv
<1>4. \A m \in Star : m # LocalNode => {LocalNode, m} \in links /\ m \in known
  BY <1>3
<1>5. \A s \in SUBSET Star : Next1(s) \subseteq Star
  OBVIOUS
<1> HIDE DEF N, Next1
<1>6. CASE n \notin Star
  <2>1. Next1({n}) = {n}
    BY <1>6 DEF Next1
  <2> DEFINE S == {i \in Nat : i <= N => v[i] = {n}}
  <2>2. 0 \in S /\ \A i \in S : i + 1 \in S
    <3>1. 0 \in S
      BY <1>2
    <3>2. ASSUME NEW i \in S, i + 1 <= N PROVE v[i + 1] = {n}
      <4>1. i + 1 \in 1..N /\ (i + 1) - 1 = i /\ v[i] = {n}
        BY <1>1, <3>2
      <4> QED
        BY <1>2, <2>1, <4>1
    <3> QED
      BY <3>1, <3>2
  <2>3. S = Nat
    <3>1. S \in SUBSET Nat
      OBVIOUS
    <3> HIDE DEF S
    <3> QED
      BY <2>2, <3>1, NatSetInduction
  <2> QED
    BY <1>1, <1>2, <1>6, <2>3
<1>7. CASE n \in Star
  <2>1. N >= 2
    <3>1. PICK m \in known \ {LocalNode} : {LocalNode, m} \in links /\ LocalNode \in known
      BY <1>3, <1>7
    <3>2. {LocalNode, m} \in SUBSET MeshNodes
      BY <3>1 DEF TopologyInv
    <3>3. Cardinality({LocalNode, m}) = 2
      <4>1. IsFiniteSet({m}) /\ Cardinality({m}) = 1
        BY FS_Singleton
      <4>2. Cardinality({m} \cup {LocalNode}) = Cardinality({m}) + 1
        BY <3>1, <4>1, FS_AddElement
      <4>3. {m} \cup {LocalNode} = {LocalNode, m}
        OBVIOUS
      <4> QED
        BY <4>1, <4>2, <4>3
    <3> QED
      BY <1>1, <3>2, <3>3, MeshAssumption, FS_Subset DEF N
  <2> DEFINE S == {i \in Nat : i <= N => /\ v[i] \subseteq Star
                                          /\ n \in v[i]
                                          /\ (i >= 1 => LocalNode \in v[i])
                                          /\ (i >= 2 => Star \subseteq v[i])}
  <2>2. 0 \in S
    BY <1>2, <1>7
  <2>3. ASSUME NEW i \in S, i + 1 <= N
        PROVE  /\ v[i + 1] \subseteq Star
               /\ n \in v[i + 1]
               /\ LocalNode \in v[i + 1]
               /\ (i + 1 >= 2 => Star \subseteq v[i + 1])
    <3>1. i + 1 \in 1..N /\ (i + 1) - 1 = i /\ i <= N
      BY <1>1, <2>3
    <3>2. v[i + 1] = Next1(v[i])
      BY <1>2, <3>1
    <3>3. v[i] \in SUBSET Star /\ n \in v[i] /\ (i >= 1 => LocalNode \in v[i])
      BY <3>1
    <3>4. v[i + 1] \subseteq Star /\ n \in v[i + 1]
      BY <1>5, <3>2, <3>3 DEF Next1
    <3>5. LocalNode \in v[i + 1]
      <4>1. {LocalNode} \cup {m \in known : {LocalNode, m} \in links} \subseteq known
        BY <1>3, <1>7
      <4>2. n = LocalNode \/ {n, LocalNode} \in links
        <5>1. {LocalNode, n} = {n, LocalNode}
          OBVIOUS
        <5> QED
          BY <1>4, <1>7, <5>1
      <4>3. LocalNode \in known
        BY <1>3, <1>7
      <4> QED
        BY <3>2, <3>3, <4>2, <4>3 DEF Next1
    <3>6. ASSUME i >= 1, NEW m \in Star PROVE m \in v[i + 1]
      BY <1>4, <3>2, <3>3, <3>5, <3>6 DEF Next1
    <3>7. i + 1 >= 2 => i >= 1
      OBVIOUS
    <3> QED
      BY <3>4, <3>5, <3>6, <3>7
  <2>4. S = Nat
    <3>1. S \in SUBSET Nat /\ \A i \in S : i + 1 \in S
      BY <2>3
    <3> HIDE DEF S
    <3> QED
      BY <2>2, <3>1, NatSetInduction
  <2>5. N \in S
    BY <1>1, <2>4
  <2>6. v[N] = Star
    BY <1>1, <2>1, <2>5
  <2> QED
    BY <1>2, <1>7, <2>6
<1> QED
  BY <1>6, <1>7

LEMMA TopologyStep ==
  ASSUME TopologyInv, [MeshNext]_meshVars
  PROVE  TopologyInv'
<1>1. ASSUME NEW n \in MeshNodes, AddNeighbor(n)
      PROVE  TopologyInv'
  BY <1>1, MeshAssumption DEF AddNeighbor, TopologyInv
<1>2. ASSUME NEW n \in MeshNodes, RemoveNeighbor(n)
      PROVE  TopologyInv'
  BY <1>2 DEF RemoveNeighbor, TopologyInv
<1>3. CASE Discover
  <2>1. UNCHANGED <<known, links>>
    BY <1>3 DEF Discover
  <2>2. Components \subseteq SUBSET MeshNodes
    BY StarComponents DEF Components, TopologyInv
  <2>3. lastResult' = Components \/ lastResult' = lastResult
    BY <1>3 DEF Discover
  <2> QED
    BY <2>1, <2>2, <2>3 DEF TopologyInv
<1>4. CASE UNCHANGED meshVars
  BY <1>4 DEF meshVars, TopologyInv
<1> QED
  BY <1>1, <1>2, <1>3, <1>4 DEF MeshNext

LEMMA ComponentsTrueHold ==
  ASSUME TopologyInv
  PROVE  ComponentsTrue
<1>1. ASSUME NEW m \in known, NEW n \in known
      PROVE  Component(m) = Component(n) \/ Component(m) \cap Component(n) = {}
  BY StarComponents
<1>2. \A e \in links : e \subseteq known /\ \E n \in known : n \in e
  BY DEF TopologyInv
<1>3. \A n \in known : n \in Component(n) /\ Component(n) \subseteq known
  <2> TAKE n \in known
  <2>1. Component(n) = IF n \in UNION links THEN UNION links ELSE {n}
    BY StarComponents
  <2> QED
    BY <1>2, <2>1
<1>4. UNION Components = known
  BY <1>3 DEF Components
<1>5. ASSUME NEW e \in links
      PROVE  \E c \in Components : e \subseteq c
  <2>1. PICK n \in known : n \in e
    BY <1>2
  <2>2. Component(n) = UNION links
    BY <2>1, StarComponents
  <2> QED
    BY <2>2 DEF Components
<1>6. \A c, d \in Components : c = d \/ c \cap d = {}
  BY <1>1 DEF Components
<1> QED
  BY <1>4, <1>5, <1>6 DEF ComponentsTrue

(* Quorums of an epoch meet and replicas go forward one entry at a time,   *)
(* for any number of nodes, entries and epochs and any rounding of the     *)
(* fraction (cluster/); the components of a node's graph are its connected *)
(* parts (mesh/).                                                          *)
THEOREM ClusterHolds == Spec => []ClusterSound
<1>1. Init => QuorumInv /\ ReplicaInv /\ TopologyInv
  BY ClusterInitial, MeshInitial DEF Init
<1>2. QuorumInv /\ [Next]_vars => QuorumInv'
  BY QuorumStep, OneDriven
<1>3. ReplicaInv /\ [Next]_vars => ReplicaInv'
  BY ReplicaStep, OneDriven
<1>4. TopologyInv /\ [Next]_vars => TopologyInv'
  BY TopologyStep, OneDriven
<1>5. QuorumInv /\ ReplicaInv /\ TopologyInv => ClusterSound
  <2>1. ReplicaInv => ReplicasOrdered
    BY DEF ReplicaInv, ReplicasOrdered
  <2> QED
    BY <2>1, QuorumsMeetHold, ComponentsTrueHold DEF ClusterSound
<1> QED
  BY <1>1, <1>2, <1>3, <1>4, <1>5, PTL DEF Spec

-------------------------------------------------------------------------------
(* The agent-native file systems: deletions, reads, relations. *)

LEMMA FilesInitial ==
  ASSUME FilesInit
  PROVE  DeletesInv /\ GraphInv /\ ReadsInv
<1>1. DeletesInv
  <2>1. Absent = [version |-> 0, large |-> FALSE]
    BY DEF Absent
  <2> QED
    BY <2>1, AnfsFilesAssumption DEF FilesInit, DeletesInv, LastDeleteKept
<1>2. GraphInv
  <2>1. edges \in [FileNames \X FileNames -> Nat] /\ coOpened \in [FileNames \X FileNames -> Nat]
        /\ \A p \in FileNames \X FileNames : edges[p] = 0 /\ coOpened[p] = 0
    BY DEF FilesInit
  <2> QED
    BY <2>1 DEF GraphInv, EdgesCounted
<1>3. ReadsInv
  BY DEF FilesInit, ReadsInv, ReadsCounted
<1> QED
  BY <1>1, <1>2, <1>3

LEMMA DeletesStep ==
  ASSUME DeletesInv, [FilesNext]_filesVars
  PROVE  DeletesInv'
<1> DEFINE Kept(d) == \E e \in binned : /\ e.name = d.name /\ e.at = d.at /\ e.version >= d.version
                                        /\ recycle[d.name][d.at] = e.version
<1>1. /\ versions \in 0..MaxVersions /\ now \in 1..LastSecond /\ loaded = atStart
      /\ files \in [FileNames -> [version : 0..versions, large : BOOLEAN]]
      /\ recycle \in [FileNames -> [1..LastSecond -> 0..versions]]
      /\ binned \subseteq [version : 1..versions, name : FileNames, at : 1..LastSecond]
      /\ \A n \in FileNames : files[n] = Absent \/ files[n].version >= 1
      /\ \A d \in binned : files[d.name] # Absent => d.version < files[d.name].version
      /\ \A d \in binned : Kept(d)
      /\ logged \subseteq binned
      /\ \A d \in lost : d.large => d.how \in {"truncated", "listed", "tmp"}
      /\ MaxVersions \in Nat /\ LastSecond \in Nat
  BY AnfsFilesAssumption DEF DeletesInv, LastDeleteKept
<1>2. ASSUME NEW n \in FileNames, Create(n)
      PROVE  DeletesInv'
  <2> DEFINE f == [version |-> versions + 1, large |-> FALSE]
  <2>1. /\ versions' = versions + 1 /\ files' = [files EXCEPT ![n] = f]
        /\ lost' = (IF files[n] = Absent THEN lost ELSE lost \cup {Gone(n, "truncated")})
        /\ UNCHANGED <<recycle, now, loaded, atStart, binned, logged>> /\ versions < MaxVersions
    BY <1>2 DEF Create
  <2>2. f \in [version : 0..(versions + 1), large : BOOLEAN] /\ f.version = versions + 1
    BY <1>1
  <2> HIDE DEF f
  <2>3. versions' \in 0..MaxVersions /\ 0..versions \subseteq 0..(versions + 1) /\ 1..versions \subseteq 1..(versions + 1)
    BY <1>1, <2>1
  <2>4. files' \in [FileNames -> [version : 0..(versions + 1), large : BOOLEAN]]
    BY <1>1, <2>1, <2>2, <2>3
  <2>5. recycle' \in [FileNames -> [1..LastSecond -> 0..(versions + 1)]]
    BY <1>1, <2>1, <2>3
  <2>6. binned' \subseteq [version : 1..(versions + 1), name : FileNames, at : 1..LastSecond]
    BY <1>1, <2>1, <2>3
  <2>7. \A m \in FileNames : files'[m] = Absent \/ files'[m].version >= 1
    BY <1>1, <2>1, <2>2
  <2>8. ASSUME NEW d \in binned', files'[d.name] # Absent
        PROVE  d.version < files'[d.name].version
    <3>1. d \in binned /\ d.name \in FileNames /\ d.version \in 1..versions
      BY <1>1, <2>1
    <3>2. CASE d.name = n
      BY <1>1, <2>1, <2>2, <3>1, <3>2
    <3>3. CASE d.name # n
      BY <1>1, <2>1, <2>8, <3>1, <3>3
    <3> QED
      BY <3>2, <3>3
  <2>9. \A d \in lost' : d.large => d.how \in {"truncated", "listed", "tmp"}
    BY <1>1, <2>1 DEF Gone
  <2> QED
    BY <1>1, <2>1, <2>3, <2>4, <2>5, <2>6, <2>7, <2>8, <2>9 DEF DeletesInv, LastDeleteKept
<1>3. ASSUME NEW n \in FileNames, Grows(n)
      PROVE  DeletesInv'
  <2>1. /\ files[n] # Absent /\ files' = [files EXCEPT ![n].large = TRUE]
        /\ UNCHANGED <<versions, recycle, now, loaded, atStart, binned, logged, lost>>
    BY <1>3 DEF Grows
  <2>2. files' \in [FileNames -> [version : 0..versions, large : BOOLEAN]]
    BY <1>1, <2>1
  <2>3. \A m \in FileNames : files'[m].version = files[m].version /\ (m # n => files'[m] = files[m])
    BY <1>1, <2>1
  <2>4. files[n].version >= 1
    BY <1>1, <2>1
  <2>5. \A m \in FileNames : files'[m] = Absent \/ files'[m].version >= 1
    BY <1>1, <2>3, <2>4
  <2>6. \A d \in binned : files'[d.name] # Absent => d.version < files'[d.name].version
    BY <1>1, <2>1, <2>3
  <2> QED
    BY <1>1, <2>1, <2>2, <2>5, <2>6 DEF DeletesInv, LastDeleteKept
<1>4. ASSUME NEW n \in FileNames, Unlink(n)
      PROVE  DeletesInv'
  <2>1. /\ files[n] # Absent /\ files' = [files EXCEPT ![n] = Absent]
        /\ UNCHANGED <<versions, now, loaded, atStart>>
    BY <1>4 DEF Unlink
  <2>2. /\ files' \in [FileNames -> [version : 0..versions, large : BOOLEAN]]
        /\ \A m \in FileNames : files'[m] = IF m = n THEN Absent ELSE files[m]
    BY <1>1, <2>1 DEF Absent
  <2>3. \A m \in FileNames : files'[m] = Absent \/ files'[m].version >= 1
    BY <1>1, <2>2
  <2>4. CASE RemovedOutright(n)
    <3>1. /\ lost' = lost \cup {Gone(n, IF inTmp THEN "tmp" ELSE IF n \in atStart THEN "listed" ELSE "unlisted")}
          /\ UNCHANGED <<recycle, binned, logged>>
      BY <1>4, <2>4 DEF Unlink
    <3>2. files[n].large => inTmp \/ n \in atStart
      BY <1>1, <2>4 DEF RemovedOutright, IsProtected
    <3>3. \A d \in lost' : d.large => d.how \in {"truncated", "listed", "tmp"}
      BY <1>1, <3>1, <3>2 DEF Gone
    <3>4. \A d \in binned : files'[d.name] # Absent => d.version < files'[d.name].version
      BY <1>1, <2>2
    <3> QED
      BY <1>1, <2>1, <2>2, <2>3, <3>1, <3>3, <3>4 DEF DeletesInv, LastDeleteKept
  <2>5. CASE ~RemovedOutright(n)
    <3> DEFINE v == files[n].version
               e == [version |-> v, name |-> n, at |-> now]
    <3>1. /\ recycle' = [recycle EXCEPT ![n][now] = v] /\ binned' = binned \cup {e} /\ lost' = lost
          /\ logged' \subseteq logged \cup {e}
      BY <1>4, <2>5 DEF Unlink
    <3>2. v \in 1..versions /\ e \in [version : 1..versions, name : FileNames, at : 1..LastSecond]
          /\ e.version = v /\ e.name = n /\ e.at = now
      BY <1>1, <2>1
    <3> HIDE DEF v, e
    <3>3. recycle' \in [FileNames -> [1..LastSecond -> 0..versions]]
      BY <1>1, <3>1, <3>2
    <3>4. \A m \in FileNames, s \in 1..LastSecond :
            recycle'[m][s] = IF m = n /\ s = now THEN v ELSE recycle[m][s]
      BY <1>1, <3>1
    <3>5. \A d \in binned : d.name = n => d.version < v
      BY <1>1, <2>1 DEF v
    <3>6. ASSUME NEW d \in binned'
          PROVE  \E c \in binned' : /\ c.name = d.name /\ c.at = d.at /\ c.version >= d.version
                                   /\ recycle'[d.name][d.at] = c.version
      <4>1. d.name \in FileNames /\ d.at \in 1..LastSecond /\ d.version \in 1..versions
        BY <1>1, <3>1, <3>2
      <4>2. CASE d.name = n /\ d.at = now
        <5>1. recycle'[d.name][d.at] = v
          BY <3>4, <4>1, <4>2
        <5>2. d = e \/ d.version < v
          BY <3>1, <3>5, <4>2
        <5>3. e.version >= d.version
          BY <3>2, <4>1, <5>2
        <5> QED
          BY <3>1, <3>2, <4>2, <5>1, <5>3
      <4>3. CASE ~(d.name = n /\ d.at = now)
        <5>1. d \in binned /\ recycle'[d.name][d.at] = recycle[d.name][d.at]
          BY <3>1, <3>2, <3>4, <4>1, <4>3
        <5> QED
          BY <1>1, <3>1, <5>1
      <4> QED
        BY <4>2, <4>3
    <3>7. \A d \in binned' : files'[d.name] # Absent => d.version < files'[d.name].version
      BY <1>1, <2>2, <3>1, <3>2
    <3>8. binned' \subseteq [version : 1..versions, name : FileNames, at : 1..LastSecond]
      BY <1>1, <3>1, <3>2
    <3> QED
      BY <1>1, <2>1, <2>2, <2>3, <3>1, <3>3, <3>6, <3>7, <3>8 DEF DeletesInv, LastDeleteKept
  <2> QED
    BY <2>4, <2>5
<1>5. CASE SecondPasses
  <2>1. now' \in 1..LastSecond /\ UNCHANGED <<files, versions, recycle, loaded, atStart, binned, logged, lost>>
    BY <1>1, <1>5 DEF SecondPasses
  <2> QED
    BY <1>1, <2>1 DEF DeletesInv, LastDeleteKept
<1>6. CASE Restarts
  <2>1. loaded' = atStart' /\ UNCHANGED <<files, versions, recycle, now, binned, logged, lost>>
    BY <1>6 DEF Restarts, LoadedAtStart
  <2> QED
    BY <1>1, <2>1 DEF DeletesInv, LastDeleteKept
<1>7. ASSUME UNCHANGED <<files, versions, recycle, now, loaded, atStart, binned, logged, lost>>
      PROVE  DeletesInv'
  BY <1>1, <1>7 DEF DeletesInv, LastDeleteKept
<1>8. ASSUME NEW s \in SUBSET FileNames, ListEdited(s)
      PROVE  DeletesInv'
  BY <1>7, <1>8 DEF ListEdited
<1>9. CASE Read \/ FlushBatch
  BY <1>7, <1>9 DEF Read, FlushBatch, deleteVars
<1>10. ASSUME NEW a \in FileNames, NEW b \in FileNames, RecordCoOpen(a, b) \/ ForgetPrefix(a)
       PROVE  DeletesInv'
  BY <1>7, <1>10 DEF RecordCoOpen, ForgetPrefix, deleteVars
<1>11. CASE UNCHANGED filesVars
  BY <1>7, <1>11 DEF filesVars
<1> QED
  BY <1>2, <1>3, <1>4, <1>5, <1>6, <1>8, <1>9, <1>10, <1>11 DEF FilesNext

LEMMA ReadsStep ==
  ASSUME ReadsInv, [FilesNext]_filesVars
  PROVE  ReadsInv'
<1>1. CASE Read
  BY <1>1 DEF Read, ReadsInv, ReadsCounted
<1>2. CASE FlushBatch
  BY <1>2 DEF FlushBatch, AfterFlush, Torn, ReadsInv, ReadsCounted
<1>3. CASE Restarts
  BY <1>3 DEF Restarts, ReadsInv, ReadsCounted
<1>4. ASSUME UNCHANGED metaVars
      PROVE  ReadsInv'
  BY <1>4 DEF metaVars, ReadsInv, ReadsCounted
<1>5. ASSUME NEW n \in FileNames, Create(n) \/ Grows(n) \/ Unlink(n) \/ ForgetPrefix(n)
      PROVE  UNCHANGED metaVars
  BY <1>5 DEF Create, Grows, Unlink, ForgetPrefix
<1>6. ASSUME NEW a \in FileNames, NEW b \in FileNames, RecordCoOpen(a, b)
      PROVE  UNCHANGED metaVars
  BY <1>6 DEF RecordCoOpen
<1>7. ASSUME NEW s \in SUBSET FileNames, SecondPasses \/ ListEdited(s)
      PROVE  UNCHANGED metaVars
  BY <1>7 DEF SecondPasses, ListEdited
<1>8. CASE UNCHANGED filesVars
  BY <1>4, <1>8 DEF filesVars, metaVars
<1> QED
  BY <1>1, <1>2, <1>3, <1>4, <1>5, <1>6, <1>7, <1>8 DEF FilesNext

LEMMA GraphStep ==
  ASSUME GraphInv, [FilesNext]_filesVars
  PROVE  GraphInv'
<1>1. /\ edges \in [FileNames \X FileNames -> Nat] /\ coOpened \in [FileNames \X FileNames -> Nat]
      /\ \A x, y \in FileNames : x # y => edges[<<x, y>>] = coOpened[<<x, y>>] + coOpened[<<y, x>>]
  BY DEF GraphInv, EdgesCounted
<1>2. ASSUME NEW a \in FileNames, NEW b \in FileNames, RecordCoOpen(a, b)
      PROVE  GraphInv'
  <2>1. /\ a # b /\ edges' = [edges EXCEPT ![<<a, b>>] = @ + 1, ![<<b, a>>] = @ + 1]
        /\ coOpened' = [coOpened EXCEPT ![<<a, b>>] = @ + 1]
    BY <1>2 DEF RecordCoOpen, Recorded
  <2>2. <<a, b>> \in FileNames \X FileNames /\ <<b, a>> \in FileNames \X FileNames /\ <<a, b>> # <<b, a>>
    BY <2>1
  <2>3. /\ edges' \in [FileNames \X FileNames -> Nat] /\ coOpened' \in [FileNames \X FileNames -> Nat]
        /\ \A p \in FileNames \X FileNames :
             /\ edges'[p] = IF p \in {<<a, b>>, <<b, a>>} THEN edges[p] + 1 ELSE edges[p]
             /\ coOpened'[p] = IF p = <<a, b>> THEN coOpened[p] + 1 ELSE coOpened[p]
    <3> DEFINE t == <<a, b>>
               u == <<b, a>>
    <3>1. t \in FileNames \X FileNames /\ u \in FileNames \X FileNames /\ t # u
      BY <2>2
    <3>2. /\ edges' = [edges EXCEPT ![t] = edges[t] + 1, ![u] = edges[u] + 1]
          /\ coOpened' = [coOpened EXCEPT ![t] = coOpened[t] + 1]
      BY <2>1
    <3> HIDE DEF t, u
    <3>3. /\ edges' \in [FileNames \X FileNames -> Nat] /\ coOpened' \in [FileNames \X FileNames -> Nat]
          /\ \A p \in FileNames \X FileNames :
               /\ edges'[p] = IF p \in {t, u} THEN edges[p] + 1 ELSE edges[p]
               /\ coOpened'[p] = IF p = t THEN coOpened[p] + 1 ELSE coOpened[p]
      BY <1>1, <3>1, <3>2
    <3> QED
      BY <3>3 DEF t, u
  <2>4. ASSUME NEW x \in FileNames, NEW y \in FileNames, x # y
        PROVE  edges'[<<x, y>>] = coOpened'[<<x, y>>] + coOpened'[<<y, x>>]
    <3>1. <<x, y>> \in FileNames \X FileNames /\ <<y, x>> \in FileNames \X FileNames
      OBVIOUS
    <3>2. /\ coOpened[<<x, y>>] \in Nat /\ coOpened[<<y, x>>] \in Nat
          /\ edges[<<x, y>>] = coOpened[<<x, y>>] + coOpened[<<y, x>>]
      BY <1>1, <2>4, <3>1
    <3>3. CASE x = a /\ y = b
      BY <2>1, <2>3, <3>1, <3>2, <3>3
    <3>4. CASE x = b /\ y = a
      BY <2>1, <2>3, <3>1, <3>2, <3>4
    <3>5. CASE ~(x = a /\ y = b) /\ ~(x = b /\ y = a)
      <4>1. <<x, y>> \notin {<<a, b>>, <<b, a>>} /\ <<y, x>> # <<a, b>>
        BY <3>5
      <4> QED
        BY <2>3, <3>1, <3>2, <4>1
    <3> QED
      BY <3>3, <3>4, <3>5
  <2> QED
    BY <2>3, <2>4 DEF GraphInv, EdgesCounted
<1>3. ASSUME NEW n \in FileNames, ForgetPrefix(n)
      PROVE  GraphInv'
  <2>1. /\ edges' = [p \in FileNames \X FileNames |-> IF n \in {p[1], p[2]} THEN 0 ELSE edges[p]]
        /\ coOpened' = [p \in FileNames \X FileNames |-> IF n \in {p[1], p[2]} THEN 0 ELSE coOpened[p]]
    BY <1>1, <1>3 DEF ForgetPrefix
  <2>2. edges' \in [FileNames \X FileNames -> Nat] /\ coOpened' \in [FileNames \X FileNames -> Nat]
    BY <1>1, <2>1
  <2>3. ASSUME NEW x \in FileNames, NEW y \in FileNames
        PROVE  /\ edges'[<<x, y>>] = IF n \in {x, y} THEN 0 ELSE edges[<<x, y>>]
               /\ coOpened'[<<x, y>>] = IF n \in {x, y} THEN 0 ELSE coOpened[<<x, y>>]
    <3>1. <<x, y>> \in FileNames \X FileNames /\ <<x, y>>[1] = x /\ <<x, y>>[2] = y
      OBVIOUS
    <3> QED
      BY <2>1, <3>1
  <2>4. ASSUME NEW x \in FileNames, NEW y \in FileNames, x # y
        PROVE  edges'[<<x, y>>] = coOpened'[<<x, y>>] + coOpened'[<<y, x>>]
    BY <1>1, <2>3, <2>4
  <2> QED
    BY <2>2, <2>4 DEF GraphInv, EdgesCounted
<1>4. ASSUME UNCHANGED graphVars
      PROVE  GraphInv'
  BY <1>4 DEF graphVars, GraphInv, EdgesCounted
<1>5. ASSUME NEW n \in FileNames, Create(n) \/ Grows(n) \/ Unlink(n)
      PROVE  UNCHANGED graphVars
  BY <1>5 DEF Create, Grows, Unlink
<1>6. ASSUME NEW s \in SUBSET FileNames, SecondPasses \/ ListEdited(s) \/ Restarts \/ Read \/ FlushBatch
      PROVE  UNCHANGED graphVars
  BY <1>6 DEF SecondPasses, ListEdited, Restarts, Read, FlushBatch
<1>7. CASE UNCHANGED filesVars
  BY <1>4, <1>7 DEF filesVars, graphVars
<1> QED
  BY <1>2, <1>3, <1>4, <1>5, <1>6, <1>7 DEF FilesNext

-------------------------------------------------------------------------------
(* The semantic file system: checks, journal, caches. *)

LEMMA LesserOf ==
  ASSUME NEW a \in Int, NEW b \in Int
  PROVE  Min({a, b}) = IF a <= b THEN a ELSE b
BY DEF Min

(* The audit ring after one more decision (AuditHandle::emit). *)
LEMMA RingEmit ==
  ASSUME JournalInv, NEW d \in Decision, d.n = checks + 1
  PROVE  /\ Emit(d) \in Seq(Decision)
         /\ Len(Emit(d)) = Min({checks + 1, AuditCapacity})
         /\ \A i \in 1..Len(Emit(d)) : Emit(d)[i].n = (checks + 1) - Len(Emit(d)) + i
         /\ \A i \in 1..Len(Emit(d)) : Emit(d)[i] = d \/ \E j \in 1..Len(auditBuffer) : Emit(d)[i] = auditBuffer[j]
<1> DEFINE r == IF Len(auditBuffer) >= AuditCapacity THEN Tail(auditBuffer) ELSE auditBuffer
           l == Len(auditBuffer)
<1>1. /\ auditBuffer \in Seq(Decision) /\ checks \in Nat /\ AuditCapacity \in Nat \ {0}
      /\ \A i \in 1..l : auditBuffer[i].n = checks - l + i
  <2>1. checks \in 0..MaxChecks /\ auditBuffer \in Seq(Decision) /\ JournalFollowsChecks
    BY DEF JournalInv
  <2>2. \A i \in 1..l : auditBuffer[i].n = checks - l + i
    BY <2>1 DEF JournalFollowsChecks
  <2>3. AuditCapacity \in Nat \ {0}
    BY AnfsAssumption
  <2> QED
    BY <2>1, <2>2, <2>3
<1>2. l \in Nat /\ l = IF checks <= AuditCapacity THEN checks ELSE AuditCapacity
  <2>1. l = Min({checks, AuditCapacity})
    BY DEF JournalInv, JournalFollowsChecks
  <2> QED
    BY <1>1, <2>1, LesserOf
<1>3. Min({checks + 1, AuditCapacity}) = IF checks + 1 <= AuditCapacity THEN checks + 1 ELSE AuditCapacity
  <2> DEFINE n == checks + 1
  <2>1. n \in Int /\ AuditCapacity \in Int
    BY <1>1
  <2> HIDE DEF n
  <2>2. Min({n, AuditCapacity}) = IF n <= AuditCapacity THEN n ELSE AuditCapacity
    BY <2>1, LesserOf
  <2> QED
    BY <2>2 DEF n
<1>4. Emit(d) = Append(r, d)
  BY DEF Emit
<1>6. PICK out \in {0, 1} : /\ r \in Seq(Decision) /\ Len(r) = l - out
                            /\ \A i \in 1..(l - out) : r[i] = auditBuffer[i + out]
                            /\ out = IF l >= AuditCapacity THEN 1 ELSE 0
  <2>1. CASE l >= AuditCapacity
    <3>1. auditBuffer # <<>>
      BY <1>1, <2>1
    <3>2. /\ Tail(auditBuffer) \in Seq(Decision) /\ Len(Tail(auditBuffer)) = l - 1
          /\ \A i \in 1..(l - 1) : Tail(auditBuffer)[i] = auditBuffer[i + 1]
      BY <1>1, <3>1
    <3> QED
      BY <2>1, <3>2
  <2>2. CASE ~(l >= AuditCapacity)
    <3>1. r = auditBuffer
      BY <2>2
    <3> HIDE DEF r
    <3> QED
      BY <1>1, <1>2, <2>2, <3>1
  <2> QED
    BY <2>1, <2>2
<1> HIDE DEF r
<1> DEFINE a == Append(r, d)
<1>7. /\ a \in Seq(Decision) /\ Len(a) = Len(r) + 1 /\ Len(r) \in Nat /\ a[Len(r) + 1] = d
      /\ \A i \in 1..Len(r) : a[i] = r[i]
  BY <1>6
<1> HIDE DEF a, l
<1>8. Len(a) = Min({checks + 1, AuditCapacity})
  BY <1>1, <1>2, <1>3, <1>6, <1>7
<1>9. ASSUME NEW i \in 1..Len(a)
      PROVE  /\ a[i].n = (checks + 1) - Len(a) + i
             /\ a[i] = d \/ \E j \in 1..l : a[i] = auditBuffer[j]
  <2>1. CASE i = Len(r) + 1
    BY <1>1, <1>7, <2>1
  <2>2. CASE i # Len(r) + 1
    <3>1. i \in 1..Len(r) /\ i + out \in 1..l /\ a[i] = auditBuffer[i + out]
      <4>1. Len(a) = Len(r) + 1 /\ Len(r) = l - out
        BY <1>6, <1>7
      <4>2. i \in 1..Len(r) /\ i \in 1..(l - out) /\ i + out \in 1..l
        <5> DEFINE m == Len(r)
        <5>1. i \in 1..(m + 1) /\ i # m + 1 /\ m \in Nat /\ m = l - out /\ l \in Nat /\ out \in Nat
          BY <1>2, <1>7, <2>2, <4>1
        <5> HIDE DEF m
        <5>2. i \in 1..m /\ i + out \in 1..l
          BY <5>1
        <5> QED
          BY <5>1, <5>2 DEF m
      <4> QED
        BY <1>6, <1>7, <4>2
    <3>2. a[i].n = checks - l + (i + out)
      BY <1>1, <3>1
    <3>3. checks - l + (i + out) = (checks + 1) - Len(a) + i
      <4>1. Len(a) = l - out + 1
        BY <1>6, <1>7
      <4> QED
        BY <1>1, <1>2, <3>1, <4>1
    <3> QED
      BY <3>1, <3>2, <3>3
  <2> QED
    BY <2>1, <2>2
<1> QED
  BY <1>4, <1>7, <1>8, <1>9 DEF a, l

LEMMA AnfsInitial ==
  ASSUME AnfsInit
  PROVE  JournalInv
<1>1. Min({0, AuditCapacity}) = 0
  BY AnfsAssumption, LesserOf
<1>2. DefaultLattice \in [Agents -> SUBSET {"hal", "root", "security", "anfs"}]
  BY DEF DefaultLattice, Agents
<1>3. 0 \in 0..MaxChecks
  BY AnfsAssumption
<1> QED
  BY <1>1, <1>2, <1>3 DEF AnfsInit, JournalInv, JournalFollowsChecks

LEMMA JournalStep ==
  ASSUME JournalInv, [AnfsNext]_anfsVars
  PROVE  JournalInv'
<1> DEFINE Entry(c) == [seq : Nat, check : 1..c, op : Mutations]
<1>1. /\ lattice \in [Agents -> SUBSET {"hal", "root", "security", "anfs"}]
      /\ checks \in 0..MaxChecks /\ MaxChecks \in Nat /\ checkpointed \in Nat
      /\ auditBuffer \in Seq(Decision) /\ journal \in Seq(Entry(checks))
  BY AnfsAssumption DEF JournalInv
<1>2. /\ \A i \in 1..Len(auditBuffer) : auditBuffer[i].n = checks - Len(auditBuffer) + i
      /\ Len(auditBuffer) = Min({checks, AuditCapacity})
      /\ \A i \in 1..Len(journal) :
           /\ journal[i].seq = checkpointed + i - 1
           /\ \A j \in 1..Len(auditBuffer) : auditBuffer[j].n = journal[i].check => auditBuffer[j].allowed
      /\ sequence = checkpointed + Len(journal)
  BY DEF JournalInv, JournalFollowsChecks
<1>3. journal \in Seq(Entry(checks + 1))
  <2>1. \A e \in Entry(checks) : e \in Entry(checks + 1)
    BY <1>1
  <2> HIDE DEF Entry
  <2> QED
    BY <1>1, <2>1
<1>5. DefaultAgent \in Agents
  BY DEF Agents, DefaultAgent
<1>19. \A e \in Entry(checks) : e.check \in 1..checks
  OBVIOUS
<1> HIDE DEF Entry
<1>4. \A i \in 1..Len(journal) : journal[i].check \in 1..checks
  BY <1>1, <1>19
<1>6. ASSUME NEW agent \in Agents, NEW path \in Restricted \cup {"."}, Check(agent, path)
      PROVE  /\ checks' = checks + 1 /\ checks' \in 0..MaxChecks
             /\ auditBuffer' \in Seq(Decision)
             /\ Len(auditBuffer') = Min({checks', AuditCapacity})
             /\ \A i \in 1..Len(auditBuffer') : auditBuffer'[i].n = checks' - Len(auditBuffer') + i
             /\ \A i \in 1..Len(auditBuffer') :
                  \/ auditBuffer'[i].n = checks + 1 /\ auditBuffer'[i].allowed = Allowed(agent, path)
                  \/ \E j \in 1..Len(auditBuffer) : auditBuffer'[i] = auditBuffer[j]
  <2> DEFINE d == [n |-> checks + 1, agent |-> agent, path |-> path, allowed |-> Allowed(agent, path)]
  <2>1. d \in Decision /\ d.n = checks + 1 /\ d.allowed = Allowed(agent, path)
    <3>1. Allowed(agent, path) \in BOOLEAN /\ checks + 1 \in Nat
      BY <1>1 DEF Allowed, Knows
    <3> HIDE DEF Allowed
    <3> QED
      BY <3>1 DEF Decision
  <2>2. checks' = checks + 1 /\ auditBuffer' = Emit(d) /\ checks < MaxChecks
    BY <1>6 DEF Check
  <2> HIDE DEF d
  <2>3. checks' \in 0..MaxChecks
    BY <1>1, <2>2
  <2>4. /\ Emit(d) \in Seq(Decision)
        /\ Len(Emit(d)) = Min({checks + 1, AuditCapacity})
        /\ \A i \in 1..Len(Emit(d)) : Emit(d)[i].n = (checks + 1) - Len(Emit(d)) + i
        /\ \A i \in 1..Len(Emit(d)) : Emit(d)[i] = d \/ \E j \in 1..Len(auditBuffer) : Emit(d)[i] = auditBuffer[j]
    BY <2>1, RingEmit
  <2>5. Min({checks', AuditCapacity}) = Min({checks + 1, AuditCapacity})
    BY <2>2
  <2>6. \A i \in 1..Len(auditBuffer') : auditBuffer'[i].n = checks' - Len(auditBuffer') + i
    BY <2>2, <2>4
  <2>7. \A i \in 1..Len(auditBuffer') :
          auditBuffer'[i] = d \/ \E j \in 1..Len(auditBuffer) : auditBuffer'[i] = auditBuffer[j]
    BY <2>2, <2>4
  <2>8. Len(auditBuffer') = Min({checks', AuditCapacity}) /\ auditBuffer' \in Seq(Decision)
    BY <2>2, <2>4, <2>5
  <2> QED
    BY <2>1, <2>2, <2>3, <2>6, <2>7, <2>8
<1>7. ASSUME NEW agent \in Agents, NEW path \in Restricted \cup {"."}, CheckOnly(agent, path)
      PROVE  JournalInv'
  <2>1. Check(agent, path) /\ UNCHANGED <<lattice, journal, sequence, checkpointed>>
    BY <1>7 DEF CheckOnly
  <2>2. ASSUME NEW i \in 1..Len(journal), NEW j \in 1..Len(auditBuffer'), auditBuffer'[j].n = journal[i].check
        PROVE  auditBuffer'[j].allowed
    <3>1. journal[i].check # checks + 1
      BY <1>1, <1>4
    <3>2. PICK m \in 1..Len(auditBuffer) : auditBuffer'[j] = auditBuffer[m]
      BY <1>6, <2>1, <2>2, <3>1
    <3> QED
      BY <1>2, <2>2, <3>2
  <2>3. JournalFollowsChecks'
    BY <1>2, <1>6, <2>1, <2>2 DEF JournalFollowsChecks
  <2>4. journal' \in Seq(Entry(checks'))
    BY <1>3, <1>6, <2>1
  <2> QED
    BY <1>1, <1>6, <2>1, <2>3, <2>4 DEF JournalInv, Entry
<1>8. ASSUME NEW op \in Mutations, NEW path \in Restricted \cup {"."}, Mutate(op, path)
      PROVE  JournalInv'
  <2>1. Check(DefaultAgent, path) /\ UNCHANGED <<lattice, checkpointed>>
    BY <1>8 DEF Mutate
  <2>2. CASE ~Allowed(DefaultAgent, path)
    BY <1>7, <1>5, <1>8, <2>2 DEF Mutate, CheckOnly
  <2>3. CASE Allowed(DefaultAgent, path)
    <3> DEFINE e == [seq |-> sequence, check |-> checks + 1, op |-> op]
    <3>1. journal' = Append(journal, e) /\ sequence' = sequence + 1
      BY <1>8, <2>3 DEF Mutate, JournalAppend
    <3>2. e \in Entry(checks + 1) /\ e.seq = sequence /\ e.check = checks + 1
      BY <1>1, <1>2 DEF Entry
    <3> HIDE DEF e
    <3>3. /\ journal' \in Seq(Entry(checks + 1)) /\ Len(journal') = Len(journal) + 1 /\ Len(journal) \in Nat
          /\ journal'[Len(journal) + 1] = e
          /\ \A i \in 1..Len(journal) : journal'[i] = journal[i]
      BY <1>3, <3>1, <3>2
    <3>4. ASSUME NEW i \in 1..Len(journal')
          PROVE  /\ journal'[i].seq = checkpointed + i - 1
                 /\ \A j \in 1..Len(auditBuffer') : auditBuffer'[j].n = journal'[i].check => auditBuffer'[j].allowed
      <4>1. CASE i = Len(journal) + 1
        <5>1. journal'[i] = e
          BY <3>3, <4>1
        <5>2. sequence = checkpointed + i - 1
          BY <1>1, <1>2, <3>3, <4>1
        <5>3. ASSUME NEW j \in 1..Len(auditBuffer'), auditBuffer'[j].n = checks + 1
              PROVE  auditBuffer'[j].allowed
          <6>1. \A m \in 1..Len(auditBuffer) : auditBuffer[m].n # checks + 1
            BY <1>1, <1>2
          <6> QED
            BY <1>5, <1>6, <2>1, <2>3, <5>3, <6>1
        <5> QED
          BY <3>2, <5>1, <5>2, <5>3
      <4>2. CASE i # Len(journal) + 1
        <5>1. i \in 1..Len(journal) /\ journal'[i] = journal[i]
          BY <3>3, <4>2
        <5>2. journal[i].check # checks + 1
          BY <1>1, <1>4, <5>1
        <5>3. ASSUME NEW j \in 1..Len(auditBuffer'), auditBuffer'[j].n = journal[i].check
              PROVE  auditBuffer'[j].allowed
          <6>1. PICK m \in 1..Len(auditBuffer) : auditBuffer'[j] = auditBuffer[m]
            BY <1>5, <1>6, <2>1, <5>2, <5>3
          <6> QED
            BY <1>2, <5>1, <5>3, <6>1
        <5> QED
          BY <1>2, <5>1, <5>3
      <4> QED
        BY <4>1, <4>2
    <3>5. sequence' = checkpointed + Len(journal')
      BY <1>1, <1>2, <3>1, <3>3
    <3>7. JournalFollowsChecks'
      BY <1>5, <1>6, <2>1, <3>4, <3>5 DEF JournalFollowsChecks
    <3>8. journal' \in Seq(Entry(checks'))
      BY <1>5, <1>6, <2>1, <3>3
    <3> QED
      BY <1>1, <1>5, <1>6, <2>1, <3>7, <3>8 DEF JournalInv, Entry
  <2> QED
    BY <2>2, <2>3
<1>9. CASE Checkpoint
  <2>1. /\ journal' = <<>> /\ checkpointed' = checkpointed + Len(journal)
        /\ UNCHANGED <<lattice, auditBuffer, checks, sequence>>
    BY <1>9 DEF Checkpoint
  <2>2. checkpointed' \in Nat /\ Len(journal') = 0 /\ journal' \in Seq(Entry(checks'))
    BY <1>1, <2>1
  <2>4. sequence' = checkpointed' + Len(journal')
    BY <1>1, <1>2, <2>1, <2>2
  <2>5. \A i \in 1..Len(journal') : FALSE
    BY <2>2
  <2>3. JournalFollowsChecks'
    <3>1. Min({checks', AuditCapacity}) = Min({checks, AuditCapacity})
      BY <2>1
    <3> QED
      BY <1>2, <2>1, <2>4, <2>5, <3>1 DEF JournalFollowsChecks
  <2> QED
    BY <1>1, <2>1, <2>2, <2>3 DEF JournalInv, Entry
<1>10. CASE Grant(DefaultAgent, "anfs")
  <2>1. /\ lattice' = [lattice EXCEPT ![DefaultAgent] = @ \cup {"anfs"}]
        /\ UNCHANGED <<auditBuffer, checks, journal, sequence, checkpointed>>
    BY <1>10 DEF Grant
  <2>2. lattice' \in [Agents -> SUBSET {"hal", "root", "security", "anfs"}]
    BY <1>1, <1>5, <2>1
  <2>3. JournalFollowsChecks'
    BY <1>2, <2>1, <2>2 DEF JournalFollowsChecks
  <2>4. journal' \in Seq(Entry(checks'))
    BY <1>1, <2>1
  <2> QED
    BY <1>1, <2>1, <2>2, <2>3, <2>4 DEF JournalInv, Entry
<1>11. ASSUME UNCHANGED overlayVars
       PROVE  JournalInv'
  <2>1. UNCHANGED <<lattice, auditBuffer, checks, journal, sequence, checkpointed>>
    BY <1>11 DEF overlayVars
  <2>2. JournalFollowsChecks'
    BY <1>2, <2>1 DEF JournalFollowsChecks
  <2>3. journal' \in Seq(Entry(checks'))
    BY <1>1, <2>1
  <2> QED
    BY <1>1, <2>1, <2>2, <2>3 DEF JournalInv, Entry
<1>12. ASSUME NEW p \in CachePaths, NEW len \in Lengths, CacheInsert(p, len) \/ MarkDirty(p) \/ Invalidate(p)
       PROVE  UNCHANGED overlayVars
  BY <1>12 DEF CacheInsert, MarkDirty, Invalidate
<1>13. ASSUME NEW p \in CachePaths, MarkDirty(p) \/ Invalidate(p)
       PROVE  UNCHANGED overlayVars
  BY <1>13 DEF MarkDirty, Invalidate
<1>14. CASE FlushDirty
  BY <1>11, <1>14 DEF FlushDirty
<1>15. CASE UNCHANGED anfsVars
  BY <1>11, <1>15 DEF anfsVars, overlayVars
<1>16. ASSUME NEW a \in Agents, NEW p \in Restricted, CheckOnly(a, p)
       PROVE  JournalInv'
  BY <1>7, <1>16
<1>17. CASE Observe(".")
  BY <1>5, <1>7, <1>17 DEF Observe
<1>18. ASSUME NEW op \in Mutations, Mutate(op, ".")
       PROVE  JournalInv'
  BY <1>8, <1>18
<1> QED
  BY <1>9, <1>10, <1>11, <1>12, <1>13, <1>14, <1>15, <1>16, <1>17, <1>18 DEF AnfsNext

(* A cache without a key (LruCache::remove). *)
LEMMA LruDropped ==
  ASSUME NEW c, LruInv(c), NEW k
  PROVE  /\ LruInv(Dropped(c, k))
         /\ DOMAIN Dropped(c, k).value = DOMAIN c.value \ {k}
         /\ \A p \in DOMAIN c.value \ {k} : Dropped(c, k).value[p] = c.value[p]
         /\ Len(Dropped(c, k).order) = IF k \in DOMAIN c.value THEN Len(c.order) - 1 ELSE Len(c.order)
<1> DEFINE d == Dropped(c, k)
           o == RemoveFirst(c.order, k)
<1>1. c.order \in Seq(CachePaths) /\ IsInjective(c.order) /\ ToSet(c.order) = DOMAIN c.value
  BY DEF LruInv, OrderLists
<1>2. /\ d = [order |-> o, value |-> [x \in DOMAIN c.value \ {k} |-> c.value[x]]]
      /\ d.order = o /\ d.value = [x \in DOMAIN c.value \ {k} |-> c.value[x]]
  BY DEF Dropped, Without
<1>3. DOMAIN d.value = DOMAIN c.value \ {k} /\ \A p \in DOMAIN c.value \ {k} : d.value[p] = c.value[p]
  BY <1>2
<1>4. /\ o \in Seq(CachePaths) /\ IsInjective(o) /\ ToSet(o) = DOMAIN c.value \ {k}
      /\ Len(o) = IF k \in DOMAIN c.value THEN Len(c.order) - 1 ELSE Len(c.order)
  <2>1. CASE k \in DOMAIN c.value
    <3>1. k \in ToSet(c.order)
      BY <1>1, <2>1
    <3> QED
      BY <1>1, <2>1, <3>1, ListWithout
  <2>2. CASE k \notin DOMAIN c.value
    <3>1. ~ \E i \in 1..Len(c.order) : c.order[i] = k
      BY <1>1, <2>2 DEF ToSet
    <3>2. o = c.order
      BY <3>1 DEF RemoveFirst
    <3> QED
      BY <1>1, <2>2, <3>2
  <2> QED
    BY <2>1, <2>2
<1> HIDE DEF o
<1>5. Cardinality(DOMAIN d.value) = Len(o)
  BY <1>3, <1>4, ListedOnce
<1>6. d = [order |-> d.order, value |-> [p \in DOMAIN d.value |-> d.value[p]]]
  BY <1>2
<1> HIDE DEF d
<1>7. LruInv(d)
  BY <1>2, <1>3, <1>4, <1>5, <1>6 DEF LruInv, OrderLists
<1> QED
  BY <1>2, <1>3, <1>4, <1>7 DEF d

(* A cache with a key put in; a full one gave up its oldest (LruCache::insert). *)
LEMMA LruInserted ==
  ASSUME NEW c, LruInv(c), NEW k \in CachePaths, NEW v, NEW capacity \in Nat \ {0},
         Cardinality(DOMAIN c.value) <= capacity
  PROVE  LET i == Insert(c, k, v, capacity)
             gone == IF Evicts(c, k, capacity) THEN {Head(c.order)} ELSE {} IN
         /\ LruInv(i) /\ Cardinality(DOMAIN i.value) <= capacity
         /\ gone \subseteq DOMAIN c.value \ {k}
         /\ DOMAIN i.value = (DOMAIN c.value \ gone) \cup {k}
         /\ \A p \in DOMAIN i.value : i.value[p] = IF p = k THEN v ELSE c.value[p]
<1> DEFINE i == Insert(c, k, v, capacity)
           gone == IF Evicts(c, k, capacity) THEN {Head(c.order)} ELSE {}
           room == IF Evicts(c, k, capacity) THEN Dropped(c, Head(c.order)) ELSE c
           o == IF k \in DOMAIN room.value THEN room.order ELSE Append(room.order, k)
           f == [x \in DOMAIN room.value \cup {k} |-> IF x = k THEN v ELSE room.value[x]]
<1>1. /\ c.order \in Seq(CachePaths) /\ ToSet(c.order) = DOMAIN c.value
      /\ Len(c.order) = Cardinality(DOMAIN c.value) /\ Len(c.order) \in Nat
  BY DEF LruInv, OrderLists
<1>2. /\ LruInv(room) /\ DOMAIN room.value = DOMAIN c.value \ gone /\ gone \subseteq DOMAIN c.value \ {k}
      /\ \A p \in DOMAIN room.value : room.value[p] = c.value[p]
      /\ k \notin DOMAIN room.value => Len(room.order) < capacity
      /\ Len(room.order) <= capacity
  <2>1. CASE Evicts(c, k, capacity)
    <3>1. k \notin DOMAIN c.value /\ Cardinality(DOMAIN c.value) >= capacity
      BY <2>1 DEF Evicts, Has
    <3>2. Head(c.order) \in DOMAIN c.value
      <4>1. c.order # <<>> /\ Head(c.order) = c.order[1] /\ 1 \in DOMAIN c.order
        BY <1>1, <3>1
      <4> QED
        BY <1>1, <4>1 DEF ToSet
    <3>3. room = Dropped(c, Head(c.order)) /\ gone = {Head(c.order)}
      BY <2>1
    <3> HIDE DEF room, gone
    <3>4. /\ LruInv(room) /\ DOMAIN room.value = DOMAIN c.value \ {Head(c.order)}
          /\ \A p \in DOMAIN c.value \ {Head(c.order)} : room.value[p] = c.value[p]
          /\ Len(room.order) = Len(c.order) - 1
      BY <3>2, <3>3, LruDropped
    <3> QED
      BY <1>1, <3>1, <3>2, <3>3, <3>4
  <2>2. CASE ~Evicts(c, k, capacity)
    <3>1. k \in DOMAIN c.value \/ ~(Cardinality(DOMAIN c.value) >= capacity)
      BY <2>2 DEF Evicts, Has
    <3>2. room = c /\ gone = {}
      BY <2>2
    <3> HIDE DEF room, gone
    <3> QED
      BY <1>1, <3>1, <3>2
  <2> QED
    BY <2>1, <2>2
<1>3. i = [order |-> o, value |-> f]
  BY DEF Insert, Has, LruRemove
<1> HIDE DEF room
<1>4. i.order = o /\ i.value = f /\ i = [order |-> i.order, value |-> [p \in DOMAIN i.value |-> i.value[p]]]
  <2>1. f = [p \in DOMAIN f |-> f[p]]
    OBVIOUS
  <2> HIDE DEF i, o, f
  <2>2. i.order = o /\ i.value = f
    BY <1>3
  <2> QED
    BY <1>3, <2>1, <2>2
<1>5. /\ room.order \in Seq(CachePaths) /\ IsInjective(room.order) /\ ToSet(room.order) = DOMAIN room.value
      /\ Len(room.order) \in Nat
  BY <1>2 DEF LruInv, OrderLists
<1>6. o \in Seq(CachePaths) /\ IsInjective(o) /\ ToSet(o) = DOMAIN room.value \cup {k} /\ Len(o) <= capacity
  <2>1. CASE k \in DOMAIN room.value
    BY <1>2, <1>5, <2>1
  <2>2. CASE k \notin DOMAIN room.value
    <3>1. k \in CachePaths \ ToSet(room.order)
      BY <1>5, <2>2
    <3>2. /\ Append(room.order, k) \in Seq(CachePaths) /\ IsInjective(Append(room.order, k))
          /\ Len(Append(room.order, k)) = Len(room.order) + 1
          /\ ToSet(Append(room.order, k)) = ToSet(room.order) \cup {k}
      BY <1>5, <3>1, ListAppend
    <3>3. o = Append(room.order, k)
      BY <2>2
    <3> HIDE DEF o
    <3>4. Len(o) <= capacity
      BY <1>2, <1>5, <2>2, <3>2, <3>3
    <3> QED
      BY <1>5, <3>2, <3>3, <3>4
  <2> QED
    BY <2>1, <2>2
<1>7. DOMAIN f = DOMAIN room.value \cup {k} /\ \A p \in DOMAIN f : f[p] = IF p = k THEN v ELSE c.value[p]
  BY <1>2
<1> HIDE DEF o, f, i, gone
<1>8. Cardinality(DOMAIN f) = Len(o)
  BY <1>6, <1>7, ListedOnce
<1>9. LruInv(i)
  BY <1>4, <1>6, <1>7, <1>8 DEF LruInv, OrderLists
<1> QED
  BY <1>2, <1>4, <1>6, <1>7, <1>8, <1>9 DEF i, gone

(* The lengths held, before and after an entry comes and at most one goes.  *)
Exchanged(D, w, gone, goneBytes, k, kept, n, u) ==
  SumFunctionOnSet(u, (D \ gone) \cup {k}) + (kept + goneBytes) = SumFunctionOnSet(w, D) + n
LEMMA SumReplaced ==
  ASSUME NEW D, IsFiniteSet(D), NEW w, \A x \in D : w[x] \in Nat,
         NEW gone \in SUBSET D, \A x, y \in gone : x = y,
         NEW k, k \notin gone, NEW n \in Nat,
         NEW u, \A x \in (D \ gone) \cup {k} : u[x] = IF x = k THEN n ELSE w[x],
         NEW kept, kept = IF k \in D THEN w[k] ELSE 0,
         NEW goneBytes, gone = {} => goneBytes = 0, \A x \in gone : goneBytes = w[x]
  PROVE  Exchanged(D, w, gone, goneBytes, k, kept, n, u)
<1> DEFINE H == D \ gone
           H0 == H \ {k}
           T == H \cup {k}
           g == CHOOSE x \in gone : TRUE
<1>1. IsFiniteSet(H) /\ IsFiniteSet(H0) /\ IsFiniteSet(T)
  <2>1. H \subseteq D /\ H0 \subseteq D
    OBVIOUS
  <2>2. IsFiniteSet(H) /\ IsFiniteSet(H0)
    BY <2>1, FS_Subset
  <2> HIDE DEF H, H0
  <2>3. IsFiniteSet(T)
    BY <2>2, FS_AddElement
  <2> QED
    BY <2>2, <2>3
<1>2. SumFunctionOnSet(w, D) = SumFunctionOnSet(w, H) + goneBytes /\ goneBytes \in Nat
  <2>1. CASE gone = {}
    <3>1. H = D /\ goneBytes = 0
      BY <2>1
    <3>2. SumFunctionOnSet(w, D) \in Nat
      BY SumLaws
    <3> HIDE DEF H
    <3> QED
      BY <3>1, <3>2
  <2>2. CASE gone # {}
    <3>1. g \in D /\ gone = {g} /\ goneBytes = w[g]
      BY <2>2
    <3>2. H = D \ {g}
      BY <3>1
    <3> HIDE DEF H, g
    <3>3. SumFunctionOnSet(w, D) = SumFunctionOnSet(w, D \ {g}) + w[g]
      BY <3>1, SumLaws
    <3> QED
      BY <3>1, <3>2, <3>3
  <2> QED
    BY <2>1, <2>2
<1>3. SumFunctionOnSet(w, H) = SumFunctionOnSet(w, H0) + kept /\ kept \in Nat /\ SumFunctionOnSet(w, H0) \in Nat
  <2>1. \A x \in H : w[x] \in Nat
    OBVIOUS
  <2>2. \A x \in H0 : w[x] \in Nat
    OBVIOUS
  <2>3. SumFunctionOnSet(w, H0) \in Nat
    <3> HIDE DEF H0
    <3> QED
      BY <1>1, <2>2, SumLaws
  <2>4. CASE k \in D
    <3>1. k \in H /\ kept = w[k] /\ kept \in Nat
      BY <2>4
    <3> HIDE DEF H
    <3>2. SumFunctionOnSet(w, H) = SumFunctionOnSet(w, H \ {k}) + w[k]
      BY <1>1, <2>1, <3>1, SumLaws
    <3> QED
      BY <2>3, <3>1, <3>2
  <2>5. CASE k \notin D
    <3>1. H0 = H /\ kept = 0
      BY <2>5
    <3> HIDE DEF H, H0
    <3> QED
      BY <2>3, <3>1
  <2> QED
    BY <2>4, <2>5
<1>4. SumFunctionOnSet(u, T) = SumFunctionOnSet(u, H0) + n
  <2>1. \A x \in T : u[x] \in Nat
    OBVIOUS
  <2>2. k \in T /\ T \ {k} = H0 /\ u[k] = n
    OBVIOUS
  <2> HIDE DEF T, H0
  <2>3. SumFunctionOnSet(u, T) = SumFunctionOnSet(u, T \ {k}) + u[k]
    BY <1>1, <2>1, <2>2, SumLaws
  <2> QED
    BY <2>2, <2>3
<1>5. SumFunctionOnSet(u, H0) = SumFunctionOnSet(w, H0)
  <2>1. \A x \in H0 : u[x] \in Nat /\ u[x] = w[x]
    OBVIOUS
  <2> HIDE DEF H0
  <2> QED
    BY <1>1, <2>1, SumSame
<1>6. SumFunctionOnSet(u, T) + (kept + goneBytes) = SumFunctionOnSet(w, D) + n
  <2> HIDE DEF H, H0, T
  <2> QED
    BY <1>2, <1>3, <1>4, <1>5
<1> QED
  BY <1>6 DEF Exchanged

(* The keys of a cache are finitely many: its order lists them. *)
LEMMA HeldFinite ==
  ASSUME NEW c, LruInv(c)
  PROVE  IsFiniteSet(DOMAIN c.value)
<1>1. c.order \in Seq(CachePaths) /\ ToSet(c.order) = DOMAIN c.value
  BY DEF LruInv, OrderLists
<1>2. DOMAIN c.order = 1..Len(c.order) /\ Len(c.order) \in Nat /\ c.order \in [1..Len(c.order) -> DOMAIN c.value]
  BY <1>1 DEF ToSet
<1>3. c.order \in Surjection(1..Len(c.order), DOMAIN c.value)
  BY <1>1, <1>2 DEF ToSet, Surjection
<1>4. IsFiniteSet(1..Len(c.order))
  BY <1>2, FS_Interval
<1> QED
  BY <1>3, <1>4, FS_Surjection

LEMMA CachesInitial ==
  ASSUME AnfsInit
  PROVE  CachesInv
<1>1. /\ EmptyCache.order = <<>> /\ EmptyCache.value = <<>>
      /\ DOMAIN EmptyCache.value = {} /\ EmptyCache.value = [p \in {} |-> EmptyCache.value[p]]
  BY DEF EmptyCache
<1>2. LruInv(EmptyCache) /\ Cardinality(DOMAIN EmptyCache.value) = 0
  <2>1. Cardinality({}) = 0
    BY FS_EmptySet
  <2>2. ToSet(<<>>) = {} /\ IsInjective(<<>>)
    BY DEF ToSet, IsInjective
  <2>3. EmptyCache = [order |-> EmptyCache.order, value |-> [p \in DOMAIN EmptyCache.value |-> EmptyCache.value[p]]]
    BY <1>1 DEF EmptyCache
  <2> QED
    BY <1>1, <2>1, <2>2, <2>3 DEF LruInv, OrderLists
<1>3. dataCache = EmptyCache /\ metaCache = EmptyCache /\ cacheBytes = 0 /\ inserts = 0
  BY DEF AnfsInit
<1>4. SumFunction(HeldBytes) = 0
  <2>1. DOMAIN HeldBytes = {}
    BY <1>1, <1>3 DEF HeldBytes
  <2>2. SumFunctionOnSet(HeldBytes, {}) = 0
    BY FS_EmptySet, SumLaws
  <2> QED
    BY <2>1, <2>2 DEF SumFunction
<1>5. 0 \in 0..MaxInserts /\ 0 <= DataCapacity /\ 0 <= MetaCapacity
  BY AnfsAssumption
<1>6. CacheCounted
  BY <1>2, <1>3, <1>4, <1>5 DEF CacheCounted, LruInv
<1> QED
  BY <1>1, <1>2, <1>3, <1>5, <1>6 DEF CachesInv

(* insert adds what comes and gives back nothing. *)
LEMMA InsertKeepsCount ==
  ASSUME CachesInv, NEW p \in CachePaths, NEW len \in Lengths, CacheInsert(p, len)
  PROVE  CachesInv'
<1>1. /\ LruInv(dataCache) /\ LruInv(metaCache) /\ cacheBytes \in Nat /\ inserts \in 0..MaxInserts
      /\ \A x \in DOMAIN dataCache.value : dataCache.value[x] \in [len : Nat, dirty : BOOLEAN]
      /\ \A x \in DOMAIN metaCache.value : metaCache.value[x] \in Nat
      /\ Cardinality(DOMAIN dataCache.value) <= DataCapacity /\ Cardinality(DOMAIN metaCache.value) <= MetaCapacity
      /\ cacheBytes >= SumFunction(HeldBytes)
  BY DEF CachesInv, CacheCounted
<1>2. DataCapacity \in Nat \ {0} /\ MetaCapacity \in Nat \ {0} /\ len \in Nat /\ MaxInserts \in Nat
  BY AnfsAssumption
<1> DEFINE entry == [len |-> len, dirty |-> FALSE]
           D == DOMAIN dataCache.value
           gone == IF Evicts(dataCache, p, DataCapacity) THEN {Head(dataCache.order)} ELSE {}
           kept == IF p \in D THEN HeldBytes[p] ELSE 0
           oldBytes == IF Evicts(dataCache, p, DataCapacity) THEN HeldBytes[Head(dataCache.order)] ELSE 0
<1>3. /\ inserts < MaxInserts /\ inserts' = inserts + 1
      /\ cacheBytes' = cacheBytes + len
      /\ dataCache' = Insert(dataCache, p, entry, DataCapacity)
      /\ metaCache' = Insert(metaCache, p, len, MetaCapacity)
  BY DEF CacheInsert
<1>4. /\ LruInv(dataCache') /\ Cardinality(DOMAIN dataCache'.value) <= DataCapacity
      /\ gone \subseteq D \ {p} /\ DOMAIN dataCache'.value = (D \ gone) \cup {p}
      /\ \A x \in DOMAIN dataCache'.value : dataCache'.value[x] = IF x = p THEN entry ELSE dataCache.value[x]
  <2> HIDE DEF entry
  <2> QED
    BY <1>1, <1>2, <1>3, LruInserted
<1>5. /\ LruInv(metaCache') /\ Cardinality(DOMAIN metaCache'.value) <= MetaCapacity
      /\ \A x \in DOMAIN metaCache'.value : metaCache'.value[x] \in Nat
  <2> DEFINE evictedKeys == IF Evicts(metaCache, p, MetaCapacity) THEN {Head(metaCache.order)} ELSE {}
  <2>1. /\ LruInv(metaCache') /\ Cardinality(DOMAIN metaCache'.value) <= MetaCapacity
        /\ DOMAIN metaCache'.value = (DOMAIN metaCache.value \ evictedKeys) \cup {p}
        /\ \A x \in DOMAIN metaCache'.value : metaCache'.value[x] = IF x = p THEN len ELSE metaCache.value[x]
    BY <1>1, <1>2, <1>3, LruInserted
  <2> QED
    BY <1>1, <1>2, <2>1
<1>6. \A x \in DOMAIN dataCache'.value : dataCache'.value[x] \in [len : Nat, dirty : BOOLEAN]
  <2>1. entry \in [len : Nat, dirty : BOOLEAN]
    BY <1>2
  <2> HIDE DEF entry, gone
  <2> QED
    BY <1>1, <1>4, <2>1
<1>7. \A x \in D : HeldBytes[x] = dataCache.value[x].len /\ HeldBytes[x] \in Nat
  BY <1>1 DEF HeldBytes
<1>8. \A x \in (D \ gone) \cup {p} : HeldBytes'[x] = IF x = p THEN len ELSE HeldBytes[x]
  <2>1. HeldBytes' = [x \in DOMAIN dataCache'.value |-> dataCache'.value[x].len]
    BY DEF HeldBytes
  <2> HIDE DEF gone
  <2> QED
    BY <1>4, <1>7, <2>1
<1>9. IsFiniteSet(D)
  BY <1>1, HeldFinite
<1>10. SumFunctionOnSet(HeldBytes', (D \ gone) \cup {p}) + (kept + oldBytes) = SumFunctionOnSet(HeldBytes, D) + len
  <2> DEFINE w == HeldBytes
             u == HeldBytes'
  <2>1. \A x, y \in gone : x = y
    OBVIOUS
  <2>2. p \notin gone
    BY <1>4
  <2>9. gone \in SUBSET D
    BY <1>4
  <2>10. len \in Nat
    BY <1>2
  <2>3. \A x \in D : w[x] \in Nat
    BY <1>7
  <2>4. \A x \in (D \ gone) \cup {p} : u[x] = IF x = p THEN len ELSE w[x]
    BY <1>8
  <2>6. kept = IF p \in D THEN w[p] ELSE 0
    OBVIOUS
  <2>7. gone = {} => oldBytes = 0
    OBVIOUS
  <2>8. \A x \in gone : oldBytes = w[x]
    OBVIOUS
  <2> HIDE DEF D, gone, w, u, kept, oldBytes
  <2>5. Exchanged(D, w, gone, oldBytes, p, kept, len, u)
    BY <1>9, <2>1, <2>2, <2>3, <2>4, <2>6, <2>7, <2>8, <2>9, <2>10, SumReplaced
  <2> QED
    BY <2>5 DEF w, u, Exchanged
<1>11. kept \in Nat /\ oldBytes \in Nat
  <2>1. kept \in Nat
    BY <1>7
  <2>2. CASE Evicts(dataCache, p, DataCapacity)
    <3>1. Head(dataCache.order) \in D
      BY <1>4, <2>2
    <3> QED
      BY <1>7, <2>1, <2>2, <3>1
  <2>3. CASE ~Evicts(dataCache, p, DataCapacity)
    BY <2>1, <2>3
  <2> QED
    BY <2>2, <2>3
<1>12. SumFunction(HeldBytes)' = SumFunctionOnSet(HeldBytes', (D \ gone) \cup {p})
       /\ SumFunction(HeldBytes) = SumFunctionOnSet(HeldBytes, D)
  <2>1. DOMAIN HeldBytes' = DOMAIN dataCache'.value /\ DOMAIN HeldBytes = D
    BY DEF HeldBytes
  <2> QED
    BY <1>4, <2>1 DEF SumFunction
<1>13. SumFunction(HeldBytes)' \in Nat /\ SumFunction(HeldBytes) \in Nat
  <2>1. IsFiniteSet(D)
    BY <1>9
  <2>2. IsFiniteSet((D \ gone) \cup {p})
    BY <1>4, HeldFinite
  <2>3. \A x \in (D \ gone) \cup {p} : HeldBytes'[x] \in Nat
    BY <1>2, <1>7, <1>8
  <2> HIDE DEF D, gone
  <2>4. SumFunctionOnSet(HeldBytes', (D \ gone) \cup {p}) \in Nat
    BY <2>2, <2>3, SumLaws
  <2>5. SumFunctionOnSet(HeldBytes, D) \in Nat
    BY <1>7, <2>1, SumLaws
  <2> QED
    BY <1>12, <2>4, <2>5
<1>14. cacheBytes' >= SumFunction(HeldBytes)'
  <2> HIDE DEF kept, oldBytes, D, gone
  <2> QED
    BY <1>1, <1>2, <1>3, <1>10, <1>11, <1>12, <1>13
<1>15. cacheBytes' \in Nat /\ inserts' \in 0..MaxInserts
  <2> HIDE DEF kept, oldBytes, D, gone
  <2> QED
    BY <1>1, <1>2, <1>3, <1>11
<1> HIDE DEF entry, D, gone, kept, oldBytes
<1>16. CacheCounted'
  BY <1>4, <1>5, <1>14 DEF CacheCounted, LruInv
<1> QED
  BY <1>4, <1>5, <1>6, <1>15, <1>16 DEF CachesInv

(* A cache whose entries change and whose keys do not. *)
LEMMA LruRewritten ==
  ASSUME NEW c, LruInv(c), NEW d, d.order = c.order, DOMAIN d.value = DOMAIN c.value,
         d = [order |-> d.order, value |-> [p \in DOMAIN d.value |-> d.value[p]]]
  PROVE  LruInv(d)
  BY DEF LruInv, OrderLists

LEMMA CachesStep ==
  ASSUME CachesInv, [AnfsNext]_anfsVars
  PROVE  CachesInv'
<1> DEFINE D == DOMAIN dataCache.value
<1>1. /\ LruInv(dataCache) /\ LruInv(metaCache) /\ cacheBytes \in Nat /\ inserts \in 0..MaxInserts
      /\ \A x \in D : dataCache.value[x] \in [len : Nat, dirty : BOOLEAN]
      /\ \A x \in DOMAIN metaCache.value : metaCache.value[x] \in Nat
      /\ Cardinality(D) <= DataCapacity /\ Cardinality(DOMAIN metaCache.value) <= MetaCapacity
      /\ cacheBytes >= SumFunction(HeldBytes)
      /\ DataCapacity \in Nat /\ MetaCapacity \in Nat
  BY AnfsAssumption DEF CachesInv, CacheCounted
<1>2. IsFiniteSet(D)
  BY <1>1, HeldFinite
<1>3. \A x \in D : HeldBytes[x] = dataCache.value[x].len /\ HeldBytes[x] \in Nat
  BY <1>1 DEF HeldBytes
<1>4. HeldBytes' = [x \in DOMAIN dataCache'.value |-> dataCache'.value[x].len] /\ DOMAIN HeldBytes = D
  BY DEF HeldBytes
<1>5. SumFunction(HeldBytes) = SumFunctionOnSet(HeldBytes, D) /\ SumFunction(HeldBytes) \in Nat
  <2>1. SumFunctionOnSet(HeldBytes, D) \in Nat
    BY <1>2, <1>3, SumLaws
  <2> QED
    BY <1>4, <2>1 DEF SumFunction
<1>6. ASSUME UNCHANGED <<metaCache, cacheBytes, inserts>>,
             LruInv(dataCache'), DOMAIN dataCache'.value = D,
             \A x \in D : /\ dataCache'.value[x] \in [len : Nat, dirty : BOOLEAN]
                          /\ dataCache'.value[x].len = dataCache.value[x].len
      PROVE  CachesInv'
  <2>1. \A x \in D : HeldBytes'[x] \in Nat /\ HeldBytes'[x] = HeldBytes[x]
    <3> HIDE DEF D
    <3> QED
      BY <1>3, <1>4, <1>6
  <2>2. SumFunctionOnSet(HeldBytes', D) = SumFunctionOnSet(HeldBytes, D)
    <3> DEFINE v == HeldBytes'
               w == HeldBytes
    <3>1. \A x \in D : v[x] \in Nat /\ v[x] = w[x]
      BY <2>1
    <3> HIDE DEF D, v, w
    <3>2. SumFunctionOnSet(v, D) = SumFunctionOnSet(w, D)
      BY <1>2, <3>1, SumSame
    <3> QED
      BY <3>2 DEF v, w
  <2>3. SumFunction(HeldBytes)' = SumFunction(HeldBytes)
    BY <1>4, <1>5, <1>6, <2>2 DEF SumFunction
  <2>4. cacheBytes' >= SumFunction(HeldBytes)'
    BY <1>1, <1>6, <2>3
  <2>5. CacheCounted'
    BY <1>1, <1>6, <2>4 DEF CacheCounted, LruInv
  <2> QED
    BY <1>1, <1>6, <2>5 DEF CachesInv
<1>7. ASSUME NEW p \in CachePaths, MarkDirty(p)
      PROVE  CachesInv'
  <2>1. p \in D /\ UNCHANGED <<metaCache, cacheBytes, inserts>>
        /\ dataCache' = [dataCache EXCEPT !.value[p].dirty = TRUE]
    BY <1>7 DEF MarkDirty, Has
  <2> DEFINE f == [dataCache.value EXCEPT ![p].dirty = TRUE]
  <2>2. dataCache = [order |-> dataCache.order, value |-> [x \in D |-> dataCache.value[x]]]
    BY <1>1 DEF LruInv
  <2>3. dataCache' = [order |-> dataCache.order, value |-> f]
    BY <2>1, <2>2
  <2>4. DOMAIN f = D /\ f = [x \in DOMAIN f |-> f[x]]
        /\ \A x \in D : f[x] = IF x = p THEN [dataCache.value[p] EXCEPT !.dirty = TRUE] ELSE dataCache.value[x]
    <3>1. dataCache.value = [x \in D |-> dataCache.value[x]]
      BY <2>2
    <3> QED
      BY <3>1
  <2>5. [dataCache.value[p] EXCEPT !.dirty = TRUE] \in [len : Nat, dirty : BOOLEAN]
        /\ [dataCache.value[p] EXCEPT !.dirty = TRUE].len = dataCache.value[p].len
    BY <1>1, <2>1
  <2> HIDE DEF f, D
  <2>6. dataCache'.order = dataCache.order /\ dataCache'.value = f
    BY <2>3
  <2>7. LruInv(dataCache')
    BY <1>1, <2>3, <2>4, <2>6, LruRewritten DEF D
  <2>8. \A x \in D : f[x] \in [len : Nat, dirty : BOOLEAN] /\ f[x].len = dataCache.value[x].len
    BY <1>1, <2>4, <2>5
  <2> QED
    BY <1>6, <2>1, <2>4, <2>6, <2>7, <2>8
<1>8. CASE FlushDirty
  <2> DEFINE f == [x \in D |-> [dataCache.value[x] EXCEPT !.dirty = FALSE]]
  <2>1. UNCHANGED <<metaCache, cacheBytes, inserts>>
        /\ dataCache' = [dataCache EXCEPT !.value = f]
    BY <1>8 DEF FlushDirty
  <2>2. dataCache = [order |-> dataCache.order, value |-> [x \in D |-> dataCache.value[x]]]
    BY <1>1 DEF LruInv
  <2>3. DOMAIN f = D /\ f = [x \in DOMAIN f |-> f[x]]
    OBVIOUS
  <2>4. \A x \in D : f[x] \in [len : Nat, dirty : BOOLEAN] /\ f[x].len = dataCache.value[x].len
    BY <1>1
  <2> HIDE DEF f, D
  <2>5. dataCache' = [order |-> dataCache.order, value |-> f]
    BY <2>1, <2>2
  <2>6. dataCache'.order = dataCache.order /\ dataCache'.value = f
    BY <2>5
  <2>7. LruInv(dataCache')
    BY <1>1, <2>3, <2>5, <2>6, LruRewritten DEF D
  <2> QED
    BY <1>6, <2>1, <2>3, <2>4, <2>6, <2>7
<1>9. ASSUME NEW p \in CachePaths, Invalidate(p)
      PROVE  CachesInv'
  <2> DEFINE len == IF Has(dataCache, p) THEN dataCache.value[p].len ELSE 0
             H == D \ {p}
  <2>1. /\ cacheBytes' = (IF cacheBytes > len THEN cacheBytes - len ELSE 0)
        /\ dataCache' = Dropped(dataCache, p) /\ metaCache' = Dropped(metaCache, p)
        /\ UNCHANGED inserts
    BY <1>9 DEF Invalidate, LruRemove
  <2>2. /\ LruInv(dataCache') /\ DOMAIN dataCache'.value = H
        /\ \A x \in H : dataCache'.value[x] = dataCache.value[x]
    BY <1>1, <2>1, LruDropped
  <2>3. /\ LruInv(metaCache') /\ DOMAIN metaCache'.value = DOMAIN metaCache.value \ {p}
        /\ \A x \in DOMAIN metaCache.value \ {p} : metaCache'.value[x] = metaCache.value[x]
    BY <1>1, <2>1, LruDropped
  <2>4. IsFiniteSet(H) /\ Cardinality(H) <= Cardinality(D) /\ Cardinality(H) \in Nat /\ Cardinality(D) \in Nat
    BY <1>2, FS_Subset, FS_CardinalityType
  <2>5. Cardinality(DOMAIN metaCache'.value) <= MetaCapacity
    <3> DEFINE M == DOMAIN metaCache.value
    <3>1. IsFiniteSet(M)
      BY <1>1, HeldFinite
    <3>2. IsFiniteSet(M \ {p}) /\ Cardinality(M \ {p}) <= Cardinality(M)
      BY <3>1, FS_Subset
    <3>3. Cardinality(M \ {p}) \in Nat /\ Cardinality(M) \in Nat
      BY <3>1, <3>2, FS_CardinalityType
    <3> QED
      BY <1>1, <2>3, <3>2, <3>3
  <2>6. \A x \in H : HeldBytes'[x] \in Nat /\ HeldBytes'[x] = HeldBytes[x]
    <3>1. \A x \in H : HeldBytes'[x] = dataCache'.value[x].len
      <4> HIDE DEF H, D
      <4> QED
        BY <1>4, <2>2
    <3> QED
      BY <1>3, <2>2, <3>1
  <2>7. SumFunctionOnSet(HeldBytes', H) = SumFunctionOnSet(HeldBytes, H)
    <3> DEFINE v == HeldBytes'
               w == HeldBytes
    <3>1. \A x \in H : v[x] \in Nat /\ v[x] = w[x]
      BY <2>6
    <3> HIDE DEF D, H, v, w
    <3>2. SumFunctionOnSet(v, H) = SumFunctionOnSet(w, H)
      BY <2>4, <3>1, SumSame
    <3> QED
      BY <3>2 DEF v, w
  <2>8. SumFunctionOnSet(HeldBytes, D) = SumFunctionOnSet(HeldBytes, H) + len /\ len \in Nat
        /\ SumFunctionOnSet(HeldBytes, H) \in Nat
    <3>1. \A x \in H : HeldBytes[x] \in Nat
      BY <1>3
    <3>2. SumFunctionOnSet(HeldBytes, H) \in Nat
      <4> HIDE DEF H
      <4> QED
        BY <2>4, <3>1, SumLaws
    <3>3. CASE p \in D
      <4>1. SumFunctionOnSet(HeldBytes, D) = SumFunctionOnSet(HeldBytes, D \ {p}) + HeldBytes[p]
        <5> HIDE DEF D
        <5> QED
          BY <1>2, <1>3, <3>3, SumLaws
      <4>2. len = HeldBytes[p] /\ HeldBytes[p] \in Nat
        BY <1>3, <3>3 DEF Has
      <4> QED
        BY <3>2, <4>1, <4>2
    <3>4. CASE p \notin D
      <4>1. H = D /\ len = 0
        BY <3>4 DEF Has
      <4> HIDE DEF H, D, len
      <4> QED
        BY <3>2, <4>1
    <3> QED
      BY <3>3, <3>4
  <2>9. SumFunction(HeldBytes)' = SumFunctionOnSet(HeldBytes', H)
    BY <1>4, <2>2 DEF SumFunction
  <2> HIDE DEF len, H, D
  <2>10. cacheBytes' >= SumFunction(HeldBytes)' /\ cacheBytes' \in Nat
    BY <1>1, <1>5, <2>1, <2>7, <2>8, <2>9
  <2>11. CacheCounted'
    BY <1>1, <2>2, <2>3, <2>4, <2>5, <2>10 DEF CacheCounted, LruInv
  <2>12. \A x \in H : dataCache'.value[x] \in [len : Nat, dirty : BOOLEAN]
    BY <1>1, <2>2 DEF H
  <2> QED
    BY <1>1, <2>1, <2>2, <2>3, <2>10, <2>11, <2>12 DEF CachesInv
<1>10. ASSUME UNCHANGED cacheVars
       PROVE  CachesInv'
  <2>1. UNCHANGED <<dataCache, metaCache, cacheBytes, inserts>>
    BY <1>10 DEF cacheVars
  <2>2. SumFunction(HeldBytes)' = SumFunction(HeldBytes)
    BY <2>1 DEF HeldBytes
  <2> QED
    BY <2>1, <2>2 DEF CachesInv, CacheCounted
<1>11. ASSUME NEW p \in CachePaths, NEW len \in Lengths, CacheInsert(p, len)
       PROVE  CachesInv'
  BY <1>11, InsertKeepsCount
<1>12. ASSUME \/ Grant(DefaultAgent, "anfs")
              \/ \E a \in Agents, p \in Restricted : CheckOnly(a, p)
              \/ Observe(".")
              \/ \E op \in Mutations : Mutate(op, ".")
              \/ Checkpoint
       PROVE  UNCHANGED cacheVars
  BY <1>12 DEF Grant, CheckOnly, Observe, Mutate, Checkpoint
<1>13. CASE UNCHANGED anfsVars
  BY <1>10, <1>13 DEF anfsVars, cacheVars
<1> QED
  BY <1>7, <1>8, <1>9, <1>10, <1>11, <1>12, <1>13 DEF AnfsNext

(***************************************************************************)
(* However the overlay's handlers, checkpoints and cache calls come, the   *)
(* audit ring is the last decisions, each journal entry follows a decision *)
(* to allow it, and current_bytes is never less than the bytes held; the   *)
(* last file deleted under a name in a second is kept unless a named rule  *)
(* removed it, and reads and relations are counted as the code counts them.*)
(***************************************************************************)
THEOREM FilesHold == Spec => []FilesSound
<1>1. Init => JournalInv /\ CachesInv /\ DeletesInv /\ GraphInv /\ ReadsInv
  BY AnfsInitial, CachesInitial, FilesInitial DEF Init
<1>2. JournalInv /\ [Next]_vars => JournalInv'
  BY JournalStep, OneDriven
<1>3. CachesInv /\ [Next]_vars => CachesInv'
  BY CachesStep, OneDriven
<1>4. DeletesInv /\ [Next]_vars => DeletesInv'
  BY DeletesStep, OneDriven
<1>5. GraphInv /\ [Next]_vars => GraphInv'
  BY GraphStep, OneDriven
<1>6. ReadsInv /\ [Next]_vars => ReadsInv'
  BY ReadsStep, OneDriven
<1>7. JournalInv /\ CachesInv /\ DeletesInv /\ GraphInv /\ ReadsInv => FilesSound
  BY DEF FilesSound, JournalInv, CachesInv, DeletesInv, GraphInv, ReadsInv
<1> QED
  BY <1>1, <1>2, <1>3, <1>4, <1>5, <1>6, <1>7, PTL DEF Spec

-------------------------------------------------------------------------------
(* The model runtime: the pool, the requests in flight, the window, the VMs. *)

LEMMA RuntimeInitial ==
  ASSUME RuntimeInit
  PROVE  PoolInv /\ CallsInv /\ WindowInv /\ TurnsInv
<1>1. ToSet(<<>>) = {} /\ IsInjective(<<>>)
  BY DEF ToSet, IsInjective
<1>6. Cardinality({}) = 0
  BY FS_EmptySet
<1>2. PoolInv
  <2>1. SizeOf(Loaded) = 0
    <3>1. SumFunctionOnSet(counted, {}) = 0
      BY FS_EmptySet, SumLaws
    <3> QED
      BY <1>1, <3>1 DEF RuntimeInit, SizeOf, Loaded
  <2>2. \A m \in Models : Holders(m) = {}
    BY DEF RuntimeInit, Holders
  <2>3. refs = [m \in Models |-> 0] /\ counted = [m \in Models |-> 0] /\ unreleased = [c \in Clients |-> {}] /\ usedBytes = 0 /\ resident = <<>>
    BY DEF RuntimeInit
  <2>4. Loaded = {} /\ CapacityBytes \in Nat
    BY <1>1, <2>3, ModelRuntimeAssumption DEF Loaded
  <2>5. PoolSound
    BY <1>6, <2>1, <2>2, <2>3, <2>4 DEF PoolSound
  <2>6. resident \in Seq(Models) /\ refs \in [Models -> Nat] /\ counted \in [Models -> Nat]
        /\ unreleased \in [Clients -> SUBSET Models]
    BY <2>3
  <2>7. \A m \in Models : refs[m] <= Cardinality(Holders(m))
    <3> TAKE m \in Models
    <3>1. Cardinality(Holders(m)) = 0
      BY <1>6, <2>2
    <3>2. refs[m] = 0
      BY <2>3
    <3> QED
      BY <3>1, <3>2
  <2>8. IsInjective(resident)
    BY <1>1, <2>3
  <2> QED
    BY <2>5, <2>6, <2>7, <2>8 DEF PoolInv
<1>3. CallsInv
  BY DEF RuntimeInit, CallsInv, InFlightKnown
<1>4. WindowInv
  BY ModelRuntimeAssumption DEF RuntimeInit, WindowInv, WindowSound
<1>5. TurnsInv
  <2>1. vmQueue = <<>> /\ vmState = [v \in Vms |-> "none"] /\ waited = [v \in Vms |-> 0]
    BY DEF RuntimeInit
  <2>2. {v \in Vms : vmState[v] # "none"} = {}
    BY <2>1
  <2>4. Len(vmQueue) = 0 /\ ToSet(vmQueue) = {}
    BY <1>1, <2>1
  <2>3. TurnsFair
    <3>1. Cardinality({v \in Vms : vmState[v] # "none"}) = 0
      BY <1>6, <2>2
    <3>2. \A i, j \in 1..Len(vmQueue) : FALSE
      BY <2>4
    <3> QED
      BY <2>2, <2>4, <3>1, <3>2 DEF TurnsFair
  <2> QED
    BY <1>1, <2>1, <2>3, ModelRuntimeAssumption DEF TurnsInv
<1> QED
  BY <1>2, <1>3, <1>4, <1>5

(* The bytes of sets of models. *)
LEMMA PoolSizes ==
  ASSUME NEW w \in [Models -> Nat], NEW T \in SUBSET Models
  PROVE  /\ IsFiniteSet(T) /\ SumFunctionOnSet(w, T) \in Nat
         /\ \A R \in SUBSET T : /\ SumFunctionOnSet(w, R) \in Nat
                               /\ SumFunctionOnSet(w, T) = SumFunctionOnSet(w, R) + SumFunctionOnSet(w, T \ R)
         /\ \A m \in T : SumFunctionOnSet(w, T) = SumFunctionOnSet(w, T \ {m}) + w[m]
<1>1. \A R \in SUBSET Models : IsFiniteSet(R) /\ \A m \in R : w[m] \in Nat
  BY ModelRuntimeAssumption, FS_Subset DEF Models
<1>2. \A R \in SUBSET Models : SumFunctionOnSet(w, R) \in Nat
  BY <1>1, SumLaws
<1>3. IsFiniteSet(T) /\ \A m \in T : w[m] \in Nat
  BY <1>1
<1>4. \A R \in SUBSET T : SumFunctionOnSet(w, T) = SumFunctionOnSet(w, R) + SumFunctionOnSet(w, T \ R)
  BY <1>3, SumSplit
<1>5. \A m \in T : SumFunctionOnSet(w, T) = SumFunctionOnSet(w, T \ {m}) + w[m]
  BY <1>3, SumLaws
<1> QED
  BY <1>2, <1>3, <1>4, <1>5

(* What evict_lru leaves: idle models went, the others keep their places.  *)
LEMMA EvictionWalk ==
  ASSUME PoolInv, NEW target \in Targets, EvictLru(target)
  PROVE  /\ resident' \in Seq(Models) /\ IsInjective(resident') /\ ToSet(resident') \subseteq Loaded
         /\ \A m \in Loaded \ ToSet(resident') : refs[m] = 0
         /\ usedBytes' = usedBytes - SizeOf(Loaded \ ToSet(resident'))
         /\ counted' = [m \in Models |-> IF m \in ToSet(resident') THEN counted[m] ELSE 0]
<1> DEFINE N == Len(resident)
           Goes(k, s) == IsIdle(resident[k]) /\ FreeBytes + SizeOf(Loaded \ ToSet(s)) < target
           Rec(f) == f = [k \in 0..N |-> IF k = 0 THEN resident
                                          ELSE IF Goes(k, f[k - 1]) THEN RemoveFirst(f[k - 1], resident[k]) ELSE f[k - 1]]
           left == CHOOSE f : Rec(f)
           Good(s) == /\ s \in Seq(Models) /\ IsInjective(s) /\ ToSet(s) \subseteq Loaded
                      /\ \A m \in Loaded \ ToSet(s) : refs[m] = 0
<1>1. resident \in Seq(Models) /\ IsInjective(resident) /\ N \in Nat /\ DOMAIN resident = 1..N
  BY DEF PoolInv
<1>2. /\ resident' = left[N] /\ usedBytes' = usedBytes - SizeOf(Loaded \ ToSet(left[N]))
      /\ counted' = [m \in Models |-> IF m \in ToSet(left[N]) THEN counted[m] ELSE 0]
  BY DEF EvictLru
<1>3. \E f : Rec(f)
  <2> DEFINE X == (0..N) \X Seq(Models)
             G == [x \in X |-> IF x[1] < N THEN <<x[1] + 1, IF Goes(x[1] + 1, x[2]) THEN RemoveFirst(x[2], resident[x[1] + 1]) ELSE x[2]>> ELSE x]
             x0 == <<0, resident>>
  <2>1. x0 \in X
    BY <1>1
  <2>2. G \in [X -> X]
    <3> SUFFICES ASSUME NEW x \in X PROVE G[x] \in X
      OBVIOUS
    <3>1. x[1] \in 0..N /\ x[2] \in Seq(Models)
      OBVIOUS
    <3>2. RemoveFirst(x[2], resident[x[1] + 1]) \in Seq(Models)
      <4> DEFINE s == x[2]
                 e == resident[x[1] + 1]
                 I == {i \in 1..Len(s) : s[i] = e}
      <4>1. CASE ~ \E i \in 1..Len(s) : s[i] = e
        BY <3>1, <4>1 DEF RemoveFirst
      <4>2. CASE \E i \in 1..Len(s) : s[i] = e
        <5>1. RemoveFirst(s, e) = RemoveAt(s, SelectInSeq(s, LAMBDA v : v = e))
          BY <4>2 DEF RemoveFirst
        <5>2. SelectInSeq(s, LAMBDA v : v = e) = IF I # {} THEN Min(I) ELSE 0
          BY DEF SelectInSeq
        <5>3. I # {} /\ I \in SUBSET Nat
          BY <4>2
        <5>4. PICK m \in I : \A k \in I : m <= k
          BY <5>3, LeastNatural
        <5>5. Min(I) \in I
          BY <5>4 DEF Min
        <5> HIDE DEF I, s, e
        <5>6. RemoveFirst(s, e) = RemoveAt(s, Min(I)) /\ Min(I) \in 1..Len(s) /\ s \in Seq(Models)
          BY <3>1, <5>1, <5>2, <5>3, <5>5 DEF I, s
        <5>7. RemoveAt(s, Min(I)) \in Seq(Models)
          BY <5>6, RemovedPlaces
        <5> QED
          BY <5>6, <5>7 DEF s, e
      <4> QED
        BY <4>1, <4>2
    <3> HIDE DEF Goes
    <3> QED
      BY <1>1, <3>1, <3>2
  <2> HIDE DEF G, X, x0
  <2>3. Iterated(X, x0, G, N)
    BY <1>1, <2>1, <2>2, IterationExists
  <2>4. PICK h \in [0..N -> X] : h[0] = x0 /\ \A i \in 1..N : h[i] = G[h[i - 1]]
    BY <2>3 DEF Iterated
  <2> DEFINE At == {k \in Nat : k <= N => h[k][1] = k}
  <2>5. At = Nat
    <3>1. 0 \in At
      BY <2>4 DEF x0
    <3>2. ASSUME NEW k \in At PROVE k + 1 \in At
      <4>1. SUFFICES ASSUME k + 1 <= N PROVE h[k + 1][1] = k + 1
        OBVIOUS
      <4>2. h[k] \in X /\ h[k][1] = k /\ h[k + 1] = G[h[k]] /\ k < N
        <5>1. k \in 0..N /\ k + 1 \in 1..N /\ (k + 1) - 1 = k
          BY <1>1, <4>1
        <5> QED
          BY <2>4, <4>1, <5>1
      <4> HIDE DEF Goes
      <4> QED
        BY <4>2 DEF G
    <3>3. At \in SUBSET Nat
      OBVIOUS
    <3> HIDE DEF At
    <3> QED
      BY <3>1, <3>2, <3>3, NatSetInduction
  <2> DEFINE f == [k \in 0..N |-> h[k][2]]
  <2>6. f[0] = resident
    BY <1>1, <2>4 DEF x0
  <2>7. ASSUME NEW k \in 1..N
        PROVE  f[k] = IF Goes(k, f[k - 1]) THEN RemoveFirst(f[k - 1], resident[k]) ELSE f[k - 1]
    <3>1. k - 1 \in 0..N /\ k - 1 \in Nat /\ k - 1 <= N /\ k - 1 < N /\ (k - 1) + 1 = k
      BY <1>1
    <3>2. h[k - 1] \in X /\ h[k - 1][1] = k - 1 /\ h[k] = G[h[k - 1]]
      <4>1. k - 1 \in At
        BY <2>5, <3>1
      <4> QED
        BY <2>4, <3>1, <4>1
    <3>3. h[k][2] = IF Goes(k, h[k - 1][2]) THEN RemoveFirst(h[k - 1][2], resident[k]) ELSE h[k - 1][2]
      <4> HIDE DEF Goes
      <4> QED
        BY <3>1, <3>2 DEF G
    <3>4. f[k] = h[k][2] /\ f[k - 1] = h[k - 1][2]
      BY <1>1, <3>1
    <3> QED
      BY <3>3, <3>4
  <2> HIDE DEF f
  <2>8. Rec(f)
    <3>1. f = [k \in 0..N |-> f[k]]
      BY DEF f
    <3> HIDE DEF Goes
    <3> QED
      BY <1>1, <2>6, <2>7, <3>1
  <2> QED
    BY <2>8
<1>4. Rec(left)
  <2> HIDE DEF Rec
  <2> QED
    BY <1>3
<1> HIDE DEF left
<1>5. left[0] = resident
  BY <1>1, <1>4
<1>6. ASSUME NEW k \in 1..N
      PROVE  left[k] = left[k - 1] \/ (left[k] = RemoveFirst(left[k - 1], resident[k]) /\ IsIdle(resident[k]))
  <2>1. Goes(k, left[k - 1]) => IsIdle(resident[k])
    OBVIOUS
  <2>2. k \in 0..N /\ k # 0
    BY <1>1
  <2> HIDE DEF Goes
  <2>3. left[k] = IF Goes(k, left[k - 1]) THEN RemoveFirst(left[k - 1], resident[k]) ELSE left[k - 1]
    BY <1>4, <2>2
  <2> QED
    BY <2>1, <2>3
<1> HIDE DEF Rec
<1>7. ASSUME NEW s, Good(s), NEW m, IsIdle(m)
      PROVE  Good(RemoveFirst(s, m))
  <2>1. CASE m \in ToSet(s)
    <3>1. s \in Seq(Models) /\ IsInjective(s)
      BY <1>7
    <3>2. /\ RemoveFirst(s, m) \in Seq(Models) /\ IsInjective(RemoveFirst(s, m))
          /\ ToSet(RemoveFirst(s, m)) = ToSet(s) \ {m}
      BY <2>1, <3>1, ListWithout
    <3> QED
      BY <1>7, <3>2 DEF IsIdle
  <2>2. CASE m \notin ToSet(s)
    <3>1. ~ \E i \in 1..Len(s) : s[i] = m
      BY <1>7, <2>2 DEF ToSet
    <3>2. RemoveFirst(s, m) = s
      BY <3>1 DEF RemoveFirst
    <3> QED
      BY <1>7, <3>2
  <2> QED
    BY <2>1, <2>2
<1> DEFINE Fine == {k \in Nat : k <= N => Good(left[k])}
<1>8. Fine = Nat
  <2>1. 0 \in Fine
    BY <1>1, <1>5 DEF Loaded
  <2>2. ASSUME NEW k \in Fine PROVE k + 1 \in Fine
    <3>1. SUFFICES ASSUME k + 1 <= N PROVE Good(left[k + 1])
      OBVIOUS
    <3>2. k + 1 \in 1..N /\ (k + 1) - 1 = k /\ Good(left[k])
      BY <1>1, <3>1
    <3> HIDE DEF Good, Fine
    <3>3. left[k + 1] = left[k] \/ (left[k + 1] = RemoveFirst(left[k], resident[k + 1]) /\ IsIdle(resident[k + 1]))
      BY <1>6, <3>2
    <3> QED
      BY <1>7, <3>2, <3>3
  <2>3. Fine \in SUBSET Nat
    OBVIOUS
  <2> HIDE DEF Fine
  <2> QED
    BY <2>1, <2>2, <2>3, NatSetInduction
<1>9. Good(left[N])
  <2>1. N \in Fine /\ N <= N
    BY <1>1, <1>8
  <2> HIDE DEF Good
  <2> QED
    BY <2>1
<1> QED
  BY <1>2, <1>9

LEMMA PoolStep ==
  ASSUME PoolInv, [RuntimeNext]_runtimeVars
  PROVE  PoolInv'
<1>1. /\ resident \in Seq(Models) /\ IsInjective(resident) /\ Loaded \in SUBSET Models
      /\ refs \in [Models -> Nat] /\ counted \in [Models -> Nat] /\ unreleased \in [Clients -> SUBSET Models]
      /\ \A m \in Models : refs[m] <= Cardinality(Holders(m))
  BY DEF PoolInv, Loaded, ToSet
<1>2. /\ usedBytes = SizeOf(Loaded) /\ usedBytes <= CapacityBytes
      /\ \A m \in Models \ overReleased :
           /\ m \in Loaded => refs[m] = Cardinality(Holders(m))
           /\ Holders(m) # {} => m \in Loaded
      /\ CapacityBytes \in Nat /\ \A m \in Models : ModelSizes[m] \subseteq Nat
  BY ModelRuntimeAssumption DEF PoolInv, PoolSound, Models
<1>3. \A m \in Models : /\ IsFiniteSet(Holders(m)) /\ Cardinality(Holders(m)) \in Nat
                        /\ Cardinality(Holders(m)) = 0 => Holders(m) = {}
  <2> TAKE m \in Models
  <2>1. IsFiniteSet(Clients) /\ Holders(m) \subseteq Clients
    BY ModelRuntimeAssumption DEF Holders
  <2>2. IsFiniteSet(Holders(m))
    BY <2>1, FS_Subset
  <2> QED
    BY <2>2, FS_CardinalityType, FS_EmptySet
<1>4. \A m \in Models : Holders(m) = {c \in Clients : m \in unreleased[c]} /\ Holders(m)' = {c \in Clients : m \in unreleased'[c]}
  BY DEF Holders
<1>5. ASSUME resident' \in Seq(Models), IsInjective(resident'), refs' \in [Models -> Nat],
             counted' \in [Models -> Nat], unreleased' \in [Clients -> SUBSET Models],
             \A m \in Models : refs'[m] <= Cardinality(Holders(m)'),
             usedBytes' = SumFunctionOnSet(counted', ToSet(resident')), usedBytes' <= CapacityBytes,
             \A m \in Models \ overReleased' :
               /\ m \in ToSet(resident') => refs'[m] = Cardinality(Holders(m)')
               /\ Holders(m)' # {} => m \in ToSet(resident')
      PROVE  PoolInv'
  <2>1. Len(resident') = Cardinality(ToSet(resident'))
    BY <1>5, ListedOnce
  <2>2. PoolSound'
    BY <1>5, <2>1 DEF PoolSound, Loaded, SizeOf
  <2> QED
    BY <1>5, <2>2 DEF PoolInv
<1>6. ASSUME NEW m \in Models, NEW bytes \in ModelSizes[m], Load(m, bytes)
      PROVE  PoolInv'
  <2>1. /\ m \notin ToSet(resident) /\ bytes <= FreeBytes /\ resident' = Append(resident, m)
        /\ refs' = [refs EXCEPT ![m] = 0] /\ usedBytes' = usedBytes + bytes
        /\ counted' = [counted EXCEPT ![m] = bytes] /\ UNCHANGED <<unreleased, overReleased>>
    BY <1>6 DEF Load, Loaded
  <2>2. resident' \in Seq(Models) /\ IsInjective(resident') /\ ToSet(resident') = Loaded \cup {m}
    BY <1>1, <2>1, ListAppend DEF Loaded
  <2>3. SizeOf(Loaded) \in Nat /\ ToSet(resident') \in SUBSET Models /\ m \notin Loaded
    BY <1>1, <2>1, <2>2, PoolSizes DEF Loaded, SizeOf
  <2>12. bytes \in Nat /\ counted' \in [Models -> Nat]
    BY <1>1, <1>2, <2>1
  <2>4. SumFunctionOnSet(counted', ToSet(resident')) = SizeOf(Loaded) + bytes
    <3> DEFINE S == ToSet(resident')
               w == counted'
    <3>1. S \ {m} = Loaded /\ m \in S
      BY <2>2, <2>3
    <3>2. w[m] = bytes /\ \A x \in S \ {m} : counted[x] = w[x]
      BY <1>1, <2>1, <2>3
    <3>3. IsFiniteSet(S) /\ \A x \in S : w[x] \in Nat
      BY <2>3, <2>12, PoolSizes
    <3> HIDE DEF S, w
    <3>4. SumFunctionOnSet(w, S) = SumFunctionOnSet(counted, S \ {m}) + w[m]
      BY <3>1, <3>2, <3>3, SumGrown
    <3> QED
      BY <3>1, <3>2, <3>4 DEF S, w, SizeOf
  <2>5. usedBytes' = SumFunctionOnSet(counted', ToSet(resident')) /\ usedBytes' <= CapacityBytes
    <3>1. FreeBytes = CapacityBytes - usedBytes
      BY <1>2, <2>3 DEF FreeBytes
    <3> QED
      BY <1>2, <2>1, <2>3, <2>4, <2>12, <3>1
  <2>6. \A x \in Models : Holders(x)' = Holders(x)
    BY <1>4, <2>1
  <2>7. m \notin overReleased => Cardinality(Holders(m)) = 0
    BY <1>2, <2>3, FS_EmptySet
  <2>8. \A x \in Models : refs'[x] = IF x = m THEN 0 ELSE refs[x]
    BY <1>1, <2>1
  <2>9. \A x \in Models : refs'[x] <= Cardinality(Holders(x)')
    <3> TAKE x \in Models
    <3>1. /\ refs[x] \in Nat /\ refs[x] <= Cardinality(Holders(x)) /\ Cardinality(Holders(x)) \in Nat
          /\ Cardinality(Holders(x)') = Cardinality(Holders(x))
      BY <1>1, <1>3, <2>6
    <3>2. refs'[x] = 0 \/ refs'[x] = refs[x]
      BY <2>8
    <3> QED
      BY ONLY <3>1, <3>2
  <2>10. ASSUME NEW x \in Models \ overReleased'
         PROVE  /\ x \in ToSet(resident') => refs'[x] = Cardinality(Holders(x)')
                /\ Holders(x)' # {} => x \in ToSet(resident')
    BY <1>2, <2>1, <2>2, <2>6, <2>7, <2>8
  <2>11. refs' \in [Models -> Nat] /\ unreleased' \in [Clients -> SUBSET Models]
    BY <1>1, <2>1
  <2> QED
    BY <1>5, <2>2, <2>5, <2>9, <2>10, <2>11, <2>12
<1>7. ASSUME NEW kept, kept = ToSet(resident'), kept \subseteq Loaded,
             resident' \in Seq(Models), IsInjective(resident'),
             \A m \in Loaded \ kept : refs[m] = 0,
             usedBytes' = usedBytes - SizeOf(Loaded \ kept),
             counted' \in [Models -> Nat], \A m \in kept : counted'[m] = counted[m],
             UNCHANGED <<refs, unreleased, overReleased>>
      PROVE  PoolInv'
  <2>1. /\ SizeOf(Loaded) \in Nat /\ SizeOf(kept) \in Nat /\ SizeOf(Loaded \ kept) \in Nat
        /\ SizeOf(Loaded) = SizeOf(kept) + SizeOf(Loaded \ kept)
    BY <1>1, <1>7, PoolSizes DEF SizeOf
  <2>6. SumFunctionOnSet(counted', kept) = SizeOf(kept) /\ counted' \in [Models -> Nat]
    <3> DEFINE w == counted'
    <3>1. w \in [Models -> Nat] /\ kept \in SUBSET Models /\ \A x \in kept : w[x] \in Nat /\ w[x] = counted[x]
      BY <1>1, <1>7
    <3> HIDE DEF w
    <3>2. IsFiniteSet(kept)
      BY <1>1, <3>1, PoolSizes
    <3>3. SumFunctionOnSet(w, kept) = SumFunctionOnSet(counted, kept)
      BY <3>1, <3>2, SumSame
    <3> QED
      BY <3>1, <3>3 DEF w, SizeOf
  <2>2. usedBytes' = SumFunctionOnSet(counted', kept) /\ usedBytes' <= CapacityBytes
    BY <1>2, <1>7, <2>1, <2>6
  <2>3. \A x \in Models : Holders(x)' = Holders(x)
    BY <1>4, <1>7
  <2>4. ASSUME NEW x \in Models \ overReleased'
        PROVE  /\ x \in kept => refs'[x] = Cardinality(Holders(x)')
               /\ Holders(x)' # {} => x \in kept
    <3>1. x \in kept => refs'[x] = Cardinality(Holders(x)')
      BY <1>2, <1>7, <2>3
    <3>2. ASSUME Holders(x) # {}, x \notin kept PROVE FALSE
      <4>1. x \in Loaded /\ refs[x] = 0 /\ refs[x] = Cardinality(Holders(x))
        BY <1>2, <1>7, <3>2
      <4> QED
        BY <1>3, <3>2, <4>1
    <3> QED
      BY <2>3, <3>1, <3>2
  <2>5. refs' \in [Models -> Nat] /\ unreleased' \in [Clients -> SUBSET Models]
        /\ \A x \in Models : refs'[x] <= Cardinality(Holders(x)')
    BY <1>1, <1>7, <2>3
  <2> QED
    BY <1>5, <1>7, <2>2, <2>4, <2>5, <2>6
<1>8. ASSUME NEW m \in Models, Unload(m)
      PROVE  PoolInv'
  <2>1. /\ m \in ToSet(resident) /\ refs[m] = 0 /\ resident' = RemoveFirst(resident, m)
        /\ usedBytes' = usedBytes - counted[m] /\ counted' = [counted EXCEPT ![m] = 0]
        /\ UNCHANGED <<refs, unreleased, overReleased>>
    BY <1>8 DEF Unload, IsIdle, Others, Loaded
  <2>2. resident' \in Seq(Models) /\ IsInjective(resident') /\ ToSet(resident') = Loaded \ {m}
    BY <1>1, <2>1, ListWithout DEF Loaded
  <2>3. SizeOf(Loaded \ ToSet(resident')) = counted[m]
    <3>1. Loaded \ ToSet(resident') = {m} /\ {m} \ {m} = {} /\ {m} \in SUBSET Models /\ {} \in SUBSET Models
      BY <2>1, <2>2 DEF Loaded
    <3>2. SumFunctionOnSet(counted, {m}) = SumFunctionOnSet(counted, {m} \ {m}) + counted[m]
      BY <1>1, <3>1, PoolSizes
    <3>3. SumFunctionOnSet(counted, {}) = 0
      BY FS_EmptySet, SumLaws
    <3>4. counted[m] \in Nat
      BY <1>1
    <3>5. SumFunctionOnSet(counted, Loaded \ ToSet(resident')) = SumFunctionOnSet(counted, {m})
      BY <3>1
    <3>6. SumFunctionOnSet(counted, {m} \ {m}) = 0
      BY <3>1, <3>3
    <3> QED
      BY <3>2, <3>4, <3>5, <3>6 DEF SizeOf
  <2>5. counted' \in [Models -> Nat] /\ \A x \in ToSet(resident') : counted'[x] = counted[x]
    BY <1>1, <2>1, <2>2
  <2>4. \A x \in Loaded \ ToSet(resident') : refs[x] = 0
    BY <2>1, <2>2
  <2> QED
    BY <1>7, <2>1, <2>2, <2>3, <2>4, <2>5
<1>9. ASSUME NEW b \in Targets, EvictLru(b)
      PROVE  PoolInv'
  <2>1. UNCHANGED <<refs, unreleased, overReleased>>
    BY <1>9 DEF EvictLru
  <2>2. counted' \in [Models -> Nat] /\ \A m \in ToSet(resident') : counted'[m] = counted[m]
    BY <1>1, <1>9, EvictionWalk
  <2> QED
    BY <1>7, <1>9, <2>1, <2>2, EvictionWalk
<1>10. ASSUME NEW c \in Clients, NEW m \in Models, Acquire(c, m)
       PROVE  PoolInv'
  <2>1. /\ m \in ToSet(resident) /\ m \notin unreleased[c] /\ refs' = [refs EXCEPT ![m] = @ + 1]
        /\ resident' = Append(RemoveFirst(resident, m), m)
        /\ unreleased' = [unreleased EXCEPT ![c] = @ \cup {m}]
        /\ UNCHANGED <<usedBytes, counted, overReleased>>
    BY <1>10 DEF Acquire, Others, Loaded
  <2>2. resident' \in Seq(Models) /\ IsInjective(resident') /\ ToSet(resident') = Loaded
    <3> DEFINE o == RemoveFirst(resident, m)
    <3>1. o \in Seq(Models) /\ IsInjective(o) /\ ToSet(o) = Loaded \ {m}
      BY <1>1, <2>1, ListWithout DEF Loaded
    <3>2. m \in Models \ ToSet(o)
      BY <3>1
    <3> HIDE DEF o
    <3>3. Append(o, m) \in Seq(Models) /\ IsInjective(Append(o, m)) /\ ToSet(Append(o, m)) = ToSet(o) \cup {m}
      BY <3>1, <3>2, ListAppend
    <3>4. resident' = Append(o, m) /\ (Loaded \ {m}) \cup {m} = Loaded
      BY <2>1 DEF o, Loaded
    <3> QED
      BY <3>1, <3>3, <3>4
  <2>3. unreleased' \in [Clients -> SUBSET Models] /\ refs' \in [Models -> Nat]
        /\ \A x \in Models : refs'[x] = IF x = m THEN refs[m] + 1 ELSE refs[x]
    BY <1>1, <2>1
  <2>4. Holders(m)' = Holders(m) \cup {c} /\ c \notin Holders(m) /\ \A x \in Models : x # m => Holders(x)' = Holders(x)
    BY <1>1, <1>4, <2>1
  <2>5. Cardinality(Holders(m)') = Cardinality(Holders(m)) + 1
    BY <1>3, <2>4, FS_AddElement
  <2>6. \A x \in Models : refs'[x] <= Cardinality(Holders(x)')
    <3> TAKE x \in Models
    <3>1. CASE x = m
      BY <1>1, <1>3, <2>3, <2>5, <3>1
    <3>2. CASE x # m
      BY <1>1, <2>3, <2>4, <3>2
    <3> QED
      BY <3>1, <3>2
  <2>7. ASSUME NEW x \in Models \ overReleased'
        PROVE  /\ x \in ToSet(resident') => refs'[x] = Cardinality(Holders(x)')
               /\ Holders(x)' # {} => x \in ToSet(resident')
    BY <1>1, <1>2, <2>1, <2>2, <2>3, <2>4, <2>5 DEF Loaded
  <2>8. usedBytes' = SumFunctionOnSet(counted', ToSet(resident')) /\ usedBytes' <= CapacityBytes
    BY <1>2, <2>1, <2>2 DEF SizeOf
  <2> QED
    BY <1>1, <1>5, <2>1, <2>2, <2>3, <2>6, <2>7, <2>8
<1>11. ASSUME NEW c \in Clients, NEW m \in Models, Release(c, m)
       PROVE  PoolInv'
  <2>1. /\ m \in Loaded /\ refs' = [refs EXCEPT ![m] = IF @ = 0 THEN 0 ELSE @ - 1]
        /\ unreleased' = [unreleased EXCEPT ![c] = @ \ {m}]
        /\ overReleased' = (IF m \in unreleased[c] THEN overReleased ELSE overReleased \cup {m})
        /\ UNCHANGED <<resident, usedBytes, counted>>
    BY <1>11 DEF Release
  <2>2. unreleased' \in [Clients -> SUBSET Models] /\ refs' \in [Models -> Nat]
        /\ \A x \in Models : refs'[x] = IF x # m THEN refs[x] ELSE IF refs[m] = 0 THEN 0 ELSE refs[m] - 1
    BY <1>1, <2>1
  <2>3. Holders(m)' = Holders(m) \ {c} /\ (c \in Holders(m) <=> m \in unreleased[c])
        /\ \A x \in Models : x # m => Holders(x)' = Holders(x)
    BY <1>1, <1>4, <2>1
  <2>4. Cardinality(Holders(m)') = IF m \in unreleased[c] THEN Cardinality(Holders(m)) - 1 ELSE Cardinality(Holders(m))
    <3>1. CASE m \in unreleased[c]
      BY <1>3, <2>3, <3>1, FS_RemoveElement
    <3>2. CASE m \notin unreleased[c]
      <4>1. Holders(m)' = Holders(m)
        BY <2>3, <3>2
      <4> QED
        BY <3>2, <4>1
    <3> QED
      BY <3>1, <3>2
  <2>5. m \in unreleased[c] => Cardinality(Holders(m)) >= 1
    BY <1>3, <2>3
  <2>6. \A x \in Models : refs'[x] <= Cardinality(Holders(x)')
    <3> TAKE x \in Models
    <3>1. CASE x = m
      <4>1. /\ refs[m] \in Nat /\ refs[m] <= Cardinality(Holders(m)) /\ Cardinality(Holders(m)) \in Nat
            /\ refs'[m] = IF refs[m] = 0 THEN 0 ELSE refs[m] - 1
        BY <1>1, <1>3, <2>2
      <4>2. refs'[m] <= Cardinality(Holders(m)')
        BY ONLY <2>4, <2>5, <4>1
      <4> QED
        BY <3>1, <4>2
    <3>2. CASE x # m
      BY <1>1, <2>2, <2>3, <3>2
    <3> QED
      BY <3>1, <3>2
  <2>7. ASSUME NEW x \in Models \ overReleased'
        PROVE  /\ x \in ToSet(resident') => refs'[x] = Cardinality(Holders(x)')
               /\ Holders(x)' # {} => x \in ToSet(resident')
    <3>1. x \notin overReleased /\ (x = m => m \in unreleased[c]) /\ ToSet(resident') = Loaded
      BY <2>1, <2>7 DEF Loaded
    <3>2. CASE x = m
      BY <1>1, <1>2, <1>3, <2>1, <2>2, <2>4, <2>5, <3>1, <3>2
    <3>3. CASE x # m
      BY <1>2, <2>2, <2>3, <3>1, <3>3
    <3> QED
      BY <3>2, <3>3
  <2>8. resident' \in Seq(Models) /\ IsInjective(resident') /\ usedBytes' = SumFunctionOnSet(counted', ToSet(resident')) /\ usedBytes' <= CapacityBytes
    BY <1>1, <1>2, <2>1 DEF Loaded, SizeOf
  <2> QED
    BY <1>1, <1>5, <2>1, <2>2, <2>6, <2>7, <2>8
<1>12. ASSUME UNCHANGED poolVars
       PROVE  PoolInv'
  <2>1. UNCHANGED <<resident, refs, usedBytes, counted, unreleased, overReleased>>
    BY <1>12 DEF poolVars
  <2> QED
    BY <2>1 DEF PoolInv, PoolSound, Loaded, SizeOf, Holders
<1>13. ASSUME RuntimeNext,
              ~ \E m \in Models : Unload(m) \/ \E bytes \in ModelSizes[m] : Load(m, bytes),
              ~ \E c \in Clients, m \in Models : Acquire(c, m) \/ Release(c, m),
              ~ \E b \in Targets : EvictLru(b)
       PROVE  UNCHANGED poolVars
  BY <1>13 DEF RuntimeNext, CallStarts, CallEnds, CallDropped, AppendTokens, ShiftTokens, ResetContext,
               Turn, Spawn, Kill, InvokeHostCall
<1>14. CASE UNCHANGED runtimeVars
  BY <1>12, <1>14 DEF runtimeVars, poolVars
<1> QED
  BY <1>6, <1>8, <1>9, <1>10, <1>11, <1>12, <1>13, <1>14

LEMMA CallsStep ==
  ASSUME CallsInv, [RuntimeNext]_runtimeVars
  PROVE  CallsInv'
<1>1. /\ calls \in [Completions -> {"new", "running", "ended", "dropped"}]
      /\ inFlight = {r \in Completions : calls[r] \in {"running", "dropped"}}
  BY DEF CallsInv, InFlightKnown
<1>2. ASSUME NEW r \in Completions, CallStarts(r) \/ CallEnds(r) \/ CallDropped(r)
      PROVE  CallsInv'
  BY <1>1, <1>2 DEF CallStarts, CallEnds, CallDropped, CallsInv, InFlightKnown
<1>3. ASSUME UNCHANGED callVars
      PROVE  CallsInv'
  BY <1>1, <1>3 DEF callVars, CallsInv, InFlightKnown
<1>4. ASSUME RuntimeNext, ~ \E r \in Completions : CallStarts(r) \/ CallEnds(r) \/ CallDropped(r)
      PROVE  UNCHANGED callVars
  BY <1>4 DEF RuntimeNext, Load, Unload, Acquire, Release, EvictLru, AppendTokens, ShiftTokens, ResetContext,
              Turn, Spawn, Kill, InvokeHostCall
<1>5. CASE UNCHANGED runtimeVars
  BY <1>3, <1>5 DEF runtimeVars, callVars
<1> QED
  BY <1>2, <1>3, <1>4, <1>5

LEMMA WindowStep ==
  ASSUME WindowInv, [RuntimeNext]_runtimeVars
  PROVE  WindowInv'
<1>1. /\ window \in Seq(Nat) /\ Len(window) \in Nat /\ head \in Nat /\ appended \in Nat /\ ContextTokens \in Nat
      /\ slotsUsed = Len(window) /\ Len(window) <= ContextTokens /\ head + slotsUsed = appended
      /\ \A i \in 1..Len(window) : window[i] = head + i
  BY ModelRuntimeAssumption DEF WindowInv, WindowSound
<1>2. ASSUME NEW k \in 1..ContextTokens, AppendTokens(k)
      PROVE  WindowInv'
  <2> DEFINE more == [i \in 1..k |-> appended + i]
  <2>1. /\ Len(window) + k <= ContextTokens /\ appended' = appended + k /\ slotsUsed' = Len(window) + k
        /\ window' = window \o more /\ head' = head
    BY <1>2 DEF AppendTokens, Fits
  <2>2. more \in Seq(Nat) /\ Len(more) = k /\ \A i \in 1..k : more[i] = appended + i
    BY <1>1
  <2> HIDE DEF more
  <2>5. window \in Seq(Nat) /\ more \in Seq(Nat) /\ Len(more) = k /\ window' = window \o more
    BY <1>1, <2>1, <2>2
  <2>3. /\ window' \in Seq(Nat) /\ Len(window') = Len(window) + k
        /\ \A i \in 1..Len(window) : window'[i] = window[i]
        /\ \A i \in 1..Len(more) : window'[Len(window) + i] = more[i]
    <3> DEFINE all == window \o more
    <3>1. /\ all \in Seq(Nat) /\ Len(all) = Len(window) + Len(more)
          /\ \A i \in 1..Len(window) : all[i] = window[i]
          /\ \A i \in 1..Len(more) : all[Len(window) + i] = more[i]
      <4>1. window \in Seq(Nat) /\ more \in Seq(Nat)
        BY <2>5
      <4> QED
        BY <4>1
    <3>2. window' = all /\ Len(more) = k
      BY <2>5
    <3> HIDE DEF all
    <3> QED
      BY <3>1, <3>2
  <2>6. appended = head + Len(window) /\ head' = head /\ head \in Nat /\ Len(window) \in Nat /\ k \in Nat
    BY <1>1, <2>1
  <2>4. ASSUME NEW i \in 1..Len(window') PROVE window'[i] = head' + i
    <3>1. CASE i <= Len(window)
      BY <1>1, <2>1, <2>3, <3>1
    <3>2. CASE i > Len(window)
      <4>1. i - Len(window) \in 1..k /\ Len(window) + (i - Len(window)) = i
        BY <1>1, <2>3, <3>2
      <4>2. window'[i] = appended + (i - Len(window))
        BY <2>2, <2>3, <4>1
      <4>3. i \in Int
        OBVIOUS
      <4> QED
        BY <2>6, <4>2, <4>3
    <3> QED
      BY <1>1, <2>3, <3>1, <3>2
  <2>7. head' \in Nat /\ appended' \in Nat /\ slotsUsed' = Len(window') /\ Len(window') <= ContextTokens
        /\ head' + slotsUsed' = appended'
    BY <1>1, <2>1, <2>3, <2>6
  <2> QED
    BY <2>3, <2>4, <2>7 DEF WindowInv, WindowSound
<1>3. ASSUME NEW n \in 1..ContextTokens + 1, ShiftTokens(n)
      PROVE  WindowInv'
  <2> DEFINE d == Min({n, Len(window)})
  <2>1. d \in 0..Len(window)
    <3>1. n \in Nat
      BY <1>1
    <3>2. d = IF n <= Len(window) THEN n ELSE Len(window)
      BY <1>1, <3>1, LesserOf
    <3> HIDE DEF d
    <3> QED
      BY <1>1, <3>1, <3>2
  <2>2. /\ window' = SubSeq(window, d + 1, Len(window)) /\ head' = head + d /\ slotsUsed' = Len(window) - d
        /\ appended' = appended
    BY <1>3 DEF ShiftTokens
  <2> HIDE DEF d
  <2>3. /\ window' \in Seq(Nat) /\ Len(window') = Len(window) - d
        /\ \A i \in 1..(Len(window) - d) : window'[i] = window[d + i]
    <3>1. /\ SubSeq(window, d + 1, Len(window)) \in Seq(Nat)
          /\ Len(SubSeq(window, d + 1, Len(window))) = Len(window) - d
          /\ \A i \in 1..(Len(window) - d) : SubSeq(window, d + 1, Len(window))[i] = window[d + i]
      BY <1>1, <2>1
    <3> QED
      BY <2>2, <3>1
  <2>4. ASSUME NEW i \in 1..Len(window') PROVE window'[i] = head' + i
    <3>1. d + i \in 1..Len(window) /\ window'[i] = window[d + i]
      BY <1>1, <2>1, <2>3
    <3> QED
      BY <1>1, <2>1, <2>2, <3>1
  <2>5. head' \in Nat /\ appended' \in Nat /\ slotsUsed' = Len(window') /\ Len(window') <= ContextTokens
        /\ head' + slotsUsed' = appended'
    <3>1. head \in Nat /\ appended = head + Len(window) /\ Len(window) \in Nat /\ Len(window) <= ContextTokens
      BY <1>1
    <3> QED
      BY <1>1, <2>1, <2>2, <2>3, <3>1
  <2> QED
    BY <2>3, <2>4, <2>5 DEF WindowInv, WindowSound
<1>4. CASE ResetContext
  <2>1. window' = <<>> /\ slotsUsed' = 0 /\ head' = 0 /\ appended' = 0
    BY <1>4 DEF ResetContext
  <2>2. window' \in Seq(Nat) /\ Len(window') = 0
    BY <2>1
  <2> QED
    BY <1>1, <2>1, <2>2 DEF WindowInv, WindowSound
<1>5. ASSUME UNCHANGED contextVars
      PROVE  WindowInv'
  <2>1. UNCHANGED <<window, slotsUsed, head, appended>>
    BY <1>5 DEF contextVars
  <2> QED
    BY <2>1 DEF WindowInv, WindowSound
<1>6. ASSUME RuntimeNext, ~ResetContext,
             ~ \E k \in 1..ContextTokens : AppendTokens(k), ~ \E n \in 1..ContextTokens + 1 : ShiftTokens(n)
      PROVE  UNCHANGED contextVars
  BY <1>6 DEF RuntimeNext, Load, Unload, Acquire, Release, EvictLru, CallStarts, CallEnds, CallDropped,
              Turn, Spawn, Kill, InvokeHostCall
<1>7. CASE UNCHANGED runtimeVars
  BY <1>5, <1>7 DEF runtimeVars, contextVars
<1> QED
  BY <1>2, <1>3, <1>4, <1>5, <1>6, <1>7

LEMMA TurnsStep ==
  ASSUME TurnsInv, [RuntimeNext]_runtimeVars
  PROVE  TurnsInv'
<1>1. /\ vmQueue \in Seq(Vms) /\ IsInjective(vmQueue) /\ Len(vmQueue) \in Nat /\ DOMAIN vmQueue = 1..Len(vmQueue)
      /\ vmState \in [Vms -> {"none", "halted", "running"}] /\ waited \in [Vms -> 0..MaxTurns] /\ MaxTurns \in Nat
      /\ ToSet(vmQueue) = {v \in Vms : vmState[v] # "none"}
      /\ \A i, j \in 1..Len(vmQueue) : i < j => waited[vmQueue[i]] >= waited[vmQueue[j]]
      /\ \A i \in 1..Len(vmQueue) : vmQueue[i] \in Vms
  <2>1. MaxTurns \in Nat
    BY ModelRuntimeAssumption
  <2>2. vmQueue \in Seq(Vms)
    BY DEF TurnsInv
  <2>3. Len(vmQueue) \in Nat /\ DOMAIN vmQueue = 1..Len(vmQueue) /\ \A i \in 1..Len(vmQueue) : vmQueue[i] \in Vms
    BY <2>2
  <2> QED
    BY <2>1, <2>3 DEF TurnsInv, TurnsFair
<1>2. ASSUME vmQueue' \in Seq(Vms), IsInjective(vmQueue'),
             vmState' \in [Vms -> {"none", "halted", "running"}], waited' \in [Vms -> 0..MaxTurns],
             ToSet(vmQueue') = {v \in Vms : vmState'[v] # "none"},
             \A i, j \in 1..Len(vmQueue') : i < j => waited'[vmQueue'[i]] >= waited'[vmQueue'[j]]
      PROVE  TurnsInv'
  <2>1. Len(vmQueue') = Cardinality(ToSet(vmQueue'))
    BY <1>2, ListedOnce
  <2>2. Len(vmQueue') = Cardinality({v \in Vms : vmState'[v] # "none"})
    BY <1>2, <2>1
  <2>3. TurnsFair'
    BY <1>2, <2>2 DEF TurnsFair
  <2> QED
    BY <1>2, <2>3 DEF TurnsInv
<1>3. ASSUME NEW v \in Vms, Spawn(v)
      PROVE  TurnsInv'
  <2>1. /\ vmState[v] = "none" /\ vmState' = [vmState EXCEPT ![v] = "halted"]
        /\ vmQueue' = Append(vmQueue, v) /\ waited' = [waited EXCEPT ![v] = 0]
    BY <1>3 DEF Spawn
  <2>2. v \in Vms \ ToSet(vmQueue)
    BY <1>1, <2>1
  <2>3. vmQueue' \in Seq(Vms) /\ IsInjective(vmQueue') /\ ToSet(vmQueue') = ToSet(vmQueue) \cup {v}
    BY <1>1, <2>1, <2>2, ListAppend
  <2>4. /\ Len(vmQueue') = Len(vmQueue) + 1 /\ vmQueue'[Len(vmQueue) + 1] = v
        /\ \A i \in 1..Len(vmQueue) : vmQueue'[i] = vmQueue[i] /\ vmQueue[i] # v
    <3>1. \A i \in 1..Len(vmQueue) : vmQueue[i] \in ToSet(vmQueue)
      BY <1>1 DEF ToSet
    <3>2. \A i \in 1..Len(vmQueue) : vmQueue[i] # v
      BY <2>2, <3>1
    <3>3. /\ Len(Append(vmQueue, v)) = Len(vmQueue) + 1 /\ Append(vmQueue, v)[Len(vmQueue) + 1] = v
          /\ \A i \in 1..Len(vmQueue) : Append(vmQueue, v)[i] = vmQueue[i]
      <4>1. vmQueue \in Seq(Vms)
        BY <1>1
      <4> QED
        BY <4>1
    <3> QED
      BY <2>1, <3>2, <3>3
  <2>5. \A u \in Vms : waited'[u] = (IF u = v THEN 0 ELSE waited[u]) /\ waited[u] \in Nat
    BY <1>1, <2>1
  <2>6. ASSUME NEW i \in 1..Len(vmQueue'), NEW j \in 1..Len(vmQueue'), i < j
        PROVE  waited'[vmQueue'[i]] >= waited'[vmQueue'[j]]
    <3>1. i \in 1..Len(vmQueue) /\ vmQueue'[i] = vmQueue[i] /\ waited'[vmQueue'[i]] = waited[vmQueue[i]]
          /\ waited[vmQueue[i]] \in Nat
      BY <1>1, <2>4, <2>5, <2>6
    <3>2. CASE j = Len(vmQueue) + 1
      <4>1. waited'[vmQueue'[j]] = 0
        BY <2>4, <2>5, <3>2
      <4> QED
        BY <3>1, <4>1
    <3>3. CASE j # Len(vmQueue) + 1
      <4>1. j \in 1..Len(vmQueue) /\ waited'[vmQueue'[j]] = waited[vmQueue[j]]
        BY <1>1, <2>4, <2>5, <3>3
      <4> QED
        BY <1>1, <2>6, <3>1, <4>1
    <3> QED
      BY <3>2, <3>3
  <2>7. ToSet(vmQueue') = {u \in Vms : vmState'[u] # "none"}
    BY <1>1, <2>1, <2>3
  <2>8. vmState' \in [Vms -> {"none", "halted", "running"}] /\ waited' \in [Vms -> 0..MaxTurns]
    BY <1>1, <2>1
  <2> QED
    BY <1>2, <2>3, <2>6, <2>7, <2>8
<1>4. ASSUME NEW v \in Vms, Kill(v)
      PROVE  TurnsInv'
  <2>1. /\ vmState[v] # "none" /\ vmState' = [vmState EXCEPT ![v] = "none"]
        /\ vmQueue' = RemoveFirst(vmQueue, v) /\ waited' = waited
    BY <1>4 DEF Kill
  <2>2. v \in ToSet(vmQueue)
    BY <1>1, <2>1
  <2>3. /\ vmQueue' \in Seq(Vms) /\ IsInjective(vmQueue') /\ ToSet(vmQueue') = ToSet(vmQueue) \ {v}
        /\ Len(vmQueue') = Len(vmQueue) - 1
    BY <1>1, <2>1, <2>2, ListWithout
  <2>4. PICK n \in 1..Len(vmQueue) : \A i \in 1..(Len(vmQueue) - 1) : vmQueue'[i] = vmQueue[IF i < n THEN i ELSE i + 1]
    <3>1. vmQueue \in Seq(Vms) /\ IsInjective(vmQueue)
      BY <1>1
    <3>2. \E n \in 1..Len(vmQueue) :
            \A i \in 1..(Len(vmQueue) - 1) : RemoveFirst(vmQueue, v)[i] = vmQueue[IF i < n THEN i ELSE i + 1]
      BY <2>2, <3>1, ListWithout, Zenon
    <3> QED
      BY <2>1, <3>2, Zenon
  <2>5. ASSUME NEW i \in 1..Len(vmQueue'), NEW j \in 1..Len(vmQueue'), i < j
        PROVE  waited'[vmQueue'[i]] >= waited'[vmQueue'[j]]
    <3> DEFINE p == IF i < n THEN i ELSE i + 1
               q == IF j < n THEN j ELSE j + 1
    <3>1. p \in 1..Len(vmQueue) /\ q \in 1..Len(vmQueue) /\ p < q
      <4> DEFINE l == Len(vmQueue)
      <4>1. l \in Nat /\ n \in 1..l /\ i \in 1..(l - 1) /\ j \in 1..(l - 1) /\ i < j
        BY <1>1, <2>3, <2>5
      <4> HIDE DEF l
      <4>2. p \in 1..l /\ q \in 1..l /\ p < q
        BY <4>1
      <4> QED
        BY <4>2 DEF l
    <3>2. vmQueue'[i] = vmQueue[p] /\ vmQueue'[j] = vmQueue[q]
      BY <2>3, <2>4
    <3> HIDE DEF p, q
    <3> QED
      BY <1>1, <2>1, <3>1, <3>2
  <2>6. ToSet(vmQueue') = {u \in Vms : vmState'[u] # "none"}
    BY <1>1, <2>1, <2>3
  <2>7. vmState' \in [Vms -> {"none", "halted", "running"}] /\ waited' \in [Vms -> 0..MaxTurns]
    BY <1>1, <2>1
  <2> QED
    BY <1>2, <2>3, <2>5, <2>6, <2>7
<1>5. CASE Turn
  <2> DEFINE h == Head(vmQueue)
  <2>1. /\ vmQueue # <<>> /\ vmQueue' = Append(Tail(vmQueue), h)
        /\ vmState' = [vmState EXCEPT ![h] = "halted"]
        /\ waited' = [v \in Vms |-> IF v = h \/ vmState[v] = "none" THEN 0 ELSE Min({waited[v] + 1, MaxTurns})]
    BY <1>5 DEF Turn, Rotated
  <2>2. /\ Tail(vmQueue) \in Seq(Vms) /\ IsInjective(Tail(vmQueue)) /\ Len(Tail(vmQueue)) = Len(vmQueue) - 1
        /\ ToSet(Tail(vmQueue)) = ToSet(vmQueue) \ {h} /\ h \in ToSet(vmQueue)
    BY <1>1, <2>1, ListTail
  <2>3. h \in Vms \ ToSet(Tail(vmQueue)) /\ vmState[h] # "none"
    BY <1>1, <2>2
  <2>4. /\ vmQueue' \in Seq(Vms) /\ IsInjective(vmQueue') /\ ToSet(vmQueue') = ToSet(vmQueue)
        /\ Len(vmQueue') = Len(vmQueue)
    <3> DEFINE t == Tail(vmQueue)
    <3>2. t \in Seq(Vms) /\ IsInjective(t) /\ h \in Vms \ ToSet(t) /\ vmQueue' = Append(t, h)
      BY <2>1, <2>2, <2>3
    <3>3. ToSet(t) \cup {h} = ToSet(vmQueue) /\ Len(t) + 1 = Len(vmQueue)
      BY <1>1, <2>2
    <3> HIDE DEF h, t
    <3>1. /\ Append(t, h) \in Seq(Vms) /\ IsInjective(Append(t, h))
          /\ ToSet(Append(t, h)) = ToSet(t) \cup {h}
          /\ Len(Append(t, h)) = Len(t) + 1
      BY <3>2, ListAppend
    <3> QED
      BY <3>1, <3>2, <3>3
  <2>5. \A i \in 1..(Len(vmQueue) - 1) : vmQueue'[i] = vmQueue[i + 1]
    BY <1>1, <2>1
  <2>6. vmQueue'[Len(vmQueue)] = h /\ Len(vmQueue) >= 1 /\ h = vmQueue[1]
    BY <1>1, <2>1
  <2>7. \A v \in Vms : /\ waited[v] \in 0..MaxTurns
                       /\ Min({waited[v] + 1, MaxTurns}) = IF waited[v] + 1 <= MaxTurns THEN waited[v] + 1 ELSE MaxTurns
    BY <1>1, LesserOf
  <2>8. \A v \in Vms : waited'[v] = IF v = h \/ vmState[v] = "none" THEN 0 ELSE Min({waited[v] + 1, MaxTurns})
    BY <2>1
  <2> HIDE DEF h
  <2>14. MaxTurns \in Nat /\ Len(vmQueue) \in Nat /\ Len(vmQueue') = Len(vmQueue)
    BY <1>1, <2>4
  <2>9. \A v \in Vms : waited'[v] \in 0..MaxTurns
    <3> TAKE v \in Vms
    <3>1. waited'[v] = 0 \/ waited'[v] = Min({waited[v] + 1, MaxTurns})
      BY <2>8
    <3>2. Min({waited[v] + 1, MaxTurns}) \in 0..MaxTurns
      BY <2>7, <2>14
    <3> QED
      BY <2>14, <3>1, <3>2
  <2>10. \A i \in 2..Len(vmQueue) : vmQueue[i] # h /\ vmState[vmQueue[i]] # "none"
    <3>1. \A i \in 2..Len(vmQueue) : vmQueue[i] \in ToSet(vmQueue)
      BY <1>1 DEF ToSet
    <3>2. \A i \in 2..Len(vmQueue) : vmQueue[i] # h
      BY <1>1, <2>6 DEF IsInjective
    <3> QED
      BY <1>1, <3>1, <3>2
  <2>11. ASSUME NEW i \in 1..Len(vmQueue'), NEW j \in 1..Len(vmQueue'), i < j
         PROVE  waited'[vmQueue'[i]] >= waited'[vmQueue'[j]]
    <3>1. i + 1 \in 2..Len(vmQueue) /\ i + 1 \in 1..Len(vmQueue) /\ i \in 1..(Len(vmQueue) - 1)
      BY <1>1, <2>4, <2>11
    <3> DEFINE u == vmQueue[i + 1]
    <3>2. vmQueue'[i] = u /\ u \in Vms /\ waited'[u] = Min({waited[u] + 1, MaxTurns})
      BY <1>1, <2>5, <2>8, <2>10, <3>1
    <3>3. CASE j = Len(vmQueue)
      <4>1. waited'[vmQueue'[j]] = 0
        BY <2>3, <2>6, <2>8, <3>3
      <4> HIDE DEF u
      <4> QED
        BY <1>1, <2>9, <3>2, <4>1
    <3>4. CASE j # Len(vmQueue)
      <4> DEFINE w == vmQueue[j + 1]
      <4>1. j + 1 \in 2..Len(vmQueue) /\ j + 1 \in 1..Len(vmQueue) /\ j \in 1..(Len(vmQueue) - 1) /\ i + 1 < j + 1
        BY <2>11, <2>14, <3>4
      <4>2. vmQueue'[j] = w /\ w \in Vms /\ waited'[w] = Min({waited[w] + 1, MaxTurns})
        BY <1>1, <2>5, <2>8, <2>10, <4>1
      <4>3. waited[u] >= waited[w]
        BY <1>1, <3>1, <4>1
      <4> HIDE DEF u, w
      <4> QED
        BY <1>1, <2>7, <3>2, <4>2, <4>3
    <3> QED
      BY <3>3, <3>4
  <2>12. vmState' \in [Vms -> {"none", "halted", "running"}] /\ waited' \in [Vms -> 0..MaxTurns]
    BY <1>1, <2>1, <2>3, <2>9
  <2>13. ToSet(vmQueue') = {v \in Vms : vmState'[v] # "none"}
    BY <1>1, <2>1, <2>3, <2>4
  <2> QED
    BY <1>2, <2>4, <2>11, <2>12, <2>13
<1>6. ASSUME NEW v \in Vms, InvokeHostCall(v)
      PROVE  TurnsInv'
  <2>1. vmState[v] # "none" /\ vmState' = [vmState EXCEPT ![v] = "running"] /\ UNCHANGED <<vmQueue, waited>>
    BY <1>6 DEF InvokeHostCall
  <2>2. ToSet(vmQueue') = {u \in Vms : vmState'[u] # "none"}
    BY <1>1, <2>1
  <2>3. vmState' \in [Vms -> {"none", "halted", "running"}]
    BY <1>1, <2>1
  <2> QED
    BY <1>1, <1>2, <2>1, <2>2, <2>3
<1>7. ASSUME UNCHANGED vmVars
      PROVE  TurnsInv'
  <2>1. UNCHANGED <<vmQueue, vmState, waited>>
    BY <1>7 DEF vmVars
  <2> QED
    BY <2>1 DEF TurnsInv, TurnsFair
<1>8. ASSUME RuntimeNext, ~Turn, ~ \E v \in Vms : Spawn(v) \/ Kill(v) \/ InvokeHostCall(v)
      PROVE  UNCHANGED vmVars
  BY <1>8 DEF RuntimeNext, Load, Unload, Acquire, Release, EvictLru, CallStarts, CallEnds, CallDropped,
              AppendTokens, ShiftTokens, ResetContext
<1>9. CASE UNCHANGED runtimeVars
  BY <1>7, <1>9 DEF runtimeVars, vmVars
<1> QED
  BY <1>3, <1>4, <1>5, <1>6, <1>7, <1>8, <1>9

-------------------------------------------------------------------------------
(* Packages and sandboxes. *)

(* More permissions never weigh for a package. *)
LEMMA PermissionsWeigh ==
  ASSUME NEW p \in SUBSET Sensitive, NEW x \in Sensitive
  PROVE  /\ PermissionPoints(p) \in Int /\ PermissionPoints(p) <= 0
         /\ {"camera", "microphone"} \subseteq p => PermissionPoints(p) <= -60
         /\ PermissionPoints(p \cup {x}) \in Int /\ PermissionPoints(p \cup {x}) <= PermissionPoints(p)
<1>1. PermissionPoints(p) = (IF "camera" \in p THEN -30 ELSE 0) + (IF "microphone" \in p THEN -30 ELSE 0)
                            + (IF "network" \in p /\ "filesystem" \in p THEN -20 ELSE 0)
  BY DEF PermissionPoints, Points
<1>2. PermissionPoints(p \cup {x}) = (IF "camera" \in p \/ x = "camera" THEN -30 ELSE 0)
                            + (IF "microphone" \in p \/ x = "microphone" THEN -30 ELSE 0)
                            + (IF ("network" \in p \/ x = "network") /\ ("filesystem" \in p \/ x = "filesystem") THEN -20 ELSE 0)
  BY DEF PermissionPoints, Points
<1> QED
  BY <1>1, <1>2

(* trust_scorer.rs, for every candidate. *)
LEMMA ScoresEarned ==
  ASSUME NEW c \in Candidates
  PROVE  /\ Recommendation(c) = "auto approve" =>
              c.hashVerified /\ c.signed /\ c.days <= 365 /\ ~({"camera", "microphone"} \subseteq c.permissions)
         /\ \A p \in Sensitive : Score([c EXCEPT !.permissions = @ \cup {p}]) <= Score(c)
<1>1. /\ c.hashVerified \in BOOLEAN /\ c.signed \in BOOLEAN /\ c.days \in {90, 91, 365, 366}
      /\ c.downloads \in {10000, 10001} /\ c.audited \in BOOLEAN /\ c.issues \in {5, 6}
      /\ c.permissions \in SUBSET Sensitive
  BY DEF Candidates
<1> DEFINE Record(d) == 50 + (IF d.signed THEN 30 ELSE -20) + Points(d.days <= 90, 20) + Points(d.days > 365, -30)
                        + Points(d.downloads > 10000, 15) + Points(d.audited, 10) + Points(d.issues > 5, -10)
           Clamped(sum, verified) == IF ~verified \/ sum < 0 THEN 0 ELSE IF sum > 100 THEN 100 ELSE sum
<1>2. \A d : Score(d) = Clamped(Record(d) + PermissionPoints(d.permissions), d.hashVerified)
  BY DEF Score
<1>3. /\ Record(c) \in Int /\ Record(c) <= 125
      /\ ~c.signed => Record(c) <= 75
      /\ c.days > 365 => Record(c) <= 75
  BY <1>1 DEF Points
<1>4. \A p \in Sensitive :
        /\ Record([c EXCEPT !.permissions = @ \cup {p}]) = Record(c)
        /\ [c EXCEPT !.permissions = @ \cup {p}].permissions = c.permissions \cup {p}
        /\ [c EXCEPT !.permissions = @ \cup {p}].hashVerified = c.hashVerified
  <2> TAKE p \in Sensitive
  <2> DEFINE d == [c EXCEPT !.permissions = @ \cup {p}]
  <2>1. /\ d.signed = c.signed /\ d.days = c.days /\ d.downloads = c.downloads /\ d.audited = c.audited
        /\ d.issues = c.issues /\ d.permissions = c.permissions \cup {p} /\ d.hashVerified = c.hashVerified
    BY DEF Candidates
  <2> HIDE DEF d
  <2>2. Record(d) = Record(c)
    BY <2>1
  <2> QED
    BY <2>1, <2>2 DEF d
<1>5. PermissionPoints(c.permissions) \in Int /\ PermissionPoints(c.permissions) <= 0
      /\ ({"camera", "microphone"} \subseteq c.permissions => PermissionPoints(c.permissions) <= -60)
  <2>1. "camera" \in Sensitive
    BY DEF Sensitive
  <2>2. c.permissions \in SUBSET Sensitive
    BY <1>1
  <2>3. PermissionPoints(c.permissions) \in Int /\ PermissionPoints(c.permissions) <= 0
    BY <2>1, <2>2, PermissionsWeigh
  <2>4. {"camera", "microphone"} \subseteq c.permissions => PermissionPoints(c.permissions) <= -60
    BY <2>1, <2>2, PermissionsWeigh
  <2> QED
    BY <2>3, <2>4
<1>6. ASSUME Recommendation(c) = "auto approve"
      PROVE  Score(c) >= 90
  BY <1>6 DEF Recommendation
<1> HIDE DEF Record
<1>7. ASSUME Recommendation(c) = "auto approve"
      PROVE  c.hashVerified /\ c.signed /\ c.days <= 365 /\ ~({"camera", "microphone"} \subseteq c.permissions)
  <2>1. Clamped(Record(c) + PermissionPoints(c.permissions), c.hashVerified) >= 90
    BY <1>2, <1>6, <1>7
  <2>2. c.hashVerified /\ Record(c) + PermissionPoints(c.permissions) >= 90
    BY <1>1, <1>3, <1>5, <2>1
  <2>3. Record(c) >= 90
    BY <1>3, <1>5, <2>2
  <2> QED
    BY <1>1, <1>3, <1>5, <2>2, <2>3
<1>8. ASSUME NEW p \in Sensitive
      PROVE  Score([c EXCEPT !.permissions = @ \cup {p}]) <= Score(c)
  <2> DEFINE d == [c EXCEPT !.permissions = @ \cup {p}]
  <2>1. Record(d) = Record(c) /\ d.permissions = c.permissions \cup {p} /\ d.hashVerified = c.hashVerified
    BY <1>4
  <2>2. PermissionPoints(c.permissions \cup {p}) \in Int
        /\ PermissionPoints(c.permissions \cup {p}) <= PermissionPoints(c.permissions)
    BY <1>1, PermissionsWeigh
  <2> HIDE DEF d
  <2>3. Score(d) = Clamped(Record(c) + PermissionPoints(c.permissions \cup {p}), c.hashVerified)
    BY <1>2, <2>1
  <2>4. Score(c) = Clamped(Record(c) + PermissionPoints(c.permissions), c.hashVerified)
    BY <1>2
  <2>5. Score(d) <= Score(c)
    BY <1>3, <1>5, <2>2, <2>3, <2>4
  <2> QED
    BY <2>5 DEF d
<1> QED
  BY <1>7, <1>8

LEMMA ApprovalStep ==
  ASSUME candidate \in Candidates, [PackagesNext]_packageVars
  PROVE  (candidate \in Candidates)'
<1>1. CASE UNCHANGED packageVars
  BY <1>1 DEF packageVars
<1>2. CASE PackagesNext
  BY <1>2 DEF PackagesNext, ScorePackage, InstallOffers, InstallAnswered, RemoveCommand, SetAvailable, SearchSources,
              Register, Start, Stop, Restart, RestartDropped, ForgetSandbox
<1> QED
  BY <1>1, <1>2

(* install recommends the exact match; remove leaves Flatpak alone. *)
LEMMA CommandsStep ==
  ASSUME CommandsInv, [PackagesNext]_packageVars
  PROVE  CommandsInv'
<1> DEFINE Good(r) == r.match = "exact" /\ ~r.deprecated
<1>1. /\ offer \in Seq(Offered) /\ flatpakRemoved \in BOOLEAN
      /\ (\E i \in 1..Len(offer) : Good(offer[i])) => Good(offer[1])
      /\ aptHere => ~flatpakRemoved
  BY DEF CommandsInv, CommandsSound
<1>2. ASSUME NEW n \in Packages, NEW k \in Packages, NEW x \in {"exact", "prefix", "other"},
             NEW y \in {"exact", "prefix", "other"}, NEW d \in BOOLEAN, NEW e \in BOOLEAN,
             InstallOffers(Result(n, "apt", x, d), Result(k, "flatpak", y, e))
      PROVE  CommandsInv'
  <2> DEFINE a == Result(n, "apt", x, d)
             f == Result(k, "flatpak", y, e)
  <2>1. offer' = (IF aptHere THEN Ranked(a, f) ELSE <<f>>) /\ UNCHANGED <<aptHere, flatpakRemoved>>
    BY <1>2 DEF InstallOffers
  <2>2. /\ a \in Offered /\ f \in Offered /\ a.source = "apt" /\ f.source = "flatpak"
        /\ a.match = x /\ a.deprecated = d /\ f.match = y /\ f.deprecated = e
    BY DEF Result, Offered
  <2> HIDE DEF a, f
  <2>3. \A r \in Offered : SearchScore(r) = (IF r.match = "exact" THEN 10 ELSE 0) + (IF r.match = "prefix" THEN 5 ELSE 0)
            + (IF r.source = "flatpak" THEN 3 ELSE 2) + (IF r.installed THEN 1 ELSE 0) + (IF r.deprecated THEN -5 ELSE 0)
    BY DEF SearchScore, Points, Offered
  <2>4. (Good(a) /\ ~Good(f) => SearchScore(a) > SearchScore(f)) /\ (Good(f) /\ ~Good(a) => SearchScore(f) > SearchScore(a))
        /\ SearchScore(a) \in Int /\ SearchScore(f) \in Int
    <3>1. SearchScore(a) = (IF x = "exact" THEN 10 ELSE 0) + (IF x = "prefix" THEN 5 ELSE 0)
            + 2 + (IF a.installed THEN 1 ELSE 0) + (IF d THEN -5 ELSE 0)
      BY <2>2, <2>3
    <3>2. SearchScore(f) = (IF y = "exact" THEN 10 ELSE 0) + (IF y = "prefix" THEN 5 ELSE 0)
            + 3 + (IF f.installed THEN 1 ELSE 0) + (IF e THEN -5 ELSE 0)
      BY <2>2, <2>3
    <3> QED
      BY <2>2, <3>1, <3>2
  <2>5. offer' = <<f>> \/ (offer' = <<f, a>> /\ SearchScore(f) > SearchScore(a))
        \/ (offer' = <<a, f>> /\ ~(SearchScore(f) > SearchScore(a)))
    BY <2>1 DEF Ranked
  <2>6. offer' \in Seq(Offered) /\ ((\E i \in 1..Len(offer') : Good(offer'[i])) => Good(offer'[1]))
    <3>1. CASE offer' = <<f>>
      BY <2>2, <3>1
    <3>2. CASE offer' = <<f, a>> /\ SearchScore(f) > SearchScore(a)
      <4>1. offer' \in Seq(Offered) /\ Len(offer') = 2 /\ offer'[1] = f /\ offer'[2] = a
        BY <2>2, <3>2
      <4>2. Good(a) => Good(f)
        BY <2>4, <3>2
      <4> HIDE DEF Good
      <4> QED
        BY <4>1, <4>2
    <3>3. CASE offer' = <<a, f>> /\ ~(SearchScore(f) > SearchScore(a))
      <4>1. offer' \in Seq(Offered) /\ Len(offer') = 2 /\ offer'[1] = a /\ offer'[2] = f
        BY <2>2, <3>3
      <4>2. Good(f) => Good(a)
        BY <2>4, <3>3
      <4> HIDE DEF Good
      <4> QED
        BY <4>1, <4>2
    <3> QED
      BY <2>5, <3>1, <3>2, <3>3
  <2> QED
    BY <1>1, <2>1, <2>6 DEF CommandsInv, CommandsSound
<1>3. ASSUME NEW yes \in BOOLEAN, NEW works \in BOOLEAN, InstallAnswered(yes, works)
      PROVE  CommandsInv'
  <2>1. offer' = <<>> /\ UNCHANGED <<aptHere, flatpakRemoved>>
    BY <1>3 DEF InstallAnswered
  <2>2. offer' \in Seq(Offered) /\ Len(offer') = 0
    BY <2>1
  <2> QED
    BY <1>1, <2>1, <2>2 DEF CommandsInv, CommandsSound
<1>4. ASSUME NEW n \in Packages, NEW aptWorks \in BOOLEAN, NEW flatpakWorks \in BOOLEAN,
             RemoveCommand(n, aptWorks, flatpakWorks)
      PROVE  CommandsInv'
  <2>1. /\ offer' = offer /\ aptHere' = aptHere
        /\ flatpakRemoved' = (flatpakRemoved \/ (~aptHere /\ flatpakWorks /\ n \in byFlatpak))
    BY <1>4 DEF RemoveCommand, FallsBack
  <2>2. flatpakRemoved' \in BOOLEAN /\ (aptHere' => ~flatpakRemoved')
    BY <1>1, <2>1
  <2> QED
    BY <1>1, <2>1, <2>2 DEF CommandsInv, CommandsSound
<1>5. ASSUME UNCHANGED commandLineVars
      PROVE  CommandsInv'
  <2>1. UNCHANGED <<offer, aptHere, flatpakRemoved>>
    BY <1>5 DEF commandLineVars
  <2> QED
    BY <2>1 DEF CommandsInv, CommandsSound
<1>6. ASSUME \/ \E c \in Candidates : ScorePackage(c)
             \/ \E s \in Sources \cup {"local"} : SetAvailable(s) \/ SearchSources(s)
             \/ \E i \in SandboxIds :
                  Register(i) \/ Start(i) \/ Stop(i) \/ Restart(i) \/ RestartDropped(i) \/ ForgetSandbox(i)
      PROVE  UNCHANGED commandLineVars
  BY <1>6 DEF ScorePackage, SetAvailable, SearchSources, Register, Start, Stop, Restart, RestartDropped, ForgetSandbox
<1>7. CASE UNCHANGED packageVars
  BY <1>5, <1>7 DEF packageVars, commandLineVars
<1> QED
  BY <1>2, <1>3, <1>4, <1>5, <1>6, <1>7 DEF PackagesNext

(* A sandbox counts its restarts up to its lock. *)
LEMMA RestartsStep ==
  ASSUME RestartsInv, [PackagesNext]_packageVars
  PROVE  RestartsInv'
<1> DEFINE Handle == [state : {"none", "stopped", "running", "restarting", "locked"}, restarts : Nat]
           Sound(h, n) == /\ h.restarts = n /\ h.restarts <= MaxRestarts
                          /\ h.state = "locked" <=> h.restarts = MaxRestarts
<1>1. sandboxes \in [SandboxIds -> Handle] /\ MaxRestarts \in Nat \ {0} /\ \A i \in SandboxIds : Sound(sandboxes[i], completed[i])
  BY PackagesAssumption DEF RestartsInv, RestartsBounded
<1>2. ASSUME NEW i \in SandboxIds, NEW h \in Handle, sandboxes' = [sandboxes EXCEPT ![i] = h],
             completed' \in [SandboxIds -> Nat], Sound(h, completed'[i]), \A j \in SandboxIds : j # i => completed'[j] = completed[j]
      PROVE  RestartsInv'
  <2>1. sandboxes' \in [SandboxIds -> Handle] /\ \A j \in SandboxIds : sandboxes'[j] = IF j = i THEN h ELSE sandboxes[j]
    <3> HIDE DEF Handle
    <3> QED
      BY <1>1, <1>2
  <2>2. \A j \in SandboxIds : Sound(sandboxes'[j], completed'[j])
    <3> HIDE DEF Sound, Handle
    <3> TAKE j \in SandboxIds
    <3>1. CASE j = i
      BY <1>2, <2>1, <3>1
    <3>2. CASE j # i
      BY <1>1, <1>2, <2>1, <3>2
    <3> QED
      BY <3>1, <3>2
  <2> QED
    BY <1>2, <2>1, <2>2 DEF RestartsInv, RestartsBounded
<1>3. completed \in [SandboxIds -> Nat] /\ NoHandle \in Handle /\ NoHandle.state = "none" /\ NoHandle.restarts = 0
  BY DEF RestartsInv, NoHandle
<1>4. ASSUME NEW i \in SandboxIds, NEW h \in Handle, sandboxes' = [sandboxes EXCEPT ![i] = h], completed' = completed,
             h.restarts = sandboxes[i].restarts, h.state = "locked" <=> sandboxes[i].state = "locked"
      PROVE  RestartsInv'
  <2>1. Sound(h, completed'[i])
    BY <1>1, <1>4
  <2> HIDE DEF Sound, Handle
  <2> QED
    BY <1>2, <1>3, <1>4, <2>1
<1>5. ASSUME NEW i \in SandboxIds, NEW h \in Handle, sandboxes' = [sandboxes EXCEPT ![i] = h],
             completed' = [completed EXCEPT ![i] = 0], h.restarts = 0, h.state # "locked"
      PROVE  RestartsInv'
  <2>1. completed'[i] = 0 /\ \A j \in SandboxIds : j # i => completed'[j] = completed[j]
    BY <1>3, <1>5
  <2>2. Sound(h, completed'[i])
    BY <1>1, <1>5, <2>1
  <2>3. completed' \in [SandboxIds -> Nat]
    BY <1>3, <1>5
  <2> HIDE DEF Sound, Handle
  <2> QED
    BY <1>2, <1>5, <2>1, <2>2, <2>3
<1>6. ASSUME NEW i \in SandboxIds, Register(i) \/ ForgetSandbox(i)
      PROVE  RestartsInv'
  <2>1. PICK h \in {[state |-> "stopped", restarts |-> 0], NoHandle} :
          sandboxes' = [sandboxes EXCEPT ![i] = h] /\ completed' = [completed EXCEPT ![i] = 0]
    BY <1>6 DEF Register, ForgetSandbox
  <2>2. h \in Handle /\ h.restarts = 0 /\ h.state # "locked"
    BY <1>3
  <2> QED
    BY <1>5, <2>1, <2>2
<1>7. ASSUME NEW i \in SandboxIds, Start(i) \/ Stop(i) \/ RestartDropped(i)
      PROVE  RestartsInv'
  <2>1. PICK st \in {"stopped", "running", "restarting"} :
          sandboxes' = [sandboxes EXCEPT ![i].state = st] /\ completed' = completed /\ sandboxes[i].state # "locked"
    BY <1>7 DEF Start, Stop, RestartDropped, Running
  <2> DEFINE h == [state |-> st, restarts |-> sandboxes[i].restarts]
  <2>2. sandboxes[i] \in Handle /\ h \in Handle /\ h.state = st /\ h.restarts = sandboxes[i].restarts
    BY <1>1
  <2>3. [sandboxes[i] EXCEPT !.state = st] = h
    BY <2>2
  <2>4. sandboxes' = [sandboxes EXCEPT ![i] = h]
    <3>1. sandboxes' = [sandboxes EXCEPT ![i] = [sandboxes[i] EXCEPT !.state = st]]
      BY <2>1
    <3> HIDE DEF h
    <3> QED
      BY <2>3, <3>1
  <2>5. st # "locked"
    OBVIOUS
  <2> HIDE DEF h, Handle
  <2> QED
    BY <1>4, <2>1, <2>2, <2>4, <2>5
<1>8. ASSUME NEW i \in SandboxIds, Restart(i)
      PROVE  RestartsInv'
  <2> DEFINE n == sandboxes[i].restarts + 1
             h == [state |-> IF Locks(n) THEN "locked" ELSE "running", restarts |-> n]
  <2>1. sandboxes' = [sandboxes EXCEPT ![i] = h] /\ completed' = [completed EXCEPT ![i] = @ + 1]
        /\ sandboxes[i].state # "locked"
    BY <1>8 DEF Restart
  <2>2. /\ sandboxes[i].restarts \in Nat /\ sandboxes[i].restarts = completed[i]
        /\ sandboxes[i].restarts <= MaxRestarts /\ sandboxes[i].restarts # MaxRestarts
    BY <1>1, <2>1
  <2>3. n \in Nat /\ n <= MaxRestarts /\ (Locks(n) <=> n = MaxRestarts)
    BY <1>1, <2>2 DEF Locks
  <2>4. h \in Handle /\ h.restarts = n /\ (h.state = "locked" <=> Locks(n))
    <3> HIDE DEF n
    <3> QED
      BY <2>3
  <2>5. completed'[i] = n /\ completed' \in [SandboxIds -> Nat] /\ \A j \in SandboxIds : j # i => completed'[j] = completed[j]
    BY <1>3, <2>1, <2>2
  <2> HIDE DEF h, n
  <2>6. Sound(h, completed'[i])
    BY <2>3, <2>4, <2>5
  <2> HIDE DEF Sound, Handle
  <2> QED
    BY <1>2, <2>1, <2>4, <2>5, <2>6
<1>9. ASSUME UNCHANGED sandboxVars
      PROVE  RestartsInv'
  <2>1. UNCHANGED <<sandboxes, completed>>
    BY <1>9 DEF sandboxVars
  <2> QED
    BY <2>1 DEF RestartsInv, RestartsBounded
<1>10. ASSUME PackagesNext,
              ~ \E i \in SandboxIds :
                  Register(i) \/ Start(i) \/ Stop(i) \/ Restart(i) \/ RestartDropped(i) \/ ForgetSandbox(i)
       PROVE  UNCHANGED sandboxVars
  BY <1>10 DEF PackagesNext, ScorePackage, InstallOffers, InstallAnswered, RemoveCommand, SetAvailable, SearchSources
<1>11. CASE UNCHANGED packageVars
  BY <1>9, <1>11 DEF packageVars, sandboxVars
<1> QED
  BY <1>6, <1>7, <1>8, <1>9, <1>10, <1>11

LEMMA PackagesInitial ==
  ASSUME PackagesInit
  PROVE  candidate \in Candidates /\ CommandsInv /\ RestartsInv
<1>1. candidate \in Candidates
  <2>1. NoCandidate \in Candidates
    BY DEF NoCandidate, Candidates
  <2> QED
    BY <2>1 DEF PackagesInit
<1>2. CommandsInv
  <2>1. offer = <<>> /\ flatpakRemoved = FALSE
    BY DEF PackagesInit
  <2>2. offer \in Seq(Offered) /\ Len(offer) = 0
    BY <2>1
  <2>3. \A i \in 1..Len(offer) : FALSE
    BY <2>2
  <2>4. CommandsSound
    BY <2>1, <2>3 DEF CommandsSound
  <2> QED
    BY <2>1, <2>2, <2>4 DEF CommandsInv
<1>3. RestartsInv
  BY PackagesAssumption DEF PackagesInit, RestartsInv, RestartsBounded, NoHandle
<1> QED
  BY <1>1, <1>2, <1>3

(***************************************************************************)
(* Whoever calls the pool, the engine, a context and the hypervisor, and   *)
(* in whatever order: used_bytes is the size of the models resident and a  *)
(* model not released too often stays while one holds it; a request in     *)
(* flight is known; the window holds the latest tokens; no VM is           *)
(* overtaken.  Approvals are earned, an exact match is recommended and     *)
(* Flatpak left alone while apt-get is there, and restarts bounded.        *)
(***************************************************************************)
THEOREM RuntimeHolds == Spec => []RuntimeSound
<1>1. Init => /\ PoolInv /\ CallsInv /\ WindowInv /\ TurnsInv
              /\ candidate \in Candidates /\ CommandsInv /\ RestartsInv
  BY RuntimeInitial, PackagesInitial DEF Init
<1>2. PoolInv /\ [Next]_vars => PoolInv'
  BY PoolStep, OneDriven
<1>3. CallsInv /\ [Next]_vars => CallsInv'
  BY CallsStep, OneDriven
<1>4. WindowInv /\ [Next]_vars => WindowInv'
  BY WindowStep, OneDriven
<1>5. TurnsInv /\ [Next]_vars => TurnsInv'
  BY TurnsStep, OneDriven
<1>6. candidate \in Candidates /\ [Next]_vars => (candidate \in Candidates)'
  BY ApprovalStep, OneDriven
<1>7. CommandsInv /\ [Next]_vars => CommandsInv'
  BY CommandsStep, OneDriven
<1>8. RestartsInv /\ [Next]_vars => RestartsInv'
  BY RestartsStep, OneDriven
<1>9. PoolInv /\ CallsInv /\ WindowInv /\ TurnsInv /\ candidate \in Candidates /\ CommandsInv /\ RestartsInv
      => RuntimeSound
  <2>1. candidate \in Candidates => ApprovalEarned
    BY ScoresEarned DEF ApprovalEarned
  <2> QED
    BY <2>1 DEF RuntimeSound, PoolInv, CallsInv, WindowInv, TurnsInv, CommandsInv, RestartsInv
<1> QED
  BY <1>1, <1>2, <1>3, <1>4, <1>5, <1>6, <1>7, <1>8, <1>9, PTL DEF Spec

-------------------------------------------------------------------------------
(* Types.  Most follow from the invariants above; these are the others. *)
OverlayTypes == checks \in Nat /\ sequence \in 0..checks
ReadTypes == listed \subseteq FileNames /\ loaded \subseteq FileNames /\ batch \in 0..MaxReads
CommandTypes ==
  /\ byApt \subseteq Packages /\ byFlatpak \subseteq Packages /\ available \subseteq Sources
  /\ Len(planned) <= 4 /\ dropped \in 0..MaxDropped

LEMMA TypesInitial ==
  ASSUME Init
  PROVE  OverlayTypes /\ ReadTypes /\ CommandTypes
<1>1. checks = 0 /\ sequence = 0 /\ listed = {} /\ loaded = {} /\ batch = 0
  BY DEF Init, AnfsInit, FilesInit
<1>2. byApt = {} /\ byFlatpak = {} /\ available = {} /\ planned = <<>> /\ dropped = 0
  BY DEF Init, PackagesInit
<1>3. Len(<<>>) = 0
  OBVIOUS
<1>4. OverlayTypes /\ ReadTypes
  BY <1>1, AnfsFilesAssumption DEF OverlayTypes, ReadTypes
<1>5. CommandTypes
  BY <1>2, <1>3, PackagesAssumption DEF CommandTypes
<1> QED
  BY <1>4, <1>5

LEMMA OverlayTypesStep ==
  ASSUME OverlayTypes, [AnfsNext]_anfsVars
  PROVE  OverlayTypes'
<1>1. CASE UNCHANGED <<checks, sequence>>
  BY <1>1 DEF OverlayTypes
<1>2. ASSUME checks' = checks + 1, sequence' \in {sequence, sequence + 1}
      PROVE  OverlayTypes'
  BY <1>2 DEF OverlayTypes
<1>3. CASE UNCHANGED anfsVars
  BY <1>1, <1>3 DEF anfsVars
<1>4. CASE AnfsNext
  <2>1. CASE Grant(DefaultAgent, "anfs")
    BY <1>1, <2>1 DEF Grant
  <2>2. ASSUME NEW a \in Agents, NEW p \in Restricted, CheckOnly(a, p)
        PROVE  OverlayTypes'
    BY <1>2, <2>2 DEF CheckOnly, Check
  <2>3. CASE Observe(".")
    BY <1>2, <2>3 DEF Observe, CheckOnly, Check
  <2>4. ASSUME NEW op \in Mutations, Mutate(op, ".")
        PROVE  OverlayTypes'
    BY <1>2, <2>4 DEF Mutate, Check, JournalAppend
  <2>5. CASE Checkpoint
    BY <1>1, <2>5 DEF Checkpoint
  <2>6. CASE UNCHANGED overlayVars
    BY <1>1, <2>6 DEF overlayVars
  <2>7. ASSUME NEW p \in CachePaths, NEW len \in Lengths, CacheInsert(p, len)
        PROVE  UNCHANGED overlayVars
    BY <2>7 DEF CacheInsert
  <2>8. ASSUME NEW p \in CachePaths, MarkDirty(p) \/ Invalidate(p)
        PROVE  UNCHANGED overlayVars
    BY <2>8 DEF MarkDirty, Invalidate
  <2>9. FlushDirty => UNCHANGED overlayVars
    BY DEF FlushDirty
  <2> QED
    BY <1>4, <2>1, <2>2, <2>3, <2>4, <2>5, <2>6, <2>7, <2>8, <2>9 DEF AnfsNext
<1> QED
  BY <1>3, <1>4

LEMMA ReadTypesStep ==
  ASSUME ReadTypes, ReadsInv, [FilesNext]_filesVars
  PROVE  ReadTypes'
<1>1. batch = served.batch /\ batch \in 0..MaxReads /\ MaxReads \in Nat /\ listed \subseteq FileNames /\ loaded \subseteq FileNames
  BY AnfsFilesAssumption DEF ReadTypes, ReadsInv, ReadsCounted
<1>2. CASE UNCHANGED <<listed, loaded, batch>>
  BY <1>1, <1>2 DEF ReadTypes
<1>3. CASE UNCHANGED filesVars
  BY <1>2, <1>3 DEF filesVars
<1>4. CASE FilesNext
  <2>1. ASSUME NEW n \in FileNames, Create(n) \/ Grows(n) \/ Unlink(n)
        PROVE  UNCHANGED <<listed, loaded, batch>>
    BY <2>1 DEF Create, Grows, Unlink, metaVars
  <2>2. CASE SecondPasses
    BY <1>2, <2>2 DEF SecondPasses, metaVars
  <2>3. CASE Restarts
    BY <1>1, <2>3 DEF Restarts, LoadedAtStart, ReadTypes
  <2>4. ASSUME NEW s \in SUBSET FileNames, ListEdited(s)
        PROVE  ReadTypes'
    BY <1>1, <2>4 DEF ListEdited, metaVars, ReadTypes
  <2>5. CASE Read
    BY <1>1, <2>5 DEF Read, deleteVars, ReadTypes
  <2>6. CASE FlushBatch
    BY <1>1, <2>6 DEF FlushBatch, AfterFlush, deleteVars, ReadTypes
  <2>7. ASSUME NEW a \in FileNames, NEW b \in FileNames, RecordCoOpen(a, b)
        PROVE  UNCHANGED <<listed, loaded, batch>>
    BY <2>7 DEF RecordCoOpen, deleteVars, metaVars
  <2>8. ASSUME NEW n \in FileNames, ForgetPrefix(n)
        PROVE  UNCHANGED <<listed, loaded, batch>>
    BY <2>8 DEF ForgetPrefix, deleteVars, metaVars
  <2> QED
    BY <1>2, <1>4, <2>1, <2>2, <2>3, <2>4, <2>5, <2>6, <2>7, <2>8 DEF FilesNext
<1> QED
  BY <1>3, <1>4

(* A plan names each source at most once. *)
LEMMA PlansShort ==
  ASSUME NEW s
  PROVE  Len(Plan(s)) <= 4
<1>1. \A x \in Sources : IfThere(x) \in Seq(Sources) /\ Len(IfThere(x)) <= 1 /\ Len(IfThere(x)) \in Nat
  BY DEF IfThere
<1>2. {"apt", "flatpak", "snap", "appimage"} = Sources
  BY DEF Sources
<1> DEFINE a == IfThere("apt")
           b == IfThere("flatpak")
           c == IfThere("snap")
           d == IfThere("appimage")
<1>3. /\ a \in Seq(Sources) /\ b \in Seq(Sources) /\ c \in Seq(Sources) /\ d \in Seq(Sources)
      /\ Len(a) <= 1 /\ Len(b) <= 1 /\ Len(c) <= 1 /\ Len(d) <= 1
  BY <1>1, <1>2
<1>4. Plan(s) = IF s \in available THEN <<s>> ELSE a \o b \o c \o d
  BY DEF Plan
<1> HIDE DEF a, b, c, d
<1>5. a \o b \in Seq(Sources) /\ Len(a \o b) = Len(a) + Len(b)
  BY <1>3
<1>6. (a \o b) \o c \in Seq(Sources) /\ Len((a \o b) \o c) = Len(a \o b) + Len(c)
  BY <1>3, <1>5
<1>7. Len(((a \o b) \o c) \o d) = Len((a \o b) \o c) + Len(d)
  BY <1>3, <1>6
<1>8. Len(a) \in Nat /\ Len(b) \in Nat /\ Len(c) \in Nat /\ Len(d) \in Nat
  BY <1>3
<1>9. Len(((a \o b) \o c) \o d) <= 4
  BY <1>3, <1>5, <1>6, <1>7, <1>8
<1>10. Len(<<s>>) = 1
  OBVIOUS
<1> QED
  BY <1>4, <1>9, <1>10

LEMMA CommandTypesStep ==
  ASSUME CommandTypes, CommandsInv, [PackagesNext]_packageVars
  PROVE  CommandTypes'
<1>1. /\ byApt \subseteq Packages /\ byFlatpak \subseteq Packages /\ available \subseteq Sources
      /\ Len(planned) <= 4 /\ dropped \in 0..MaxDropped /\ MaxDropped \in Nat
  BY PackagesAssumption DEF CommandTypes
<1>2. CASE UNCHANGED <<byApt, byFlatpak, available, planned, dropped>>
  BY <1>1, <1>2 DEF CommandTypes
<1>3. CASE UNCHANGED packageVars
  BY <1>2, <1>3 DEF packageVars
<1>4. CASE PackagesNext
  <2>1. ASSUME NEW c \in Candidates, ScorePackage(c)
        PROVE  UNCHANGED <<byApt, byFlatpak, available, planned, dropped>>
    BY <2>1 DEF ScorePackage, commandLineVars, planVars, sandboxVars
  <2>2. ASSUME NEW a, NEW f, InstallOffers(a, f)
        PROVE  UNCHANGED <<byApt, byFlatpak, available, planned, dropped>>
    BY <2>2 DEF InstallOffers, planVars, sandboxVars
  <2>3. ASSUME NEW yes \in BOOLEAN, NEW works \in BOOLEAN, InstallAnswered(yes, works)
        PROVE  CommandTypes'
    <3>1. offer \in Seq(Offered) /\ offer # <<>>
      BY <2>3 DEF CommandsInv, InstallAnswered
    <3>2. offer[1] \in Offered
      BY <3>1
    <3>3. offer[1].name \in Packages
      BY <3>2 DEF Offered
    <3>4. byApt' \subseteq Packages /\ byFlatpak' \subseteq Packages
      BY <1>1, <2>3, <3>3 DEF InstallAnswered
    <3>5. UNCHANGED <<available, planned, dropped>>
      BY <2>3 DEF InstallAnswered, planVars, sandboxVars
    <3> QED
      BY <1>1, <3>4, <3>5 DEF CommandTypes
  <2>4. ASSUME NEW n \in Packages, NEW aptWorks \in BOOLEAN, NEW flatpakWorks \in BOOLEAN,
               RemoveCommand(n, aptWorks, flatpakWorks)
        PROVE  CommandTypes'
    BY <1>1, <2>4 DEF RemoveCommand, planVars, sandboxVars, CommandTypes
  <2>5. ASSUME NEW s, SetAvailable(s)
        PROVE  CommandTypes'
    BY <1>1, <2>5 DEF SetAvailable, commandLineVars, sandboxVars, CommandTypes
  <2>6. ASSUME NEW s, SearchSources(s)
        PROVE  CommandTypes'
    BY <1>1, <2>6, PlansShort DEF SearchSources, commandLineVars, sandboxVars, CommandTypes
  <2>7. ASSUME NEW i \in SandboxIds, Register(i) \/ Start(i) \/ Stop(i) \/ Restart(i) \/ ForgetSandbox(i)
        PROVE  UNCHANGED <<byApt, byFlatpak, available, planned, dropped>>
    BY <2>7 DEF Register, Start, Stop, Restart, ForgetSandbox, commandLineVars, planVars
  <2>8. ASSUME NEW i \in SandboxIds, RestartDropped(i)
        PROVE  CommandTypes'
    BY <1>1, <2>8 DEF RestartDropped, commandLineVars, planVars, CommandTypes
  <2> QED
    BY <1>2, <1>4, <2>1, <2>2, <2>3, <2>4, <2>5, <2>6, <2>7, <2>8 DEF PackagesNext
<1> QED
  BY <1>3, <1>4

LEMMA ClusterTypes ==
  ASSUME QuorumInv, ReplicaInv
  PROVE  ClusterTypeOK
<1>1. granted \subseteq SUBSET members
  BY DEF QuorumInv
<1> QED
  BY <1>1 DEF QuorumInv, ReplicaInv, ClusterTypeOK

LEMMA MeshTypes ==
  ASSUME TopologyInv
  PROVE  MeshTypeOK
<1>1. ASSUME NEW e \in links
      PROVE  e \subseteq known /\ Cardinality(e) = 2
  <2>1. PICK m \in known \ {LocalNode} : e = {LocalNode, m}
    BY <1>1 DEF TopologyInv
  <2>2. LocalNode \in known
    BY <1>1 DEF TopologyInv
  <2>3. IsFiniteSet({LocalNode}) /\ Cardinality({LocalNode}) = 1
    BY FS_Singleton
  <2>4. Cardinality({LocalNode} \cup {m}) = 1 + 1
    BY <2>1, <2>3, FS_AddElement
  <2>5. {LocalNode} \cup {m} = e
    BY <2>1
  <2> QED
    BY <2>1, <2>2, <2>4, <2>5
<1> QED
  BY <1>1 DEF TopologyInv, MeshTypeOK

LEMMA AnfsTypes ==
  ASSUME JournalInv, CachesInv, OverlayTypes
  PROVE  AnfsTypeOK
<1>1. /\ lattice \in [Agents -> SUBSET {"hal", "root", "security", "anfs"}] /\ checks \in 0..MaxChecks
      /\ Len(auditBuffer) = Min({checks, AuditCapacity}) /\ checks \in Nat /\ sequence \in 0..checks
  BY DEF JournalInv, JournalFollowsChecks, OverlayTypes
<1>2. Min({checks, AuditCapacity}) <= AuditCapacity
  BY <1>1, AnfsAssumption, LesserOf
<1>3. DOMAIN dataCache.value \subseteq CachePaths
  <2>1. dataCache.order \in Seq(CachePaths) /\ ToSet(dataCache.order) = DOMAIN dataCache.value
    BY DEF CachesInv, LruInv, OrderLists
  <2> QED
    BY <2>1 DEF ToSet
<1>4. inserts \in 0..MaxInserts
  BY DEF CachesInv
<1> QED
  BY <1>1, <1>2, <1>3, <1>4 DEF AnfsTypeOK

LEMMA FilesTypes ==
  ASSUME DeletesInv, ReadTypes
  PROVE  FilesTypeOK
<1>1. /\ files \in [FileNames -> [version : 0..versions, large : BOOLEAN]] /\ now \in 1..LastSecond
      /\ versions \in 0..MaxVersions /\ recycle \in [FileNames -> [1..LastSecond -> 0..versions]]
      /\ MaxVersions \in Nat
  BY AnfsFilesAssumption DEF DeletesInv
<1>2. recycle \in [FileNames -> [1..LastSecond -> 0..MaxVersions]]
  <2>1. 0..versions \subseteq 0..MaxVersions
    BY <1>1
  <2> QED
    BY <1>1, <2>1
<1> QED
  BY <1>1, <1>2 DEF ReadTypes, FilesTypeOK

LEMMA RuntimeTypes ==
  ASSUME PoolInv, CallsInv, TurnsInv
  PROVE  RuntimeTypeOK
<1>1. /\ resident \in Seq(Models) /\ refs \in [Models -> Nat] /\ unreleased \in [Clients -> SUBSET Models]
      /\ \A m \in Models : refs[m] <= Cardinality(Holders(m))
      /\ usedBytes = SizeOf(Loaded) /\ usedBytes <= CapacityBytes /\ CapacityBytes \in Nat
  BY ModelRuntimeAssumption DEF PoolInv, PoolSound
<1>2. \A m \in Models : Cardinality(Holders(m)) \in Nat /\ Cardinality(Holders(m)) <= Cardinality(Clients)
  <2> TAKE m \in Models
  <2>1. Holders(m) \in SUBSET Clients
    BY DEF Holders
  <2> QED
    BY <2>1, FS_Subset, FS_CardinalityType, ModelRuntimeAssumption
<1>3. Cardinality(Clients) \in Nat
  BY FS_CardinalityType, ModelRuntimeAssumption
<1>4. refs \in [Models -> 0..Cardinality(Clients)]
  <2>1. \A m \in Models : refs[m] \in 0..Cardinality(Clients)
    BY <1>1, <1>2, <1>3
  <2> QED
    BY <1>1, <2>1
<1>5. usedBytes \in 0..CapacityBytes
  <2>1. Loaded \in SUBSET Models
    BY <1>1 DEF Loaded, ToSet
  <2>2. SizeOf(Loaded) \in Nat
    <3>1. counted \in [Models -> Nat]
      BY DEF PoolInv
    <3> QED
      BY <2>1, <3>1, PoolSizes DEF SizeOf
  <2> QED
    BY <1>1, <2>2
<1>6. inFlight \subseteq Completions
  BY DEF CallsInv, InFlightKnown
<1> QED
  BY <1>1, <1>4, <1>5, <1>6 DEF RuntimeTypeOK, TurnsInv

LEMMA PackagesTypes ==
  ASSUME candidate \in Candidates, RestartsInv, CommandTypes
  PROVE  PackagesTypeOK
BY DEF RestartsInv, CommandTypes, PackagesTypeOK

(***************************************************************************)
(* Every part keeps to its types: quorums ask members only, the audit ring *)
(* of the overlay stays within its capacity, used_bytes within that of the *)
(* pool, no model counts more references than there are clients.           *)
(***************************************************************************)
THEOREM PlatformTypes == Spec => []PlatformTypeOK
<1> DEFINE I == /\ QuorumInv /\ ReplicaInv /\ TopologyInv
                /\ JournalInv /\ CachesInv /\ DeletesInv /\ ReadsInv /\ PoolInv /\ CallsInv /\ TurnsInv
                /\ candidate \in Candidates /\ CommandsInv /\ RestartsInv
                /\ OverlayTypes /\ ReadTypes /\ CommandTypes
<1>1. Init => I
  BY ClusterInitial, MeshInitial, AnfsInitial, CachesInitial, FilesInitial, RuntimeInitial, PackagesInitial, TypesInitial
     DEF Init
<1>2. I /\ [Next]_vars => I'
  <2> SUFFICES ASSUME I, [Next]_vars PROVE I'
    OBVIOUS
  <2>1. QuorumInv' /\ ReplicaInv' /\ TopologyInv'
    BY QuorumStep, ReplicaStep, TopologyStep, OneDriven
  <2>2. JournalInv' /\ CachesInv' /\ OverlayTypes'
    BY JournalStep, CachesStep, OverlayTypesStep, OneDriven
  <2>3. DeletesInv' /\ ReadsInv' /\ ReadTypes'
    BY DeletesStep, ReadsStep, ReadTypesStep, OneDriven
  <2>4. PoolInv' /\ CallsInv' /\ TurnsInv'
    BY PoolStep, CallsStep, TurnsStep, OneDriven
  <2>5. (candidate \in Candidates)' /\ CommandsInv' /\ RestartsInv' /\ CommandTypes'
    BY ApprovalStep, CommandsStep, RestartsStep, CommandTypesStep, OneDriven
  <2> QED
    BY <2>1, <2>2, <2>3, <2>4, <2>5
<1>3. I => PlatformTypeOK
  BY ClusterTypes, MeshTypes, AnfsTypes, FilesTypes, RuntimeTypes, PackagesTypes DEF PlatformTypeOK
<1> QED
  BY <1>1, <1>2, <1>3, PTL DEF Spec
===============================================================================
