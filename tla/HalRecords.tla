------------------------------- MODULE HalRecords -------------------------------
(***************************************************************************)
(* What HAL writes down about itself:                                      *)
(*   AuditChain (hal/src/audit_chain.rs): entries chained by their hashes; *)
(*   ForensicReplay (forensic_replay.rs): what the chain says of a moment; *)
(*   RecursiveIdentity (recursive_identity.rs): an identity, its forks;    *)
(*   SelfRewriteMonitor (self_rewrite_monitor.rs): requests to rewrite     *)
(*     watched files, kept for review.                                     *)
(* An entry is stamped before it is appended, so stamps may be out of      *)
(* order.  A hash is the value it is the hash of.                          *)
(***************************************************************************)
EXTENDS Integers, Sequences, FiniteSets, SequencesExt

CONSTANTS
  ChainAgents, MaxEntries, MaxStamp, \* bounds: appended entries, the clock
  LookBack,                          \* the hour before the moment of a reconstruction
  Roots, MaxForks,                   \* identity hashes; bound: lines of descent
  WatchedPaths, OtherPaths, MaxRewrites

ASSUME RecordsAssumption == Roots # {} /\ {MaxEntries, MaxStamp, LookBack, MaxForks, MaxRewrites} \subseteq Nat

Levels == {"allow", "confirm"}

VARIABLES
  chain,       \* AuditChain.entries: <<[seq, prev, entry, hash]>>
  head,        \* head_hash
  stampNow,
  identities,  \* the identity and its forks: <<[root, lineage]>>
  watched,     \* SelfRewriteMonitor.watch_paths
  pending      \* the paths of the pending requests
recordVars == <<chain, head, stampNow, identities, watched, pending>>

Genesis == <<>>
RecordsInit ==
  /\ chain = <<>> /\ head = Genesis /\ stampNow = 0
  /\ identities = <<[root |-> CHOOSE r \in Roots : TRUE, lineage |-> <<>>]>>
  /\ watched = WatchedPaths /\ pending = <<>>

ComputeHash(prev, entry) == <<prev, entry>>

AppendEntry(agent, level, ts) ==
  LET entry == [agent |-> agent, level |-> level, ts |-> ts] IN
  /\ Len(chain) < MaxEntries
  /\ chain' = Append(chain, [seq |-> Len(chain), prev |-> head, entry |-> entry,
                             hash |-> ComputeHash(head, entry)])
  /\ head' = ComputeHash(head, entry)
  /\ UNCHANGED <<stampNow, identities, watched, pending>>

\* verify: the first entry that does not follow from the one before it.
Follows(i) == /\ chain[i].prev = (IF i = 1 THEN Genesis ELSE chain[i - 1].hash)
              /\ chain[i].hash = ComputeHash(chain[i].prev, chain[i].entry)
Verifies == \A i \in DOMAIN chain : Follows(i)

\* replay_range: the places of the entries it returns.
ReplayRange(from, to) == {i \in DOMAIN chain : chain[i].entry.ts \in from..to}

WalkedPast(at) == LET late == SelectInSeq(chain, LAMBDA c : c.entry.ts > at) IN
                  IF late = 0 THEN chain ELSE SubSeq(chain, 1, late)
\* reconstruct_state walks the chain up to the first entry that is too late.
Walked(at) == LET late == SelectInSeq(chain, LAMBDA c : c.entry.ts > at) IN
              IF late = 0 THEN chain ELSE SubSeq(chain, 1, late - 1)
ActionCount(at, a) == Cardinality({i \in DOMAIN Walked(at) : Walked(at)[i].entry.agent = a})
ConfirmsLastHour(at) ==
  LET Late(c) == c.entry.ts > at - LookBack /\ c.entry.level = "confirm" IN
  Cardinality({i \in DOMAIN Walked(at) : Late(Walked(at)[i])})

-------------------------------------------------------------------------------
Fork(i) ==
  /\ Len(identities) < MaxForks
  /\ identities' = Append(identities, [root |-> identities[i].root,
                                       lineage |-> Append(identities[i].lineage, identities[i].root)])
  /\ UNCHANGED <<chain, head, stampNow, watched, pending>>
SetRoot(i, r) ==
  /\ identities' = [identities EXCEPT ![i].root = r]
  /\ UNCHANGED <<chain, head, stampNow, watched, pending>>
VerifyIdentity(i, candidate) == candidate = identities[i].root
DescendedFrom(i, r) == r = identities[i].root \/ r \in ToSet(identities[i].lineage)

Watch(p) == watched' = watched \cup {p} /\ UNCHANGED <<chain, head, stampNow, identities, pending>>
\* A request for a watched path is kept; nothing ever removes it.
EvaluateRewrite(p) ==
  /\ Len(pending) < MaxRewrites
  /\ pending' = IF p \in watched THEN Append(pending, p) ELSE pending
  /\ UNCHANGED <<chain, head, stampNow, identities, watched>>

StampTick == stampNow < MaxStamp /\ stampNow' = stampNow + 1 /\ UNCHANGED <<chain, head, identities, watched, pending>>

\* The three records share no state: a behaviour drives one of them.
ChainNext == StampTick \/ \E a \in ChainAgents, l \in Levels, ts \in 0..stampNow : AppendEntry(a, l, ts)
IdentityNext == \E i \in DOMAIN identities : Fork(i) \/ \E r \in Roots : SetRoot(i, r)
RewriteNext == \E p \in WatchedPaths \cup OtherPaths : Watch(p) \/ EvaluateRewrite(p)
RecordsNext ==
  \/ Len(identities) = 1 /\ watched = WatchedPaths /\ pending = <<>> /\ ChainNext
  \/ chain = <<>> /\ stampNow = 0 /\ watched = WatchedPaths /\ pending = <<>> /\ IdentityNext
  \/ chain = <<>> /\ stampNow = 0 /\ Len(identities) = 1 /\ RewriteNext

RecordsTypeOK ==
  /\ Len(chain) <= MaxEntries /\ stampNow \in 0..MaxStamp
  /\ \A i \in DOMAIN identities : identities[i].root \in Roots /\ identities[i].lineage \in Seq(Roots)
  /\ ToSet(pending) \subseteq watched /\ WatchedPaths \subseteq watched

(***************************************************************************)
(* The chain verifies at every moment, its head is the last entry's hash,  *)
(* and the state reconstructed for a moment counts no action the replay of *)
(* the same moment does not show; when stamps are in order it counts them  *)
(* all (verify, replay_range, reconstruct_state).                          *)
(***************************************************************************)
ReplayAgrees ==
  LET Ordered == \A i \in 2..Len(chain) : chain[i - 1].entry.ts <= chain[i].entry.ts
      Replayed(at, a) == Cardinality({i \in ReplayRange(0, at) : chain[i].entry.agent = a}) IN
  /\ Verifies
  /\ chain # <<>> => head = Last(chain).hash
  /\ \A at \in 0..MaxStamp : \A a \in ChainAgents :
       /\ ActionCount(at, a) <= Replayed(at, a)
       /\ Ordered => ActionCount(at, a) = Replayed(at, a)

(***************************************************************************)
(* A fork remembers the root it was forked from, at the end of its         *)
(* lineage, behind those of its parent, however the roots move afterwards  *)
(* (fork, set_root, is_descended_from).                                    *)
(***************************************************************************)
LineagesGrow ==
  \A i \in 2..Len(identities) :
    /\ identities[i].lineage # <<>> /\ DescendedFrom(i, Last(identities[i].lineage))
    /\ \E j \in 1..(i - 1) : Front(identities[i].lineage) = identities[j].lineage

\* Inductive: the chain is a sequence of stamped entries that verifies, and its
\* head is known also when it is empty.
ChainInv ==
  /\ chain \in Seq(ToSet(chain)) /\ \A i \in DOMAIN chain : chain[i].entry.ts \in Nat
  /\ Verifies
  /\ head = IF chain = <<>> THEN Genesis ELSE Last(chain).hash
IdentitiesInv ==
  /\ identities \in Seq([root : Roots, lineage : Seq(Roots)])
  /\ \A i \in 2..Len(identities) :
       /\ identities[i].lineage # <<>>
       /\ \E j \in 1..(i - 1) : Front(identities[i].lineage) = identities[j].lineage
================================================================================
