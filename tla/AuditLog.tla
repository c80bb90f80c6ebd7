------------------------------- MODULE AuditLog -------------------------------
(***************************************************************************)
(* The hash-chained audit log of hal/src/audit_log.rs.  append() takes the *)
(* mutex twice: build_entry computes the chain hash and moves              *)
(* previous_hash on, then a second critical section pushes the entry and   *)
(* may flush.  flush_inner writes the pending lines, then persists the     *)
(* chain tip in a second file.  verify() flushes under the mutex and then  *)
(* reads the two files without it.                                         *)
(*                                                                         *)
(* An entry's content is a number, fresh for every entry (its timestamp    *)
(* and fields).  SHA-256 is taken to be collision free: the hash of an     *)
(* entry is the sequence of contents it commits to, Genesis the empty one. *)
(***************************************************************************)
EXTENDS Naturals, Sequences, FiniteSets

CONSTANTS
  Thread,     \* threads that share the log (clones of the Arc)
  MaxEntries, \* bound: entries built
  FlushCount, \* FLUSH_ENTRY_COUNT
  MaxLogLen,  \* MAX_LOG_SIZE_BYTES, in entries
  MaxRotated, \* MAX_ROTATED_FILES
  Ops         \* which of the environment's moves a run explores

ASSUME BoundsAssumption == {MaxEntries, FlushCount, MaxLogLen, MaxRotated} \subseteq Nat
ASSUME OpsAssumption ==
  Ops \subseteq {"rotate", "wipe", "crash", "crash_in_flush", "edit", "daemon"}

VARIABLES
  pc,       \* where each thread is inside the log's operations
  entry,    \* the entry each thread built last
  after,    \* what follows a thread's flush: return, or verify's reads
  seen,     \* the log file as verify read it, and whether it was unedited
  verdict,  \* the result of a thread's last verify
  pending, prev, \* Inner { pending, previous_hash }
  log, tip, rotated, \* the files: audit.log, audit.chain, audit.log.1 and on
  good,     \* history: the log file without anybody's edits
  nextBody

memVars == <<pc, entry, after, seen, verdict, pending, prev>>
diskVars == <<log, tip, rotated, good>>
vars == <<memVars, diskVars, nextBody>>

Genesis == <<>>
NotChained == <<0>>
Hash(p, body) == Append(p, body)

PC == {"idle", "built", "flush", "trunc", "tip", "read", "readtip", "wipe"}
Entry == [body : Nat, hash : Seq(Nat)]
NoEntry == [body |-> 0, hash |-> Genesis]

TypeOK ==
  /\ pc \in [Thread -> PC]
  /\ entry \in [Thread -> Entry]
  /\ after \in [Thread -> {"idle", "read"}]
  /\ seen \in [Thread -> [lines : Seq(Entry), good : BOOLEAN]]
  /\ verdict \in [Thread -> {"none", "valid", "invalid"}]
  /\ pending \in Seq(Entry) /\ prev \in Seq(Nat)
  /\ log \in Seq(Entry) /\ tip \in Seq(Nat) /\ good \in Seq(Entry)
  /\ rotated \in Seq(Seq(Entry)) /\ Len(rotated) <= MaxRotated
  /\ nextBody \in Nat

Init ==
  /\ pc = [t \in Thread |-> "idle"]
  /\ entry = [t \in Thread |-> NoEntry]
  /\ after = [t \in Thread |-> "idle"]
  /\ seen = [t \in Thread |-> [lines |-> <<>>, good |-> TRUE]]
  /\ verdict = [t \in Thread |-> "none"]
  /\ pending = <<>> /\ prev = Genesis
  /\ log = <<>> /\ tip = Genesis /\ rotated = <<>> /\ good = <<>>
  /\ nextBody = 1

(* The mutex is held across the steps of a flush and of a wipe. *)
Locked(t) == pc[t] \in {"flush", "trunc", "tip", "wipe"}
LockFree == \A t \in Thread : ~ Locked(t)

Goto(t, p) == pc' = [pc EXCEPT ![t] = p]

-----------------------------------------------------------------------------
(* verify *)

HeadHash(lines) == IF lines = <<>> THEN Genesis ELSE lines[Len(lines)].hash

(* Every line's stored hash is the one recomputed from the line before it. *)
Chained(from, lines) ==
  \A i \in 1..Len(lines) :
    lines[i].hash = Hash(IF i = 1 THEN from ELSE lines[i - 1].hash, lines[i].body)

(* Mutant: forgets the chain tip. *)
VerifiesLines(lines, head) == Chained(Genesis, lines)

(* verify's verdict on the two files. *)
Verifies(lines, head) == Chained(Genesis, lines) /\ HeadHash(lines) = head

-----------------------------------------------------------------------------
(* append, flush *)

(* Mutant: previous_hash does not move on. *)
BuildStale(t) ==
  /\ pc[t] = "idle" /\ LockFree /\ nextBody <= MaxEntries
  /\ entry' = [entry EXCEPT ![t] = [body |-> nextBody, hash |-> Hash(prev, nextBody)]]
  /\ nextBody' = nextBody + 1
  /\ Goto(t, "built")
  /\ UNCHANGED <<after, seen, verdict, pending, prev, diskVars>>

(* Mutant: persists the tip at once. *)
BuildPersists(t) ==
  /\ pc[t] = "idle" /\ LockFree /\ nextBody <= MaxEntries
  /\ prev' = Hash(prev, nextBody) /\ tip' = prev'
  /\ entry' = [entry EXCEPT ![t] = [body |-> nextBody, hash |-> prev']]
  /\ nextBody' = nextBody + 1
  /\ Goto(t, "built")
  /\ UNCHANGED <<after, seen, verdict, pending, log, rotated, good>>

(* build_entry, under the first lock. *)
Build(t) ==
  /\ pc[t] = "idle" /\ LockFree /\ nextBody <= MaxEntries
  /\ prev' = Hash(prev, nextBody)
  /\ entry' = [entry EXCEPT ![t] = [body |-> nextBody, hash |-> prev']]
  /\ nextBody' = nextBody + 1
  /\ Goto(t, "built")
  /\ UNCHANGED <<after, seen, verdict, pending, diskVars>>

(* append's second lock; `late` is last_flush.elapsed() >= FLUSH_INTERVAL. *)
Push(t, late) ==
  /\ pc[t] = "built" /\ LockFree
  /\ pending' = Append(pending, entry[t])
  /\ after' = [after EXCEPT ![t] = "idle"]
  /\ Goto(t, IF late \/ Len(pending') >= FlushCount THEN "flush" ELSE "idle")
  /\ UNCHANGED <<entry, seen, verdict, prev, diskVars, nextBody>>

(* flush() and export(): return at once when nothing is pending. *)
Flush(t) ==
  /\ pc[t] = "idle" /\ LockFree /\ pending # <<>>
  /\ after' = [after EXCEPT ![t] = "idle"]
  /\ Goto(t, "flush")
  /\ UNCHANGED <<entry, seen, verdict, pending, prev, diskVars, nextBody>>

(* Mutant: never deletes the oldest file. *)
RotateAll(f) == <<f>> \o rotated

(* rotate_static: the file becomes .1, the others move on, the last goes. *)
Rotate(f) == LET all == <<f>> \o rotated
             IN SubSeq(all, 1, IF Len(all) > MaxRotated THEN MaxRotated ELSE Len(all))

(* Mutant: does not drain the pending entries. *)
FlushCopies(t) ==
  /\ pc[t] = "flush"
  /\ log' = log \o pending /\ good' = good \o pending
  /\ Goto(t, "trunc")
  /\ UNCHANGED <<entry, after, seen, verdict, pending, prev, tip, rotated, nextBody>>

(* flush_inner, up to writer.flush(). *)
FlushWrite(t) ==
  /\ pc[t] = "flush"
  /\ \/ /\ "rotate" \in Ops /\ Len(log) > MaxLogLen
        /\ rotated' = Rotate(log)
        /\ log' = pending /\ good' = pending
     \/ /\ ~ ("rotate" \in Ops /\ Len(log) > MaxLogLen)
        /\ log' = log \o pending /\ good' = good \o pending
        /\ UNCHANGED rotated
  /\ pending' = <<>>
  /\ Goto(t, "trunc")
  /\ UNCHANGED <<entry, after, seen, verdict, prev, tip, nextBody>>

(* fs::write of the tip truncates the file first; load_chain_tip reads an *)
(* empty file as Genesis.                                                 *)
TruncTip(t) ==
  /\ pc[t] = "trunc"
  /\ tip' = Genesis
  /\ Goto(t, "tip")
  /\ UNCHANGED <<entry, after, seen, verdict, pending, prev, log, rotated, good,
                 nextBody>>

WriteTip(t) ==
  /\ pc[t] = "tip"
  /\ tip' = prev
  /\ Goto(t, after[t])
  /\ UNCHANGED <<entry, after, seen, verdict, pending, prev, log, rotated, good,
                 nextBody>>

(* verify(): its flush, then the two reads, neither under the mutex. *)
Verify(t) ==
  /\ pc[t] = "idle" /\ LockFree
  /\ after' = [after EXCEPT ![t] = "read"]
  /\ Goto(t, IF pending = <<>> THEN "read" ELSE "flush")
  /\ UNCHANGED <<entry, seen, verdict, pending, prev, diskVars, nextBody>>

ReadLog(t) ==
  /\ pc[t] = "read"
  /\ seen' = [seen EXCEPT ![t] = [lines |-> log, good |-> log = good]]
  /\ Goto(t, "readtip")
  /\ UNCHANGED <<entry, after, verdict, pending, prev, diskVars, nextBody>>

ReadTip(t) ==
  /\ pc[t] = "readtip"
  /\ verdict' = [verdict EXCEPT
                   ![t] = IF Verifies(seen[t].lines, tip) THEN "valid" ELSE "invalid"]
  /\ Goto(t, "idle")
  /\ UNCHANGED <<entry, after, seen, pending, prev, diskVars, nextBody>>

(* wipe(): clear the pending entries and set the file aside, then reset. *)
Wipe(t) ==
  /\ "wipe" \in Ops /\ pc[t] = "idle" /\ LockFree
  /\ pending' = <<>> /\ log' = <<>> /\ good' = <<>>
  /\ Goto(t, "wipe")
  /\ UNCHANGED <<entry, after, seen, verdict, prev, tip, rotated, nextBody>>

(* Mutant: leaves audit.chain behind. *)
WipeKeepsTip(t) ==
  /\ pc[t] = "wipe"
  /\ prev' = Genesis
  /\ Goto(t, "idle")
  /\ UNCHANGED <<entry, after, seen, verdict, pending, log, tip, rotated, good, nextBody>>

WipeReset(t) ==
  /\ pc[t] = "wipe"
  /\ prev' = Genesis /\ tip' = Genesis
  /\ Goto(t, "idle")
  /\ UNCHANGED <<entry, after, seen, verdict, pending, log, rotated, good, nextBody>>

-----------------------------------------------------------------------------
(* The environment *)

(* The process dies and open_at() runs again.  A crash inside flush_inner  *)
(* leaves any number of the pending lines in the file.                     *)
Crash(n) ==
  /\ "crash" \in Ops
  /\ LockFree \/ "crash_in_flush" \in Ops
  /\ n <= Len(pending) /\ (n > 0 => \E t \in Thread : pc[t] = "flush")
  /\ log' = log \o SubSeq(pending, 1, n) /\ good' = good \o SubSeq(pending, 1, n)
  /\ prev' = tip /\ pending' = <<>>
  /\ pc' = [t \in Thread |-> "idle"]
  /\ entry' = [t \in Thread |-> NoEntry]
  /\ after' = [t \in Thread |-> "idle"]
  /\ verdict' = [t \in Thread |-> "none"]
  /\ seen' = [t \in Thread |-> [lines |-> <<>>, good |-> TRUE]]
  /\ UNCHANGED <<tip, rotated, nextBody>>

(* Somebody edits audit.log: a line goes, two lines change places, or a    *)
(* line's content is replaced, with or without recomputing the hashes.     *)
(* Bound: one edit of a log that was not edited yet.                       *)
Without(s, i) == SubSeq(s, 1, i - 1) \o SubSeq(s, i + 1, Len(s))
Swapped(s, i) == [s EXCEPT ![i] = s[i + 1], ![i + 1] = s[i]]
Forged(s, i) == [s EXCEPT ![i].body = 0]
Rechained(s) ==
  [i \in 1..Len(s) |-> [body |-> s[i].body, hash |-> [j \in 1..i |-> s[j].body]]]
Edits(s) ==
  {Without(s, i) : i \in 1..Len(s)} \cup {Swapped(s, i) : i \in 1..(Len(s) - 1)}
    \cup {Forged(s, i) : i \in 1..Len(s)}

Edit(new) ==
  /\ "edit" \in Ops /\ LockFree /\ log = good
  /\ log' = new
  /\ UNCHANGED <<memVars, tip, rotated, good, nextBody>>

(* hal/src/approval_flow.rs appends its own lines, without a chain hash, to *)
(* the same ~/.cognos/audit.log.                                            *)
DaemonEntry ==
  LET line == [body |-> nextBody, hash |-> NotChained]
  IN /\ "daemon" \in Ops /\ nextBody <= MaxEntries
     /\ log' = Append(log, line) /\ good' = Append(good, line)
     /\ nextBody' = nextBody + 1
     /\ UNCHANGED <<memVars, tip, rotated>>

-----------------------------------------------------------------------------
Step(t) ==
  \/ Build(t) \/ (\E late \in BOOLEAN : Push(t, late))
  \/ Flush(t) \/ FlushWrite(t) \/ TruncTip(t) \/ WriteTip(t)
  \/ Verify(t) \/ ReadLog(t) \/ ReadTip(t)
  \/ Wipe(t) \/ WipeReset(t)

Next ==
  \/ \E t \in Thread : Step(t)
  \/ \E n \in 0..Len(pending) : Crash(n)
  \/ \E e \in Edits(log) : Edit(e) \/ Edit(Rechained(e))
  \/ DaemonEntry

Spec == Init /\ [][Next]_vars

-----------------------------------------------------------------------------
(* Properties *)

(* Nobody is inside the log's operations, and everything is flushed. *)
Quiescent == pending = <<>> /\ \A t \in Thread : pc[t] = "idle"

(* "appends must extend the chain correctly" (docs/FORMAL_MODELS.md): when  *)
(* no operation is under way and nobody edited the file, the log on disk    *)
(* verifies against the persisted tip.                                      *)
QuiescentVerifies == (Quiescent /\ log = good) => Verifies(log, tip)

(* verify() answers "valid" for exactly the logs nobody edited: it detects  *)
(* content edits, truncation, reordering and deletion (docs/HAL_AUDIT.md)   *)
(* and never raises a false alarm.                                          *)
VerdictExact ==
  \A t \in Thread : (pc[t] = "idle" /\ verdict[t] # "none")
                       => (verdict[t] = "valid" <=> seen[t].good)

(* The places an entry can be between build_entry and the disk. *)
SeqBodies(s) == {s[i].body : i \in 1..Len(s)}
Held == {entry[t].body : t \in {u \in Thread : pc[u] = "built"}}
OnDisk == SeqBodies(log) \cup UNION {SeqBodies(rotated[i]) : i \in 1..Len(rotated)}

(* Every entry built is in one place: held by its thread, pending, or on    *)
(* disk, in the log or in a rotated file.  No interleaving of appends,      *)
(* flushes and rotations duplicates one, or loses one before the oldest of  *)
(* the rotated files has to go.                                             *)
Accounted ==
  /\ Len(rotated) < MaxRotated
       => Held \cup SeqBodies(pending) \cup OnDisk = 1..(nextBody - 1)
  /\ Held \cap SeqBodies(pending) = {} /\ Held \cap OnDisk = {}
  /\ SeqBodies(pending) \cap OnDisk = {}
  /\ Cardinality(SeqBodies(log)) = Len(log)

(* No two entries of the log's file commit to the same predecessor: the     *)
(* first lock of append() serialises the chain, even where the second one   *)
(* writes it out of order.                                                  *)
NoFork ==
  \A i, j \in {k \in 1..Len(log) : log[k].hash # NotChained} :
    SubSeq(log[i].hash, 1, Len(log[i].hash) - 1)
      = SubSeq(log[j].hash, 1, Len(log[j].hash) - 1) => i = j

(* With one writer the persisted tip never runs ahead of the files: unless  *)
(* the process dies inside a wipe, open_at() resumes the chain from an      *)
(* entry that was written (or from Genesis), because flush_inner writes the *)
(* lines before the tip.                                                    *)
TipOnDisk ==
  \/ tip = Genesis \/ \E t \in Thread : pc[t] = "wipe"
  \/ \E f \in {good} \cup {rotated[i] : i \in 1..Len(rotated)} :
       \E i \in 1..Len(f) : f[i].hash = tip

(* The inductive invariant of a log with one thread and no rotation. *)

SingleWriter ==
  /\ \E t : Thread = {t}
  /\ Ops \cap {"rotate", "crash_in_flush", "daemon"} = {}

(* The hash the next entry has to commit to. *)
ChainEnd == IF pending = <<>> THEN HeadHash(good) ELSE HeadHash(pending)

(* The unedited log and the pending entries continue one chain. *)
ChainInv == Chained(Genesis, good) /\ Chained(HeadHash(good), pending)

(* previous_hash and the tip are the ends of that chain, except inside the  *)
(* operations that move them.                                               *)
EndsInv(t) ==
  /\ pc[t] = "built" => /\ entry[t].hash = Hash(ChainEnd, entry[t].body)
                        /\ prev = entry[t].hash
  /\ pc[t] \notin {"built", "wipe"} => prev = ChainEnd
  /\ pc[t] \notin {"trunc", "tip", "wipe"} => tip = HeadHash(good)
  /\ pc[t] \in {"trunc", "tip", "wipe"} => pending = <<>>
  /\ pc[t] = "wipe" => good = <<>>

(* What verify read is what it will be compared with. *)
SeenInv(t) ==
  /\ (pc[t] = "readtip" /\ seen[t].good) => Verifies(seen[t].lines, tip)
  /\ verdict[t] = "invalid" => (pc[t] = "readtip" \/ ~ seen[t].good)

WriterInv == TypeOK /\ ChainInv /\ \A t \in Thread : EndsInv(t) /\ SeenInv(t)

(* What verify read is unedited exactly when it is the log as written, and  *)
(* its verdict says so.                                                     *)
VerdictInv(t) ==
  /\ pc[t] = "readtip" => (seen[t].good <=> seen[t].lines = good)
  /\ (pc[t] # "readtip" /\ verdict[t] # "none")
       => (verdict[t] = "valid" <=> seen[t].good)

(* Inside a flush the tip is one that was written before, or is empty. *)
TipInv(t) ==
  /\ pc[t] = "tip" => tip = Genesis
  /\ pc[t] = "trunc" => tip = Genesis \/ \E i \in 1..Len(good) : good[i].hash = tip

ExactInv == WriterInv /\ \A t \in Thread : VerdictInv(t) /\ TipInv(t)

(* verify() never reports an unedited log as tampered with. *)
NoFalseAlarm ==
  \A t \in Thread : (pc[t] = "idle" /\ verdict[t] = "invalid") => ~ seen[t].good

-----------------------------------------------------------------------------
(* The inductive invariants of a log that several threads share, in a process *)
(* that neither wipes it nor dies.                                            *)

SharedAppends == Ops \subseteq {"rotate", "daemon"}

Built(t) == pc[t] = "built"
Bodies == 1..(nextBody - 1)

(* A body has been given out, and at most once among the threads' entries, *)
(* among the pending ones and among the lines of the log.                  *)
BodyInv ==
  /\ nextBody > 0
  /\ Held \cup SeqBodies(pending) \cup OnDisk \subseteq Bodies
  /\ \A t, u \in Thread : (Built(t) /\ Built(u) /\ entry[t].body = entry[u].body) => t = u
  /\ \A i, j \in 1..Len(pending) : pending[i].body = pending[j].body => i = j
  /\ \A i, j \in 1..Len(log) : log[i].body = log[j].body => i = j

(* An entry commits to as many contents as the chain had when it was built. *)
Height(e) == Len(e.hash)
ChainedLines == {k \in 1..Len(log) : log[k].hash # NotChained}

(* No two entries were built at the same height of the chain, wherever they *)
(* are now, and none above the chain's end.                                 *)
HeightInv ==
  /\ \A t \in Thread : Built(t) => Height(entry[t]) \in 1..Len(prev)
  /\ \A i \in 1..Len(pending) : Height(pending[i]) \in 1..Len(prev)
  /\ \A i \in ChainedLines : Height(log[i]) \in 1..Len(prev)
  /\ \A t, u \in Thread :
       (Built(t) /\ Built(u) /\ Height(entry[t]) = Height(entry[u])) => t = u
  /\ \A i, j \in 1..Len(pending) : Height(pending[i]) = Height(pending[j]) => i = j
  /\ \A i, j \in ChainedLines : Height(log[i]) = Height(log[j]) => i = j
  /\ \A t \in Thread : Built(t) =>
       /\ \A i \in 1..Len(pending) : Height(pending[i]) # Height(entry[t])
       /\ \A i \in ChainedLines : Height(log[i]) # Height(entry[t])
  /\ \A i \in 1..Len(pending), j \in ChainedLines : Height(pending[i]) # Height(log[j])

NobodyWipes == \A t \in Thread : pc[t] # "wipe"

SharedInv == TypeOK /\ NobodyWipes /\ BodyInv /\ Accounted /\ HeightInv
===============================================================================
