---------------------------- MODULE AuditLogProofs ----------------------------
(***************************************************************************)
(* With one thread and no rotation, the audit log always verifies and      *)
(* verify() raises no false alarm, for any number of entries, any flush    *)
(* threshold, wipes, edits of the file and crashes between operations.     *)
(* For any number of threads: the log's types, under every move of the     *)
(* environment; and, for a process that neither wipes the log nor dies,    *)
(* that every entry is in one place and that the chain never forks,        *)
(* although append() takes the mutex twice.                                *)
(***************************************************************************)
EXTENDS AuditLog, ProofLemmas, TLAPS

(* A chain followed by entries that continue it is a chain, and its head is *)
(* the head of the continuation if there is one.                            *)
LEMMA ChainConcat ==
  ASSUME NEW a \in Seq(Entry), NEW b \in Seq(Entry),
         Chained(Genesis, a), Chained(HeadHash(a), b)
  PROVE  /\ Chained(Genesis, a \o b)
         /\ HeadHash(a \o b) = IF b = <<>> THEN HeadHash(a) ELSE HeadHash(b)
<1>1. /\ a \o b \in Seq(Entry)
      /\ Len(a \o b) = Len(a) + Len(b)
      /\ \A i \in 1..Len(a) : (a \o b)[i] = a[i]
      /\ \A i \in (Len(a) + 1)..(Len(a) + Len(b)) : (a \o b)[i] = b[i - Len(a)]
  OBVIOUS
<1>2. Len(a) \in Nat /\ Len(b) \in Nat
  OBVIOUS
<1> DEFINE c == a \o b
<1> HIDE DEF c
<1>3. ASSUME NEW i \in 1..Len(c)
      PROVE  c[i].hash = Hash(IF i = 1 THEN Genesis ELSE c[i - 1].hash, c[i].body)
  <2>1. CASE i <= Len(a)
    <3>1. c[i] = a[i] /\ (i # 1 => c[i - 1] = a[i - 1]) /\ i \in 1..Len(a)
      BY <1>1, <1>2, <2>1 DEF c
    <3> QED
      BY <3>1 DEF Chained
  <2>2. CASE i = Len(a) + 1
    <3>1. c[i] = b[1] /\ 1 \in 1..Len(b)
      BY <1>1, <1>2, <2>2 DEF c
    <3>2. b[1].hash = Hash(HeadHash(a), b[1].body)
      BY <3>1 DEF Chained
    <3>3. HeadHash(a) = IF i = 1 THEN Genesis ELSE c[i - 1].hash
      <4>1. CASE i = 1
        BY <1>2, <2>2, <4>1 DEF HeadHash
      <4>2. CASE i # 1
        <5>1. a # <<>> /\ c[i - 1] = a[Len(a)]
          BY <1>1, <1>2, <2>2, <4>2 DEF c
        <5> QED
          BY <4>2, <5>1, <2>2 DEF HeadHash
      <4> QED
        BY <4>1, <4>2
    <3> QED
      BY <3>1, <3>2, <3>3
  <2>3. CASE i > Len(a) + 1
    <3>1. /\ c[i] = b[i - Len(a)] /\ c[i - 1] = b[(i - Len(a)) - 1]
          /\ i - Len(a) \in 1..Len(b) /\ i - Len(a) # 1 /\ i # 1
      BY <1>1, <1>2, <2>3 DEF c
    <3> QED
      BY <3>1 DEF Chained
  <2>4. i \in Int /\ Len(a) \in Int
    BY <1>2
  <2> QED
    BY <2>1, <2>2, <2>3, <2>4
<1>4. Chained(Genesis, c)
  BY <1>3 DEF Chained
<1>5. HeadHash(c) = IF b = <<>> THEN HeadHash(a) ELSE HeadHash(b)
  <2>1. CASE b = <<>>
    BY <2>1 DEF c
  <2>2. CASE b # <<>>
    <3>1. Len(b) > 0 /\ c # <<>> /\ Len(c) = Len(a) + Len(b)
      BY <1>1, <2>2 DEF c
    <3>2. c[Len(c)] = b[Len(b)]
      BY <1>1, <1>2, <3>1 DEF c
    <3> QED
      BY <2>2, <3>1, <3>2 DEF HeadHash
  <2> QED
    BY <2>1, <2>2
<1> QED
  BY <1>4, <1>5 DEF c

(* Pushing an entry that commits to the end of the chain extends it. *)
LEMMA ChainAppend ==
  ASSUME NEW h \in Seq(Nat), NEW s \in Seq(Entry), NEW e \in Entry,
         Chained(h, s),
         e.hash = Hash(IF s = <<>> THEN h ELSE HeadHash(s), e.body)
  PROVE  /\ Chained(h, Append(s, e)) /\ HeadHash(Append(s, e)) = e.hash
         /\ Append(s, e) \in Seq(Entry) /\ Append(s, e) # <<>>
<1> DEFINE c == Append(s, e)
<1>1. /\ c \in Seq(Entry) /\ Len(c) = Len(s) + 1 /\ Len(s) \in Nat
      /\ \A i \in 1..Len(s) : c[i] = s[i]
      /\ c[Len(s) + 1] = e
  OBVIOUS
<1> HIDE DEF c
<1>2. ASSUME NEW i \in 1..Len(c)
      PROVE  c[i].hash = Hash(IF i = 1 THEN h ELSE c[i - 1].hash, c[i].body)
  <2>1. CASE i <= Len(s)
    <3>0. i \in 1..Len(s) /\ (i # 1 => i - 1 \in 1..Len(s))
      BY <1>1, <2>1
    <3>1. c[i] = s[i] /\ (i # 1 => c[i - 1] = s[i - 1]) /\ i \in 1..Len(s)
      BY <1>1, <3>0
    <3> QED
      BY <3>1 DEF Chained
  <2>2. CASE i = Len(s) + 1
    <3>1. (s = <<>>) <=> (i = 1)
      BY <1>1, <2>2
    <3>2. s # <<>> => c[i - 1] = s[Len(s)]
      BY <1>1, <2>2, <3>1
    <3> QED
      BY <1>1, <2>2, <3>1, <3>2 DEF HeadHash
  <2> QED
    BY <1>1, <2>1, <2>2
<1>3. c # <<>> /\ HeadHash(c) = e.hash
  BY <1>1 DEF HeadHash
<1> QED
  BY <1>1, <1>2, <1>3 DEF Chained, c

(* An empty sequence of entries is a chain from anywhere. *)
LEMMA ChainEmpty ==
  ASSUME NEW h
  PROVE  <<>> \in Seq(Entry) /\ Chained(h, <<>>) /\ HeadHash(<<>>) = Genesis
  BY DEF Chained, HeadHash

(* The initial state satisfies the invariant. *)
LEMMA InitWriterInv == Init => WriterInv
<1> SUFFICES ASSUME Init PROVE WriterInv
  OBVIOUS
<1> USE DEF Init
<1>1. NoEntry \in Entry /\ Genesis \in Seq(Nat) /\ <<>> \in Seq(Seq(Entry))
      /\ Len(rotated) = 0
  BY DEF NoEntry, Entry, Genesis
<1>2. TypeOK
  BY <1>1, ChainEmpty, BoundsAssumption DEF TypeOK, PC, Genesis
<1>3. ChainInv
  BY ChainEmpty DEF ChainInv
<1>4. \A t \in Thread : EndsInv(t) /\ SeenInv(t)
  BY DEF EndsInv, SeenInv, ChainEnd, HeadHash
<1> QED
  BY <1>2, <1>3, <1>4 DEF WriterInv

-----------------------------------------------------------------------------
(* The steps of the only thread, x. *)

(* What the facts about x amount to once the thread set is known. *)
LEMMA OneThread ==
  ASSUME NEW x, Thread = {x}, WriterInv
  PROVE  TypeOK /\ ChainInv /\ EndsInv(x) /\ SeenInv(x) /\ x \in Thread
  BY DEF WriterInv

(* append: build_entry, then push. *)
LEMMA AppendStep ==
  ASSUME NEW x, Thread = {x}, WriterInv, Build(x) \/ \E late \in BOOLEAN : Push(x, late)
  PROVE  WriterInv'
<1>0. TypeOK /\ ChainInv /\ EndsInv(x) /\ SeenInv(x) /\ x \in Thread
  BY OneThread
<1> USE <1>0
<1>1. CASE Build(x)
  <2>1. /\ prev' = Hash(prev, nextBody) /\ prev' \in Seq(Nat)
        /\ entry'[x] = [body |-> nextBody, hash |-> prev']
        /\ entry' \in [Thread -> Entry]
    <3>1. prev \in Seq(Nat) /\ nextBody \in Nat /\ entry \in [Thread -> Entry]
      BY DEF TypeOK
    <3>2. prev' = Append(prev, nextBody) /\ prev' \in Seq(Nat)
      BY <1>1, <3>1 DEF Build, Hash
    <3>3. [body |-> nextBody, hash |-> prev'] \in Entry
      BY <3>1, <3>2 DEF Entry
    <3> QED
      BY <1>1, <3>1, <3>2, <3>3 DEF Build, Hash
  <2>2. TypeOK'
    <3>1. nextBody' \in Nat /\ pc' \in [Thread -> PC]
      BY <1>1 DEF Build, Goto, TypeOK, PC
    <3> QED
      BY <1>1, <2>1, <3>1 DEF Build, TypeOK, diskVars
  <2>3. ChainInv'
    BY <1>1 DEF Build, ChainInv, diskVars
  <2>4. EndsInv(x)'
    BY <1>1, <2>1 DEF Build, Goto, TypeOK, EndsInv, ChainEnd, diskVars
  <2>5. SeenInv(x)'
    BY <1>1 DEF Build, Goto, TypeOK, SeenInv, diskVars
  <2> QED
    BY <2>2, <2>3, <2>4, <2>5 DEF WriterInv
<1>2. CASE \E late \in BOOLEAN : Push(x, late)
  <2>1. PICK late \in BOOLEAN : Push(x, late)
    BY <1>2
  <2>2. /\ pc[x] = "built" /\ pending' = Append(pending, entry[x])
        /\ pc' \in [Thread -> PC] /\ pc'[x] \in {"flush", "idle"}
        /\ after' \in [Thread -> {"idle", "read"}]
        /\ UNCHANGED <<entry, seen, verdict, prev, log, tip, rotated, good, nextBody>>
    BY <2>1 DEF Push, Goto, TypeOK, PC, diskVars
  <2>3. entry[x] \in Entry /\ pending \in Seq(Entry) /\ HeadHash(good) \in Seq(Nat)
    <3>1. entry[x] \in Entry /\ pending \in Seq(Entry) /\ good \in Seq(Entry)
      BY DEF TypeOK
    <3>2. CASE good = <<>>
      <4>1. <<>> \in Seq(Nat)
        OBVIOUS
      <4> QED
        BY <3>1, <3>2, <4>1 DEF HeadHash, Genesis
    <3>3. CASE good # <<>>
      <4>1. good[Len(good)] \in Entry
        BY <3>1, <3>3
      <4> QED
        BY <3>1, <3>3, <4>1 DEF HeadHash, Entry
    <3> QED
      BY <3>2, <3>3
  <2>4. /\ Chained(HeadHash(good), pending') /\ HeadHash(pending') = entry[x].hash
        /\ pending' \in Seq(Entry) /\ pending' # <<>>
    <3>1. /\ Chained(HeadHash(good), pending)
          /\ entry[x].hash = Hash(IF pending = <<>> THEN HeadHash(good)
                                                   ELSE HeadHash(pending), entry[x].body)
      BY <2>2 DEF ChainInv, EndsInv, ChainEnd
    <3> QED
      BY <2>2, <2>3, <3>1, ChainAppend
  <2>5. TypeOK'
    BY <2>2, <2>4 DEF TypeOK
  <2>6. ChainInv'
    BY <2>2, <2>4 DEF ChainInv
  <2>7. EndsInv(x)'
    BY <2>2, <2>4 DEF EndsInv, ChainEnd
  <2>8. SeenInv(x)'
    BY <2>2 DEF SeenInv
  <2> QED
    BY <2>5, <2>6, <2>7, <2>8 DEF WriterInv
<1> QED
  BY <1>1, <1>2

(* flush() and verify() take the mutex; verify reads the files. *)
LEMMA EnterStep ==
  ASSUME NEW x, Thread = {x}, WriterInv,
         Flush(x) \/ Verify(x) \/ ReadLog(x) \/ ReadTip(x)
  PROVE  WriterInv'
<1>0. TypeOK /\ ChainInv /\ EndsInv(x) /\ SeenInv(x) /\ x \in Thread
  BY OneThread
<1> USE <1>0
<1>1. CASE Flush(x) \/ Verify(x)
  <2>1. /\ pc[x] = "idle" /\ pc' \in [Thread -> PC] /\ pc'[x] \in {"flush", "read"}
        /\ after' \in [Thread -> {"idle", "read"}]
        /\ UNCHANGED <<entry, seen, verdict, pending, prev, log, tip, rotated, good,
                       nextBody>>
    BY <1>1 DEF Flush, Verify, Goto, TypeOK, PC, diskVars
  <2>2. TypeOK' /\ ChainInv'
    BY <2>1 DEF TypeOK, ChainInv
  <2>3. EndsInv(x)' /\ SeenInv(x)'
    BY <2>1 DEF EndsInv, ChainEnd, SeenInv
  <2> QED
    BY <2>2, <2>3 DEF WriterInv
<1>2. CASE ReadLog(x)
  <2>1. /\ pc[x] = "read" /\ pc' \in [Thread -> PC] /\ pc'[x] = "readtip"
        /\ seen' = [seen EXCEPT ![x] = [lines |-> log, good |-> log = good]]
        /\ UNCHANGED <<entry, after, verdict, pending, prev, log, tip, rotated, good,
                       nextBody>>
    BY <1>2 DEF ReadLog, Goto, TypeOK, PC, diskVars
  <2>2. [lines |-> log, good |-> log = good] \in [lines : Seq(Entry), good : BOOLEAN]
    BY DEF TypeOK
  <2>3. TypeOK'
    BY <2>1, <2>2 DEF TypeOK
  <2>4. ChainInv' /\ EndsInv(x)'
    BY <2>1 DEF ChainInv, EndsInv, ChainEnd
  <2>5. seen'[x].lines = log /\ (seen'[x].good => log = good)
    BY <2>1 DEF TypeOK
  <2>6. log = good => Verifies(log, tip)
    BY <2>1 DEF ChainInv, EndsInv, Verifies
  <2>7. SeenInv(x)'
    BY <2>1, <2>5, <2>6 DEF SeenInv
  <2> QED
    BY <2>3, <2>4, <2>7 DEF WriterInv
<1>3. CASE ReadTip(x)
  <2>1. /\ pc[x] = "readtip" /\ pc' \in [Thread -> PC] /\ pc'[x] = "idle"
        /\ verdict' \in [Thread -> {"none", "valid", "invalid"}]
        /\ verdict'[x] = "invalid" => ~ Verifies(seen[x].lines, tip)
        /\ UNCHANGED <<entry, after, seen, pending, prev, log, tip, rotated, good,
                       nextBody>>
    BY <1>3 DEF ReadTip, Goto, TypeOK, PC, diskVars
  <2>2. TypeOK' /\ ChainInv'
    BY <2>1 DEF TypeOK, ChainInv
  <2>3. EndsInv(x)' /\ SeenInv(x)'
    BY <2>1 DEF EndsInv, ChainEnd, SeenInv
  <2> QED
    BY <2>2, <2>3 DEF WriterInv
<1> QED
  BY <1>1, <1>2, <1>3

(* flush_inner: the lines, the truncated tip, the tip. *)
LEMMA FlushStep ==
  ASSUME NEW x, Thread = {x}, "rotate" \notin Ops, WriterInv,
         FlushWrite(x) \/ TruncTip(x) \/ WriteTip(x)
  PROVE  WriterInv'
<1>0. TypeOK /\ ChainInv /\ EndsInv(x) /\ SeenInv(x) /\ x \in Thread
  BY OneThread
<1> USE <1>0
<1>1. CASE FlushWrite(x)
  <2>1. /\ pc[x] = "flush" /\ pc' \in [Thread -> PC] /\ pc'[x] = "trunc"
        /\ log' = log \o pending /\ good' = good \o pending /\ pending' = <<>>
        /\ UNCHANGED <<entry, after, seen, verdict, prev, tip, rotated, nextBody>>
    BY <1>1 DEF FlushWrite, Goto, TypeOK, PC
  <2>2. good \in Seq(Entry) /\ pending \in Seq(Entry) /\ log \in Seq(Entry)
    BY DEF TypeOK
  <2>3. Chained(Genesis, good') /\ HeadHash(good') = ChainEnd
    BY <2>1, <2>2, ChainConcat DEF ChainInv, ChainEnd
  <2>4. log' \in Seq(Entry) /\ good' \in Seq(Entry) /\ pending' \in Seq(Entry)
    BY <2>1, <2>2
  <2>5. TypeOK'
    BY <2>1, <2>4 DEF TypeOK
  <2>6. ChainInv'
    BY <2>1, <2>3, ChainEmpty DEF ChainInv
  <2>7. EndsInv(x)'
    BY <2>1, <2>3 DEF EndsInv, ChainEnd
  <2>8. SeenInv(x)'
    BY <2>1 DEF SeenInv
  <2> QED
    BY <2>5, <2>6, <2>7, <2>8 DEF WriterInv
<1>2. CASE TruncTip(x) \/ WriteTip(x)
  <2>1. /\ pc[x] \in {"trunc", "tip"} /\ pc' \in [Thread -> PC]
        /\ pc'[x] \in {"tip", "idle", "read"}
        /\ tip' \in Seq(Nat) /\ (pc'[x] # "tip" => tip' = prev)
        /\ UNCHANGED <<entry, after, seen, verdict, pending, prev, log, rotated, good,
                       nextBody>>
    <3>1. <<>> \in Seq(Nat) /\ prev \in Seq(Nat)
      BY DEF TypeOK
    <3>2. CASE TruncTip(x)
      BY <3>1, <3>2 DEF TruncTip, Goto, TypeOK, PC, Genesis
    <3>3. CASE WriteTip(x)
      <4>1. after[x] \in {"idle", "read"}
        BY DEF TypeOK
      <4> QED
        BY <3>1, <3>3, <4>1 DEF WriteTip, Goto, TypeOK, PC
    <3> QED
      BY <1>2, <3>2, <3>3
  <2>2. TypeOK' /\ ChainInv'
    BY <2>1 DEF TypeOK, ChainInv
  <2>3. EndsInv(x)' /\ SeenInv(x)'
    BY <2>1 DEF EndsInv, ChainEnd, SeenInv
  <2> QED
    BY <2>2, <2>3 DEF WriterInv
<1> QED
  BY <1>1, <1>2

(* wipe(): a fresh file, then a fresh chain. *)
LEMMA WipeStep ==
  ASSUME NEW x, Thread = {x}, WriterInv, Wipe(x) \/ WipeReset(x)
  PROVE  WriterInv'
<1>0. TypeOK /\ ChainInv /\ EndsInv(x) /\ SeenInv(x) /\ x \in Thread
  BY OneThread
<1> USE <1>0
<1>1. CASE Wipe(x)
  <2>1. /\ pc[x] = "idle" /\ pc' \in [Thread -> PC] /\ pc'[x] = "wipe"
        /\ pending' = <<>> /\ log' = <<>> /\ good' = <<>>
        /\ UNCHANGED <<entry, after, seen, verdict, prev, tip, rotated, nextBody>>
    BY <1>1 DEF Wipe, Goto, TypeOK, PC
  <2>2. TypeOK' /\ ChainInv'
    BY <2>1, ChainEmpty DEF TypeOK, ChainInv
  <2>3. EndsInv(x)' /\ SeenInv(x)'
    BY <2>1 DEF EndsInv, SeenInv
  <2> QED
    BY <2>2, <2>3 DEF WriterInv
<1>2. CASE WipeReset(x)
  <2>1. /\ pc[x] = "wipe" /\ pc' \in [Thread -> PC] /\ pc'[x] = "idle"
        /\ prev' = Genesis /\ tip' = Genesis /\ Genesis \in Seq(Nat)
        /\ UNCHANGED <<entry, after, seen, verdict, pending, log, rotated, good,
                       nextBody>>
    <3>1. Genesis \in Seq(Nat)
      BY DEF Genesis
    <3> QED
      BY <1>2, <3>1 DEF WipeReset, Goto, TypeOK, PC
  <2>2. TypeOK' /\ ChainInv'
    BY <2>1 DEF TypeOK, ChainInv
  <2>3. EndsInv(x)' /\ SeenInv(x)'
    BY <2>1 DEF EndsInv, ChainEnd, HeadHash, SeenInv
  <2> QED
    BY <2>2, <2>3 DEF WriterInv
<1> QED
  BY <1>1, <1>2

(* A crash between operations: open_at() resumes from the tip, which is the *)
(* head of the file.                                                        *)
LEMMA CrashStep ==
  ASSUME NEW x, Thread = {x}, "crash_in_flush" \notin Ops, WriterInv,
         NEW n \in 0..Len(pending), Crash(n)
  PROVE  WriterInv'
<1>0. TypeOK /\ ChainInv /\ EndsInv(x) /\ SeenInv(x) /\ x \in Thread
  BY OneThread
<1> USE <1>0
<1>1. n = 0 /\ pc[x] \notin {"trunc", "tip", "wipe", "flush"}
  BY DEF Crash, LockFree, Locked
<1>2. log \in Seq(Entry) /\ good \in Seq(Entry) /\ pending \in Seq(Entry)
      /\ tip \in Seq(Nat)
  BY DEF TypeOK
<1>3. SubSeq(pending, 1, 0) = <<>>
  BY <1>2
<1>4. log \o <<>> = log /\ good \o <<>> = good
  BY <1>2
<1>5. /\ log' = log /\ good' = good /\ prev' = tip /\ pending' = <<>>
      /\ pc' = [t \in Thread |-> "idle"] /\ entry' = [t \in Thread |-> NoEntry]
      /\ after' = [t \in Thread |-> "idle"] /\ verdict' = [t \in Thread |-> "none"]
      /\ seen' = [t \in Thread |-> [lines |-> <<>>, good |-> TRUE]]
      /\ UNCHANGED <<tip, rotated, nextBody>>
  BY <1>1, <1>3, <1>4 DEF Crash
<1>6. NoEntry \in Entry /\ <<>> \in Seq(Entry)
  BY DEF NoEntry, Entry, Genesis
<1>7. TypeOK'
  BY <1>2, <1>5, <1>6 DEF TypeOK, PC
<1>8. ChainInv'
  BY <1>5, ChainEmpty DEF ChainInv
<1>9. EndsInv(x)' /\ SeenInv(x)'
  BY <1>1, <1>5 DEF EndsInv, ChainEnd, SeenInv
<1> QED
  BY <1>7, <1>8, <1>9 DEF WriterInv

(* An edit of the file changes nothing the invariant speaks of. *)
LEMMA EditStep ==
  ASSUME NEW x, Thread = {x}, WriterInv, NEW new \in Seq(Entry), Edit(new)
  PROVE  WriterInv'
<1>0. TypeOK /\ ChainInv /\ EndsInv(x) /\ SeenInv(x) /\ x \in Thread
  BY OneThread
<1> USE <1>0
<1>1. log' = new /\ UNCHANGED <<pc, entry, after, seen, verdict, pending, prev, tip,
                                rotated, good, nextBody>>
  BY DEF Edit, memVars
<1>2. TypeOK' /\ ChainInv'
  BY <1>1 DEF TypeOK, ChainInv
<1>3. EndsInv(x)' /\ SeenInv(x)'
  BY <1>1 DEF EndsInv, ChainEnd, SeenInv
<1> QED
  BY <1>2, <1>3 DEF WriterInv

(* Edited files still consist of entries. *)
LEMMA EditsAreLogs ==
  ASSUME NEW s \in Seq(Entry), NEW e \in Edits(s)
  PROVE  e \in Seq(Entry) /\ Rechained(e) \in Seq(Entry)
<1>1. e \in Seq(Entry)
  <2>1. CASE \E i \in 1..Len(s) : e = Without(s, i)
    <3>1. PICK i \in 1..Len(s) : e = Without(s, i)
      BY <2>1
    <3>2. SubSeq(s, 1, i - 1) \in Seq(Entry) /\ SubSeq(s, i + 1, Len(s)) \in Seq(Entry)
      OBVIOUS
    <3> QED
      BY <3>1, <3>2 DEF Without
  <2>2. CASE \E i \in 1..(Len(s) - 1) : e = Swapped(s, i)
    <3>1. PICK i \in 1..(Len(s) - 1) : e = Swapped(s, i)
      BY <2>2
    <3>2. i \in 1..Len(s) /\ i + 1 \in 1..Len(s) /\ s[i] \in Entry /\ s[i + 1] \in Entry
      OBVIOUS
    <3> QED
      BY <3>1, <3>2 DEF Swapped
  <2>3. CASE \E i \in 1..Len(s) : e = Forged(s, i)
    <3>1. PICK i \in 1..Len(s) : e = Forged(s, i)
      BY <2>3
    <3>0. s[i] \in Entry
      OBVIOUS
    <3>2. s[i] \in Entry /\ [s[i] EXCEPT !.body = 0] \in Entry
      BY <3>0 DEF Entry
    <3> QED
      BY <3>1, <3>2 DEF Forged
  <2> QED
    BY <2>1, <2>2, <2>3 DEF Edits
<1>2. Rechained(e) \in Seq(Entry)
  <2>1. \A j \in 1..Len(e) : e[j].body \in Nat
    <3>1. \A j \in 1..Len(e) : e[j] \in Entry
      BY <1>1
    <3> QED
      BY <3>1 DEF Entry
  <2>2. ASSUME NEW i \in 1..Len(e)
        PROVE  [body |-> e[i].body, hash |-> [j \in 1..i |-> e[j].body]] \in Entry
    <3>1. i \in Nat /\ \A j \in 1..i : j \in 1..Len(e)
      BY <1>1
    <3>2. [j \in 1..i |-> e[j].body] \in Seq(Nat)
      BY <2>1, <3>1
    <3> QED
      BY <2>1, <3>2 DEF Entry
  <2> QED
    BY <1>1, <2>2 DEF Rechained
<1> QED
  BY <1>1, <1>2

-----------------------------------------------------------------------------
(* The invariant is inductive for a single writer. *)
LEMMA WriterInvNext ==
  ASSUME SingleWriter, WriterInv, [Next]_vars
  PROVE  WriterInv'
<1>1. PICK x : Thread = {x}
  BY DEF SingleWriter
<1>2. "rotate" \notin Ops /\ "crash_in_flush" \notin Ops /\ "daemon" \notin Ops
  BY DEF SingleWriter
<1>3. CASE \E t \in Thread : Step(t)
  BY <1>1, <1>2, <1>3, AppendStep, EnterStep, FlushStep, WipeStep DEF Step
<1>4. CASE \E n \in 0..Len(pending) : Crash(n)
  BY <1>1, <1>2, <1>4, CrashStep
<1>5. CASE \E e \in Edits(log) : Edit(e) \/ Edit(Rechained(e))
  <2>1. log \in Seq(Entry)
    BY DEF WriterInv, TypeOK
  <2> QED
    BY <1>1, <1>5, <2>1, EditsAreLogs, EditStep
<1>6. CASE DaemonEntry
  BY <1>2, <1>6 DEF DaemonEntry
<1>7. CASE UNCHANGED vars
  <2> USE <1>7 DEF vars, memVars, diskVars
  <2>1. TypeOK' /\ ChainInv'
    BY DEF WriterInv, TypeOK, ChainInv
  <2>2. ASSUME NEW t \in Thread PROVE EndsInv(t)' /\ SeenInv(t)'
    BY DEF WriterInv, EndsInv, ChainEnd, SeenInv
  <2> QED
    BY <2>1, <2>2 DEF WriterInv
<1> QED
  BY <1>3, <1>4, <1>5, <1>6, <1>7 DEF Next

(* A log with a single writer keeps its invariant. *)
THEOREM WriterInvariance ==
  ASSUME SingleWriter
  PROVE  Spec => []WriterInv
<1>1. WriterInv /\ [Next]_vars => WriterInv'
  BY WriterInvNext
<1> QED
  BY <1>1, InitWriterInv, PTL DEF Spec

(* With one writer and no rotation, an unedited log verifies whenever no    *)
(* operation is under way, whatever was wiped, edited before or lost in a   *)
(* crash between operations.                                                *)
THEOREM SingleWriterVerifies ==
  ASSUME SingleWriter
  PROVE  Spec => []QuiescentVerifies
<1>1. WriterInv => QuiescentVerifies
  <2> SUFFICES ASSUME WriterInv, Quiescent, log = good PROVE Verifies(log, tip)
    BY DEF QuiescentVerifies
  <2>1. PICK x : Thread = {x}
    BY DEF SingleWriter
  <2>2. pc[x] = "idle"
    BY <2>1 DEF Quiescent
  <2> QED
    BY <2>1, <2>2 DEF WriterInv, ChainInv, EndsInv, Verifies
<1> QED
  BY <1>1, WriterInvariance, PTL

(* verify() never reports an unedited log of a single writer as broken. *)
THEOREM SingleWriterNoFalseAlarm ==
  ASSUME SingleWriter
  PROVE  Spec => []NoFalseAlarm
<1>1. WriterInv => NoFalseAlarm
  BY DEF WriterInv, SeenInv, NoFalseAlarm
<1> QED
  BY <1>1, WriterInvariance, PTL

-----------------------------------------------------------------------------
(* VerdictExact and TipOnDisk. *)

(* The hash of a chain's line is the sequence of the contents up to it. *)
LEMMA ChainContents ==
  ASSUME NEW a \in Seq(Entry), Chained(Genesis, a), NEW i \in 1..Len(a)
  PROVE  /\ a[i].hash \in Seq(Nat) /\ Len(a[i].hash) = i
         /\ \A j \in 1..i : a[i].hash[j] = a[j].body
<1> DEFINE Holds(n) == /\ a[n].hash \in Seq(Nat) /\ Len(a[n].hash) = n
                       /\ \A j \in 1..n : a[n].hash[j] = a[j].body
           S == {n \in Nat : n \in 1..Len(a) => Holds(n)}
<1>1. \A n \in 1..Len(a) : a[n] \in Entry /\ a[n].body \in Nat /\ a[n].hash \in Seq(Nat)
  <2>1. \A n \in 1..Len(a) : a[n] \in Entry
    OBVIOUS
  <2> QED
    BY <2>1 DEF Entry
<1>2. 0 \in S
  OBVIOUS
<1>3. ASSUME NEW n \in S PROVE n + 1 \in S
  <2> SUFFICES ASSUME n + 1 \in 1..Len(a) PROVE Holds(n + 1)
    OBVIOUS
  <2>1. a[n + 1].hash
          = Append(IF n + 1 = 1 THEN Genesis ELSE a[(n + 1) - 1].hash, a[n + 1].body)
    BY DEF Chained, Hash
  <2>2. CASE n = 0
    <3>1. a[n + 1].hash = Append(<<>>, a[n + 1].body)
      BY <2>1, <2>2 DEF Genesis
    <3> QED
      BY <1>1, <2>2, <3>1
  <2>3. CASE n # 0
    <3>1. n \in 1..Len(a) /\ (n + 1) - 1 = n
      BY <2>3
    <3>2. Holds(n)
      BY <3>1
    <3>3. a[n + 1].hash = Append(a[n].hash, a[n + 1].body)
      BY <2>1, <2>3, <3>1
    <3>4. Len(a[n + 1].hash) = n + 1 /\ a[n + 1].hash[n + 1] = a[n + 1].body
      BY <1>1, <3>1, <3>2, <3>3
    <3>5. ASSUME NEW j \in 1..n PROVE a[n + 1].hash[j] = a[j].body
      BY <1>1, <3>1, <3>2, <3>3
    <3> QED
      BY <1>1, <3>4, <3>5
  <2> QED
    BY <2>2, <2>3
<1>4. S = Nat
  <2> HIDE DEF S
  <2>1. S \in SUBSET Nat
    BY DEF S
  <2> QED
    BY <1>2, <1>3, <2>1, NatSetInduction
<1> QED
  BY <1>4

(* Two chains with the same head are the same log: the persisted tip        *)
(* commits to every line.                                                   *)
LEMMA ChainDetermines ==
  ASSUME NEW a \in Seq(Entry), NEW b \in Seq(Entry),
         Chained(Genesis, a), Chained(Genesis, b), HeadHash(a) = HeadHash(b)
  PROVE  a = b
<1>1. \A s \in {a, b} : Chained(Genesis, s) => Len(HeadHash(s)) = Len(s)
  <2> SUFFICES ASSUME NEW s \in {a, b} PROVE Len(HeadHash(s)) = Len(s)
    OBVIOUS
  <2>1. CASE s = <<>>
    BY <2>1 DEF HeadHash, Genesis
  <2>2. CASE s # <<>>
    <3>1. Len(s) \in 1..Len(s)
      BY <2>2
    <3> QED
      BY <2>2, <3>1, ChainContents DEF HeadHash
  <2> QED
    BY <2>1, <2>2
<1>2. Len(a) = Len(b)
  BY <1>1
<1>3. ASSUME NEW i \in 1..Len(a) PROVE a[i] = b[i]
  <2>1. a # <<>> /\ b # <<>> /\ Len(a) \in 1..Len(a) /\ Len(a) \in Nat
    BY <1>2
  <2>2. a[Len(a)].hash = b[Len(a)].hash
    BY <1>2, <2>1 DEF HeadHash
  <2>3. \A j \in 1..Len(a) : a[j].body = b[j].body
    BY <1>2, <2>1, <2>2, ChainContents
  <2>4. /\ a[i].hash \in Seq(Nat) /\ Len(a[i].hash) = i
        /\ b[i].hash \in Seq(Nat) /\ Len(b[i].hash) = i
        /\ \A j \in 1..i : a[i].hash[j] = a[j].body /\ b[i].hash[j] = b[j].body
    BY <1>2, ChainContents
  <2>5. \A j \in 1..i : a[i].hash[j] = b[i].hash[j]
    BY <2>3, <2>4
  <2>6. a[i].hash = b[i].hash
    BY <2>4, <2>5, SeqAgree
  <2>7. \A e \in Entry : e = [body |-> e.body, hash |-> e.hash]
    BY DEF Entry
  <2>8. a[i] \in Entry /\ b[i] \in Entry
    BY <1>2
  <2> QED
    BY <2>3, <2>6, <2>7, <2>8
<1> QED
  BY <1>2, <1>3

(* Every step of a single writer keeps what verify's verdict and the tip of *)
(* a half-done flush rest on.                                               *)
LEMMA ExactStep ==
  ASSUME NEW x, Thread = {x}, "rotate" \notin Ops, "daemon" \notin Ops,
         "crash_in_flush" \notin Ops, ExactInv, [Next]_vars
  PROVE  VerdictInv(x)' /\ TipInv(x)'
<1>0. TypeOK /\ ChainInv /\ EndsInv(x) /\ SeenInv(x) /\ VerdictInv(x) /\ TipInv(x)
      /\ x \in Thread
  BY DEF ExactInv, WriterInv
<1> USE <1>0
<1>1. CASE Build(x) \/ (\E late \in BOOLEAN : Push(x, late)) \/ Flush(x) \/ Verify(x)
  <2>1. /\ pc[x] \in {"idle", "built"} /\ pc'[x] \in {"built", "flush", "idle", "read"}
        /\ UNCHANGED <<seen, verdict, tip, good>>
    BY <1>1 DEF Build, Push, Flush, Verify, Goto, TypeOK, diskVars
  <2> QED
    BY <2>1 DEF VerdictInv, TipInv
<1>2. CASE FlushWrite(x)
  <2>1. /\ pc[x] = "flush" /\ pc'[x] = "trunc" /\ good' = good \o pending
        /\ UNCHANGED <<seen, verdict, tip>> /\ tip = HeadHash(good)
    BY <1>2 DEF FlushWrite, Goto, TypeOK, EndsInv
  <2>2. tip = Genesis \/ \E i \in 1..Len(good') : good'[i].hash = tip
    <3>1. CASE good = <<>>
      BY <2>1, <3>1 DEF HeadHash
    <3>2. CASE good # <<>>
      <4>1. /\ good \in Seq(Entry) /\ pending \in Seq(Entry)
        BY DEF TypeOK
      <4>2. /\ Len(good) \in 1..Len(good') /\ good'[Len(good)] = good[Len(good)]
        BY <2>1, <3>2, <4>1
      <4> QED
        BY <2>1, <3>2, <4>2 DEF HeadHash
    <3> QED
      BY <3>1, <3>2
  <2> QED
    BY <2>1, <2>2 DEF VerdictInv, TipInv
<1>3. CASE TruncTip(x) \/ WriteTip(x)
  <2>1. /\ pc[x] \in {"trunc", "tip"} /\ pc'[x] \in {"tip", "idle", "read"}
        /\ UNCHANGED <<seen, verdict, good>> /\ (pc'[x] = "tip" => tip' = Genesis)
    BY <1>3 DEF TruncTip, WriteTip, Goto, TypeOK
  <2> QED
    BY <2>1 DEF VerdictInv, TipInv
<1>4. CASE ReadLog(x)
  <2>1. /\ pc'[x] = "readtip" /\ UNCHANGED good
        /\ seen'[x] = [lines |-> log, good |-> log = good]
    BY <1>4 DEF ReadLog, Goto, TypeOK, diskVars
  <2>2. seen'[x].lines = log /\ seen'[x].good = (log = good)
    BY <2>1
  <2>3. seen'[x].good <=> log = good
    BY <2>1, <2>2
  <2> QED
    BY <2>1, <2>2, <2>3 DEF VerdictInv, TipInv
<1>5. CASE ReadTip(x)
  <2>1. /\ pc[x] = "readtip" /\ pc'[x] = "idle" /\ UNCHANGED <<seen, tip, good>>
        /\ verdict'[x] = IF Verifies(seen[x].lines, tip) THEN "valid" ELSE "invalid"
    BY <1>5 DEF ReadTip, Goto, TypeOK, diskVars
  <2>2. seen[x].lines \in Seq(Entry) /\ good \in Seq(Entry) /\ seen[x].good \in BOOLEAN
    BY DEF TypeOK
  <2>3. Chained(Genesis, good) /\ tip = HeadHash(good)
    BY <2>1 DEF ChainInv, EndsInv
  <2>4. Verifies(seen[x].lines, tip) <=> seen[x].lines = good
    BY <2>2, <2>3, ChainDetermines DEF Verifies
  <2>5. (verdict'[x] = "valid") <=> seen'[x].good
    BY <2>1, <2>4 DEF VerdictInv
  <2> QED
    BY <2>1, <2>5 DEF VerdictInv, TipInv
<1>6. CASE Wipe(x) \/ WipeReset(x)
  <2>1. /\ pc[x] \in {"idle", "wipe"} /\ pc'[x] \in {"idle", "wipe"}
        /\ UNCHANGED <<seen, verdict>>
    BY <1>6 DEF Wipe, WipeReset, Goto, TypeOK
  <2> QED
    BY <2>1 DEF VerdictInv, TipInv
<1>7. CASE \E n \in 0..Len(pending) : Crash(n)
  <2>1. pc'[x] = "idle" /\ verdict'[x] = "none"
    BY <1>7 DEF Crash
  <2> QED
    BY <2>1 DEF VerdictInv, TipInv
<1>8. CASE \E new : Edit(new)
  <2>1. UNCHANGED <<pc, seen, verdict, tip, good>>
    BY <1>8 DEF Edit, memVars
  <2> QED
    BY <2>1 DEF VerdictInv, TipInv
<1>9. CASE UNCHANGED vars
  BY <1>9 DEF vars, memVars, diskVars, VerdictInv, TipInv
<1>10. ~ DaemonEntry
  BY DEF DaemonEntry
<1> QED
  BY <1>1, <1>2, <1>3, <1>4, <1>5, <1>6, <1>7, <1>8, <1>9, <1>10 DEF Next, Step

(* A log with a single writer keeps the stronger invariant as well. *)
THEOREM ExactInvariance ==
  ASSUME SingleWriter
  PROVE  Spec => []ExactInv
<1>1. Init => ExactInv
  BY InitWriterInv DEF Init, ExactInv, VerdictInv, TipInv
<1>2. ExactInv /\ [Next]_vars => ExactInv'
  <2> SUFFICES ASSUME ExactInv, [Next]_vars PROVE ExactInv'
    OBVIOUS
  <2>1. PICK x : Thread = {x}
    BY DEF SingleWriter
  <2>2. WriterInv'
    BY WriterInvNext DEF ExactInv
  <2>3. VerdictInv(x)' /\ TipInv(x)'
    BY <2>1, ExactStep DEF SingleWriter
  <2> QED
    BY <2>1, <2>2, <2>3 DEF ExactInv
<1> QED
  BY <1>1, <1>2, PTL DEF Spec

(* verify()'s verdict is exact for a log with one writer, whatever is wiped, *)
(* edited or lost in a crash between operations: "valid" for the log as it   *)
(* was written and for no other, because a head determines its whole chain.  *)
THEOREM SingleWriterVerdictExact ==
  ASSUME SingleWriter
  PROVE  Spec => []VerdictExact
<1>1. ExactInv => VerdictExact
  BY DEF ExactInv, VerdictInv, VerdictExact
<1> QED
  BY <1>1, ExactInvariance, PTL

(* The tip that a restart resumes from is an entry of the file, or Genesis,  *)
(* or a wipe is half done: the lines are written before the tip.             *)
THEOREM SingleWriterTipOnDisk ==
  ASSUME SingleWriter
  PROVE  Spec => []TipOnDisk
<1>1. ExactInv => TipOnDisk
  <2> SUFFICES ASSUME ExactInv, tip # Genesis, NEW x, Thread = {x}, pc[x] # "wipe"
               PROVE  \E i \in 1..Len(good) : good[i].hash = tip
    BY DEF TipOnDisk, SingleWriter
  <2> USE DEF ExactInv, WriterInv
  <2>1. CASE pc[x] \in {"trunc", "tip"}
    BY <2>1 DEF TipInv
  <2>2. CASE pc[x] \notin {"trunc", "tip"}
    <3>1. tip = HeadHash(good) /\ good \in Seq(Entry)
      BY <2>2 DEF EndsInv, TypeOK
    <3>2. good # <<>> /\ Len(good) \in 1..Len(good)
      BY <3>1 DEF HeadHash
    <3> QED
      BY <3>1, <3>2 DEF HeadHash
  <2> QED
    BY <2>1, <2>2
<1> QED
  BY <1>1, ExactInvariance, PTL

-------------------------------------------------------------------------------
(* Any number of threads. *)


(* rotate_static puts the file first, moves the others on, and keeps at     *)
(* most MaxRotated of them.                                                 *)
LEMMA RotateFacts ==
  ASSUME NEW f \in Seq(Entry), rotated \in Seq(Seq(Entry))
  PROVE  /\ Rotate(f) \in Seq(Seq(Entry)) /\ Len(Rotate(f)) <= MaxRotated
         /\ Len(Rotate(f)) = IF Len(rotated) + 1 > MaxRotated THEN MaxRotated
                                                              ELSE Len(rotated) + 1
         /\ \A i \in 1..Len(Rotate(f)) :
              Rotate(f)[i] = IF i = 1 THEN f ELSE rotated[i - 1]
<1> DEFINE all == <<f>> \o rotated
           n == IF Len(all) > MaxRotated THEN MaxRotated ELSE Len(all)
<1>1. MaxRotated \in Nat
  BY BoundsAssumption
<1>2. /\ all \in Seq(Seq(Entry)) /\ Len(all) = Len(rotated) + 1 /\ Len(rotated) \in Nat
      /\ \A i \in 1..Len(all) : all[i] = IF i = 1 THEN f ELSE rotated[i - 1]
  <2>1. <<f>> \in Seq(Seq(Entry)) /\ Len(<<f>>) = 1 /\ <<f>>[1] = f
    OBVIOUS
  <2> QED
    BY <2>1
<1>3. n \in Nat /\ n <= Len(all) /\ n <= MaxRotated
  BY <1>1, <1>2
<1>4. Rotate(f) = SubSeq(all, 1, n)
  BY DEF Rotate
<1> HIDE DEF all, n
<1>5. /\ SubSeq(all, 1, n) \in Seq(Seq(Entry)) /\ Len(SubSeq(all, 1, n)) = n
      /\ \A i \in 1..n : SubSeq(all, 1, n)[i] = all[i]
  BY <1>2, <1>3
<1>6. \A i \in 1..n : i \in 1..Len(all)
  BY <1>2, <1>3
<1> QED
  BY <1>1, <1>2, <1>3, <1>4, <1>5, <1>6 DEF n

-----------------------------------------------------------------------------
(* TypeOK *)

(* The initial state is typed. *)
LEMMA InitTypes == Init => TypeOK
  BY InitWriterInv DEF WriterInv

(* append, the entries of flush and verify, the reads. *)
LEMMA MemoryTypes ==
  ASSUME TypeOK, NEW t \in Thread,
         \/ Build(t) \/ (\E late \in BOOLEAN : Push(t, late))
         \/ Flush(t) \/ Verify(t) \/ ReadLog(t) \/ ReadTip(t)
  PROVE  TypeOK'
<1> USE DEF TypeOK
<1>1. UNCHANGED diskVars
  BY DEF Build, Push, Flush, Verify, ReadLog, ReadTip
<1>2. pc' \in [Thread -> PC] /\ after' \in [Thread -> {"idle", "read"}]
      /\ verdict' \in [Thread -> {"none", "valid", "invalid"}]
  BY DEF Build, Push, Flush, Verify, ReadLog, ReadTip, Goto, PC
<1>3. prev' \in Seq(Nat) /\ entry' \in [Thread -> Entry] /\ nextBody' \in Nat
  <2>1. CASE Build(t)
    <3>1. prev' \in Seq(Nat)
      BY <2>1 DEF Build, Hash
    <3>2. [body |-> nextBody, hash |-> prev'] \in Entry
      BY <3>1 DEF Entry
    <3> QED
      BY <2>1, <3>1, <3>2 DEF Build
  <2>2. CASE \E late \in BOOLEAN : Push(t, late)
    BY <2>2 DEF Push
  <2>3. CASE Flush(t) \/ Verify(t) \/ ReadLog(t) \/ ReadTip(t)
    BY <2>3 DEF Flush, Verify, ReadLog, ReadTip
  <2> QED
    BY <2>1, <2>2, <2>3
<1>4. pending' \in Seq(Entry)
  <2>1. Append(pending, entry[t]) \in Seq(Entry)
    OBVIOUS
  <2>2. pending' \in {pending, Append(pending, entry[t])}
    BY DEF Build, Push, Flush, Verify, ReadLog, ReadTip
  <2> QED
    BY <2>1, <2>2
<1>5. seen' \in [Thread -> [lines : Seq(Entry), good : BOOLEAN]]
  <2>1. CASE ReadLog(t)
    <3>1. [lines |-> log, good |-> log = good] \in [lines : Seq(Entry), good : BOOLEAN]
      OBVIOUS
    <3> QED
      BY <2>1, <3>1 DEF ReadLog
  <2>2. ReadLog(t) \/ UNCHANGED seen
    BY DEF Build, Push, Flush, Verify, ReadTip
  <2> QED
    BY <2>1, <2>2
<1> QED
  BY <1>1, <1>2, <1>3, <1>4, <1>5 DEF diskVars

(* flush_inner and wipe write the files. *)
LEMMA FileTypes ==
  ASSUME TypeOK, NEW t \in Thread,
         FlushWrite(t) \/ TruncTip(t) \/ WriteTip(t) \/ Wipe(t) \/ WipeReset(t)
  PROVE  TypeOK'
<1> USE DEF TypeOK
<1>1. <<>> \in Seq(Entry) /\ Genesis \in Seq(Nat)
  BY DEF Genesis
<1>2. pc' \in [Thread -> PC]
  BY DEF FlushWrite, TruncTip, WriteTip, Wipe, WipeReset, Goto, PC
<1>3. UNCHANGED <<entry, after, seen, verdict, nextBody>>
  BY DEF FlushWrite, TruncTip, WriteTip, Wipe, WipeReset
<1>4. pending' \in Seq(Entry) /\ prev' \in Seq(Nat) /\ tip' \in Seq(Nat)
  BY <1>1 DEF FlushWrite, TruncTip, WriteTip, Wipe, WipeReset
<1>5. log' \in Seq(Entry) /\ good' \in Seq(Entry)
  <2>1. log \o pending \in Seq(Entry) /\ good \o pending \in Seq(Entry)
    OBVIOUS
  <2> QED
    BY <1>1, <2>1 DEF FlushWrite, TruncTip, WriteTip, Wipe, WipeReset
<1>6. rotated' \in Seq(Seq(Entry)) /\ Len(rotated') <= MaxRotated
  BY RotateFacts DEF FlushWrite, TruncTip, WriteTip, Wipe, WipeReset
<1> QED
  BY <1>2, <1>3, <1>4, <1>5, <1>6

(* A restart, an edit of the file, a line of the approval daemon. *)
LEMMA OutsideTypes ==
  ASSUME TypeOK,
         \/ \E n \in 0..Len(pending) : Crash(n)
         \/ \E e \in Edits(log) : Edit(e) \/ Edit(Rechained(e))
         \/ DaemonEntry
  PROVE  TypeOK'
<1> USE DEF TypeOK
<1>1. CASE \E n \in 0..Len(pending) : Crash(n)
  <2>1. PICK n \in 0..Len(pending) : Crash(n)
    BY <1>1
  <2>2. NoEntry \in Entry /\ <<>> \in Seq(Entry)
    BY DEF NoEntry, Entry, Genesis
  <2>3. SubSeq(pending, 1, n) \in Seq(Entry)
    OBVIOUS
  <2> QED
    BY <2>1, <2>2, <2>3 DEF Crash, PC
<1>2. CASE \E e \in Edits(log) : Edit(e) \/ Edit(Rechained(e))
  <2>1. log' \in Seq(Entry)
    BY <1>2, EditsAreLogs DEF Edit
  <2> QED
    BY <1>2, <2>1 DEF Edit, memVars
<1>3. CASE DaemonEntry
  <2>1. [body |-> nextBody, hash |-> NotChained] \in Entry
    BY DEF Entry, NotChained
  <2> QED
    BY <1>3, <2>1 DEF DaemonEntry, memVars
<1> QED
  BY <1>1, <1>2, <1>3

(* Every step keeps the types. *)
LEMMA TypeStep == TypeOK /\ [Next]_vars => TypeOK'
<1> SUFFICES ASSUME TypeOK, [Next]_vars PROVE TypeOK'
  OBVIOUS
<1>1. CASE UNCHANGED vars
  BY <1>1 DEF vars, memVars, diskVars, TypeOK
<1> QED
  BY <1>1, MemoryTypes, FileTypes, OutsideTypes DEF Next, Step

(* The log's state keeps its types, for any threads, thresholds and moves of *)
(* the environment; in particular no more than MaxRotated rotated files stay. *)
THEOREM LogTypes == Spec => []TypeOK
  BY InitTypes, TypeStep, PTL DEF Spec

-----------------------------------------------------------------------------
(* Accounted *)

(* The bodies of a concatenation and of an appended entry. *)
LEMMA BodiesOfConcat ==
  ASSUME NEW a \in Seq(Entry), NEW b \in Seq(Entry)
  PROVE  SeqBodies(a \o b) = SeqBodies(a) \cup SeqBodies(b)
<1> DEFINE c == a \o b
<1>1. /\ Len(a) \in Nat /\ Len(b) \in Nat /\ Len(c) = Len(a) + Len(b)
      /\ \A i \in 1..Len(a) : c[i] = a[i]
      /\ \A i \in 1..Len(b) : c[Len(a) + i] = b[i]
  OBVIOUS
<1> HIDE DEF c
<1>2. ASSUME NEW i \in 1..Len(c)
      PROVE  c[i].body \in SeqBodies(a) \cup SeqBodies(b)
  <2>1. CASE i \in 1..Len(a)
    BY <1>1, <2>1 DEF SeqBodies
  <2>2. CASE i \notin 1..Len(a)
    <3>1. i - Len(a) \in 1..Len(b) /\ i = Len(a) + (i - Len(a))
      BY <1>1, <2>2
    <3> QED
      BY <1>1, <3>1 DEF SeqBodies
  <2> QED
    BY <2>1, <2>2
<1>3. ASSUME NEW i \in 1..Len(a) PROVE a[i].body \in SeqBodies(c)
  <2>1. i \in 1..Len(c) /\ c[i] = a[i]
    BY <1>1
  <2> QED
    BY <2>1 DEF SeqBodies
<1>4. ASSUME NEW i \in 1..Len(b) PROVE b[i].body \in SeqBodies(c)
  <2>1. Len(a) + i \in 1..Len(c) /\ c[Len(a) + i] = b[i]
    BY <1>1
  <2> QED
    BY <2>1 DEF SeqBodies
<1>5. SeqBodies(c) = SeqBodies(a) \cup SeqBodies(b)
  BY <1>2, <1>3, <1>4 DEF SeqBodies
<1> QED
  BY <1>5 DEF c

(* The bodies of a log with one more line. *)
LEMMA BodiesOfAppend ==
  ASSUME NEW a \in Seq(Entry), NEW e \in Entry
  PROVE  SeqBodies(Append(a, e)) = SeqBodies(a) \cup {e.body}
<1> DEFINE c == Append(a, e)
<1>1. /\ Len(a) \in Nat /\ Len(c) = Len(a) + 1 /\ c[Len(a) + 1] = e
      /\ \A i \in 1..Len(a) : c[i] = a[i]
  OBVIOUS
<1> HIDE DEF c
<1>2. ASSUME NEW i \in 1..Len(c)
      PROVE  c[i].body \in SeqBodies(a) \cup {e.body}
  <2>1. CASE i \in 1..Len(a)
    BY <1>1, <2>1 DEF SeqBodies
  <2>2. CASE i = Len(a) + 1
    BY <1>1, <2>2
  <2> QED
    BY <1>1, <2>1, <2>2
<1>3. ASSUME NEW i \in 1..Len(a) PROVE a[i].body \in SeqBodies(c)
  <2>1. i \in 1..Len(c) /\ c[i] = a[i]
    BY <1>1
  <2> QED
    BY <2>1 DEF SeqBodies
<1>4. e.body \in SeqBodies(c)
  <2>1. Len(a) + 1 \in 1..Len(c)
    BY <1>1
  <2> QED
    BY <1>1, <2>1 DEF SeqBodies
<1>5. SeqBodies(c) = SeqBodies(a) \cup {e.body}
  BY <1>2, <1>3, <1>4 DEF SeqBodies
<1> QED
  BY <1>5 DEF c

(* Lines with different bodies: so many bodies as lines. *)
LEMMA AsManyBodiesAsLines ==
  ASSUME NEW s \in Seq(Entry), \A i, j \in 1..Len(s) : s[i].body = s[j].body => i = j
  PROVE  Cardinality(SeqBodies(s)) = Len(s)
<1> DEFINE f == [i \in 1..Len(s) |-> s[i].body]
<1>1. /\ Len(s) \in Nat /\ DOMAIN f = 1..Len(s)
      /\ \A i, j \in 1..Len(s) : f[i] = f[j] => i = j
  OBVIOUS
<1>2. SeqBodies(s) = {f[i] : i \in 1..Len(s)}
  BY DEF SeqBodies
<1> HIDE DEF f
<1> QED
  BY <1>1, <1>2, DistinctCardinality

(* The bodies in the files, split into those of the log and the older ones. *)
Older == UNION {SeqBodies(rotated[i]) : i \in 1..Len(rotated)}

(* A rotation may drop the oldest file, and only when all slots are full. *)
LEMMA RotatedBodies ==
  ASSUME NEW f \in Seq(Entry), rotated \in Seq(Seq(Entry)), rotated' = Rotate(f),
         Len(rotated) <= MaxRotated
  PROVE  /\ Older' \subseteq SeqBodies(f) \cup Older
         /\ Len(rotated') < MaxRotated => /\ Older' = SeqBodies(f) \cup Older
                                          /\ Len(rotated) < MaxRotated
<1>1. /\ Len(rotated') = IF Len(rotated) + 1 > MaxRotated THEN MaxRotated
                                                          ELSE Len(rotated) + 1
      /\ \A i \in 1..Len(rotated') : rotated'[i] = IF i = 1 THEN f ELSE rotated[i - 1]
      /\ Len(rotated) \in Nat /\ MaxRotated \in Nat
  <2>1. Len(rotated) \in Nat /\ MaxRotated \in Nat
    BY BoundsAssumption
  <2>2. /\ Len(Rotate(f)) = IF Len(rotated) + 1 > MaxRotated THEN MaxRotated
                                                             ELSE Len(rotated) + 1
        /\ \A i \in 1..Len(Rotate(f)) :
             Rotate(f)[i] = IF i = 1 THEN f ELSE rotated[i - 1]
    BY RotateFacts
  <2> QED
    BY <2>1, <2>2
<1>2. ASSUME NEW i \in 1..Len(rotated')
      PROVE  SeqBodies(rotated'[i]) \subseteq SeqBodies(f) \cup Older
  <2>1. CASE i = 1
    BY <1>1, <2>1
  <2>2. CASE i # 1
    <3>1. i - 1 \in 1..Len(rotated) /\ rotated'[i] = rotated[i - 1]
      BY <1>1, <2>2
    <3> QED
      BY <3>1 DEF Older
  <2> QED
    BY <2>1, <2>2
<1>3. Older' = UNION {SeqBodies(rotated'[i]) : i \in 1..Len(rotated')}
  BY DEF Older, SeqBodies
<1>4. Older' \subseteq SeqBodies(f) \cup Older
  BY <1>2, <1>3
<1>5. ASSUME Len(rotated') < MaxRotated
      PROVE  SeqBodies(f) \cup Older \subseteq Older' /\ Len(rotated) < MaxRotated
  <2>1. Len(rotated') = Len(rotated) + 1
    BY <1>1, <1>5
  <2>2. SeqBodies(f) \subseteq Older'
    <3>1. 1 \in 1..Len(rotated') /\ rotated'[1] = f
      BY <1>1, <2>1
    <3> QED
      BY <1>3, <3>1
  <2>3. ASSUME NEW i \in 1..Len(rotated)
        PROVE  SeqBodies(rotated[i]) \subseteq Older'
    <3>1. i + 1 \in 1..Len(rotated') /\ i + 1 # 1 /\ (i + 1) - 1 = i
      BY <1>1, <2>1
    <3>2. rotated'[i + 1] = rotated[i]
      BY <1>1, <3>1
    <3> QED
      BY <1>3, <3>1, <3>2
  <2>4. Older \subseteq Older'
    BY <2>3 DEF Older
  <2> QED
    BY <1>1, <1>5, <2>1, <2>2, <2>4
<1> QED
  BY <1>4, <1>5

(* The files' bodies, in the two parts. *)
LEMMA DiskParts == OnDisk = SeqBodies(log) \cup Older
  BY DEF OnDisk, Older

(* A step that moves no entry. *)
QuietStep(t) ==
  Flush(t) \/ TruncTip(t) \/ WriteTip(t) \/ Verify(t) \/ ReadLog(t) \/ ReadTip(t)

(* Such a step touches neither the entries nor who holds one. *)
LEMMA QuietFacts ==
  ASSUME TypeOK, \/ \E t \in Thread : QuietStep(t)
                 \/ UNCHANGED vars
  PROVE  /\ UNCHANGED <<entry, pending, prev, log, rotated, nextBody>>
         /\ \A u \in Thread : /\ (pc'[u] = "built") <=> pc[u] = "built"
                              /\ pc[u] # "wipe" => pc'[u] # "wipe"
<1>1. CASE UNCHANGED vars
  BY <1>1 DEF vars, memVars, diskVars
<1>2. CASE \E t \in Thread : QuietStep(t)
  <2>1. PICK t \in Thread : QuietStep(t)
    BY <1>2
  <2>2. UNCHANGED <<entry, pending, prev, log, rotated, nextBody>>
    BY <2>1 DEF QuietStep, Flush, TruncTip, WriteTip, Verify, ReadLog, ReadTip, diskVars
  <2>3. after[t] \in {"idle", "read"}
    BY DEF TypeOK
  <2>4. /\ pc[t] \notin {"built", "wipe"}
        /\ \E p \in PC \ {"built", "wipe"} : pc' = [pc EXCEPT ![t] = p]
    BY <2>1, <2>3
       DEF QuietStep, Flush, TruncTip, WriteTip, Verify, ReadLog, ReadTip, Goto, PC
  <2> QED
    BY <2>2, <2>4 DEF TypeOK
<1> QED
  BY <1>1, <1>2

(* Under a mutex or not, the steps in between leave every entry in its place. *)
LEMMA QuietBodies ==
  ASSUME TypeOK, BodyInv, Accounted,
         (\E t \in Thread : QuietStep(t)) \/ UNCHANGED vars
  PROVE  BodyInv' /\ Accounted'
<1>1. /\ UNCHANGED <<entry, pending, log, rotated, nextBody>>
      /\ \A u \in Thread : (pc'[u] = "built") <=> pc[u] = "built"
  BY QuietFacts
<1>2. Held' = Held /\ SeqBodies(pending)' = SeqBodies(pending)
      /\ SeqBodies(log)' = SeqBodies(log) /\ OnDisk' = OnDisk /\ Bodies' = Bodies
  BY <1>1 DEF Held, SeqBodies, OnDisk, Bodies
<1>3. BodyInv'
  BY <1>1, <1>2 DEF BodyInv, Built
<1>4. Accounted'
  BY <1>1, <1>2 DEF Accounted, Bodies
<1> QED
  BY <1>3, <1>4

(* build_entry: a new body, held by its thread. *)
LEMMA BuildBodies ==
  ASSUME TypeOK, BodyInv, Accounted, NEW t \in Thread, Build(t)
  PROVE  BodyInv' /\ Accounted'
<1>1. /\ UNCHANGED <<pending, log, rotated>> /\ nextBody' = nextBody + 1
      /\ entry'[t].body = nextBody /\ pc[t] # "built" /\ pc'[t] = "built"
      /\ \A u \in Thread \ {t} : entry'[u] = entry[u] /\ pc'[u] = pc[u]
      /\ nextBody \in Nat
  BY DEF Build, Goto, TypeOK, diskVars
<1>2. /\ SeqBodies(pending)' = SeqBodies(pending) /\ SeqBodies(log)' = SeqBodies(log)
      /\ OnDisk' = OnDisk
  BY <1>1 DEF SeqBodies, OnDisk
<1>3. Held' = Held \cup {nextBody}
  <2>1. \A u \in Thread : pc'[u] = "built" => entry'[u].body \in Held \cup {nextBody}
    BY <1>1 DEF Held
  <2>2. \A u \in Thread : pc[u] = "built" => pc'[u] = "built" /\ entry'[u].body = entry[u].body
    BY <1>1
  <2> QED
    BY <1>1, <2>1, <2>2 DEF Held
<1>4. Bodies' = Bodies \cup {nextBody} /\ nextBody \notin Bodies
  BY <1>1 DEF Bodies, BodyInv
<1>5. BodyInv'
  <2>1. \A u \in Thread : pc[u] = "built" => entry[u].body # nextBody
    BY <1>4 DEF BodyInv, Held
  <2> QED
    BY <1>1, <1>2, <1>3, <1>4, <2>1 DEF BodyInv, Built
<1>6. Accounted'
  BY <1>1, <1>2, <1>3, <1>4 DEF Accounted, BodyInv, Bodies
<1> QED
  BY <1>5, <1>6

(* append's second half: the entry moves from its thread to the queue. *)
LEMMA PushBodies ==
  ASSUME TypeOK, BodyInv, Accounted, NEW t \in Thread, NEW late \in BOOLEAN, Push(t, late)
  PROVE  BodyInv' /\ Accounted'
<1> DEFINE b == entry[t].body
<1>1. /\ UNCHANGED <<entry, log, rotated, nextBody>> /\ pc[t] = "built"
      /\ pc'[t] # "built" /\ \A u \in Thread \ {t} : pc'[u] = pc[u]
      /\ pending' = Append(pending, entry[t]) /\ pending \in Seq(Entry)
      /\ entry[t] \in Entry
  BY DEF Push, Goto, TypeOK, diskVars
<1>2. /\ SeqBodies(pending)' = SeqBodies(pending) \cup {b}
      /\ SeqBodies(log)' = SeqBodies(log) /\ OnDisk' = OnDisk /\ Bodies' = Bodies
  <2>1. SeqBodies(pending') = SeqBodies(pending) \cup {b}
    BY <1>1, BodiesOfAppend
  <2> QED
    BY <1>1, <2>1 DEF SeqBodies, OnDisk, Bodies
<1>3. Held' = Held \ {b} /\ b \in Held
  <2>1. \A u \in Thread : pc'[u] = "built" => pc[u] = "built" /\ entry[u].body # b
    BY <1>1 DEF BodyInv, Built
  <2>2. \A u \in Thread : (pc[u] = "built" /\ entry[u].body # b) => pc'[u] = "built"
    BY <1>1
  <2> QED
    BY <1>1, <2>1, <2>2 DEF Held
<1> HIDE DEF b
<1>4. \A i, j \in 1..Len(pending') : pending'[i].body = pending'[j].body => i = j
  <2>1. /\ Len(pending') = Len(pending) + 1 /\ Len(pending) \in Nat
        /\ \A i \in 1..Len(pending) : pending'[i] = pending[i]
        /\ pending'[Len(pending) + 1].body = b
    BY <1>1 DEF b
  <2>2. \A i \in 1..Len(pending) : pending[i].body # b
    BY <1>3 DEF Accounted, SeqBodies
  <2> QED
    BY <2>1, <2>2 DEF BodyInv
<1>5. BodyInv'
  BY <1>1, <1>2, <1>3, <1>4 DEF BodyInv, Built
<1>6. Accounted'
  BY <1>1, <1>2, <1>3 DEF Accounted
<1> QED
  BY <1>5, <1>6

(* flush_inner drains the queue into the file, perhaps after a rotation. *)
LEMMA FlushBodies ==
  ASSUME TypeOK, BodyInv, Accounted, NEW t \in Thread, FlushWrite(t)
  PROVE  BodyInv' /\ Accounted'
<1>1. /\ UNCHANGED <<entry, nextBody>> /\ pending' = <<>>
      /\ \A u \in Thread : (pc'[u] = "built") <=> pc[u] = "built"
      /\ pending \in Seq(Entry) /\ log \in Seq(Entry) /\ rotated \in Seq(Seq(Entry))
      /\ Len(rotated) <= MaxRotated
  BY DEF FlushWrite, Goto, TypeOK
<1>2. Held' = Held /\ SeqBodies(pending)' = {} /\ Bodies' = Bodies
  BY <1>1 DEF Held, SeqBodies, Bodies
<1>3. /\ OnDisk' \subseteq OnDisk \cup SeqBodies(pending)
      /\ Len(rotated') < MaxRotated => /\ Len(rotated) < MaxRotated
                                       /\ OnDisk' = OnDisk \cup SeqBodies(pending)
      /\ \A i, j \in 1..Len(log') : log'[i].body = log'[j].body => i = j
      /\ log' \in Seq(Entry)
  <2>1. CASE rotated' = Rotate(log) /\ log' = pending
    <3>1. SeqBodies(log)' = SeqBodies(pending)
      BY <2>1 DEF SeqBodies
    <3>2. /\ Older' \subseteq SeqBodies(log) \cup Older
          /\ Len(rotated') < MaxRotated => /\ Older' = SeqBodies(log) \cup Older
                                           /\ Len(rotated) < MaxRotated
      BY <1>1, <2>1, RotatedBodies
    <3>3. OnDisk' = SeqBodies(log)' \cup Older'
      BY DiskParts DEF OnDisk, Older
    <3> QED
      BY <1>1, <2>1, <3>1, <3>2, <3>3, DiskParts DEF BodyInv
  <2>2. CASE log' = log \o pending /\ UNCHANGED rotated
    <3>1. SeqBodies(log)' = SeqBodies(log) \cup SeqBodies(pending)
      <4>1. SeqBodies(log') = SeqBodies(log) \cup SeqBodies(pending)
        BY <1>1, <2>2, BodiesOfConcat
      <4> QED
        BY <4>1 DEF SeqBodies
    <3>2. OnDisk' = SeqBodies(log)' \cup Older
      BY <2>2 DEF OnDisk, Older, SeqBodies
    <3>3. /\ log' \in Seq(Entry) /\ Len(log') = Len(log) + Len(pending)
          /\ Len(log) \in Nat /\ Len(pending) \in Nat
          /\ \A i \in 1..Len(log) : log'[i] = log[i]
          /\ \A i \in (Len(log) + 1)..Len(log') :
               i - Len(log) \in 1..Len(pending) /\ log'[i] = pending[i - Len(log)]
      BY <1>1, <2>2
    <3>4. \A i \in 1..Len(log), j \in 1..Len(pending) : log[i].body # pending[j].body
      BY DEF Accounted, OnDisk, SeqBodies
    <3>5. ASSUME NEW i \in 1..Len(log'), NEW j \in 1..Len(log'),
                 log'[i].body = log'[j].body
          PROVE  i = j
      <4>1. CASE i <= Len(log) /\ j <= Len(log)
        BY <3>3, <3>5, <4>1 DEF BodyInv
      <4>2. CASE i > Len(log) /\ j > Len(log)
        <5>1. /\ i - Len(log) \in 1..Len(pending) /\ j - Len(log) \in 1..Len(pending)
              /\ pending[i - Len(log)].body = pending[j - Len(log)].body
          BY <3>3, <3>5, <4>2
        <5>2. i - Len(log) = j - Len(log)
          BY <5>1 DEF BodyInv
        <5> QED
          BY <3>3, <5>2
      <4>3. ASSUME NEW k \in 1..Len(log'), NEW l \in 1..Len(log'),
                   k <= Len(log), l > Len(log), log'[k].body = log'[l].body
            PROVE  FALSE
        <5>1. /\ k \in 1..Len(log) /\ l - Len(log) \in 1..Len(pending)
              /\ log[k].body = pending[l - Len(log)].body
          BY <3>3, <4>3
        <5> QED
          BY <3>4, <5>1
      <4> QED
        BY <3>3, <3>5, <4>1, <4>2, <4>3
    <3> QED
      BY <2>2, <3>1, <3>2, <3>3, <3>5, DiskParts
  <2> QED
    BY <2>1, <2>2 DEF FlushWrite
<1>4. BodyInv'
  BY <1>1, <1>2, <1>3 DEF BodyInv, Built
<1>5. Cardinality(SeqBodies(log)') = Len(log')
  <2>1. Cardinality(SeqBodies(log')) = Len(log')
    BY <1>3, AsManyBodiesAsLines
  <2> QED
    BY <2>1 DEF SeqBodies
<1>6. Accounted'
  BY <1>1, <1>2, <1>3, <1>5 DEF Accounted
<1> QED
  BY <1>4, <1>6

(* The approval daemon's own line goes straight to the file. *)
LEMMA DaemonBodies ==
  ASSUME TypeOK, BodyInv, Accounted, DaemonEntry
  PROVE  BodyInv' /\ Accounted'
<1> DEFINE line == [body |-> nextBody, hash |-> NotChained]
<1>1. /\ UNCHANGED <<pc, entry, pending, rotated>> /\ nextBody' = nextBody + 1
      /\ log' = Append(log, line) /\ log \in Seq(Entry) /\ nextBody \in Nat
  BY DEF DaemonEntry, memVars, TypeOK
<1>2. line \in Entry /\ line.body = nextBody
  BY <1>1 DEF Entry, NotChained
<1> HIDE DEF line
<1>3. log' \in Seq(Entry)
  BY <1>1, <1>2
<1>4. /\ SeqBodies(log') = SeqBodies(log) \cup {nextBody}
  BY <1>1, <1>2, BodiesOfAppend
<1>5. /\ OnDisk' = OnDisk \cup {nextBody} /\ Held' = Held
      /\ SeqBodies(pending)' = SeqBodies(pending)
  <2>1. Held' = Held /\ SeqBodies(pending)' = SeqBodies(pending) /\ Older' = Older
    BY <1>1 DEF Held, SeqBodies, Older
  <2>2. OnDisk' = SeqBodies(log') \cup Older'
    BY DEF OnDisk, Older, SeqBodies
  <2> QED
    BY <1>4, <2>1, <2>2, DiskParts
<1>6. Bodies' = Bodies \cup {nextBody} /\ nextBody \notin Bodies
  BY <1>1 DEF Bodies, BodyInv
<1>7. \A i, j \in 1..Len(log') : log'[i].body = log'[j].body => i = j
  <2>1. /\ Len(log') = Len(log) + 1 /\ Len(log) \in Nat
        /\ \A i \in 1..Len(log) : log'[i] = log[i]
        /\ log'[Len(log) + 1].body = nextBody
    BY <1>1, <1>2
  <2>2. \A i \in 1..Len(log) : log[i].body # nextBody
    BY <1>6 DEF BodyInv, OnDisk, SeqBodies
  <2> QED
    BY <2>1, <2>2 DEF BodyInv
<1>8. BodyInv'
  BY <1>1, <1>5, <1>6, <1>7 DEF BodyInv, Built
<1>9. Cardinality(SeqBodies(log)') = Len(log')
  <2>1. Cardinality(SeqBodies(log')) = Len(log')
    BY <1>3, <1>7, AsManyBodiesAsLines
  <2> QED
    BY <2>1 DEF SeqBodies
<1>10. Accounted'
  BY <1>1, <1>5, <1>6, <1>9 DEF Accounted, BodyInv, Bodies
<1> QED
  BY <1>8, <1>10

-----------------------------------------------------------------------------
(* NoFork *)

(* A step that moves no entry moves no height. *)
LEMMA QuietHeights ==
  ASSUME TypeOK, HeightInv,
         (\E t \in Thread : QuietStep(t)) \/ UNCHANGED vars
  PROVE  HeightInv'
<1>1. /\ UNCHANGED <<entry, pending, prev, log>>
      /\ \A u \in Thread : (pc'[u] = "built") <=> pc[u] = "built"
  BY QuietFacts
<1>2. ChainedLines' = ChainedLines
  BY <1>1 DEF ChainedLines
<1> QED
  BY <1>1, <1>2 DEF HeightInv, Built, Height

(* The new entry is one higher than everything before it. *)
LEMMA BuildHeights ==
  ASSUME TypeOK, HeightInv, NEW t \in Thread, Build(t)
  PROVE  HeightInv'
<1>1. /\ UNCHANGED <<pending, log>> /\ pc[t] # "built" /\ pc'[t] = "built"
      /\ entry'[t].hash = prev' /\ prev' = Append(prev, nextBody)
      /\ \A u \in Thread \ {t} : entry'[u] = entry[u] /\ pc'[u] = pc[u]
  BY DEF Build, Goto, Hash, TypeOK, diskVars
<1>2. Len(prev') = Len(prev) + 1 /\ Len(prev) \in Nat
  BY <1>1 DEF TypeOK
<1>3. Height(entry[t])' = Len(prev) + 1
  BY <1>1, <1>2 DEF Height
<1>4. /\ ChainedLines' = ChainedLines
      /\ \A i \in 1..Len(pending) : Height(pending[i])' = Height(pending[i])
      /\ \A i \in ChainedLines : Height(log[i])' = Height(log[i])
      /\ \A u \in Thread \ {t} : Height(entry[u])' = Height(entry[u])
  BY <1>1 DEF ChainedLines, Height
<1>5. /\ \A u \in Thread \ {t} : (pc'[u] = "built") => Height(entry[u]) \in 1..Len(prev)
      /\ \A i \in 1..Len(pending) : Height(pending[i]) \in 1..Len(prev)
      /\ \A i \in ChainedLines : Height(log[i]) \in 1..Len(prev)
  BY <1>1 DEF HeightInv, Built
<1>6. /\ \A u \in Thread : Built(u)' => Height(entry[u])' \in 1..Len(prev')
      /\ \A i \in 1..Len(pending') : Height(pending[i])' \in 1..Len(prev')
      /\ \A i \in ChainedLines' : Height(log[i])' \in 1..Len(prev')
  BY <1>1, <1>2, <1>3, <1>4, <1>5 DEF Built
<1>7. \A u, v \in Thread :
        (Built(u)' /\ Built(v)' /\ Height(entry[u])' = Height(entry[v])') => u = v
  BY <1>1, <1>2, <1>3, <1>4, <1>5 DEF HeightInv, Built
<1>8. \A u \in Thread : Built(u)' =>
        /\ \A i \in 1..Len(pending') : Height(pending[i])' # Height(entry[u])'
        /\ \A i \in ChainedLines' : Height(log[i])' # Height(entry[u])'
  BY <1>1, <1>2, <1>3, <1>4, <1>5 DEF HeightInv, Built
<1> QED
  BY <1>1, <1>4, <1>6, <1>7, <1>8 DEF HeightInv

(* The pushed entry keeps its height. *)
LEMMA PushHeights ==
  ASSUME TypeOK, HeightInv, NEW t \in Thread, NEW late \in BOOLEAN, Push(t, late)
  PROVE  HeightInv'
<1> DEFINE n == Len(pending)
<1>1. /\ UNCHANGED <<entry, log, prev>> /\ pc[t] = "built" /\ pc'[t] # "built"
      /\ \A u \in Thread \ {t} : pc'[u] = pc[u]
      /\ pending' = Append(pending, entry[t])
  BY DEF Push, Goto, TypeOK, diskVars
<1>2. /\ Len(pending') = n + 1 /\ n \in Nat
      /\ \A i \in 1..n : pending'[i] = pending[i]
      /\ pending'[n + 1] = entry[t]
  BY <1>1 DEF TypeOK
<1> HIDE DEF n
<1>3. ChainedLines' = ChainedLines
  BY <1>1 DEF ChainedLines
<1>4. ASSUME NEW i \in 1..Len(pending')
      PROVE  \/ i \in 1..n /\ pending'[i] = pending[i]
             \/ i = n + 1 /\ pending'[i] = entry[t]
  BY <1>2
<1>5. \A u \in Thread : pc'[u] = "built" => pc[u] = "built" /\ u # t
  BY <1>1
<1>6. \A i \in 1..n : Height(pending[i]) # Height(entry[t])
  BY <1>1, <1>2 DEF HeightInv, Built, n
<1>7. \A i, j \in 1..Len(pending') : Height(pending'[i]) = Height(pending'[j]) => i = j
  BY <1>4, <1>6 DEF HeightInv, n
<1>8. \A i \in 1..Len(pending') : /\ Height(pending'[i]) \in 1..Len(prev)
                                  /\ \A j \in ChainedLines :
                                       Height(pending'[i]) # Height(log[j])
  BY <1>1, <1>4 DEF HeightInv, Built, n
<1>9. \A u \in Thread : Built(u)' =>
        \A i \in 1..Len(pending') : Height(pending'[i]) # Height(entry[u])
  BY <1>1, <1>4, <1>5 DEF HeightInv, Built, n
<1>10. /\ \A i : Height(pending'[i]) = Height(pending[i])'
       /\ \A i : Height(log[i])' = Height(log[i])
       /\ \A u : Height(entry[u])' = Height(entry[u])
  BY <1>1 DEF Height
<1> QED
  BY <1>1, <1>3, <1>5, <1>7, <1>8, <1>9, <1>10 DEF HeightInv, Built

(* Draining the queue into the log, with or without the lines before it. *)
LEMMA FlushHeights ==
  ASSUME TypeOK, HeightInv, NEW t \in Thread, FlushWrite(t)
  PROVE  HeightInv'
<1>1. /\ UNCHANGED <<entry, prev>> /\ pending' = <<>>
      /\ \A u \in Thread : (pc'[u] = "built") <=> pc[u] = "built"
      /\ pending \in Seq(Entry) /\ log \in Seq(Entry)
  BY DEF FlushWrite, Goto, TypeOK
<1>2. PICK k \in {0, Len(log)} :
        /\ Len(log') = k + Len(pending)
        /\ \A i \in 1..k : log'[i] = log[i]
        /\ \A i \in 1..Len(log') :
             i > k => i - k \in 1..Len(pending) /\ log'[i] = pending[i - k]
  <2>1. CASE log' = pending
    <3> WITNESS 0 \in {0, Len(log)}
    <3> QED
      BY <1>1, <2>1
  <2>2. CASE log' = log \o pending
    BY <1>1, <2>2
  <2> QED
    BY <2>1, <2>2 DEF FlushWrite
<1>3. Len(log) \in Nat /\ Len(pending) \in Nat /\ k \in Nat /\ k <= Len(log)
  BY <1>1
<1>4. ASSUME NEW i \in ChainedLines'
      PROVE  \/ i \in ChainedLines /\ i <= k /\ log'[i] = log[i]
             \/ i > k /\ i - k \in 1..Len(pending) /\ log'[i] = pending[i - k]
  <2>1. i \in 1..Len(log') /\ log'[i].hash # NotChained
    BY <1>4 DEF ChainedLines
  <2>2. CASE i <= k
    <3>1. i \in 1..k /\ i \in 1..Len(log) /\ log'[i] = log[i]
      BY <1>2, <1>3, <2>1, <2>2
    <3> QED
      BY <2>1, <2>2, <3>1 DEF ChainedLines
  <2>3. CASE i > k
    BY <1>2, <2>1, <2>3
  <2> QED
    BY <1>3, <2>1, <2>2, <2>3
<1>5. \A i \in ChainedLines' : Height(log'[i]) \in 1..Len(prev)
  BY <1>4 DEF HeightInv
<1>6. ASSUME NEW i \in ChainedLines', NEW j \in ChainedLines',
             Height(log'[i]) = Height(log'[j])
      PROVE  i = j
  <2>0. i \in Nat /\ j \in Nat
    BY <1>1 DEF ChainedLines
  <2>1. CASE i <= k /\ j <= k
    BY <1>3, <1>4, <1>6, <2>0, <2>1 DEF HeightInv
  <2>2. CASE i > k /\ j > k
    <3>1. i - k = j - k
      BY <1>3, <1>4, <1>6, <2>0, <2>2 DEF HeightInv
    <3> QED
      BY <1>3, <2>0, <3>1
  <2>3. ASSUME NEW l \in ChainedLines', NEW m \in ChainedLines', l <= k, m > k
        PROVE  Height(log'[l]) # Height(log'[m])
    <3>1. l \in Nat /\ m \in Nat
      BY <1>1 DEF ChainedLines
    <3>2. l \in ChainedLines /\ log'[l] = log[l]
      BY <1>3, <1>4, <2>3, <3>1
    <3>3. m - k \in 1..Len(pending) /\ log'[m] = pending[m - k]
      BY <1>3, <1>4, <2>3, <3>1
    <3> QED
      BY <3>2, <3>3 DEF HeightInv
  <2> QED
    BY <1>3, <1>6, <2>0, <2>1, <2>2, <2>3
<1>7. \A u \in Thread : Built(u)' =>
        \A i \in ChainedLines' : Height(log'[i]) # Height(entry[u])
  <2> SUFFICES ASSUME NEW u \in Thread, pc[u] = "built", NEW i \in ChainedLines'
               PROVE  Height(log'[i]) # Height(entry[u])
    BY <1>1 DEF Built
  <2>1. CASE i \in ChainedLines /\ log'[i] = log[i]
    BY <2>1 DEF HeightInv, Built
  <2>2. CASE i - k \in 1..Len(pending) /\ log'[i] = pending[i - k]
    BY <2>2 DEF HeightInv, Built
  <2> QED
    BY <1>4, <2>1, <2>2
<1>8. /\ \A i : Height(log'[i]) = Height(log[i])'
      /\ \A u : Height(entry[u])' = Height(entry[u])
      /\ \A u \in Thread : Built(u)' <=> Built(u)
  BY <1>1 DEF Height, Built
<1>9. 1..Len(pending') = {}
  BY <1>1
<1> QED
  BY <1>1, <1>5, <1>6, <1>7, <1>8, <1>9 DEF HeightInv

(* The daemon's line is outside the chain. *)
LEMMA DaemonHeights ==
  ASSUME TypeOK, HeightInv, DaemonEntry
  PROVE  HeightInv'
<1> DEFINE line == [body |-> nextBody, hash |-> NotChained]
<1>1. /\ UNCHANGED <<pc, entry, pending, prev>> /\ log' = Append(log, line)
      /\ log \in Seq(Entry)
  BY DEF DaemonEntry, memVars, TypeOK
<1>2. /\ Len(log') = Len(log) + 1 /\ Len(log) \in Nat /\ log'[Len(log) + 1] = line
      /\ \A i \in 1..Len(log) : log'[i] = log[i]
  BY <1>1
<1>3. line.hash = NotChained
  OBVIOUS
<1> HIDE DEF line
<1>4. ChainedLines' = ChainedLines /\ ChainedLines \subseteq 1..Len(log)
  BY <1>2, <1>3 DEF ChainedLines
<1>5. /\ \A i \in ChainedLines : Height(log[i])' = Height(log[i])
      /\ \A i : Height(pending[i])' = Height(pending[i])
      /\ \A u : Height(entry[u])' = Height(entry[u]) /\ (Built(u)' <=> Built(u))
  BY <1>1, <1>2, <1>4 DEF Height, Built
<1> QED
  BY <1>1, <1>4, <1>5 DEF HeightInv

-----------------------------------------------------------------------------
(* The invariant is inductive, whatever the threads, as long as nobody wipes *)
(* or edits the log and the process lives.                                   *)
LEMMA SharedInvNext ==
  ASSUME SharedAppends, SharedInv, [Next]_vars
  PROVE  SharedInv'
<1> USE DEF SharedInv
<1>1. TypeOK'
  BY TypeStep
<1>2. {"wipe", "crash", "edit"} \cap Ops = {}
  BY DEF SharedAppends
<1>3. CASE \E t \in Thread : Build(t)
  <2>1. NobodyWipes'
    BY <1>3 DEF Build, Goto, NobodyWipes, TypeOK
  <2> QED
    BY <1>1, <1>3, <2>1, BuildBodies, BuildHeights
<1>4. CASE \E t \in Thread, late \in BOOLEAN : Push(t, late)
  <2>1. NobodyWipes'
    BY <1>4 DEF Push, Goto, NobodyWipes, TypeOK
  <2> QED
    BY <1>1, <1>4, <2>1, PushBodies, PushHeights
<1>5. CASE \E t \in Thread : FlushWrite(t)
  <2>1. NobodyWipes'
    BY <1>5 DEF FlushWrite, Goto, NobodyWipes, TypeOK
  <2> QED
    BY <1>1, <1>5, <2>1, FlushBodies, FlushHeights
<1>6. CASE DaemonEntry
  <2>1. NobodyWipes'
    BY <1>6 DEF DaemonEntry, memVars, NobodyWipes
  <2> QED
    BY <1>1, <1>6, <2>1, DaemonBodies, DaemonHeights
<1>7. CASE (\E t \in Thread : QuietStep(t)) \/ UNCHANGED vars
  <2>1. NobodyWipes'
    BY <1>7, QuietFacts DEF NobodyWipes
  <2> QED
    BY <1>1, <1>7, <2>1, QuietBodies, QuietHeights
<1>8. ~ \E t \in Thread : Wipe(t) \/ WipeReset(t)
  BY <1>2 DEF Wipe, WipeReset, NobodyWipes
<1>9. /\ ~ \E n \in 0..Len(pending) : Crash(n)
      /\ ~ \E e \in Edits(log) : Edit(e) \/ Edit(Rechained(e))
  BY <1>2 DEF Crash, Edit
<1> QED
  BY <1>3, <1>4, <1>5, <1>6, <1>7, <1>8, <1>9 DEF Next, Step, QuietStep

(* The empty log satisfies the invariant. *)
LEMMA SharedInvInit == Init => SharedInv
<1> SUFFICES ASSUME Init PROVE SharedInv
  OBVIOUS
<1> USE DEF Init
<1>1. TypeOK
  BY InitTypes
<1>2. Held = {} /\ SeqBodies(pending) = {} /\ SeqBodies(log) = {} /\ OnDisk = {}
      /\ Bodies = {} /\ Len(log) = 0 /\ Len(pending) = 0
  BY DEF Held, SeqBodies, OnDisk, Bodies
<1>3. BodyInv
  BY <1>2 DEF BodyInv, Built
<1>4. Accounted
  BY <1>2, FS_EmptySet DEF Accounted, Bodies
<1>5. NobodyWipes /\ HeightInv
  BY <1>2 DEF NobodyWipes, HeightInv, Built, ChainedLines
<1> QED
  BY <1>1, <1>3, <1>4, <1>5 DEF SharedInv

(* A log shared by any number of threads keeps its invariant. *)
THEOREM SharedInvariance ==
  ASSUME SharedAppends
  PROVE  Spec => []SharedInv
<1>1. SharedInv /\ [Next]_vars => SharedInv'
  BY SharedInvNext
<1> QED
  BY <1>1, SharedInvInit, PTL DEF Spec

(* Every entry that was built is in one place, for any number of threads, any *)
(* thresholds, rotations and lines of the approval daemon: append()'s two     *)
(* critical sections lose and duplicate nothing.                              *)
THEOREM EntriesAccounted ==
  ASSUME SharedAppends
  PROVE  Spec => []Accounted
<1>1. SharedInv => Accounted
  BY DEF SharedInv
<1> QED
  BY <1>1, SharedInvariance, PTL

(* No two lines of the file commit to the same predecessor, in whatever order *)
(* the threads pushed their entries.                                          *)
THEOREM ChainNeverForks ==
  ASSUME SharedAppends
  PROVE  Spec => []NoFork
<1>1. SharedInv => NoFork
  <2> SUFFICES ASSUME SharedInv, NEW i \in ChainedLines, NEW j \in ChainedLines,
                      SubSeq(log[i].hash, 1, Len(log[i].hash) - 1)
                        = SubSeq(log[j].hash, 1, Len(log[j].hash) - 1)
               PROVE  i = j
    BY DEF NoFork, ChainedLines
  <2>1. \A k \in ChainedLines :
          /\ log[k].hash \in Seq(Nat) /\ Len(log[k].hash) \in Nat \ {0}
    <3> SUFFICES ASSUME NEW k \in ChainedLines
                 PROVE  log[k].hash \in Seq(Nat) /\ Len(log[k].hash) \in Nat \ {0}
      OBVIOUS
    <3>1. log[k] \in Entry
      BY DEF SharedInv, TypeOK, ChainedLines
    <3>2. log[k].hash \in Seq(Nat)
      BY <3>1 DEF Entry
    <3>3. Len(log[k].hash) \in 1..Len(prev) /\ Len(prev) \in Nat
      BY DEF SharedInv, TypeOK, HeightInv, Height
    <3> QED
      BY <3>2, <3>3
  <2>2. \A k \in ChainedLines :
          Len(SubSeq(log[k].hash, 1, Len(log[k].hash) - 1)) = Len(log[k].hash) - 1
    BY <2>1
  <2>3. Height(log[i]) = Height(log[j])
    BY <2>1, <2>2 DEF Height
  <2> QED
    BY <2>3 DEF SharedInv, HeightInv
<1> QED
  BY <1>1, SharedInvariance, PTL
===============================================================================
