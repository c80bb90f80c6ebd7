---------------------------- MODULE MemoryService ----------------------------
(* The memory service: its indexer, and the memory fabric below it. *)
EXTENDS Integers, Sequences, FiniteSets, Functions, SequencesExt

-------------------------------------------------------------------------------
(***************************************************************************)
(* The memory indexer (indexer.rs) over two files: the queue other         *)
(* processes append paths to and drain_queue empties, and the store that   *)
(* index_file appends records to while wipe_domain rewrites it.            *)
(***************************************************************************)

CONSTANTS
  Paths,        \* files that may be queued
  DomainOf(_),  \* derive_domain; "none" outside of projects
  Indexable,    \* paths in scope that are small text files
  MaxQueued     \* bound: paths appended to the queue; no drain fails with as many records

ASSUME IndexAssumption == Indexable \subseteq Paths /\ MaxQueued \in Nat

VARIABLES
  queue, records,   \* the two files: paths, and paths with a stamp
  ragged,           \* the store ends in an unfinished line
  drain,            \* drain_queue: lines read so far, or idle; past the last one it is at the end
  wiper,            \* wipe_domain between its read, its truncation and its write
  appended,         \* number of paths queued: stamps
  tried, indexed,   \* history: stamps index_file was called on, and returned Ok(true) for
  late,             \* history: stamps queued between a drain's last read and its truncation
  wiped,            \* history: stamps removed by wipe or by a wipe_domain, and not indexed since
  raced, restored,  \* history: stamps indexed during a wipe_domain; wiped stamps it still held
  torn              \* history: stamps of records lost to a line left unfinished
indexVars == <<queue, records, ragged, drain, wiper, appended, tried, indexed, late, wiped, raced, restored, torn>>

NotDraining == [phase |-> "idle", line |-> 0]
NotWiping == [phase |-> "none", domain |-> "none", kept |-> <<>>]
Stamps(s) == {s[i].stamp : i \in DOMAIN s}

IndexInit ==
  /\ queue = <<>> /\ records = <<>> /\ ragged = FALSE /\ drain = NotDraining /\ wiper = NotWiping /\ appended = 0
  /\ tried = {} /\ indexed = {} /\ late = {} /\ wiped = {} /\ raced = {} /\ restored = {} /\ torn = {}

Enqueue(p) ==
  /\ appended < MaxQueued /\ appended' = appended + 1
  /\ queue' = Append(queue, [path |-> p, stamp |-> appended + 1])
  /\ late' = IF drain.phase = "end" THEN late \cup {appended + 1} ELSE late
  /\ UNCHANGED <<records, ragged, drain, wiper, tried, indexed, wiped, raced, restored, torn>>

OpenQueue ==
  /\ drain = NotDraining /\ drain' = [phase |-> "reading", line |-> 0]
  /\ UNCHANGED <<queue, records, ragged, wiper, appended, tried, indexed, late, wiped, raced, restored, torn>>

\* index_file's append: behind an unfinished line, the record is part of that line.
WriteRecord(e) ==
  /\ indexed' = indexed \cup {e.stamp} /\ ragged' = FALSE
  /\ raced' = IF wiper # NotWiping THEN raced \cup {e.stamp} ELSE raced
  /\ IF ragged THEN torn' = torn \cup {e.stamp} /\ UNCHANGED <<records, wiped>>
     ELSE records' = Append(records, e) /\ wiped' = wiped \ {e.stamp} /\ UNCHANGED torn
\* One line of the queue: a file that is skipped and one that fails, half-way through its
\* record perhaps, are the same to drain_queue (unwrap_or(false)).
IndexLine ==
  LET e == queue[drain.line + 1] IN
  /\ drain.phase = "reading" /\ drain.line < Len(queue)
  /\ drain' = [drain EXCEPT !.line = @ + 1] /\ tried' = tried \cup {e.stamp}
  /\ \/ e.path \in Indexable /\ WriteRecord(e)
     \/ /\ ragged' \in {ragged, ragged \/ e.path \in Indexable}
        /\ UNCHANGED <<records, indexed, wiped, raced, torn>>
  /\ UNCHANGED <<queue, wiper, appended, late, restored>>
ReachEnd ==
  /\ drain.phase = "reading" /\ drain.line = Len(queue) /\ drain' = [drain EXCEPT !.phase = "end"]
  /\ UNCHANGED <<queue, records, ragged, wiper, appended, tried, indexed, late, wiped, raced, restored, torn>>
TruncateEarly == drain.phase \in {"reading", "end"} /\ drain.line > 0
Truncates == drain.phase = "end"
Truncate ==
  /\ Truncates /\ queue' = <<>> /\ drain' = NotDraining
  /\ UNCHANGED <<records, ragged, wiper, appended, tried, indexed, late, wiped, raced, restored, torn>>
\* A crash, or an error that ends the drain, leaves the queue: its lines are indexed again.
CrashDraining ==
  /\ drain # NotDraining /\ Len(records) + Len(wiper.kept) < MaxQueued /\ drain' = NotDraining
  /\ ragged' \in {ragged, ragged \/ drain.phase = "reading"}
  /\ UNCHANGED <<queue, records, wiper, appended, tried, indexed, late, wiped, raced, restored, torn>>

\* wipe_domain reads all records ...
KeepsOnly(r, d) == DomainOf(r.path) = d
Keeps(r, d) == DomainOf(r.path) # d
KeptRecords(d) ==
  LET kept[i \in 0..Len(records)] ==
        IF i = 0 THEN <<>> ELSE IF Keeps(records[i], d) THEN Append(kept[i - 1], records[i]) ELSE kept[i - 1] IN
  kept[Len(records)]
ReadToWipe(d) ==
  /\ wiper = NotWiping /\ d # "none"
  /\ wiper' = [phase |-> "read", domain |-> d, kept |-> KeptRecords(d)]
  /\ UNCHANGED <<queue, records, ragged, drain, appended, tried, indexed, late, wiped, raced, restored, torn>>
LeaveStore ==
  /\ wiper.phase = "read" /\ wiper' = NotWiping
  /\ UNCHANGED <<queue, records, ragged, drain, appended, tried, indexed, late, wiped, raced, restored, torn>>
\* ... fs::write empties the store ...
TruncateStore ==
  /\ wiper.phase = "read" /\ wiper' = [phase |-> "writing", domain |-> wiper.domain, kept |-> wiper.kept]
  /\ records' = <<>> /\ ragged' = FALSE
  /\ wiped' = wiped \cup {r.stamp : r \in {x \in Range(records) : DomainOf(x.path) = wiper.domain}}
  /\ UNCHANGED <<queue, drain, appended, tried, indexed, late, raced, restored, torn>>
\* ... and writes the records kept, the first m of them if it fails or dies, over what the
\* drain appended meanwhile: the lines behind the first n of those survive.
WriteKept(m, n) ==
  /\ wiper.phase = "writing" /\ m \in 0..Len(wiper.kept) /\ n \in 0..Len(records)
  /\ m > 0 /\ records # <<>> => n > 0
  /\ records' = SubSeq(wiper.kept, 1, m) \o SubSeq(records, n + 1, Len(records))
  /\ ragged' \in BOOLEAN /\ (ragged' => ragged \/ m < Len(wiper.kept))
  /\ torn' = torn \cup Stamps(SubSeq(wiper.kept, m + 1, Len(wiper.kept)))
  /\ wiper' = NotWiping
  /\ UNCHANGED <<queue, drain, appended, tried, indexed, late, wiped, raced, restored>>
\* wipe unlinks the store; a wipe_domain that has it open writes to the unlinked file.
Wipe ==
  /\ records # <<>> \/ ragged \/ wiper.phase = "writing"
  /\ records' = <<>> /\ ragged' = FALSE
  /\ IF wiper.phase = "writing"
     THEN wiped' = wiped \cup Stamps(records) \cup Stamps(wiper.kept) /\ wiper' = NotWiping /\ UNCHANGED restored
     ELSE /\ wiped' = wiped \cup Stamps(records) /\ UNCHANGED wiper
          /\ restored' = restored \cup (Stamps(wiper.kept) \cap Stamps(records))
  /\ UNCHANGED <<queue, drain, appended, tried, indexed, late, raced, torn>>

IndexNext ==
  \/ \E p \in Paths : Enqueue(p)
  \/ OpenQueue \/ IndexLine \/ ReachEnd \/ Truncate \/ CrashDraining
  \/ \E p \in Paths : ReadToWipe(DomainOf(p))
  \/ LeaveStore \/ TruncateStore \/ Wipe
  \/ \E m \in 0..Len(wiper.kept), n \in 0..Len(records) : WriteKept(m, n)

IndexTypeOK ==
  /\ appended \in 0..MaxQueued /\ drain.phase \in {"idle", "reading", "end"} /\ drain.line \in 0..MaxQueued
  /\ tried \cup indexed \cup late \cup wiped \cup raced \cup restored \cup torn \subseteq 1..MaxQueued
  /\ Stamps(queue) \cup Stamps(records) \subseteq 1..MaxQueued /\ ragged \in BOOLEAN

(***************************************************************************)
(* However often a drain is cut short, no line leaves the queue before     *)
(* index_file was called on it; but for those appended between the drain's *)
(* last read and its truncation, which are lost (drain_queue), as are the  *)
(* files whose call failed.                                                *)
(***************************************************************************)
LinesTried == (1..appended) \subseteq Stamps(queue) \cup tried \cup late

(***************************************************************************)
(* A record that was written is in the store, or in the hands of the       *)
(* wipe_domain that is rewriting it, until it is wiped; except one written *)
(* during a wipe_domain, behind a line a crash left unfinished, or past    *)
(* the point where a rewrite died: wipe_domain rewrites in place.          *)
(***************************************************************************)
Held == Stamps(records) \cup (IF wiper.phase = "writing" THEN Stamps(wiper.kept) ELSE {})
RecordsHeld == indexed \subseteq Held \cup wiped \cup raced \cup torn

(***************************************************************************)
(* What was wiped stays out of the store until it is indexed anew, unless  *)
(* a wipe_domain that read before a wipe writes its records back after it. *)
(***************************************************************************)
WipedStaysGone == Stamps(records) \cap wiped \subseteq restored \cup raced

(* What keeps these: a stamp is of one path; the lines drained so far have *)
(* been tried, and those after its end came late; and what a wipe_domain   *)
(* will drop has raced it or is of its domain.                             *)
Lines == [path : Paths, stamp : 1..appended]
IndexShape ==
  /\ appended \in 0..MaxQueued /\ {queue, records, wiper.kept} \subseteq Seq(Lines) /\ Len(queue) <= appended
  /\ drain \in [phase : {"idle", "reading", "end"}, line : 0..MaxQueued] /\ drain.line <= Len(queue)
  /\ drain.phase = "idle" => drain = NotDraining
  /\ wiper.phase \in {"none", "read", "writing"} /\ (wiper.phase = "none" => wiper = NotWiping)
  /\ tried \cup indexed \cup late \cup wiped \cup raced \cup restored \cup torn \subseteq 1..appended /\ ragged \in BOOLEAN
StampsApart == \A e, f \in Range(queue) \cup Range(records) \cup Range(wiper.kept) : e.stamp = f.stamp => e = f
DrainInv ==
  /\ LinesTried
  /\ \A k \in 1..drain.line : queue[k].stamp \in tried
  /\ drain.phase = "end" => \A k \in (drain.line + 1)..Len(queue) : queue[k].stamp \in late
StoreInv ==
  /\ RecordsHeld /\ WipedStaysGone
  /\ Stamps(wiper.kept) \cap wiped \subseteq restored \cup raced
  /\ \A r \in Range(wiper.kept) : Keeps(r, wiper.domain)
  /\ wiper.phase = "read" =>
       \A r \in Range(records) : r.stamp \in Stamps(wiper.kept) \cup raced \/ ~Keeps(r, wiper.domain)
  /\ wiper.phase = "writing" => Stamps(records) \subseteq raced
IndexInv == IndexShape /\ StampsApart /\ DrainInv /\ StoreInv

-------------------------------------------------------------------------------
(***************************************************************************)
(* The memory fabric: SecurePool (secure_pool.rs), SecureAllocator         *)
(* (allocator.rs) and MemoryIsolation (isolation.rs).  Pool sizes are in   *)
(* halves of MIN_BLOCK, allocator sizes in parts of a page.                *)
(***************************************************************************)

CONSTANTS
  PoolTotal, PoolSizes, MaxReleases,           \* the arena, the sizes asked for, bound
  PageUnits, MaxLocked, LockSizes, MaxBuffers, \* PAGE_SIZE and max_locked in units, bound
  FabricAgents, GuardSize, RegionSizes

ASSUME FabricAssumption ==
  /\ {PoolTotal, MaxReleases, PageUnits, MaxLocked, MaxBuffers, GuardSize} \subseteq Nat
  /\ PoolSizes \cup RegionSizes \subseteq Nat \ {0} /\ LockSizes \subseteq Nat /\ PageUnits > 0
  /\ IsFiniteSet(FabricAgents) /\ "nobody" \notin FabricAgents

VARIABLES
  freeList, handles, releases,   \* SecurePool, with the sizes its handles were acquired with
  inflated,                      \* a release gave back more than was acquired
  buffers, locked, dropped,      \* live SecureBytes, total_locked, capacity dropped uncounted
  regions, verified              \* MemoryIsolation, and the last verify_owner
poolVars == <<freeList, handles, releases, inflated>>
lockVars == <<buffers, locked, dropped>>
regionVars == <<regions, verified>>
fabricVars == <<freeList, handles, releases, inflated, buffers, locked, dropped, regions, verified>>

NoRegion == 0
Unverified == [agent |-> "nobody"]
FabricInit ==
  /\ freeList = <<[offset |-> 0, size |-> PoolTotal]>> /\ handles = {} /\ releases = 0 /\ inflated = FALSE
  /\ buffers = <<>> /\ locked = 0 /\ dropped = 0
  /\ regions = [a \in FabricAgents |-> NoRegion] /\ verified = Unverified

\* order_of and size_of_order: the block size a request is rounded to.
BlockSize(n) == CHOOSE s \in {2 ^ k : k \in 1..n} : s >= n /\ \A t \in {2 ^ k : k \in 1..n} : t >= n => s <= t

SwapRemove(s, i) == [j \in 1..(Len(s) - 1) |-> IF j = i THEN s[Len(s)] ELSE s[j]]
\* sort_by_key, which is stable: each block goes where its rank says.
RankByOffset(s, i) ==
  Cardinality({j \in DOMAIN s : s[j].offset < s[i].offset \/ (s[j].offset = s[i].offset /\ j <= i)})
ByOffset(s) == [k \in DOMAIN s |-> s[CHOOSE i \in DOMAIN s : RankByOffset(s, i) = k]]

RemainderWhole(block, size) == <<[offset |-> block.offset + size, size |-> block.size]>>
Remainder(block, size) ==
  IF block.size > size THEN <<[offset |-> block.offset + size, size |-> block.size - size]>> ELSE <<>>
Acquire(size) ==
  LET fits == {i \in DOMAIN freeList : freeList[i].size >= size} IN
  /\ fits # {}
  /\ LET i == CHOOSE n \in fits : \A m \in fits : n <= m
         block == freeList[i]
         rest == Remainder(block, size) IN
     /\ freeList' = (IF rest = <<>> THEN SwapRemove(freeList, i) ELSE ByOffset(SwapRemove(freeList, i) \o rest))
     /\ handles' = {h \in handles : h.offset # block.offset} \cup {[offset |-> block.offset, size |-> size]}
  /\ UNCHANGED <<releases, inflated, lockVars, regionVars>>
Release(h) ==
  /\ h \in handles /\ releases < MaxReleases /\ releases' = releases + 1
  /\ handles' = handles \ {h}
  /\ freeList' = ByOffset(Append(freeList, [offset |-> h.offset, size |-> BlockSize(h.size)]))
  /\ inflated' = (inflated \/ BlockSize(h.size) # h.size)
  /\ UNCHANGED <<lockVars, regionVars>>

-------------------------------------------------------------------------------
RoundUpToPage(n) == IF n = 0 THEN PageUnits ELSE ((n + PageUnits - 1) \div PageUnits) * PageUnits
WithinLimitLoose(size) == locked <= MaxLocked
WithinLimit(size) == locked + size <= MaxLocked
\* allocate; mlock may be refused, and then nothing changes.
Allocate(size) ==
  /\ WithinLimit(size) /\ Len(buffers) < MaxBuffers
  /\ buffers' = Append(buffers, RoundUpToPage(size)) /\ locked' = locked + RoundUpToPage(size)
  /\ UNCHANGED <<dropped, poolVars, regionVars>>
Deallocate(i) ==
  /\ locked' = locked - buffers[i] /\ buffers' = SwapRemove(buffers, i)
  /\ UNCHANGED <<dropped, poolVars, regionVars>>
\* SecureBytes::drop on its own: unlocked and freed, but still counted.
DropBytes(i) ==
  /\ dropped' = dropped + buffers[i] /\ buffers' = SwapRemove(buffers, i)
  /\ UNCHANGED <<locked, poolVars, regionVars>>

-------------------------------------------------------------------------------
Base(size) == size + 2 * GuardSize
InsideClosed(p, a) == regions[a] # NoRegion /\ p >= Base(regions[a]) /\ p <= Base(regions[a]) + regions[a]
Inside(p, a) == regions[a] # NoRegion /\ p >= Base(regions[a]) /\ p < Base(regions[a]) + regions[a]
AllocateRegion(a, size) == regions' = [regions EXCEPT ![a] = size] /\ verified' = Unverified /\ UNCHANGED <<poolVars, lockVars>>
DeallocateRegion(a) == regions[a] # NoRegion /\ regions' = [regions EXCEPT ![a] = NoRegion] /\ verified' = Unverified /\ UNCHANGED <<poolVars, lockVars>>
\* verify_owner finds some region around the pointer, in the map's order.
VerifyOwner(p, a) ==
  /\ \E owner \in {b \in FabricAgents : Inside(p, b)} \cup {"nobody"} :
       /\ owner = "nobody" => ~\E b \in FabricAgents : Inside(p, b)
       /\ verified' = [agent |-> a, ptr |-> p, owner |-> owner]
  /\ UNCHANGED <<regions, poolVars, lockVars>>

PoolNext == (\E n \in PoolSizes : Acquire(n)) \/ (\E h \in handles : Release(h))
LockNext ==
  \/ \E n \in LockSizes : Allocate(n)
  \/ \E i \in DOMAIN buffers : Deallocate(i) \/ (dropped = 0 /\ DropBytes(i))
RegionNext ==
  \E a \in FabricAgents :
    \/ \E n \in RegionSizes : AllocateRegion(a, n)
    \/ DeallocateRegion(a)
    \/ \E p \in UNION {0..(2 * GuardSize + 2 * n) : n \in RegionSizes} : VerifyOwner(p, a)
FabricNext ==
  \/ regions = [a \in FabricAgents |-> NoRegion] /\ locked = 0 /\ PoolNext
  \/ handles = {} /\ releases = 0 /\ regions = [a \in FabricAgents |-> NoRegion] /\ LockNext
  \/ handles = {} /\ releases = 0 /\ locked = 0 /\ RegionNext

FabricTypeOK ==
  /\ releases \in 0..MaxReleases /\ Len(buffers) <= MaxBuffers /\ {locked, dropped} \subseteq Nat
  /\ regions \in [FabricAgents -> RegionSizes \cup {NoRegion}]

Cells(b) == b.offset..(b.offset + b.size - 1)
Blocks == handles \cup Range(freeList)

(***************************************************************************)
(* The blocks of the pool, acquired and free, tile the arena, until a      *)
(* block whose size is not a power-of-two multiple of MIN_BLOCK is         *)
(* released: release gives back the rounded size, and blocks then overlap. *)
(***************************************************************************)
PoolTiles ==
  ~inflated =>
    /\ \A b, c \in Blocks : b # c => Cells(b) \cap Cells(c) = {}
    /\ UNION {Cells(b) : b \in Blocks} = 0..(PoolTotal - 1)

(* What keeps it: also two equal entries of the free list, or one that is  *)
(* acquired as well, would be two blocks.                                  *)
Tiled(list, acquired) ==
  /\ \A i, j \in DOMAIN list : i # j => Cells(list[i]) \cap Cells(list[j]) = {}
  /\ \A i \in DOMAIN list, h \in acquired : Cells(list[i]) \cap Cells(h) = {}
  /\ \A h, k \in acquired : h # k => Cells(h) \cap Cells(k) = {}
  /\ (UNION {Cells(list[i]) : i \in DOMAIN list}) \cup (UNION {Cells(h) : h \in acquired}) = 0..(PoolTotal - 1)
FreeBlock == [offset : Nat, size : Nat]
PoolInv ==
  /\ releases \in 0..MaxReleases
  /\ ~inflated => /\ freeList \in Seq(FreeBlock) /\ handles \subseteq [offset : Nat, size : Nat \ {0}]
                  /\ Tiled(freeList, handles)

(***************************************************************************)
(* total_locked counts the live buffers and those dropped without          *)
(* deallocate, and passes max_locked by at most a page: the limit is       *)
(* checked before rounding up, and an empty buffer takes a page.           *)
(***************************************************************************)
LockedCounted ==
  /\ locked = SumFunction(buffers) + dropped
  /\ locked <= MaxLocked + PageUnits

LockInv == buffers \in Seq(Nat) /\ Len(buffers) <= MaxBuffers /\ {locked, dropped} \subseteq Nat /\ LockedCounted

(***************************************************************************)
(* verify_owner names an agent whose region holds the pointer, and misses  *)
(* the caller's own region only where regions overlap, which the computed  *)
(* base addresses allow.                                                   *)
(***************************************************************************)
OwnersTrue ==
  verified # Unverified =>
    LET around == {b \in FabricAgents : regions[b] # NoRegion /\ verified.ptr \in Base(regions[b])..(Base(regions[b]) + regions[b] - 1)} IN
    /\ verified.owner # "nobody" => verified.owner \in around
    /\ verified.owner = "nobody" => around = {}
    /\ verified.agent \in around /\ verified.owner # verified.agent => Cardinality(around) > 1
===============================================================================
