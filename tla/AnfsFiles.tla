----------------------------- MODULE AnfsFiles -----------------------------
(***************************************************************************)
(* memory/anfs: AnfsFilesystem (fuse_overlay.rs), which turns deletions    *)
(* into moves to a recycle directory and batches access metadata, and      *)
(* RelationshipGraph (relationship.rs).  Every inode is taken for the      *)
(* root, so read counts the root and write opens a directory and fails:    *)
(* files grow only through other programs.                                 *)
(***************************************************************************)
EXTENDS Integers, FiniteSets, Sequences

CONSTANTS
  FileNames,
  LastSecond, MaxVersions, MaxReads, MaxCoOpens \* bounds: clock, contents written, reads, co-open events

ASSUME AnfsFilesAssumption ==
  LastSecond \in Nat \ {0} /\ {MaxVersions, MaxReads, MaxCoOpens} \subseteq Nat

VARIABLES
  files, versions,     \* name -> content (its version) or none, small until another program writes it; versions so far
  recycle, now,        \* recycle directory: name and second -> content; the clock in seconds
  listed, loaded,      \* noprotect.json on disk, and as read at start-up
  atStart,             \* history: noprotect.json when the process started
  inTmp, logged,       \* whether the real root lies in /tmp; audit lines of intercepted deletes
  binned, lost,        \* history: what was moved away, and what is gone for good
  batch, metaOnDisk, served, \* root's access_count in the batch and on disk; history: reads since start and at the last write
  queued,              \* lines in the index queue
  edges, coOpened      \* RelationshipGraph; history: the pairs recorded so far
deleteVars == <<files, versions, recycle, now, listed, loaded, atStart, inTmp, logged, binned, lost, queued>>
metaVars == <<batch, metaOnDisk, served>>
graphVars == <<edges, coOpened>>
filesVars == <<files, versions, recycle, now, listed, loaded, atStart, inTmp, logged, binned, lost, queued, batch, metaOnDisk, served, edges, coOpened>>

Absent == [version |-> 0, large |-> FALSE]
FilesInit ==
  /\ files = [n \in FileNames |-> Absent] /\ recycle = [n \in FileNames |-> [s \in 1..LastSecond |-> 0]]
  /\ versions = 0 /\ now = 1 /\ listed = {} /\ loaded = {} /\ atStart = {} /\ binned = {} /\ lost = {} /\ queued = 0
  /\ inTmp \in BOOLEAN /\ logged = {}
  /\ batch = 0 /\ metaOnDisk = 0 /\ served = [batch |-> 0, flushed |-> 0]
  /\ edges = [p \in FileNames \X FileNames |-> 0] /\ coOpened = [p \in FileNames \X FileNames |-> 0]

Gone(n, how) == [version |-> files[n].version, name |-> n, large |-> files[n].large, how |-> how]
\* create truncates what is there and queues the path for the indexer, unless the append fails.
Create(n) ==
  /\ versions < MaxVersions /\ versions' = versions + 1 /\ queued' \in {queued, queued + 1}
  /\ files' = [files EXCEPT ![n] = [version |-> versions + 1, large |-> FALSE]]
  /\ lost' = (IF files[n] = Absent THEN lost ELSE lost \cup {Gone(n, "truncated")})
  /\ UNCHANGED <<recycle, now, listed, loaded, atStart, inTmp, logged, binned, metaVars, graphVars>>
\* Another program writes the file in the real directory.
Grows(n) ==
  /\ files[n] # Absent /\ files' = [files EXCEPT ![n].large = TRUE]
  /\ UNCHANGED <<versions, recycle, now, listed, loaded, atStart, inTmp, logged, binned, lost, queued, metaVars, graphVars>>

IsProtected(n) == n \notin loaded
RemovedOutrightListed(n) == inTmp \/ ~files[n].large \/ n \in listed
RemovedOutright(n) == inTmp \/ ~files[n].large \/ ~IsProtected(n)
\* unlink: small and unprotected files and those of /tmp are removed, others renamed to name.second
\* over what bears that name, and the move is logged unless the append fails.
Unlink(n) ==
  /\ files[n] # Absent /\ files' = [files EXCEPT ![n] = Absent]
  /\ IF RemovedOutright(n)
     THEN /\ lost' = lost \cup {Gone(n, IF inTmp THEN "tmp" ELSE IF n \in atStart THEN "listed" ELSE "unlisted")}
          /\ UNCHANGED <<recycle, binned, logged>>
     ELSE LET moved == [version |-> files[n].version, name |-> n, at |-> now] IN
          /\ recycle' = [recycle EXCEPT ![n][now] = files[n].version]
          /\ binned' = binned \cup {moved} /\ logged' \in {logged, logged \cup {moved}}
          /\ UNCHANGED lost
  /\ UNCHANGED <<versions, now, listed, loaded, atStart, inTmp, queued, metaVars, graphVars>>
\* (When the rename fails, the caller gets the error and nothing changes.)
SecondPasses ==
  /\ now < LastSecond /\ now' = now + 1
  /\ UNCHANGED <<files, versions, recycle, listed, loaded, atStart, inTmp, logged, binned, lost, queued, metaVars, graphVars>>
\* `cognos noprotect' edits the list on disk; the running file system does not see it.
ListEdited(s) ==
  /\ listed' = s
  /\ UNCHANGED <<files, versions, recycle, now, loaded, atStart, inTmp, logged, binned, lost, queued, metaVars, graphVars>>
\* A restart reads the list and forgets the batch.
LoadedAtStart == listed
Restarts ==
  /\ loaded' = LoadedAtStart /\ atStart' = listed /\ batch' = 0 /\ served' = [served EXCEPT !.batch = 0]
  /\ UNCHANGED <<files, versions, recycle, now, listed, inTmp, logged, binned, lost, queued, metaOnDisk, graphVars>>

-------------------------------------------------------------------------------
\* read: queue_meta_update for the root, then a read of a directory, which fails.
Read ==
  /\ served.batch < MaxReads /\ batch' = batch + 1 /\ served' = [served EXCEPT !.batch = @ + 1]
  /\ UNCHANGED <<metaOnDisk, deleteVars, graphVars>>
AfterFlushKept == batch
AfterFlush == 0
Torn == -1
\* The five-second thread drains the batch over the file of the previous one; a write that fails, or stops
\* half-way, loses it.
FlushBatch ==
  /\ batch > 0 /\ batch' = AfterFlush
  /\ \/ metaOnDisk' = batch /\ served' = [batch |-> 0, flushed |-> served.batch]
     \/ metaOnDisk' \in {metaOnDisk, Torn} /\ served' = [served EXCEPT !.batch = 0]
  /\ UNCHANGED <<deleteVars, graphVars>>

-------------------------------------------------------------------------------
RecordedOneWay(a, b, e) == [e EXCEPT ![<<a, b>>] = @ + 1]
Recorded(a, b, e) == [e EXCEPT ![<<a, b>>] = @ + 1, ![<<b, a>>] = @ + 1]
\* record_co_open of a pair; a longer list is its pairs in turn.
RecordCoOpen(a, b) ==
  /\ a # b /\ coOpened[<<a, b>>] + coOpened[<<b, a>>] < MaxCoOpens
  /\ edges' = Recorded(a, b, edges) /\ coOpened' = [coOpened EXCEPT ![<<a, b>>] = @ + 1]
  /\ UNCHANGED <<deleteVars, metaVars>>
\* forget_prefix of a prefix that names one file.
ForgetPrefix(n) ==
  /\ edges' = [p \in DOMAIN edges |-> IF n \in {p[1], p[2]} THEN 0 ELSE edges[p]]
  /\ coOpened' = [p \in DOMAIN edges |-> IF n \in {p[1], p[2]} THEN 0 ELSE coOpened[p]]
  /\ UNCHANGED <<deleteVars, metaVars>>

Quiet(v) == v = [p \in FileNames \X FileNames |-> 0]
FilesNext ==
  \/ /\ served = [batch |-> 0, flushed |-> 0] /\ Quiet(coOpened)
     /\ \/ \E n \in FileNames : Create(n) \/ Grows(n) \/ Unlink(n)
        \/ SecondPasses \/ Restarts
        \/ \E s \in SUBSET FileNames : ListEdited(s)
  \/ /\ now = 1 /\ versions = 0 /\ listed = {} /\ loaded = {} /\ ~inTmp /\ Quiet(coOpened)
     /\ Read \/ FlushBatch \/ Restarts
  \/ /\ now = 1 /\ versions = 0 /\ listed = {} /\ loaded = {} /\ ~inTmp /\ served = [batch |-> 0, flushed |-> 0]
     /\ \/ \E a, b \in FileNames : RecordCoOpen(a, b)
        \/ \E n \in FileNames : ForgetPrefix(n)

FilesTypeOK ==
  /\ files \in [FileNames -> [version : 0..versions, large : BOOLEAN]] /\ now \in 1..LastSecond
  /\ recycle \in [FileNames -> [1..LastSecond -> 0..MaxVersions]]
  /\ loaded \subseteq FileNames /\ listed \subseteq FileNames /\ batch \in 0..MaxReads

(***************************************************************************)
(* For each name and second the recycle directory has the file that was    *)
(* moved last (one moved earlier in that second is overwritten: not every  *)
(* delete is recoverable), and the log only tells of files that were moved.*)
(* A large file is removed outright only in /tmp or when the list as it    *)
(* was at start-up named it, whatever the list on disk says by then.       *)
(***************************************************************************)
LastDeleteKept ==
  /\ \A d \in binned :
       \E e \in binned : /\ e.name = d.name /\ e.at = d.at /\ e.version >= d.version
                         /\ recycle[d.name][d.at] = e.version
  /\ logged \subseteq binned
  /\ \A d \in lost : d.large => d.how \in {"truncated", "listed", "tmp"}

(***************************************************************************)
(* The batch counts the reads since the last flush or start, and the count *)
(* on disk, when it can be read, is that of the last batch that was        *)
(* written, however many flushes failed since.                             *)
(***************************************************************************)
ReadsCounted == batch = served.batch /\ metaOnDisk \in {served.flushed, Torn}

(***************************************************************************)
(* The graph is symmetric, and an edge counts the times its files were     *)
(* opened together since either was forgotten.                             *)
(***************************************************************************)
EdgesCounted ==
  \A a, b \in FileNames : a # b => edges[<<a, b>>] = coOpened[<<a, b>>] + coOpened[<<b, a>>]

(* LastDeleteKept is inductive once versions are known to grow: a file *)
(* that is there is later than every one of its name in the recycle        *)
(* directory, and the list in force is the one of the start.               *)
DeletesInv ==
  /\ versions \in 0..MaxVersions /\ now \in 1..LastSecond /\ loaded = atStart
  /\ files \in [FileNames -> [version : 0..versions, large : BOOLEAN]]
  /\ recycle \in [FileNames -> [1..LastSecond -> 0..versions]]
  /\ binned \subseteq [version : 1..versions, name : FileNames, at : 1..LastSecond]
  /\ \A n \in FileNames : files[n] = Absent \/ files[n].version >= 1
  /\ \A d \in binned : files[d.name] # Absent => d.version < files[d.name].version
  /\ LastDeleteKept
GraphInv ==
  /\ {edges, coOpened} \subseteq [FileNames \X FileNames -> Nat]
  /\ EdgesCounted
ReadsInv ==
  /\ served \in [batch : Nat, flushed : Nat]
  /\ ReadsCounted
================================================================================
