--------------------------- MODULE TrustCalibration ---------------------------
(***************************************************************************)
(* HAL's per-class interruption thresholds (hal/src/trust_calibration.rs): *)
(* feedback moves them, every change is logged and written to              *)
(* calibration.json, and a restart reads that file back, whatever a user   *)
(* or a torn write left in it.  Thresholds are in steps of 0.05, the only  *)
(* step the code takes; the last digit of f32 is abstracted.               *)
(***************************************************************************)
EXTENDS Integers, Sequences

CONSTANTS
  CalClasses,   \* the action classes in play, of those below
  CalEdits,     \* thresholds a user may write into the file
  MaxFeedback   \* bound: feedback given

CalDefault == [FileDelete |-> 8, FileMove |-> 5, PackageInstall |-> 10, AppLaunch |-> 2,
  SystemConfig |-> 12, NetworkChange |-> 12, KernelAdjacent |-> 16, AiGeneratedCode |-> 16]
CalFloor(c) == IF c \in {"KernelAdjacent", "AiGeneratedCode"} THEN 12 ELSE 2
Feedback == {"UnnecessaryInterrupt", "CorrectInterrupt", "AlwaysAskForThis"}

ASSUME CalAssumption == CalClasses \subseteq DOMAIN CalDefault /\ CalEdits \subseteq Nat /\ MaxFeedback \in Nat

VARIABLES
  calUp,    \* is the process with the thresholds running?
  calMem,   \* its thresholds
  calFile,  \* calibration.json: Absent, Torn, or the thresholds in it
  calLog    \* the calibration lines of audit.log
calVars == <<calUp, calMem, calFile, calLog>>

Absent == <<>>        \* functions too, so that the file's contents compare
Torn == [torn |-> 0]
CalDefaults == [c \in CalClasses |-> CalDefault[c]]
CalClampRaw(c, x) == IF x > 20 THEN 20 ELSE x
CalClamp(c, x) == IF x < CalFloor(c) THEN CalFloor(c) ELSE IF x > 20 THEN 20 ELSE x

\* load_from: a missing or unreadable file means the defaults, and only a
\* missing one is then written; a value in the file is forced into its range.
CalLoaded == IF calFile \in {Absent, Torn} THEN CalDefaults
             ELSE [c \in CalClasses |-> CalClamp(c, calFile[c])]

\* persist: one fs::write, which truncates before it writes; its errors are
\* ignored.  The process may die in it.
Persist(mem) ==
  \/ calFile' \in {mem, calFile} /\ calUp' = TRUE
  \/ calFile' \in {calFile, Torn} /\ calUp' = FALSE

CalInit ==
  /\ calUp = FALSE /\ calMem = CalDefaults /\ calFile = Absent /\ calLog = <<>>

CalLoad ==
  /\ ~calUp /\ calMem' = CalLoaded /\ UNCHANGED calLog
  /\ IF calFile = Absent THEN Persist(CalLoaded)
     ELSE calUp' = TRUE /\ UNCHANGED calFile

NewThresholdFree(c, f) ==
  CASE f = "UnnecessaryInterrupt" -> calMem[c] - 1
    [] f = "CorrectInterrupt" -> calMem[c]
    [] f = "AlwaysAskForThis" -> 18
\* record_feedback: the change, its audit line (errors ignored), the file.
NewThreshold(c, f) ==
  CASE f = "UnnecessaryInterrupt" -> IF calMem[c] - 1 < CalFloor(c) THEN CalFloor(c) ELSE calMem[c] - 1
    [] f = "CorrectInterrupt" -> calMem[c]
    [] f = "AlwaysAskForThis" -> 18
RecordFeedback(c, f) ==
  LET new == NewThreshold(c, f) IN
  /\ calUp /\ Len(calLog) < MaxFeedback
  /\ calMem' = [calMem EXCEPT ![c] = new]
  /\ calLog' = Append(calLog, <<c, calMem[c], new>>)
  /\ Persist(calMem')

CalStop == calUp /\ calUp' = FALSE /\ UNCHANGED <<calMem, calFile, calLog>>

\* A user edits one threshold of the file while HAL is down.
CalEdit(c, x) ==
  /\ ~calUp /\ calFile \notin {Absent, Torn}
  /\ calFile' = [calFile EXCEPT ![c] = x]
  /\ UNCHANGED <<calUp, calMem, calLog>>

CalNext ==
  \/ CalLoad \/ CalStop
  \/ \E c \in CalClasses : \/ \E f \in Feedback : RecordFeedback(c, f)
                           \/ \E x \in CalEdits : CalEdit(c, x)

CalTypeOK ==
  /\ calUp \in BOOLEAN /\ calMem \in [CalClasses -> 2..20]
  /\ calFile \in {Absent, Torn} \cup [CalClasses -> Nat]

(***************************************************************************)
(* No sequence of feedback, lost or torn writes, edits and restarts takes  *)
(* a threshold of the running process below its class's floor or above 1   *)
(* (record_feedback's max, load_persisted's clamp).                        *)
(***************************************************************************)
CalFloorsHeld == calUp => \A c \in CalClasses : calMem[c] \in CalFloor(c)..20

\* Inductive: the thresholds in memory are in range in a stopped process too.
CalInv ==
  /\ calMem \in [CalClasses -> Nat] /\ \A c \in CalClasses : calMem[c] \in CalFloor(c)..20
  /\ calFile \in {Absent, Torn} \cup [CalClasses -> Nat]

================================================================================
