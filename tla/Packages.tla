------------------------------ MODULE Packages ------------------------------
(***************************************************************************)
(* unipkg/: the trust score of a candidate (trust_scorer.rs), the search,  *)
(* install and remove commands over APT and Flatpak (main.rs) and the      *)
(* source plan of resolver.rs; and installer/runtime.rs, SandboxRuntime's  *)
(* restarts with back-off.  apt-get and flatpak are external; flatpak is   *)
(* taken to be installed.                                                  *)
(***************************************************************************)
EXTENDS Integers, Sequences, FiniteSets

CONSTANTS
  Packages,    \* package names
  SandboxIds,
  MaxRestarts, \* MAX_RESTARTS
  MaxDropped   \* bound: restart futures dropped while they sleep

ASSUME PackagesAssumption == MaxRestarts \in Nat \ {0} /\ MaxDropped \in Nat

VARIABLES
  candidate,                     \* the candidate scored last
  aptHere, byApt, byFlatpak,     \* is apt-get on this machine; what each tool has installed
  offer, told,                   \* install's results while it prompts; what the last command printed
  flatpakRemoved,                \* history: remove took a Flatpak application away
  available, planned,            \* resolver.rs: the sources marked available; the last plan
  sandboxes, completed, dropped  \* handles; history: restarts since registration, futures dropped
commandLineVars == <<aptHere, byApt, byFlatpak, offer, told, flatpakRemoved>>
planVars == <<available, planned>>
sandboxVars == <<sandboxes, completed, dropped>>
packageVars == <<candidate, aptHere, byApt, byFlatpak, offer, told, flatpakRemoved, available, planned,
                 sandboxes, completed, dropped>>

Sensitive == {"camera", "microphone", "network", "filesystem"}
Candidates == [hashVerified : BOOLEAN, signed : BOOLEAN, days : {90, 91, 365, 366}, downloads : {10000, 10001},
               audited : BOOLEAN, issues : {5, 6}, permissions : SUBSET Sensitive]
NoCandidate == [hashVerified |-> FALSE, signed |-> FALSE, days |-> 90, downloads |-> 10000, audited |-> FALSE,
                issues |-> 5, permissions |-> {}]
NoHandle == [state |-> "none", restarts |-> 0]
PackagesInit ==
  /\ candidate = NoCandidate /\ aptHere \in BOOLEAN /\ byApt = {} /\ byFlatpak = {}
  /\ offer = <<>> /\ told = "nothing" /\ flatpakRemoved = FALSE /\ available = {} /\ planned = <<>>
  /\ sandboxes = [i \in SandboxIds |-> NoHandle] /\ completed = [i \in SandboxIds |-> 0] /\ dropped = 0

-------------------------------------------------------------------------------
\* Parts of a score, in hundredths; EPSILON makes the f32 thresholds exact at this grain.
Points(holds, n) == IF holds THEN n ELSE 0
PermissionBonus(p) == Points("camera" \in p, -30) + Points("microphone" \in p, -30) + Points("network" \in p, 20)
PermissionPoints(p) ==
  Points("camera" \in p, -30) + Points("microphone" \in p, -30) + Points({"network", "filesystem"} \subseteq p, -20)
Score(c) ==
  LET sum == 50 + (IF c.signed THEN 30 ELSE -20) + Points(c.days <= 90, 20) + Points(c.days > 365, -30)
             + Points(c.downloads > 10000, 15) + Points(c.audited, 10) + Points(c.issues > 5, -10)
             + PermissionPoints(c.permissions) IN
  IF ~c.hashVerified \/ sum < 0 THEN 0 ELSE IF sum > 100 THEN 100 ELSE sum
Recommendation(c) ==
  CASE Score(c) >= 90 -> "auto approve" [] Score(c) \in 60..89 -> "confirm"
    [] Score(c) \in 30..59 -> "caution" [] OTHER -> "block" \* an unverified hash scores 0
ScorePackage(c) == candidate' = c /\ UNCHANGED <<commandLineVars, planVars, sandboxVars>>

-------------------------------------------------------------------------------
Result(n, source, match, deprecated) ==
  [name |-> n, source |-> source, match |-> match, deprecated |-> deprecated,
   installed |-> n \in (IF source = "apt" THEN byApt ELSE byFlatpak)]
SearchScoreSource(r) ==
  Points(r.match = "exact", 10) + Points(r.match = "prefix", 5) + (IF r.source = "flatpak" THEN 9 ELSE 2)
  + Points(r.installed, 1) + Points(r.deprecated, -5)
SearchScore(r) ==
  Points(r.match = "exact", 10) + Points(r.match = "prefix", 5) + (IF r.source = "flatpak" THEN 3 ELSE 2)
  + Points(r.installed, 1) + Points(r.deprecated, -5)
\* The best score first; the sort is stable, so APT comes first of equals.
Ranked(a, f) == IF SearchScore(f) > SearchScore(a) THEN <<f, a>> ELSE <<a, f>>
\* install: one result of each source, ranked and offered.
InstallOffers(a, f) ==
  /\ offer = <<>> /\ offer' = (IF aptHere THEN Ranked(a, f) ELSE <<f>>) /\ told' = "recommended"
  /\ UNCHANGED <<candidate, aptHere, byApt, byFlatpak, flatpakRemoved, planVars, sandboxVars>>
InstallAnswered(yes, works) ==
  /\ offer # <<>> /\ offer' = <<>>
  /\ told' = (IF ~yes THEN "cancelled" ELSE IF works THEN "installed" ELSE "failed")
  /\ byApt' = (IF yes /\ works /\ offer[1].source = "apt" THEN byApt \cup {offer[1].name} ELSE byApt)
  /\ byFlatpak' = (IF yes /\ works /\ offer[1].source = "flatpak" THEN byFlatpak \cup {offer[1].name} ELSE byFlatpak)
  /\ UNCHANGED <<candidate, aptHere, flatpakRemoved, planVars, sandboxVars>>
FallsBackOnFailure(works) == ~aptHere \/ ~works
\* remove: Flatpak is tried only when apt-get cannot be run; a failed apt-get, of an installed package
\* too, is the answer.  apt-get also succeeds for a package that is not installed, flatpak does not.
FallsBack(works) == ~aptHere
RemoveCommand(n, aptWorks, flatpakWorks) ==
  LET gone == FallsBack(aptWorks) /\ flatpakWorks /\ n \in byFlatpak IN
  /\ offer = <<>>
  /\ byApt' = (IF aptHere /\ aptWorks THEN byApt \ {n} ELSE byApt)
  /\ byFlatpak' = (IF gone THEN byFlatpak \ {n} ELSE byFlatpak)
  /\ flatpakRemoved' = (flatpakRemoved \/ gone)
  /\ told' = (IF gone \/ (aptHere /\ aptWorks) THEN "removed" ELSE "failed")
  /\ UNCHANGED <<candidate, aptHere, offer, planVars, sandboxVars>>

-------------------------------------------------------------------------------
Sources == {"apt", "flatpak", "snap", "appimage"}
SetAvailable(s) ==
  /\ s \in Sources /\ available' = (IF s \in available THEN available \ {s} ELSE available \cup {s})
  /\ UNCHANGED <<candidate, planned, commandLineVars, sandboxVars>>
\* plan: the preferred source alone when it is there, else every one that is, by priority.
IfThere(s) == IF s \in available THEN <<s>> ELSE <<>>
Plan(preferred) ==
  IF preferred \in available THEN <<preferred>>
  ELSE IfThere("apt") \o IfThere("flatpak") \o IfThere("snap") \o IfThere("appimage")
\* resolve and search: refused without a source; the sources themselves are not asked yet.
SearchSources(preferred) ==
  /\ Plan(preferred) # <<>> /\ planned' = Plan(preferred)
  /\ UNCHANGED <<candidate, available, commandLineVars, sandboxVars>>

-------------------------------------------------------------------------------
Running(i) == sandboxes[i].state = "running"
Register(i) ==
  /\ ~Running(i) /\ sandboxes' = [sandboxes EXCEPT ![i] = [state |-> "stopped", restarts |-> 0]]
  /\ completed' = [completed EXCEPT ![i] = 0] /\ UNCHANGED <<candidate, dropped, commandLineVars, planVars>>
\* start marks the sandbox running and still answers StartFailed: no child is spawned yet.
Start(i) ==
  /\ sandboxes[i].state \notin {"none", "running", "locked"}
  /\ sandboxes' = [sandboxes EXCEPT ![i].state = "running"]
  /\ UNCHANGED <<candidate, completed, dropped, commandLineVars, planVars>>
Stop(i) ==
  /\ Running(i) /\ sandboxes' = [sandboxes EXCEPT ![i].state = "stopped"]
  /\ UNCHANGED <<candidate, completed, dropped, commandLineVars, planVars>>
LocksLate(n) == n > MaxRestarts
Locks(n) == n >= MaxRestarts
\* restart: sleeps in `restarting', then counts, then locks or starts; its own stop finds nothing running.
Restart(i) ==
  LET n == sandboxes[i].restarts + 1 IN
  /\ sandboxes[i].state \notin {"none", "locked"}
  /\ sandboxes' = [sandboxes EXCEPT ![i] = [state |-> IF Locks(n) THEN "locked" ELSE "running", restarts |-> n]]
  /\ completed' = [completed EXCEPT ![i] = @ + 1]
  /\ UNCHANGED <<candidate, dropped, commandLineVars, planVars>>
\* The caller drops the future during the back-off.
RestartDropped(i) ==
  /\ sandboxes[i].state \notin {"none", "locked"} /\ dropped < MaxDropped /\ dropped' = dropped + 1
  /\ sandboxes' = [sandboxes EXCEPT ![i].state = "restarting"]
  /\ UNCHANGED <<candidate, completed, commandLineVars, planVars>>
ForgetSandbox(i) ==
  /\ sandboxes[i].state \notin {"none", "running"} /\ sandboxes' = [sandboxes EXCEPT ![i] = NoHandle]
  /\ completed' = [completed EXCEPT ![i] = 0] /\ UNCHANGED <<candidate, dropped, commandLineVars, planVars>>

-------------------------------------------------------------------------------
NoSandboxes == dropped = 0 /\ \A i \in SandboxIds : sandboxes[i] = NoHandle
PackagesNext ==
  \/ /\ NoSandboxes /\ told = "nothing" /\ available = {} /\ candidate = NoCandidate
     /\ \E c \in Candidates : ScorePackage(c)
  \/ /\ NoSandboxes /\ candidate = NoCandidate /\ available = {}
     /\ \/ \E n, k \in Packages, x, y \in {"exact", "prefix", "other"}, d, e \in BOOLEAN :
             InstallOffers(Result(n, "apt", x, d), Result(k, "flatpak", y, e))
        \/ \E yes, works \in BOOLEAN : InstallAnswered(yes, works)
        \/ \E n \in Packages, aptWorks, flatpakWorks \in BOOLEAN : RemoveCommand(n, aptWorks, flatpakWorks)
  \/ /\ NoSandboxes /\ candidate = NoCandidate /\ told = "nothing"
     /\ \E s \in Sources \cup {"local"} : SetAvailable(s) \/ SearchSources(s)
  \/ /\ candidate = NoCandidate /\ told = "nothing" /\ available = {}
     /\ \E i \in SandboxIds :
          Register(i) \/ Start(i) \/ Stop(i) \/ Restart(i) \/ RestartDropped(i) \/ ForgetSandbox(i)

PackagesTypeOK ==
  /\ candidate \in Candidates /\ byApt \subseteq Packages /\ byFlatpak \subseteq Packages
  /\ available \subseteq Sources /\ Len(planned) <= 4 /\ dropped \in 0..MaxDropped
  /\ \A i \in SandboxIds : sandboxes[i].state \in {"none", "stopped", "running", "restarting", "locked"}

(***************************************************************************)
(* Nothing is approved without the user unless its hash is verified, it is *)
(* signed and not abandoned, and it does not ask for camera and microphone *)
(* together; and asking for more permissions never earns a better verdict. *)
(* (One of the two, with a good record, can still be approved.)            *)
(***************************************************************************)
ApprovalEarned ==
  LET c == candidate IN
  /\ Recommendation(c) = "auto approve" =>
       c.hashVerified /\ c.signed /\ c.days <= 365 /\ ~({"camera", "microphone"} \subseteq c.permissions)
  /\ \A p \in Sensitive : Score([c EXCEPT !.permissions = @ \cup {p}]) <= Score(c)

(***************************************************************************)
(* An exact match that is not deprecated is what install recommends when   *)
(* there is one; and while apt-get is on the machine, remove never takes   *)
(* away a Flatpak application.                                             *)
(***************************************************************************)
CommandsSound ==
  /\ (\E i \in 1..Len(offer) : offer[i].match = "exact" /\ ~offer[i].deprecated) =>
       offer[1].match = "exact" /\ ~offer[1].deprecated
  /\ aptHere => ~flatpakRemoved

(***************************************************************************)
(* A sandbox is locked exactly at its last restart; dropped futures leave  *)
(* it restarting without having counted, so they never lock it.            *)
(***************************************************************************)
RestartsBounded ==
  \A i \in SandboxIds :
    /\ sandboxes[i].restarts = completed[i] /\ sandboxes[i].restarts <= MaxRestarts
    /\ sandboxes[i].state = "locked" <=> sandboxes[i].restarts = MaxRestarts

(* Each is inductive with its types. *)
Offered == [name : Packages, source : {"apt", "flatpak"}, match : {"exact", "prefix", "other"},
            deprecated : BOOLEAN, installed : BOOLEAN]
CommandsInv == offer \in Seq(Offered) /\ flatpakRemoved \in BOOLEAN /\ CommandsSound
RestartsInv ==
  /\ sandboxes \in [SandboxIds -> [state : {"none", "stopped", "running", "restarting", "locked"}, restarts : Nat]]
  /\ completed \in [SandboxIds -> Nat] /\ RestartsBounded
================================================================================
