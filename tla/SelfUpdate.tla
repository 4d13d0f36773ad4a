----------------------------- MODULE SelfUpdate -----------------------------
(***************************************************************************)
(* The Bridge's own update on Linux (update/update.go, relaunch_linux.go,  *)
(* autoUpdateLoop and the handlers of /api/update): a release is fetched,  *)
(* checked, staged beside the program and later renamed over it. Installs  *)
(* are begun by the loop and by the dashboard.                             *)
(***************************************************************************)
EXTENDS Naturals, FiniteSets

CONSTANTS
    Clicks,         \* presses of "Update now"
    MaxFailures     \* bound: downloads and copies that fail

Installs == Clicks \cup {"loop"}

VARIABLES
    supervised,     \* supervisorRestarts
    install,        \* where each StartInstall is, and what it has downloaded
    inProgress,     \* installInProgress
    pending,        \* whether an update is staged
    beside, exe,    \* the staged file and the program
    process, updated,   \* the running Bridge, and the one that is started after it
    twice,          \* an install began although an update was staged
    failures

updateVars == <<supervised, install, inProgress, pending, beside, exe, process, updated, twice, failures>>

UpdateInit ==
    /\ supervised \in BOOLEAN
    /\ install = [i \in Installs |-> [at |-> "idle", file |-> "none"]]
    /\ inProgress = FALSE /\ pending = FALSE /\ beside = "none" /\ exe = "old"
    /\ process = "runs" /\ updated = "none" /\ twice = FALSE /\ failures = 0

-----------------------------------------------------------------------------
(* StartInstall, in the steps between which others act.                      *)

Goes(i, at) == install' = [install EXCEPT ![i].at = at]
Runs == process # "gone"
Rest == UNCHANGED <<supervised, exe, process, updated>>

SeesNothingStaged(i) ==
    /\ Runs /\ install[i].at = "idle" /\ ~pending /\ Goes(i, "begin")
    /\ UNCHANGED <<inProgress, pending, beside, twice, failures>> /\ Rest

BeginInstall(i) ==
    /\ Runs /\ install[i].at = "begin"
    /\ \/ ~inProgress /\ inProgress' = TRUE /\ twice' = (twice \/ pending) /\ Goes(i, "download")
       \/ inProgress /\ Goes(i, "over") /\ UNCHANGED <<inProgress, twice>>
    /\ UNCHANGED <<pending, beside, failures>> /\ Rest

(* Any error on the way, or a release that has no checksums yet.             *)
InstallFails(i) ==
    /\ Runs /\ install[i].at \in {"download", "verify", "copy"}
    /\ failures < MaxFailures /\ failures' = failures + 1
    /\ Goes(i, "idle") /\ inProgress' = FALSE
    /\ beside' = IF install[i].at = "copy" THEN "none" ELSE beside
    /\ UNCHANGED <<pending, twice>> /\ Rest

(* The download may be cut short, or another file.                           *)
Download(i) ==
    /\ Runs /\ install[i].at = "download"
    /\ \E file \in {"new", "cut"} : install' = [install EXCEPT ![i] = [at |-> "verify", file |-> file]]
    /\ UNCHANGED <<inProgress, pending, beside, twice, failures>> /\ Rest

(* Mutant: what was downloaded is taken as it is.                            *)
VerifiedAny(i) == TRUE

(* verifySHA256File.                                                         *)
Verified(i) == install[i].file = "new"

(* stageLinuxUpdate creates the file, which truncates one that is there.     *)
CopyBegins(i) ==
    /\ Runs /\ install[i].at = "verify"
    /\ \/ Verified(i) /\ Goes(i, "copy") /\ beside' = "part" /\ UNCHANGED inProgress
       \/ ~Verified(i) /\ Goes(i, "over") /\ inProgress' = FALSE /\ UNCHANGED beside
    /\ UNCHANGED <<pending, twice, failures>> /\ Rest

CopyEnds(i) ==
    /\ Runs /\ install[i].at = "copy" /\ Goes(i, "staged")
    /\ beside' = install[i].file /\ pending' = TRUE
    /\ UNCHANGED <<inProgress, twice, failures>> /\ Rest

InstallEnds(i) ==
    /\ Runs /\ install[i].at = "staged" /\ inProgress' = FALSE
    /\ Goes(i, IF i = "loop" THEN "restart" ELSE "over")
    /\ UNCHANGED <<pending, beside, twice, failures>> /\ Rest

-----------------------------------------------------------------------------
(* RestartToApply, by a press or by the loop, and applyLinuxUpdate. Without  *)
(* a supervisor the new program is started at once; this one exits 0.7 s     *)
(* later.                                                                    *)
Apply ==
    /\ pending /\ pending' = FALSE
    /\ IF beside = "none" THEN UNCHANGED <<beside, exe, process, updated>>
       ELSE /\ exe' = beside /\ beside' = "none" /\ process' = "leaving"
            /\ updated' = IF supervised THEN updated ELSE "starts"

PressRestart ==
    /\ Runs /\ Apply /\ UNCHANGED <<supervised, install, inProgress, twice, failures>>

LoopRestarts ==
    /\ Runs /\ install["loop"].at = "restart" /\ Goes("loop", "over")
    /\ Apply \/ (~pending /\ UNCHANGED <<pending, beside, exe, process, updated>>)
    /\ UNCHANGED <<supervised, inProgress, twice, failures>>

Exit ==
    /\ process = "leaving" /\ process' = "gone"
    /\ updated' = IF supervised THEN "starts" ELSE updated
    /\ UNCHANGED <<supervised, install, inProgress, pending, beside, exe, twice, failures>>

(* The new program comes to ListenAndServe: with its port taken, StartServer *)
(* returns and the program ends. systemd starts it again.                    *)
NewListens ==
    /\ updated = "starts"
    /\ updated' = IF Runs THEN "ended" ELSE "runs"
    /\ UNCHANGED <<supervised, install, inProgress, pending, beside, exe, process, twice, failures>>

Install(i) ==
    \/ SeesNothingStaged(i) \/ BeginInstall(i) \/ InstallFails(i) \/ Download(i)
    \/ CopyBegins(i) \/ CopyEnds(i) \/ InstallEnds(i)

UpdateNext ==
    \/ \E i \in Installs : Install(i)
    \/ PressRestart \/ LoopRestarts \/ Exit \/ NewListens

-----------------------------------------------------------------------------
(* The Bridge leaves only for a whole and verified program, and its own is   *)
(* never replaced by anything else, unless an install had begun before       *)
(* another staged its update and went on after it.                           *)
UpdateIsWhole ==
    /\ ~twice => exe \in {"old", "new"}
    /\ process # "runs" => exe # "old"

(* An update that was applied leaves a Bridge running (update.go:508).       *)
ABridgeRuns == ~(process = "gone" /\ updated = "ended")
=============================================================================
