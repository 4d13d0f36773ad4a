----------------------------- MODULE MCLanSession -----------------------------
(* The print sessions and the watcher, in parts a behaviour picks from. The  *)
(* first three are of one printer that may be renamed between its names.     *)
(*   poll       prints that pause, outages, restarts, renames and removals   *)
(*   overtaken  one print and no outage, but anyone may run between a poll's *)
(*              storeState and its updateSession                             *)
(*   track      prints that do not pause, no removals                        *)
(*   watch      EventWatcher                                                 *)
EXTENDS LanSession, EventWatcher

VARIABLE part

MCInit ==
    /\ part \in {"poll", "overtaken", "track", "watch"}
    /\ Init /\ WatchInit

(* A poll that has stored its state updates the session before anyone else   *)
(* runs.                                                                     *)
PollsWhole ==
    (\E l \in Started : loop[l].at = "stored") =>
        \E l \in Started : loop[l].at = "stored" /\ loop'[l].at = "resting"

SessionStep ==
    /\ UNCHANGED <<part, watchVars>>
    /\ part # "watch" /\ Next
    /\ part = "overtaken" => machine'.job <= 1 /\ outages' = 0
    /\ part # "overtaken" => PollsWhole
    /\ part # "poll" => machine'.status # "paused"
    /\ part = "track" => ~(AskRemove \/ AskAdd)

WatchStep == part = "watch" /\ WatchNext /\ UNCHANGED <<part, vars>>

(* Fairness is asked of the part that is checked for liveness.               *)
MCSpec ==
    /\ MCInit /\ [][SessionStep \/ WatchStep]_<<part, vars, watchVars>>
    /\ WF_vars(part = "track" /\ Handler)
    /\ \A l \in Loops : WF_vars(part = "track" /\ l \in Started /\ Poll(l))

(* ClosesOtherPrint is kept by every step, for prints that do not pause.     *)
SwitchClosesPrint == [][part = "track" => ClosesOtherPrint]_vars

(* A removed printer's state does not come back; nor does its session, when  *)
(* no handler comes between a poll's two halves.                             *)
RemovedIsGone == RemovedStaysRemoved /\ (part # "overtaken" => RemovedIsForgotten)

(* RecordedOnce, when no other loop's poll comes between a poll's two halves.*)
RecordedOnceIfWhole == part # "overtaken" => RecordedOnce

(* SeenPrintIsRecorded, in the part that has fairness.                       *)
TrackedPrintIsRecorded == part = "track" => SeenPrintIsRecorded
=============================================================================
