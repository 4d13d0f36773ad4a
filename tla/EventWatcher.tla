---------------------------- MODULE EventWatcher ----------------------------
(***************************************************************************)
(* The watcher (events_watch.go) looks at the live state of a printer at   *)
(* every tick and makes events of what has changed. The state it reads is  *)
(* written by connections and polls that know nothing of it. One printer,  *)
(* with one alarm worth a message; times are counted in ticks.             *)
(***************************************************************************)
EXTENDS Naturals

CONSTANTS
    OfflineAfter, QuietAgain,   \* offlineAfter and alarmQuietAgain, in ticks
    WatchPrints, WatchOutages, WatchFlips, WatchChanges   \* bounds

VARIABLES
    listed,     \* the printer is in the config
    shown,      \* its entry in the live states, and the print that this is about
    work,       \* the machine's last print, and how far that is
    watched,    \* its entry in watched
    quiet,      \* for how long alarmSentAt keeps the alarm quiet
    news,       \* the events of this tick
    told,       \* the prints whose start was told
    old,        \* the prints that were under way while there was no watch
    linkLosses, flips, changes

bounds == <<linkLosses, flips, changes>>
watcher == <<watched, quiet, told>>
watchVars == <<listed, shown, work, watcher, news, old, bounds>>

Reports == {"idle", "printing", "paused", "prepare"}
PrintsNow(s) == s \in {"printing", "paused"}
Settled(s) == s = "idle"   \* idle, finished, error or cancelled
Unwatched == [status |-> "none", inPrint |-> FALSE, alarm |-> FALSE, lost |-> 0, offline |-> FALSE]

WatchInit ==
    /\ listed = TRUE /\ shown = [status |-> "none", print |-> 0, alarm |-> FALSE]
    /\ work = [print |-> 0, at |-> "idle"]
    /\ watched = Unwatched /\ quiet = 0 /\ news = {} /\ told = {} /\ old = {}
    /\ linkLosses = 0 /\ flips = 0 /\ changes = 0

-----------------------------------------------------------------------------
(* The machine and its connection. A print is prepared before it prints, and *)
(* until it is over no report says that the machine has settled.             *)

MachineMoves ==
    /\ \/ /\ work.at = "idle" /\ work.print < WatchPrints
          /\ work' = [print |-> work.print + 1, at |-> "prepare"]
       \/ /\ work.at \in {"prepare", "paused"} /\ work' = [work EXCEPT !.at = "printing"]
       \/ /\ work.at = "printing" /\ work' = [work EXCEPT !.at = "paused"]
       \/ /\ work.at # "idle" /\ work' = [work EXCEPT !.at = "idle"]
    /\ news' = {} /\ UNCHANGED <<listed, shown, watcher, old, bounds>>

ReportComes ==
    /\ shown.status \notin {"none", "disconnected"}
    /\ \E a \in BOOLEAN :
        /\ flips' = IF a = shown.alarm THEN flips ELSE flips + 1
        /\ flips' <= WatchFlips
        /\ shown' = [status |-> work.at, print |-> work.print, alarm |-> a]
    /\ news' = {} /\ UNCHANGED <<listed, work, watcher, old, linkLosses, changes>>

LinkChanges ==
    /\ \/ /\ shown.status # "disconnected" /\ linkLosses < WatchOutages /\ linkLosses' = linkLosses + 1
          /\ shown' = [shown EXCEPT !.status = "disconnected"]
       \/ /\ shown.status \in {"none", "disconnected"} /\ UNCHANGED linkLosses
          /\ shown' = [shown EXCEPT !.status = "connected"]
    /\ news' = {} /\ UNCHANGED <<listed, work, watcher, old, flips, changes>>

Underway == IF PrintsNow(work.at) THEN old \cup {work.print} ELSE old

(* The printer is removed or added, or the Bridge is started again.          *)
WatchBreaks ==
    /\ changes < WatchChanges /\ changes' = changes + 1
    /\ shown' = [shown EXCEPT !.status = "none", !.alarm = FALSE]
    /\ \/ listed' = ~listed /\ UNCHANGED <<watcher, old>>
       \/ UNCHANGED <<listed, told>> /\ watched' = Unwatched /\ quiet' = 0 /\ old' = Underway
    /\ news' = {} /\ UNCHANGED <<work, linkLosses, flips>>

-----------------------------------------------------------------------------
(* watchOnce: time has passed, and then diffState.                           *)

Passed == IF quiet = 0 THEN 0 ELSE quiet - 1

(* Mutant: whatever the printer shows will do to begin with.                 *)
IsReportAny(s) == s # "none"

(* The state comes from a report, so that a watch may begin with it.         *)
IsReport(s) == s \in Reports

Seed ==
    /\ watched' = [Unwatched EXCEPT !.status = shown.status, !.inPrint = PrintsNow(shown.status),
                                    !.alarm = shown.alarm]
    /\ quiet' = Passed /\ news' = {} /\ UNCHANGED told

(* The looks at a lost printer, this one included.                           *)
LostFor == IF watched.lost > OfflineAfter THEN watched.lost ELSE watched.lost + 1

Lost ==
    LET off == LostFor > OfflineAfter
    IN  /\ watched' = [watched EXCEPT !.lost = LostFor, !.offline = @ \/ off]
        /\ news' = IF off /\ ~watched.offline THEN {"offline"} ELSE {}
        /\ quiet' = Passed /\ UNCHANGED told

Differ ==
    LET s == shown.status
        prev == watched.status
        starts == s = "printing" /\ ~watched.inPrint
        alarm == shown.alarm /\ ~watched.alarm /\ Passed = 0
    IN  /\ watched' = [status |-> s, alarm |-> shown.alarm, lost |-> 0, offline |-> FALSE,
                       inPrint |-> starts \/ (watched.inPrint /\ ~Settled(s))]
        /\ news' = {k \in {"online", "start", "pause", "resume", "alarm"} :
                      CASE k = "online" -> watched.offline
                        [] k = "start"  -> starts
                        [] k = "pause"  -> s = "paused" /\ prev = "printing"
                        [] k = "resume" -> s = "printing" /\ prev = "paused" /\ ~starts
                        [] k = "alarm"  -> alarm}
        /\ told' = IF starts THEN told \cup {shown.print} ELSE told
        /\ quiet' = IF alarm THEN QuietAgain ELSE Passed

(* Without a report since the connection came back, time only passes.        *)
Waits ==
    /\ watched' = [watched EXCEPT !.lost = IF @ = 0 THEN 0 ELSE LostFor]
    /\ quiet' = Passed /\ news' = {} /\ UNCHANGED told

Forgotten == watched' = Unwatched /\ quiet' = Passed /\ news' = {} /\ UNCHANGED told

WatchOnce ==
    /\ \/ ~listed /\ Forgotten
       \/ listed /\ watched = Unwatched /\ IsReport(shown.status) /\ Seed
       \/ listed /\ watched = Unwatched /\ ~IsReport(shown.status) /\ Waits
       \/ listed /\ watched # Unwatched /\ shown.status = "disconnected" /\ Lost
       \/ listed /\ watched # Unwatched /\ shown.status \in {"none", "connected"} /\ Waits
       \/ listed /\ watched # Unwatched /\ shown.status \in Reports /\ Differ
    /\ old' = IF listed THEN old ELSE Underway
    /\ UNCHANGED <<listed, shown, work, bounds>>

WatchNext == MachineMoves \/ ReportComes \/ LinkChanges \/ WatchBreaks \/ WatchOnce

-----------------------------------------------------------------------------
(* The start of a print is told once, and never of a print that was under    *)
(* way when the Bridge was started or the printer added: outages, pauses and *)
(* reconnects in the middle of a print are not starts.                       *)
StartsAreNews == [][
    "start" \in news' => shown.print \notin told \cup old]_watchVars
=============================================================================
