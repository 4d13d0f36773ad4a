---------------------------- MODULE SkipObjects ----------------------------
(* Skipping objects of a Bambu print: mqtt/skip.go and skip_routes.go. The   *)
(* reports, which are partial, keep a printer's job memory (skipJob); a      *)
(* request names the print's objects from the file it finds on the printer,  *)
(* keeps the list for the next request, and may send skip_objects, whose     *)
(* effect it waits for. Prints are numbered: a file's content is the number  *)
(* of the print it was stored for. Every print has an object of the same id. *)
(* The printer is external. Assumed of it, and of the time a request takes:  *)
(* a print is reported before it ends; its end is reported, and once more    *)
(* after the last request about it, before the next print; its name comes    *)
(* with or before its state, and its file at the latest with its end, or,    *)
(* where gcode_file names the .3mf itself, with the state as well.           *)
EXTENDS Naturals

CONSTANTS SkipRequests,        \* HTTP requests
          PrintNames,      \* what subtask_name may say
          GcodeFiles,      \* what gcode_file may say: it tells the plate
          Archives,        \* those of them that end in .3mf: the print's file itself
          NoFile,          \* an empty gcode_file, or no key
          MaxSkipPrints        \* bound

ASSUME SkipAssumption == NoFile \notin PrintNames \cup GcodeFiles /\ Archives \subseteq GcodeFiles

VARIABLES
    print,    \* the printer: the latest print, whether it is sent, runs or ended
    files,    \* the printer's files, by name: the print they were stored for
    skipSeen, \* GetPrinterState: whether a print runs, and its name
    skipJob,  \* what is kept of the print
    fetching, \* the request that holds the fetch lock
    req       \* each request: where it is, the key it took, the list it has

skipVars == <<print, files, skipSeen, skipJob, fetching, req>>

Stored == "stored"               \* printerStoredName
NoKey == <<NoFile, NoFile>>
NoList == [of |-> 0, plate |-> NoFile]
NoSkip == [at |-> "none", skips |-> FALSE, key |-> NoKey, bridge |-> FALSE, list |-> NoList]
EmptyJob == [gcode |-> NoFile, done |-> NoFile, idle |-> FALSE, reported |-> FALSE,
             sent |-> FALSE, task |-> NoFile, key |-> NoKey, cached |-> NoList]

SkipInit ==
    /\ print = [n |-> 0, name |-> NoFile, gcode |-> NoFile, bridge |-> FALSE,
                at |-> "ended", skipped |-> FALSE]
    /\ files = [f \in PrintNames \cup {Stored} \cup Archives |-> 0]
    /\ skipSeen = [runs |-> FALSE, name |-> NoFile]
    /\ skipJob = EmptyJob /\ fetching = NoFile /\ req = [r \in SkipRequests |-> NoSkip]

(* --- the printer --------------------------------------------------------- *)
OnlyPrinter == UNCHANGED <<skipSeen, skipJob, fetching, req>>

(* A print is sent, by Bridge or another program: its file is stored, and its*)
(* name and gcode_file show while gcode_state is still the last print's.     *)
NextPrint ==
    /\ print.at = "ended" /\ print.n < MaxSkipPrints
    /\ (skipJob.idle \/ print.n = 0) /\ skipJob.key = NoKey /\ \A r \in SkipRequests : req[r].at = "none"
    /\ \E n \in PrintNames, g \in GcodeFiles, b \in BOOLEAN :
          /\ print' = [n |-> print.n + 1, name |-> n, gcode |-> g, bridge |-> b,
                       at |-> "sent", skipped |-> FALSE]
          /\ b /\ g \in Archives => g = Stored
          /\ files' = [files EXCEPT ![IF b THEN Stored ELSE IF g \in Archives THEN g ELSE n] = print.n + 1]
    /\ OnlyPrinter

Advances ==
    /\ \/ print.at = "sent" /\ print' = [print EXCEPT !.at = "runs"]
       \/ print.at = "runs" /\ skipSeen.runs /\ print' = [print EXCEPT !.at = "ended"]
    /\ UNCHANGED files /\ OnlyPrinter

(* --- noteSkipFields ------------------------------------------------------ *)
KeepsFile(j, g) ==
    [j EXCEPT !.idle = TRUE, !.reported = FALSE, !.sent = FALSE, !.task = NoFile,
              !.key = NoKey, !.cached = NoList]

(* The job after an idle, finished or failed state: what it knew of the print*)
(* is gone but for the file of the print that ended.                         *)
Forgets(j, g) ==
    [EmptyJob EXCEPT !.idle = TRUE,
        !.done = IF j.idle THEN j.done ELSE IF j.gcode # NoFile THEN j.gcode ELSE g]

(* The next print's gcode_file may come before its state: it is kept, unless *)
(* it is the file of the print that ended. s_obj counts during a print only. *)
Noted(state, g, sobj) ==
    LET j == IF state = "idle" THEN Forgets(skipJob, g)
             ELSE IF state = "runs" THEN [skipJob EXCEPT !.idle = FALSE] ELSE skipJob
    IN [j EXCEPT !.gcode = IF g # NoFile /\ (~j.idle \/ g # j.done) THEN g ELSE j.gcode,
                 !.reported = IF sobj /\ ~j.idle THEN print.skipped ELSE j.reported]

(* A print of Bridge is noted as such once it was seen to run, within a      *)
(* moment of the report.                                                     *)
NoteBridgeJob(j, state) ==
    IF state = "runs" /\ print.bridge THEN [j EXCEPT !.task = print.name] ELSE j

(* A report carries some of the fields.                                      *)
SkipReport ==
    \E state \in {"", IF print.at = "runs" THEN "runs" ELSE "idle"},
       g \in {NoFile, print.gcode}, name \in {skipSeen.name, print.name}, sobj \in BOOLEAN :
        /\ state = "runs" => /\ name = print.name
                             /\ print.gcode \in Archives => print.gcode \in {g, skipJob.gcode}
        /\ state = "idle" /\ ~skipJob.idle /\ print.n > 0 => NoFile \notin {g} \cap {skipJob.gcode}
        /\ skipJob' = NoteBridgeJob(Noted(state, g, sobj), state)
        /\ skipSeen' = [runs |-> IF state = "" THEN skipSeen.runs ELSE state = "runs", name |-> name]
        /\ UNCHANGED <<print, files, fetching, req>>

(* --- requests ------------------------------------------------------------ *)
Rest == UNCHANGED <<print, files, skipSeen>>
Leaves(r) == req' = [req EXCEPT ![r] = NoSkip]
Loaded(r, list) == req' = [req EXCEPT ![r].at = "loaded", ![r].list = list]
CachedList(key) == skipJob.key = key /\ skipJob.cached # NoList

SkipPreflight == skipSeen.runs

(* The key is of the print as far as it was reported.                        *)
BeginRequest(r, skips) ==
    LET key == <<skipSeen.name, skipJob.gcode>> IN
    /\ req[r].at = "none" /\ SkipPreflight
    /\ req' = [req EXCEPT ![r] =
          [at |-> IF CachedList(key) THEN "loaded" ELSE "lock", skips |-> skips, key |-> key,
           bridge |-> skipSeen.name = skipJob.task, list |-> IF CachedList(key) THEN skipJob.cached ELSE NoList]]
    /\ UNCHANGED <<skipJob, fetching>> /\ Rest

TakeLock(r) ==
    /\ req[r].at = "lock" /\ fetching = NoFile /\ UNCHANGED skipJob /\ Rest
    /\ \/ CachedList(req[r].key) /\ Loaded(r, skipJob.cached) /\ UNCHANGED fetching
       \/ ~CachedList(req[r].key) /\ req' = [req EXCEPT ![r].at = "fetch"] /\ fetching' = r

(* pickSkipFile: the file that gcode_file names; then Bridge's own, when the *)
(* print is Bridge's; then the one with the print's name.                    *)
Picked(r) ==
    LET gcode == req[r].key[2] IN
    IF gcode \in Archives /\ files[gcode] # 0 THEN gcode
    ELSE IF req[r].bridge /\ files[Stored] # 0 THEN Stored ELSE req[r].key[1]

(* read3MFObjects, for the plate that was reported, or for its only one.     *)
Objects(file, gcode) ==
    [of |-> files[file], plate |-> IF gcode = NoFile THEN print.gcode ELSE gcode]

FetchList(r) ==
    LET list == Objects(Picked(r), req[r].key[2])
    IN /\ req[r].at = "fetch" /\ list.of # 0 /\ Loaded(r, list)
       /\ skipJob' = [skipJob EXCEPT !.key = req[r].key, !.cached = list]
       /\ fetching' = NoFile /\ Rest

Skipped == skipJob.reported \/ skipJob.sent   \* skipView

(* A list request answers; a skip checks the state once more, and is sent,   *)
(* perhaps in vain, unless the object is or seems to be skipped already.     *)
Finish(r) ==
    /\ req[r].at = "loaded" /\ ~(req[r].skips /\ SkipPreflight /\ ~Skipped)
    /\ Leaves(r) /\ UNCHANGED <<skipJob, fetching>> /\ Rest

SendSkip(r) ==
    /\ req[r].at = "loaded" /\ req[r].skips /\ SkipPreflight /\ ~Skipped
    /\ req' = [req EXCEPT ![r].at = "sent"] /\ skipJob' = [skipJob EXCEPT !.sent = TRUE]
    /\ \E takes \in BOOLEAN :
          print' = [print EXCEPT !.skipped = @ \/ (takes /\ print.at = "runs")]
    /\ UNCHANGED <<files, skipSeen, fetching>>

(* Confirmed by a report; or refused, or out of time, and taken back.        *)
Confirm(r) ==
    /\ req[r].at = "sent" /\ Leaves(r)
    /\ \/ skipJob.reported /\ UNCHANGED skipJob
       \/ skipJob' = [skipJob EXCEPT !.sent = FALSE]
    /\ UNCHANGED fetching /\ Rest

(* The file cannot be read, or the browser has gone: the request ends where  *)
(* it is, without taking anything back.                                      *)
Breaks(r) ==
    /\ req[r].at \in {"lock", "fetch", "sent"} /\ Leaves(r)
    /\ fetching' = IF fetching = r THEN NoFile ELSE fetching
    /\ UNCHANGED skipJob /\ Rest

SkipRequest(r) ==
    \/ \E skips \in BOOLEAN : BeginRequest(r, skips)
    \/ TakeLock(r) \/ FetchList(r) \/ Finish(r) \/ SendSkip(r) \/ Confirm(r) \/ Breaks(r)

SkipNext == NextPrint \/ Advances \/ SkipReport \/ \E r \in SkipRequests : SkipRequest(r)

(* The objects a request shows, or asks the printer to skip, are those of the*)
(* print and the plate it is about: a list kept, or a file name reported, for*)
(* an earlier print never serves the next one, whatever fields the reports   *)
(* between them carry (noteSkipFields, loadSkipObjects).                     *)
RightObjects == \A r \in SkipRequests :
    req[r].at \in {"loaded", "sent"} => req[r].list = [of |-> print.n, plate |-> print.gcode]

(* "Do not show objects as skipped that the printer never confirmed"         *)
(* (skip.go:627): what no request waits for any more and no report said is   *)
(* not kept as skipped.                                                      *)
ShownIsConfirmed ==
    skipJob.sent => skipJob.reported \/ \E r \in SkipRequests : req[r].at = "sent"
=============================================================================
