----------------------------- MODULE PrintStart -----------------------------
(* Starting a file on a Bambu printer: PrintProjectFile (mqtt/print_file.go).*)
(* Every file is stored under one name, so a call checks that the printer is *)
(* idle before it uploads and again before it sends the command, and then    *)
(* watches the reports to learn whether the print began. Reports come late,  *)
(* the connection breaks, people use the printer's screen, and the caller    *)
(* gives up at any point. The command runner sends one file at a time.       *)
(* The printer is external, as far as the code relies on it: it acts on a    *)
(* command by starting, by an answer "fail", by an error code that stays, or *)
(* not at all; and a start may show a code for less than startErrGrace,      *)
(* reports included.                                                         *)
EXTENDS Naturals

CONSTANTS StartCalls, NoStart,
          Codes, NoCode,       \* error codes
          MaxScreen, MaxBreaks \* bounds: prints from the screen, broken connections

VARIABLES
    printer,   \* the printer: what it prints, the command it acts on, its code
    storedFile,    \* the one stored file: the call whose it is, and whether it is whole
    report,    \* GetPrinterState's status, and lastReportedError
    refusal,   \* commandFail: a "fail" was answered
    answer,    \* the printer's "fail" that is on its way
    start,     \* each call: where it is, the codes it knows
    screens, breaks

startVars == <<printer, storedFile, report, refusal, answer, start, screens, breaks>>

Statuses == {"none", "off", "idle", "busy"}   \* no status yet, disconnected
NoPrint == "no print"
Screen == "screen"

ASSUME StartAssumption ==
    NoCode \notin Codes /\ StartCalls \cap {NoStart, NoPrint, Screen} = {}

StartInit ==
    /\ printer = [prints |-> NoPrint, command |-> NoStart, code |-> NoCode, passing |-> FALSE]
    /\ storedFile = [of |-> NoStart, whole |-> TRUE]
    /\ report = [status |-> "none", code |-> NoCode]
    /\ refusal = FALSE /\ answer = NoStart /\ screens = 0 /\ breaks = 0
    /\ start = [k \in StartCalls |->
                  [at |-> "none", base |-> NoCode, seen |-> NoCode, long |-> FALSE]]

PrinterBusy == printer.prints # NoPrint

(* --- the printer --------------------------------------------------------- *)
OnlyMachine == UNCHANGED <<storedFile, report, refusal, start, breaks>>

(* It starts a command's print, maybe after the call gave up on it.          *)
StartsPrint ==
    LET k == printer.command IN
    /\ k # NoStart /\ ~PrinterBusy
    /\ printer' = [prints |-> k, command |-> NoStart, code |-> NoCode, passing |-> FALSE]
    /\ UNCHANGED <<answer, screens>> /\ OnlyMachine

(* It will start, and shows a code on the way.                               *)
Flickers ==
    /\ printer.command # NoStart /\ ~PrinterBusy /\ ~printer.passing
    /\ \E c \in Codes : printer' = [printer EXCEPT !.code = c, !.passing = TRUE]
    /\ UNCHANGED <<answer, screens>> /\ OnlyMachine

(* It does not start: an answer, a code that stays, or nothing.              *)
Declines ==
    LET k == printer.command IN
    /\ k # NoStart /\ ~printer.passing
    /\ \/ answer' = k /\ printer' = [printer EXCEPT !.command = NoStart]
       \/ UNCHANGED answer /\ \E c \in Codes \cup {printer.code} :
             printer' = [printer EXCEPT !.command = NoStart, !.code = c]
    /\ UNCHANGED screens /\ OnlyMachine

(* A print ends, well or with a code that stays until it is cleared. It lasts*)
(* longer than a report takes, than a call waits for its own, and than the   *)
(* printer takes to decline a command.                                       *)
PrintEnds ==
    /\ PrinterBusy /\ report.status # "idle" /\ printer.command = NoStart
    /\ \A k \in StartCalls : start[k].at # "wait"
    /\ \E c \in Codes \cup {NoCode} :
          printer' = [printer EXCEPT !.prints = NoPrint, !.code = c]
    /\ UNCHANGED <<answer, screens>> /\ OnlyMachine

PressScreen ==
    /\ ~PrinterBusy /\ printer.command = NoStart /\ screens < MaxScreen
    /\ printer' = [printer EXCEPT !.prints = Screen] /\ screens' = screens + 1
    /\ UNCHANGED answer /\ OnlyMachine

(* --- the connection ------------------------------------------------------ *)
(* A report carries the status, the code, or both; the one that ends a print *)
(* and the first of a connection carry both.                                 *)
StartReport ==
    /\ report.status # "off"
    /\ \E s \in {report.status, IF PrinterBusy THEN "busy" ELSE "idle"}, c \in {report.code, printer.code} :
          /\ s # report.status /\ (s = "idle" \/ report.status = "none") => c = printer.code
          /\ report' = [status |-> s, code |-> c]
    /\ UNCHANGED <<printer, storedFile, refusal, answer, start, screens, breaks>>

(* noteCommandReply.                                                         *)
AnswerComes ==
    /\ answer # NoStart /\ report.status # "off"
    /\ refusal' = TRUE /\ answer' = NoStart
    /\ UNCHANGED <<printer, storedFile, report, start, screens, breaks>>

LinkBreaks ==
    /\ report.status # "off" /\ breaks < MaxBreaks
    /\ report' = [report EXCEPT !.status = "off"] /\ answer' = NoStart /\ breaks' = breaks + 1
    /\ UNCHANGED <<printer, storedFile, refusal, start, screens>>

LinkComesBack ==
    /\ report.status = "off" /\ report' = [report EXCEPT !.status = "none"]
    /\ UNCHANGED <<printer, storedFile, refusal, answer, start, screens, breaks>>

(* --- PrintProjectFile ---------------------------------------------------- *)
StartGoes(k, at) == start' = [start EXCEPT ![k].at = at]
OnlyCall == UNCHANGED <<report, answer, screens, breaks>>

Under == {"upload", "again", "after", "wait"}   \* a call that runs

(* PrintPreflight: connected, and reported idle.                             *)
Preflight == report.status = "idle"

(* The file is checked, and the upload begins to overwrite the stored one.   *)
BeginStart(k) ==
    /\ start[k].at = "none" /\ \A j \in StartCalls : start[j].at \notin Under
    /\ IF Preflight
       THEN StartGoes(k, "upload") /\ storedFile' = [of |-> k, whole |-> FALSE]
       ELSE StartGoes(k, "failed") /\ UNCHANGED storedFile
    /\ UNCHANGED <<printer, refusal>> /\ OnlyCall

(* An A1 that fails gets one more try, with a clear-text data channel.       *)
UploadFails(k) ==
    /\ \/ start[k].at = "upload" /\ StartGoes(k, "again")
       \/ start[k].at \in {"upload", "again"} /\ StartGoes(k, "failed")
    /\ UNCHANGED <<printer, storedFile, refusal>> /\ OnlyCall

(* Before an upload is through, the printer has done with an earlier command *)
(* and said so.                                                              *)
Uploaded(k) ==
    /\ start[k].at \in {"upload", "again"} /\ printer.command = NoStart /\ answer = NoStart
    /\ report.status = "idle" => report.code = printer.code
    /\ StartGoes(k, "after") /\ storedFile' = [of |-> k, whole |-> TRUE]
    /\ UNCHANGED <<printer, refusal>> /\ OnlyCall

(* What is found once there is a connection and a status, or at reconnectWait*)
PreflightAfterUpload == Preflight

ClearCommandRefusal == refusal' = FALSE

(* At once, the code is noted, an old refusal forgotten and the command sent,*)
(* which may fail.                                                           *)
SendStart(k) ==
    /\ start[k].at = "after"
    /\ \/ /\ PreflightAfterUpload /\ ClearCommandRefusal
          /\ start' = [start EXCEPT ![k].at = "wait", ![k].base = report.code]
          /\ printer' = [printer EXCEPT !.command = k]
       \/ PreflightAfterUpload /\ ClearCommandRefusal /\ StartGoes(k, "failed") /\ UNCHANGED printer
       \/ ~PreflightAfterUpload /\ StartGoes(k, "failed") /\ UNCHANGED <<printer, refusal>>
    /\ UNCHANGED storedFile /\ OnlyCall

NewsAny(k) == report.code # NoCode

(* A code left over from an earlier failure is no news.                      *)
News(k) == report.code \notin {NoCode, start[k].base}

(* waitForStart: one look at the refusal, the status and the code.           *)
Look(k) ==
    /\ start[k].at = "wait"
    /\ \/ refusal /\ StartGoes(k, "refused")
       \/ ~refusal /\ report.status = "busy" /\ StartGoes(k, "started")
       \/ /\ ~refusal /\ report.status = "idle"
          /\ \/ ~News(k) /\ start' = [start EXCEPT ![k].seen = NoCode, ![k].long = FALSE]
             \/ /\ News(k) /\ report.code # start[k].seen
                /\ start' = [start EXCEPT ![k].seen = report.code, ![k].long = FALSE]
             \/ News(k) /\ report.code = start[k].seen /\ start[k].long /\ StartGoes(k, "refused")
    /\ UNCHANGED <<printer, storedFile, refusal>> /\ OnlyCall

(* startErrGrace passes since the code was seen: by then a code shown on the *)
(* way to a start is gone, and what the printer does now was reported.       *)
GracePasses(k) ==
    /\ start[k].at = "wait" /\ start[k].seen # NoCode /\ ~start[k].long
    /\ ~printer.passing /\ (PrinterBusy <=> report.status = "busy")
    /\ start' = [start EXCEPT ![k].long = TRUE]
    /\ UNCHANGED <<printer, storedFile, refusal>> /\ OnlyCall

(* startWait ends, or the caller gives up, wherever the call is.             *)
GivesUp(k) ==
    /\ start[k].at \in Under /\ StartGoes(k, "failed")
    /\ UNCHANGED <<printer, storedFile, refusal>> /\ OnlyCall

Call(k) ==
    \/ BeginStart(k) \/ UploadFails(k) \/ Uploaded(k) \/ SendStart(k)
    \/ Look(k) \/ GracePasses(k) \/ GivesUp(k)

StartNext ==
    \/ StartsPrint \/ Flickers \/ Declines \/ PrintEnds \/ PressScreen
    \/ StartReport \/ AnswerComes \/ LinkBreaks \/ LinkComesBack
    \/ \E k \in StartCalls : Call(k)

(* A print FoxTrack was told the printer refused does not run: no leftover   *)
(* code, passing code or old answer is taken for a refusal, whatever reports *)
(* are late or lost (waitForStart, clearCommandRefusal).                     *)
RefusedNeverPrints == \A k \in StartCalls :
    start[k].at = "refused" => k \notin {printer.prints, printer.command}

(* "Safe because the printer is idle when we upload" (print_file.go:54-58):  *)
(* a print whose call waits for it, or saw it start, runs from its own file, *)
(* whole: no later call overwrites the one stored name under it.             *)
RunsItsOwnFile == \A k \in StartCalls :
    printer.prints = k /\ start[k].at \in {"wait", "started"} =>
        storedFile = [of |-> k, whole |-> TRUE]
=============================================================================
