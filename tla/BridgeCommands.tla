--------------------------- MODULE BridgeCommands ---------------------------
(***************************************************************************)
(* Commands from FoxTrack: the poll loop that fetches them, the jobs that  *)
(* send a file to a printer, their cache of downloaded files, and the      *)
(* acks that tell FoxTrack how a command went.                             *)
(*                                                                         *)
(* FoxTrack hands a command out on every poll until an ack moves it on;    *)
(* an ack may fail, or be applied without its answer arriving.  The Bridge *)
(* remembers the ids it has taken (seen) only in memory.                   *)
(*                                                                         *)
(*   plain         pause, stop, light: run on the poll loop, one ack       *)
(*   console       home, temperatures, list_files: taken, then a goroutine *)
(*   printer_file  as console, with the printer's lock                     *)
(*   print_file    acked as running, then downloaded, sent and reported    *)
(***************************************************************************)
EXTENDS Naturals, FiniteSets

CONSTANTS Cmds, Printers, Files,
          Kind, PrinterOf, FileOf,  \* of each command
          MaxTries,     \* tries of the final ack: len(printAckBackoff) + 1
          CacheMax,     \* cacheMaxFiles
          OtherBridge,  \* whether another Bridge of the workspace takes commands too
          MaxCrashes,   \* bound on restarts
          MaxHours      \* bound on hours of quiet

Kinds == {"plain", "console", "printer_file", "print_file"}

ASSUME CommandAssumptions ==
  /\ Kind \in [Cmds -> Kinds] /\ PrinterOf \in [Cmds -> Printers] /\ FileOf \in [Cmds -> Files]
  /\ MaxTries \in Nat \ {0} /\ CacheMax \in Nat /\ MaxCrashes \in Nat /\ MaxHours \in Nat
  /\ OtherBridge \in BOOLEAN /\ IsFiniteSet(Files)

VARIABLES
  ft,       \* FoxTrack's status of each command
  batch,    \* commands of the last reply the poll loop has still to go through
  seen,     \* printJobTracker.seen
  busy,     \* printJobTracker.busy: printers with a file job
  job,      \* the command's goroutine, or its turn on the poll loop
  cached,   \* files in the print cache, all of them complete and verified
  runs,     \* history: how often the command was carried out; 2 is more than once
  begun,    \* history: commands the Bridge has begun
  unheard,  \* history: commands whose only, running or final ack got no good answer
  crashes,  \* restarts so far
  hours     \* hours of quiet so far, each longer than seenCommandTTL

vars == <<ft, batch, seen, busy, job, cached, runs, begun, unheard, crashes, hours>>

Stages == {"none", "lock", "check", "cache", "open", "send", "prune", "remove", "exec", "ack", "report"}
NoJob == [at |-> "none", ok |-> FALSE, tries |-> 0, left |-> {}, count |-> 0, victim |-> {}]

TypeOK ==
  /\ ft \in [Cmds -> {"new", "pending", "running", "done", "failed", "taken"}]
  /\ batch \subseteq Cmds /\ seen \subseteq Cmds /\ begun \subseteq Cmds /\ unheard \subseteq Cmds
  /\ busy \subseteq Printers /\ cached \subseteq Files
  /\ job \in [Cmds -> [at : Stages, ok : BOOLEAN, tries : 0..MaxTries - 1, left : SUBSET Files,
                       count : Nat, victim : SUBSET Files]]
  /\ runs \in [Cmds -> 0..2] /\ crashes \in 0..MaxCrashes /\ hours \in 0..MaxHours

Init ==
  /\ ft = [c \in Cmds |-> "new"]
  /\ batch = {} /\ seen = {} /\ busy = {} /\ begun = {} /\ unheard = {}
  /\ cached \in SUBSET Files \* left by an earlier life
  /\ job = [c \in Cmds |-> NoJob]
  /\ runs = [c \in Cmds |-> 0]
  /\ crashes = 0 /\ hours = 0

At(c, stage) == job[c].at = stage
Goto(c, stage) == job' = [job EXCEPT ![c].at = stage]
CarryOut(c) == runs' = [runs EXCEPT ![c] = IF @ = 2 THEN 2 ELSE @ + 1]

-----------------------------------------------------------------------------
(* FoxTrack.                                                                *)

Issue(c) ==
  /\ ft[c] = "new"
  /\ ft' = [ft EXCEPT ![c] = "pending"]
  /\ UNCHANGED <<batch, seen, busy, job, cached, runs, begun, unheard, crashes, hours>>

(* Another Bridge of the workspace acks the command first. *)
OtherBridgeTakes(c) ==
  /\ OtherBridge /\ ft[c] = "pending"
  /\ ft' = [ft EXCEPT ![c] = "taken"]
  /\ UNCHANGED <<batch, seen, busy, job, cached, runs, begun, unheard, crashes, hours>>

(* A running command fails after 15 minutes or more; the job itself stops  *)
(* 3 minutes before (printJobTimeoutFor).                                  *)
TimesOut(c) ==
  /\ ft[c] = "running" /\ job[c].at \in {"none", "report"}
  /\ ft' = [ft EXCEPT ![c] = "failed"]
  /\ UNCHANGED <<batch, seen, busy, job, cached, runs, begun, unheard, crashes, hours>>

(* How an ack ends for FoxTrack and for the Bridge: applied and answered,   *)
(* applied without an answer, refused with a server error or lost, or 404   *)
(* because the command is not in a status the ack may follow.               *)
Open(c, to) == IF to = "running" THEN ft[c] = "pending" ELSE ft[c] \in {"pending", "running"}
Ack(c, to, answer) ==
  CASE answer = "ok"      -> Open(c, to) /\ ft' = [ft EXCEPT ![c] = to]
    [] answer = "gone"    -> ~Open(c, to) /\ UNCHANGED ft
    [] answer = "error"   -> UNCHANGED ft
    [] answer = "silence" -> \/ UNCHANGED ft
                             \/ Open(c, to) /\ ft' = [ft EXCEPT ![c] = to]

Final(ok) == IF ok THEN "done" ELSE "failed"

-----------------------------------------------------------------------------
(* pollBridgeCommands: one goroutine, so it goes through a reply before it  *)
(* fetches the next, and a plain command holds it until its ack is sent.    *)

PollFree == \A c \in Cmds : ~At(c, "ack")

Fetch ==
  /\ batch = {} /\ PollFree
  /\ batch' = {c \in Cmds : ft[c] = "pending"}
  /\ UNCHANGED <<ft, seen, busy, job, cached, runs, begun, unheard, crashes, hours>>

Turn(c) == c \in batch /\ PollFree /\ batch' = batch \ {c}

(* hasSeen *)
SkipSeen(c) ==
  /\ Turn(c) /\ c \in seen
  /\ UNCHANGED <<ft, seen, busy, job, cached, runs, begun, unheard, crashes, hours>>

(* executeBridgeCommand on the poll loop. *)
RunPlain(c, ok) ==
  /\ Turn(c) /\ Kind[c] = "plain"
  /\ CarryOut(c)
  /\ job' = [job EXCEPT ![c].at = "ack", ![c].ok = ok]
  /\ begun' = begun \cup {c}
  /\ UNCHANGED <<ft, seen, busy, cached, unheard, crashes, hours>>

(* One try; whatever comes of it, the next reply decides. *)
AckPlain(c, answer) ==
  /\ At(c, "ack")
  /\ Ack(c, Final(job[c].ok), answer)
  /\ job' = [job EXCEPT ![c] = NoJob]
  /\ unheard' = IF answer = "ok" THEN unheard ELSE unheard \cup {c}
  /\ UNCHANGED <<batch, seen, busy, cached, runs, begun, crashes, hours>>

(* Mutant: a file on the printer is started without its lock. *)
StartUnlocked(c) ==
  /\ Turn(c) /\ c \notin seen /\ Kind[c] \in {"console", "printer_file"}
  /\ seen' = seen \cup {c} /\ begun' = begun \cup {c}
  /\ Goto(c, "exec")
  /\ UNCHANGED <<ft, busy, cached, runs, unheard, crashes, hours>>

(* startConsoleCommand, startFilesCommand *)
Start(c) ==
  /\ Turn(c) /\ c \notin seen /\ Kind[c] \in {"console", "printer_file"}
  /\ seen' = seen \cup {c}
  /\ begun' = begun \cup {c}
  /\ Goto(c, IF Kind[c] = "console" THEN "exec" ELSE "lock")
  /\ UNCHANGED <<ft, busy, cached, runs, unheard, crashes, hours>>

(* Mutants: only an answered ack is remembered; no answer is taken for an  *)
(* error.                                                                  *)
AcceptForgets(c, answer) ==
  /\ Turn(c) /\ c \notin seen /\ Kind[c] = "print_file"
  /\ Ack(c, "running", answer)
  /\ seen' = IF answer \in {"ok", "gone"} THEN seen \cup {c} ELSE seen
  /\ unheard' = IF answer \in {"ok", "gone"} THEN unheard ELSE unheard \cup {c}
  /\ IF answer \in {"ok", "silence"}
     THEN Goto(c, "lock") /\ begun' = begun \cup {c}
     ELSE UNCHANGED <<job, begun>>
  /\ UNCHANGED <<busy, cached, runs, crashes, hours>>
AcceptNeedsAnswer(c, answer) ==
  /\ Turn(c) /\ c \notin seen /\ Kind[c] = "print_file"
  /\ Ack(c, "running", answer)
  /\ IF answer \in {"ok", "gone"}
     THEN seen' = seen \cup {c} /\ UNCHANGED unheard
     ELSE unheard' = unheard \cup {c} /\ UNCHANGED seen
  /\ IF answer = "ok"
     THEN Goto(c, "lock") /\ begun' = begun \cup {c}
     ELSE UNCHANGED <<job, begun>>
  /\ UNCHANGED <<busy, cached, runs, crashes, hours>>

(* startPrintFile: one try of the running ack.  Taken by another Bridge: it *)
(* is remembered and left.  A server error: the next poll tries again.  No  *)
(* answer: FoxTrack may have applied it and would never hand it out again,  *)
(* so the job runs.                                                         *)
Accept(c, answer) ==
  /\ Turn(c) /\ c \notin seen /\ Kind[c] = "print_file"
  /\ Ack(c, "running", answer)
  /\ seen' = IF answer = "error" THEN seen ELSE seen \cup {c}
  /\ unheard' = IF answer \in {"ok", "gone"} THEN unheard ELSE unheard \cup {c}
  /\ IF answer \in {"ok", "silence"}
     THEN Goto(c, "lock") /\ begun' = begun \cup {c}
     ELSE UNCHANGED <<job, begun>>
  /\ UNCHANGED <<busy, cached, runs, crashes, hours>>

-----------------------------------------------------------------------------
(* The jobs, one goroutine each.                                            *)

(* lockPrinter never waits: a second file for the printer is refused. *)
LockPrinter(c) ==
  /\ At(c, "lock")
  /\ IF PrinterOf[c] \in busy
     THEN Goto(c, "report") /\ UNCHANGED busy
     ELSE /\ busy' = busy \cup {PrinterOf[c]}
          /\ Goto(c, IF Kind[c] = "print_file" THEN "check" ELSE "exec")
  /\ UNCHANGED <<ft, batch, seen, cached, runs, begun, unheard, crashes, hours>>

(* A console command, or a file already on the printer. *)
Exec(c, ok) ==
  /\ At(c, "exec")
  /\ CarryOut(c)
  /\ job' = [job EXCEPT ![c].at = "report", ![c].ok = ok]
  /\ busy' = IF Kind[c] = "printer_file" THEN busy \ {PrinterOf[c]} ELSE busy
  /\ UNCHANGED <<ft, batch, seen, cached, begun, unheard, crashes, hours>>

(* runPrintJob: arguments, kind of printer, printIdleCheck. *)
CheckFails(c) ==
  /\ At(c, "check")
  /\ Goto(c, "report") /\ busy' = busy \ {PrinterOf[c]}
  /\ UNCHANGED <<ft, batch, seen, cached, runs, begun, unheard, crashes, hours>>

CheckPasses(c) ==
  /\ At(c, "check") /\ Goto(c, "cache")
  /\ UNCHANGED <<ft, batch, seen, busy, cached, runs, begun, unheard, crashes, hours>>

(* printJobTracker.inUse counts the jobs from here to the end of runPrintJob. *)
InUse(f) == \E c \in Cmds :
  FileOf[c] = f /\ job[c].at \in {"cache", "open", "send", "prune", "remove"}

(* printJobTracker.fileLock, held for ensureCachedFile. *)
FileLocked(f) == \E c \in Cmds : FileOf[c] = f /\ At(c, "open")

LockFile(c) ==
  /\ At(c, "cache") /\ ~FileLocked(FileOf[c])
  /\ Goto(c, "open")
  /\ UNCHANGED <<ft, batch, seen, busy, cached, runs, begun, unheard, crashes, hours>>

UseCached(c) ==
  /\ At(c, "open") /\ FileOf[c] \in cached
  /\ Goto(c, "send")
  /\ UNCHANGED <<ft, batch, seen, busy, cached, runs, begun, unheard, crashes, hours>>

(* The download is checked and renamed into place. *)
Download(c) ==
  /\ At(c, "open") /\ FileOf[c] \notin cached
  /\ Goto(c, "send") /\ cached' = cached \cup {FileOf[c]}
  /\ UNCHANGED <<ft, batch, seen, busy, runs, begun, unheard, crashes, hours>>

(* pruneCache reads the folder when the job is over. *)
ToPrune(c, ok) == job' = [job EXCEPT
  ![c].at = "prune", ![c].ok = ok, ![c].left = cached, ![c].count = Cardinality(cached)]

DownloadFails(c) ==
  /\ At(c, "open") /\ FileOf[c] \notin cached
  /\ ToPrune(c, FALSE)
  /\ UNCHANGED <<ft, batch, seen, busy, cached, runs, begun, unheard, crashes, hours>>

(* printBambuFile, printKlipperFile: the printer starts the file, or the   *)
(* upload fails, as it does when the file is gone.                         *)
Send(c, ok) ==
  /\ At(c, "send") /\ (ok => FileOf[c] \in cached)
  /\ IF ok THEN CarryOut(c) ELSE UNCHANGED runs
  /\ ToPrune(c, ok)
  /\ UNCHANGED <<ft, batch, seen, busy, cached, begun, unheard, crashes, hours>>

(* pruneCache: the next file, unless the cache is small enough by now. *)
PruneNext(c) ==
  /\ At(c, "prune") /\ job[c].count > CacheMax
  /\ \E f \in job[c].left :
       job' = [job EXCEPT ![c].left = @ \ {f},
                 ![c].at = IF f = FileOf[c] \/ InUse(f) THEN "prune" ELSE "remove",
                 ![c].victim = IF f = FileOf[c] \/ InUse(f) THEN {} ELSE {f}]
  /\ UNCHANGED <<ft, batch, seen, busy, cached, runs, begun, unheard, crashes, hours>>

PruneRemove(c) ==
  /\ At(c, "remove")
  /\ cached' = cached \ job[c].victim
  /\ job' = [job EXCEPT ![c].at = "prune", ![c].victim = {},
               ![c].count = IF job[c].victim \subseteq cached THEN @ - 1 ELSE @]
  /\ UNCHANGED <<ft, batch, seen, busy, runs, begun, unheard, crashes, hours>>

(* The deferred calls: the file is let go, then the printer. *)
JobDone(c) ==
  /\ At(c, "prune") /\ (job[c].count <= CacheMax \/ job[c].left = {})
  /\ job' = [job EXCEPT ![c] = [NoJob EXCEPT !.at = "report", !.ok = job[c].ok]]
  /\ busy' = busy \ {PrinterOf[c]}
  /\ UNCHANGED <<ft, batch, seen, cached, runs, begun, unheard, crashes, hours>>

(* Mutant: the tries start over. *)
ReportForever(c, answer) ==
  /\ At(c, "report")
  /\ Ack(c, Final(job[c].ok), answer)
  /\ job' = IF answer \in {"ok", "gone"}
            THEN [job EXCEPT ![c] = NoJob]
            ELSE [job EXCEPT ![c].tries = (@ + 1) % MaxTries]
  /\ UNCHANGED <<batch, seen, busy, cached, runs, begun, unheard, crashes, hours>>

(* ackWithRetry: until the ack lands, FoxTrack answers 404, or the tries    *)
(* are used up.                                                             *)
Report(c, answer) ==
  /\ At(c, "report")
  /\ Ack(c, Final(job[c].ok), answer)
  /\ job' = IF answer \in {"ok", "gone"} \/ job[c].tries + 1 = MaxTries
            THEN [job EXCEPT ![c] = NoJob]
            ELSE [job EXCEPT ![c].tries = @ + 1]
  /\ unheard' = IF Kind[c] # "print_file" /\ answer \notin {"ok", "gone"} /\ job[c].tries + 1 = MaxTries
                THEN unheard \cup {c} ELSE unheard
  /\ UNCHANGED <<batch, seen, busy, cached, runs, begun, crashes, hours>>

(* The process dies; only the cache folder is left. *)
Restart ==
  /\ crashes < MaxCrashes
  /\ crashes' = crashes + 1
  /\ batch' = {} /\ seen' = {} /\ busy' = {}
  /\ job' = [c \in Cmds |-> NoJob]
  /\ UNCHANGED <<ft, cached, runs, begun, unheard, hours>>

(* An hour without a job passes: pruneSeen forgets what was taken before.   *)
(* A command that FoxTrack still has pending is then handed out again.      *)
ForgetSeen ==
  /\ hours < MaxHours /\ seen # {} /\ batch = {} /\ \A c \in Cmds : At(c, "none")
  /\ hours' = hours + 1 /\ seen' = {}
  /\ UNCHANGED <<ft, batch, busy, job, cached, runs, begun, unheard, crashes>>

-----------------------------------------------------------------------------
Answers == {"ok", "gone", "error", "silence"}

Poll == Fetch \/ \E c \in Cmds :
  \/ SkipSeen(c) \/ Start(c)
  \/ \E ok \in BOOLEAN : RunPlain(c, ok)
  \/ \E a \in Answers : AckPlain(c, a) \/ Accept(c, a)

Work(c) ==
  \/ LockPrinter(c) \/ CheckFails(c) \/ CheckPasses(c) \/ LockFile(c)
  \/ UseCached(c) \/ Download(c) \/ DownloadFails(c)
  \/ PruneNext(c) \/ PruneRemove(c) \/ JobDone(c)
  \/ \E ok \in BOOLEAN : Exec(c, ok) \/ Send(c, ok)
  \/ \E a \in Answers : Report(c, a)

FoxTrack == \E c \in Cmds : Issue(c) \/ OtherBridgeTakes(c) \/ TimesOut(c)

Next == Poll \/ (\E c \in Cmds : Work(c)) \/ FoxTrack \/ Restart \/ ForgetSeen

Spec == Init /\ [][Next]_vars

(* Every goroutine runs, and the requests and uploads in it have timeouts. *)
FairSpec == Spec /\ WF_vars(Poll) /\ \A c \in Cmds : WF_vars(Work(c))

-----------------------------------------------------------------------------
(* A lost ack never runs a second G28 (startConsoleCommand), and a file is  *)
(* not printed twice: a restart forgets what was taken, and so does an hour *)
(* that passes after the final ack was given up; and then only a file whose *)
(* running ack got no answer can be handed out again.  A plain command is   *)
(* repeated after a restart or an ack without a good answer.                *)
RepeatIsExplained == \A c \in Cmds : runs[c] > 1 =>
  /\ Kind[c] = "plain" => crashes > 0 \/ c \in unheard
  /\ Kind[c] # "plain" => crashes > 0 \/ (hours > 0 /\ c \in unheard)
  /\ Kind[c] = "print_file" => c \in unheard

(* FoxTrack shows a command as done only when it was carried out here, and  *)
(* as running only when the Bridge has begun it: a command it would not     *)
(* hand out again is never one that nobody runs (startPrintFile).           *)
AcksTellTheTruth == \A c \in Cmds :
  /\ ft[c] = "done" => runs[c] > 0
  /\ ft[c] = "running" => c \in begun

(* Two files are never on their way to one printer. *)
OneFilePerPrinter == \A c, d \in Cmds :
  /\ c # d /\ PrinterOf[c] = PrinterOf[d]
  /\ Kind[c] \in {"printer_file", "print_file"} /\ job[c].at \in {"exec", "send"}
  /\ Kind[d] \in {"printer_file", "print_file"}
  => job[d].at \notin {"exec", "send"}

(* Every job comes to an end, and with it the printer's and the file's     *)
(* lock.                                                                   *)
JobsEnd == \A c \in Cmds : job[c].at # "none" ~> job[c].at = "none"
=============================================================================
