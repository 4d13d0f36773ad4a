--------------------------- MODULE Commands_proofs ---------------------------
(***************************************************************************)
(* Proofs about FoxTrack's commands and the dashboard's buttons, for any    *)
(* number of commands, printers, files, requests, clicks, restarts and     *)
(* hours of quiet.                                                         *)
(***************************************************************************)
EXTENDS MCBridgeCommands, FiniteSetTheorems, TLAPS

-----------------------------------------------------------------------------
(* BridgeCommands.                                                           *)

Jobs == [at : Stages, ok : BOOLEAN, tries : 0 .. MaxTries - 1, left : SUBSET Files, count : Nat,
         victim : SUBSET Files]

(* Stages of a command that has been taken and not yet carried out.          *)
Waiting == {"lock", "check", "cache", "open", "send", "exec"}
Closed(c) == ft[c] \notin {"new", "pending"}

(* A command is known to FoxTrack before the Bridge has it, a job is one of  *)
(* a command that was begun and is remembered, and it reports success only   *)
(* of one that was carried out.                                              *)
KnownOK(c) ==
    /\ c \in batch \cup seen \cup begun => ft[c] # "new"
    /\ ~At(c, "none") \/ runs[c] > 0 => c \in begun
    /\ ~At(c, "none") /\ Kind[c] # "plain" => c \in seen
    /\ job[c].ok => runs[c] > 0

(* Each kind of command passes its own stages.                               *)
StageFits(c) ==
    /\ At(c, "ack") => Kind[c] = "plain"
    /\ At(c, "lock") => Kind[c] \in {"printer_file", "print_file"}
    /\ At(c, "exec") => Kind[c] \in {"console", "printer_file"}
    /\ job[c].at \in {"check", "cache", "open", "send", "prune", "remove"} => Kind[c] = "print_file"
    /\ At(c, "report") => Kind[c] # "plain"
    /\ At(c, "remove") => job[c].count > CacheMax

(* A plain command that was carried out in this life and whose ack is not    *)
(* lost waits for its ack or is closed at FoxTrack.                          *)
PlainOK(c) == Kind[c] = "plain" /\ crashes = 0 /\ c \notin unheard /\ runs[c] > 0 =>
    runs[c] = 1 /\ c \notin batch /\ (At(c, "ack") \/ Closed(c))

(* Any other is remembered, or it is closed; and one that is forgotten is    *)
(* closed if its acks were heard.                                            *)
KeptOK(c) ==
    /\ Kind[c] # "plain" /\ crashes = 0 /\ ~(hours > 0 /\ c \in unheard) /\ runs[c] > 0 =>
         /\ runs[c] = 1 /\ job[c].at \notin Waiting
         /\ c \in seen \/ (Closed(c) /\ c \notin batch)
    /\ c \in seen /\ At(c, "none") /\ c \notin unheard => Closed(c)

(* A file to print is begun after FoxTrack has marked it as running, unless  *)
(* that ack was not heard.                                                   *)
FileOK(c) == Kind[c] = "print_file" /\ c \notin unheard =>
    /\ c \in seen \cup begun => Closed(c)
    /\ runs[c] <= 1
    /\ job[c].at \in Waiting => runs[c] = 0

ToldOK(c) ==
    /\ ft[c] = "done" => runs[c] > 0
    /\ ft[c] = "running" => c \in begun

(* A job that has its printer's lock.                                        *)
Holds(c) ==
    \/ job[c].at \in {"check", "cache", "open", "send", "prune", "remove"}
    \/ At(c, "exec") /\ Kind[c] = "printer_file"
LocksOK ==
    /\ \A c \in Cmds : Holds(c) => PrinterOf[c] \in busy
    /\ \A c, d \in Cmds : Holds(c) /\ Holds(d) /\ PrinterOf[c] = PrinterOf[d] => c = d

CommandOK(c) == KnownOK(c) /\ StageFits(c) /\ PlainOK(c) /\ KeptOK(c) /\ FileOK(c) /\ ToldOK(c)
CommandInv == TypeOK /\ (\A c \in Cmds : CommandOK(c)) /\ LocksOK

-----------------------------------------------------------------------------
(* Before the first command nothing is known, held or told.                  *)
LEMMA CommandInit == Init => CommandInv
<1> SUFFICES ASSUME Init PROVE CommandInv
  OBVIOUS
<1> USE CommandAssumptions
<1>1. TypeOK BY DEF Init, TypeOK, NoJob, Stages
<1>2. ASSUME NEW c \in Cmds PROVE CommandOK(c) /\ ~Holds(c)
  <2>1. ft[c] = "new" /\ runs[c] = 0 /\ job[c].at = "none" /\ job[c].ok = FALSE
    BY DEF Init, NoJob
  <2>2. c \notin batch /\ c \notin seen /\ c \notin begun BY DEF Init
  <2> QED BY <2>1, <2>2 DEF CommandOK, KnownOK, StageFits, PlainOK, KeptOK, FileOK, ToldOK,
                            Holds, At, Waiting
<1>3. LocksOK BY <1>2 DEF LocksOK
<1> QED BY <1>1, <1>2, <1>3 DEF CommandInv

(* A step that is about the command c leaves the others as they are.         *)
OnlyAbout(c) ==
    /\ crashes' = crashes /\ hours' = hours
    /\ \A d \in Cmds \ {c} :
         /\ ft'[d] = ft[d] /\ job'[d] = job[d] /\ runs'[d] = runs[d]
         /\ d \in batch' => d \in batch
         /\ (d \in seen') = (d \in seen) /\ (d \in begun') = (d \in begun)
         /\ (d \in unheard') = (d \in unheard)

(* Such a step keeps the invariant when it keeps it for c.                   *)
LEMMA OneCommand ==
    ASSUME CommandInv, NEW c \in Cmds, OnlyAbout(c), TypeOK', CommandOK(c)', LocksOK'
    PROVE  CommandInv'
<1>1. ASSUME NEW d \in Cmds \ {c} PROVE CommandOK(d)'
  <2>1. CommandOK(d) BY DEF CommandInv
  <2>2. /\ ft'[d] = ft[d] /\ job'[d] = job[d] /\ runs'[d] = runs[d]
        /\ d \in batch' => d \in batch
        /\ (d \in seen') = (d \in seen) /\ (d \in begun') = (d \in begun)
        /\ (d \in unheard') = (d \in unheard)
        /\ crashes' = crashes /\ hours' = hours
    BY DEF OnlyAbout
  <2> QED BY <2>1, <2>2 DEF CommandOK, KnownOK, StageFits, PlainOK, KeptOK, FileOK, ToldOK, At, Closed
<1> QED BY <1>1 DEF CommandInv

(* The printers' locks stay right when the job of c takes none, and gives    *)
(* back only its own.                                                        *)
LEMMA LocksKept ==
    ASSUME CommandInv, NEW c \in Cmds, \A d \in Cmds \ {c} : job'[d] = job[d],
           Holds(c)' => Holds(c),
           busy' = busy \/ (~Holds(c)' /\ Holds(c) /\ busy' = busy \ {PrinterOf[c]})
    PROVE  LocksOK'
<1>1. \A d \in Cmds \ {c} : Holds(d)' = Holds(d) BY DEF Holds, At
<1>2. LocksOK BY DEF CommandInv
<1> QED BY <1>1, <1>2 DEF LocksOK

(* What an ack does to FoxTrack's status of its command, and to no other.    *)
LEMMA AckDoes ==
    ASSUME TypeOK, NEW c \in Cmds, NEW to \in {"running", "done", "failed"}, NEW answer \in Answers,
           Ack(c, to, answer)
    PROVE  /\ ft' \in [Cmds -> {"new", "pending", "running", "done", "failed", "taken"}]
           /\ \A d \in Cmds \ {c} : ft'[d] = ft[d]
           /\ ft'[c] = ft[c] \/ (Open(c, to) /\ ft'[c] = to)
           /\ answer = "ok" => Open(c, to) /\ ft'[c] = to
           /\ answer = "gone" => ~Open(c, to) /\ ft'[c] = ft[c]
           /\ answer = "error" => ft'[c] = ft[c]
<1>1. \/ ft' = ft
      \/ ft' = [ft EXCEPT ![c] = to]
  BY DEF Ack, Answers
<1>2. \/ answer = "ok" /\ Open(c, to) /\ ft' = [ft EXCEPT ![c] = to]
      \/ answer = "gone" /\ ~Open(c, to) /\ ft' = ft
      \/ answer = "error" /\ ft' = ft
      \/ answer = "silence" /\ (ft' = ft \/ (Open(c, to) /\ ft' = [ft EXCEPT ![c] = to]))
  BY DEF Ack, Answers
<1> QED BY <1>1, <1>2 DEF TypeOK

(* A job that goes to another stage keeps the rest.                          *)
LEMMA GotoDoes ==
    ASSUME TypeOK, NEW c \in Cmds, NEW stage \in Stages, Goto(c, stage)
    PROVE  /\ job' \in [Cmds -> Jobs] /\ job'[c].at = stage
           /\ job'[c].ok = job[c].ok /\ job'[c].count = job[c].count
           /\ \A d \in Cmds \ {c} : job'[d] = job[d]
BY DEF TypeOK, Goto, Jobs

-----------------------------------------------------------------------------
(* The poll loop.                                                            *)
LEMMA RunPlainOK ==
    ASSUME CommandInv, NEW c \in Cmds, NEW ok \in BOOLEAN, RunPlain(c, ok) PROVE CommandInv'
<1> USE CommandAssumptions
<1>1. TypeOK /\ CommandOK(c) BY DEF CommandInv
<1>2. /\ job' \in [Cmds -> Jobs] /\ job'[c].at = "ack" /\ job'[c].ok = ok
      /\ \A d \in Cmds \ {c} : job'[d] = job[d]
  BY <1>1, ZenonT(60) DEF TypeOK, RunPlain, Stages, Jobs
<1>3. /\ runs[c] \in 0 .. 2 /\ runs'[c] = IF runs[c] = 2 THEN 2 ELSE runs[c] + 1
      /\ \A d \in Cmds \ {c} : runs'[d] = runs[d]
  BY <1>1 DEF TypeOK, RunPlain, CarryOut
<1>4. TypeOK' BY <1>1, <1>2, <1>3 DEF TypeOK, RunPlain, Turn, CarryOut, Jobs
<1>5. OnlyAbout(c) BY <1>2, <1>3 DEF OnlyAbout, RunPlain, Turn
<1>6. CommandOK(c)'
  BY <1>1, <1>2, <1>3 DEF RunPlain, Turn, Waiting, CommandOK, KnownOK, StageFits, PlainOK, KeptOK, FileOK,
     ToldOK, At, Closed
<1>7. LocksOK' BY <1>2, LocksKept DEF RunPlain, Holds, At
<1> QED BY <1>4, <1>5, <1>6, <1>7, OneCommand

(* The only ack of a plain command: without a good answer it is unheard.     *)
LEMMA AckPlainOK ==
    ASSUME CommandInv, NEW c \in Cmds, NEW answer \in Answers, AckPlain(c, answer) PROVE CommandInv'
<1> USE CommandAssumptions
<1> DEFINE to == Final(job[c].ok)
<1>1. TypeOK /\ CommandOK(c) BY DEF CommandInv
<1>2. /\ job' \in [Cmds -> Jobs] /\ job'[c].at = "none" /\ job'[c].ok = FALSE
      /\ \A d \in Cmds \ {c} : job'[d] = job[d]
  BY <1>1 DEF TypeOK, AckPlain, Stages, Jobs, NoJob
<1>3. /\ to \in {"done", "failed"} /\ Ack(c, to, answer)
      /\ to = "done" => job[c].ok
  BY DEF AckPlain, Final
<1>4. /\ ft' \in [Cmds -> {"new", "pending", "running", "done", "failed", "taken"}]
      /\ \A d \in Cmds \ {c} : ft'[d] = ft[d]
      /\ ft'[c] = ft[c] \/ ft'[c] = to
      /\ answer = "ok" => ft'[c] = to
  <2> HIDE DEF to
  <2> QED BY <1>1, <1>3, AckDoes
<1>5. TypeOK' BY <1>1, <1>2, <1>4 DEF TypeOK, AckPlain, Jobs
<1>6. OnlyAbout(c) BY <1>2, <1>4 DEF OnlyAbout, AckPlain
<1>7. CommandOK(c)'
  <2> HIDE DEF to
  <2> QED BY <1>1, <1>2, <1>3, <1>4 DEF AckPlain, Waiting, CommandOK, KnownOK, StageFits, PlainOK, KeptOK, FileOK,
     ToldOK, At, Closed
<1>8. LocksOK' BY <1>2, LocksKept DEF AckPlain, Holds, At
<1> QED BY <1>5, <1>6, <1>7, <1>8, OneCommand

LEMMA StartOK == ASSUME CommandInv, NEW c \in Cmds, Start(c) PROVE CommandInv'
<1> USE CommandAssumptions
<1>1. TypeOK /\ CommandOK(c) BY DEF CommandInv
<1>2. /\ job' \in [Cmds -> Jobs] /\ job'[c].ok = job[c].ok
      /\ job'[c].at = IF Kind[c] = "console" THEN "exec" ELSE "lock"
      /\ \A d \in Cmds \ {c} : job'[d] = job[d]
  BY <1>1, SMTT(30) DEF TypeOK, Start, Goto, Stages, Jobs
<1>3. TypeOK' BY <1>1, <1>2 DEF TypeOK, Start, Turn, Jobs
<1>4. OnlyAbout(c) BY <1>2 DEF OnlyAbout, Start, Turn
<1>5. CommandOK(c)'
  BY <1>1, <1>2 DEF Start, Turn, Waiting, CommandOK, KnownOK, StageFits, PlainOK, KeptOK, FileOK,
     ToldOK, At, Closed
<1>6. LocksOK' BY <1>2, LocksKept DEF Start, Holds, At
<1> QED BY <1>3, <1>4, <1>5, <1>6, OneCommand

(* A file is begun after FoxTrack has marked it as running, or no answer came. *)
LEMMA AcceptOK ==
    ASSUME CommandInv, NEW c \in Cmds, NEW answer \in Answers, Accept(c, answer) PROVE CommandInv'
<1> USE CommandAssumptions
<1>1. TypeOK /\ CommandOK(c) BY DEF CommandInv
<1>2. /\ job' \in [Cmds -> Jobs] /\ job'[c].ok = job[c].ok
      /\ job'[c].at = IF answer \in {"ok", "silence"} THEN "lock" ELSE job[c].at
      /\ job'[c].count = job[c].count
      /\ \A d \in Cmds \ {c} : job'[d] = job[d]
  BY <1>1, SMTT(30) DEF TypeOK, Accept, Goto, Stages, Jobs
<1>3. /\ ft' \in [Cmds -> {"new", "pending", "running", "done", "failed", "taken"}]
      /\ \A d \in Cmds \ {c} : ft'[d] = ft[d]
      /\ ft'[c] = ft[c] \/ (Open(c, "running") /\ ft'[c] = "running")
      /\ answer = "ok" => Open(c, "running") /\ ft'[c] = "running"
      /\ answer = "gone" => ~Open(c, "running") /\ ft'[c] = ft[c]
      /\ answer = "error" => ft'[c] = ft[c]
  BY <1>1, AckDoes DEF Accept
<1>4. TypeOK' BY <1>1, <1>2, <1>3 DEF TypeOK, Accept, Turn, Jobs
<1>5. OnlyAbout(c) BY <1>2, <1>3 DEF OnlyAbout, Accept, Turn
<1>6. CommandOK(c)'
  <2>1. /\ c \in batch /\ c \notin batch' /\ c \notin seen /\ Kind[c] = "print_file"
        /\ seen' = IF answer = "error" THEN seen ELSE seen \cup {c}
        /\ unheard' = IF answer \in {"ok", "gone"} THEN unheard ELSE unheard \cup {c}
        /\ begun' = IF answer \in {"ok", "silence"} THEN begun \cup {c} ELSE begun
        /\ runs' = runs /\ crashes' = crashes /\ hours' = hours
    BY DEF Accept, Turn
  <2>2. Open(c, "running") = (ft[c] = "pending") BY DEF Open
  <2>3. CASE answer = "ok"
    <3>1. /\ ft[c] = "pending" /\ ft'[c] = "running" /\ job'[c].at = "lock" /\ c \in seen' /\ c \in begun'
          /\ unheard' = unheard
      BY <1>2, <1>3, <2>1, <2>2, <2>3
    <3>2. c \notin unheard => runs[c] = 0
      BY <1>1, <2>1, <3>1 DEF CommandOK, KnownOK, FileOK, Closed, TypeOK
    <3>3. crashes = 0 /\ ~(hours > 0 /\ c \in unheard) => ~(runs[c] > 0)
      BY <1>1, <2>1 DEF CommandOK, KeptOK
    <3>4. KnownOK(c)' /\ StageFits(c)' /\ PlainOK(c)' /\ ToldOK(c)'
      BY <1>1, <1>2, <2>1, <3>1 DEF CommandOK, KnownOK, StageFits, PlainOK, ToldOK, At
    <3>5. KeptOK(c)' /\ FileOK(c)'
      BY <1>1, <2>1, <3>1, <3>2, <3>3 DEF KeptOK, FileOK, At, Closed, TypeOK
    <3> QED BY <3>4, <3>5 DEF CommandOK
  <2>4. CASE answer = "gone"
    BY <1>1, <1>2, <1>3, <2>1, <2>2, <2>4 DEF Waiting, CommandOK, KnownOK, StageFits, PlainOK,
       KeptOK, FileOK, ToldOK, At, Closed
  <2>5. CASE answer = "error"
    BY <1>1, <1>2, <1>3, <2>1, <2>2, <2>5 DEF Waiting, CommandOK, KnownOK, StageFits, PlainOK,
       KeptOK, FileOK, ToldOK, At, Closed
  <2>6. CASE answer = "silence"
    BY <1>1, <1>2, <1>3, <2>1, <2>2, <2>6 DEF Waiting, CommandOK, KnownOK, StageFits, PlainOK,
       KeptOK, FileOK, ToldOK, At, Closed
  <2> QED BY <2>3, <2>4, <2>5, <2>6 DEF Answers
<1>7. LocksOK'
  BY <1>1, <1>2, LocksKept DEF Accept, Holds, At, CommandOK, StageFits
<1> QED BY <1>4, <1>5, <1>6, <1>7, OneCommand

-----------------------------------------------------------------------------
(* The jobs. A step that only moves the job of c on, and does not carry its  *)
(* command out, keeps the invariant.                                         *)
JobMoves(c) ==
    /\ UNCHANGED <<ft, batch, seen, runs, begun, unheard, crashes, hours>>
    /\ busy' \subseteq Printers /\ cached' \subseteq Files
    /\ job' \in [Cmds -> Jobs] /\ \A d \in Cmds \ {c} : job'[d] = job[d]
    /\ job[c].at \notin {"none", "ack"} /\ job'[c].at \notin {"none", "ack"}
    /\ job'[c].ok => job[c].ok
    /\ job'[c].at \in Waiting => job[c].at \in Waiting

LEMMA MoveOK ==
    ASSUME CommandInv, NEW c \in Cmds, JobMoves(c), StageFits(c)', LocksOK' PROVE CommandInv'
<1>1. TypeOK /\ CommandOK(c) BY DEF CommandInv
<1>2. TypeOK' BY <1>1 DEF TypeOK, JobMoves, Jobs
<1>3. OnlyAbout(c) BY DEF OnlyAbout, JobMoves
<1>4. CommandOK(c)'
  BY <1>1 DEF JobMoves, CommandOK, KnownOK, StageFits, PlainOK, KeptOK, FileOK,
     ToldOK, At, Closed
<1> QED BY <1>2, <1>3, <1>4, OneCommand

LEMMA LockPrinterOK == ASSUME CommandInv, NEW c \in Cmds, LockPrinter(c) PROVE CommandInv'
<1> USE CommandAssumptions
<1>1. TypeOK /\ CommandOK(c) /\ LocksOK BY DEF CommandInv
<1>2. /\ job' \in [Cmds -> Jobs] /\ job'[c].ok = job[c].ok
      /\ job'[c].at = IF PrinterOf[c] \in busy THEN "report"
                      ELSE IF Kind[c] = "print_file" THEN "check" ELSE "exec"
      /\ \A d \in Cmds \ {c} : job'[d] = job[d]
  BY <1>1 DEF TypeOK, LockPrinter, Goto, Stages, Jobs
<1>3. StageFits(c)' BY <1>1, <1>2 DEF CommandOK, StageFits, LockPrinter, At
<1>4. LocksOK'
  <2>1. CASE PrinterOf[c] \in busy
    BY <1>2, <2>1, LocksKept DEF LockPrinter, Holds, At
  <2>2. CASE PrinterOf[c] \notin busy
    <3>1. busy' = busy \cup {PrinterOf[c]} BY <2>2 DEF LockPrinter
    <3>2. \A d \in Cmds \ {c} : Holds(d)' = Holds(d) BY <1>2 DEF Holds, At
    <3> QED BY <1>1, <2>2, <3>1, <3>2 DEF LocksOK
  <2> QED BY <2>1, <2>2
<1>5. JobMoves(c) BY <1>1, <1>2 DEF JobMoves, LockPrinter, Waiting, At, TypeOK
<1> QED BY <1>3, <1>4, <1>5, MoveOK

(* A console command, or a file on the printer: it is carried out once.      *)
LEMMA ExecOK == ASSUME CommandInv, NEW c \in Cmds, NEW ok \in BOOLEAN, Exec(c, ok) PROVE CommandInv'
<1> USE CommandAssumptions
<1>1. TypeOK /\ CommandOK(c) BY DEF CommandInv
<1>2. /\ job' \in [Cmds -> Jobs] /\ job'[c].at = "report" /\ job'[c].ok = ok
      /\ \A d \in Cmds \ {c} : job'[d] = job[d]
  BY <1>1, ZenonT(60) DEF TypeOK, Exec, Stages, Jobs
<1>3. /\ runs[c] \in 0 .. 2 /\ runs'[c] = IF runs[c] = 2 THEN 2 ELSE runs[c] + 1
      /\ runs' \in [Cmds -> 0 .. 2]
      /\ \A d \in Cmds \ {c} : runs'[d] = runs[d]
  BY <1>1 DEF TypeOK, Exec, CarryOut
<1>4. TypeOK' BY <1>1, <1>2, <1>3 DEF TypeOK, Exec, Jobs
<1>5. OnlyAbout(c) BY <1>2, <1>3 DEF OnlyAbout, Exec
<1>6. CommandOK(c)'
  BY <1>1, <1>2, <1>3 DEF Exec, Waiting, CommandOK, KnownOK, StageFits, PlainOK, KeptOK, FileOK,
     ToldOK, At, Closed
<1>7. LocksOK' BY <1>2, LocksKept DEF Exec, Holds, At
<1> QED BY <1>4, <1>5, <1>6, <1>7, OneCommand

LEMMA CheckOK == ASSUME CommandInv, NEW c \in Cmds, CheckFails(c) \/ CheckPasses(c) PROVE CommandInv'
<1> USE CommandAssumptions
<1>1. TypeOK /\ CommandOK(c) BY DEF CommandInv
<1>2. /\ job' \in [Cmds -> Jobs] /\ job'[c].ok = job[c].ok
      /\ job'[c].at = "report" \/ (job'[c].at = "cache" /\ busy' = busy)
      /\ \A d \in Cmds \ {c} : job'[d] = job[d]
  <2>1. "cache" \in Stages /\ "report" \in Stages BY DEF Stages
  <2>2. CASE CheckFails(c) BY <1>1, <2>1, <2>2, GotoDoes DEF CheckFails
  <2>3. CASE CheckPasses(c) BY <1>1, <2>1, <2>3, GotoDoes DEF CheckPasses
  <2> QED BY <2>2, <2>3
<1>3. StageFits(c)' BY <1>1, <1>2 DEF CommandOK, StageFits, CheckFails, CheckPasses, At
<1>4. LocksOK' BY <1>2, LocksKept DEF CheckFails, CheckPasses, Holds, At
<1>5. JobMoves(c) BY <1>1, <1>2 DEF JobMoves, CheckFails, CheckPasses, Waiting, At, TypeOK
<1> QED BY <1>3, <1>4, <1>5, MoveOK

LEMMA ToSendOK ==
    ASSUME CommandInv, NEW c \in Cmds, LockFile(c) \/ UseCached(c) \/ Download(c) PROVE CommandInv'
<1> USE CommandAssumptions
<1>1. TypeOK /\ CommandOK(c) BY DEF CommandInv
<1>2. /\ job' \in [Cmds -> Jobs] /\ job'[c].ok = job[c].ok
      /\ job'[c].at \in {"open", "send"} /\ job[c].at \in {"cache", "open"}
      /\ \A d \in Cmds \ {c} : job'[d] = job[d]
  <2>1. "open" \in Stages /\ "send" \in Stages BY DEF Stages
  <2>2. CASE LockFile(c) BY <1>1, <2>1, <2>2, GotoDoes DEF LockFile, At
  <2>3. CASE UseCached(c) BY <1>1, <2>1, <2>3, GotoDoes DEF UseCached, At
  <2>4. CASE Download(c) BY <1>1, <2>1, <2>4, GotoDoes DEF Download, At
  <2> QED BY <2>2, <2>3, <2>4
<1>3. StageFits(c)' BY <1>1, <1>2 DEF CommandOK, StageFits, At
<1>4. LocksOK' BY <1>2, LocksKept DEF LockFile, UseCached, Download, Holds, At
<1>5. JobMoves(c)
  BY <1>1, <1>2 DEF JobMoves, LockFile, UseCached, Download, Waiting, TypeOK
<1> QED BY <1>3, <1>4, <1>5, MoveOK

(* The job as pruneCache finds it.                                           *)
LEMMA PruneBegins ==
    ASSUME TypeOK, NEW c \in Cmds, NEW ok \in BOOLEAN, ToPrune(c, ok)
    PROVE  /\ job' \in [Cmds -> Jobs] /\ job'[c].at = "prune" /\ job'[c].ok = ok
           /\ \A d \in Cmds \ {c} : job'[d] = job[d]
<1>1. IsFiniteSet(cached) BY CommandAssumptions, FS_Subset DEF TypeOK
<1>2. Cardinality(cached) \in Nat BY <1>1, FS_CardinalityType
<1>3. job \in [Cmds -> Jobs] /\ cached \in SUBSET Files BY DEF TypeOK, Jobs
<1> DEFINE n == Cardinality(cached)
<1>4. job' = [job EXCEPT ![c].at = "prune", ![c].ok = ok, ![c].left = cached, ![c].count = n]
  BY DEF ToPrune
<1> DEFINE half == [job EXCEPT ![c].at = "prune", ![c].ok = ok]
<1>5. /\ half \in [Cmds -> Jobs] /\ half[c].at = "prune" /\ half[c].ok = ok
      /\ \A d \in Cmds \ {c} : half[d] = job[d]
  BY <1>3 DEF Jobs, Stages
<1>6. job' = [half EXCEPT ![c].left = cached, ![c].count = n] BY <1>4
<1> HIDE DEF half
<1> QED BY <1>2, <1>3, <1>5, <1>6, ZenonT(60) DEF Jobs

LEMMA DownloadFailsOK == ASSUME CommandInv, NEW c \in Cmds, DownloadFails(c) PROVE CommandInv'
<1>1. TypeOK /\ CommandOK(c) BY DEF CommandInv
<1>2. /\ job' \in [Cmds -> Jobs] /\ job'[c].at = "prune" /\ job'[c].ok = FALSE
      /\ \A d \in Cmds \ {c} : job'[d] = job[d]
  BY <1>1, PruneBegins DEF DownloadFails
<1>3. StageFits(c)' BY <1>1, <1>2 DEF CommandOK, StageFits, DownloadFails, At
<1>4. LocksOK' BY <1>2, LocksKept DEF DownloadFails, Holds, At
<1>5. JobMoves(c) BY <1>1, <1>2 DEF JobMoves, DownloadFails, Waiting, At, TypeOK
<1> QED BY <1>3, <1>4, <1>5, MoveOK

(* The printer starts the file, or the upload fails.                         *)
LEMMA SendOK == ASSUME CommandInv, NEW c \in Cmds, NEW ok \in BOOLEAN, Send(c, ok) PROVE CommandInv'
<1> USE CommandAssumptions
<1>1. TypeOK /\ CommandOK(c) BY DEF CommandInv
<1>2. /\ job' \in [Cmds -> Jobs] /\ job'[c].at = "prune" /\ job'[c].ok = ok
      /\ \A d \in Cmds \ {c} : job'[d] = job[d]
  BY <1>1, PruneBegins DEF Send
<1>3. StageFits(c)' BY <1>1, <1>2 DEF CommandOK, StageFits, Send, At
<1>4. LocksOK' BY <1>2, LocksKept DEF Send, Holds, At
<1>5. CASE ok = FALSE
  <2>1. JobMoves(c) BY <1>1, <1>2, <1>5 DEF JobMoves, Send, Waiting, At, TypeOK
  <2> QED BY <1>3, <1>4, <2>1, MoveOK
<1>6. CASE ok = TRUE
  <2>1. /\ runs[c] \in 0 .. 2 /\ runs'[c] = IF runs[c] = 2 THEN 2 ELSE runs[c] + 1
        /\ runs' \in [Cmds -> 0 .. 2]
        /\ \A d \in Cmds \ {c} : runs'[d] = runs[d]
    BY <1>1, <1>6 DEF TypeOK, Send, CarryOut
  <2>2. TypeOK' BY <1>1, <1>2, <2>1 DEF TypeOK, Send, Jobs
  <2>3. OnlyAbout(c) BY <1>2, <2>1 DEF OnlyAbout, Send
  <2>4. CommandOK(c)'
    BY <1>1, <1>2, <2>1 DEF Send, Waiting, CommandOK, KnownOK, StageFits, PlainOK, KeptOK, FileOK,
     ToldOK, At, Closed
  <2> QED BY <1>4, <2>2, <2>3, <2>4, OneCommand
<1> QED BY <1>5, <1>6

LEMMA PruneNextOK == ASSUME CommandInv, NEW c \in Cmds, PruneNext(c) PROVE CommandInv'
<1> USE CommandAssumptions
<1>1. TypeOK /\ CommandOK(c) BY DEF CommandInv
<1>2. PICK f \in job[c].left :
        job' = [job EXCEPT ![c].left = @ \ {f},
                  ![c].at = IF f = FileOf[c] \/ InUse(f) THEN "prune" ELSE "remove",
                  ![c].victim = IF f = FileOf[c] \/ InUse(f) THEN {} ELSE {f}]
  BY DEF PruneNext
<1>3. job \in [Cmds -> Jobs] /\ f \in Files BY <1>1 DEF TypeOK, Jobs
<1>4. /\ job' \in [Cmds -> Jobs] /\ job'[c].ok = job[c].ok /\ job'[c].count = job[c].count
      /\ job'[c].at \in {"prune", "remove"}
      /\ \A d \in Cmds \ {c} : job'[d] = job[d]
  <2> DEFINE spared == f = FileOf[c] \/ InUse(f)
             at == IF spared THEN "prune" ELSE "remove"
             victim == IF spared THEN {} ELSE {f}
  <2>1. at \in {"prune", "remove"} /\ victim \in SUBSET Files BY <1>3
  <2>2. job' = [job EXCEPT ![c].left = @ \ {f}, ![c].at = at, ![c].victim = victim] BY <1>2
  <2> HIDE DEF at, victim
  <2> DEFINE half == [job EXCEPT ![c].left = @ \ {f}]
  <2>3. /\ half \in [Cmds -> Jobs] /\ half[c].ok = job[c].ok /\ half[c].count = job[c].count
        /\ \A d \in Cmds \ {c} : half[d] = job[d]
    BY <1>3 DEF Jobs
  <2> DEFINE moved == [half EXCEPT ![c].at = at]
  <2>4. job' = [moved EXCEPT ![c].victim = victim] BY <2>2
  <2> HIDE DEF half
  <2>5. /\ moved \in [Cmds -> Jobs] /\ moved[c].ok = job[c].ok /\ moved[c].count = job[c].count
        /\ moved[c].at = at /\ \A d \in Cmds \ {c} : moved[d] = job[d]
    BY <2>1, <2>3 DEF Jobs, Stages
  <2> HIDE DEF moved
  <2> QED BY <2>1, <2>4, <2>5 DEF Jobs
<1>5. StageFits(c)' BY <1>1, <1>4 DEF CommandOK, StageFits, PruneNext, At
<1>6. LocksOK' BY <1>4, LocksKept DEF PruneNext, Holds, At
<1>7. JobMoves(c) BY <1>1, <1>4 DEF JobMoves, PruneNext, Waiting, At, TypeOK
<1> QED BY <1>5, <1>6, <1>7, MoveOK

LEMMA PruneRemoveOK == ASSUME CommandInv, NEW c \in Cmds, PruneRemove(c) PROVE CommandInv'
<1> USE CommandAssumptions
<1>1. TypeOK /\ CommandOK(c) BY DEF CommandInv
<1>2. job \in [Cmds -> Jobs] /\ job[c].count \in Nat /\ job[c].count > 0
  BY <1>1 DEF TypeOK, Jobs, CommandOK, StageFits, PruneRemove
<1>3. /\ job' \in [Cmds -> Jobs] /\ job'[c].ok = job[c].ok /\ job'[c].at = "prune"
      /\ \A d \in Cmds \ {c} : job'[d] = job[d]
  <2> DEFINE n == IF job[c].victim \subseteq cached THEN job[c].count - 1 ELSE job[c].count
  <2>1. n \in Nat BY <1>2
  <2>2. job' = [job EXCEPT ![c].at = "prune", ![c].victim = {}, ![c].count = n]
    BY <1>2 DEF PruneRemove
  <2> HIDE DEF n
  <2> QED BY <1>2, <2>1, <2>2, ZenonT(60) DEF Jobs, Stages
<1>4. StageFits(c)' BY <1>1, <1>3 DEF CommandOK, StageFits, PruneRemove, At
<1>5. LocksOK' BY <1>3, LocksKept DEF PruneRemove, Holds, At
<1>6. JobMoves(c) BY <1>1, <1>3 DEF JobMoves, PruneRemove, Waiting, At, TypeOK
<1> QED BY <1>4, <1>5, <1>6, MoveOK

LEMMA JobDoneOK == ASSUME CommandInv, NEW c \in Cmds, JobDone(c) PROVE CommandInv'
<1> USE CommandAssumptions
<1>1. TypeOK /\ CommandOK(c) BY DEF CommandInv
<1>2. /\ job' \in [Cmds -> Jobs] /\ job'[c].ok = job[c].ok /\ job'[c].at = "report"
      /\ \A d \in Cmds \ {c} : job'[d] = job[d]
  <2>1. job \in [Cmds -> Jobs] /\ NoJob \in Jobs BY <1>1 DEF TypeOK, Jobs, NoJob, Stages
  <2> DEFINE g == [NoJob EXCEPT !.at = "report", !.ok = job[c].ok]
  <2>2. g \in Jobs /\ g.ok = job[c].ok /\ g.at = "report" BY <2>1 DEF Jobs, Stages
  <2>3. job' = [job EXCEPT ![c] = g] BY DEF JobDone
  <2> HIDE DEF g
  <2> QED BY <2>1, <2>2, <2>3
<1>3. StageFits(c)' BY <1>1, <1>2 DEF CommandOK, StageFits, JobDone, At
<1>4. LocksOK' BY <1>2, LocksKept DEF JobDone, Holds, At
<1>5. JobMoves(c) BY <1>1, <1>2 DEF JobMoves, JobDone, Waiting, At, TypeOK
<1> QED BY <1>3, <1>4, <1>5, MoveOK

(* The final ack: the job ends when it landed, when FoxTrack has closed the  *)
(* command, or with the last try, which leaves it unheard.                   *)
LEMMA ReportOK ==
    ASSUME CommandInv, NEW c \in Cmds, NEW answer \in Answers, Report(c, answer) PROVE CommandInv'
<1> USE CommandAssumptions
<1> DEFINE to == Final(job[c].ok)
           last == answer \in {"ok", "gone"} \/ job[c].tries + 1 = MaxTries
<1>1. TypeOK /\ CommandOK(c) BY DEF CommandInv
<1>2. /\ job' \in [Cmds -> Jobs] /\ job'[c].at = IF last THEN "none" ELSE "report"
      /\ job'[c].ok => job[c].ok
      /\ \A d \in Cmds \ {c} : job'[d] = job[d]
  <2>1. job \in [Cmds -> Jobs] /\ job[c].tries \in 0 .. MaxTries - 1 /\ job[c].at = "report"
    BY <1>1 DEF TypeOK, Jobs, Report, At
  <2>2. CASE last
    <3>1. job' = [job EXCEPT ![c] = NoJob] BY <2>2 DEF Report
    <3> QED BY <2>1, <2>2, <3>1 DEF Jobs, Stages, NoJob
  <2>3. CASE ~last
    <3>1. job' = [job EXCEPT ![c].tries = @ + 1] BY <2>3 DEF Report
    <3>2. job[c].tries + 1 \in 0 .. MaxTries - 1 BY <2>1, <2>3
    <3> QED BY <2>1, <2>3, <3>1, <3>2 DEF Jobs
  <2> QED BY <2>2, <2>3
<1>3. /\ to \in {"done", "failed"} /\ Ack(c, to, answer)
      /\ to = "done" => job[c].ok
  BY DEF Report, Final
<1>4. /\ ft' \in [Cmds -> {"new", "pending", "running", "done", "failed", "taken"}]
      /\ \A d \in Cmds \ {c} : ft'[d] = ft[d]
      /\ ft'[c] = ft[c] \/ (Open(c, to) /\ ft'[c] = to)
      /\ answer = "ok" => ft'[c] = to
      /\ answer = "gone" => ~Open(c, to) /\ ft'[c] = ft[c]
  <2> HIDE DEF to
  <2> QED BY <1>1, <1>3, AckDoes
<1>5. /\ c \in seen /\ c \in begun /\ ft[c] # "new" /\ Kind[c] # "plain" /\ At(c, "report")
      /\ unheard' \subseteq unheard \cup {c} /\ unheard \subseteq unheard'
  BY <1>1 DEF CommandOK, KnownOK, StageFits, Report, At
<1>6. TypeOK' BY <1>1, <1>2, <1>4, <1>5 DEF TypeOK, Report, Jobs
<1>7. OnlyAbout(c) BY <1>2, <1>4, <1>5 DEF OnlyAbout, Report
<1>8. last /\ c \notin unheard' => Closed(c)'
  <2>1. CASE answer = "ok" BY <1>3, <1>4, <2>1 DEF Closed
  <2>2. CASE answer = "gone"
    <3>1. ft[c] \notin {"pending", "running"} BY <1>3, <1>4, <2>2 DEF Open
    <3> QED BY <1>4, <1>5, <2>2, <3>1 DEF Closed
  <2>3. CASE answer \notin {"ok", "gone"} /\ last
    <3>1. Kind[c] = "print_file" \/ c \in unheard' BY <2>3 DEF Report
    <3>2. Kind[c] = "print_file" /\ c \notin unheard' => Closed(c)
      BY <1>1, <1>5 DEF CommandOK, FileOK
    <3> HIDE DEF to
    <3> QED BY <1>3, <1>4, <3>1, <3>2 DEF Closed
  <2> QED BY <2>1, <2>2, <2>3
<1>9. CommandOK(c)'
  <2> HIDE DEF to, last
  <2>1. /\ runs' = runs /\ seen' = seen /\ begun' = begun /\ batch' = batch
        /\ crashes' = crashes /\ hours' = hours
    BY DEF Report
  <2>2. KnownOK(c)' /\ StageFits(c)' /\ PlainOK(c)' /\ ToldOK(c)'
    BY <1>1, <1>2, <1>3, <1>4, <1>5, <2>1 DEF CommandOK, KnownOK, StageFits, PlainOK, ToldOK, At
  <2>3. Closed(c) => Closed(c)' BY <1>3, <1>4 DEF Closed
  <2>4. KeptOK(c)'
    BY <1>1, <1>2, <1>5, <1>8, <2>1, <2>3 DEF CommandOK, KeptOK, At, Waiting
  <2>5. FileOK(c)'
    BY <1>1, <1>2, <1>5, <2>1, <2>3 DEF CommandOK, FileOK, Waiting
  <2> QED BY <2>2, <2>4, <2>5 DEF CommandOK
<1>10. LocksOK' BY <1>2, LocksKept DEF Report, Holds, At
<1> QED BY <1>6, <1>7, <1>9, <1>10, OneCommand

-----------------------------------------------------------------------------
(* Steps of FoxTrack, of the whole Bridge, and the end of a reply.           *)
LEMMA FoxTrackOK ==
    ASSUME CommandInv, NEW c \in Cmds, Issue(c) \/ OtherBridgeTakes(c) \/ TimesOut(c)
    PROVE  CommandInv'
<1>1. TypeOK /\ CommandOK(c) BY DEF CommandInv
<1>2. /\ ft' \in [Cmds -> {"new", "pending", "running", "done", "failed", "taken"}]
      /\ \A d \in Cmds \ {c} : ft'[d] = ft[d]
      /\ \/ ft[c] = "new" /\ ft'[c] = "pending"
         \/ ft[c] = "pending" /\ ft'[c] = "taken"
         \/ ft[c] = "running" /\ ft'[c] = "failed"
  BY <1>1 DEF TypeOK, Issue, OtherBridgeTakes, TimesOut
<1>3. UNCHANGED <<batch, seen, busy, job, cached, runs, begun, unheard, crashes, hours>>
  BY DEF Issue, OtherBridgeTakes, TimesOut
<1>4. TypeOK' BY <1>1, <1>2, <1>3 DEF TypeOK
<1>5. OnlyAbout(c) BY <1>2, <1>3 DEF OnlyAbout
<1>6. CommandOK(c)'
  BY <1>1, <1>2, <1>3 DEF CommandOK, KnownOK, StageFits, PlainOK, KeptOK, FileOK, ToldOK, At, Closed
<1>7. LocksOK' BY <1>3, LocksKept DEF Holds, At
<1> QED BY <1>4, <1>5, <1>6, <1>7, OneCommand

(* A reply names what is pending; no plain command waits for its ack then.   *)
LEMMA FetchOK == ASSUME CommandInv, Fetch PROVE CommandInv'
<1>1. TypeOK /\ LocksOK BY DEF CommandInv
<1>2. UNCHANGED <<ft, seen, busy, job, cached, runs, begun, unheard, crashes, hours>> BY DEF Fetch
<1>3. TypeOK' /\ LocksOK' BY <1>1, <1>2 DEF Fetch, TypeOK, LocksOK, Holds, At
<1>4. ASSUME NEW c \in Cmds PROVE CommandOK(c)'
  <2>1. CommandOK(c) BY DEF CommandInv
  <2>2. ~At(c, "ack") /\ (c \in batch' => ft[c] = "pending") BY DEF Fetch, PollFree
  <2> QED BY <1>2, <2>1, <2>2 DEF CommandOK, KnownOK, StageFits, PlainOK, KeptOK, FileOK, ToldOK,
                                  At, Closed
<1> QED BY <1>3, <1>4 DEF CommandInv

LEMMA SkipSeenOK == ASSUME CommandInv, NEW c \in Cmds, SkipSeen(c) PROVE CommandInv'
<1>1. TypeOK /\ CommandOK(c) BY DEF CommandInv
<1>2. /\ UNCHANGED <<ft, seen, busy, job, cached, runs, begun, unheard, crashes, hours>>
      /\ batch' = batch \ {c}
  BY DEF SkipSeen, Turn
<1>3. TypeOK' /\ OnlyAbout(c) BY <1>1, <1>2 DEF TypeOK, OnlyAbout
<1>4. CommandOK(c)'
  BY <1>1, <1>2 DEF CommandOK, KnownOK, StageFits, PlainOK, KeptOK, FileOK, ToldOK, At, Closed
<1>5. LocksOK' BY <1>2, LocksKept DEF Holds, At
<1> QED BY <1>3, <1>4, <1>5, OneCommand

(* A new process knows nothing of what was taken; FoxTrack does, unless an   *)
(* ack went unheard.                                                         *)
LEMMA RestartOK == ASSUME CommandInv, Restart PROVE CommandInv'
<1> USE CommandAssumptions
<1>1. TypeOK BY DEF CommandInv
<1>2. crashes' # 0 /\ crashes' \in 0 .. MaxCrashes BY <1>1 DEF Restart, TypeOK
<1>3. /\ job' = [c \in Cmds |-> NoJob] /\ batch' = {} /\ seen' = {} /\ busy' = {}
      /\ UNCHANGED <<ft, cached, runs, begun, unheard, hours>>
  BY DEF Restart
<1>4. TypeOK' BY <1>1, <1>2, <1>3 DEF TypeOK, NoJob, Stages
<1>5. ASSUME NEW c \in Cmds PROVE CommandOK(c)' /\ ~Holds(c)'
  <2>1. CommandOK(c) BY DEF CommandInv
  <2>2. job'[c].at = "none" /\ job'[c].ok = FALSE BY <1>3 DEF NoJob
  <2> QED BY <1>2, <1>3, <2>1, <2>2 DEF CommandOK, KnownOK, StageFits, PlainOK, KeptOK, FileOK,
                                        ToldOK, Holds, At, Closed, Waiting
<1>6. LocksOK' BY <1>5 DEF LocksOK
<1> QED BY <1>4, <1>5, <1>6 DEF CommandInv

(* What is forgotten after an hour of quiet is closed or was not heard.      *)
LEMMA ForgetSeenOK == ASSUME CommandInv, ForgetSeen PROVE CommandInv'
<1> USE CommandAssumptions
<1>1. TypeOK /\ LocksOK BY DEF CommandInv
<1>2. hours' > 0 /\ hours' \in 0 .. MaxHours BY <1>1 DEF ForgetSeen, TypeOK
<1>3. /\ batch = {} /\ seen' = {} /\ \A c \in Cmds : At(c, "none")
      /\ UNCHANGED <<ft, batch, busy, job, cached, runs, begun, unheard, crashes>>
  BY DEF ForgetSeen
<1>4. TypeOK' /\ LocksOK' BY <1>1, <1>2, <1>3 DEF TypeOK, LocksOK, Holds, At
<1>5. ASSUME NEW c \in Cmds PROVE CommandOK(c)'
  <2>1. CommandOK(c) BY DEF CommandInv
  <2>2. crashes = 0 /\ c \notin unheard /\ runs[c] > 0 /\ Kind[c] # "plain" => runs[c] = 1 /\ Closed(c)
    BY <1>3, <2>1 DEF CommandOK, KeptOK
  <2> QED BY <1>2, <1>3, <2>1, <2>2 DEF CommandOK, KnownOK, StageFits, PlainOK, KeptOK, FileOK,
                                        ToldOK, At, Closed, Waiting
<1> QED BY <1>4, <1>5 DEF CommandInv

LEMMA CommandStutter == ASSUME CommandInv, UNCHANGED vars PROVE CommandInv'
<1>1. TypeOK' /\ LocksOK' BY DEF CommandInv, vars, TypeOK, LocksOK, Holds, At
<1>2. ASSUME NEW c \in Cmds PROVE CommandOK(c)'
  BY DEF CommandInv, vars, CommandOK, KnownOK, StageFits, PlainOK, KeptOK, FileOK, ToldOK, At, Closed
<1> QED BY <1>1, <1>2 DEF CommandInv

(* Every step of the poll loop, of a job, of FoxTrack and of the process     *)
(* keeps the invariant.                                                      *)
LEMMA CommandStepOK == CommandInv /\ [Next]_vars => CommandInv'
<1> SUFFICES ASSUME CommandInv, [Next]_vars PROVE CommandInv'
  OBVIOUS
<1>1. CASE Poll
  <2>1. CASE Fetch BY <2>1, FetchOK
  <2>2. ASSUME NEW c \in Cmds, SkipSeen(c) PROVE CommandInv' BY <2>2, SkipSeenOK
  <2>3. ASSUME NEW c \in Cmds, Start(c) PROVE CommandInv' BY <2>3, StartOK
  <2>4. ASSUME NEW c \in Cmds, NEW ok \in BOOLEAN, RunPlain(c, ok) PROVE CommandInv'
    BY <2>4, RunPlainOK
  <2>5. ASSUME NEW c \in Cmds, NEW a \in Answers, AckPlain(c, a) PROVE CommandInv' BY <2>5, AckPlainOK
  <2>6. ASSUME NEW c \in Cmds, NEW a \in Answers, Accept(c, a) PROVE CommandInv' BY <2>6, AcceptOK
  <2> QED BY <1>1, <2>1, <2>2, <2>3, <2>4, <2>5, <2>6 DEF Poll
<1>2. ASSUME NEW c \in Cmds, Work(c) PROVE CommandInv'
  <2>1. CASE LockPrinter(c) BY <2>1, LockPrinterOK
  <2>2. CASE CheckFails(c) \/ CheckPasses(c) BY <2>2, CheckOK
  <2>3. CASE LockFile(c) \/ UseCached(c) \/ Download(c) BY <2>3, ToSendOK
  <2>4. CASE DownloadFails(c) BY <2>4, DownloadFailsOK
  <2>5. CASE PruneNext(c) BY <2>5, PruneNextOK
  <2>6. CASE PruneRemove(c) BY <2>6, PruneRemoveOK
  <2>7. CASE JobDone(c) BY <2>7, JobDoneOK
  <2>8. ASSUME NEW ok \in BOOLEAN, Exec(c, ok) PROVE CommandInv' BY <2>8, ExecOK
  <2>9. ASSUME NEW ok \in BOOLEAN, Send(c, ok) PROVE CommandInv' BY <2>9, SendOK
  <2>10. ASSUME NEW a \in Answers, Report(c, a) PROVE CommandInv' BY <2>10, ReportOK
  <2> QED BY <1>2, <2>1, <2>2, <2>3, <2>4, <2>5, <2>6, <2>7, <2>8, <2>9, <2>10 DEF Work
<1>3. CASE FoxTrack BY <1>3, FoxTrackOK DEF FoxTrack
<1>4. CASE Restart BY <1>4, RestartOK
<1>5. CASE ForgetSeen BY <1>5, ForgetSeenOK
<1>6. CASE UNCHANGED vars BY <1>6, CommandStutter
<1> QED BY <1>1, <1>2, <1>3, <1>4, <1>5, <1>6 DEF Next

(* What the invariant says of the commands.                                  *)
LEMMA CommandsFollow ==
    CommandInv => TypeOK /\ RepeatIsExplained /\ AcksTellTheTruth /\ OneFilePerPrinter
<1> SUFFICES ASSUME CommandInv PROVE TypeOK /\ RepeatIsExplained /\ AcksTellTheTruth /\ OneFilePerPrinter
  OBVIOUS
<1> USE CommandAssumptions
<1>1. TypeOK /\ LocksOK BY DEF CommandInv
<1>2. RepeatIsExplained
  <2> SUFFICES ASSUME NEW c \in Cmds, runs[c] > 1
               PROVE  /\ Kind[c] = "plain" => crashes > 0 \/ c \in unheard
                      /\ Kind[c] # "plain" => crashes > 0 \/ (hours > 0 /\ c \in unheard)
                      /\ Kind[c] = "print_file" => c \in unheard
    BY DEF RepeatIsExplained
  <2>1. CommandOK(c) BY DEF CommandInv
  <2>2. runs[c] \in 0 .. 2 /\ crashes \in Nat BY <1>1 DEF TypeOK
  <2> QED BY <2>1, <2>2 DEF CommandOK, PlainOK, KeptOK, FileOK
<1>3. AcksTellTheTruth BY DEF CommandInv, CommandOK, ToldOK, AcksTellTheTruth
<1>4. OneFilePerPrinter
  <2>1. ASSUME NEW c \in Cmds, Kind[c] \in {"printer_file", "print_file"}, job[c].at \in {"exec", "send"}
        PROVE  Holds(c)
    BY <2>1 DEF CommandInv, CommandOK, StageFits, Holds, At
  <2> QED BY <1>1, <2>1 DEF OneFilePerPrinter, LocksOK
<1> QED BY <1>1, <1>2, <1>3, <1>4

(* FoxTrack's commands for any number of commands, printers, files, tries    *)
(* and restarts: every repetition has its reason, no ack says what did not   *)
(* happen, and a printer gets one file at a time (bridge_commands.go:110-249,*)
(* printjob.go:142-249).                                                     *)
THEOREM CommandsStayRight == Spec => [](TypeOK /\ RepeatIsExplained /\ AcksTellTheTruth /\ OneFilePerPrinter)
<1>1. Spec => []CommandInv BY CommandInit, CommandStepOK, PTL DEF Spec
<1> QED BY <1>1, CommandsFollow, PTL

-----------------------------------------------------------------------------
(* Controls.                                                                 *)

ControlTypes ==
    /\ overMQTT \in BOOLEAN /\ refuses \in BOOLEAN /\ blocked \in BOOLEAN
    /\ shows \in {"settled", "printing", "away"}
    /\ replies \in Seq({"success", "verify failed"})
    /\ remembered \subseteq Clicks /\ excused \subseteq Clicks /\ sent \in [Clicks -> 0 .. 2]
    /\ request \in [Requests -> [at : {"none", "asked", "run", "ran", "over"}, click : Clicks,
                                 answer : {"none", "ok", "refused", "error", "blocked"}]]

(* What the answers rest on: a command that ran, or that is remembered, went *)
(* out.                                                                      *)
SentOK ==
    /\ \A k \in remembered : sent[k] > 0
    /\ \A r \in Requests : request[r].at = "ran" => sent[Click(r)] > 0

(* A click that is not excused has one request at work; while that one runs  *)
(* nothing has gone out, and what went out is remembered or about to be.     *)
ClickOK(k) == k \notin excused =>
    /\ \A r, q \in Requests : Going(r) /\ Going(q) /\ Click(r) = k /\ Click(q) = k => r = q
    /\ \A r \in Requests : request[r].at = "run" /\ Click(r) = k => sent[k] = 0
    /\ sent[k] <= 1
    /\ sent[k] > 0 => k \in remembered \/ \E r \in Requests : request[r].at = "ran" /\ Click(r) = k

ControlInv == ControlTypes /\ SentOK /\ (\A k \in Clicks : ClickOK(k)) /\ AnswersAreTrue /\ BlockIsFresh

(* A queue with one more at its end, and one whose first is gone.            *)
LEMMA AppendDoes ==
    ASSUME NEW S, NEW s \in Seq(S), NEW x \in S
    PROVE  /\ Append(s, x) \in Seq(S)
           /\ \A i \in 1 .. Len(Append(s, x)) : \/ i \in 1 .. Len(s) /\ Append(s, x)[i] = s[i]
                                              \/ Append(s, x)[i] = x
<1>1. Append(s, x) \in Seq(S) /\ Len(Append(s, x)) = Len(s) + 1 /\ Len(s) \in Nat OBVIOUS
<1>2. Append(s, x)[Len(s) + 1] = x /\ \A i \in 1 .. Len(s) : Append(s, x)[i] = s[i] OBVIOUS
<1>3. \A i \in 1 .. Len(s) + 1 : i \in 1 .. Len(s) \/ i = Len(s) + 1 BY <1>1
<1> QED BY <1>1, <1>2, <1>3

LEMMA TailDoes ==
    ASSUME NEW S, NEW s \in Seq(S), s # << >>
    PROVE  /\ Tail(s) \in Seq(S) /\ Head(s) = s[1] /\ 1 \in 1 .. Len(s)
           /\ \A i \in 1 .. Len(Tail(s)) : i + 1 \in 1 .. Len(s) /\ Tail(s)[i] = s[i + 1]
<1>1. /\ Tail(s) \in Seq(S) /\ Len(Tail(s)) = Len(s) - 1 /\ Len(s) \in Nat /\ Len(s) > 0
      /\ Head(s) = s[1]
  OBVIOUS
<1>2. \A i \in 1 .. Len(s) - 1 : Tail(s)[i] = s[i + 1] OBVIOUS
<1>3. \A i \in 1 .. Len(s) - 1 : i + 1 \in 1 .. Len(s) BY <1>1
<1> QED BY <1>1, <1>2, <1>3

LEMMA ControlStart == ControlInit => ControlInv
<1> SUFFICES ASSUME ControlInit PROVE ControlInv
  OBVIOUS
<1>1. PICK click \in [Requests -> Clicks] : request = [r \in Requests |-> NotCome(click[r])]
  BY DEF ControlInit
<1>2. /\ request \in [Requests -> [at : {"none", "asked", "run", "ran", "over"}, click : Clicks,
                                   answer : {"none", "ok", "refused", "error", "blocked"}]]
      /\ \A r \in Requests : request[r].at = "none" /\ request[r].answer = "none"
  BY <1>1 DEF NotCome
<1>3. ControlTypes
  <2>1. refuses \in BOOLEAN /\ overMQTT \in BOOLEAN BY DEF ControlInit
  <2>2. replies \in Seq({"success", "verify failed"}) BY DEF ControlInit
  <2>3. sent \in [Clicks -> 0 .. 2] BY DEF ControlInit
  <2>4. /\ shows \in {"settled", "printing", "away"} /\ blocked \in BOOLEAN
        /\ remembered \subseteq Clicks /\ excused \subseteq Clicks
    BY DEF ControlInit
  <2> QED BY <1>2, <2>1, <2>2, <2>3, <2>4, Zenon DEF ControlTypes
<1>4. SentOK /\ AnswersAreTrue BY <1>2 DEF ControlInit, SentOK, AnswersAreTrue
<1>5. \A k \in Clicks : ClickOK(k) BY <1>2 DEF ControlInit, ClickOK, Going
<1>6. BlockIsFresh
  <2>1. Len(replies) = 0 BY DEF ControlInit
  <2> QED BY <2>1 DEF ControlInit, BlockIsFresh
<1> QED BY <1>3, <1>4, <1>5, <1>6 DEF ControlInv

(* A step of one request, to another stage with another answer.              *)
LEMMA ToDoes ==
    ASSUME ControlTypes, NEW r \in Requests, NEW at \in {"none", "asked", "run", "ran", "over"},
           NEW answer \in {"none", "ok", "refused", "error", "blocked"}, To(r, at, answer)
    PROVE  /\ request' \in [Requests -> [at : {"none", "asked", "run", "ran", "over"}, click : Clicks,
                                         answer : {"none", "ok", "refused", "error", "blocked"}]]
           /\ request'[r].at = at /\ request'[r].answer = answer /\ request'[r].click = request[r].click
           /\ \A q \in Requests \ {r} : request'[q] = request[q]
BY DEF ControlTypes, To

LEMMA AskControlOK == ASSUME ControlInv, NEW r \in Requests, AskControl(r) PROVE ControlInv'
<1>1. ControlTypes BY DEF ControlInv
<1>2. PICK at \in {"asked", "over"}, answer \in {"none", "refused"} : To(r, at, answer)
  BY DEF AskControl
<1>3. /\ request' \in [Requests -> [at : {"none", "asked", "run", "ran", "over"}, click : Clicks,
                                    answer : {"none", "ok", "refused", "error", "blocked"}]]
      /\ request'[r].at = at /\ request'[r].answer = answer /\ request'[r].click = request[r].click
      /\ \A q \in Requests \ {r} : request'[q] = request[q]
  BY <1>1, <1>2, ToDoes
<1>4. request[r].at = "none"
      /\ UNCHANGED <<overMQTT, shows, refuses, blocked, replies, remembered, sent, excused>>
  BY DEF AskControl, OnlyRequest
<1>5. ControlTypes' BY <1>1, <1>3, <1>4 DEF ControlTypes
<1>6. \A q \in Requests : Click(q)' = Click(q) /\ Going(q)' = Going(q)
                          /\ (request'[q].at = "ran") = (request[q].at = "ran")
                          /\ (request'[q].at = "run") = (request[q].at = "run")
  BY <1>3, <1>4 DEF Click, Going
<1>7. SentOK' /\ (\A k \in Clicks : ClickOK(k)') BY <1>4, <1>6 DEF ControlInv, SentOK, ClickOK
<1>8. AnswersAreTrue' BY <1>3, <1>4, <1>6 DEF ControlInv, AnswersAreTrue, Command
<1>9. BlockIsFresh' BY <1>4 DEF ControlInv, BlockIsFresh
<1> QED BY <1>5, <1>7, <1>8, <1>9 DEF ControlInv

(* A click that is not remembered and has nobody at work has not gone out.   *)
LEMMA SeenControlKeyOK == ASSUME ControlInv, NEW r \in Requests, SeenControlKey(r) PROVE ControlInv'
<1>1. ControlTypes BY DEF ControlInv
<1>2. request[r].at = "asked" /\ UNCHANGED <<overMQTT, shows, refuses, blocked, replies, remembered, sent>>
  BY DEF SeenControlKey, OnlyRequest
<1>3. CASE Click(r) \in remembered
  <2>1. To(r, "over", "ok") /\ UNCHANGED excused BY <1>3 DEF SeenControlKey
  <2>2. /\ request' \in [Requests -> [at : {"none", "asked", "run", "ran", "over"}, click : Clicks,
                                      answer : {"none", "ok", "refused", "error", "blocked"}]]
        /\ request'[r].at = "over" /\ request'[r].answer = "ok" /\ request'[r].click = request[r].click
        /\ \A q \in Requests \ {r} : request'[q] = request[q]
    BY <1>1, <2>1, ToDoes
  <2>3. ControlTypes' BY <1>1, <1>2, <2>1, <2>2 DEF ControlTypes
  <2>4. \A q \in Requests : Click(q)' = Click(q) /\ Going(q)' = Going(q)
                            /\ (request'[q].at = "ran") = (request[q].at = "ran")
                            /\ (request'[q].at = "run") = (request[q].at = "run")
    BY <1>2, <2>2 DEF Click, Going
  <2>5. SentOK' /\ (\A k \in Clicks : ClickOK(k)')
    BY <1>2, <2>1, <2>4 DEF ControlInv, SentOK, ClickOK
  <2>6. AnswersAreTrue' BY <1>2, <1>3, <2>2, <2>4 DEF ControlInv, AnswersAreTrue, SentOK, Command
  <2>7. BlockIsFresh' BY <1>2 DEF ControlInv, BlockIsFresh
  <2> QED BY <2>3, <2>5, <2>6, <2>7 DEF ControlInv
<1>4. CASE Click(r) \notin remembered
  <2> DEFINE others == {o \in Requests \ {r} : Going(o) /\ Click(o) = Click(r)}
  <2>1. /\ To(r, "run", "none") /\ excused \subseteq excused'
        /\ excused' = excused \cup {Click(q) : q \in others}
    BY <1>4 DEF SeenControlKey
  <2>2. /\ request' \in [Requests -> [at : {"none", "asked", "run", "ran", "over"}, click : Clicks,
                                      answer : {"none", "ok", "refused", "error", "blocked"}]]
        /\ request'[r].at = "run" /\ request'[r].answer = "none" /\ request'[r].click = request[r].click
        /\ \A q \in Requests \ {r} : request'[q] = request[q]
    BY <1>1, <2>1, ToDoes
  <2>3. Click(r) \in Clicks BY <1>1 DEF ControlTypes, Click
  <2>4. excused' \subseteq excused \cup {Click(r)} BY <2>1
  <2>5. ControlTypes' BY <1>1, <1>2, <2>2, <2>3, <2>4 DEF ControlTypes
  <2>6. SentOK' BY <1>2, <2>2 DEF ControlInv, SentOK, Click
  <2>7. ASSUME NEW k \in Clicks PROVE ClickOK(k)'
    <3>1. ClickOK(k) BY DEF ControlInv
    <3>2. CASE k # Click(r)
      <4>1. \A q \in Requests : Click(q)' = Click(q)
                                /\ (Click(q) = k => q # r /\ request'[q] = request[q])
        BY <2>2, <3>2 DEF Click
      <4>2. (k \in excused') = (k \in excused) BY <2>1, <2>4, <3>2
      <4> QED BY <1>2, <3>1, <4>1, <4>2 DEF ClickOK, Going
    <3>3. CASE k = Click(r) /\ k \notin excused'
      <4>1. \A q \in Requests \ {r} : ~(Going(q) /\ Click(q) = k) BY <2>1, <3>3
      <4>2. sent[k] = 0
        <5>1. k \notin excused BY <2>1, <3>3
        <5>2. ~(sent[k] > 0) BY <1>2, <1>4, <3>1, <3>3, <4>1, <5>1 DEF ClickOK, Going
        <5>3. sent[k] \in 0 .. 2 BY <1>1 DEF ControlTypes
        <5> QED BY <5>2, <5>3
      <4>3. \A q \in Requests \ {r} : ~(Going(q)' /\ Click(q)' = k)
        BY <2>2, <4>1 DEF Going, Click
      <4> QED BY <1>2, <3>3, <4>2, <4>3 DEF ClickOK, Going
    <3>4. CASE k \in excused' BY <3>4 DEF ClickOK
    <3> QED BY <3>2, <3>3, <3>4
  <2>8. AnswersAreTrue' BY <1>2, <2>2 DEF ControlInv, AnswersAreTrue, Command, Click
  <2>9. BlockIsFresh' BY <1>2 DEF ControlInv, BlockIsFresh
  <2> QED BY <2>5, <2>6, <2>7, <2>8, <2>9 DEF ControlInv
<1> QED BY <1>3, <1>4

(* The command goes out for the first time, or its click is excused.         *)
LEMMA RunControlOK == ASSUME ControlInv, NEW r \in Requests, RunControl(r) PROVE ControlInv'
<1> DEFINE k0 == Click(r)
<1>1. ControlTypes BY DEF ControlInv
<1>2. PICK out \in BOOLEAN, ok \in BOOLEAN :
        /\ Blocks(r) => ~out
        /\ ok => out
        /\ To(r, IF ok THEN "ran" ELSE "over", IF ok THEN "none" ELSE IF Blocks(r) THEN "blocked" ELSE "error")
        /\ sent' = [sent EXCEPT ![Click(r)] = IF out /\ @ < 2 THEN @ + 1 ELSE @]
        /\ excused' = IF out /\ ~ok THEN excused \cup {Click(r)} ELSE excused
        /\ replies' = IF out /\ overMQTT
                      THEN Append(replies, IF refuses THEN "verify failed" ELSE "success") ELSE replies
  BY DEF RunControl
<1>3. /\ request[r].at = "run"
      /\ UNCHANGED <<overMQTT, shows, refuses, blocked, remembered>>
  BY DEF RunControl, OnlyRequest
<1>4. k0 \in Clicks BY <1>1 DEF ControlTypes, Click
<1>5. PICK at \in {"ran", "over"}, answer \in {"none", "blocked", "error"} :
        /\ To(r, at, answer) /\ (at = "ran") = ok
        /\ answer = "blocked" => Blocks(r)
  <2>1. CASE ok BY <1>2, <2>1
  <2>2. CASE ~ok /\ Blocks(r) BY <1>2, <2>2
  <2>3. CASE ~ok /\ ~Blocks(r) BY <1>2, <2>3
  <2> QED BY <2>1, <2>2, <2>3
<1>6. /\ request' \in [Requests -> [at : {"none", "asked", "run", "ran", "over"}, click : Clicks,
                                    answer : {"none", "ok", "refused", "error", "blocked"}]]
      /\ request'[r].at = at /\ request'[r].answer = answer /\ request'[r].click = request[r].click
      /\ \A q \in Requests \ {r} : request'[q] = request[q]
  BY <1>1, <1>5, ToDoes
<1>7. /\ sent \in [Clicks -> 0 .. 2] /\ sent' \in [Clicks -> 0 .. 2]
      /\ sent'[k0] = IF out /\ sent[k0] < 2 THEN sent[k0] + 1 ELSE sent[k0]
      /\ \A k \in Clicks \ {k0} : sent'[k] = sent[k]
  <2>1. sent \in [Clicks -> 0 .. 2] BY <1>1 DEF ControlTypes
  <2> DEFINE n == IF out /\ sent[k0] < 2 THEN sent[k0] + 1 ELSE sent[k0]
  <2>2. n \in 0 .. 2 BY <1>4, <2>1
  <2>3. sent' = [sent EXCEPT ![k0] = n] BY <1>2
  <2>4. sent' \in [Clicks -> 0 .. 2] /\ sent'[k0] = n /\ \A k \in Clicks \ {k0} : sent'[k] = sent[k]
    <3> HIDE DEF n, k0
    <3> QED BY <1>4, <2>1, <2>2, <2>3
  <2> QED BY <2>1, <2>4
<1>8. replies \in Seq({"success", "verify failed"}) BY <1>1 DEF ControlTypes
<1> DEFINE e == IF refuses THEN "verify failed" ELSE "success"
<1>18. /\ e \in {"success", "verify failed"}
       /\ e = "verify failed" => refuses
       /\ replies' = replies \/ replies' = Append(replies, e)
  BY <1>2
<1> HIDE DEF e
<1>9. /\ replies' \in Seq({"success", "verify failed"})
      /\ \A i \in 1 .. Len(replies') :  \/ i \in 1 .. Len(replies) /\ replies'[i] = replies[i]
                                        \/ replies'[i] = e
  <2>1. CASE replies' = replies
    <3>1. Len(replies') = Len(replies) /\ \A i \in 1 .. Len(replies) : replies'[i] = replies[i] BY <2>1, Zenon
    <3> QED BY <1>8, <2>1, <3>1, Zenon
  <2>2. CASE replies' = Append(replies, e)
    <3>1. /\ Append(replies, e) \in Seq({"success", "verify failed"})
          /\ \A i \in 1 .. Len(Append(replies, e)) :
               \/ i \in 1 .. Len(replies) /\ Append(replies, e)[i] = replies[i]
               \/ Append(replies, e)[i] = e
      <4> DEFINE S == {"success", "verify failed"}
      <4>1. replies \in Seq(S) /\ e \in S BY <1>8, <1>18
      <4> HIDE DEF S
      <4>2. /\ Append(replies, e) \in Seq(S)
            /\ \A i \in 1 .. Len(Append(replies, e)) :
                 \/ i \in 1 .. Len(replies) /\ Append(replies, e)[i] = replies[i]
                 \/ Append(replies, e)[i] = e
        BY <4>1, AppendDoes
      <4> QED BY <4>2 DEF S
    <3> QED BY <2>2, <3>1, Zenon
  <2> QED BY <1>18, <2>1, <2>2
<1>10. excused' \subseteq Clicks /\ excused \subseteq excused' BY <1>1, <1>2, <1>4 DEF ControlTypes
<1> HIDE DEF k0
<1>11. ControlTypes' BY <1>1, <1>3, <1>6, <1>7, <1>9, <1>10 DEF ControlTypes
<1>12. \A q \in Requests : Click(q)' = Click(q) /\ Click(q) \in Clicks
  BY <1>1, <1>6 DEF Click, ControlTypes
<1>13. \A k \in Clicks : sent'[k] >= sent[k] BY <1>7
<1>14. SentOK'
  <2>1. \A k \in remembered' : sent'[k] > 0
    <3>1. remembered' \subseteq Clicks /\ \A k \in remembered' : sent[k] > 0
      BY <1>1, <1>3 DEF ControlInv, SentOK, ControlTypes
    <3> QED BY <1>7, <1>13, <3>1
  <2>2. ok => sent'[k0] > 0
    <3>1. CASE ok
      <4>1. out BY <1>2, <3>1
      <4>2. sent'[k0] = IF sent[k0] < 2 THEN sent[k0] + 1 ELSE sent[k0] BY <1>7, <4>1
      <4> QED BY <1>4, <1>7, <4>2
    <3> QED BY <3>1
  <2>3. ASSUME NEW q \in Requests, request'[q].at = "ran" PROVE sent'[Click(q)'] > 0
    <3>1. CASE q = r BY <1>5, <1>6, <1>12, <2>2, <2>3, <3>1 DEF k0
    <3>2. CASE q # r
      <4>1. sent[Click(q)] > 0 BY <1>6, <2>3, <3>2 DEF ControlInv, SentOK
      <4> QED BY <1>7, <1>12, <1>13, <4>1
    <3> QED BY <3>1, <3>2
  <2> QED BY <2>1, <2>3 DEF SentOK
<1>15. ASSUME NEW k \in Clicks, k \notin excused' PROVE ClickOK(k)'
  <2>1. ClickOK(k) /\ k \notin excused BY <1>10, <1>15 DEF ControlInv
  <2>2. CASE k # k0
    <3>1. \A q \in Requests : Click(q) = k => request'[q] = request[q] BY <1>6, <2>2 DEF k0
    <3> QED BY <1>3, <1>7, <1>12, <2>1, <2>2, <3>1 DEF ClickOK, Going
  <2>3. CASE k = k0
    <3>1. sent[k] = 0 /\ k = Click(r) BY <1>3, <2>1, <2>3 DEF ClickOK, k0
    <3>2. \A q \in Requests \ {r} : ~(Going(q) /\ Click(q) = k)
      BY <1>3, <2>1, <3>1 DEF ClickOK, Going
    <3>3. \A q \in Requests \ {r} : ~(Going(q)' /\ Click(q)' = k) BY <1>6, <3>2 DEF Going, Click
    <3>4. out => ok
      <4>1. excused' = IF out /\ ~ok THEN excused \cup {Click(r)} ELSE excused BY <1>2
      <4> QED BY <1>15, <3>1, <4>1
    <3>5. sent'[k] <= 1 /\ (sent'[k] > 0 => ok) BY <1>7, <2>3, <3>1, <3>4
    <3>6. request'[r].at # "run" BY <1>6
    <3> QED BY <1>5, <1>6, <1>12, <3>1, <3>3, <3>5, <3>6 DEF ClickOK, Going
  <2> QED BY <2>2, <2>3
<1>16. AnswersAreTrue'
  <2>1. ASSUME NEW q \in Requests
        PROVE  /\ request'[q].answer = "ok" => sent'[Click(q)'] > 0
               /\ request'[q].answer = "blocked" => CommandOf[Click(q)'] # "stop"
    <3>1. CASE q = r BY <1>5, <1>6, <1>12, <3>1 DEF Blocks, Command
    <3>2. CASE q # r
      BY <1>6, <1>7, <1>12, <1>13, <3>2 DEF ControlInv, AnswersAreTrue, Command
    <3> QED BY <3>1, <3>2
  <2> QED BY <2>1 DEF AnswersAreTrue, Command
<1>17. BlockIsFresh'
  <2>1. ASSUME NEW i \in 1 .. Len(replies'), replies'[i] = "verify failed" PROVE refuses
    <3>1. CASE i \in 1 .. Len(replies) /\ replies'[i] = replies[i]
      BY <2>1, <3>1 DEF ControlInv, BlockIsFresh
    <3>2. CASE replies'[i] = e BY <1>18, <2>1, <3>2
    <3> QED BY <1>9, <2>1, <3>1, <3>2
  <2> QED BY <1>3, <2>1 DEF ControlInv, BlockIsFresh
<1> QED BY <1>11, <1>14, <1>15, <1>16, <1>17 DEF ControlInv, ClickOK

LEMMA RememberControlKeyOK ==
    ASSUME ControlInv, NEW r \in Requests, RememberControlKey(r) PROVE ControlInv'
<1>1. ControlTypes BY DEF ControlInv
<1>2. /\ request[r].at = "ran" /\ remembered' = remembered \cup {Click(r)}
      /\ UNCHANGED <<overMQTT, shows, refuses, blocked, replies, sent, excused>>
  BY DEF RememberControlKey, OnlyRequest
<1>3. /\ request' \in [Requests -> [at : {"none", "asked", "run", "ran", "over"}, click : Clicks,
                                    answer : {"none", "ok", "refused", "error", "blocked"}]]
      /\ request'[r].at = "over" /\ request'[r].answer = "ok" /\ request'[r].click = request[r].click
      /\ \A q \in Requests \ {r} : request'[q] = request[q]
  BY <1>1, ToDoes DEF RememberControlKey
<1>4. \A q \in Requests : Click(q)' = Click(q) /\ Click(q) \in Clicks
  BY <1>1, <1>3 DEF Click, ControlTypes
<1>5. ControlTypes' BY <1>1, <1>2, <1>3, <1>4 DEF ControlTypes
<1>6. sent[Click(r)] > 0 BY <1>2 DEF ControlInv, SentOK
<1>7. SentOK' BY <1>2, <1>3, <1>4, <1>6 DEF ControlInv, SentOK
<1>8. ASSUME NEW k \in Clicks PROVE ClickOK(k)'
  <2>1. ClickOK(k) BY DEF ControlInv
  <2>2. \A q \in Requests : Going(q)' => Going(q) BY <1>2, <1>3 DEF Going
  <2>3. \A q \in Requests : request'[q].at = "run" => request[q].at = "run" BY <1>3
  <2>4. \A q \in Requests : request[q].at = "ran" /\ Click(q) = k =>
             k \in remembered' \/ request'[q].at = "ran"
    BY <1>2, <1>3
  <2> QED BY <1>2, <1>4, <2>1, <2>2, <2>3, <2>4 DEF ClickOK
<1>9. AnswersAreTrue' BY <1>2, <1>3, <1>4, <1>6 DEF ControlInv, AnswersAreTrue, Command
<1>10. BlockIsFresh' BY <1>2 DEF ControlInv, BlockIsFresh
<1> QED BY <1>5, <1>7, <1>8, <1>9, <1>10 DEF ControlInv

LEMMA KeyExpiresOK == ASSUME ControlInv, NEW k \in Clicks, KeyExpires(k) PROVE ControlInv'
<1>1. ControlTypes BY DEF ControlInv
<1>2. /\ remembered' = remembered \ {k} /\ excused' = excused \cup {k}
      /\ UNCHANGED <<overMQTT, shows, refuses, blocked, replies, request, sent>>
  BY DEF KeyExpires, OnlyRequest
<1>3. ControlTypes' BY <1>1, <1>2 DEF ControlTypes
<1>4. SentOK' /\ AnswersAreTrue'
  BY <1>2 DEF ControlInv, SentOK, AnswersAreTrue, Click, Command
<1>5. ASSUME NEW j \in Clicks PROVE ClickOK(j)'
  BY <1>2 DEF ControlInv, ClickOK, Click, Going
<1>6. BlockIsFresh' BY <1>2 DEF ControlInv, BlockIsFresh
<1> QED BY <1>3, <1>4, <1>5, <1>6 DEF ControlInv

(* What the printer says counts until its network starts again.              *)
LEMMA PrinterOK ==
    ASSUME ControlInv, Shows \/ NewSession \/ NoteControlReply \/ BlockExpires PROVE ControlInv'
<1>1. ControlTypes BY DEF ControlInv
<1>2. UNCHANGED <<overMQTT, remembered, request, sent, excused>>
  BY DEF Shows, NewSession, NoteControlReply, BlockExpires, OnlyPrinter
<1>3. replies \in Seq({"success", "verify failed"}) BY <1>1 DEF ControlTypes
<1>4. ControlTypes' /\ BlockIsFresh'
  <2>1. CASE Shows
    <3>1. /\ shows' \in {"settled", "printing", "away"}
          /\ UNCHANGED <<refuses, blocked, replies>>
      BY <2>1 DEF Shows
    <3> QED BY <1>1, <1>2, <3>1 DEF ControlTypes, ControlInv, BlockIsFresh
  <2>2. CASE NewSession
    <3>1. refuses' \in BOOLEAN /\ blocked' = FALSE /\ replies' = << >> /\ shows' = shows
      BY <2>2 DEF NewSession
    <3>2. replies' \in Seq({"success", "verify failed"}) /\ 1 .. Len(replies') = {} BY <3>1
    <3>3. blocked' \in BOOLEAN /\ BlockIsFresh' BY <3>1, <3>2 DEF BlockIsFresh
    <3> QED BY <1>1, <1>2, <3>1, <3>2, <3>3, Zenon DEF ControlTypes
  <2>3. CASE NoteControlReply
    <3>1. /\ replies # << >> /\ replies' = Tail(replies) /\ shows' = shows /\ refuses' = refuses
          /\ blocked' = blocked \/ blocked' = (Head(replies) = "verify failed")
      BY <2>3 DEF NoteControlReply
    <3>2. /\ replies' \in Seq({"success", "verify failed"})
          /\ \A i \in 1 .. Len(replies') : i + 1 \in 1 .. Len(replies) /\ replies'[i] = replies[i + 1]
          /\ 1 \in 1 .. Len(replies) /\ Head(replies) = replies[1]
      BY <1>3, <3>1, TailDoes
    <3>3. blocked' \in BOOLEAN BY <1>1, <3>1 DEF ControlTypes
    <3>4. ControlTypes' BY <1>1, <1>2, <3>1, <3>2, <3>3 DEF ControlTypes
    <3>5. blocked' => blocked \/ replies[1] = "verify failed" BY <3>1, <3>2
    <3>6. BlockIsFresh' BY <3>1, <3>2, <3>5 DEF ControlInv, BlockIsFresh
    <3> QED BY <3>4, <3>6
  <2>4. CASE BlockExpires
    <3>1. blocked' = FALSE /\ UNCHANGED <<shows, refuses, replies>> BY <2>4 DEF BlockExpires
    <3> QED BY <1>1, <1>2, <3>1 DEF ControlTypes, ControlInv, BlockIsFresh
  <2> QED BY <2>1, <2>2, <2>3, <2>4
<1>5. SentOK' /\ AnswersAreTrue' /\ (\A k \in Clicks : ClickOK(k)')
  BY <1>2 DEF ControlInv, SentOK, AnswersAreTrue, ClickOK, Going, Click, Command
<1> QED BY <1>4, <1>5 DEF ControlInv

LEMMA ControlStepOK == ControlInv /\ [ControlNext]_controlVars => ControlInv'
<1> SUFFICES ASSUME ControlInv, [ControlNext]_controlVars PROVE ControlInv'
  OBVIOUS
<1>1. ASSUME NEW r \in Requests,
             AskControl(r) \/ SeenControlKey(r) \/ RunControl(r) \/ RememberControlKey(r)
      PROVE  ControlInv'
  BY <1>1, AskControlOK, SeenControlKeyOK, RunControlOK, RememberControlKeyOK
<1>2. ASSUME NEW k \in Clicks, KeyExpires(k) PROVE ControlInv' BY <1>2, KeyExpiresOK
<1>3. CASE Shows \/ NewSession \/ NoteControlReply \/ BlockExpires BY <1>3, PrinterOK
<1>4. CASE UNCHANGED controlVars
  <2> USE <1>4 DEF controlVars, ControlInv
  <2>1. ControlTypes' BY DEF ControlTypes
  <2>2. SentOK' /\ AnswersAreTrue' BY DEF SentOK, AnswersAreTrue, Click, Command
  <2>3. ASSUME NEW k \in Clicks PROVE ClickOK(k)' BY DEF ClickOK, Going, Click
  <2>4. BlockIsFresh' BY DEF BlockIsFresh
  <2> QED BY <2>1, <2>2, <2>3, <2>4
<1> QED BY <1>1, <1>2, <1>3, <1>4 DEF ControlNext

LEMMA ControlsFollow == ControlInv => ControlsAreRight
<1> SUFFICES ASSUME ControlInv PROVE ControlsAreRight
  OBVIOUS
<1>1. ClicksRunOnce
  <2> SUFFICES ASSUME NEW k \in Clicks, sent[k] > 1, k \notin excused PROVE FALSE
    BY DEF ClicksRunOnce
  <2>1. sent[k] \in 0 .. 2 /\ sent[k] <= 1 BY DEF ControlInv, ControlTypes, ClickOK
  <2> QED BY <2>1
<1> QED BY <1>1 DEF ControlInv, ControlsAreRight

(* The dashboard's buttons for any number of requests and clicks: a retried  *)
(* click runs its command again only for a reason, "done" is said of what    *)
(* went out, and a stop is never held back (server.go:662-787).              *)
THEOREM ControlsStayRight == ControlInit /\ [][ControlNext]_controlVars => []ControlsAreRight
<1>1. ControlInit /\ [][ControlNext]_controlVars => []ControlInv BY ControlStart, ControlStepOK, PTL
<1> QED BY <1>1, ControlsFollow, PTL

-----------------------------------------------------------------------------
(* Both, for any mix of FoxTrack's commands and the dashboard's clicks: the  *)
(* invariant of the run, for every value of the constants                    *)
(* (bridge_commands.go:110-249, printjob.go:142-249, server.go:662-787).     *)
THEOREM CommandsAndClicks == MCSpec => []CommandsAreRight
<1>1. MCInit => CommandInv /\ ControlInv BY CommandInit, ControlStart DEF MCInit
<1>2. CommandInv /\ ControlInv /\ [CommandStep \/ ControlStep]_<<vars, part, controlVars>>
        => CommandInv' /\ ControlInv'
  <2> SUFFICES ASSUME CommandInv, ControlInv, [CommandStep \/ ControlStep]_<<vars, part, controlVars>>
               PROVE  CommandInv' /\ ControlInv'
    OBVIOUS
  <2>1. [Next]_vars /\ [ControlNext]_controlVars BY DEF CommandStep, ControlStep
  <2> QED BY <2>1, CommandStepOK, ControlStepOK
<1>3. CommandInv /\ ControlInv => CommandsAreRight BY CommandsFollow, ControlsFollow DEF CommandsAreRight
<1> QED BY <1>1, <1>2, <1>3, PTL DEF MCSpec
=============================================================================
