-------------------------- MODULE MCBridgeCommands --------------------------
(* What FoxTrack and the dashboard ask of a printer, in parts a behaviour   *)
(* picks from:                                                              *)
(*   mixed     BridgeCommands with a file to send, a file on the printer    *)
(*             and a stop, all for one printer, with another Bridge and a   *)
(*             restart                                                      *)
(*   hour      the two files, with an hour of quiet                         *)
(*   pair      BridgeCommands with the same file for two printers and a     *)
(*             console command, every goroutine being scheduled             *)
(*   clicks    Controls with a stop and a home, and their retries           *)
EXTENDS BridgeCommands, Controls, TLC

CONSTANTS c1, c2, c3, d1, d2, d3, p1, p2, f1, f2, k1, k2, q1, q2

Mixed == {c1, c2, c3}
Pair == {d1, d2, d3}

MCKind == c1 :> "print_file" @@ c2 :> "printer_file" @@ c3 :> "plain"
       @@ d1 :> "print_file" @@ d2 :> "print_file" @@ d3 :> "console"
MCPrinterOf == [c \in Mixed |-> p1] @@ d1 :> p1 @@ d2 :> p2 @@ d3 :> p1
MCFileOf == [c \in Mixed \cup Pair |-> f1]

VARIABLE part

MCInit ==
  /\ part \in {"mixed", "hour", "pair", "clicks"}
  /\ Init /\ ControlInit
  /\ cached \subseteq IF part = "pair" THEN {f1} ELSE {f2}
  /\ part = "clicks" => cached = {}
  /\ Click(q1) = Click(q2)
  /\ part # "clicks" => /\ overMQTT /\ refuses /\ shows = "settled"
                        /\ \A r \in Requests : Click(r) = k1

(* Only the part's own commands are issued; the other Bridge takes a file   *)
(* to send or none.                                                        *)
CommandStep ==
  /\ Next /\ UNCHANGED <<part, controlVars>>
  /\ \/ /\ part = "mixed" /\ hours' = 0
        /\ \A c \in Pair : ft'[c] = "new"
        /\ \A c \in Mixed \ {c1} : ft'[c] # "taken"
     \/ /\ part = "hour" /\ crashes' = 0
        /\ \A c \in Cmds \ {c1, c2} : ft'[c] = "new"
        /\ ft'[c2] # "taken"
     \/ /\ part = "pair" /\ crashes' = 0 /\ hours' = 0
        /\ \A c \in Mixed : ft'[c] = "new"
        /\ \A c \in Pair : ft'[c] # "taken"

ControlStep == part = "clicks" /\ ControlNext /\ UNCHANGED <<part, vars>>

MCSpec ==
  /\ MCInit
  /\ [][CommandStep \/ ControlStep]_<<vars, part, controlVars>>
  /\ WF_vars(part = "pair" /\ Poll)
  /\ \A c \in Pair : WF_vars(part = "pair" /\ Work(c))

MCCommandOf == k1 :> "stop" @@ k2 :> "home"

(* The invariants of the commands and of the clicks: what is carried out     *)
(* twice has its reason, a printer gets one file at a time, and what         *)
(* FoxTrack and the dashboard are told is true (bridge_commands.go:110-249,  *)
(* printjob.go:142-249, server.go:662-787).                                  *)
CommandsAreRight == RepeatIsExplained /\ AcksTellTheTruth /\ OneFilePerPrinter /\ ControlsAreRight

(* Every job of the scheduled part ends, and with it the printer's and the  *)
(* file's lock: two jobs waiting for one file's lock, each holding its      *)
(* printer's, do not hold each other up (ensureCachedFile, ackWithRetry).   *)
(* With so few commands this is JobsEnd for all of them at once.           *)
PairJobsEnd == part = "pair" => []<>(\A c \in Pair : job[c].at = "none")
=============================================================================
