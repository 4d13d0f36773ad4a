--------------------------- MODULE MCBambuSession ---------------------------
(* A Bambu printer on the LAN, in parts a behaviour picks from:              *)
(*   resumed  BambuSession with reports that always carry the file name      *)
(*   unnamed  BambuSession with one drop, and prints that follow one another *)
(*            only once the end of the last was seen                         *)
(*   live     both, with one print that does not pause, and fairness         *)
(*   start    PrintStart                                                     *)
(*   skip     SkipObjects                                                    *)
(*   view     CameraHub with three viewers and a changed address             *)
(*   shot     CameraHub with two requests for a picture beside one viewer    *)
(*   posts    Pacing without snapshots                                       *)
(*   pictures Pacing without changes of the printer's readings               *)
(*   file     FileTransfer                                                   *)
EXTENDS BambuSession, PrintStart, SkipObjects, CameraHub, Pacing, FileTransfer

CONSTANTS v1, a1

VARIABLE part

MCInit ==
    /\ part \in {"resumed", "unnamed", "live", "start", "skip", "view", "shot",
                "posts", "pictures", "file"}
    /\ Init /\ StartInit /\ SkipInit
    /\ CameraInit /\ address = a1
    /\ PaceInit /\ (part \notin {"posts", "pictures"} => tells /\ someone)
    /\ TransferInit
    /\ part # "file" => /\ xfer.verb = "LIST" /\ xfer.length = 1
                        /\ ~xfer.fallback /\ ~card.there

(* Every report of a status carries the name of the file.                    *)
NamesCome ==
    \A i \in DOMAIN wire' : wire'[i].status # "same" => wire'[i].file = wire'[i].job

(* A print starts once the end of the last one was seen.                     *)
EndsAreSeen ==
    machine'.job # machine.job =>
        state.status = machine.status /\ wire = <<>> /\ handler.at = "none"

SessionStep ==
    /\ UNCHANGED <<part, startVars, skipVars, hubVars, paceVars, transferVars>>
    /\ part \in {"resumed", "unnamed", "live"} /\ Next
    /\ part # "unnamed" => NamesCome
    /\ part # "resumed" => EndsAreSeen /\ drops' <= 1
    /\ part = "live" => machine'.job <= 1 /\ machine'.status # "paused"

StartStep ==
    /\ part = "start" /\ StartNext
    /\ UNCHANGED <<part, vars, skipVars, hubVars, paceVars, transferVars>>
SkipStep ==
    /\ part = "skip" /\ SkipNext
    /\ UNCHANGED <<part, vars, startVars, hubVars, paceVars, transferVars>>
CameraStep ==
    /\ CameraNext /\ UNCHANGED <<part, vars, startVars, skipVars, paceVars, transferVars>>
    /\ \/ part = "view" /\ snapshot' = snapshot
       \/ part = "shot" /\ \A v \in Viewers \ {v1} : viewer'[v].at = "none"
PaceStep ==
    /\ PaceNext /\ UNCHANGED <<part, vars, startVars, skipVars, hubVars, transferVars>>
    /\ \/ part = "posts" /\ (snap' = snap \/ snap'.since > snap.since)
       \/ part = "pictures" /\ ~relay'.held /\ ~behind'.yes
FileStep ==
    /\ part = "file" /\ TransferNext
    /\ UNCHANGED <<part, vars, startVars, skipVars, hubVars, paceVars>>

(* Fairness is asked of the parts that are checked for liveness.             *)
MCSpec ==
    /\ MCInit
    /\ [][SessionStep \/ StartStep \/ SkipStep \/ CameraStep \/ PaceStep \/ FileStep]_<<
            part, vars, startVars, skipVars, hubVars, paceVars, transferVars>>
    /\ WF_vars(part = "live" /\ Connection)
    /\ SF_vars(part = "live" /\ Pushall)
    /\ WF_vars(part = "live" /\ Handle)

(* Part "skip" on its own.                                                   *)
SkipSpec ==
    /\ MCInit /\ part = "skip"
    /\ [][SkipStep]_<<part, vars, startVars, skipVars, hubVars, paceVars, transferVars>>

(* TracksItsPrint and CarriesOn are kept by every step, where the reports    *)
(* carry the name.                                                           *)
SessionIsThePrints == [][part # "unnamed" => TracksItsPrint /\ CarriesOn]_vars

(* EndRecorded is kept by every step, unless prints follow one another       *)
(* unseen.                                                                   *)
SeenEndIsRecorded == [][part # "resumed" => EndRecorded]_vars

(* StateCatchesUp, in the part that has fairness.                            *)
LiveStateCatchesUp == part = "live" => StateCatchesUp

(* A start that was reported as refused does not print, a print runs from    *)
(* its own file, a skip has the objects of the print that runs, and a file   *)
(* that counts as transferred is whole (print_file.go:238-281,               *)
(* skip.go:94-152, ftps.go:84-156).                                          *)
PrintCommandsAreTrue == RefusedNeverPrints /\ RunsItsOwnFile /\ RightObjects /\ TransferIsRight
=============================================================================
