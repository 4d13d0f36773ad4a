---------------------------- MODULE BambuSession ----------------------------
(***************************************************************************)
(* The print sessions of a Bambu printer in LAN mode: the goroutine that   *)
(* ConnectPrinter starts, the report handler of makeHandler, which reads   *)
(* the stored state, updates the session and stores the new state under    *)
(* three locks, and the edits that restart or rename the printer.          *)
(*                                                                         *)
(* The machine prints the jobs 1, 2, ... in turn; a job stands for its     *)
(* file name, 0 for a name that is not known. Reports arrive in order and  *)
(* are lost with the connection; the client runs one handler at a time and *)
(* lets it end before it reports a connection lost or dropped.             *)
(***************************************************************************)
EXTENDS Integers, Sequences, FiniteSets

CONSTANTS
    MaxJobs,   \* bound: prints the machine runs
    MaxDrops,  \* bound: connections lost
    MaxEdits,  \* bound: edits of the printer's settings
    MaxWire    \* bound: reports under way

ASSUME BambuAssumption ==
    /\ {MaxJobs, MaxDrops, MaxEdits} \subseteq Nat /\ MaxWire \in Nat \ {0}

VARIABLES
    machine,  \* the printer's job and status
    link,     \* where the management goroutine is
    wire,     \* reports under way on the connection
    drops,    \* connections lost so far
    edits,    \* edits so far
    state,    \* printerStates: the stored status and file name
    handler,  \* the report handler: its place, its report, the state it read
    session,  \* activeSessions
    born,     \* sessions started so far
    history   \* records handed to history.Append, in order

vars == <<machine, link, wire, drops, edits, state, handler, session, born, history>>

Jobs      == 1 .. MaxJobs
Files     == 0 .. MaxJobs
InPrint   == {"printing", "paused"}
Over      == {"idle", "finished", "error"}
Machine   == InPrint \cup Over \cup {"prepare"}
Bridge    == {"connected", "disconnected"}   \* statuses the Bridge sets itself
Report    == [status : Machine \cup {"same"}, file : Files, job : Files]
State     == [status : Machine \cup Bridge, file : Files]
NoState   == [status |-> "disconnected", file |-> 0]
NoSession == [born |-> 0, of |-> 0, file |-> 0, late |-> FALSE]
NoReport  == [status |-> "same", file |-> 0, job |-> 0]
Listening == {"subscribed", "live"}

TypeOK ==
    /\ machine \in [job : Files, status : Machine]
    /\ link \in Listening \cup {"stopped", "lost", "waiting"}
    /\ wire \in Seq(Report) /\ Len(wire) <= MaxWire + 1
    /\ drops \in 0 .. MaxDrops /\ edits \in 0 .. MaxEdits
    /\ state \in State
    /\ handler \in [at : {"none", "read", "tracked"}, rep : Report, prev : State]
    /\ born \in Nat
    /\ session \in [born : 0 .. born, of : Files, file : Files, late : BOOLEAN]
    /\ history \in Seq([of : Jobs, born : 1 .. born,
                        result : {"finished", "error", "cancelled"}])

Init ==
    /\ machine = [job |-> 0, status |-> "idle"]
    /\ link = "stopped"
    /\ wire = <<>>
    /\ drops = 0 /\ edits = 0
    /\ state = NoState
    /\ handler = [at |-> "none", rep |-> NoReport, prev |-> NoState]
    /\ session = NoSession
    /\ born = 0
    /\ history = <<>>

-----------------------------------------------------------------------------
(* The machine reports every change of its status, at times without the      *)
(* file's name, and temperatures and the like in between.                    *)
CanReport == link \notin Listening \/ Len(wire) < MaxWire

Send(status, file) ==
    wire' = IF link \in Listening
            THEN Append(wire, [status |-> status, file |-> file, job |-> machine'.job])
            ELSE wire

Become(job, status) ==
    /\ CanReport
    /\ machine' = [job |-> job, status |-> status]
    /\ \E file \in {0, job} : Send(status, file)
    /\ UNCHANGED <<link, drops, edits, state, handler, session, born, history>>

(* No print starts in the moments in which the Bridge takes note of a lost   *)
(* connection or makes a new one.                                            *)
PreparePrint ==
    /\ machine.status \in Over /\ machine.job < MaxJobs
    /\ link \in {"live", "waiting"}
    /\ Become(machine.job + 1, "prepare")

(* A print is prepared for longer than a report is under way.                *)
StartPrint ==
    /\ machine.status = "prepare"
    /\ \A i \in DOMAIN wire : wire[i].status # "prepare"
    /\ link \in {"live", "waiting"}
    /\ Become(machine.job, "printing")

PauseOrResume ==
    /\ machine.status \in InPrint
    /\ Become(machine.job, CHOOSE s \in InPrint : s # machine.status)

EndPrint ==
    /\ machine.status \in InPrint
    /\ \E s \in Over : Become(machine.job, s)

ReportDelta ==
    /\ link \in Listening /\ CanReport
    /\ UNCHANGED machine
    /\ Send("same", 0)
    /\ UNCHANGED <<link, drops, edits, state, handler, session, born, history>>

-----------------------------------------------------------------------------
(* connectAndListen: the subscription stands and reports arrive, before the  *)
(* state is set to connected.                                                *)
Subscribe ==
    /\ link \in {"stopped", "waiting"}
    /\ link' = "subscribed"
    /\ UNCHANGED <<machine, wire, drops, edits, state, handler, session, born, history>>

FullReport == [status |-> machine.status, file |-> machine.job, job |-> machine.job]

(* sendPushall, which the ticker repeats every 30 seconds.                   *)
Pushall ==
    /\ link = "live" /\ CanReport
    /\ wire' = Append(wire, FullReport)
    /\ UNCHANGED <<machine, link, drops, edits, state, handler, session, born, history>>

(* sendPushall follows at once, and its answer is under way.                 *)
MarkConnected ==
    /\ link = "subscribed"
    /\ link' = "live"
    /\ state' = [status |-> "connected", file |-> 0]
    /\ wire' = Append(wire, FullReport)
    /\ UNCHANGED <<machine, drops, edits, handler, session, born, history>>

(* The connection is lost, or could not be made.                             *)
Drop ==
    /\ link \in Listening \cup {"stopped"} /\ handler.at = "none"
    /\ drops < MaxDrops
    /\ drops' = drops + 1
    /\ link' = "lost"
    /\ wire' = <<>>
    /\ UNCHANGED <<machine, edits, state, handler, session, born, history>>

(* ConnectPrinter's loop: the state says disconnected before the next try.   *)
MarkDisconnected ==
    /\ link = "lost"
    /\ link' = "waiting"
    /\ state' = NoState
    /\ UNCHANGED <<machine, wire, drops, edits, handler, session, born, history>>

(* More than sessionResumeGrace passes since the print was last seen.        *)
GraceRunsOut ==
    /\ link = "waiting" /\ session # NoSession
    /\ session' = [session EXCEPT !.late = TRUE]
    /\ UNCHANGED <<machine, link, wire, drops, edits, state, handler, born, history>>

-----------------------------------------------------------------------------
(* Mutant: the Bridge's own status outlasts the reports.                     *)
StatusSticks == IF handler.rep.status = "same" \/ handler.prev.status \in Bridge
                THEN handler.prev.status ELSE handler.rep.status

(* makeHandler. Status and File are what the report makes of the state read. *)
Status == IF handler.rep.status = "same" THEN handler.prev.status ELSE handler.rep.status
File   == IF Status \notin InPrint THEN 0
          ELSE IF handler.rep.file # 0 THEN handler.rep.file ELSE handler.prev.file

Receive ==
    /\ handler.at = "none" /\ link \in Listening /\ wire # <<>>
    /\ handler' = [at |-> "read", rep |-> Head(wire), prev |-> state]
    /\ wire' = Tail(wire)
    /\ UNCHANGED <<machine, link, drops, edits, state, session, born, history>>

(* Is the print seen after a reconnect the one the session tracks?           *)
Resumes == File # 0 /\ session.file = File /\ ~session.late

Reconnected == handler.prev.status \in Bridge

(* Mutant: a reconnect never drops a session.                                *)
NeverDropped == FALSE

(* After a reconnect another print runs, or this one was gone too long.      *)
Dropped ==
    /\ Reconnected /\ Status \in InPrint
    /\ session # NoSession /\ ~Resumes

Before == IF Dropped THEN NoSession ELSE session

Starts ==
    /\ Status = "printing"
    /\ Before = NoSession \/ (handler.prev.status \notin InPrint /\ ~Reconnected)

(* Mutant: the end is only noticed when the state read was one of a print.   *)
EndsSeenLive ==
    /\ Before # NoSession /\ Status \notin InPrint \cup Bridge
    /\ handler.prev.status \in InPrint

Ends == Before # NoSession /\ Status \notin InPrint \cup Bridge

StartSession ==
    /\ Starts
    /\ born' = born + 1
    /\ session' = [born |-> born', of |-> handler.rep.job, file |-> File, late |-> FALSE]
    /\ UNCHANGED history

(* Mutant: the ended session stays where it is.                              *)
EndSessionKept ==
    /\ ~Starts /\ Ends
    /\ history' = Append(history, [of |-> session.of, born |-> session.born,
                        result |-> IF Status \in {"finished", "error"} THEN Status
                                                                       ELSE "cancelled"])
    /\ UNCHANGED <<session, born>>

EndSession ==
    /\ ~Starts /\ Ends
    /\ history' = Append(history, [of |-> session.of, born |-> session.born,
                        result |-> IF Status \in {"finished", "error"} THEN Status
                                                                       ELSE "cancelled"])
    /\ session' = NoSession
    /\ UNCHANGED born

KeepSession ==
    /\ ~Starts /\ ~Ends
    /\ session' = IF Before # NoSession /\ Status \in InPrint
                  THEN [Before EXCEPT !.late = FALSE,
                                      !.file = IF @ = 0 /\ Status = "printing"
                                               THEN File ELSE @]
                  ELSE Before
    /\ UNCHANGED <<born, history>>

Track ==
    /\ handler.at = "read"
    /\ StartSession \/ EndSession \/ KeepSession
    /\ handler' = [handler EXCEPT !.at = "tracked"]
    /\ UNCHANGED <<machine, link, wire, drops, edits, state>>

Store ==
    /\ handler.at = "tracked"
    /\ state' = [status |-> Status, file |-> File]
    /\ handler' = [at |-> "none", rep |-> NoReport, prev |-> NoState]
    /\ UNCHANGED <<machine, link, wire, drops, edits, session, born, history>>

-----------------------------------------------------------------------------
(* reconnectEditedPrinter: DisconnectPrinter waits for the old goroutine and *)
(* ConnectPrinter starts a new one. A stop leaves the state as it is.        *)
Stop ==
    /\ handler.at = "none"
    /\ edits < MaxEdits
    /\ edits' = edits + 1
    /\ link' = "stopped"
    /\ wire' = <<>>

Restart ==
    /\ Stop
    /\ UNCHANGED <<machine, drops, state, handler, session, born, history>>

(* A rename, refused while the state says that a print runs: RenameSession   *)
(* moves the session, RemovePrinterState drops the old name's state.         *)
Rename ==
    /\ Stop
    /\ state.status \notin InPrint
    /\ state' = NoState
    /\ UNCHANGED <<machine, drops, handler, session, born, history>>

MachineStep == PreparePrint \/ StartPrint \/ PauseOrResume \/ EndPrint \/ ReportDelta
Connection  == Subscribe \/ MarkConnected \/ MarkDisconnected
Handle      == Receive \/ Track \/ Store

Next ==
    \/ MachineStep
    \/ Connection \/ Pushall \/ Drop \/ GraceRunsOut
    \/ Handle
    \/ Restart \/ Rename

Spec == Init /\ [][Next]_vars

(* The goroutine tries again every five seconds, the ticker asks for a full  *)
(* report every 30 seconds, and the client hands over what arrives.          *)
Fairness == WF_vars(Connection) /\ SF_vars(Pushall) /\ WF_vars(Handle)

FairSpec == Spec /\ Fairness

-----------------------------------------------------------------------------
(* A print is recorded once, whatever the connection, the edits and the      *)
(* order of the handler's steps and the goroutine's do.                      *)
RecordedOnce ==
    \A j \in Jobs : Cardinality({i \in DOMAIN history : history[i].of = j}) <= 1

Gone == session # NoSession /\ session'.born # session.born

Recorded == history' # history /\ history'[Len(history')].born = session.born

(* After a reconnect the same print carries on in its session (the comment   *)
(* above the session tracking): a session seen within the grace only ends    *)
(* with a record, unless the machine is at another print. A step keeps it    *)
(* where every report of a status carries the file name.                     *)
CarriesOn == Gone /\ ~session.late => Recorded \/ machine.job # session.of

(* The session of a print that is over only goes with a record. A step keeps *)
(* it unless a print starts before the end of the last one was seen.         *)
EndRecorded == Gone => Recorded \/ machine.job = session.of

(* When the session is updated from a report that says a print runs, it is   *)
(* that print's, and not that of a print the Bridge lost sight of before:    *)
(* the file name alone tells them apart.                                     *)
TracksItsPrint ==
    handler.at = "read" /\ handler'.at = "tracked" /\ handler.rep.status \in InPrint
        => session'.of \in {0, handler.rep.job}

(* As long as the connection stays up, the state comes to show what the      *)
(* machine does, though the Bridge's own writes race the first reports.      *)
StateCatchesUp == []<>(state.status = machine.status)

=============================================================================
