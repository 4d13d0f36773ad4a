------------------------------ MODULE Timelapse ------------------------------
(***************************************************************************)
(* The timelapses of one printer (timelapse/, timelapse_routes.go): a      *)
(* session collects pictures in a folder, the end of the print queues the  *)
(* folder for a build, and Recover picks up what a restart, a full queue   *)
(* or a failed write left behind.                                          *)
(*                                                                         *)
(* A session is known by the number of its folder, newer ones having       *)
(* higher numbers. All prints are of one file, which is the hard case for  *)
(* a resume. Of the pictures in a folder, the model knows how many there   *)
(* are and which prints they may show. Left out: when the next picture is  *)
(* due, the stride that only says so, how a print ended, posters,          *)
(* half-written files, and pictures that cannot be deleted or renamed when *)
(* they are thinned.                                                       *)
(***************************************************************************)
EXTENDS Naturals, Sequences, FiniteSets, FiniteSetsExt

CONSTANTS
    MinFrames, MaxFrames,
    QueueSize,    \* room in the build queue
    MaxPrints, MaxFolders, MaxSwitches, MaxFailures, MaxRestarts  \* bounds

ASSUME TimelapseAssumption ==
    /\ MinFrames \in Nat \ {0}
    /\ {MaxFrames, QueueSize, MaxPrints, MaxFolders} \subseteq Nat

Folders == 1 .. MaxFolders

VARIABLES
    print, printing,           \* the printer: its last print, and whether that runs
    events,     \* events published and not yet handled, each on a goroutine of its own
    enabled, known,            \* the feature is on; the printer is configured
    session,    \* Recorder.sessions
    snaps,      \* folders of sessions that wait for the camera (busy)
    tlIdle,     \* "no", "noted", or "long" for timelapseIdleEnd
    disk,       \* the folders
    loop,       \* startTimelapse's goroutine
    queue, queued, armed,      \* Recorder.queue and queued; folders with a retry timer
    build,      \* the worker's build
    videos,
    born, switches, failures, restarts

machine == <<print, printing>>
settings == <<enabled, known, switches>>
recorder == <<session, snaps, tlIdle, born>>
builds == <<queue, queued, armed, build, videos>>
vars == <<machine, events, settings, recorder, disk, loop, builds, failures, restarts>>

NoFolder == [at |-> "none", count |-> 0, shows |-> {}, age |-> 0]
NoVideo == [at |-> "none", shows |-> {}]
NoSession == [dir |-> 0, made |-> FALSE, count |-> 0]
NoBuild == [dir |-> 0, at |-> "idle"]
Ticking == [at |-> "tick", active |-> {}, todo |-> {}, seen |-> ""]
Starting == [Ticking EXCEPT !.at = "list"]   \* the Recover at startup, nothing being active

Init ==
    /\ print = 0 /\ printing = FALSE
    /\ events = {} /\ enabled = TRUE /\ known = TRUE
    /\ session = NoSession /\ snaps = {} /\ tlIdle = "no" /\ born = 0
    /\ disk = [f \in Folders |-> NoFolder]
    /\ loop = Starting
    /\ queue = <<>> /\ queued = {} /\ armed = {}
    /\ build = NoBuild /\ videos = [f \in Folders |-> NoVideo]
    /\ switches = 0 /\ failures = 0 /\ restarts = 0

(* Something goes wrong, at most MaxFailures times.                          *)
Fails == failures < MaxFailures /\ failures' = failures + 1
Works == UNCHANGED failures

-----------------------------------------------------------------------------
(* The printer and what is published about it. The watcher may miss a start; *)
(* an end is published with the history record, if that is written.          *)

StartPrint ==
    /\ ~printing /\ print < MaxPrints
    /\ print' = print + 1 /\ printing' = TRUE
    /\ \/ events' = events \cup {[kind |-> "start", print |-> print']}
       \/ UNCHANGED events
    /\ UNCHANGED <<settings, recorder, disk, loop, builds, failures, restarts>>

EndPrint ==
    /\ printing /\ printing' = FALSE
    /\ \/ events' = events \cup {[kind |-> "end", print |-> print]}
       \/ UNCHANGED events
    /\ UNCHANGED <<print, settings, recorder, disk, loop, builds, failures, restarts>>

(* The feature is switched, or the printer removed.                          *)
Switch ==
    /\ switches < MaxSwitches /\ switches' = switches + 1
    /\ \/ enabled' = ~enabled /\ UNCHANGED known
       \/ known /\ known' = FALSE /\ UNCHANGED enabled
    /\ UNCHANGED <<machine, events, recorder, disk, loop, builds, failures, restarts>>

-----------------------------------------------------------------------------
(* The build queue, and how a session is closed.                             *)

(* Mutant: a folder that found no room stays marked as queued.               *)
EnqueueKeepsMark(f) ==
    /\ queued' = queued \cup {f}
    /\ IF f \in queued \/ Len(queue) = QueueSize
       THEN UNCHANGED queue ELSE queue' = Append(queue, f)

Enqueue(f) ==
    IF f \in queued \/ Len(queue) = QueueSize
    THEN UNCHANGED <<queue, queued>>
    ELSE queue' = Append(queue, f) /\ queued' = queued \cup {f}

Remove(f) == disk' = [disk EXCEPT ![f] = NoFolder]
Mark(f) == disk' = [disk EXCEPT ![f].at = "ended", ![f].age = 0]

(* Too few pictures are removed; otherwise the folder is marked and queued,  *)
(* or left open when the mark cannot be written.                             *)
Finish(s) ==
    \/ /\ s.count < MinFrames
       /\ Remove(s.dir) /\ Works /\ UNCHANGED <<queue, queued>>
    \/ /\ s.count >= MinFrames
       /\ Mark(s.dir) /\ Works /\ Enqueue(s.dir)
    \/ /\ s.count >= MinFrames
       /\ Fails /\ UNCHANGED <<disk, queue, queued>>

End ==
    IF session = NoSession THEN UNCHANGED <<session, disk, queue, queued, failures>>
    ELSE session' = NoSession /\ Finish(session)

NewSession ==
    /\ born < MaxFolders /\ born' = born + 1
    /\ session' = [NoSession EXCEPT !.dir = born']

-----------------------------------------------------------------------------
(* timelapseEvent. A start that MaxFolders leaves no room for is as missed.  *)

StartEvent(e) ==
    /\ e.kind = "start"
    /\ \/ /\ ~enabled \/ ~known \/ born = MaxFolders
          /\ UNCHANGED <<session, born, disk, queue, queued, failures>>
       \/ /\ enabled /\ known /\ NewSession
          /\ IF session = NoSession THEN UNCHANGED <<disk, queue, queued, failures>>
                                    ELSE Finish(session)

EndEvent(e) == e.kind = "end" /\ End /\ UNCHANGED born

Handle(e) ==
    /\ e \in events /\ events' = events \ {e}
    /\ StartEvent(e) \/ EndEvent(e)
    /\ UNCHANGED <<machine, settings, snaps, tlIdle, loop, armed, build, videos, restarts>>

-----------------------------------------------------------------------------
(* timelapseTick. What it sees and what it does is one step; the picture is  *)
(* asked for on a goroutine that runs before the next Recover.               *)

InTick == loop.at = "tick"
There == {f \in Folders : disk[f].at # "none"}

(* Mutant: the newest folder is resumed whatever became of it.               *)
ResumableAny == {f \in There : f = Max(There)}

(* The newest folder, if that is an open print with recent pictures.         *)
Resumable ==
    {f \in There : f = Max(There) /\ disk[f].at = "open" /\ disk[f].count > 0 /\ disk[f].age = 0}

(* A picture that an earlier session of the folder waits for is dropped.     *)
Resume(f) ==
    /\ session' = [dir |-> f, made |-> TRUE, count |-> disk[f].count]
    /\ snaps' = snaps \ {f} /\ UNCHANGED born

TickStarts ==
    /\ InTick /\ known /\ printing /\ enabled /\ session = NoSession
    /\ IF Resumable # {} THEN \E f \in Resumable : Resume(f) ELSE NewSession /\ UNCHANGED snaps
    /\ UNCHANGED <<machine, events, settings, tlIdle, disk, loop, builds, failures, restarts>>

TickRecords ==
    /\ InTick /\ known /\ printing /\ session # NoSession
    /\ tlIdle' = "no"
    /\ snaps' = IF enabled THEN snaps \cup {session.dir} ELSE snaps
    /\ UNCHANGED <<machine, events, settings, session, born, disk, loop, builds, failures, restarts>>

TickIdles ==
    /\ InTick /\ known /\ ~printing /\ session # NoSession /\ tlIdle = "no"
    /\ tlIdle' = "noted"
    /\ UNCHANGED <<machine, events, settings, session, snaps, born, disk, loop, builds, failures, restarts>>

(* The printer has been idle for long, or is no longer configured.           *)
TickEnds ==
    /\ InTick /\ session # NoSession
    /\ ~known \/ (~printing /\ tlIdle = "long")
    /\ End /\ tlIdle' = "no"
    /\ UNCHANGED <<machine, events, settings, snaps, born, loop, armed, build, videos, restarts>>

IdleLong ==
    /\ tlIdle = "noted" /\ tlIdle' = "long"
    /\ UNCHANGED <<machine, events, settings, session, snaps, born, disk, loop, builds, failures, restarts>>

-----------------------------------------------------------------------------
(* Capture, after the camera has answered.                                   *)

(* Mutant: it is enough that some session goes on.                           *)
StillOnAny(f) == f \in snaps /\ session # NoSession

(* The session that asked for the picture goes on.                           *)
StillOn(f) == session.dir = f

(* At the cap every other picture is removed.                                *)
AddPicture(f) ==
    LET n == disk[f].count + 1
    IN  /\ disk[f].at = "none" => ~session.made
        /\ disk' = [disk EXCEPT ![f] =
             [at    |-> IF disk[f].at = "none" THEN "open" ELSE disk[f].at, age |-> 0,
              count |-> IF n >= MaxFrames THEN (n + 1) \div 2 ELSE n,
              shows |-> IF printing THEN @.shows \cup {print} ELSE @.shows]]
        /\ session' = [session EXCEPT !.made = TRUE, !.count = disk'[f].count]

(* The folder is made, but its first picture cannot be written.              *)
FirstPictureFails(f) ==
    /\ ~session.made /\ session' = [session EXCEPT !.made = TRUE]
    /\ disk' = [disk EXCEPT ![f] = [NoFolder EXCEPT !.at = "open"]]

CaptureEnds(f) ==
    /\ f \in snaps /\ snaps' = snaps \ {f}
    /\ \/ StillOn(f) /\ AddPicture(f) /\ Works
       \/ StillOn(f) /\ FirstPictureFails(f) /\ Fails
       \/ UNCHANGED <<disk, session>> /\ Works   \* no picture, or the print ended meanwhile
    /\ UNCHANGED <<machine, events, settings, tlIdle, born, loop, builds, restarts>>

-----------------------------------------------------------------------------
(* Recover, at startup and once a day. It looks at one folder after another, *)
(* without the recorder's lock.                                              *)

OnlyLoop == UNCHANGED <<machine, events, settings, recorder, disk, builds, failures, restarts>>

RecoverBegins ==
    /\ InTick
    /\ loop' = [Ticking EXCEPT !.at = "list", !.active = {session.dir} \ {0}]
    /\ OnlyLoop

RecoverLists ==
    /\ loop.at = "list"
    /\ loop' = [Ticking EXCEPT !.at = "look", !.todo = There \ loop.active]
    /\ OnlyLoop

(* What Recover makes of a folder: still printing, too few pictures, one to  *)
(* queue, or one to mark and queue.                                          *)
Verdict(d) ==
    IF d.at # "ended" /\ d.count > 0 /\ d.age < 2 THEN "recent"
    ELSE IF d.count < MinFrames THEN "few"
    ELSE IF d.at = "ended" THEN "queue" ELSE "mark"

RecoverLooks ==
    /\ loop.at = "look" /\ loop.todo # {}
    /\ loop' = [loop EXCEPT !.at = "act", !.seen = Verdict(disk[Min(loop.todo)])]
    /\ OnlyLoop

(* A mark cannot be written into a folder that is gone.                      *)
RecoverActs ==
    /\ loop.at = "act"
    /\ loop' = [loop EXCEPT !.at = "look", !.seen = "", !.todo = @ \ {Min(@)}]
    /\ LET f == Min(loop.todo)
           v == loop.seen
       IN  \/ v = "recent" /\ Works /\ UNCHANGED <<disk, queue, queued>>
           \/ v = "few" /\ Remove(f) /\ Works /\ UNCHANGED <<queue, queued>>
           \/ v = "queue" /\ Enqueue(f) /\ Works /\ UNCHANGED disk
           \/ v = "mark" /\ f \in There /\ Mark(f) /\ Enqueue(f) /\ Works
           \/ /\ v = "mark" /\ UNCHANGED <<disk, queue, queued>>
              /\ IF f \in There THEN Fails ELSE Works
    /\ UNCHANGED <<machine, events, settings, recorder, armed, build, videos, restarts>>

RecoverEnds ==
    /\ loop.at = "look" /\ loop.todo = {} /\ loop' = Ticking
    /\ OnlyLoop

-----------------------------------------------------------------------------
(* The worker, and the retries of failed builds. Whether a failed build is   *)
(* retried depends on how often it was.                                      *)

Outside == UNCHANGED <<machine, events, settings, recorder, loop, restarts>>

(* The build of f is over, and the folder no longer queued.                  *)
Built(f, ok) ==
    /\ build' = NoBuild /\ queued' = queued \ {f}
    /\ \/ armed' = armed \ {f}
       \/ ~ok /\ armed' = armed \cup {f}

Build ==
    /\ build = NoBuild /\ queue # <<>> /\ queue' = Tail(queue)
    /\ LET f == Head(queue)
       IN  \/ disk[f].at # "ended" /\ Built(f, FALSE) /\ UNCHANGED disk
           \/ disk[f].at = "ended" /\ disk[f].count < MinFrames /\ Built(f, TRUE) /\ Remove(f)
           \/ /\ disk[f].at = "ended" /\ disk[f].count >= MinFrames
              /\ build' = [dir |-> f, at |-> "encode"]
              /\ UNCHANGED <<disk, queued, armed>>
    /\ UNCHANGED <<videos, failures>> /\ Outside

BuildFails ==
    /\ build.at \in {"encode", "meta"} /\ Fails
    /\ Built(build.dir, FALSE)
    /\ UNCHANGED <<disk, queue, videos>> /\ Outside

Encode ==
    /\ build.at = "encode" /\ build' = [build EXCEPT !.at = "meta"]
    /\ videos' = [videos EXCEPT ![build.dir] = [at |-> "file", shows |-> disk[build.dir].shows]]
    /\ UNCHANGED <<disk, queue, queued, armed, failures>> /\ Outside

(* Mutant: the pictures are removed before the details are there.            *)
WriteMetaLast ==
    /\ build.at = "meta" /\ build' = [build EXCEPT !.at = "clear"]
    /\ Remove(build.dir)
    /\ UNCHANGED <<queue, queued, armed, videos, failures>> /\ Outside

(* With its details the video is in the list.                                *)
WriteMeta ==
    /\ build.at = "meta" /\ build' = [build EXCEPT !.at = "clear"]
    /\ videos' = [videos EXCEPT ![build.dir].at = "listed"]
    /\ UNCHANGED <<disk, queue, queued, armed, failures>> /\ Outside

(* Mutant: the pictures stay.                                                *)
ClearFolderNot ==
    /\ build.at = "clear"
    /\ Built(build.dir, TRUE)
    /\ UNCHANGED <<disk, queue, videos, failures>> /\ Outside

ClearFolder ==
    /\ build.at = "clear"
    /\ Remove(build.dir) /\ Built(build.dir, TRUE)
    /\ UNCHANGED <<queue, videos, failures>> /\ Outside

RetryFires(f) ==
    /\ f \in armed /\ armed' = armed \ {f}
    /\ IF f \in There THEN Enqueue(f) ELSE UNCHANGED <<queue, queued>>
    /\ UNCHANGED <<disk, build, videos, failures>> /\ Outside

(* A video is deleted, by the user or by Cleanup.                            *)
Delete(f) ==
    /\ videos[f].at = "listed"
    /\ videos' = [videos EXCEPT ![f].at = "deleted"]
    /\ UNCHANGED <<disk, queue, queued, armed, build, failures>> /\ Outside

-----------------------------------------------------------------------------
(* The process ends and is started again.                                    *)
Restart ==
    /\ restarts < MaxRestarts /\ restarts' = restarts + 1
    /\ events' = {} /\ session' = NoSession /\ snaps' = {} /\ tlIdle' = "no"
    /\ loop' = Starting /\ queue' = <<>> /\ queued' = {} /\ armed' = {} /\ build' = NoBuild
    /\ UNCHANGED <<machine, settings, born, disk, videos, failures>>

(* Three hours pass, in which a recording takes pictures. Events do not wait *)
(* that long.                                                                *)
HoursPass ==
    LET aging == {f \in There \ {session.dir} : disk[f].at = "open" /\ disk[f].age < 2}
    IN  /\ events = {} /\ aging # {}
        /\ disk' = [f \in Folders |-> IF f \in aging THEN [disk[f] EXCEPT !.age = @ + 1] ELSE disk[f]]
        /\ UNCHANGED <<machine, events, settings, recorder, loop, builds, failures, restarts>>

Recover == RecoverLists \/ RecoverLooks \/ RecoverActs \/ RecoverEnds
Tick == TickStarts \/ TickRecords \/ TickIdles \/ TickEnds
Worker == Build \/ BuildFails \/ Encode \/ WriteMeta \/ ClearFolder

Next ==
    \/ StartPrint \/ EndPrint \/ Switch
    \/ \E e \in events : Handle(e)
    \/ Tick \/ IdleLong \/ RecoverBegins \/ Recover \/ Worker
    \/ \E f \in Folders : CaptureEnds(f) \/ RetryFires(f) \/ Delete(f)
    \/ Restart \/ HoursPass

Spec == Init /\ [][Next]_vars

Handles == \E e \in events : Handle(e)

(* The goroutines run, the daily Recover comes, and time passes.             *)
Fairness ==
    /\ WF_vars(Handles) /\ WF_vars(RecoverBegins) /\ WF_vars(Recover)
    /\ WF_vars(Worker) /\ WF_vars(HoursPass)

-----------------------------------------------------------------------------
TypeOK ==
    /\ print \in 0 .. MaxPrints /\ printing \in BOOLEAN
    /\ events \subseteq [kind : {"start", "end"}, print : 1 .. MaxPrints]
    /\ session \in [dir : 0 .. born, made : BOOLEAN, count : 0 .. MaxFrames - 1]
    /\ snaps \subseteq Folders /\ tlIdle \in {"no", "noted", "long"} /\ born \in 0 .. MaxFolders
    /\ disk \in [Folders -> [at : {"none", "open", "ended"}, count : 0 .. MaxFrames - 1,
                             shows : SUBSET (1 .. MaxPrints), age : 0 .. 2]]
    /\ queue \in Seq(Folders) /\ Len(queue) <= QueueSize /\ queued \cup armed \subseteq Folders
    /\ videos \in [Folders -> [at : {"none", "file", "listed", "deleted"},
                               shows : SUBSET (1 .. MaxPrints)]]

(* The folder of a session is left alone: it is open, holds the pictures     *)
(* that the session counted, and is not up for a build. Recover, retries,    *)
(* the worker and late pictures do not reach it.                             *)
RecordingIsWhole == session.made =>
    /\ disk[session.dir].at = "open"
    /\ disk[session.dir].count = session.count
    /\ session.dir \notin queued

(* Enough pictures for a video are not deleted before it is in the list.     *)
PicturesGoWhenListed == \A f \in Folders :
    disk[f].count >= MinFrames /\ disk'[f].at = "none" => videos[f].at \in {"listed", "deleted"}

(* A video that is deleted does not come back: its folder is not built again.*)
DeletedStaysDeleted == \A f \in Folders :
    videos[f].at = "deleted" => videos'[f].at = "deleted"

(* A video shows one print.                                                  *)
VideosShowOnePrint == \A f \in Folders : Cardinality(videos[f].shows) <= 1

(* A folder with enough pictures becomes a video, whatever was full, failed  *)
(* or restarted, unless the print is still being recorded.                   *)
FilmIsMade == \A f \in Folders :
    disk[f].count >= MinFrames ~> (videos[f].at \in {"listed", "deleted"} \/ session.dir = f)
=============================================================================
