-------------------------- MODULE Timelapse_proofs --------------------------
(***************************************************************************)
(* Proofs about the timelapses of a printer, for any number of prints,     *)
(* folders, pictures, switches, failures and restarts, and any room in the *)
(* build queue.                                                            *)
(*                                                                         *)
(* Whatever is queued, armed for a retry or built is closed: no recording  *)
(* has the folder, or will have it again. What Recover saw of a folder     *)
(* still holds when it acts, although it looked without the lock.          *)
(***************************************************************************)
EXTENDS MCTimelapse, FiniteSetTheorems, TLAPS

-----------------------------------------------------------------------------
(* The invariant.                                                            *)

FolderStates == [at : {"none", "open", "ended"}, count : Nat, shows : SUBSET Nat, age : Nat]
Films == {v \in [at : {"none", "file", "listed", "deleted"}, shows : SUBSET Nat] :
            v.at = "none" => v.shows = {}}
Loops == [at : {"tick", "list", "look", "act"}, active : SUBSET Nat, todo : SUBSET Folders,
          seen : {"", "recent", "few", "queue", "mark"}]

Types ==
    /\ print \in Nat /\ printing \in BOOLEAN /\ born \in 0 .. MaxFolders
    /\ session \in [dir : 0 .. born, made : BOOLEAN, count : Nat]
    /\ snaps \subseteq Folders
    /\ disk \in [Folders -> FolderStates] /\ videos \in [Folders -> Films]
    /\ loop \in Loops
    /\ queue \in Seq(Folders) /\ queued \cup armed \subseteq Folders
    /\ build \in [dir : 0 .. MaxFolders, at : {"idle", "encode", "meta", "clear"}]
    /\ build.dir = 0 <=> build.at = "idle"
    /\ failures \in Nat /\ restarts \in Nat

Empty(f) == disk[f].at = "none" /\ disk[f].count = 0 /\ disk[f].shows = {}

(* No session, one that has no picture yet, or one whose folder is its own.  *)
SessionOK ==
    IF session.dir = 0 THEN session = NoSession
    ELSE IF session.made
    THEN /\ disk[session.dir].at = "open" /\ disk[session.dir].age = 0
         /\ disk[session.dir].count = session.count
    ELSE /\ Empty(session.dir) /\ session.count = 0 /\ videos[session.dir].at = "none"
         /\ session.dir \notin loop.todo

(* Recover leaves out the session that a picture is asked for, and the one   *)
(* whose first picture failed.                                               *)
ActiveOK ==
    /\ \A f \in snaps : f <= born
    /\ loop.at \in {"tick", "list"} => loop.todo = {}
    /\ session.dir \in snaps \/ (session.made /\ session.count = 0) =>
         session.dir \notin loop.todo /\ (loop.at = "list" => session.dir \in loop.active)

(* Folders that are to come, or that are gone, are empty.                    *)
FoldersOK == \A f \in Folders :
    /\ disk[f].at = "none" => Empty(f)
    /\ f > born => disk[f].at = "none" /\ videos[f].at = "none"

(* A folder that no recording has, or will have.                             *)
Closed(f) == f \in 1 .. born /\ disk[f].at # "open" /\ f # session.dir

HandedOK ==
    /\ \A i \in DOMAIN queue : Closed(queue[i])
    /\ \A f \in queued \cup armed : Closed(f)
    /\ build.dir # 0 => Closed(build.dir)

(* What Recover has seen of a folder it acts on still holds.                 *)
LoopOK ==
    /\ \A f \in loop.todo : f <= born
    /\ loop.at = "act" =>
         /\ loop.todo # {} /\ loop.seen # ""
         /\ loop.seen # "recent" => Min(loop.todo) # session.dir
         /\ loop.seen = "few" => disk[Min(loop.todo)].count < MinFrames
         /\ loop.seen = "queue" => disk[Min(loop.todo)].at # "open"

BuildOK ==
    /\ build.at = "encode" => disk[build.dir].at = "ended" /\ disk[build.dir].count >= MinFrames
    /\ build.at = "meta" => videos[build.dir].at = "file"
    /\ build.at = "clear" => videos[build.dir].at \in {"listed", "deleted"}

TimelapseInv == Types /\ SessionOK /\ ActiveOK /\ FoldersOK /\ HandedOK /\ LoopOK /\ BuildOK

(* A folder with a video is built, or gone.                                  *)
BuiltOnce == \A f \in Folders :
    videos[f].at # "none" /\ disk[f].at # "none" => build.dir = f /\ build.at \in {"meta", "clear"}

(* Where no event is missed and none waits when the printer goes on: a       *)
(* session is the running print's, and no folder is open without one.        *)
CalmInv ==
    /\ \A e \in events : e.kind = IF printing THEN "start" ELSE "end"
    /\ ~printing /\ events = {} => session.dir = 0
    /\ \A f \in Folders : disk[f].at = "open" => f = session.dir
    /\ session.dir # 0 => disk[session.dir].shows \subseteq {print}
    /\ \A f \in Folders : \E p \in Nat : disk[f].shows \subseteq {p} /\ videos[f].shows \subseteq {p}

(* A step that shows no print in a folder or a video that was not there.     *)
ShowsNoMore == \A f \in Folders :
    /\ disk'[f].at = "open" => disk[f].at = "open"
    /\ disk'[f].shows \subseteq disk[f].shows
    /\ videos'[f].shows \subseteq videos[f].shows \cup disk[f].shows

(* What every step keeps, but for what a restart or a failure may undo.      *)
Keeps ==
    /\ TimelapseInv' /\ PicturesGoWhenListed
    /\ BuiltOnce => BuiltOnce' /\ DeletedStaysDeleted

LEMMA Constants ==
    /\ MinFrames \in Nat /\ MinFrames > 0 /\ MaxFrames \in Nat /\ MaxFolders \in Nat
    /\ Folders \subseteq Nat \ {0}
BY TimelapseAssumption DEF Folders

LEMMA MinIn == ASSUME NEW T \in SUBSET Nat, T # {} PROVE Min(T) \in T
<1>1. PICK R : R = OpToRel(<, Nat) OBVIOUS
<1>2. IsWellFoundedOn(R, Nat) BY <1>1, NatLessThanWellFounded
<1>3. \E x \in T : \A y \in T : ~ (<<y, x>> \in R) BY <1>2, WFMin
<1>4. PICK x \in T : \A y \in T : ~ (<<y, x>> \in R) BY <1>3
<1>5. ASSUME NEW y \in T PROVE x <= y
  <2>1. x \in Nat /\ y \in Nat BY <1>4
  <2>2. ~ (y < x) BY <1>1, <1>4, <2>1 DEF OpToRel
  <2> QED BY <2>1, <2>2
<1> QED BY <1>4, <1>5 DEF Min

LEMMA TimelapseInit == Init => TimelapseInv /\ BuiltOnce /\ CalmInv
<1> SUFFICES ASSUME Init PROVE TimelapseInv /\ BuiltOnce /\ CalmInv
  OBVIOUS
<1> USE Constants DEF Init
<1>1. NoFolder \in FolderStates /\ NoFolder.at = "none" /\ NoFolder.count = 0 /\ NoFolder.shows = {}
  BY DEF NoFolder, FolderStates
<1>2. NoVideo \in Films /\ NoVideo.at = "none" /\ NoVideo.shows = {} BY DEF NoVideo, Films
<1>3. Starting \in Loops /\ Starting.at = "list" /\ Starting.todo = {} BY DEF Starting, Ticking, Loops
<1>4. NoSession \in [dir : 0 .. born, made : BOOLEAN, count : Nat] /\ NoSession.dir = 0 BY DEF NoSession
<1>5. NoBuild \in [dir : 0 .. MaxFolders, at : {"idle", "encode", "meta", "clear"}]
      /\ NoBuild.dir = 0 /\ NoBuild.at = "idle"
  BY DEF NoBuild
<1>6. Types
  <2>1. born \in 0 .. MaxFolders OBVIOUS
  <2>2. disk \in [Folders -> FolderStates] /\ videos \in [Folders -> Films] BY <1>1, <1>2
  <2>3. queue \in Seq(Folders) OBVIOUS
  <2> QED BY <1>3, <1>4, <1>5, <2>1, <2>2, <2>3 DEF Types
<1>7. SessionOK /\ ActiveOK
  <2>1. ~NoSession.made BY DEF NoSession
  <2> QED BY <1>3, <1>4, <2>1 DEF SessionOK, ActiveOK
<1>8. FoldersOK BY <1>1, <1>2 DEF FoldersOK, Empty
<1>9. HandedOK /\ LoopOK /\ BuildOK BY <1>3, <1>5 DEF HandedOK, LoopOK, BuildOK
<1>10. BuiltOnce BY <1>1 DEF BuiltOnce
<1>11. CalmInv BY <1>1, <1>2, <1>4 DEF CalmInv
<1> QED BY <1>6, <1>7, <1>8, <1>9, <1>10, <1>11 DEF TimelapseInv

(* What is queued, and with it what will be built, stays closed.             *)
LEMMA HandedStep ==
    ASSUME Types, HandedOK, \A f : Closed(f) => Closed(f)',
           \/ UNCHANGED <<queue, queued>>
           \/ \E d \in Folders : Enqueue(d) /\ Closed(d)',
           armed' \subseteq armed, build' = build
    PROVE  HandedOK' /\ queue' \in Seq(Folders) /\ queued' \cup armed' \subseteq Folders
<1>1. queue \in Seq(Folders) /\ queued \cup armed \subseteq Folders BY DEF Types
<1>2. CASE UNCHANGED <<queue, queued>>
  BY <1>1, <1>2 DEF HandedOK
<1>3. CASE \E d \in Folders : Enqueue(d) /\ Closed(d)'
  <2>1. PICK d \in Folders : Enqueue(d) /\ Closed(d)' BY <1>3
  <2>2. CASE UNCHANGED <<queue, queued>> BY <1>2, <2>2
  <2>3. CASE queue' = Append(queue, d) /\ queued' = queued \cup {d}
    <3>1. \A i \in DOMAIN queue' : queue'[i] = d \/ (i \in DOMAIN queue /\ queue'[i] = queue[i])
      BY <1>1, <2>3
    <3>2. queue' \in Seq(Folders) BY <1>1, <2>3
    <3> QED BY <1>1, <2>1, <2>3, <3>1, <3>2 DEF HandedOK
  <2> QED BY <2>1, <2>2, <2>3 DEF Enqueue
<1> QED BY <1>2, <1>3

(* A session ends or another one takes its place, and its folder is removed, *)
(* marked, or left open when the mark fails.                                 *)
LEMMA SessionSteps ==
    ASSUME TimelapseInv,
           (session' = NoSession /\ born' = born) \/ NewSession,
           \/ session.dir = 0 /\ UNCHANGED <<disk, queue, queued, failures>>
           \/ session.dir # 0 /\ Finish(session),
           UNCHANGED <<print, printing, snaps, loop, armed, build, videos, restarts>>
    PROVE  /\ Keeps /\ ShowsNoMore
           /\ session.dir # 0 /\ failures' # failures + 1 => disk'[session.dir].at # "open"
<1>t. Types /\ SessionOK /\ ActiveOK /\ FoldersOK /\ HandedOK /\ LoopOK /\ BuildOK BY DEF TimelapseInv
<1>0. /\ born \in Nat /\ born <= MaxFolders /\ session.dir \in Nat /\ session.dir <= born
      /\ disk \in [Folders -> FolderStates] /\ failures \in Nat
      /\ \A f \in Folders : f \in Nat /\ (f \in 1 .. born <=> f <= born)
  BY <1>t, Constants DEF Types, Folders
<1>1. PICK d \in Nat : d = session.dir BY <1>0
<1>2. d # 0 => d \in Folders BY <1>0, <1>1, Constants DEF Folders
<1>3. /\ disk' \in [Folders -> FolderStates] /\ failures' \in Nat
      /\ \A f \in Folders : f # d => disk'[f] = disk[f]
      /\ d # 0 => \/ /\ disk' = disk /\ failures' = failures + 1 /\ UNCHANGED <<queue, queued>>
                  \/ Empty(d)' /\ disk[d].count < MinFrames /\ UNCHANGED <<queue, queued>>
                  \/ /\ disk'[d].at = "ended" /\ disk'[d].shows = disk[d].shows
                     /\ disk[d].at = "open" /\ Enqueue(d)
      /\ d = 0 => disk' = disk /\ UNCHANGED <<queue, queued>>
  <2>1. CASE d = 0 BY <1>0, <1>1, <2>1
  <2>2. CASE d # 0 /\ Finish(session)
    <3>1. session.count < MinFrames => disk[d].count < MinFrames
      BY <1>t, <1>1, <2>2, Constants DEF SessionOK, Empty
    <3>2. session.count >= MinFrames => disk[d].at = "open"
      BY <1>t, <1>1, <2>2, Constants DEF SessionOK, Types
    <3>3. CASE session.count < MinFrames /\ Remove(d) /\ Works /\ UNCHANGED <<queue, queued>>
      <4>1. NoFolder \in FolderStates /\ NoFolder.at = "none" /\ NoFolder.count = 0 /\ NoFolder.shows = {}
        BY DEF NoFolder, FolderStates
      <4> QED BY <1>0, <1>2, <2>2, <3>1, <3>3, <4>1 DEF Remove, Works, Empty
    <3>4. CASE session.count >= MinFrames /\ Mark(d) /\ Works /\ Enqueue(d)
      <4>1. PICK q : q = [disk[d] EXCEPT !.at = "ended", !.age = 0] OBVIOUS
      <4>2. disk[d] \in FolderStates BY <1>0, <1>2, <2>2
      <4>3. q \in FolderStates /\ q.at = "ended" /\ q.shows = disk[d].shows BY <4>1, <4>2 DEF FolderStates
      <4>4. disk' = [disk EXCEPT ![d] = q] BY <3>4, <4>1 DEF Mark
      <4> QED BY <1>0, <1>2, <2>2, <3>2, <3>4, <4>3, <4>4 DEF Works
    <3>5. CASE session.count >= MinFrames /\ Fails /\ UNCHANGED <<disk, queue, queued>>
      BY <1>0, <2>2, <3>5 DEF Fails
    <3> QED BY <1>1, <2>2, <3>3, <3>4, <3>5 DEF Finish
  <2> QED BY <1>1, <2>1, <2>2
<1>4. /\ born' \in 0 .. MaxFolders /\ born <= born' /\ born' \in Nat
      /\ \/ session' = NoSession /\ session'.dir = 0 /\ born' = born
         \/ /\ session'.dir = born' /\ born' = born + 1 /\ ~session'.made /\ session'.count = 0
            /\ born' \in Folders
      /\ session' \in [dir : 0 .. born', made : BOOLEAN, count : Nat]
  <2>1. CASE session' = NoSession /\ born' = born
    BY <1>0, <1>t, <2>1, Constants DEF NoSession, Types
  <2>2. CASE NewSession
    <3>1. PICK b \in Nat : b = born + 1 /\ b <= MaxFolders /\ b # 0 BY <1>0, <2>2, Constants DEF NewSession
    <3>2. born' = b /\ session' = [dir |-> b, made |-> FALSE, count |-> 0]
      BY <2>2, <3>1 DEF NewSession, NoSession
    <3>3. session'.dir = b /\ ~session'.made /\ session'.count = 0 BY <3>2
    <3>4. b \in Folders /\ b \in 0 .. MaxFolders /\ b \in 0 .. b /\ born <= b
      BY <1>0, <3>1, Constants DEF Folders
    <3>5. session' \in [dir : 0 .. b, made : BOOLEAN, count : Nat] BY <3>2, <3>4
    <3> QED BY <3>1, <3>2, <3>3, <3>4, <3>5
  <2> QED BY <2>1, <2>2
<1>5. \A f \in 1 .. born : f # session'.dir /\ f \in 1 .. born' /\ f # 0 BY <1>0, <1>4
<1>6. \A f : Closed(f) => f \in Folders /\ f # d /\ Closed(f)'
  <2> SUFFICES ASSUME NEW f, Closed(f) PROVE f \in Folders /\ f # d /\ Closed(f)'
    OBVIOUS
  <2>1. f \in 1 .. born /\ disk[f].at # "open" /\ f # d BY <1>1 DEF Closed
  <2>2. f \in Folders BY <1>0, <2>1, Constants DEF Folders
  <2> QED BY <1>3, <1>5, <2>1, <2>2 DEF Closed
<1>7. HandedOK' /\ queue' \in Seq(Folders) /\ queued' \cup armed' \subseteq Folders
  <2>1. d # 0 /\ disk'[d].at = "ended" => Closed(d)' BY <1>0, <1>1, <1>2, <1>5 DEF Closed
  <2>2. UNCHANGED <<queue, queued>> \/ \E g \in Folders : Enqueue(g) /\ Closed(g)' BY <1>2, <1>3, <2>1
  <2> QED BY <1>6, <1>t, <2>2, HandedStep
<1>8. Types' BY <1>t, <1>3, <1>4, <1>7 DEF Types
<1>9. FoldersOK'
  <2>1. ASSUME NEW f \in Folders PROVE (disk'[f].at = "none" => Empty(f)') /\ (f > born' => f # d /\ f > born)
    BY <1>0, <1>1, <1>3, <1>4, <1>t DEF FoldersOK, Empty
  <2>2. \A f \in Folders : f > born' => disk'[f].at = "none" /\ videos'[f].at = "none"
    BY <1>3, <1>t, <2>1 DEF FoldersOK
  <2> QED BY <2>1, <2>2 DEF FoldersOK
<1>10. SessionOK'
  <2>1. CASE session' = NoSession /\ session'.dir = 0 BY <2>1 DEF SessionOK, NoSession
  <2>2. CASE /\ session'.dir = born' /\ born' = born + 1 /\ ~session'.made /\ session'.count = 0
             /\ born' \in Folders
    <3>0. \A f \in loop.todo : f \in Nat /\ f <= born BY <1>0, <1>t DEF LoopOK, Types, Loops
    <3>1. born' > born /\ born' # d /\ born' # 0 /\ \A f \in loop.todo : f # born'
      BY <1>0, <1>1, <2>2, <3>0
    <3>2. disk[born'].at = "none" /\ videos[born'].at = "none" /\ disk'[born'] = disk[born']
      BY <1>3, <1>t, <2>2, <3>1 DEF FoldersOK
    <3>3. Empty(born') BY <1>t, <2>2, <3>2 DEF FoldersOK
    <3> QED BY <2>2, <3>1, <3>2, <3>3 DEF SessionOK, Empty
  <2> QED BY <1>4, <2>1, <2>2
<1>11. LoopOK'
  <2>1. \A f \in loop.todo : f \in Folders /\ f \in 1 .. born /\ f <= born'
    <3>1. loop.todo \subseteq Folders /\ \A f \in loop.todo : f <= born BY <1>t DEF LoopOK, Types, Loops
    <3> QED BY <1>0, <1>4, <3>1
  <2>2. loop.todo # {} => Min(loop.todo) \in loop.todo
    <3>1. loop.todo \in SUBSET Nat BY <1>0, <2>1
    <3> QED BY <3>1, MinIn
  <2>3. PICK m : m = Min(loop.todo) OBVIOUS
  <2>4. loop.at = "act" => /\ loop.todo # {} /\ loop.seen # ""
                           /\ loop.seen # "recent" => m # session'.dir
                           /\ loop.seen = "few" => disk'[m].count < MinFrames
                           /\ loop.seen = "queue" => disk'[m].at # "open"
    <3>1. SUFFICES ASSUME loop.at = "act"
                   PROVE /\ loop.todo # {} /\ loop.seen # ""
                         /\ loop.seen # "recent" => m # session'.dir
                         /\ loop.seen = "few" => disk'[m].count < MinFrames
                         /\ loop.seen = "queue" => disk'[m].at # "open"
      OBVIOUS
    <3>2. /\ loop.todo # {} /\ loop.seen # ""
          /\ loop.seen # "recent" => m # d
          /\ loop.seen = "few" => disk[m].count < MinFrames
          /\ loop.seen = "queue" => disk[m].at # "open"
      BY <1>1, <1>t, <2>3, <3>1 DEF LoopOK
    <3>3. m \in Folders /\ m # session'.dir BY <1>5, <2>1, <2>2, <2>3, <3>2
    <3> QED BY <1>3, <3>2, <3>3
  <2> QED BY <2>1, <2>3, <2>4 DEF LoopOK
<1>12. BuildOK'
  <2>1. build.at # "idle" => build.dir \in Folders /\ build.dir # d
    BY <1>6, <1>t DEF Types, HandedOK
  <2> QED BY <1>3, <1>t, <2>1 DEF BuildOK
<1>13. PicturesGoWhenListed
  <2> SUFFICES ASSUME NEW f \in Folders, disk[f].count >= MinFrames, disk'[f].at = "none" PROVE FALSE
    BY DEF PicturesGoWhenListed
  <2>1. disk[f].at # "none" /\ ~ (disk[f].count < MinFrames)
    BY <1>0, <1>t, Constants DEF FoldersOK, Empty, FolderStates
  <2> QED BY <1>3, <2>1, Constants
<1>14. ShowsNoMore BY <1>3, Constants DEF ShowsNoMore, Empty
<1>15. BuiltOnce => BuiltOnce' /\ DeletedStaysDeleted
  <2>1. \A f \in Folders : disk'[f].at # "none" => disk[f].at # "none" BY <1>3 DEF Empty
  <2> QED BY <2>1 DEF BuiltOnce, DeletedStaysDeleted
<1>16. ActiveOK'
  <2>1. \A f \in snaps : f \in Nat /\ f <= born BY <1>t, Constants DEF Types, ActiveOK
  <2>2. ~session'.made /\ session'.dir \notin snaps
    <3>1. CASE session' = NoSession BY <1>t, <3>1, Constants DEF NoSession, Types
    <3>2. CASE session'.dir = born' /\ born' = born + 1 /\ ~session'.made BY <1>0, <2>1, <3>2
    <3> QED BY <1>4, <3>1, <3>2
  <2>3. \A f \in snaps : f <= born' BY <1>0, <1>4, <2>1
  <2> QED BY <1>t, <2>2, <2>3 DEF ActiveOK
<1> QED BY <1>t, <1>1, <1>3, <1>7, <1>8, <1>9, <1>10, <1>11, <1>12, <1>13, <1>14, <1>15, <1>16
        DEF Keeps, TimelapseInv, Empty

(* Steps that leave the recordings, the folders and the builds alone.        *)
LEMMA AsideSteps ==
    ASSUME TimelapseInv, UNCHANGED <<session, born, disk, loop, builds>>,
           print' \in Nat, printing' \in BOOLEAN, snaps' \subseteq Folders,
           \A f \in snaps' : f \in snaps \/ (f = session.dir /\ loop.at = "tick"),
           failures' \in Nat, restarts' \in Nat
    PROVE  Keeps /\ ShowsNoMore
<1>t. Types /\ SessionOK /\ ActiveOK /\ FoldersOK /\ HandedOK /\ LoopOK /\ BuildOK BY DEF TimelapseInv
<1>u. UNCHANGED <<queue, queued, armed, build, videos>> BY DEF builds
<1>1. Types' BY <1>t, <1>u DEF Types
<1>2. SessionOK' /\ FoldersOK' BY <1>t, <1>u DEF SessionOK, FoldersOK, Empty, NoSession
<1>3. HandedOK' BY <1>t, <1>u DEF HandedOK, Closed
<1>4. LoopOK' BY <1>t, <1>u DEF LoopOK
<1>5. BuildOK' BY <1>t, <1>u DEF BuildOK
<1>6. PicturesGoWhenListed
  <2> SUFFICES ASSUME NEW f \in Folders, disk[f].count >= MinFrames, disk[f].at = "none" PROVE FALSE
    BY DEF PicturesGoWhenListed
  <2>1. disk[f].count = 0 BY <1>t DEF FoldersOK, Empty
  <2> QED BY <2>1, Constants
<1>7. (BuiltOnce => BuiltOnce' /\ DeletedStaysDeleted) /\ ShowsNoMore
  BY <1>u DEF BuiltOnce, DeletedStaysDeleted, ShowsNoMore
<1>8. ActiveOK'
  <2>1. session.dir <= born BY <1>t, Constants DEF Types
  <2>2. \A f \in snaps' : f <= born BY <1>t, <2>1 DEF ActiveOK
  <2>3. session.dir \in snaps' => session.dir \in snaps \/ loop.at = "tick" OBVIOUS
  <2> QED BY <1>t, <2>2, <2>3 DEF ActiveOK
<1> QED BY <1>1, <1>2, <1>3, <1>4, <1>5, <1>6, <1>7, <1>8 DEF Keeps, TimelapseInv

(* Recover's own steps.                                                      *)
LEMMA LoopSteps ==
    ASSUME TimelapseInv, RecoverBegins \/ RecoverLists \/ RecoverLooks \/ RecoverEnds
    PROVE  Keeps /\ ShowsNoMore
<1>t. Types /\ SessionOK /\ ActiveOK /\ FoldersOK /\ HandedOK /\ LoopOK /\ BuildOK BY DEF TimelapseInv
<1>u. UNCHANGED <<print, printing, session, born, snaps, disk, queue, queued, armed, build, videos,
                  failures, restarts>>
  BY DEF RecoverBegins, RecoverLists, RecoverLooks, RecoverEnds, OnlyLoop, machine, recorder, builds
<1>0. /\ Ticking \in Loops /\ Ticking.todo = {} /\ Ticking.at = "tick" /\ Ticking.seen = ""
      /\ loop \in Loops /\ loop.todo \subseteq Folders
  BY <1>t DEF Ticking, Loops, Types
<1>1. /\ loop' \in Loops
      /\ session.dir # 0 /\ ~session.made => session.dir \notin loop'.todo
      /\ LoopOK' /\ ActiveOK'
  <2>0. session.dir \in snaps \/ session.made => session.dir # 0
    BY <1>t, Constants DEF Types, SessionOK, NoSession
  <2>1. CASE RecoverBegins
    <3>1. PICK S \in SUBSET Nat : S = {session.dir} \ {0}
      <4>1. session.dir \in Nat BY <1>t, Constants DEF Types
      <4> QED BY <4>1
    <3>2. loop' = [Ticking EXCEPT !.at = "list", !.active = S] BY <2>1, <3>1 DEF RecoverBegins
    <3>3. loop' \in Loops /\ loop'.todo = {} /\ loop'.at = "list" /\ loop'.active = S
      BY <1>0, <3>2 DEF Loops
    <3>4. ActiveOK' BY <1>t, <1>u, <2>0, <3>1, <3>3 DEF ActiveOK
    <3> QED BY <3>3, <3>4 DEF LoopOK
  <2>2. CASE RecoverLists
    <3>1. PICK S \in SUBSET Folders : S = There \ loop.active BY DEF There
    <3>2. loop' = [Ticking EXCEPT !.at = "look", !.todo = S] BY <2>2, <3>1 DEF RecoverLists
    <3>3. loop' \in Loops /\ loop'.todo = S /\ loop'.at = "look" BY <1>0, <3>2 DEF Loops
    <3>4. \A f \in S : f \in Folders /\ disk[f].at # "none" BY <3>1 DEF There
    <3>5. \A f \in S : f <= born
      <4>1. \A f \in Folders : f > born \/ f <= born BY <1>t, Constants DEF Types
      <4> QED BY <1>t, <3>4, <4>1 DEF FoldersOK
    <3>6. session.dir # 0 /\ ~session.made => session.dir \notin S BY <1>t, <3>4 DEF SessionOK, Empty
    <3>7. ActiveOK' BY <1>t, <1>u, <2>2, <3>1, <3>3 DEF ActiveOK, RecoverLists
    <3> QED BY <1>u, <3>3, <3>5, <3>6, <3>7 DEF LoopOK
  <2>3. CASE RecoverLooks
    <3>1. PICK m : m = Min(loop.todo) OBVIOUS
    <3>2. m \in loop.todo /\ loop.todo # {}
      <4>1. loop.todo \in SUBSET Nat /\ loop.todo # {} BY <1>0, <2>3, Constants DEF RecoverLooks
      <4> QED BY <3>1, <4>1, MinIn
    <3>3. disk[m] \in FolderStates BY <1>0, <1>t, <3>2 DEF Types
    <3>4. PICK v \in {"recent", "few", "queue", "mark"} : v = Verdict(disk[m]) BY DEF Verdict
    <3>5. loop' = [loop EXCEPT !.at = "act", !.seen = v] BY <2>3, <3>1, <3>4 DEF RecoverLooks
    <3>6. loop' \in Loops /\ loop'.todo = loop.todo /\ loop'.seen = v /\ loop'.at = "act"
      BY <1>0, <3>5 DEF Loops
    <3>7. v = "few" => disk[m].count < MinFrames
      <4>1. v = "few" => ~ (disk[m].count >= MinFrames) \/ disk[m].count < MinFrames BY <3>4 DEF Verdict
      <4> QED BY <3>3, <3>4, <4>1, Constants DEF Verdict, FolderStates
    <3>8. v = "queue" => disk[m].at # "open" BY <3>4 DEF Verdict
    <3>9. m = session.dir => v = "recent"
      <4>1. SUFFICES ASSUME m = session.dir PROVE v = "recent" OBVIOUS
      <4>2. m # 0 /\ session.made BY <1>0, <1>t, <3>2, <4>1, Constants DEF SessionOK
      <4>3. disk[m].at = "open" /\ disk[m].age = 0 /\ disk[m].count = session.count
        BY <1>t, <4>1, <4>2 DEF SessionOK
      <4>4. session.count # 0 /\ disk[m].count \in Nat
        BY <1>t, <3>2, <3>3, <4>1, <4>2 DEF ActiveOK, FolderStates
      <4>5. disk[m].count > 0 BY <4>3, <4>4
      <4> QED BY <3>4, <4>3, <4>5 DEF Verdict
    <3>10. LoopOK' BY <1>t, <1>u, <3>1, <3>2, <3>4, <3>6, <3>7, <3>8, <3>9 DEF LoopOK
    <3>11. ActiveOK' BY <1>t, <1>u, <3>6 DEF ActiveOK
    <3> QED BY <1>t, <3>6, <3>10, <3>11 DEF SessionOK
  <2>4. CASE RecoverEnds
    <3>1. loop' = Ticking BY <2>4 DEF RecoverEnds
    <3>2. ActiveOK' BY <1>0, <1>t, <1>u, <3>1 DEF ActiveOK
    <3> QED BY <1>0, <3>1, <3>2 DEF LoopOK
  <2> QED BY <2>1, <2>2, <2>3, <2>4
<1>2. Types' BY <1>t, <1>u, <1>1 DEF Types
<1>3. SessionOK' /\ FoldersOK' BY <1>t, <1>u, <1>1 DEF SessionOK, FoldersOK, Empty, NoSession
<1>4. HandedOK' BY <1>t, <1>u DEF HandedOK, Closed
<1>5. BuildOK' BY <1>t, <1>u DEF BuildOK
<1>6. PicturesGoWhenListed
  BY <1>t, <1>u, Constants DEF PicturesGoWhenListed, FoldersOK, Empty
<1>7. (BuiltOnce => BuiltOnce' /\ DeletedStaysDeleted) /\ ShowsNoMore
  BY <1>u DEF BuiltOnce, DeletedStaysDeleted, ShowsNoMore
<1> QED BY <1>1, <1>2, <1>3, <1>4, <1>5, <1>6, <1>7 DEF Keeps, TimelapseInv

(* A folder m that is not recorded is removed or marked.                     *)
LEMMA FolderStep ==
    ASSUME TimelapseInv, NEW m \in Folders, m # session.dir \/ disk' = disk,
           disk' \in [Folders -> FolderStates], \A f \in Folders : f # m => disk'[f] = disk[f],
           \/ disk'[m] = disk[m]
           \/ Empty(m)' /\ (disk[m].count < MinFrames \/ videos[m].at \in {"listed", "deleted"})
           \/ /\ disk'[m].at = "ended" /\ disk'[m].count = disk[m].count
              /\ disk'[m].shows = disk[m].shows /\ disk[m].at # "none",
           UNCHANGED <<session, born, videos>>,
           loop'.todo \subseteq loop.todo, loop' = loop \/ loop'.at # "act"
    PROVE  /\ SessionOK' /\ FoldersOK' /\ LoopOK' /\ PicturesGoWhenListed /\ ShowsNoMore
           /\ \A f : Closed(f) => Closed(f)'
           /\ \A f \in Folders : disk'[f].at # "none" => disk[f].at # "none"
           /\ DeletedStaysDeleted
<1>t. Types /\ SessionOK /\ ActiveOK /\ FoldersOK /\ HandedOK /\ LoopOK /\ BuildOK BY DEF TimelapseInv
<1>1. session.dir # 0 => session.dir \in Folders /\ disk'[session.dir] = disk[session.dir]
  <2>1. session.dir # 0 => session.dir \in Folders BY <1>t, Constants DEF Types, Folders
  <2> QED BY <2>1
<1>2. SessionOK' BY <1>t, <1>1 DEF SessionOK, Empty, NoSession
<1>3. \A f \in Folders : /\ disk'[f].at # "none" => disk[f].at # "none"
                         /\ disk'[f].at = "none" => Empty(f)'
                         /\ disk'[f].at = "open" => disk[f].at = "open"
  BY <1>t DEF FoldersOK, Empty
<1>4. FoldersOK' BY <1>t, <1>3 DEF FoldersOK
<1>5. LoopOK'
  <2>1. CASE loop'.at # "act" BY <1>t, <2>1 DEF LoopOK
  <2>2. CASE loop' = loop /\ loop.at = "act"
    <3>1. PICK n : n = Min(loop.todo) OBVIOUS
    <3>2. n \in Folders
      <4>1. loop.todo \subseteq Folders /\ loop.todo # {} BY <1>t, <2>2 DEF Types, Loops, LoopOK
      <4>2. loop.todo \in SUBSET Nat BY <4>1, Constants
      <4> QED BY <3>1, <4>1, <4>2, MinIn
    <3>3. loop.seen = "queue" => disk'[n].at # "open" BY <1>3, <1>t, <2>2, <3>1, <3>2 DEF LoopOK
    <3>4. loop.seen = "few" => disk'[n].count < MinFrames
      BY <1>t, <2>2, <3>1, <3>2, Constants DEF LoopOK, Empty
    <3> QED BY <1>t, <2>2, <3>1, <3>3, <3>4 DEF LoopOK
  <2> QED BY <2>1, <2>2
<1>6. PicturesGoWhenListed
  <2> SUFFICES ASSUME NEW f \in Folders, disk[f].count >= MinFrames, disk'[f].at = "none"
               PROVE  videos[f].at \in {"listed", "deleted"}
    BY DEF PicturesGoWhenListed
  <2>1. disk[f].count \in Nat BY <1>t DEF Types, FolderStates
  <2>2. ~ (disk[f].count < MinFrames) /\ disk[f].count # 0 BY <2>1, Constants
  <2>3. disk[f].at # "none" BY <1>t, <2>2 DEF FoldersOK, Empty
  <2> QED BY <2>2, <2>3
<1>7. ShowsNoMore BY <1>3 DEF ShowsNoMore, Empty
<1>8. \A f : Closed(f) => Closed(f)'
  <2>1. \A f : Closed(f) => f \in Folders BY <1>t, Constants DEF Closed, Types, Folders
  <2> QED BY <1>3, <2>1 DEF Closed
<1> QED BY <1>2, <1>3, <1>4, <1>5, <1>6, <1>7, <1>8 DEF DeletedStaysDeleted

(* Removing or marking a folder, as a step of FolderStep's.                  *)
LEMMA RemovesOrMarks ==
    ASSUME Types, NEW m \in Folders, Remove(m) \/ Mark(m)
    PROVE  /\ disk' \in [Folders -> FolderStates] /\ \A f \in Folders : f # m => disk'[f] = disk[f]
           /\ Remove(m) => Empty(m)'
           /\ Mark(m) => /\ disk'[m].at = "ended" /\ disk'[m].count = disk[m].count
                         /\ disk'[m].shows = disk[m].shows
<1>1. disk \in [Folders -> FolderStates] BY DEF Types
<1>2. Remove(m) => /\ disk' \in [Folders -> FolderStates] /\ \A f \in Folders : f # m => disk'[f] = disk[f]
                   /\ Empty(m)'
  <2>1. NoFolder \in FolderStates /\ NoFolder.at = "none" /\ NoFolder.count = 0 /\ NoFolder.shows = {}
    BY DEF NoFolder, FolderStates
  <2> QED BY <1>1, <2>1 DEF Remove, Empty
<1>3. Mark(m) => /\ disk' \in [Folders -> FolderStates] /\ \A f \in Folders : f # m => disk'[f] = disk[f]
                 /\ disk'[m].at = "ended" /\ disk'[m].count = disk[m].count
                 /\ disk'[m].shows = disk[m].shows
  <2>1. PICK q : q = [disk[m] EXCEPT !.at = "ended", !.age = 0] OBVIOUS
  <2>2. q \in FolderStates /\ q.at = "ended" /\ q.count = disk[m].count /\ q.shows = disk[m].shows
    BY <1>1, <2>1 DEF FolderStates
  <2>3. Mark(m) => disk' = [disk EXCEPT ![m] = q] BY <2>1 DEF Mark
  <2> QED BY <1>1, <2>2, <2>3
<1>4. Mark(m) => ~ Remove(m)
  <2>1. ASSUME Mark(m), Remove(m) PROVE FALSE
    <3>1. disk'[m].at = "ended" /\ Empty(m)' BY <1>2, <1>3, <2>1
    <3> QED BY <3>1 DEF Empty
  <2> QED BY <2>1
<1> QED BY <1>2, <1>3, <1>4

LEMMA ActSteps ==
    ASSUME TimelapseInv, RecoverActs
    PROVE  Keeps /\ ShowsNoMore
<1>t. Types /\ SessionOK /\ ActiveOK /\ FoldersOK /\ HandedOK /\ LoopOK /\ BuildOK BY DEF TimelapseInv
<1>u. UNCHANGED <<print, printing, session, born, snaps, armed, build, videos, restarts>>
  BY DEF RecoverActs, machine, recorder
<1>1. PICK m : m = Min(loop.todo) OBVIOUS
<1>2. m \in loop.todo /\ m \in Folders /\ m \in 1 .. born
  <2>1. loop.todo \subseteq Folders /\ loop.todo # {} /\ \A f \in loop.todo : f <= born
    BY <1>t DEF RecoverActs, LoopOK, Types, Loops
  <2>2. loop.todo \in SUBSET Nat BY <2>1, Constants
  <2>3. m \in loop.todo BY <1>1, <2>1, <2>2, MinIn
  <2>4. born \in Nat BY <1>t, Constants DEF Types
  <2>5. m \in Folders /\ m <= born BY <2>1, <2>3
  <2> QED BY <2>3, <2>4, <2>5, Constants
<1>3. loop' \in Loops /\ loop'.at = "look" /\ loop'.todo \subseteq loop.todo
  <2>1. PICK T : T = loop.todo \ {m} OBVIOUS
  <2>2. loop \in Loops /\ T \in SUBSET Folders
    <3>1. loop \in Loops BY <1>t DEF Types
    <3> QED BY <2>1, <3>1 DEF Loops
  <2>3. loop' = [loop EXCEPT !.at = "look", !.seen = "", !.todo = T] BY <1>1, <2>1 DEF RecoverActs
  <2>4. loop' \in Loops /\ loop'.at = "look" /\ loop'.todo = T BY <2>2, <2>3 DEF Loops
  <2> QED BY <2>1, <2>4
<1>4. PICK v : v = loop.seen OBVIOUS
<1>5. /\ v # "recent" => m # session.dir
      /\ v = "few" => disk[m].count < MinFrames
      /\ v = "queue" => disk[m].at # "open"
  BY <1>t, <1>1, <1>4 DEF RecoverActs, LoopOK
<1>6. /\ disk' \in [Folders -> FolderStates] /\ \A f \in Folders : f # m => disk'[f] = disk[f]
      /\ m # session.dir \/ disk' = disk
      /\ \/ disk'[m] = disk[m]
         \/ Empty(m)' /\ disk[m].count < MinFrames
         \/ /\ disk'[m].at = "ended" /\ disk'[m].count = disk[m].count
            /\ disk'[m].shows = disk[m].shows /\ disk[m].at # "none"
      /\ UNCHANGED <<queue, queued>> \/ (Enqueue(m) /\ m # session.dir /\ disk'[m].at # "open")
      /\ failures' \in Nat
  <2>0. disk \in [Folders -> FolderStates] /\ failures \in Nat BY <1>t DEF Types
  <2>1. CASE v = "recent" /\ Works /\ UNCHANGED <<disk, queue, queued>> BY <2>0, <2>1 DEF Works
  <2>2. CASE v = "few" /\ Remove(m) /\ Works /\ UNCHANGED <<queue, queued>>
    BY <1>t, <1>2, <1>5, <2>0, <2>2, RemovesOrMarks DEF Works
  <2>3. CASE v = "queue" /\ Enqueue(m) /\ Works /\ UNCHANGED disk BY <1>5, <2>0, <2>3 DEF Works
  <2>4. CASE v = "mark" /\ m \in There /\ Mark(m) /\ Enqueue(m) /\ Works
    BY <1>t, <1>2, <1>5, <2>0, <2>4, RemovesOrMarks DEF Works, There
  <2>5. CASE v = "mark" /\ UNCHANGED <<disk, queue, queued>> /\ (Fails \/ Works)
    BY <2>0, <2>5 DEF Works, Fails
  <2> QED BY <1>1, <1>4, <2>1, <2>2, <2>3, <2>4, <2>5 DEF RecoverActs
<1>7. /\ SessionOK' /\ FoldersOK' /\ LoopOK' /\ PicturesGoWhenListed /\ ShowsNoMore
      /\ \A f : Closed(f) => Closed(f)'
      /\ \A f \in Folders : disk'[f].at # "none" => disk[f].at # "none"
      /\ DeletedStaysDeleted
  BY <1>u, <1>2, <1>3, <1>6, FolderStep
<1>8. HandedOK' /\ queue' \in Seq(Folders) /\ queued' \cup armed' \subseteq Folders
  <2>1. m # session.dir /\ disk'[m].at # "open" => Closed(m)' BY <1>u, <1>2 DEF Closed
  <2> QED BY <1>t, <1>u, <1>2, <1>6, <1>7, <2>1, HandedStep
<1>9. Types' BY <1>t, <1>u, <1>3, <1>6, <1>8 DEF Types
<1>10. BuildOK'
  <2>1. ASSUME build.at = "encode"
        PROVE  disk'[build.dir].at = "ended" /\ disk'[build.dir].count >= MinFrames
    <3>1. /\ disk[build.dir].at = "ended" /\ disk[build.dir].count >= MinFrames /\ build.dir \in Folders
          /\ disk[build.dir].count \in Nat
      BY <1>t, <2>1 DEF BuildOK, Types, HandedOK, Closed, FolderStates, Folders
    <3>2. ~ (disk[build.dir].count < MinFrames) BY <3>1, Constants
    <3> QED BY <1>6, <3>1, <3>2
  <2> QED BY <1>t, <1>u, <2>1 DEF BuildOK
<1>11. BuiltOnce => BuiltOnce' BY <1>u, <1>7 DEF BuiltOnce
<1>12. ActiveOK' BY <1>t, <1>u, <1>3 DEF ActiveOK
<1> QED BY <1>7, <1>8, <1>9, <1>10, <1>11, <1>12 DEF Keeps, TimelapseInv

(* The worker takes folders off the queue, and arms retries for the one it   *)
(* was building.                                                             *)
LEMMA WorkerHands ==
    ASSUME Types, HandedOK, NEW f, Closed(f), \A g : Closed(g) => Closed(g)',
           queue' = queue \/ (queue # <<>> /\ queue' = Tail(queue)),
           queued' \subseteq queued, armed' \subseteq armed \cup {f}, build'.dir \in {0, f}
    PROVE  HandedOK' /\ queue' \in Seq(Folders) /\ queued' \cup armed' \subseteq Folders
<1>1. queue \in Seq(Folders) /\ queued \cup armed \subseteq Folders BY DEF Types
<1>2. f \in Folders
  <2>1. born \in 0 .. MaxFolders /\ f \in 1 .. born BY DEF Types, Closed
  <2> QED BY <2>1, Constants DEF Folders
<1>3. queue' \in Seq(Folders) /\ \A i \in DOMAIN queue' : \E j \in DOMAIN queue : queue'[i] = queue[j]
  <2>1. CASE queue' = queue BY <1>1, <2>1
  <2>2. CASE queue # <<>> /\ queue' = Tail(queue)
    <3>1. /\ queue' \in Seq(Folders) /\ Len(queue') = Len(queue) - 1
          /\ \A i \in 1 .. Len(queue') : queue'[i] = queue[i + 1]
      BY <1>1, <2>2
    <3>2. \A i \in 1 .. Len(queue') : i + 1 \in DOMAIN queue BY <1>1, <3>1
    <3> QED BY <3>1, <3>2
  <2> QED BY <2>1, <2>2
<1> QED BY <1>1, <1>2, <1>3 DEF HandedOK

LEMMA HeadIsClosed ==
    ASSUME Types, HandedOK, queue # <<>>
    PROVE  Head(queue) \in Folders /\ Closed(Head(queue))
<1>1. queue \in Seq(Folders) BY DEF Types
<1>2. Head(queue) = queue[1] /\ 1 \in DOMAIN queue /\ queue[1] \in Folders BY <1>1
<1> QED BY <1>2 DEF HandedOK

LEMMA BuildSteps ==
    ASSUME TimelapseInv, Build
    PROVE  Keeps /\ ShowsNoMore
<1>t. Types /\ SessionOK /\ ActiveOK /\ FoldersOK /\ HandedOK /\ LoopOK /\ BuildOK BY DEF TimelapseInv
<1>u. UNCHANGED <<print, printing, session, born, snaps, loop, videos, failures, restarts>>
  BY DEF Build, Outside, machine, recorder
<1>1. PICK m \in Folders : m = Head(queue) /\ Closed(m) BY <1>t, HeadIsClosed DEF Build
<1>2. disk \in [Folders -> FolderStates] /\ m # session.dir BY <1>t, <1>1 DEF Types, Closed
<1>3. /\ disk' \in [Folders -> FolderStates] /\ \A f \in Folders : f # m => disk'[f] = disk[f]
      /\ disk'[m] = disk[m] \/ (Empty(m)' /\ disk[m].count < MinFrames)
      /\ queued' \subseteq queued /\ armed' \subseteq armed \cup {m} /\ queue' = Tail(queue)
      /\ \/ build'.dir = 0 /\ build'.at = "idle"
         \/ /\ build'.dir = m /\ build'.at = "encode"
            /\ disk'[m].at = "ended" /\ disk'[m].count >= MinFrames
      /\ build' \in [dir : 0 .. MaxFolders, at : {"idle", "encode", "meta", "clear"}]
  <2>0. m \in 0 .. MaxFolders /\ 0 \in 0 .. MaxFolders BY Constants DEF Folders
  <2>1. CASE Built(m, FALSE) /\ UNCHANGED disk BY <1>2, <2>0, <2>1 DEF Built, NoBuild, Build
  <2>2. CASE disk[m].count < MinFrames /\ Built(m, TRUE) /\ Remove(m)
    <3>1. disk' \in [Folders -> FolderStates] /\ \A f \in Folders : f # m => disk'[f] = disk[f]
      BY <1>t, <2>2, RemovesOrMarks
    <3>2. Empty(m)' BY <1>t, <2>2, RemovesOrMarks
    <3>3. build' = NoBuild /\ queued' \subseteq queued /\ armed' \subseteq armed \cup {m} BY <2>2 DEF Built
    <3>4. NoBuild \in [dir : 0 .. MaxFolders, at : {"idle", "encode", "meta", "clear"}]
          /\ NoBuild.dir = 0 /\ NoBuild.at = "idle"
      BY <2>0 DEF NoBuild
    <3>5. queue' = Tail(queue) BY DEF Build
    <3> QED BY <2>2, <3>1, <3>2, <3>3, <3>4, <3>5
  <2>3. CASE /\ disk[m].at = "ended" /\ disk[m].count >= MinFrames
             /\ build' = [dir |-> m, at |-> "encode"]
             /\ UNCHANGED <<disk, queued, armed>>
    BY <1>2, <2>0, <2>3 DEF Build
  <2> QED BY <1>1, <2>1, <2>2, <2>3 DEF Build
<1>4. /\ SessionOK' /\ FoldersOK' /\ LoopOK' /\ PicturesGoWhenListed /\ ShowsNoMore
      /\ \A f : Closed(f) => Closed(f)'
      /\ \A f \in Folders : disk'[f].at # "none" => disk[f].at # "none"
      /\ DeletedStaysDeleted
  BY <1>u, <1>2, <1>3, FolderStep
<1>5. HandedOK' /\ queue' \in Seq(Folders) /\ queued' \cup armed' \subseteq Folders
  <2>1. queue # <<>> BY DEF Build
  <2> QED BY <1>t, <1>1, <1>3, <1>4, <2>1, WorkerHands
<1>6. Types'
  <2>1. m # 0 BY Constants
  <2> QED BY <1>t, <1>u, <1>3, <1>5, <2>1 DEF Types
<1>7. BuildOK' BY <1>3 DEF BuildOK
<1>8. BuiltOnce => BuiltOnce'
  <2>1. build.at = "idle" BY DEF Build, NoBuild
  <2> QED BY <1>u, <1>4, <2>1 DEF BuiltOnce
<1>9. ActiveOK' BY <1>t, <1>u DEF ActiveOK
<1> QED BY <1>4, <1>5, <1>6, <1>7, <1>8, <1>9 DEF Keeps, TimelapseInv

LEMMA ClearSteps ==
    ASSUME TimelapseInv, BuildFails \/ ClearFolder
    PROVE  /\ TimelapseInv' /\ PicturesGoWhenListed /\ ShowsNoMore
           /\ ClearFolder => Keeps
<1>t. Types /\ SessionOK /\ ActiveOK /\ FoldersOK /\ HandedOK /\ LoopOK /\ BuildOK BY DEF TimelapseInv
<1>u. UNCHANGED <<print, printing, session, born, snaps, loop, videos, queue, restarts>> /\ failures' \in Nat
  <2>1. failures \in Nat BY <1>t DEF Types
  <2>2. failures' = failures \/ failures' = failures + 1 BY DEF BuildFails, ClearFolder, Fails
  <2>3. UNCHANGED <<print, printing, session, born, snaps, loop, videos, queue, restarts>>
    BY DEF BuildFails, ClearFolder, Outside, machine, recorder
  <2> QED BY <2>1, <2>2, <2>3
<1>1. PICK m : m = build.dir OBVIOUS
<1>2. m \in Folders /\ Closed(m) /\ m # session.dir
  <2>1. m # 0 /\ m \in 0 .. MaxFolders BY <1>t, <1>1 DEF Types, BuildFails, ClearFolder
  <2> QED BY <1>t, <1>1, <2>1, Constants DEF HandedOK, Closed, Folders
<1>3. /\ build' = NoBuild /\ queued' \subseteq queued /\ armed' \subseteq armed \cup {m}
      /\ build'.dir = 0 /\ build'.at = "idle"
      /\ build' \in [dir : 0 .. MaxFolders, at : {"idle", "encode", "meta", "clear"}]
  <2>1. Built(m, FALSE) \/ Built(m, TRUE) BY <1>1 DEF BuildFails, ClearFolder
  <2>2. NoBuild \in [dir : 0 .. MaxFolders, at : {"idle", "encode", "meta", "clear"}]
        /\ NoBuild.dir = 0 /\ NoBuild.at = "idle"
    BY Constants DEF NoBuild
  <2> QED BY <2>1, <2>2 DEF Built
<1>4. /\ disk' \in [Folders -> FolderStates] /\ \A f \in Folders : f # m => disk'[f] = disk[f]
      /\ \/ disk'[m] = disk[m]
         \/ Empty(m)' /\ videos[m].at \in {"listed", "deleted"}
      /\ ClearFolder => Empty(m)'
  <2>1. CASE BuildFails
    <3>1. ~ ClearFolder BY <2>1 DEF BuildFails, ClearFolder
    <3> QED BY <1>t, <2>1, <3>1 DEF BuildFails, Types
  <2>2. CASE ClearFolder
    <3>1. Remove(m) /\ videos[m].at \in {"listed", "deleted"} BY <1>t, <1>1, <2>2 DEF ClearFolder, BuildOK
    <3> QED BY <1>t, <1>2, <3>1, RemovesOrMarks
  <2> QED BY <2>1, <2>2
<1>5. /\ SessionOK' /\ FoldersOK' /\ LoopOK' /\ PicturesGoWhenListed /\ ShowsNoMore
      /\ \A f : Closed(f) => Closed(f)'
      /\ \A f \in Folders : disk'[f].at # "none" => disk[f].at # "none"
      /\ DeletedStaysDeleted
  BY <1>u, <1>2, <1>4, FolderStep
<1>6. HandedOK' /\ queue' \in Seq(Folders) /\ queued' \cup armed' \subseteq Folders
  BY <1>t, <1>u, <1>2, <1>3, <1>5, WorkerHands
<1>7. Types' BY <1>t, <1>u, <1>3, <1>4, <1>6 DEF Types
<1>8. BuildOK' BY <1>3 DEF BuildOK
<1>a. ActiveOK' BY <1>t, <1>u DEF ActiveOK
<1>9. TimelapseInv' BY <1>5, <1>6, <1>7, <1>8, <1>a DEF TimelapseInv
<1>10. ASSUME ClearFolder, BuiltOnce PROVE BuiltOnce'
  <2>1. disk'[m].at = "none" BY <1>4, <1>10 DEF Empty
  <2>2. \A f \in Folders : f # m => videos[f].at = "none" \/ disk[f].at = "none"
    BY <1>1, <1>10 DEF BuiltOnce
  <2> QED BY <1>u, <1>5, <2>1, <2>2 DEF BuiltOnce
<1> QED BY <1>5, <1>9, <1>10 DEF Keeps

(* A video is made, listed or deleted.                                       *)
LEMMA VideoStep ==
    ASSUME TimelapseInv, NEW m \in Folders, m <= born, m = session.dir => session.made,
           videos' \in [Folders -> Films], \A f \in Folders : f # m => videos'[f] = videos[f],
           videos'[m].shows \subseteq videos[m].shows \cup disk[m].shows,
           UNCHANGED <<session, born, disk, loop>>
    PROVE  /\ SessionOK' /\ FoldersOK' /\ LoopOK' /\ PicturesGoWhenListed /\ ShowsNoMore
           /\ \A f : Closed(f) => Closed(f)'
<1>t. Types /\ SessionOK /\ ActiveOK /\ FoldersOK /\ HandedOK /\ LoopOK /\ BuildOK BY DEF TimelapseInv
<1>1. session.dir # 0 => session.dir \in Folders BY <1>t, Constants DEF Types, Folders
<1>2. SessionOK' BY <1>t, <1>1 DEF SessionOK, Empty, NoSession
<1>3. FoldersOK'
  <2>1. m \in Nat /\ born \in Nat BY <1>t, Constants DEF Types
  <2>2. ~ (m > born) BY <2>1
  <2> QED BY <1>t, <2>2 DEF FoldersOK, Empty
<1>4. LoopOK' BY <1>t DEF LoopOK
<1>5. PicturesGoWhenListed
  <2> SUFFICES ASSUME NEW f \in Folders, disk[f].count >= MinFrames, disk[f].at = "none" PROVE FALSE
    BY DEF PicturesGoWhenListed
  <2>1. disk[f].count = 0 BY <1>t DEF FoldersOK, Empty
  <2> QED BY <2>1, Constants
<1>6. ShowsNoMore BY DEF ShowsNoMore
<1>7. \A f : Closed(f) => Closed(f)' BY DEF Closed
<1> QED BY <1>2, <1>3, <1>4, <1>5, <1>6, <1>7

LEMMA WriteSteps ==
    ASSUME TimelapseInv, Encode \/ WriteMeta
    PROVE  Keeps /\ ShowsNoMore
<1>t. Types /\ SessionOK /\ ActiveOK /\ FoldersOK /\ HandedOK /\ LoopOK /\ BuildOK BY DEF TimelapseInv
<1>u. UNCHANGED <<print, printing, session, born, snaps, disk, loop, queue, queued, armed,
                  failures, restarts>>
  BY DEF Encode, WriteMeta, Outside, machine, recorder
<1>1. PICK m : m = build.dir OBVIOUS
<1>2. m \in Folders /\ Closed(m) /\ m # session.dir /\ m <= born /\ m # 0
  <2>1. m # 0 /\ m \in 0 .. MaxFolders /\ born \in Nat BY <1>t, <1>1, Constants DEF Types, Encode, WriteMeta
  <2>2. Closed(m) BY <1>t, <1>1, <2>1 DEF HandedOK
  <2> QED BY <2>1, <2>2, Constants DEF Closed, Folders
<1>3. /\ build' \in [dir : 0 .. MaxFolders, at : {"idle", "encode", "meta", "clear"}]
      /\ build'.dir = m
      /\ build'.at \in {"meta", "clear"}
  BY <1>t, <1>1 DEF Types, Encode, WriteMeta
<1>4. /\ videos' \in [Folders -> Films] /\ \A f \in Folders : f # m => videos'[f] = videos[f]
      /\ videos'[m].shows \subseteq videos[m].shows \cup disk[m].shows
      /\ build'.at = "meta" => videos'[m].at = "file"
      /\ build'.at = "clear" => videos'[m].at = "listed"
      /\ videos[m].at = "deleted" => build.at = "encode"
  <2>0. videos \in [Folders -> Films] /\ disk \in [Folders -> FolderStates] BY <1>t DEF Types
  <2>1. CASE Encode
    <3>1. PICK q : q = [at |-> "file", shows |-> disk[m].shows] OBVIOUS
    <3>2. disk[m] \in FolderStates BY <1>2, <2>0
    <3>3. disk[m].shows \in SUBSET Nat BY <3>2 DEF FolderStates
    <3>4. q \in Films /\ q.at = "file" /\ q.shows = disk[m].shows BY <3>1, <3>3 DEF Films
    <3>5. videos' = [videos EXCEPT ![m] = q] BY <1>1, <2>1, <3>1 DEF Encode
    <3>6. build'.at = "meta" /\ build.at = "encode" BY <1>t, <2>1 DEF Encode, Types
    <3> QED BY <1>2, <2>0, <3>4, <3>5, <3>6
  <2>2. CASE WriteMeta
    <3>1. PICK q : q = [videos[m] EXCEPT !.at = "listed"] OBVIOUS
    <3>2. videos[m] \in Films BY <1>2, <2>0
    <3>3. q \in Films /\ q.at = "listed" /\ q.shows = videos[m].shows BY <3>1, <3>2 DEF Films
    <3>4. videos' = [videos EXCEPT ![m] = q] BY <1>1, <2>2, <3>1 DEF WriteMeta
    <3>5. build'.at = "clear" /\ videos[m].at = "file" BY <1>t, <1>1, <2>2 DEF WriteMeta, Types, BuildOK
    <3> QED BY <1>2, <2>0, <3>3, <3>4, <3>5
  <2> QED BY <2>1, <2>2
<1>5. /\ SessionOK' /\ FoldersOK' /\ LoopOK' /\ PicturesGoWhenListed /\ ShowsNoMore
      /\ \A f : Closed(f) => Closed(f)'
  BY <1>u, <1>2, <1>4, VideoStep
<1>6. HandedOK' /\ queue' \in Seq(Folders) /\ queued' \cup armed' \subseteq Folders
  BY <1>t, <1>u, <1>2, <1>3, <1>5, WorkerHands
<1>7. Types' BY <1>t, <1>u, <1>2, <1>3, <1>4, <1>6 DEF Types
<1>8. BuildOK' BY <1>3, <1>4 DEF BuildOK
<1>9. ASSUME BuiltOnce PROVE BuiltOnce' /\ DeletedStaysDeleted
  <2>1. build.at = "encode" => videos[m].at = "none"
    BY <1>t, <1>1, <1>2, <1>9 DEF BuildOK, BuiltOnce
  <2>2. BuiltOnce' BY <1>u, <1>1, <1>3, <1>4, <1>9 DEF BuiltOnce
  <2>3. DeletedStaysDeleted BY <1>4, <2>1 DEF DeletedStaysDeleted
  <2> QED BY <2>2, <2>3
<1>10. ActiveOK' BY <1>t, <1>u DEF ActiveOK
<1> QED BY <1>5, <1>6, <1>7, <1>8, <1>9, <1>10 DEF Keeps, TimelapseInv

LEMMA DeleteSteps ==
    ASSUME TimelapseInv, NEW m \in Folders, Delete(m)
    PROVE  Keeps /\ ShowsNoMore
<1>t. Types /\ SessionOK /\ ActiveOK /\ FoldersOK /\ HandedOK /\ LoopOK /\ BuildOK BY DEF TimelapseInv
<1>u. UNCHANGED <<print, printing, session, born, snaps, disk, loop, queue, queued, armed, build,
                  failures, restarts>>
  BY DEF Delete, Outside, machine, recorder
<1>1. m <= born /\ (m = session.dir => session.made)
  <2>1. m \in Nat /\ born \in Nat /\ m # 0 BY <1>t, Constants DEF Types
  <2>2. ~ (m > born) BY <1>t DEF FoldersOK, Delete
  <2>3. m = session.dir => session.made BY <1>t, <2>1 DEF SessionOK, Delete
  <2> QED BY <2>1, <2>2, <2>3
<1>2. /\ videos' \in [Folders -> Films] /\ \A f \in Folders : f # m => videos'[f] = videos[f]
      /\ videos'[m].shows = videos[m].shows /\ videos'[m].at = "deleted"
  <2>1. videos \in [Folders -> Films] BY <1>t DEF Types
  <2>2. PICK q : q = [videos[m] EXCEPT !.at = "deleted"] OBVIOUS
  <2>3. q \in Films /\ q.at = "deleted" /\ q.shows = videos[m].shows BY <2>1, <2>2 DEF Films
  <2>4. videos' = [videos EXCEPT ![m] = q] BY <2>2 DEF Delete
  <2> QED BY <2>1, <2>3, <2>4
<1>3. /\ SessionOK' /\ FoldersOK' /\ LoopOK' /\ PicturesGoWhenListed /\ ShowsNoMore
      /\ \A f : Closed(f) => Closed(f)'
  BY <1>u, <1>1, <1>2, VideoStep
<1>4. HandedOK' /\ queue' \in Seq(Folders) /\ queued' \cup armed' \subseteq Folders
  BY <1>t, <1>u, <1>3, HandedStep
<1>5. Types' BY <1>t, <1>u, <1>2, <1>4 DEF Types
<1>6. BuildOK'
  <2>1. build.at = "meta" => build.dir # m BY <1>t DEF BuildOK, Delete
  <2>2. build.dir # 0 => build.dir \in Folders BY <1>t, Constants DEF Types, Folders
  <2> QED BY <1>t, <1>u, <1>2, <2>1, <2>2 DEF BuildOK, Types
<1>7. BuiltOnce => BuiltOnce' /\ DeletedStaysDeleted
  <2>1. \A f \in Folders : videos'[f].at # "none" => videos[f].at # "none" BY <1>2 DEF Delete
  <2> QED BY <1>u, <1>2, <2>1 DEF BuiltOnce, DeletedStaysDeleted
<1>8. ActiveOK' BY <1>t, <1>u DEF ActiveOK
<1> QED BY <1>3, <1>4, <1>5, <1>6, <1>7, <1>8 DEF Keeps, TimelapseInv

LEMMA RetrySteps ==
    ASSUME TimelapseInv, NEW m \in Folders, RetryFires(m)
    PROVE  Keeps /\ ShowsNoMore
<1>t. Types /\ SessionOK /\ ActiveOK /\ FoldersOK /\ HandedOK /\ LoopOK /\ BuildOK BY DEF TimelapseInv
<1>u. UNCHANGED <<print, printing, session, born, snaps, disk, loop, build, videos, failures, restarts>>
  BY DEF RetryFires, Outside, machine, recorder
<1>1. Closed(m) /\ m # session.dir BY <1>t DEF RetryFires, HandedOK, Closed
<1>2. disk \in [Folders -> FolderStates] BY <1>t DEF Types
<1>3. /\ SessionOK' /\ FoldersOK' /\ LoopOK' /\ PicturesGoWhenListed /\ ShowsNoMore
      /\ \A f : Closed(f) => Closed(f)'
      /\ DeletedStaysDeleted
  BY <1>u, <1>1, <1>2, FolderStep
<1>4. HandedOK' /\ queue' \in Seq(Folders) /\ queued' \cup armed' \subseteq Folders
  <2>1. UNCHANGED <<queue, queued>> \/ (Enqueue(m) /\ Closed(m)') BY <1>1, <1>3 DEF RetryFires
  <2>2. armed' \subseteq armed BY DEF RetryFires
  <2> QED BY <1>t, <1>u, <1>3, <2>1, <2>2, HandedStep
<1>5. Types' BY <1>t, <1>u, <1>4 DEF Types
<1>6. BuildOK' /\ (BuiltOnce => BuiltOnce') BY <1>t, <1>u DEF BuildOK, BuiltOnce
<1>7. ActiveOK' BY <1>t, <1>u DEF ActiveOK
<1> QED BY <1>3, <1>4, <1>5, <1>6, <1>7 DEF Keeps, TimelapseInv

(* The folder of the session gets a picture, or is made.                     *)
LEMMA FolderGrows ==
    ASSUME TimelapseInv, NEW m \in Folders, m \in snaps, snaps' = snaps \ {m}, m = session.dir,
           NEW c \in Nat, NEW S \in SUBSET Nat,
           S \subseteq disk[m].shows \cup (IF printing THEN {print} ELSE {}),
           disk' = [disk EXCEPT ![m] = [at |-> "open", age |-> 0, count |-> c, shows |-> S]],
           session' = [session EXCEPT !.made = TRUE, !.count = c],
           UNCHANGED <<machine, events, settings, tlIdle, born, loop, builds, restarts>>, failures' \in Nat
    PROVE  /\ Keeps
           /\ disk'[m].at = "open" /\ session'.dir = m /\ UNCHANGED videos
           /\ disk'[m].shows \subseteq disk[m].shows \cup (IF printing THEN {print} ELSE {})
           /\ \A f \in Folders : f # m => disk'[f] = disk[f]
           /\ BuiltOnce => videos[m].at = "none"
<1>t. Types /\ SessionOK /\ ActiveOK /\ FoldersOK /\ HandedOK /\ LoopOK /\ BuildOK BY DEF TimelapseInv
<1>u. UNCHANGED <<print, printing, born, loop, queue, queued, armed, build, videos, restarts>>
  BY DEF machine, builds
<1>0. m # 0 /\ disk[m] \in FolderStates /\ disk \in [Folders -> FolderStates] /\ m <= born /\ m \in 0 .. born
  BY <1>t, Constants DEF Types
<1>1. /\ session.made => disk[m].at = "open" /\ disk[m].count = session.count
      /\ ~session.made => Empty(m) /\ videos[m].at = "none"
      /\ disk[m].at # "none" => disk[m].at = "open"
  BY <1>t, <1>0 DEF SessionOK, Empty
<1>5. PICK q : q = [at |-> "open", age |-> 0, count |-> c, shows |-> S] OBVIOUS
<1>6. q \in FolderStates /\ q.at = "open" /\ q.age = 0 /\ q.count = c /\ q.shows = S
  BY <1>5 DEF FolderStates
<1>7. disk' = [disk EXCEPT ![m] = q] BY <1>5
<1>8. /\ disk' \in [Folders -> FolderStates] /\ disk'[m] = q
      /\ \A f \in Folders : f # m => disk'[f] = disk[f]
  BY <1>0, <1>6, <1>7
<1>10. /\ session' \in [dir : 0 .. born, made : BOOLEAN, count : Nat]
       /\ session'.dir = m /\ session'.made /\ session'.count = c
  <2>1. session \in [dir : 0 .. born, made : BOOLEAN, count : Nat] BY <1>t DEF Types
  <2> QED BY <2>1
<1>11. \A f : Closed(f) => f # m /\ Closed(f)'
  <2>1. \A f : Closed(f) => f \in Folders /\ f # m BY <1>t, Constants DEF Closed, Types, Folders
  <2> QED BY <1>u, <1>8, <1>10, <2>1 DEF Closed
<1>12. HandedOK' BY <1>t, <1>u, <1>11 DEF HandedOK
<1>13. Types' BY <1>t, <1>u, <1>8, <1>10 DEF Types
<1>14. SessionOK' BY <1>0, <1>6, <1>8, <1>10 DEF SessionOK
<1>15. FoldersOK'
  <2>1. m \in Nat /\ born \in Nat BY <1>t, Constants DEF Types
  <2>2. ~ (m > born) BY <1>0, <2>1
  <2> QED BY <1>t, <1>u, <1>6, <1>8, <2>2 DEF FoldersOK, Empty
<1>16. LoopOK'
  <2>1. PICK k : k = Min(loop.todo) OBVIOUS
  <2>2. loop.at = "act" => k \in Folders
    <3>1. loop.todo \subseteq Folders /\ (loop.at = "act" => loop.todo # {}) BY <1>t DEF Types, Loops, LoopOK
    <3>2. loop.todo \in SUBSET Nat BY <3>1, Constants
    <3> QED BY <2>1, <3>1, <3>2, MinIn
  <2>3. loop.at = "act" => /\ loop.todo # {} /\ loop.seen # ""
                           /\ loop.seen # "recent" => k # m
                           /\ loop.seen = "few" => disk[k].count < MinFrames
                           /\ loop.seen = "queue" => disk[k].at # "open"
    BY <1>t, <2>1 DEF LoopOK
  <2>4. \A f \in loop.todo : f <= born BY <1>t DEF LoopOK
  <2>5. loop.at = "act" => /\ loop.todo # {} /\ loop.seen # ""
                           /\ loop.seen # "recent" => k # session'.dir
                           /\ loop.seen = "few" => disk'[k].count < MinFrames
                           /\ loop.seen = "queue" => disk'[k].at # "open"
    BY <1>8, <1>10, <2>2, <2>3
  <2> QED BY <1>u, <2>1, <2>4, <2>5 DEF LoopOK
<1>17. BuildOK'
  <2>1. build.at # "idle" => build.dir \in Folders /\ build.dir # m
    BY <1>t, <1>11, Constants DEF Types, HandedOK, Folders
  <2> QED BY <1>t, <1>u, <1>8, <2>1 DEF BuildOK
<1>18. PicturesGoWhenListed
  <2> SUFFICES ASSUME NEW f \in Folders, disk[f].count >= MinFrames, disk'[f].at = "none" PROVE FALSE
    BY DEF PicturesGoWhenListed
  <2>1. disk[f].at = "none" BY <1>6, <1>8
  <2>2. disk[f].count = 0 BY <1>t, <2>1 DEF FoldersOK, Empty
  <2> QED BY <2>2, Constants
<1>19. ASSUME BuiltOnce PROVE BuiltOnce' /\ DeletedStaysDeleted /\ videos[m].at = "none"
  <2>1. videos[m].at = "none"
    <3>1. SUFFICES ASSUME videos[m].at # "none" PROVE FALSE OBVIOUS
    <3>2. build.dir = m /\ build.dir # 0 BY <1>0, <1>1, <1>19, <3>1 DEF BuiltOnce
    <3> QED BY <1>t, <1>11, <3>2 DEF HandedOK
  <2>2. BuiltOnce' BY <1>u, <1>8, <1>19, <2>1 DEF BuiltOnce
  <2> QED BY <1>u, <2>1, <2>2 DEF DeletedStaysDeleted
<1>20. disk'[m].shows \subseteq disk[m].shows \cup (IF printing THEN {print} ELSE {})
  BY <1>6, <1>8
<1>21. ActiveOK' BY <1>t, <1>u, <1>10 DEF ActiveOK
<1> QED BY <1>u, <1>6, <1>8, <1>10, <1>12, <1>13, <1>14, <1>15, <1>16, <1>17, <1>18, <1>19, <1>20, <1>21
        DEF Keeps, TimelapseInv

LEMMA PictureSteps ==
    ASSUME TimelapseInv, NEW m \in Folders, m \in snaps, m = session.dir,
           AddPicture(m) \/ FirstPictureFails(m)
    PROVE  \E c \in Nat, S \in SUBSET Nat :
               /\ S \subseteq disk[m].shows \cup (IF printing THEN {print} ELSE {})
               /\ disk' = [disk EXCEPT ![m] = [at |-> "open", age |-> 0, count |-> c, shows |-> S]]
               /\ session' = [session EXCEPT !.made = TRUE, !.count = c]
<1>t. Types /\ SessionOK BY DEF TimelapseInv
<1>0. m # 0 /\ disk[m] \in FolderStates /\ disk \in [Folders -> FolderStates]
      /\ session \in [dir : 0 .. born, made : BOOLEAN, count : Nat]
  BY <1>t, Constants DEF Types
<1>1. /\ ~session.made => session.count = 0
      /\ disk[m].at # "none" => disk[m].at = "open"
  BY <1>t, <1>0 DEF SessionOK, Empty
<1>2. CASE AddPicture(m)
  <2>1. PICK n \in Nat : n = disk[m].count + 1
    <3>1. disk[m].count \in Nat BY <1>0 DEF FolderStates
    <3> QED BY <3>1
  <2>2. PICK c \in Nat : c = IF n >= MaxFrames THEN (n + 1) \div 2 ELSE n
    <3>1. (n + 1) \div 2 \in Nat BY <2>1
    <3> QED BY <2>1, <3>1
  <2>3. PICK S \in SUBSET Nat : S = IF printing THEN disk[m].shows \cup {print} ELSE disk[m].shows
    <3>1. disk[m].shows \in SUBSET Nat BY <1>0 DEF FolderStates
    <3>2. print \in Nat BY <1>t DEF Types
    <3> QED BY <3>1, <3>2
  <2>4. PICK q : q = [at |-> "open", age |-> 0, count |-> c, shows |-> S] OBVIOUS
  <2>5. disk' = [disk EXCEPT ![m] = q]
    <3>1. (IF disk[m].at = "none" THEN "open" ELSE disk[m].at) = "open" BY <1>1
    <3> QED BY <1>2, <2>1, <2>2, <2>3, <2>4, <3>1 DEF AddPicture
  <2>6. disk'[m].count = c BY <1>0, <2>4, <2>5
  <2>7. session' = [session EXCEPT !.made = TRUE, !.count = c] BY <1>2, <2>6 DEF AddPicture
  <2> QED BY <2>3, <2>4, <2>5, <2>7
<1>3. CASE FirstPictureFails(m)
  <2>1. [NoFolder EXCEPT !.at = "open"] = [at |-> "open", age |-> 0, count |-> 0, shows |-> {}]
    BY DEF NoFolder
  <2>2. disk' = [disk EXCEPT ![m] = [at |-> "open", age |-> 0, count |-> 0, shows |-> {}]]
    BY <1>3, <2>1 DEF FirstPictureFails
  <2>3. session' = [session EXCEPT !.made = TRUE, !.count = 0]
    BY <1>0, <1>1, <1>3 DEF FirstPictureFails
  <2> QED BY <2>2, <2>3
<1> QED BY <1>2, <1>3

(* A recording takes up the folder of an earlier one.                        *)
LEMMA ResumeSteps ==
    ASSUME TimelapseInv, NEW m \in Resumable, Resume(m), session = NoSession, InTick,
           UNCHANGED <<machine, disk, loop, builds, failures, restarts>>
    PROVE  Keeps /\ ShowsNoMore /\ m \in Folders /\ disk[m].at = "open" /\ session.dir = 0
<1>t. Types /\ SessionOK /\ ActiveOK /\ FoldersOK /\ HandedOK /\ LoopOK /\ BuildOK BY DEF TimelapseInv
<1>u. UNCHANGED <<print, printing, born, disk, loop, queue, queued, armed, build, videos, failures, restarts>>
  BY DEF machine, builds, Resume
<1>1. m \in Folders /\ disk[m].at = "open" /\ disk[m].count > 0 /\ disk[m].age = 0
  BY DEF Resumable, There
<1>2. m # 0 /\ m \in 0 .. born
  <2>1. m \in Nat /\ m # 0 /\ born \in Nat BY <1>t, <1>1, Constants DEF Types
  <2>2. ~ (m > born) BY <1>t, <1>1 DEF FoldersOK
  <2> QED BY <2>1, <2>2
<1>3. /\ session' \in [dir : 0 .. born, made : BOOLEAN, count : Nat]
      /\ session'.dir = m /\ session'.made /\ session'.count = disk[m].count
  <2>1. disk[m].count \in Nat BY <1>t, <1>1 DEF Types, FolderStates
  <2> QED BY <1>2, <2>1 DEF Resume
<1>4. HandedOK'
  <2>1. \A f : Closed(f) => f # m BY <1>1 DEF Closed
  <2>2. \A f : Closed(f) => Closed(f)' BY <1>u, <1>3, <2>1 DEF Closed
  <2> QED BY <1>t, <1>u, <2>2 DEF HandedOK
<1>5. Types'
  <2>1. snaps' \subseteq Folders BY <1>t DEF Types, Resume
  <2> QED BY <1>t, <1>u, <1>3, <2>1 DEF Types
<1>6. SessionOK' BY <1>u, <1>1, <1>2, <1>3 DEF SessionOK
<1>7. FoldersOK' /\ BuildOK' BY <1>t, <1>u DEF FoldersOK, Empty, BuildOK
<1>8. LoopOK' BY <1>t, <1>u DEF LoopOK, InTick
<1>9. PicturesGoWhenListed
  <2> SUFFICES ASSUME NEW f \in Folders, disk[f].count >= MinFrames, disk[f].at = "none" PROVE FALSE
    BY <1>u DEF PicturesGoWhenListed
  <2>1. disk[f].count = 0 BY <1>t DEF FoldersOK, Empty
  <2> QED BY <2>1, Constants
<1>10. (BuiltOnce => BuiltOnce' /\ DeletedStaysDeleted) /\ ShowsNoMore
  BY <1>u DEF BuiltOnce, DeletedStaysDeleted, ShowsNoMore
<1>11. ActiveOK'
  <2>1. m \notin snaps' /\ snaps' \subseteq snaps /\ session'.count # 0 BY <1>1, <1>3 DEF Resume
  <2> QED BY <1>t, <1>u, <1>3, <2>1 DEF ActiveOK
<1> QED BY <1>1, <1>4, <1>5, <1>6, <1>7, <1>8, <1>9, <1>10, <1>11 DEF Keeps, TimelapseInv, NoSession

(* What a restart leaves.                                                    *)
LEMMA RestartSteps ==
    ASSUME TimelapseInv, Restart
    PROVE  TimelapseInv' /\ PicturesGoWhenListed
<1>t. Types /\ SessionOK /\ ActiveOK /\ FoldersOK /\ HandedOK /\ LoopOK /\ BuildOK BY DEF TimelapseInv
<1>u. UNCHANGED <<print, printing, born, disk, videos, failures>> BY DEF Restart, machine
<1>1. Starting \in Loops /\ Starting.at = "list" /\ Starting.todo = {} BY DEF Starting, Ticking, Loops
<1>2. NoSession \in [dir : 0 .. born, made : BOOLEAN, count : Nat] /\ NoSession.dir = 0
  <2>1. 0 \in 0 .. born BY <1>t, Constants DEF Types
  <2> QED BY <2>1 DEF NoSession
<1>3. NoBuild \in [dir : 0 .. MaxFolders, at : {"idle", "encode", "meta", "clear"}]
      /\ NoBuild.dir = 0 /\ NoBuild.at = "idle"
  BY Constants DEF NoBuild
<1>4. /\ loop' = Starting /\ session' = NoSession /\ build' = NoBuild
      /\ queue' = <<>> /\ queued' = {} /\ armed' = {} /\ snaps' = {}
  BY DEF Restart
<1>5. Types'
  <2>1. restarts' \in Nat
    <3>1. restarts \in Nat BY <1>t DEF Types
    <3> QED BY <3>1 DEF Restart
  <2>2. queue' \in Seq(Folders) BY <1>4
  <2> QED BY <1>t, <1>u, <1>1, <1>2, <1>3, <1>4, <2>1, <2>2 DEF Types
<1>6. SessionOK' /\ FoldersOK' BY <1>t, <1>u, <1>2, <1>4 DEF SessionOK, FoldersOK, Empty, NoSession
<1>7. HandedOK' /\ LoopOK' /\ BuildOK'
  <2>1. DOMAIN queue' = {} BY <1>4
  <2> QED BY <1>1, <1>3, <1>4, <2>1 DEF HandedOK, LoopOK, BuildOK
<1>8. PicturesGoWhenListed
  <2> SUFFICES ASSUME NEW f \in Folders, disk[f].count >= MinFrames, disk[f].at = "none" PROVE FALSE
    BY <1>u DEF PicturesGoWhenListed
  <2>1. disk[f].count = 0 BY <1>t DEF FoldersOK, Empty
  <2> QED BY <2>1, Constants
<1>9. ActiveOK'
  <2>1. ~NoSession.made BY DEF NoSession
  <2> QED BY <1>1, <1>4, <2>1 DEF ActiveOK
<1> QED BY <1>5, <1>6, <1>7, <1>8, <1>9 DEF TimelapseInv

(* What is not recorded grows old.                                           *)
LEMMA HoursSteps ==
    ASSUME TimelapseInv, HoursPass
    PROVE  Keeps /\ ShowsNoMore
<1>t. Types /\ SessionOK /\ ActiveOK /\ FoldersOK /\ HandedOK /\ LoopOK /\ BuildOK BY DEF TimelapseInv
<1>u. UNCHANGED <<print, printing, session, born, snaps, loop, queue, queued, armed, build, videos,
                  failures, restarts>>
  BY DEF HoursPass, machine, recorder, builds
<1>1. /\ disk' \in [Folders -> FolderStates]
      /\ \A f \in Folders : /\ disk'[f].at = disk[f].at /\ disk'[f].count = disk[f].count
                            /\ disk'[f].shows = disk[f].shows
      /\ session.dir # 0 => disk'[session.dir] = disk[session.dir]
  <2>1. PICK Q : Q = [f \in Folders |-> [disk[f] EXCEPT !.age = @ + 1]] OBVIOUS
  <2>2. \A f \in Folders : /\ Q[f] \in FolderStates /\ Q[f].at = disk[f].at /\ Q[f].count = disk[f].count
                           /\ Q[f].shows = disk[f].shows
    <3>1. \A f \in Folders : disk[f] \in FolderStates BY <1>t DEF Types
    <3> QED BY <2>1, <3>1 DEF FolderStates
  <2>3. PICK A : A = {f \in There \ {session.dir} : disk[f].at = "open" /\ disk[f].age < 2} OBVIOUS
  <2>4. \A f \in Folders : disk[f] \in FolderStates BY <1>t DEF Types
  <2>5. disk' = [f \in Folders |-> IF f \in A THEN Q[f] ELSE disk[f]] BY <2>1, <2>3 DEF HoursPass
  <2>6. session.dir \notin A /\ (session.dir # 0 => session.dir \in Folders)
    BY <1>t, <2>3, Constants DEF Types, Folders
  <2> QED BY <2>2, <2>4, <2>5, <2>6
<1>2. Types' BY <1>t, <1>u, <1>1 DEF Types
<1>3. SessionOK' BY <1>t, <1>u, <1>1 DEF SessionOK, Empty, NoSession
<1>4. FoldersOK' BY <1>t, <1>u, <1>1 DEF FoldersOK, Empty
<1>5. \A f : Closed(f) => f \in Folders /\ Closed(f)'
  <2>1. \A f : Closed(f) => f \in Folders BY <1>t, Constants DEF Closed, Types, Folders
  <2> QED BY <1>u, <1>1, <2>1 DEF Closed
<1>6. HandedOK' BY <1>t, <1>u, <1>5 DEF HandedOK
<1>7. BuildOK'
  <2>1. build.at # "idle" => build.dir \in Folders BY <1>t, <1>5 DEF Types, HandedOK
  <2> QED BY <1>t, <1>u, <1>1, <2>1 DEF BuildOK
<1>8. LoopOK'
  <2>1. PICK k : k = Min(loop.todo) OBVIOUS
  <2>2. loop.at = "act" => k \in Folders
    <3>1. loop.todo \subseteq Folders /\ (loop.at = "act" => loop.todo # {}) BY <1>t DEF Types, Loops, LoopOK
    <3>2. loop.todo \in SUBSET Nat BY <3>1, Constants
    <3> QED BY <2>1, <3>1, <3>2, MinIn
  <2> QED BY <1>t, <1>u, <1>1, <2>1, <2>2 DEF LoopOK
<1>9. PicturesGoWhenListed
  <2> SUFFICES ASSUME NEW f \in Folders, disk[f].count >= MinFrames, disk[f].at = "none" PROVE FALSE
    BY <1>1 DEF PicturesGoWhenListed
  <2>1. disk[f].count = 0 BY <1>t DEF FoldersOK, Empty
  <2> QED BY <2>1, Constants
<1>10. (BuiltOnce => BuiltOnce' /\ DeletedStaysDeleted) /\ ShowsNoMore
  BY <1>u, <1>1 DEF BuiltOnce, DeletedStaysDeleted, ShowsNoMore
<1>11. ActiveOK' BY <1>t, <1>u DEF ActiveOK
<1> QED BY <1>2, <1>3, <1>4, <1>6, <1>7, <1>8, <1>9, <1>10, <1>11 DEF Keeps, TimelapseInv

(* The session ends, or another one takes its place.                         *)
Changes ==
    /\ session.dir # 0 /\ failures' # failures + 1 => disk'[session.dir].at # "open"
    /\ session'.dir # 0 => ~session'.made

LEMMA ChangeSteps ==
    ASSUME TimelapseInv,
           (session' = NoSession /\ born' = born) \/ NewSession,
           \/ session.dir = 0 /\ UNCHANGED <<disk, queue, queued, failures>>
           \/ session.dir # 0 /\ Finish(session),
           UNCHANGED <<print, printing, snaps, loop, armed, build, videos, restarts>>
    PROVE  Keeps /\ ShowsNoMore /\ Changes
<1>1. Keeps /\ ShowsNoMore /\ (session.dir # 0 /\ failures' # failures + 1 => disk'[session.dir].at # "open")
  BY SessionSteps
<1>2. ~session'.made
  <2>1. CASE session' = NoSession BY <2>1 DEF NoSession
  <2>2. CASE NewSession
    <3>1. session' = [dir |-> born', made |-> FALSE, count |-> 0] BY <2>2 DEF NewSession, NoSession
    <3> QED BY <3>1
  <2> QED BY <2>1, <2>2
<1> QED BY <1>1, <1>2 DEF Changes

LEMMA NoSessionIs == ASSUME TimelapseInv PROVE session = NoSession <=> session.dir = 0
<1>1. NoSession.dir = 0 BY DEF NoSession
<1> QED BY <1>1 DEF TimelapseInv, SessionOK

LEMMA EventSteps ==
    ASSUME TimelapseInv, NEW e \in events, Handle(e)
    PROVE  /\ Keeps /\ ShowsNoMore /\ UNCHANGED machine /\ events' = events \ {e}
           /\ \/ e.kind = "start" /\ session' = session
              \/ Changes /\ (session'.dir # 0 => e.kind = "start")
<1>t. /\ Types
      /\ UNCHANGED <<print, printing, snaps, loop, armed, build, videos, restarts>>
      /\ UNCHANGED machine /\ events' = events \ {e}
  BY DEF Handle, TimelapseInv, machine
<1>1. CASE StartEvent(e) /\ UNCHANGED <<session, born, disk, queue, queued, failures>>
  <2>1. UNCHANGED builds BY <1>t, <1>1 DEF builds
  <2>2. /\ print' \in Nat /\ printing' \in BOOLEAN /\ snaps' \subseteq Folders
        /\ failures' \in Nat /\ restarts' \in Nat
    BY <1>t, <1>1 DEF Types
  <2> QED BY <1>t, <1>1, <2>1, <2>2, AsideSteps DEF StartEvent
<1>2. CASE /\ StartEvent(e) /\ NewSession
           /\ IF session = NoSession THEN UNCHANGED <<disk, queue, queued, failures>>
                                     ELSE Finish(session)
  BY <1>t, <1>2, NoSessionIs, ChangeSteps DEF StartEvent
<1>3. CASE EndEvent(e)
  <2>1. session' = NoSession /\ born' = born BY <1>3 DEF EndEvent, End
  <2>2. \/ session.dir = 0 /\ UNCHANGED <<disk, queue, queued, failures>>
        \/ session.dir # 0 /\ Finish(session)
    BY <1>3, NoSessionIs DEF EndEvent, End
  <2>3. Keeps /\ ShowsNoMore /\ Changes BY <1>t, <2>1, <2>2, ChangeSteps
  <2> QED BY <1>t, <2>1, <2>3 DEF NoSession
<1> QED BY <1>1, <1>2, <1>3 DEF Handle, StartEvent

LEMMA TickSteps ==
    ASSUME TimelapseInv, Tick
    PROVE  /\ Keeps /\ ShowsNoMore /\ UNCHANGED machine /\ events' = events
           /\ \/ session' = session
              \/ Changes /\ (session'.dir # 0 => printing)
              \/ session.dir = 0 /\ \E f \in Folders : disk[f].at = "open"
<1>t. Types BY DEF TimelapseInv
<1>1. CASE TickStarts
  <2>1. session.dir = 0 /\ InTick /\ session = NoSession /\ printing
        /\ UNCHANGED <<machine, disk, loop, builds, failures, restarts, events>>
    BY <1>1, NoSessionIs DEF TickStarts
  <2>2. CASE \E m \in Resumable : Resume(m)
    <3>1. PICK m \in Resumable : Resume(m) BY <2>2
    <3> QED BY <2>1, <3>1, ResumeSteps
  <2>3. CASE NewSession /\ UNCHANGED snaps
    <3>1. UNCHANGED <<print, printing, queue, queued, armed, build, videos>> BY <2>1 DEF machine, builds
    <3> QED BY <2>1, <2>3, <3>1, ChangeSteps
  <2> QED BY <1>1, <2>2, <2>3 DEF TickStarts
<1>2. CASE TickRecords \/ TickIdles
  <2>1. /\ UNCHANGED <<session, born, disk, loop, builds, machine, events, failures, restarts>>
        /\ snaps' \subseteq snaps \cup ({session.dir} \ {0})
        /\ loop.at = "tick"
    BY <1>2, NoSessionIs DEF TickRecords, TickIdles, InTick
  <2>2. snaps' \subseteq Folders
    <3>1. session.dir # 0 => session.dir \in Folders BY <1>t, Constants DEF Types, Folders
    <3> QED BY <1>t, <2>1, <3>1 DEF Types
  <2>3. print' \in Nat /\ printing' \in BOOLEAN /\ failures' \in Nat /\ restarts' \in Nat
    BY <1>t, <2>1 DEF Types, machine
  <2> QED BY <2>1, <2>2, <2>3, AsideSteps
<1>3. CASE TickEnds
  <2>1. session.dir # 0 /\ session' = NoSession /\ Finish(session)
        /\ UNCHANGED <<machine, events, snaps, born, loop, armed, build, videos, restarts>>
    BY <1>3, NoSessionIs DEF TickEnds, End
  <2>2. UNCHANGED <<print, printing>> BY <2>1 DEF machine
  <2>3. Keeps /\ ShowsNoMore /\ Changes BY <2>1, <2>2, ChangeSteps
  <2> QED BY <2>1, <2>3 DEF NoSession
<1> QED BY <1>1, <1>2, <1>3 DEF Tick

LEMMA PlainSteps ==
    ASSUME TimelapseInv,
           \/ Switch \/ IdleLong \/ RecoverBegins \/ Recover \/ HoursPass
           \/ Build \/ Encode \/ WriteMeta \/ ClearFolder
           \/ \E f \in Folders : RetryFires(f) \/ Delete(f)
    PROVE  Keeps /\ ShowsNoMore /\ UNCHANGED <<machine, session, events>>
<1>1. CASE Switch \/ IdleLong
  <2>1. UNCHANGED <<machine, events, session, snaps, born, disk, loop, builds, failures, restarts>>
    BY <1>1 DEF Switch, IdleLong, recorder
  <2>2. /\ print' \in Nat /\ printing' \in BOOLEAN /\ snaps' \subseteq Folders
        /\ failures' \in Nat /\ restarts' \in Nat
    BY <2>1 DEF machine, TimelapseInv, Types
  <2> QED BY <2>1, <2>2, AsideSteps
<1>2. CASE RecoverBegins \/ RecoverLists \/ RecoverLooks \/ RecoverEnds
  BY <1>2, LoopSteps DEF RecoverBegins, RecoverLists, RecoverLooks, RecoverEnds, OnlyLoop, recorder
<1>3. CASE RecoverActs BY <1>3, ActSteps DEF RecoverActs, recorder
<1>4. CASE Build BY <1>4, BuildSteps DEF Build, Outside, recorder
<1>5. CASE ClearFolder BY <1>5, ClearSteps DEF ClearFolder, Outside, recorder
<1>6. CASE Encode \/ WriteMeta BY <1>6, WriteSteps DEF Encode, WriteMeta, Outside, recorder
<1>7. CASE \E f \in Folders : RetryFires(f) \/ Delete(f)
  BY <1>7, RetrySteps, DeleteSteps DEF RetryFires, Delete, Outside, recorder
<1>8. CASE HoursPass BY <1>8, HoursSteps DEF HoursPass, recorder
<1> QED BY <1>1, <1>2, <1>3, <1>4, <1>5, <1>6, <1>7, <1>8 DEF Recover

LEMMA PrinterSteps ==
    ASSUME TimelapseInv, StartPrint \/ EndPrint
    PROVE  /\ Keeps /\ ShowsNoMore /\ UNCHANGED <<session, disk, videos>> /\ printing' = ~printing
           /\ EndPrint => print' = print
           /\ \/ events' = events
              \/ \E e : events' = events \cup {e} /\ e.kind = IF printing' THEN "start" ELSE "end"
<1>1. UNCHANGED <<session, snaps, born, disk, loop, builds, failures, restarts>>
  BY DEF StartPrint, EndPrint, recorder
<1>2. print \in Nat /\ printing \in BOOLEAN /\ failures \in Nat /\ restarts \in Nat /\ snaps \subseteq Folders
  BY DEF TimelapseInv, Types
<1>3. CASE StartPrint
  <2>1. print' \in Nat /\ printing' = TRUE /\ printing = FALSE BY <1>2, <1>3 DEF StartPrint
  <2>2. ~ EndPrint BY <2>1 DEF EndPrint
  <2>3. PICK e : e = [kind |-> "start", print |-> print'] OBVIOUS
  <2>4. events' = events \/ (events' = events \cup {e} /\ e.kind = "start") BY <1>3, <2>3 DEF StartPrint
  <2>5. Keeps /\ ShowsNoMore BY <1>1, <1>2, <2>1, AsideSteps
  <2> QED BY <1>1, <2>1, <2>2, <2>4, <2>5 DEF builds
<1>4. CASE EndPrint
  <2>1. print' = print /\ printing' = FALSE /\ printing = TRUE BY <1>2, <1>4 DEF EndPrint
  <2>3. PICK e : e = [kind |-> "end", print |-> print] OBVIOUS
  <2>4. events' = events \/ (events' = events \cup {e} /\ e.kind = "end") BY <1>4, <2>3 DEF EndPrint
  <2>5. Keeps /\ ShowsNoMore BY <1>1, <1>2, <2>1, AsideSteps
  <2> QED BY <1>1, <2>1, <2>4, <2>5 DEF builds
<1> QED BY <1>3, <1>4

(* A capture adds a picture to the session's folder, or does nothing.        *)
Adds(f) ==
    /\ Keeps /\ session.dir = f /\ session'.dir = f /\ UNCHANGED videos
    /\ disk'[f].at = "open"
    /\ disk'[f].shows \subseteq disk[f].shows \cup (IF printing THEN {print} ELSE {})
    /\ \A g \in Folders : g # f => disk'[g] = disk[g]
    /\ BuiltOnce => videos[f].at = "none"

LEMMA CaptureSteps ==
    ASSUME TimelapseInv, NEW m \in Folders, CaptureEnds(m)
    PROVE  /\ UNCHANGED <<machine, events>>
           /\ Adds(m) \/ (Keeps /\ ShowsNoMore /\ UNCHANGED session)
<1>1. /\ UNCHANGED <<machine, events, settings, tlIdle, born, loop, builds, restarts>>
      /\ m \in snaps /\ snaps' = snaps \ {m} /\ failures' \in Nat
  <2>1. failures \in Nat BY DEF TimelapseInv, Types
  <2>2. failures' = failures \/ failures' = failures + 1 BY DEF CaptureEnds, Fails, Works
  <2> QED BY <2>1, <2>2 DEF CaptureEnds
<1>2. CASE StillOn(m) /\ (AddPicture(m) \/ FirstPictureFails(m))
  <2>1. session.dir = m BY <1>2 DEF StillOn
  <2>2. PICK c \in Nat, S \in SUBSET Nat :
            /\ S \subseteq disk[m].shows \cup (IF printing THEN {print} ELSE {})
            /\ disk' = [disk EXCEPT ![m] = [at |-> "open", age |-> 0, count |-> c, shows |-> S]]
            /\ session' = [session EXCEPT !.made = TRUE, !.count = c]
    BY <1>1, <1>2, <2>1, PictureSteps
  <2> QED BY <1>1, <2>1, <2>2, FolderGrows DEF Adds
<1>3. CASE UNCHANGED <<disk, session>>
  <2>1. /\ print' \in Nat /\ printing' \in BOOLEAN /\ snaps' \subseteq Folders
        /\ restarts' \in Nat
    BY <1>1 DEF machine, TimelapseInv, Types
  <2> QED BY <1>1, <1>3, <2>1, AsideSteps
<1> QED BY <1>1, <1>2, <1>3 DEF CaptureEnds

LEMMA StepsKeep ==
    ASSUME TimelapseInv, [Next]_vars
    PROVE  /\ TimelapseInv' /\ PicturesGoWhenListed
           /\ failures' = 0 /\ restarts' = 0 => Keeps
<1>1. CASE StartPrint \/ EndPrint BY <1>1, PrinterSteps DEF Keeps
<1>2. CASE \E e \in events : Handle(e) BY <1>2, EventSteps DEF Keeps
<1>3. CASE Tick BY <1>3, TickSteps DEF Keeps
<1>4. CASE \E f \in Folders : CaptureEnds(f) BY <1>4, CaptureSteps DEF Keeps, Adds
<1>5. CASE BuildFails
  <2>1. failures' # 0
    <3>1. failures \in Nat BY DEF TimelapseInv, Types
    <3> QED BY <1>5, <3>1 DEF BuildFails, Fails
  <2> QED BY <1>5, <2>1, ClearSteps
<1>6. CASE Restart
  <2>1. restarts' # 0
    <3>1. restarts \in Nat BY DEF TimelapseInv, Types
    <3> QED BY <1>6, <3>1 DEF Restart
  <2> QED BY <1>6, <2>1, RestartSteps
<1>7. CASE UNCHANGED vars
  <2>1. UNCHANGED <<machine, session, snaps, born, disk, loop, builds, failures, restarts>>
    BY <1>7 DEF vars, recorder
  <2>2. /\ print' \in Nat /\ printing' \in BOOLEAN /\ snaps' \subseteq Folders
        /\ failures' \in Nat /\ restarts' \in Nat
    BY <2>1 DEF machine, TimelapseInv, Types
  <2> QED BY <2>1, <2>2, AsideSteps DEF Keeps
<1>8. CASE \/ Switch \/ IdleLong \/ RecoverBegins \/ Recover \/ HoursPass
           \/ Build \/ Encode \/ WriteMeta \/ ClearFolder
           \/ \E f \in Folders : RetryFires(f) \/ Delete(f)
  BY <1>8, PlainSteps DEF Keeps
<1> QED BY <1>1, <1>2, <1>3, <1>4, <1>5, <1>6, <1>7, <1>8 DEF Next, Worker

(* Where the sets of prints did not grow, a folder and its video still show  *)
(* one print.                                                                *)
LEMMA OnePrintKept ==
    ASSUME ShowsNoMore,
           \A f \in Folders : \E p \in Nat : disk[f].shows \subseteq {p} /\ videos[f].shows \subseteq {p}
    PROVE  \A f \in Folders : \E p \in Nat : disk'[f].shows \subseteq {p} /\ videos'[f].shows \subseteq {p}
<1> SUFFICES ASSUME NEW f \in Folders
             PROVE  \E p \in Nat : disk'[f].shows \subseteq {p} /\ videos'[f].shows \subseteq {p}
  OBVIOUS
<1>1. PICK p \in Nat : disk[f].shows \subseteq {p} /\ videos[f].shows \subseteq {p} OBVIOUS
<1>2. disk'[f].shows \subseteq {p} /\ videos'[f].shows \subseteq {p} BY <1>1 DEF ShowsNoMore
<1> QED BY <1>2

LEMMA CalmStays ==
    ASSUME TimelapseInv, CalmInv, ShowsNoMore, session' = session, print' = print, printing' = printing,
           events' \subseteq events, ~printing => events' = events
    PROVE  CalmInv'
<1>1. \A f \in Folders : \E p \in Nat : disk'[f].shows \subseteq {p} /\ videos'[f].shows \subseteq {p}
  BY OnePrintKept DEF CalmInv
<1>2. session.dir # 0 => session.dir \in Folders BY Constants DEF TimelapseInv, Types, Folders
<1> QED BY <1>1, <1>2 DEF CalmInv, ShowsNoMore

LEMMA CalmChange ==
    ASSUME TimelapseInv, TimelapseInv', CalmInv, ShowsNoMore, Changes, failures' = 0,
           session'.dir # 0 => printing, print' = print, printing' = printing, events' \subseteq events
    PROVE  CalmInv'
<1>1. \A f \in Folders : \E p \in Nat : disk'[f].shows \subseteq {p} /\ videos'[f].shows \subseteq {p}
  BY OnePrintKept DEF CalmInv
<1>2. failures' # failures + 1
  <2>1. failures \in Nat BY DEF TimelapseInv, Types
  <2> QED BY <2>1
<1>3. \A f \in Folders : disk'[f].at # "open"
  <2> SUFFICES ASSUME NEW f \in Folders, disk'[f].at = "open" PROVE FALSE
    OBVIOUS
  <2>1. f = session.dir /\ f # 0 BY Constants DEF CalmInv, ShowsNoMore
  <2> QED BY <1>2, <2>1 DEF Changes
<1>4. session'.dir # 0 => disk'[session'.dir].shows = {}
  BY DEF TimelapseInv, SessionOK, Empty, Changes
<1> QED BY <1>1, <1>3, <1>4 DEF CalmInv

LEMMA CalmPrinter ==
    ASSUME TimelapseInv, CalmInv, StartPrint \/ EndPrint, events = {}, events' # {}
    PROVE  CalmInv'
<1>1. /\ ShowsNoMore /\ UNCHANGED <<session, disk, videos>> /\ printing' = ~printing
      /\ EndPrint => print' = print
      /\ \A e \in events' : e.kind = IF printing' THEN "start" ELSE "end"
  BY PrinterSteps
<1>2. StartPrint => session.dir = 0 BY DEF CalmInv, StartPrint
<1>3. \A f \in Folders : \E p \in Nat : disk'[f].shows \subseteq {p} /\ videos'[f].shows \subseteq {p}
  BY <1>1 DEF CalmInv
<1> QED BY <1>1, <1>2, <1>3 DEF CalmInv

LEMMA CalmPicture ==
    ASSUME TimelapseInv, BuiltOnce, CalmInv, NEW m \in Folders, Adds(m), UNCHANGED <<machine, events>>
    PROVE  CalmInv'
<1>1. print \in Nat /\ print' = print /\ printing' = printing /\ m # 0
  BY Constants DEF machine, TimelapseInv, Types
<1>2. disk[m].shows \subseteq {print} BY <1>1 DEF CalmInv, Adds
<1>3. disk'[m].shows \subseteq {print} BY <1>2 DEF Adds
<1>4. videos[m].shows = {} BY DEF Adds, TimelapseInv, Types, Films
<1>5. \A f \in Folders : \E p \in Nat : disk'[f].shows \subseteq {p} /\ videos'[f].shows \subseteq {p}
  BY <1>1, <1>3, <1>4 DEF CalmInv, Adds
<1>6. \A f \in Folders : disk'[f].at = "open" => f = session'.dir BY DEF CalmInv, Adds
<1>7. ~printing' /\ events' = {} => session'.dir = 0 BY <1>1 DEF CalmInv, Adds
<1>8. session'.dir # 0 => disk'[session'.dir].shows \subseteq {print'} BY <1>1, <1>3 DEF Adds
<1>9. \A e \in events' : e.kind = IF printing' THEN "start" ELSE "end" BY <1>1 DEF CalmInv
<1> QED BY <1>5, <1>6, <1>7, <1>8, <1>9 DEF CalmInv

LEMMA CalmSteps ==
    ASSUME TimelapseInv, TimelapseInv', BuiltOnce, CalmInv, [Next]_vars, failures' = 0, restarts' = 0,
           printing' # printing => events = {} /\ events' # {}
    PROVE  CalmInv'
<1>1. CASE StartPrint \/ EndPrint
  <2>0. printing \in BOOLEAN BY DEF TimelapseInv, Types
  <2>1. printing' # printing BY <1>1, <2>0, PrinterSteps
  <2> QED BY <1>1, <2>1, CalmPrinter
<1>2. CASE \E e \in events : Handle(e)
  <2>1. PICK e \in events : Handle(e) BY <1>2
  <2>2. /\ ShowsNoMore /\ print' = print /\ printing' = printing /\ events' = events \ {e}
        /\ \/ e.kind = "start" /\ session' = session
           \/ Changes /\ (session'.dir # 0 => e.kind = "start")
    BY <2>1, EventSteps DEF machine
  <2>3. e.kind = "start" => printing BY DEF CalmInv
  <2>4. CASE e.kind = "start" /\ session' = session BY <2>2, <2>3, <2>4, CalmStays
  <2>5. CASE Changes /\ (session'.dir # 0 => e.kind = "start") BY <2>2, <2>3, <2>5, CalmChange
  <2> QED BY <2>2, <2>4, <2>5
<1>3. CASE Tick
  <2>1. /\ ShowsNoMore /\ print' = print /\ printing' = printing /\ events' = events
        /\ \/ session' = session
           \/ Changes /\ (session'.dir # 0 => printing)
           \/ session.dir = 0 /\ \E f \in Folders : disk[f].at = "open"
    BY <1>3, TickSteps DEF machine
  <2>2. CASE session' = session BY <2>1, <2>2, CalmStays
  <2>3. CASE Changes /\ (session'.dir # 0 => printing) BY <2>1, <2>3, CalmChange
  <2>4. ~ (session.dir = 0 /\ \E f \in Folders : disk[f].at = "open") BY Constants DEF CalmInv
  <2> QED BY <2>1, <2>2, <2>3, <2>4
<1>4. CASE \E f \in Folders : CaptureEnds(f)
  <2>1. PICK m \in Folders : CaptureEnds(m) BY <1>4
  <2>2. CASE Adds(m) BY <2>1, <2>2, CaptureSteps, CalmPicture
  <2>3. CASE Keeps /\ ShowsNoMore /\ UNCHANGED session
    <3>1. print' = print /\ printing' = printing /\ events' = events BY <2>1, CaptureSteps DEF machine
    <3> QED BY <2>3, <3>1, CalmStays
  <2> QED BY <2>1, <2>2, <2>3, CaptureSteps
<1>5. CASE BuildFails
  <2>1. failures \in Nat BY DEF TimelapseInv, Types
  <2> QED BY <1>5, <2>1 DEF BuildFails, Fails
<1>6. CASE Restart
  <2>1. restarts \in Nat BY DEF TimelapseInv, Types
  <2> QED BY <1>6, <2>1 DEF Restart
<1>7. CASE UNCHANGED vars
  <2>1. UNCHANGED <<print, printing, events, session, disk, videos>>
    BY <1>7 DEF vars, machine, recorder, builds
  <2>2. ShowsNoMore BY <2>1 DEF ShowsNoMore
  <2> QED BY <2>1, <2>2, CalmStays
<1>8. CASE \/ Switch \/ IdleLong \/ RecoverBegins \/ Recover \/ HoursPass
           \/ Build \/ Encode \/ WriteMeta \/ ClearFolder
           \/ \E f \in Folders : RetryFires(f) \/ Delete(f)
  <2>1. ShowsNoMore /\ UNCHANGED <<print, printing, events, session>>
    BY <1>8, PlainSteps DEF machine
  <2> QED BY <2>1, CalmStays
<1> QED BY <1>1, <1>2, <1>3, <1>4, <1>5, <1>6, <1>7, <1>8 DEF Next, Worker

-----------------------------------------------------------------------------
(* The three parts together.                                                 *)
PartsInv ==
    /\ TimelapseInv
    /\ part # "crash" => BuiltOnce
    /\ part = "calm" => CalmInv

LEMMA PartsInit == MCInit => PartsInv
BY TimelapseInit DEF MCInit, PartsInv

LEMMA PartsStep ==
    PartsInv /\ [MCNext]_<<vars, part>> =>
        PartsInv' /\ PicturesGoWhenListed /\ (part # "crash" => DeletedStaysDeleted)
<1> SUFFICES ASSUME PartsInv, [MCNext]_<<vars, part>>
             PROVE  PartsInv' /\ PicturesGoWhenListed /\ (part # "crash" => DeletedStaysDeleted)
  OBVIOUS
<1>1. TimelapseInv /\ [Next]_vars /\ part' = part BY DEF PartsInv, MCNext
<1>2. TimelapseInv' /\ PicturesGoWhenListed BY <1>1, StepsKeep
<1>3. ASSUME MCNext, part # "crash" PROVE BuiltOnce' /\ DeletedStaysDeleted /\ (part = "calm" => CalmInv')
  <2>1. BuiltOnce /\ failures' = 0 /\ restarts' = 0 BY <1>3 DEF PartsInv, MCNext
  <2>2. Keeps BY <1>1, <2>1, StepsKeep
  <2>3. ASSUME part = "calm" PROVE CalmInv'
    <3>1. CalmInv /\ (printing' # printing => events = {} /\ events' # {})
      BY <1>3, <2>3 DEF PartsInv, MCNext, Prompt
    <3> QED BY <1>1, <1>2, <2>1, <3>1, CalmSteps
  <2> QED BY <2>1, <2>2, <2>3 DEF Keeps
<1>4. ASSUME UNCHANGED <<vars, part>>, part # "crash"
      PROVE  BuiltOnce' /\ DeletedStaysDeleted /\ (part = "calm" => CalmInv')
  <2>1. UNCHANGED <<print, printing, events, session, disk, build, videos>>
    BY <1>4 DEF vars, machine, recorder, builds
  <2>2. BuiltOnce' /\ DeletedStaysDeleted BY <1>4, <2>1 DEF PartsInv, BuiltOnce, DeletedStaysDeleted
  <2>3. part = "calm" => CalmInv'
    <3>1. ShowsNoMore BY <2>1 DEF ShowsNoMore
    <3> QED BY <1>1, <2>1, <3>1, CalmStays DEF PartsInv
  <2> QED BY <2>2, <2>3
<1> QED BY <1>1, <1>2, <1>3, <1>4 DEF PartsInv

LEMMA PartsHold == MCSpec => []PartsInv
<1>1. MCInit => PartsInv BY PartsInit
<1>2. PartsInv /\ [MCNext]_<<vars, part>> => PartsInv' BY PartsStep
<1> QED BY <1>1, <1>2, PTL DEF MCSpec

(* What a recording needs, of the invariant: timelapse.go:186-229, 276-363   *)
(* and 420-470.                                                              *)
LEMMA PartsGiveRecordings == PartsInv => RecordingsAreRight
<1> SUFFICES ASSUME PartsInv PROVE RecordingsAreRight
  OBVIOUS
<1>t. Types /\ SessionOK /\ HandedOK BY DEF PartsInv, TimelapseInv
<1>1. RecordingIsWhole
  <2> SUFFICES ASSUME session.made
               PROVE  /\ disk[session.dir].at = "open" /\ disk[session.dir].count = session.count
                      /\ session.dir \notin queued
    BY DEF RecordingIsWhole
  <2>1. session.dir # 0 BY <1>t DEF SessionOK, NoSession
  <2>2. session.dir \notin queued BY <1>t DEF HandedOK, Closed
  <2> QED BY <1>t, <2>1, <2>2 DEF SessionOK
<1>2. ASSUME part = "calm" PROVE VideosShowOnePrint
  <2> SUFFICES ASSUME NEW f \in Folders PROVE Cardinality(videos[f].shows) <= 1
    BY DEF VideosShowOnePrint
  <2>1. PICK p \in Nat : videos[f].shows \subseteq {p} BY <1>2 DEF PartsInv, CalmInv
  <2>2. IsFiniteSet({p}) /\ Cardinality({p}) = 1 BY FS_Singleton
  <2>3. Cardinality(videos[f].shows) <= Cardinality({p}) BY <2>1, <2>2, FS_Subset
  <2> QED BY <2>2, <2>3
<1> QED BY <1>1, <1>2 DEF RecordingsAreRight

(* The folder of a recording is left alone by Recover, retries, the worker   *)
(* and late pictures, and a video shows one print where events are prompt    *)
(* and nothing fails: timelapse.go:186-229, 276-363 and 420-470.             *)
THEOREM RecordingsStayRight == MCSpec => []RecordingsAreRight
BY PartsHold, PartsGiveRecordings, PTL

(* Enough pictures for a video are deleted only when it is in the list, and  *)
(* a deleted video stays deleted where nothing restarts or fails:            *)
(* build.go:119-183 and library.go:81-134.                                   *)
THEOREM FilmsStayKept == MCSpec => FilmsAreKept
<1>1. PartsInv /\ [MCNext]_<<vars, part>> =>
          [PicturesGoWhenListed /\ (part # "crash" => DeletedStaysDeleted)]_vars
  BY PartsStep
<1> QED BY <1>1, PartsHold, PTL DEF MCSpec, FilmsAreKept
=============================================================================
