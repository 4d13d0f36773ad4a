----------------------------- MODULE CameraHub -----------------------------
(***************************************************************************)
(* The shared RTSP camera of one Bambu printer (camera_rtsp.go): one ffmpeg *)
(* for every viewer, started with the first one and stopped a while after   *)
(* the last, and snapshots that take the stream's picture or run an ffmpeg  *)
(* of their own. Requests hold the camera's address from the config as it   *)
(* was when they came. ffmpeg and the viewers' browsers are external; which *)
(* pictures a viewer gets is left out.                                     *)
(***************************************************************************)
EXTENDS Naturals

CONSTANTS Viewers, Snapshots, Addresses, NoAddress,
          MaxAddresses   \* bound: changes of the address

ASSUME CameraAssumption == 0 \notin Viewers /\ NoAddress \notin Addresses

VARIABLES
    address,   \* the camera's address and access code in the config
    hub,       \* the hubs that were made, each by the request that made it
    current,   \* rtspHubs of the printer, 0 for none
    viewer,    \* each request for the stream: where it is, its address and hub
    snapshot,  \* where each request for a picture is
    cutBy,     \* the viewers whose feed was closed, and who closed it
    addresses

hubVars == <<address, hub, current, viewer, snapshot, cutBy, addresses>>

NoHub == [url |-> NoAddress, subs |-> {}, stopped |-> FALSE,
          idle |-> "nil",    \* the timer: nil, armed, or spent
          firing |-> 0,      \* idleStop goroutines that wait for rtspMu
          ffmpeg |-> "none", \* run: none, up, pause, over
          fresh |-> FALSE]   \* last is younger than rtspFreshFrame

NotAsked == [at |-> "none", url |-> NoAddress, hub |-> 0]

CameraInit ==
    /\ address \in Addresses
    /\ hub = [h \in Viewers |-> NoHub] /\ current = 0
    /\ viewer = [v \in Viewers |-> NotAsked]
    /\ snapshot = [s \in Snapshots |-> "none"]
    /\ cutBy = [v \in Viewers |-> "nobody"] /\ addresses = 0

Lives(h) == hub[h].url # NoAddress /\ ~hub[h].stopped

AddressChanges ==
    /\ addresses < MaxAddresses /\ addresses' = addresses + 1
    /\ address' \in Addresses \ {address}
    /\ UNCHANGED <<hub, current, viewer, snapshot, cutBy>>

-----------------------------------------------------------------------------
(* Viewers.                                                                  *)

(* handleCamera copies the printer, then looks for ffmpeg.                   *)
AskStream(v) ==
    /\ viewer[v].at = "none"
    /\ viewer' = [viewer EXCEPT ![v].at = "asks", ![v].url = address]
    /\ UNCHANGED <<address, hub, current, snapshot, cutBy, addresses>>

(* stopLocked: ffmpeg is cancelled and the feeds are closed.                 *)
Stopped(r) == [r EXCEPT !.stopped = TRUE, !.subs = {}, !.idle = "spent"]
Cut(h, who) == cutBy' = [v \in Viewers |-> IF h # 0 /\ v \in hub[h].subs THEN who ELSE cutBy[v]]

(* add, to a hub of whom it may not yet be the first viewer.                 *)
Join(hubs, h, v) ==
    /\ hub' = [hubs EXCEPT ![h].subs = @ \cup {v}, ![h].idle = "nil"]
    /\ current' = h
    /\ viewer' = [viewer EXCEPT ![v].at = "watches", ![v].hub = h]

(* rtspSubscribe, under rtspMu: the hub of another address is stopped.       *)
JoinStream(v) ==
    LET u == viewer[v].url
        hubs == [h \in Viewers |-> IF h = v THEN [NoHub EXCEPT !.url = u, !.ffmpeg = "pause"]
                                   ELSE IF h = current THEN Stopped(hub[h]) ELSE hub[h]]
    IN  /\ viewer[v].at = "asks"
        /\ IF current # 0 /\ hub[current].url = u
           THEN Join(hub, current, v) /\ UNCHANGED cutBy
           ELSE Join(hubs, v, v) /\ Cut(current, "another address")
        /\ UNCHANGED <<address, snapshot, addresses>>

(* remove, on the hub if it has not stopped.                                 *)
Leave(v) ==
    LET h == viewer[v].hub
        rest == hub[h].subs \ {v}
    IN  IF hub[h].stopped THEN UNCHANGED hub
        ELSE hub' = [hub EXCEPT ![h].subs = rest,
                                ![h].idle = IF rest = {} /\ @ = "nil" THEN "armed" ELSE @]

(* The browser goes, no picture came in time, or the feed is closed.         *)
EndStream(v) ==
    /\ viewer[v].at = "watches" /\ Leave(v)
    /\ viewer' = [viewer EXCEPT ![v].at = "over"]
    /\ UNCHANGED <<address, current, snapshot, cutBy, addresses>>

-----------------------------------------------------------------------------
(* The hub.                                                                  *)

OnlyHub == UNCHANGED <<address, snapshot, addresses>>

IdleFires(h) ==
    /\ Lives(h) /\ hub[h].idle = "armed"
    /\ hub' = [hub EXCEPT ![h].idle = "spent", ![h].firing = @ + 1]
    /\ UNCHANGED <<current, viewer, cutBy>> /\ OnlyHub

Disarmed(h) == [hub EXCEPT ![h].firing = @ - 1]
StopHub(h) ==
    /\ hub' = [Disarmed(h) EXCEPT ![h] = Stopped(@)] /\ Cut(h, "idle")
    /\ current' = IF current = h THEN 0 ELSE current

(* Mutant: whether someone came back in the meantime is not looked at.       *)
IdleStopAnyway(h) ==
    /\ hub[h].firing > 0
    /\ IF hub[h].stopped THEN hub' = Disarmed(h) /\ UNCHANGED <<current, cutBy>> ELSE StopHub(h)
    /\ UNCHANGED viewer /\ OnlyHub

IdleStop(h) ==
    /\ hub[h].firing > 0
    /\ IF hub[h].stopped \/ hub[h].subs # {}
       THEN hub' = Disarmed(h) /\ UNCHANGED <<current, cutBy>>
       ELSE StopHub(h)
    /\ UNCHANGED viewer /\ OnlyHub

(* run and runOnce: ffmpeg is started, and again after it ended or stalled.  *)
FfmpegStarts(h) ==
    /\ Lives(h) /\ hub[h].ffmpeg = "pause"
    /\ hub' = [hub EXCEPT ![h].ffmpeg = "up"]
    /\ UNCHANGED <<current, viewer, cutBy>> /\ OnlyHub

FfmpegEnds(h) ==
    /\ hub[h].ffmpeg \in {"up", "pause"} /\ (hub[h].ffmpeg = "pause" => hub[h].stopped)
    /\ hub' = [hub EXCEPT ![h].ffmpeg = IF hub[h].stopped THEN "over" ELSE "pause"]
    /\ UNCHANGED <<current, viewer, cutBy>> /\ OnlyHub

(* publish                                                                   *)
Publish(h) ==
    /\ hub[h].ffmpeg = "up" /\ ~hub[h].stopped
    /\ hub' = [hub EXCEPT ![h].fresh = TRUE]
    /\ UNCHANGED <<current, viewer, cutBy>> /\ OnlyHub

PictureAges(h) ==
    /\ hub[h].fresh /\ hub' = [hub EXCEPT ![h].fresh = FALSE]
    /\ UNCHANGED <<current, viewer, cutBy>> /\ OnlyHub

-----------------------------------------------------------------------------
(* rtspSnapshot: the stream's picture, or an ffmpeg of its own, one at a time.*)

OnlySnapshot == UNCHANGED <<address, hub, current, viewer, cutBy, addresses>>
HasFresh == current # 0 /\ hub[current].fresh
Taken == \E s \in Snapshots : snapshot[s] \in {"has", "runs"}
SnapshotTo(s, to) == snapshot' = [snapshot EXCEPT ![s] = to]

AskSnapshot(s) ==
    /\ snapshot[s] = "none"
    /\ snapshot' = [snapshot EXCEPT ![s] = IF HasFresh THEN "over" ELSE "waits"]
    /\ OnlySnapshot

TakeTurn(s) == snapshot[s] = "waits" /\ ~Taken /\ SnapshotTo(s, "has") /\ OnlySnapshot

(* It looks again at what came while it waited.                              *)
RunSnapshot(s) ==
    snapshot[s] = "has" /\ SnapshotTo(s, IF HasFresh THEN "over" ELSE "runs") /\ OnlySnapshot

(* Its time is up, or its ffmpeg ends, within rtspSnapshotTimeout.           *)
EndSnapshot(s) == snapshot[s] \in {"waits", "runs"} /\ SnapshotTo(s, "over") /\ OnlySnapshot

CameraNext ==
    \/ AddressChanges
    \/ \E v \in Viewers : AskStream(v) \/ JoinStream(v) \/ EndStream(v)
    \/ \E h \in Viewers : \/ IdleFires(h) \/ IdleStop(h)
                         \/ FfmpegStarts(h) \/ FfmpegEnds(h) \/ Publish(h) \/ PictureAges(h)
    \/ \E s \in Snapshots : AskSnapshot(s) \/ TakeTurn(s) \/ RunSnapshot(s) \/ EndSnapshot(s)

CameraSpec == CameraInit /\ [][CameraNext]_hubVars

-----------------------------------------------------------------------------
(* A viewer who watches gets the pictures of his hub, unless someone came    *)
(* with another address.                                                     *)
ViewersAreKept == \A v \in Viewers :
    /\ cutBy[v] # "idle"
    /\ viewer[v].at = "watches" => (v \in hub[viewer[v].hub].subs <=> cutBy[v] = "nobody")

(* One hub lives, the one that the next viewer would join, and the ffmpeg of *)
(* a hub that nobody watches is on its way to stop.                          *)
OneStream == \A h \in Viewers : Lives(h) =>
    /\ current = h
    /\ hub[h].subs = {} => hub[h].idle = "armed" \/ hub[h].firing > 0

OneSnapshot == \A s, t \in Snapshots : snapshot[s] = "runs" /\ snapshot[t] = "runs" => s = t

(* camera_rtsp.go:23-25 and 333-400.                                         *)
CameraIsShared == ViewersAreKept /\ OneStream /\ OneSnapshot
=============================================================================
