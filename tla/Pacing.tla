------------------------------- MODULE Pacing -------------------------------
(***************************************************************************)
(* How often the Bridge talks to FoxTrack (pace/pace.go), for one printer:  *)
(* the command poll, whose replies say whether someone watches, the posts   *)
(* of a printer that reports (shouldRelay and makeHandler), and its camera's*)
(* snapshots. Time is a count of units, some seconds each; a printer that   *)
(* is there reports in each of them. What FoxTrack answers is external.     *)
(***************************************************************************)
EXTENDS Naturals

CONSTANTS
    HeartbeatSec, GapWatched, GapIdle,   \* in units of time
    WatchHold, PollSoon, PollLater, PollAfterError, PollAfterRefused,
    SnapGap, SnapGapIdle, SnapBackoff, SnapFailLimit,
    Silence      \* FoxTrack shows a printer as offline after this long

(* The order of the constants in pace.go, where an idle gap is a heartbeat;  *)
(* that FoxTrack, while someone watches, asks for the next poll early enough *)
(* for one that fails is assumed of it.                                      *)
ASSUME PaceAssumption ==
    /\ {HeartbeatSec, GapWatched, GapIdle, WatchHold, PollSoon, PollLater, PollAfterError,
        PollAfterRefused, SnapBackoff, Silence} \subseteq Nat
    /\ GapWatched <= GapIdle /\ GapIdle <= HeartbeatSec
    /\ 0 < HeartbeatSec /\ HeartbeatSec < Silence
    /\ PollSoon + PollAfterError < WatchHold

VARIABLES
    tells, someone,   \* FoxTrack's replies have "watched"; someone has a page open
    pace,     \* known, and the units left of quick mode
    pollIn,   \* units until the next poll
    quiet,    \* history: polls that failed since a reply said "watched", if it still holds
    device,   \* up, has it reported in this unit, and is its first report still to come
    relay,    \* since the last post, and webhookHeld
    behind,   \* history: [yes, for]: a change that FoxTrack lacks, and since when
    snap      \* of its snapshots: since the last, in flight, failures, pause left

paceVars == <<tells, someone, pace, pollIn, quiet, device, relay, behind, snap>>

Capped(n, max) == IF n > max THEN max ELSE n
Less(n) == IF n = 0 THEN 0 ELSE n - 1
NotWatched == 9   \* no reply said "watched", or it no longer holds

PaceInit ==
    /\ tells \in BOOLEAN /\ someone \in BOOLEAN
    /\ pace = [known |-> FALSE, quick |-> 0] /\ pollIn = 0 /\ quiet = NotWatched
    /\ device = [up |-> FALSE, reported |-> FALSE, back |-> FALSE]
    /\ relay = [since |-> Silence, held |-> FALSE] /\ behind = [yes |-> FALSE, for |-> 0]
    /\ snap = [since |-> SnapGapIdle, flight |-> FALSE, fails |-> 0, pause |-> 0]

-----------------------------------------------------------------------------
(* state, RelayGap, SnapshotGap and Decide.                                  *)

Gap(legacy, watched, idle) ==
    IF ~pace.known THEN legacy ELSE IF pace.quick > 0 THEN watched ELSE idle
RelayGap == Gap(0, GapWatched, GapIdle)
SnapshotGap == Gap(SnapGap, SnapGap, SnapGapIdle)

(* Mutant: a change that has to wait is not remembered.                      *)
DecideForgets(urgent, changed) ==
    IF urgent THEN [send |-> TRUE, held |-> FALSE]
    ELSE IF changed THEN [send |-> relay.since >= RelayGap, held |-> FALSE]
    ELSE [send |-> relay.since >= HeartbeatSec, held |-> FALSE]

Decide(urgent, changed) ==
    IF urgent THEN [send |-> TRUE, held |-> FALSE]
    ELSE IF changed \/ relay.held
    THEN [send |-> relay.since >= RelayGap, held |-> relay.since < RelayGap]
    ELSE [send |-> relay.since >= HeartbeatSec, held |-> FALSE]

-----------------------------------------------------------------------------
(* Time, and who watches.                                                    *)

Tick ==
    /\ device.up => device.reported
    /\ pollIn > 0 /\ pollIn' = pollIn - 1
    /\ pace' = [pace EXCEPT !.quick = Less(@)]
    /\ device' = [device EXCEPT !.reported = FALSE]
    /\ relay' = [relay EXCEPT !.since = Capped(@ + 1, Silence)]
    /\ behind' = [behind EXCEPT !.for = IF behind.yes /\ device.up THEN @ + 1 ELSE @]
    /\ snap' = [snap EXCEPT !.since = Capped(@ + 1, SnapGapIdle), !.pause = Less(@)]
    /\ UNCHANGED <<tells, someone, quiet>>

PageOpensOrCloses ==
    /\ someone' = ~someone /\ quiet' = NotWatched
    /\ UNCHANGED <<tells, pace, pollIn, device, relay, behind, snap>>

-----------------------------------------------------------------------------
(* pollBridgeCommands. FoxTrack asks for a poll soon while someone watches,  *)
(* and one that is old says neither.                                         *)

OnlyPoll == UNCHANGED <<tells, someone, device, relay, behind, snap>>

Update ==
    /\ pollIn = 0
    /\ pace' = [known |-> tells, quick |-> IF tells /\ someone THEN WatchHold ELSE 0]
    /\ pollIn' = IF tells /\ ~someone THEN PollLater ELSE PollSoon
    /\ quiet' = IF tells /\ someone THEN 0 ELSE NotWatched
    /\ OnlyPoll

Refused ==
    /\ pollIn = 0
    /\ pace' = [known |-> TRUE, quick |-> 0] /\ pollIn' = PollAfterRefused
    /\ quiet' = NotWatched /\ OnlyPoll

PollFails ==
    /\ pollIn = 0 /\ pollIn' = PollAfterError
    /\ quiet' = IF quiet = 0 THEN 1 ELSE NotWatched
    /\ UNCHANGED pace /\ OnlyPoll

(* wakeBridgeCommands: the token was changed.                                *)
Wake == pollIn > 0 /\ pollIn' = 0 /\ UNCHANGED <<pace, quiet>> /\ OnlyPoll

-----------------------------------------------------------------------------
(* The printer's reports. The first one after it was away differs in its     *)
(* status from the state that was stored last.                               *)

OnlyPrinterAndRelay == UNCHANGED <<tells, someone, pace, pollIn, quiet, snap>>

PrinterComesOrGoes ==
    /\ device' = [up |-> ~device.up, reported |-> FALSE, back |-> ~device.up]
    /\ UNCHANGED <<relay, behind>> /\ OnlyPrinterAndRelay

ReportIn ==
    /\ device.up
    /\ \E urgent \in BOOLEAN, changed \in BOOLEAN :
        LET d == Decide(urgent, changed)
        IN  /\ device.back => urgent
            /\ relay' = [since |-> IF d.send THEN 0 ELSE relay.since, held |-> d.held]
            /\ behind' = IF d.send THEN [yes |-> FALSE, for |-> 0]
                         ELSE [behind EXCEPT !.yes = @ \/ changed]
    /\ device' = [device EXCEPT !.reported = TRUE, !.back = FALSE]
    /\ OnlyPrinterAndRelay

-----------------------------------------------------------------------------
(* Snapshots, while the printer prints.                                      *)

OnlySnap == UNCHANGED <<tells, someone, pace, pollIn, quiet, device, relay, behind>>

(* snapshotDue starts the next interval, also when the last capture is still *)
(* under way.                                                                *)
SnapshotDue ==
    /\ device.up /\ snap.since >= SnapshotGap /\ snap.pause = 0
    /\ snap' = [snap EXCEPT !.since = 0, !.flight = TRUE]
    /\ OnlySnap

CaptureEnds(ok) ==
    /\ snap.flight
    /\ LET fails == IF ok THEN 0 ELSE Capped(snap.fails + 1, SnapFailLimit)
       IN  snap' = [snap EXCEPT !.flight = FALSE, !.fails = fails,
                                !.pause = IF ok THEN 0 ELSE IF fails = SnapFailLimit THEN SnapBackoff ELSE @]
    /\ OnlySnap

PaceNext ==
    \/ Tick \/ PageOpensOrCloses \/ Update \/ Refused \/ PollFails \/ Wake
    \/ PrinterComesOrGoes \/ ReportIn
    \/ SnapshotDue \/ CaptureEnds(TRUE) \/ CaptureEnds(FALSE)

PaceSpec == PaceInit /\ [][PaceNext]_paceVars

-----------------------------------------------------------------------------
(* A printer that reports is heard of before FoxTrack shows it as offline.   *)
HeardInTime == device.up /\ device.reported => relay.since < HeartbeatSec

(* A change that FoxTrack lacks is remembered, and is told a heartbeat after *)
(* it happened at the latest, however often the pace changes.                *)
ChangesAreTold == behind.yes /\ ~device.back => relay.held /\ behind.for <= GapIdle

(* One poll that fails does not end quick mode while someone watches.        *)
WatchedStaysQuick == quiet <= 1 => pace.quick > 0

(* During the pause after a camera's failures nothing asks it.               *)
CameraIsLeftAlone == snap.pause > 0 => ~snap.flight

(* pace/pace.go:18-50 and 134-160; mqtt/mqtt.go:1522-1551.                   *)
PaceIsKept == HeardInTime /\ ChangesAreTold /\ WatchedStaysQuick /\ CameraIsLeftAlone
=============================================================================
