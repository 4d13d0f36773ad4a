---------------------------- MODULE MCTimelapse ----------------------------
(* Timelapse in three parts a behaviour picks from:                          *)
(*   orders  events handled in any order, two at once at most                *)
(*   calm    no event is missed, and it is handled before the printer's next *)
(*           one and before the print has enough pictures; the feature is    *)
(*           switched and the printer removed                                *)
(*   crash   prompt, with a restart and a failure; nothing is deleted        *)
EXTENDS Timelapse

VARIABLE part

MCInit == Init /\ part \in {"orders", "calm", "crash"}

Prompt ==
    /\ printing' # printing => events = {}
    /\ snaps' \subseteq snaps \/ events = {} \/ session.count + 1 < MinFrames

MCNext ==
    /\ Next /\ UNCHANGED part
    /\ part = "calm" /\ printing' # printing => events' # {}
    /\ IF part = "orders" THEN Cardinality(events') <= 2 ELSE Prompt
    /\ part # "calm" => UNCHANGED settings
    /\ IF part = "crash" THEN \A f \in Folders : videos'[f].at # "deleted"
       ELSE failures' = 0 /\ restarts' = 0

MCSpec == MCInit /\ [][MCNext]_<<vars, part>> /\ Fairness

(* timelapse.go:186-229, 276-363 and 420-470: the folder of a recording is   *)
(* left alone, and a video shows one print where events are prompt and       *)
(* nothing fails.                                                            *)
RecordingsAreRight ==
    /\ RecordingIsWhole
    /\ part = "calm" => VideosShowOnePrint

(* build.go:119-183, library.go:81-134: enough pictures for a video go only  *)
(* when it is in the list. In the parts where nothing restarts or fails, a   *)
(* deleted video stays deleted; in the part with a restart and a failure no  *)
(* video is deleted.                                                         *)
FilmsAreKept ==
    [][/\ PicturesGoWhenListed
       /\ part # "crash" => DeletedStaysDeleted]_vars
=============================================================================
