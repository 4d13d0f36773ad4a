----------------------------- MODULE StatusFeed -----------------------------
(***************************************************************************)
(* What a printer's status feed to FoxTrack promises, for the HTTP         *)
(* printers (lan.Controller.queueRelay) and the Bambu printers (the turns  *)
(* of mqtt.makeHandler) alike. A snapshot of the printer replaces the ones *)
(* before it, so one may be left out when a newer one goes out; posts      *)
(* never overlap, never go back, and the newest snapshot always goes out.  *)
(***************************************************************************)
EXTENDS Naturals

VARIABLES
    handed,  \* snapshots handed over so far, numbered in order
    begun,   \* the newest one whose post has begun, or that is not wanted any more
    busy     \* the one being posted, 0 if none

feedVars == <<handed, begun, busy>>

Init == handed = 0 /\ begun = 0 /\ busy = 0

HandOver == handed' = handed + 1 /\ UNCHANGED <<begun, busy>>

(* A snapshot whose post begins at once.                                     *)
HandOverAndBegin ==
    /\ busy = 0
    /\ handed' = handed + 1 /\ begun' = handed' /\ busy' = handed'

Begin ==
    /\ busy = 0
    /\ \E s \in begun + 1 .. handed : begun' = s /\ busy' = s
    /\ UNCHANGED handed

End == busy # 0 /\ busy' = 0 /\ UNCHANGED <<handed, begun>>

(* The printer is removed: what was handed over is not wanted any more.      *)
Forget == begun' = handed /\ UNCHANGED <<handed, busy>>

Next == HandOver \/ HandOverAndBegin \/ Begin \/ End \/ Forget

Spec == Init /\ [][Next]_feedVars /\ WF_feedVars(Begin) /\ WF_feedVars(End)
=============================================================================
