------------------------------- MODULE MCRelay -------------------------------
(* What leaves the Bridge for FoxTrack and Home Assistant, in parts a        *)
(* behaviour picks from:                                                     *)
(*   delivery  SendRelay and its retries, for one printer                    *)
(*   http      queueRelay, which puts an HTTP printer's snapshots in order   *)
(*   bambu     the turns, which do the same for a Bambu printer              *)
(*   history   SendHistory and its retries, and the relay's health           *)
(*   export    the retained configs of the MQTT export                       *)
EXTENDS RelayDelivery, RelayQueue, RelayTurns, HistoryRetry, HomeAssistant

VARIABLE part

MCInit ==
    /\ part \in {"delivery", "http", "bambu", "history", "export"}
    /\ Init /\ QueueInit /\ TurnsInit /\ HistoryInit /\ ExportInit
    /\ part # "export" => printers = Empty

DeliveryStep ==
    /\ part = "delivery" /\ Next
    /\ UNCHANGED <<part, queueVars, turnVars, historyVars, exportVars>>
HttpStep ==
    /\ part = "http" /\ QueueNext
    /\ UNCHANGED <<part, vars, turnVars, historyVars, exportVars>>
BambuStep ==
    /\ part = "bambu" /\ TurnsNext
    /\ UNCHANGED <<part, vars, queueVars, historyVars, exportVars>>
HistoryStep ==
    /\ part = "history" /\ HistoryNext
    /\ UNCHANGED <<part, vars, queueVars, turnVars, exportVars>>
ExportStep ==
    /\ part = "export" /\ ExportNext
    /\ UNCHANGED <<part, vars, queueVars, turnVars, historyVars>>

(* The fairness of each module, asked for its own part where its actions are *)
(* enabled at the start.                                                     *)
MCSpec ==
    /\ MCInit
    /\ [][DeliveryStep \/ HttpStep \/ BambuStep \/ HistoryStep \/ ExportStep]_<<
            part, vars, queueVars, turnVars, historyVars, exportVars>>
    /\ Fairness
    /\ WF_queueVars(Worker)
    /\ \A p \in Posts : WF_turnVars(Goroutine(p))
    /\ \A h \in HistoryPosts : WF_historyVars(Progress(h))
    /\ \A q \in Requests : /\ WF_historyVars(part = "history" /\ Ask(q))
                           /\ WF_historyVars(Hear(q))
    /\ WF_exportVars(Session) /\ WF_exportVars(ApplyExport)

(* No call and no turn of a printer's posts waits for ever.                  *)
PostsEnd == EveryCallEnds /\ EveryTurnEnds

(* RetriesSettle, and WaitingIsCounted all the while.                        *)
HistorySettles == RetriesSettle /\ []WaitingIsCounted
=============================================================================
