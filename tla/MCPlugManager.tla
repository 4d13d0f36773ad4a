--------------------------- MODULE MCPlugManager ---------------------------
(* What follows a print: PlugManager with one printer, SpoolBooking and      *)
(* Maintenance, in parts a behaviour picks from:                             *)
(*   "pollers": two polls at once over two prints;                           *)
(*   "hand":    the poller and the hand switch, one print;                   *)
(*   "wait":    one poller and a change of the plug's settings, one print,   *)
(*              everything being scheduled;                                  *)
(*   "book":    SpoolBooking;                                                *)
(*   "steady":  Maintenance, with one check at a time, no mishap, and no     *)
(*              task brought back;                                           *)
(*   "mishaps": Maintenance, with one check at a time, a restart or a file   *)
(*              that cannot be read or written, and no task deleted.         *)
EXTENDS PlugManager, SpoolBooking, Maintenance

CONSTANTS l1, l2, h1, s1, s2, u1, u2

MCCfgs == {[addr |-> "a", auto |-> TRUE], [addr |-> "a", auto |-> FALSE], [addr |-> "b", auto |-> TRUE]}
AutoOff == [addr |-> "a", auto |-> TRUE]

VARIABLE part

Service == {"steady", "mishaps"}

MCInit ==
    /\ Init /\ SpoolInit /\ MaintenanceInit
    /\ part \in {"pollers", "hand", "wait", "book"} \cup Service
    /\ part # "wait" => entry.cfg = AutoOff

PlugPart ==
    /\ Next /\ UNCHANGED <<spoolVars, maintenanceVars>>
    /\ part # "hand" => proc'[h1] = AtRest /\ (entry.fresh => entry'.fresh)
    /\ part = "hand" => (power' # power => proc' # proc)  \* no button on the plug
    /\ part = "pollers" => \A r \in half' : ~r.hot       \* a cool nozzle
    /\ part # "wait" => syncs' = 0
    /\ part # "pollers" => proc'[l2] = AtRest /\ phase' <= 2

ServicePart ==
    /\ MaintenanceNext /\ UNCHANGED <<vars, spoolVars>>
    /\ appended' # appended => checks = {}
    /\ part = "steady" => /\ mishaps' = 0
                          /\ \A t \in Tasks : tasks'[t] \in {tasks[t], None, now'}
    /\ part = "mishaps" => deleted' = Nothing

MCNext ==
    /\ UNCHANGED part
    /\ \/ part \in {"pollers", "hand", "wait"} /\ PlugPart
       \/ part = "book" /\ SpoolNext /\ UNCHANGED <<vars, maintenanceVars>>
       \/ part \in Service /\ ServicePart

allVars == <<vars, spoolVars, maintenanceVars, part>>

\* PlugManager's fairness, in part "wait".
MCSpec ==
    /\ MCInit /\ [][MCNext]_allVars
    /\ SF_vars(part = "wait" /\ DelayPasses) /\ WF_vars(part = "wait" /\ ReportEnds)
    /\ WF_vars(part = "wait" /\ PollReads(l1)) /\ WF_vars(part = "wait" /\ PollLooks(l1))
    /\ SF_vars(part = "wait" /\ PollApplies(l1))
    /\ WF_vars(part = "wait" /\ (PollRechecks(l1) \/ PollAsks(l1) \/ PollCuts(l1) \/ PollNotes(l1)))
    /\ \A k \in Takers : /\ WF_vars(part = "wait" /\ TakeBegins(k))
                         /\ WF_vars(part = "wait" /\ TakeEnds(k))

\* A part of its own, with nothing ruled out.
OneSpec ==
    /\ Init /\ SpoolInit /\ MaintenanceInit /\ part = "one"
    /\ [][Next /\ UNCHANGED <<spoolVars, maintenanceVars, part>>]_allVars

MCAuto == {AutoOff}

\* plug/manager.go:310-315: when the printer stays idle, cool and reachable
\* and the plug keeps its settings, the wait for auto off ends: it is not left
\* to cut the plug when someone switches it on long after the print.
WaitEndsIfScheduled == part = "wait" => WaitEnds

\* maintenance/maintenance.go:168-204: with one check at a time, a task that
\* came due is announced once for each time it was done, also over a restart
\* as long as no record of the history is lost and no two mishaps meet, as a
\* file that was not written and a restart do; and it has been announced when
\* the check of the record that made it due has ended, if nothing failed.
RemindersAreRight ==
    /\ part = "mishaps" /\ NoRecordLost /\ mishaps <= 1 => AnnouncedOnce
    /\ part = "steady" => DueIsAnnounced
=============================================================================
