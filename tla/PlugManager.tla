---------------------------- MODULE PlugManager ----------------------------
(***************************************************************************)
(* The smart plug of one printer (plug/manager.go): the pollers that read   *)
(* it, the automatic off after a print, Set (the hand switch) and           *)
(* PrintEnergy, which the history senders call when a print ended.  Every   *)
(* one of them works on the entry under mu in several critical sections,    *)
(* with a request to the plug or a look at the printer in between.          *)
(*                                                                         *)
(* The printer's status is what the Bridge last stored of it, which lags    *)
(* behind the machine and is unknown while the link is down.  What a plug   *)
(* measures is left out: of PrintEnergy the model keeps that it closes a    *)
(* print the poller has not yet seen end.                                   *)
(***************************************************************************)
EXTENDS Naturals, FiniteSets

CONSTANTS Loops,      \* polls under way at once: the loop, and a stopped one's last
          Hands,      \* calls of Set
          Cfgs,       \* plug settings: [addr, auto]
          NoCfg,      \* a printer without a plug
          MaxPrints,  \* bound: prints of the machine
          MaxSyncs,   \* bound: changes of the settings
          StoreFirst, \* a report is stored before its session is updated (package lan)
          SlowLook,   \* another poll may land between a look at the printer and its use
          SlowRecord    \* a poll may land while PrintEnergy reads the plug

ASSUME PlugAssumption ==
    /\ IsFiniteSet(Loops) /\ IsFiniteSet(Hands)
    /\ MaxPrints \in Nat /\ MaxSyncs \in Nat
    /\ StoreFirst \in BOOLEAN /\ SlowLook \in BOOLEAN /\ SlowRecord \in BOOLEAN

Prints == 1 .. MaxPrints
Takers == Prints             \* the goroutine that records print k calls PrintEnergy
Polls  == Loops \union Hands

VARIABLES
    phase, power, link,      \* the machine (2k-1: in print k, 2k: after it), its supply, its connection
    shown,                   \* what the Bridge last stored of the printer
    half,                    \* the report of which one half is done, if any
    sess,                    \* the print of the running session, 0 for none
    toTake,                  \* prints whose record is about to be written
    entry,                   \* the manager's entry, cfg = NoCfg without a plug
    proc,                    \* Polls -> where a poll or a Set is
    taking,                  \* Takers -> the reading PrintEnergy waits for, if any
    seen,                    \* the print the last applied look showed, 0 for none
    cuts,                    \* automatic offs so far
    syncs

machine == <<phase, power, link>>
reports == <<shown, half, sess, toTake>>
ghosts  == <<seen, cuts>>
vars == <<machine, reports, entry, proc, taking, ghosts, syncs>>

-----------------------------------------------------------------------------
(* The machine and what the Bridge stores of it. *)

Job == IF phase % 2 = 1 THEN (phase + 1) \div 2 ELSE 0
AfterOff == IF Job # 0 THEN phase + 1 ELSE phase   \* a print dies with the power

\* The status source of wirePlugs: unknown unless a report is stored.
Status == [ok |-> shown.known, busy |-> shown.known /\ shown.job # 0,
           hot |-> shown.known /\ shown.hot, job |-> IF shown.known THEN shown.job ELSE 0]

Fresh(c, id) == [id |-> id, cfg |-> c, on |-> FALSE, read |-> FALSE, reachable |-> FALSE,
                 inPrint |-> FALSE, known |-> FALSE, fresh |-> FALSE, lastHot |-> FALSE, pending |-> "no"]
HasEntry == entry.cfg # NoCfg
AtRest   == [pc |-> "idle"]
Quiet    == toTake = {} /\ (\A p \in Polls : proc[p] = AtRest) /\ \A k \in Takers : taking[k] = {}

Init ==
    /\ phase = 0 /\ power = TRUE /\ link = TRUE
    /\ shown = [known |-> FALSE, job |-> 0, hot |-> FALSE]
    /\ half = {} /\ sess = 0 /\ toTake = {}
    /\ \E c \in Cfgs : entry = Fresh(c, 0)
    /\ proc = [p \in Polls |-> AtRest]
    /\ taking = [k \in Takers |-> {}]
    /\ seen = 0 /\ cuts = 0 /\ syncs = 0

Machine ==
    /\ \/ /\ power /\ Job = 0 /\ phase < 2 * MaxPrints     \* a print starts
          /\ phase' = phase + 1
          /\ UNCHANGED <<power, link, shown>>
       \/ /\ Job # 0                                       \* and ends
          /\ phase' = phase + 1
          /\ UNCHANGED <<power, link, shown>>
       \/ /\ power' = ~power                               \* the plug's own button
          /\ phase' = IF power THEN AfterOff ELSE phase
          /\ UNCHANGED <<link, shown>>
       \/ /\ ~link /\ power /\ link' = TRUE
          /\ UNCHANGED <<phase, power, shown>>
       \/ /\ link /\ half = {} /\ link' = FALSE          \* the link goes down
          /\ shown' = [shown EXCEPT !.known = FALSE]
          /\ UNCHANGED <<phase, power>>
    /\ UNCHANGED <<half, sess, toTake, entry, proc, taking, ghosts, syncs>>

\* What a report does to the session: see LanSession and BambuSession.  A print
\* found in the place of another is recorded by package lan alone.  Two ends
\* are further apart than a request to the plug.
SessionStep(j) ==
    /\ sess' = j
    /\ IF sess \notin {0, j} /\ (j = 0 \/ StoreFirst)
       THEN toTake' = {sess} /\ toTake = {} /\ \A k \in Takers : taking[k] = {}
       ELSE UNCHANGED toTake

\* A report of an idle printer without a nozzle reading tells nothing.
Reports == {[known |-> k, job |-> Job, hot |-> h] : k \in {TRUE, Job # 0}, h \in BOOLEAN}

ReportArrives ==
    /\ link /\ power /\ half = {}
    /\ \E r \in Reports :
         /\ half' = {r}
         /\ IF StoreFirst THEN shown' = r /\ UNCHANGED <<sess, toTake>>
                          ELSE SessionStep(Job) /\ UNCHANGED shown
    /\ UNCHANGED <<machine, entry, proc, taking, ghosts, syncs>>

ReportEnds ==
    /\ half' = {}
    /\ \E r \in half : IF StoreFirst THEN SessionStep(r.job) /\ UNCHANGED shown
                                     ELSE shown' = r /\ UNCHANGED <<sess, toTake>>
    /\ UNCHANGED <<machine, entry, proc, taking, ghosts, syncs>>

-----------------------------------------------------------------------------
(* The entry: operators on it, and time. *)

ApplyReading(e, r) ==
    [e EXCEPT !.pending = IF e.read /\ ~e.on /\ r.on THEN "no" ELSE @,
              !.on = r.on, !.reachable = TRUE, !.read = TRUE]

BeginPrint(e) == [e EXCEPT !.inPrint = TRUE, !.pending = "no"]

EndPrint(e) == [e EXCEPT !.inPrint = FALSE, !.pending = "wait"]

\* A look at the printer, applied.
Looked(e, s) ==
    LET k == [e EXCEPT !.known = TRUE, !.fresh = TRUE, !.lastHot = s.hot]
    IN  IF ~s.ok THEN e
        ELSE IF s.busy /\ ~e.inPrint THEN BeginPrint(k)
        ELSE IF ~s.busy /\ e.inPrint THEN EndPrint(k)
        ELSE k

\* The wait is over: the delay has passed and the nozzle is cool.
Due(e, s) == s.ok /\ e.cfg.auto /\ e.pending = "due" /\ ~s.busy /\ ~s.hot

\* Plausible slips: the wait goes on when the plug is switched off, or when
\* there is nothing to switch off.
WaitingOn(e, s) ==
    IF s.ok /\ e.cfg.auto /\ s.busy THEN [e EXCEPT !.pending = "no"] ELSE e
WaitingForPlug(e, s) ==
    IF s.ok /\ e.cfg.auto /\ (s.busy \/ (Due(e, s) /\ e.on /\ e.reachable))
    THEN [e EXCEPT !.pending = "no"] ELSE e

\* What becomes of the wait in the poll that looked.
Waiting(e, s) ==
    IF s.ok /\ e.cfg.auto /\ e.pending # "no" /\ (s.busy \/ Due(e, s))
    THEN [e EXCEPT !.pending = "no"] ELSE e

\* The delay passes, minutes after the wait began: whatever was under way then
\* (requests of five to eight seconds) is over.  Bound: it passes while nothing
\* is under way.
DelayPasses ==
    /\ HasEntry /\ entry.pending = "wait" /\ Quiet
    /\ entry' = [entry EXCEPT !.pending = "due"]
    /\ UNCHANGED <<machine, reports, proc, taking, ghosts, syncs>>

\* The remembered state gets older than staleState.
StateAges ==
    /\ HasEntry /\ entry.fresh
    /\ entry' = [entry EXCEPT !.fresh = FALSE]
    /\ UNCHANGED <<machine, reports, proc, taking, ghosts, syncs>>

Sync(c) ==
    /\ syncs < MaxSyncs /\ syncs' = syncs + 1
    /\ IF HasEntry THEN entry.cfg # c ELSE c # NoCfg
    /\ entry' = IF c = NoCfg THEN Fresh(NoCfg, 0)
                ELSE IF HasEntry /\ entry.cfg.addr = c.addr THEN [entry EXCEPT !.cfg = c]
                ELSE Fresh(c, syncs')
    /\ UNCHANGED <<machine, reports, proc, taking, ghosts>>

-----------------------------------------------------------------------------
(* poll: read the plug, look at the printer, apply, switch off. *)

Readings == {[ok |-> TRUE, on |-> power], [ok |-> FALSE, on |-> FALSE]}

Goes(p, rec) == proc' = [proc EXCEPT ![p] = rec]
Keeps == UNCHANGED <<machine, reports, taking, syncs>>

PollReads(p) ==
    /\ proc[p].pc = IF p \in Loops THEN "idle" ELSE "poll"
    /\ IF HasEntry THEN \E r \in Readings : Goes(p, [pc |-> "look", cfg |-> entry.cfg, r |-> r])
                   ELSE p \in Hands /\ Goes(p, AtRest)
    /\ UNCHANGED <<entry, ghosts>> /\ Keeps

PollLooks(p) ==
    /\ proc[p].pc = "look"
    /\ SlowLook \/ \A q \in Polls : proc[q].pc # "apply"
    /\ Goes(p, [pc |-> "apply", cfg |-> proc[p].cfg, r |-> proc[p].r, s |-> Status])
    /\ UNCHANGED <<entry, ghosts>> /\ Keeps

PollApplies(p) ==
    LET w == proc[p]
        e == Looked(IF w.r.ok THEN ApplyReading(entry, w.r) ELSE [entry EXCEPT !.reachable = FALSE], w.s)
    IN  /\ w.pc = "apply"
        /\ SlowRecord \/ (half = {} /\ toTake = {} /\ \A k \in Takers : taking[k] = {})
        /\ IF HasEntry /\ entry.cfg = w.cfg
           THEN /\ entry' = Waiting(e, w.s)
                /\ seen' = IF w.s.ok THEN w.s.job ELSE seen
                /\ Goes(p, IF Due(e, w.s) /\ e.on /\ e.reachable
                           THEN [pc |-> "recheck", cfg |-> w.cfg, id |-> e.id] ELSE AtRest)
           ELSE Goes(p, AtRest) /\ UNCHANGED <<entry, seen>>
        /\ UNCHANGED cuts /\ Keeps

\* A plausible slip: a print another poll saw meanwhile is not looked at.
PollRechecksSettings(p) ==
    LET w == proc[p]
    IN  /\ w.pc = "recheck"
        /\ Goes(p, IF HasEntry /\ entry.id = w.id /\ entry.cfg = w.cfg THEN [pc |-> "ask"] ELSE AtRest)
        /\ UNCHANGED <<entry, ghosts>> /\ Keeps

\* The lock was released since the decision.
PollRechecks(p) ==
    LET w == proc[p]
    IN  /\ w.pc = "recheck"
        /\ Goes(p, IF HasEntry /\ entry.id = w.id /\ entry.cfg = w.cfg /\ ~entry.inPrint
                   THEN [pc |-> "ask"] ELSE AtRest)
        /\ UNCHANGED <<entry, ghosts>> /\ Keeps

PollAsks(p) ==
    /\ proc[p].pc = "ask"
    /\ Goes(p, IF Status.ok /\ Status.busy THEN AtRest ELSE [pc |-> "cut"])
    /\ UNCHANGED <<entry, ghosts>> /\ Keeps

PollCuts(p) ==
    /\ proc[p].pc = "cut"
    /\ \/ /\ power' = FALSE /\ phase' = AfterOff /\ cuts' = cuts + 1
          /\ Goes(p, [pc |-> "note"])
       \/ /\ Goes(p, AtRest)                               \* the plug did not answer
          /\ UNCHANGED <<power, phase, cuts>>
    /\ UNCHANGED <<link, reports, entry, taking, seen, syncs>>

PollNotes(p) ==
    /\ proc[p].pc = "note"
    /\ entry' = IF HasEntry THEN [entry EXCEPT !.on = FALSE] ELSE entry
    /\ Goes(p, AtRest)
    /\ UNCHANGED ghosts /\ Keeps

-----------------------------------------------------------------------------
(* Set: the hand switch. *)

SetBegins(h, on) ==
    /\ proc[h].pc = "idle" /\ HasEntry
    /\ Goes(h, [pc |-> IF on THEN "switch" ELSE "check", on |-> on])
    /\ UNCHANGED <<entry, ghosts>> /\ Keeps

\* What Set goes by: the status, or the last one a poll saw if it is not stale.
OffState ==
    IF Status.ok THEN Status
    ELSE IF HasEntry /\ entry.known /\ entry.fresh
    THEN [ok |-> TRUE, busy |-> entry.inPrint, hot |-> entry.lastHot, job |-> 0]
    ELSE Status

SetChecks(h) ==
    /\ proc[h].pc = "check"
    /\ Goes(h, IF OffState.ok /\ ~OffState.busy /\ ~OffState.hot
               THEN [pc |-> "switch", on |-> FALSE] ELSE AtRest)
    /\ UNCHANGED <<entry, ghosts>> /\ Keeps

SetSwitches(h) ==
    /\ proc[h].pc = "switch"
    /\ \/ /\ power' = proc[h].on
          /\ phase' = IF proc[h].on THEN phase ELSE AfterOff
          /\ Goes(h, [pc |-> "set", on |-> proc[h].on])
       \/ Goes(h, AtRest) /\ UNCHANGED <<power, phase>>
    /\ UNCHANGED <<link, reports, entry, taking, ghosts, syncs>>

SetNotes(h) ==
    /\ proc[h].pc = "set"
    /\ entry' = IF HasEntry THEN [entry EXCEPT !.on = proc[h].on, !.reachable = TRUE, !.pending = "no"] ELSE entry
    /\ Goes(h, [pc |-> "poll"])
    /\ UNCHANGED ghosts /\ Keeps

-----------------------------------------------------------------------------
(* PrintEnergy, called once by the goroutine that records print k. *)

\* With a print still counted it reads the plug first: taking[k] holds what the
\* reading may be.
TakeBegins(k) ==
    /\ k \in toTake
    /\ toTake' = toTake \ {k}
    /\ taking' = IF HasEntry /\ entry.inPrint
                 THEN [taking EXCEPT ![k] = {[id |-> entry.id, r |-> r] : r \in Readings}] ELSE taking
    /\ UNCHANGED <<machine, shown, half, sess, entry, proc, ghosts, syncs>>

\* The reading is applied if there is one; endPrint runs whatever polls did
\* meanwhile.
TakeEnds(k) ==
    /\ taking' = [taking EXCEPT ![k] = {}]
    /\ \E w \in taking[k] :
         entry' = IF HasEntry /\ entry.id = w.id
                  THEN EndPrint(IF w.r.ok THEN ApplyReading(entry, w.r) ELSE entry) ELSE entry
    /\ UNCHANGED <<machine, reports, proc, ghosts, syncs>>

Next ==
    \/ Machine \/ ReportArrives \/ ReportEnds
    \/ DelayPasses \/ StateAges
    \/ \E c \in Cfgs \union {NoCfg} : Sync(c)
    \/ \E p \in Polls : \/ PollReads(p) \/ PollLooks(p) \/ PollApplies(p) \/ PollRechecks(p)
                        \/ PollAsks(p) \/ PollCuts(p) \/ PollNotes(p)
    \/ \E h \in Hands : SetBegins(h, TRUE) \/ SetBegins(h, FALSE) \/ SetChecks(h) \/ SetSwitches(h) \/ SetNotes(h)
    \/ \E k \in Takers : TakeBegins(k) \/ TakeEnds(k)

Spec == Init /\ [][Next]_vars

\* The pollers tick, a report comes now and then, a request ends.
FairSpec ==
    /\ Spec
    /\ SF_vars(DelayPasses) /\ WF_vars(ReportEnds)
    /\ \A p \in Polls : /\ WF_vars(PollReads(p)) /\ WF_vars(PollLooks(p)) /\ SF_vars(PollApplies(p))
                       /\ WF_vars(PollRechecks(p) \/ PollAsks(p) \/ PollCuts(p) \/ PollNotes(p))
    /\ \A h \in Hands : WF_vars(SetChecks(h) \/ SetSwitches(h) \/ SetNotes(h))
    /\ \A k \in Takers : WF_vars(TakeBegins(k)) /\ WF_vars(TakeEnds(k))

-----------------------------------------------------------------------------
\* Variables keep their types; while a print runs no auto off waits.
TypeOK ==
    /\ phase \in 0 .. 2 * MaxPrints /\ {power, link} \subseteq BOOLEAN
    /\ sess \in 0 .. MaxPrints /\ toTake \subseteq Prints
    /\ entry.cfg \in Cfgs \union {NoCfg} /\ entry.pending \in {"no", "wait", "due"}
    /\ entry.inPrint => entry.pending = "no"

\* Neither the second look of the automatic off nor the check of a hand switch
\* passes over a print that a poll has seen running.
SeenRuns == Job # 0 /\ seen = Job
SparesSeenPrint ==
    \A p \in Polls :
        (\/ proc[p].pc = "recheck" /\ proc'[p].pc = "ask"
         \/ proc[p].pc = "check" /\ proc'[p].pc = "switch") => ~SeenRuns

AutoOffOnce == cuts <= (phase + 1) \div 2

\* plug/manager.go:296-332 and 168-192: a print that a poll has seen running
\* keeps its power while it runs, whichever poll, hand switch or PrintEnergy
\* came in between and even when the link is down; and a print is followed by
\* at most one automatic off, however often the plug is switched on again by
\* hand or by its button (311-314).
CutsAreRight == [][SparesSeenPrint /\ AutoOffOnce']_vars

\* plug/manager.go:310-315: when the printer stays idle, cool and reachable and
\* the plug keeps its settings, the wait for auto off ends: it is not left to
\* cut the plug when someone switches it on long after the print.
CalmPrinter == shown.known /\ shown.job = 0 /\ ~shown.hot /\ HasEntry /\ entry.cfg.auto
WaitEnds == <>[]CalmPrinter => []<>(entry.pending = "no")

\* CHANGELOG.md:101-103: auto off is refused whenever the printer's state is
\* unknown.
UnknownStaysOn ==
    [][\A p \in Polls : proc[p].pc = "ask" /\ proc'[p].pc = "cut" => Status.ok]_vars
=============================================================================
