----------------------------- MODULE LanSession -----------------------------
(***************************************************************************)
(* The print sessions of an HTTP printer (Klipper, PrusaLink, OctoPrint,   *)
(* Home Assistant): lan.Controller's poll loops, its bookkeeping under     *)
(* three locks, and the server's handlers that restart, rename and remove  *)
(* the printer while a poll is under way.                                  *)
(*                                                                         *)
(* One machine prints the jobs 1, 2, ... in turn; a job stands for its     *)
(* file, so two jobs have different file names. A poll loop is named by    *)
(* the order it was started in; it is stopped exactly when it is no longer *)
(* its printer's registered one, since the lock that replaces a canceler   *)
(* closes the old one.                                                     *)
(***************************************************************************)
EXTENDS Integers, Sequences, FiniteSets

CONSTANTS
    Names,      \* printer names
    First,      \* the name the printer has at startup
    PollGrace,  \* failed polls after the first that make up pollGrace
    MaxJobs,    \* bound: prints the machine runs
    MaxLoops,   \* bound: poll loops started
    MaxOutages  \* bound: times the machine becomes unreachable

ASSUME LanAssumption ==
    /\ First \in Names
    /\ PollGrace \in Nat
    /\ MaxJobs \in Nat /\ MaxLoops \in Nat \ {0} /\ MaxOutages \in Nat

VARIABLES
    machine,   \* the printer: its job, its status, and whether it is reachable
    noticed,   \* a poll saw the machine's last print end, or failed since
    outages,   \* outages so far
    loop,      \* the poll loops: name, place in the loop, telemetry read
    started,   \* poll loops started so far
    current,   \* Controller.cancelers: the registered loop of a name, 0 if none
    states,    \* Controller.states: the status shown, "none" when absent
    session,   \* Controller.sessions
    todo,      \* Controller calls the running handler has still to make
    history    \* records handed to recordEnd, in order

vars == <<machine, noticed, outages, loop, started, current, states, session,
          todo, history>>

Jobs       == 1 .. MaxJobs
InPrint    == {"printing", "paused"}
Over       == {"idle", "finished", "error"}
NoSession  == [job |-> 0, lost |-> 0]
Telemetry  == [status : InPrint \cup Over \cup {"disconnected"}, job : 0 .. MaxJobs]
Places     == {"resting", "fetching", "fetched", "stored", "stopped"}
Loops      == 1 .. MaxLoops
Started    == 1 .. started
Calls      == [call : {"RenamePrinter"}, from : Names, to : Names]
                \cup [call : {"Unregister", "Forget", "AddOrUpdate"}, name : Names]

TypeOK ==
    /\ machine \in [job : 0 .. MaxJobs, status : InPrint \cup Over, up : BOOLEAN]
    /\ noticed \in BOOLEAN
    /\ outages \in 0 .. MaxOutages
    /\ started \in Loops
    /\ loop \in [Loops -> [name : Names, at : Places, tel : Telemetry]]
    /\ current \in [Names -> 0 .. MaxLoops]
    /\ states \in [Names -> InPrint \cup Over \cup {"disconnected", "none"}]
    /\ session \in [Names -> [job : 0 .. MaxJobs, lost : 0 .. PollGrace]]
    /\ todo \in Seq(Calls)
    /\ history \in Seq([name : Names, job : Jobs,
                        result : {"finished", "error", "cancelled"},
                        cause : {"seen", "replaced", "lost"}])

NewLoop(n) == [name |-> n, at |-> "fetching", tel |-> [status |-> "idle", job |-> 0]]

Init ==
    /\ machine = [job |-> 0, status |-> "idle", up |-> TRUE]
    /\ noticed = TRUE
    /\ outages = 0
    /\ started = 1
    /\ loop = [l \in Loops |-> NewLoop(First)]
    /\ current = [n \in Names |-> IF n = First THEN 1 ELSE 0]
    /\ states = [n \in Names |-> "none"]
    /\ session = [n \in Names |-> NoSession]
    /\ todo = <<>>
    /\ history = <<>>

-----------------------------------------------------------------------------
(* The machine. Polls are seconds apart and prints are not: between one      *)
(* print and the next there is a poll, which sees the end or fails. As a     *)
(* handler's calls take no such time, a poll that comes between two of them  *)
(* is not the only one.                                                      *)
StartPrint ==
    /\ machine.status \in Over /\ machine.job < MaxJobs
    /\ noticed
    /\ machine' = [machine EXCEPT !.job = @ + 1, !.status = "printing"]
    /\ UNCHANGED noticed

PauseOrResume ==
    /\ machine.status \in InPrint
    /\ machine' = [machine EXCEPT !.status =
                      IF @ = "printing" THEN "paused" ELSE "printing"]
    /\ UNCHANGED noticed

EndPrint ==
    /\ machine.status \in InPrint
    /\ \E s \in Over : machine' = [machine EXCEPT !.status = s]
    /\ noticed' = FALSE

LoseReach ==
    /\ machine.up /\ outages < MaxOutages
    /\ machine' = [machine EXCEPT !.up = FALSE]
    /\ outages' = outages + 1
    /\ UNCHANGED noticed

RegainReach ==
    /\ ~machine.up
    /\ machine' = [machine EXCEPT !.up = TRUE]
    /\ UNCHANGED <<noticed, outages>>

Machine ==
    /\ \/ (StartPrint \/ PauseOrResume \/ EndPrint) /\ UNCHANGED outages
       \/ LoseReach
       \/ RegainReach
    /\ UNCHANGED <<loop, started, current, states, session, todo, history>>

-----------------------------------------------------------------------------
(* pollLoop: the timer fires. Handlers make their calls within the two       *)
(* seconds a poll waits at least.                                            *)
Wake(l) ==
    /\ loop[l].at = "resting"
    /\ todo = <<>>
    /\ loop' = [loop EXCEPT ![l].at = IF current[loop[l].name] = l
                                      THEN "fetching" ELSE "stopped"]
    /\ UNCHANGED <<machine, noticed, outages, started, current, states,
                   session, todo, history>>

(* fetchTelemetry: the printer answers, or the poll fails.                   *)
Fetch(l) ==
    /\ loop[l].at = "fetching"
    /\ loop' = [loop EXCEPT ![l].at = "fetched",
                            ![l].tel = [status |-> IF machine.up THEN machine.status
                                                                 ELSE "disconnected",
                                        job |-> machine.job]]
    /\ UNCHANGED <<machine, noticed, outages, started, current, states,
                   session, todo, history>>

(* Mutant of storeState: a poll of a stopped loop is stored like any other.  *)
StoreUnchecked(l) ==
    /\ loop[l].at = "fetched"
    /\ loop' = [loop EXCEPT ![l].at = "stored"]
    /\ states' = [states EXCEPT ![loop[l].name] = loop[l].tel.status]
    /\ UNCHANGED <<machine, noticed, outages, started, current, session, todo,
                   history>>

(* storeState: nothing is stored once another loop, or none, is registered.  *)
StoreState(l) ==
    /\ loop[l].at = "fetched"
    /\ IF current[loop[l].name] = l
       THEN /\ loop' = [loop EXCEPT ![l].at = "stored"]
            /\ states' = [states EXCEPT ![loop[l].name] = loop[l].tel.status]
       ELSE /\ loop' = [loop EXCEPT ![l].at = "stopped"]
            /\ UNCHANGED states
    /\ UNCHANGED <<machine, noticed, outages, started, current, session, todo,
                   history>>

(* updateSession, one definition for each way it goes. Sess is the session   *)
(* it finds, Tel the telemetry of the poll.                                  *)
Sess(l) == session[loop[l].name]
Tel(l)  == loop[l].tel

Keep(l, sess) == session' = [session EXCEPT ![loop[l].name] = sess]
Record(l, result, cause) ==
    history' = Append(history, [name |-> loop[l].name, job |-> Sess(l).job,
                                result |-> result, cause |-> cause])
NoRecord == UNCHANGED history

(* The poll failed: a session outlives failed polls for pollGrace.           *)
PollFailed(l) ==
    /\ Tel(l).status = "disconnected"
    /\ \/ /\ Sess(l) = NoSession
          /\ UNCHANGED session /\ NoRecord
       \/ /\ Sess(l) # NoSession /\ Sess(l).lost < PollGrace
          /\ Keep(l, [Sess(l) EXCEPT !.lost = @ + 1]) /\ NoRecord
       \/ /\ Sess(l) # NoSession /\ Sess(l).lost = PollGrace
          /\ Keep(l, NoSession) /\ Record(l, "cancelled", "lost")

(* Mutant: another file after an outage is not looked for.                   *)
NeverAnother(l) == FALSE

(* After an outage the machine prints another file than the session's.       *)
AnotherFile(l) ==
    /\ Sess(l) # NoSession /\ Sess(l).lost > 0
    /\ Tel(l).status = "printing" /\ Tel(l).job # Sess(l).job

Replaced(l) ==
    /\ AnotherFile(l)
    /\ Keep(l, [job |-> Tel(l).job, lost |-> 0])
    /\ Record(l, "cancelled", "replaced")

NoSessionYet(l) ==
    /\ Tel(l).status # "disconnected" /\ Sess(l) = NoSession
    /\ Keep(l, IF Tel(l).status = "printing" THEN [job |-> Tel(l).job, lost |-> 0]
                                             ELSE NoSession)
    /\ NoRecord

Ongoing(l) ==
    /\ Tel(l).status \in InPrint
    /\ Sess(l) # NoSession /\ ~AnotherFile(l)
    /\ Keep(l, [Sess(l) EXCEPT !.lost = 0])
    /\ NoRecord

ResultOf(status) == IF status \in {"finished", "error"} THEN status ELSE "cancelled"

(* Mutant: only a finished print is recorded.                                *)
PrintOverFinishedOnly(l) ==
    /\ Tel(l).status \in Over /\ Sess(l) # NoSession
    /\ Keep(l, NoSession)
    /\ IF Tel(l).status = "finished" THEN Record(l, "finished", "seen") ELSE NoRecord

PrintOver(l) ==
    /\ Tel(l).status \in Over /\ Sess(l) # NoSession
    /\ Keep(l, NoSession)
    /\ Record(l, ResultOf(Tel(l).status), "seen")

UpdateSession(l) ==
    /\ loop[l].at = "stored"
    /\ \/ PollFailed(l) \/ Replaced(l) \/ NoSessionYet(l) \/ Ongoing(l) \/ PrintOver(l)
    /\ noticed' = (noticed \/ (todo = <<>> /\ Tel(l).status \in Over \cup {"disconnected"}))
    /\ loop' = [loop EXCEPT ![l].at = "resting"]
    /\ UNCHANGED <<machine, outages, started, current, states, todo>>

-----------------------------------------------------------------------------
(* The server's handlers make their Controller calls one after the other;    *)
(* every call takes a lock of its own.                                       *)
Configured == {n \in Names : current[n] # 0}

Ask(calls) ==
    /\ todo = <<>>
    /\ started < MaxLoops
    /\ todo' = calls
    /\ UNCHANGED <<machine, noticed, outages, loop, started, current, states,
                   session, history>>

(* A config save: SyncPrinters starts every HTTP printer's loop anew.        *)
AskSync ==
    \E n \in Configured : Ask(<<[call |-> "AddOrUpdate", name |-> n]>>)

(* handleEditPrinter: refused while the printer's state says it prints.      *)
AskRename ==
    \E n \in Configured, m \in Names :
        /\ n # m
        /\ states[n] \notin InPrint
        /\ Ask(<<[call |-> "RenamePrinter", from |-> n, to |-> m],
                 [call |-> "Unregister", name |-> n],
                 [call |-> "Forget", name |-> n],
                 [call |-> "AddOrUpdate", name |-> m]>>)

(* The printer is deleted; later it may be added again.                      *)
AskRemove ==
    \E n \in Configured :
        Ask(<<[call |-> "Unregister", name |-> n],
              [call |-> "Forget", name |-> n]>>)

AskAdd ==
    /\ Configured = {}
    /\ \E n \in Names : Ask(<<[call |-> "AddOrUpdate", name |-> n]>>)

RenamePrinter ==
    /\ todo # <<>> /\ Head(todo).call = "RenamePrinter"
    /\ LET old == Head(todo).from IN
       LET new == Head(todo).to IN
       session' = IF session[old] # NoSession
                  THEN [session EXCEPT ![new] = session[old], ![old] = NoSession]
                  ELSE session
    /\ todo' = Tail(todo)
    /\ UNCHANGED <<machine, noticed, outages, loop, started, current, states,
                   history>>

(* The first half of RemovePrinter, under mu.                                *)
Unregister ==
    /\ todo # <<>> /\ Head(todo).call = "Unregister"
    /\ current' = [current EXCEPT ![Head(todo).name] = 0]
    /\ states' = [states EXCEPT ![Head(todo).name] = "none"]
    /\ todo' = Tail(todo)
    /\ UNCHANGED <<machine, noticed, outages, loop, started, session, history>>

(* Mutant: the removed printer's session is kept.                            *)
ForgetNothing ==
    /\ todo # <<>> /\ Head(todo).call = "Forget"
    /\ todo' = Tail(todo)
    /\ UNCHANGED <<machine, noticed, outages, loop, started, current, states,
                   session, history>>

(* forgetBookkeeping, after mu was let go.                                   *)
Forget ==
    /\ todo # <<>> /\ Head(todo).call = "Forget"
    /\ session' = [session EXCEPT ![Head(todo).name] = NoSession]
    /\ todo' = Tail(todo)
    /\ UNCHANGED <<machine, noticed, outages, loop, started, current, states,
                   history>>

AddOrUpdate ==
    /\ todo # <<>> /\ Head(todo).call = "AddOrUpdate"
    /\ started' = started + 1
    /\ loop' = [loop EXCEPT ![started + 1] = NewLoop(Head(todo).name)]
    /\ current' = [current EXCEPT ![Head(todo).name] = started + 1]
    /\ todo' = Tail(todo)
    /\ UNCHANGED <<machine, noticed, outages, states, session, history>>

Handler ==
    RenamePrinter \/ Unregister \/ Forget \/ AddOrUpdate

Poll(l) == Wake(l) \/ Fetch(l) \/ StoreState(l) \/ UpdateSession(l)

Next ==
    \/ Machine
    \/ \E l \in Started : Poll(l)
    \/ AskSync \/ AskRename \/ AskRemove \/ AskAdd
    \/ Handler

Spec == Init /\ [][Next]_vars

(* Poll loops run on timers and requests with a timeout, and a handler that  *)
(* started goes on. Nothing makes a print end or a printer come back.        *)
Fairness == WF_vars(Handler) /\ \A l \in Loops : WF_vars(l \in Started /\ Poll(l))

FairSpec == Spec /\ Fairness

-----------------------------------------------------------------------------
(* A print is recorded once, however often its printer is restarted, renamed *)
(* or out of reach for less than pollGrace while it runs. Only an outage     *)
(* longer than that may split it.                                            *)
RecordedOnce ==
    \A j \in Jobs :
        Cardinality({i \in DOMAIN history :
                        history[i].job = j /\ history[i].cause # "lost"}) <= 1

(* When print A ended and print B started while the printer was unreachable, *)
(* A is closed (the comment in updateSession): the session a poll leaves is  *)
(* never that of another print than the one it found in progress. A step     *)
(* keeps it unless the machine pauses prints: a poll that finds B paused     *)
(* carries A's session over to B.                                            *)
ClosesOtherPrint ==
    \A l \in Started :
        loop[l].at = "stored" /\ loop'[l].at = "resting" /\ Tel(l).status \in InPrint
            => session'[loop[l].name].job \in {0, Tel(l).job}

(* A removed printer leaves nothing behind: a poll that was under way when   *)
(* it was removed or renamed stores no state (storeState), and a printer     *)
(* later added under its name starts clean (forgetBookkeeping).              *)
RemovedStaysRemoved ==
    \A n \in Names : states[n] # "none" => current[n] # 0

RemovedIsForgotten ==
    \A n \in Names : todo = <<>> /\ current[n] = 0 => session[n] = NoSession

(* A print that was seen is recorded once the machine is done with it, when  *)
(* a poll finds it over or the machine stays out of reach; unless the next   *)
(* print starts first.                                                       *)
SeenPrintIsRecorded ==
    \A j \in Jobs :
        (/\ todo = <<>> /\ \E n \in Configured : session[n].job = j
         /\ machine.status \in Over)
        ~> \/ \E i \in DOMAIN history : history[i].job = j
           \/ machine.status \in InPrint
=============================================================================
