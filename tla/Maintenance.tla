----------------------------- MODULE Maintenance -----------------------------
(***************************************************************************)
(* Maintenance reminders (maintenance/, maintenance_routes.go) over the    *)
(* print history (history/history.go). A check runs on a goroutine of its  *)
(* own after each record that was written: it copies the tasks, reads the  *)
(* history and asks the Announcer what is newly due. Meanwhile tasks are   *)
(* done, deleted and brought back. One printer; every print takes the same *)
(* time, so that the hours since a task was done are a count of records.   *)
(***************************************************************************)
EXTENDS Naturals, FiniteSets

CONSTANTS
    Tasks,          \* the ids that tasks are given
    Interval,       \* prints until a task is due
    MaxRecords, MaxUserSteps, MaxMishaps   \* bounds

\* maintenance_routes.go:166 refuses a task without an interval.
ASSUME MaintenanceAssumption == Interval \in Nat \ {0}

None == 0   \* the time of a task that is not there; times begin with 1

VARIABLES
    now,        \* counts whatever happens; a record's time and a task's LastDoneAt
    records,    \* times of the records in history.json
    readable,   \* whether the file can be read
    tasks,      \* LastDoneAt of the tasks in the config
    deleted,    \* the task as the dashboard keeps it to undo a delete
    checks,     \* goroutines of checkMaintenance
    announced, saved,   \* Announcer.announced and its file
    said, again,   \* the announcements, a task and its LastDoneAt, and those repeated
    appended, userSteps, mishaps

maintenanceVars ==
    <<now, records, readable, tasks, deleted, checks, announced, saved, said, again, appended, userSteps, mishaps>>

Nothing == [t \in Tasks |-> None]

MaintenanceInit ==
    /\ now = 1 /\ records = {} /\ readable = TRUE
    /\ tasks = [t \in Tasks |-> 1] /\ deleted = Nothing
    /\ checks = {} /\ announced = Nothing /\ saved = Nothing /\ said = {} /\ again = {}
    /\ appended = 0 /\ userSteps = 0 /\ mishaps = 0

(* StatusFor and Hours: the records that ended after the task was done.      *)
IsDue(last, recs) == last # None /\ Cardinality({e \in recs : e > last}) >= Interval

-----------------------------------------------------------------------------
(* history.Append: a file that cannot be read is moved aside first. The      *)
(* listeners hear of a record that was written.                              *)

AppendRecord ==
    /\ appended < MaxRecords /\ appended' = appended + 1
    /\ now' = now + 1
    /\ records' = (IF readable THEN records ELSE {}) \cup {now'} /\ readable' = TRUE
    /\ checks' = checks \cup {[id |-> now', at |-> "start", tasks |-> Nothing, due |-> {}]}
    /\ UNCHANGED <<tasks, deleted, announced, saved, said, again, userSteps, mishaps>>

(* The file is damaged, or its volume away: it cannot be read for a while.   *)
HistoryBreaks ==
    /\ readable /\ mishaps < MaxMishaps /\ mishaps' = mishaps + 1 /\ readable' = FALSE
    /\ UNCHANGED <<now, records, tasks, deleted, checks, announced, saved, said, again, appended, userSteps>>

-----------------------------------------------------------------------------
(* dueMaintenance.                                                           *)

OnlyCheck == UNCHANGED <<now, records, readable, tasks, deleted, appended, userSteps>>

(* maintenanceSnapshot.                                                      *)
CopyTasks(c) ==
    /\ c.at = "start"
    /\ checks' = (checks \ {c}) \cup {[c EXCEPT !.at = "copied", !.tasks = tasks]}
    /\ UNCHANGED <<announced, saved, said, again, mishaps>> /\ OnlyCheck

(* history.Load and Evaluate; without tasks, all is forgotten.               *)
ReadHistory(c) ==
    /\ c.at = "copied"
    /\ \/ /\ readable \/ c.tasks = Nothing
          /\ checks' = (checks \ {c}) \cup {[c EXCEPT !.at = "ask",
                           !.due = {t \in Tasks : IsDue(c.tasks[t], records)}]}
       \/ /\ ~readable /\ c.tasks # Nothing /\ checks' = checks \ {c}
    /\ UNCHANGED <<announced, saved, said, again, mishaps>> /\ OnlyCheck

(* Mutant: a task is announced whenever a check finds it due.                *)
NewAlways(c) == c.due

(* The due tasks that were not announced since they were last done.          *)
New(c) == {t \in c.due : announced[t] # c.tasks[t]}

(* Only what is due stays announced, or is added.                            *)
Keep(c) == [t \in Tasks |-> IF t \in c.due THEN c.tasks[t] ELSE None]

(* NewlyDue and the events that follow. A file that cannot be written is     *)
(* only logged.                                                              *)
NewlyDue(c) ==
    /\ c.at = "ask" /\ checks' = checks \ {c}
    /\ announced' = Keep(c)
    /\ \/ saved' = announced' /\ UNCHANGED mishaps
       \/ announced' # announced /\ mishaps < MaxMishaps /\ mishaps' = mishaps + 1 /\ UNCHANGED saved
    /\ said' = said \cup {<<t, c.tasks[t]>> : t \in New(c)}
    /\ again' = again \cup {n \in said : n[1] \in New(c) /\ n[2] = c.tasks[n[1]]}
    /\ OnlyCheck

-----------------------------------------------------------------------------
(* The user, under mutateConfig's lock.                                      *)

UserStep(t) ==
    /\ userSteps < MaxUserSteps /\ userSteps' = userSteps + 1 /\ now' = now + 1
    /\ UNCHANGED <<records, readable, checks, announced, saved, said, again, appended, mishaps>>

Done(t) ==
    /\ tasks[t] # None /\ UserStep(t)
    /\ tasks' = [tasks EXCEPT ![t] = now'] /\ UNCHANGED deleted

Remove(t) ==
    /\ tasks[t] # None /\ UserStep(t)
    /\ tasks' = [tasks EXCEPT ![t] = None] /\ deleted' = [deleted EXCEPT ![t] = tasks[t]]

(* postMaintenance: a new task begins now; one that was deleted comes back   *)
(* under its id and with its LastDoneAt.                                     *)
Post(t) ==
    /\ tasks[t] = None /\ UserStep(t)
    /\ \E last \in {now', deleted[t]} \ {None} : tasks' = [tasks EXCEPT ![t] = last]
    /\ deleted' = [deleted EXCEPT ![t] = None]

MaintenanceRestart ==
    /\ mishaps < MaxMishaps /\ mishaps' = mishaps + 1
    /\ checks' = {} /\ announced' = saved /\ deleted' = Nothing
    /\ UNCHANGED <<now, records, readable, tasks, saved, said, again, appended, userSteps>>

Check == \E c \in checks : CopyTasks(c) \/ ReadHistory(c) \/ NewlyDue(c)

MaintenanceNext ==
    \/ AppendRecord \/ HistoryBreaks \/ Check \/ MaintenanceRestart
    \/ \E t \in Tasks : Done(t) \/ Remove(t) \/ Post(t)

-----------------------------------------------------------------------------
(* A task is announced once when it comes due, for each time it was done.    *)
AnnouncedOnce == again = {}

(* Once the checks have ended, a task that came due was announced.           *)
DueIsAnnounced == checks = {} =>
    \A t \in Tasks : IsDue(tasks[t], records) => <<t, tasks[t]>> \in said

NoRecordLost == Cardinality(records) = appended
=============================================================================
