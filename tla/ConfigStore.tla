---------------------------- MODULE ConfigStore ----------------------------
(***************************************************************************)
(* The Bridge's settings: the live config behind configMutex, the file on *)
(* disk, and the printer connections the HTTP handlers keep in step with   *)
(* them.                                                                   *)
(*                                                                         *)
(* A handler changes the live config and clones it under the lock, and     *)
(* then saves the clone and adjusts the connections with the lock          *)
(* released, so two requests interleave at every one of those steps.       *)
(* Clone numbers its copies; SaveConfig skips a copy older than the one    *)
(* already written.  The process may be killed at any moment and starts    *)
(* again from the file.                                                    *)
(*                                                                         *)
(* A printer is its kind of connection and the settings that connection    *)
(* reads (address, code and keys).  Renaming an edited printer is left to  *)
(* LanSession and BambuSession, cloud printers and plugs are not modelled. *)
(***************************************************************************)
EXTENDS Naturals

CONSTANTS Names,        \* printer names
          Settings,     \* what a printer's connection reads from its config
          Handlers,     \* HTTP requests and background savers in progress
          NoPrinter,    \* no printer under the name, no connection running
          MaxChanges,   \* bound on changes in one life of the process
          MaxCrashes    \* bound on restarts

Printers == [kind : {"bambu", "http"}, set : Settings]
Configs == [Names -> Printers \cup {NoPrinter}]

ASSUME ConfigAssumptions ==
  /\ Names # {} /\ MaxChanges \in Nat /\ MaxCrashes \in Nat
  /\ NoPrinter \notin Printers /\ NoPrinter \notin Settings

VARIABLES
  live,      \* configStore: the list, and the number of the change it is
  file,      \* the config file: the same
  cloneGen,  \* the last number Clone gave out
  savedGen,  \* savedGen: the newest clone written since the start
  job,       \* what each handler still has to do
  mqtt,      \* managedPrinters: settings each Bambu connection runs with
  poll,      \* Controller.cancelers: settings each poll loop runs with
  base,      \* history: changes made before the process last started
  answered,  \* history: the newest change a handler answered with ok
  reported,  \* history: the newest change reported as not saved
  crashes    \* restarts so far

vars == <<live, file, cloneGen, savedGen, job, mqtt, poll, base, answered, reported, crashes>>

Stored == [list : Configs, ver : Nat]
Steps == {"bambu", "drop", "http", "gone", "save", "connect"}
Idle == [at |-> "idle"]
Jobs == [at : Steps, op : {"replace", "add", "delete", "edit", "setting"}, gen : Nat,
         old : Configs, new : Configs, todo : SUBSET Names, name : Names, failed : BOOLEAN]

TypeOK ==
  /\ live \in Stored /\ file \in Stored
  /\ cloneGen \in Nat /\ savedGen \in Nat
  /\ job \in [Handlers -> Jobs \cup {Idle}]
  /\ mqtt \in [Names -> Settings \cup {NoPrinter}]
  /\ poll \in [Names -> Settings \cup {NoPrinter}]
  /\ base \in Nat /\ answered \in Nat /\ reported \in Nat /\ crashes \in Nat

Of(list, kind) == {n \in Names : list[n] # NoPrinter /\ list[n].kind = kind}

(* What runs after syncPrinterConnections(nil, list). *)
Running(list, kind) == [n \in Names |-> IF n \in Of(list, kind) THEN list[n].set ELSE NoPrinter]

Init ==
  /\ live = [list |-> [n \in Names |-> NoPrinter], ver |-> 0]
  /\ file = live
  /\ cloneGen = 0 /\ savedGen = 0
  /\ job = [h \in Handlers |-> Idle]
  /\ mqtt = [n \in Names |-> NoPrinter]
  /\ poll = [n \in Names |-> NoPrinter]
  /\ base = 0 /\ answered = 0 /\ reported = 0 /\ crashes = 0

-----------------------------------------------------------------------------
(* Under configMutex: the change, and the clone the handler goes on with.  *)

AnyName == CHOOSE n \in Names : TRUE

Change(h, op, n, list, first) ==
  /\ job[h] = Idle /\ cloneGen < MaxChanges
  /\ live' = [list |-> list, ver |-> base + cloneGen + 1]
  /\ cloneGen' = cloneGen + 1
  /\ job' = [job EXCEPT ![h] =
       [at |-> first, op |-> op, gen |-> cloneGen + 1, old |-> live.list, new |-> list,
        todo |-> Of(list, "bambu"), name |-> n, failed |-> FALSE]]
  /\ UNCHANGED <<file, savedGen, mqtt, poll, base, answered, reported, crashes>>

(* POST /api/config: the connections are synced first, then the file.  A   *)
(* body without "printers" keeps the list.                                 *)
ReplaceConfig(h) == \E list \in Configs : Change(h, "replace", AnyName, list, "bambu")

(* POST /api/printers refuses a name that is taken. *)
AddPrinter(h) == \E n \in Names, p \in Printers :
  live.list[n] = NoPrinter /\ Change(h, "add", n, [live.list EXCEPT ![n] = p], "save")

(* DELETE /api/printers/{token} *)
DeletePrinter(h) == \E n \in Names :
  live.list[n] # NoPrinter /\ Change(h, "delete", n, [live.list EXCEPT ![n] = NoPrinter], "save")

(* PUT /api/printers/{token}: the printer keeps its kind. *)
EditPrinter(h) == \E n \in Names, s \in Settings :
  live.list[n] # NoPrinter /\ Change(h, "edit", n, [live.list EXCEPT ![n].set = s], "save")

(* mutateConfig, PATCH and onCloudIP: a setting no connection reads. *)
ChangeSetting(h) == Change(h, "setting", AnyName, live.list, "save")

-----------------------------------------------------------------------------
(* SaveConfig, one at a time under saveMu.                                  *)

(* Mutants: the check is missing; it is off by one. *)
NeverStale(j) == FALSE
StaleTooSoon(j) == j.gen <= savedGen + 1

Stale(j) == j.gen < savedGen

(* The step after the save: the connection of the one printer, or none. *)
AfterSave(h, failed) ==
  IF job[h].op \in {"replace", "setting"}
  THEN /\ job' = [job EXCEPT ![h] = Idle]
       /\ answered' = IF failed \/ base + job[h].gen < answered THEN answered
                      ELSE base + job[h].gen
  ELSE /\ job' = [job EXCEPT ![h].at = "connect", ![h].failed = failed]
       /\ UNCHANGED answered

Save(h) ==
  /\ job[h].at = "save" /\ ~Stale(job[h])
  /\ file' = [list |-> job[h].new, ver |-> base + job[h].gen]
  /\ savedGen' = job[h].gen
  /\ AfterSave(h, FALSE)
  /\ UNCHANGED <<live, cloneGen, mqtt, poll, base, reported, crashes>>

(* A newer clone is on disk and holds this change too. *)
SkipSave(h) ==
  /\ job[h].at = "save" /\ Stale(job[h])
  /\ AfterSave(h, FALSE)
  /\ UNCHANGED <<live, file, savedGen, cloneGen, mqtt, poll, base, reported, crashes>>

(* Mutant: savedGen is raised before the write is known to have worked. *)
SaveFailsAsSaved(h) ==
  /\ job[h].at = "save" /\ ~Stale(job[h])
  /\ AfterSave(h, TRUE)
  /\ savedGen' = job[h].gen
  /\ reported' = IF base + job[h].gen > reported THEN base + job[h].gen ELSE reported
  /\ UNCHANGED <<live, file, cloneGen, mqtt, poll, base, crashes>>

(* The directory, the temporary file or the rename fails: the old file     *)
(* stays, savedGen too, and the caller is told (writeSaveFailed, or a log  *)
(* line for a background change).                                          *)
SaveFails(h) ==
  /\ job[h].at = "save" /\ ~Stale(job[h])
  /\ AfterSave(h, TRUE)
  /\ reported' = IF base + job[h].gen > reported THEN base + job[h].gen ELSE reported
  /\ UNCHANGED <<live, file, savedGen, cloneGen, mqtt, poll, base, crashes>>

-----------------------------------------------------------------------------
(* The connections.                                                         *)

(* mqtt.ConnectPrinter does nothing when the printer's goroutine runs. *)
Connect(running, s) == IF running = NoPrinter THEN s ELSE running

(* Mutant: a changed printer is not stopped first, so ConnectPrinter leaves *)
(* the old connection running.                                             *)
SyncBambuNoRestart(h) ==
  /\ job[h].at = "bambu"
  /\ \E n \in job[h].todo :
       /\ mqtt' = [mqtt EXCEPT ![n] = Connect(@, job[h].new[n].set)]
       /\ job' = [job EXCEPT ![h].todo = @ \ {n}]
  /\ UNCHANGED <<live, file, cloneGen, savedGen, poll, base, answered, reported, crashes>>

(* syncPrinterConnections, a Bambu printer of the new config: an unchanged *)
(* one is left alone, a changed one is stopped and started again.          *)
SyncBambu(h) ==
  /\ job[h].at = "bambu"
  /\ \E n \in job[h].todo :
       /\ mqtt' = [mqtt EXCEPT ![n] =
            IF n \notin Of(job[h].old, "bambu") THEN Connect(@, job[h].new[n].set)
            ELSE IF job[h].old[n] = job[h].new[n] THEN @ ELSE job[h].new[n].set]
       /\ job' = [job EXCEPT ![h].todo = @ \ {n}]
  /\ UNCHANGED <<live, file, cloneGen, savedGen, poll, base, answered, reported, crashes>>

(* The Bambu printers that are no longer in it. *)
DropBambu(h) ==
  /\ job[h].at = "drop"
  /\ \E n \in job[h].todo :
       /\ mqtt' = [mqtt EXCEPT ![n] = NoPrinter]
       /\ job' = [job EXCEPT ![h].todo = @ \ {n}]
  /\ UNCHANGED <<live, file, cloneGen, savedGen, poll, base, answered, reported, crashes>>

(* Controller.SyncPrinters: AddOrUpdatePrinter for each printer ... *)
SyncHttp(h) ==
  /\ job[h].at = "http"
  /\ \E n \in job[h].todo :
       /\ poll' = [poll EXCEPT ![n] = job[h].new[n].set]
       /\ job' = [job EXCEPT ![h].todo = @ \ {n}]
  /\ UNCHANGED <<live, file, cloneGen, savedGen, mqtt, base, answered, reported, crashes>>

(* ... and under one lock the end of every other poll loop. *)
DropHttp(h) ==
  /\ job[h].at = "gone"
  /\ poll' = [n \in Names |-> IF n \in Of(job[h].new, "http") THEN poll[n] ELSE NoPrinter]
  /\ job' = [job EXCEPT ![h].at = "save"]
  /\ UNCHANGED <<live, file, cloneGen, savedGen, mqtt, base, answered, reported, crashes>>

(* The loops of syncPrinterConnections in the order the code has them. *)
NextLoop(h) == LET j == job[h] IN
  /\ j.at \in {"bambu", "drop", "http"} /\ j.todo = {}
  /\ job' = [job EXCEPT ![h] =
       CASE j.at = "bambu" -> [j EXCEPT !.at = "drop", !.todo = Of(j.old, "bambu") \ Of(j.new, "bambu")]
         [] j.at = "drop" -> [j EXCEPT !.at = "http", !.todo = Of(j.new, "http")]
         [] OTHER -> [j EXCEPT !.at = "gone"]]
  /\ UNCHANGED <<live, file, cloneGen, savedGen, mqtt, poll, base, answered, reported, crashes>>

(* The connection work of add, delete and edit after their save. *)
Unedited(j) == j.op = "edit" /\ j.old = j.new

MqttAfter(j) == [mqtt EXCEPT ![j.name] =
  IF j.op = "delete" THEN NoPrinter
  ELSE IF j.name \notin Of(j.new, "bambu") \/ Unedited(j) THEN @
  ELSE IF j.op = "edit" THEN j.new[j.name].set
  ELSE Connect(@, j.new[j.name].set)]

PollAfter(j) == [poll EXCEPT ![j.name] =
  IF j.op = "delete" THEN NoPrinter
  ELSE IF j.name \notin Of(j.new, "http") \/ Unedited(j) THEN @
  ELSE j.new[j.name].set]

ConnectOne(h) ==
  /\ job[h].at = "connect"
  /\ mqtt' = MqttAfter(job[h])
  /\ poll' = PollAfter(job[h])
  /\ job' = [job EXCEPT ![h] = Idle]
  /\ answered' = IF job[h].failed \/ base + job[h].gen < answered THEN answered
                 ELSE base + job[h].gen
  /\ UNCHANGED <<live, file, cloneGen, savedGen, base, reported, crashes>>

-----------------------------------------------------------------------------
(* The process dies and StartServer runs: LoadConfig, then                  *)
(* syncPrinterConnections(nil, cfg), before the first request is served.    *)
(* The rename in WriteFileAtomic leaves the old file or the new one.        *)
Restart ==
  /\ crashes < MaxCrashes
  /\ crashes' = crashes + 1
  /\ live' = file
  /\ base' = base + cloneGen
  /\ cloneGen' = 0 /\ savedGen' = 0
  /\ job' = [h \in Handlers |-> Idle]
  /\ mqtt' = Running(file.list, "bambu")
  /\ poll' = Running(file.list, "http")
  /\ UNCHANGED <<file, answered, reported>>

Next ==
  \/ \E h \in Handlers :
       \/ ReplaceConfig(h) \/ AddPrinter(h) \/ DeletePrinter(h) \/ EditPrinter(h)
       \/ ChangeSetting(h)
       \/ Save(h) \/ SkipSave(h) \/ SaveFails(h)
       \/ SyncBambu(h) \/ DropBambu(h) \/ SyncHttp(h) \/ DropHttp(h) \/ NextLoop(h)
       \/ ConnectOne(h)
  \/ Restart

Spec == Init /\ [][Next]_vars

-----------------------------------------------------------------------------
(* A change that was answered with ok is on disk from then on, in its own  *)
(* clone or in a newer one: whatever order saves and failures come in, and *)
(* across a restart (SaveConfig, config.go).                               *)
AnsweredIsKept == answered <= file.ver

(* The file never goes back to an older state of the config, so no save    *)
(* undoes another (the reason for Clone's numbers and savedGen).           *)
FileNeverGoesBack == [][file'.ver >= file.ver]_vars

(* With no save left to do, the file holds what the Bridge runs with,      *)
(* unless the newest change was reported as not saved.                     *)
SettledFileIsLive ==
  (\A h \in Handlers : job[h].at \in {"idle", "connect"}) /\ reported < live.ver
    => file.list = live.list

(* Once no request is at work the running connections are the ones of the  *)
(* live config, with its settings: a removed printer is not polled, a      *)
(* changed one not with its old address (syncPrinterConnections,           *)
(* reconnectEditedPrinter and the add and delete handlers).                *)
ConnectionsFollowConfig ==
  (\A h \in Handlers : job[h] = Idle)
    => mqtt = Running(live.list, "bambu") /\ poll = Running(live.list, "http")
=============================================================================
