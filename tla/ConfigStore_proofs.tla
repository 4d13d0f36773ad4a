------------------------- MODULE ConfigStore_proofs -------------------------
(***************************************************************************)
(* Proofs about the settings and the services that use them.               *)
(* The settings file, for any number of requests, printers, changes and    *)
(* restarts: it never goes back, it keeps every acknowledged change, and   *)
(* at rest it holds the live config.                                       *)
(* The update, sign-ins and sessions, notification channels, the assistant *)
(* and the virtual printer, for any number of requests, callers, channels, *)
(* addresses, chats, files, ports and keys.                                *)
(***************************************************************************)
EXTENDS MCConfigStore, FiniteSetTheorems, TLAPS

-----------------------------------------------------------------------------
(* ConfigStore.                                                              *)

Unsaved == {"bambu", "drop", "http", "gone", "save"}

(* Clone's numbers start at one, and no clone is newer than the last. *)
Numbered ==
  /\ savedGen <= cloneGen
  /\ \A h \in Handlers : job[h] # Idle => job[h].gen \in 1..cloneGen

(* The live config is the newest clone, or after a restart the file. *)
LiveIsNewest ==
  /\ cloneGen = 0 => live = file
  /\ cloneGen > 0 => live.ver = base + cloneGen
  /\ \A h \in Handlers : job[h] # Idle /\ job[h].gen = cloneGen => job[h].new = live.list

(* savedGen says which clone the file holds; 0 is one of an earlier life. *)
FileIsSaved ==
  /\ savedGen = 0 => file.ver <= base
  /\ savedGen > 0 => file.ver = base + savedGen
  /\ savedGen > 0 /\ savedGen = cloneGen => file.list = live.list

(* What was answered, and what a handler is about to answer, is on disk. *)
AnswersAreSaved ==
  /\ answered <= file.ver
  /\ \A h \in Handlers : job[h].at = "connect" /\ ~job[h].failed => base + job[h].gen <= file.ver

(* The newest change is on disk, on its way, or was reported. *)
NewestIsCared ==
  cloneGen > 0 => \/ savedGen = cloneGen
                  \/ reported >= live.ver
                  \/ \E h \in Handlers : job[h].at \in Unsaved /\ job[h].gen = cloneGen

(* A loop over the connections goes through printers of the clone. *)
LoopsOverPrinters == \A h \in Handlers :
  job[h].at \in {"bambu", "http"} => job[h].todo \subseteq Of(job[h].new, job[h].at)

IInv == /\ TypeOK /\ Numbered /\ LiveIsNewest /\ FileIsSaved /\ AnswersAreSaved /\ NewestIsCared
        /\ LoopsOverPrinters

(* A handler at work has a job. *)
LEMMA AtWork ==
  ASSUME TypeOK, NEW h \in Handlers, job[h].at \in Steps
  PROVE  job[h] \in Jobs /\ job[h] # Idle
BY DEF TypeOK, Idle, Steps

(* The program starts with a file that is the live config.                   *)
LEMMA InvInit == Init => IInv
<1> SUFFICES ASSUME Init PROVE IInv
  OBVIOUS
<1>1. TypeOK
  BY ConfigAssumptions DEF Init, TypeOK, Stored, Configs, Idle
<1>2. Numbered
  BY DEF Init, Numbered
<1>3. LiveIsNewest
  BY DEF Init, LiveIsNewest
<1>4. FileIsSaved
  BY DEF Init, FileIsSaved
<1>5. AnswersAreSaved
  BY DEF Init, AnswersAreSaved, Idle
<1>6. NewestIsCared
  BY DEF Init, NewestIsCared
<1>7. LoopsOverPrinters
  BY DEF Init, LoopsOverPrinters, Idle
<1> QED
  BY <1>1, <1>2, <1>3, <1>4, <1>5, <1>6, <1>7 DEF IInv

-----------------------------------------------------------------------------
(* A change under configMutex: the handler's clone becomes the newest one. *)
LEMMA ChangeKeeps ==
  ASSUME IInv, NEW h \in Handlers, NEW op \in {"replace", "add", "delete", "edit", "setting"},
         NEW n \in Names, NEW list \in Configs, NEW first \in {"bambu", "save"},
         Change(h, op, n, list, first)
  PROVE  IInv'
<1> DEFINE new == [at |-> first, op |-> op, gen |-> cloneGen + 1, old |-> live.list, new |-> list,
                   todo |-> Of(list, "bambu"), name |-> n, failed |-> FALSE]
<1> USE DEF IInv
<1>1. /\ job[h] = Idle /\ live' = [list |-> list, ver |-> base + cloneGen + 1]
      /\ cloneGen' = cloneGen + 1 /\ job' = [job EXCEPT ![h] = new]
      /\ UNCHANGED <<file, savedGen, mqtt, poll, base, answered, reported, crashes>>
  BY DEF Change
<1>2. cloneGen \in Nat /\ base \in Nat /\ live.list \in Configs /\ savedGen \in Nat
  BY DEF TypeOK, Stored
<1>3. new \in Jobs /\ new # Idle
  <2>1. Of(list, "bambu") \in SUBSET Names
    BY DEF Of
  <2>2. first \in Steps
    BY DEF Steps
  <2>3. new \in Jobs
    BY <1>2, <2>1, <2>2 DEF Jobs
  <2>4. new.at # Idle.at
    BY DEF Idle
  <2> QED
    BY <2>3, <2>4
<1> HIDE DEF new
<1>4. /\ DOMAIN job = Handlers /\ job'[h] = new
      /\ \A k \in Handlers : k # h => job'[k] = job[k]
  BY <1>1 DEF TypeOK
<1>5. new.gen = cloneGen + 1 /\ new.at = first /\ new.new = list
  BY DEF new
<1>6. TypeOK'
  BY <1>1, <1>2, <1>3 DEF TypeOK, Stored
<1>7. Numbered'
  BY <1>1, <1>2, <1>4, <1>5 DEF Numbered
<1>8. LiveIsNewest'
  BY <1>1, <1>2, <1>4, <1>5 DEF LiveIsNewest, Numbered
<1>9. FileIsSaved'
  BY <1>1, <1>2 DEF FileIsSaved, Numbered
<1>10. AnswersAreSaved'
  BY <1>1, <1>4, <1>5 DEF AnswersAreSaved
<1>11. NewestIsCared'
  BY <1>1, <1>4, <1>5 DEF NewestIsCared, Unsaved
<1>12. LoopsOverPrinters'
  BY <1>1, <1>4, <1>5 DEF LoopsOverPrinters, Of, new
<1> QED
  BY <1>6, <1>7, <1>8, <1>9, <1>10, <1>11, <1>12

(* Work on the connections before the save: only the handler's place and    *)
(* its list of names change.                                               *)
LEMMA WorkKeeps ==
  ASSUME IInv, NEW h \in Handlers, job[h].at \in Unsaved,
         NEW j, j \in Jobs, j.gen = job[h].gen, j.new = job[h].new, j.at \in Unsaved,
         j.at \in {"bambu", "http"} => j.todo \subseteq Of(j.new, j.at),
         job' = [job EXCEPT ![h] = j],
         mqtt' \in [Names -> Settings \cup {NoPrinter}],
         poll' \in [Names -> Settings \cup {NoPrinter}],
         UNCHANGED <<live, file, cloneGen, savedGen, base, answered, reported, crashes>>
  PROVE  IInv'
<1> USE DEF IInv
<1>1. job[h] # Idle /\ j # Idle
  BY DEF Unsaved, Idle
<1>2. /\ job'[h] = j
      /\ \A k \in Handlers : k # h => job'[k] = job[k]
  BY DEF TypeOK
<1>3. TypeOK'
  BY DEF TypeOK
<1>4. Numbered'
  BY <1>1, <1>2 DEF Numbered
<1>5. LiveIsNewest'
  BY <1>1, <1>2 DEF LiveIsNewest
<1>6. FileIsSaved'
  BY DEF FileIsSaved
<1>7. AnswersAreSaved'
  BY <1>1, <1>2 DEF AnswersAreSaved, Unsaved
<1>8. NewestIsCared'
  BY <1>1, <1>2 DEF NewestIsCared
<1>9. LoopsOverPrinters'
  BY <1>2 DEF LoopsOverPrinters, Of
<1> QED
  BY <1>3, <1>4, <1>5, <1>6, <1>7, <1>8, <1>9

-----------------------------------------------------------------------------
(* Where a handler goes after its save: it is done, or connects.            *)
LEMMA AfterSaveGoes ==
  ASSUME IInv, NEW h \in Handlers, job[h].at = "save", NEW failed \in BOOLEAN, AfterSave(h, failed)
  PROVE  /\ job' \in [Handlers -> Jobs \cup {Idle}]
         /\ \A k \in Handlers : k # h => job'[k] = job[k]
         /\ \/ job'[h] = Idle
            \/ /\ job'[h] # Idle /\ job'[h].at = "connect" /\ job'[h].failed = failed
               /\ job'[h].gen = job[h].gen /\ job'[h].new = job[h].new
         /\ answered' \in Nat
         /\ answered' = answered \/ (answered' = base + job[h].gen /\ ~failed)
<1> USE DEF IInv, TypeOK
<1>1. job[h] \in Jobs
  BY AtWork DEF Steps
<1>2. base + job[h].gen \in Nat
  BY <1>1 DEF Jobs
<1>3. CASE job[h].op \in {"replace", "setting"}
  BY <1>2, <1>3 DEF AfterSave, Idle
<1>4. CASE job[h].op \notin {"replace", "setting"}
  <2> DEFINE j == [job[h] EXCEPT !.at = "connect", !.failed = failed]
  <2>1. job' = [job EXCEPT ![h] = j] /\ answered' = answered
    BY <1>4 DEF AfterSave
  <2>2. /\ j \in Jobs /\ j.at = "connect" /\ j.failed = failed
        /\ j.gen = job[h].gen /\ j.new = job[h].new
    BY <1>1 DEF Jobs, Steps
  <2>3. j # Idle
    BY <2>2 DEF Idle
  <2> HIDE DEF j
  <2> QED
    BY <2>1, <2>2, <2>3
<1> QED
  BY <1>3, <1>4

(* A clone that is not older than the file's is written.                    *)
LEMMA SaveKeeps ==
  ASSUME IInv, NEW h \in Handlers, Save(h)
  PROVE  IInv' /\ file'.ver >= file.ver
<1> USE DEF IInv
<1>1. /\ job[h].at = "save" /\ ~(job[h].gen < savedGen)
      /\ file' = [list |-> job[h].new, ver |-> base + job[h].gen]
      /\ savedGen' = job[h].gen /\ AfterSave(h, FALSE)
      /\ UNCHANGED <<live, cloneGen, mqtt, poll, base, reported, crashes>>
  BY DEF Save, Stale
<1>2. job[h] \in Jobs /\ job[h] # Idle
  BY <1>1, AtWork DEF Steps
<1>3. /\ job[h].gen \in Nat /\ job[h].new \in Configs
      /\ base \in Nat /\ savedGen \in Nat /\ cloneGen \in Nat
      /\ file.ver \in Nat /\ answered \in Nat
  BY <1>2 DEF TypeOK, Jobs, Stored
<1>4. job[h].gen \in 1..cloneGen
  BY <1>2 DEF Numbered
<1>5. /\ job' \in [Handlers -> Jobs \cup {Idle}]
      /\ \A k \in Handlers : k # h => job'[k] = job[k]
      /\ \/ job'[h] = Idle
         \/ /\ job'[h] # Idle /\ job'[h].at = "connect"
            /\ job'[h].gen = job[h].gen /\ job'[h].new = job[h].new
      /\ answered' \in Nat
      /\ answered' = answered \/ answered' = base + job[h].gen
  BY <1>1, AfterSaveGoes
<1>6. file'.ver = base + job[h].gen /\ file'.list = job[h].new
  BY <1>1
<1>7. file'.ver >= file.ver
  BY <1>1, <1>3, <1>4, <1>6 DEF FileIsSaved
<1>8. TypeOK'
  BY <1>1, <1>3, <1>5 DEF TypeOK, Stored
<1>9. Numbered'
  BY <1>1, <1>3, <1>4, <1>5 DEF Numbered
<1>10. LiveIsNewest'
  BY <1>1, <1>2, <1>3, <1>4, <1>5 DEF LiveIsNewest
<1>11. FileIsSaved'
  BY <1>1, <1>2, <1>3, <1>4, <1>6 DEF FileIsSaved, LiveIsNewest
<1>12. AnswersAreSaved'
  <2>1. answered' <= file'.ver
    BY <1>3, <1>5, <1>6, <1>7 DEF AnswersAreSaved
  <2>2. ASSUME NEW k \in Handlers, job'[k].at = "connect", ~job'[k].failed
        PROVE  base' + job'[k].gen <= file'.ver
    <3>1. CASE k = h
      BY <1>1, <1>3, <1>5, <1>6, <2>2, <3>1 DEF Idle
    <3>2. CASE k # h
      <4>1. job[k] # Idle
        BY <1>5, <2>2, <3>2 DEF Idle
      <4>2. job[k].gen \in Nat
        BY <4>1 DEF Numbered
      <4>3. base + job[k].gen <= file.ver
        BY <1>5, <2>2, <3>2 DEF AnswersAreSaved
      <4> QED
        BY <1>1, <1>3, <1>5, <1>6, <1>7, <3>2, <4>2, <4>3
    <3> QED
      BY <3>1, <3>2
  <2> QED
    BY <2>1, <2>2 DEF AnswersAreSaved
<1>13. NewestIsCared'
  <2>1. CASE job[h].gen = cloneGen
    BY <1>1, <2>1 DEF NewestIsCared
  <2>2. CASE job[h].gen # cloneGen
    BY <1>1, <1>3, <1>4, <1>5, <2>2 DEF NewestIsCared
  <2> QED
    BY <2>1, <2>2
<1>14. LoopsOverPrinters'
  BY <1>5 DEF LoopsOverPrinters, Of, Idle
<1> QED
  BY <1>7, <1>8, <1>9, <1>10, <1>11, <1>12, <1>13, <1>14

(* A clone older than the file's is skipped, and its change is on disk.     *)
LEMMA SkipKeeps ==
  ASSUME IInv, NEW h \in Handlers, SkipSave(h)
  PROVE  IInv'
<1> USE DEF IInv
<1>1. /\ job[h].at = "save" /\ job[h].gen < savedGen /\ AfterSave(h, FALSE)
      /\ UNCHANGED <<live, file, savedGen, cloneGen, mqtt, poll, base, reported, crashes>>
  BY DEF SkipSave, Stale
<1>2. job[h] \in Jobs /\ job[h] # Idle
  BY <1>1, AtWork DEF Steps
<1>3. /\ job[h].gen \in Nat /\ base \in Nat /\ savedGen \in Nat /\ cloneGen \in Nat
      /\ file.ver \in Nat /\ answered \in Nat
  BY <1>2 DEF TypeOK, Jobs, Stored
<1>4. /\ job' \in [Handlers -> Jobs \cup {Idle}]
      /\ \A k \in Handlers : k # h => job'[k] = job[k]
      /\ \/ job'[h] = Idle
         \/ /\ job'[h] # Idle /\ job'[h].at = "connect"
            /\ job'[h].gen = job[h].gen /\ job'[h].new = job[h].new
      /\ answered' \in Nat
      /\ answered' = answered \/ answered' = base + job[h].gen
  BY <1>1, AfterSaveGoes
<1>5. base + job[h].gen <= file.ver
  BY <1>1, <1>3 DEF FileIsSaved
<1>6. job[h].gen # cloneGen
  BY <1>1, <1>3 DEF Numbered
<1>7. TypeOK'
  BY <1>1, <1>4 DEF TypeOK
<1>8. Numbered'
  BY <1>1, <1>2, <1>4 DEF Numbered
<1>9. LiveIsNewest'
  BY <1>1, <1>2, <1>4 DEF LiveIsNewest
<1>10. FileIsSaved'
  BY <1>1 DEF FileIsSaved
<1>11. AnswersAreSaved'
  BY <1>1, <1>3, <1>4, <1>5 DEF AnswersAreSaved, Idle
<1>12. NewestIsCared'
  BY <1>1, <1>4, <1>6 DEF NewestIsCared
<1>13. LoopsOverPrinters'
  BY <1>4 DEF LoopsOverPrinters, Of, Idle
<1> QED
  BY <1>7, <1>8, <1>9, <1>10, <1>11, <1>12, <1>13

(* A failed save leaves the file and is reported.                           *)
LEMMA FailKeeps ==
  ASSUME IInv, NEW h \in Handlers, SaveFails(h)
  PROVE  IInv'
<1> USE DEF IInv
<1>1. /\ job[h].at = "save" /\ AfterSave(h, TRUE)
      /\ reported' = IF base + job[h].gen > reported THEN base + job[h].gen ELSE reported
      /\ UNCHANGED <<live, file, savedGen, cloneGen, mqtt, poll, base, crashes>>
  BY DEF SaveFails
<1>2. job[h] \in Jobs /\ job[h] # Idle
  BY <1>1, AtWork DEF Steps
<1>3. /\ job[h].gen \in Nat /\ base \in Nat /\ cloneGen \in Nat
      /\ reported \in Nat /\ answered \in Nat /\ live.ver \in Nat
  BY <1>2 DEF TypeOK, Jobs, Stored
<1>4. /\ job' \in [Handlers -> Jobs \cup {Idle}]
      /\ \A k \in Handlers : k # h => job'[k] = job[k]
      /\ \/ job'[h] = Idle
         \/ /\ job'[h] # Idle /\ job'[h].at = "connect" /\ job'[h].failed = TRUE
            /\ job'[h].gen = job[h].gen /\ job'[h].new = job[h].new
      /\ answered' = answered
  BY <1>1, AfterSaveGoes
<1>5. reported' \in Nat /\ reported' >= reported /\ reported' >= base + job[h].gen
  BY <1>1, <1>3
<1>6. TypeOK'
  BY <1>1, <1>4, <1>5 DEF TypeOK
<1>7. Numbered'
  BY <1>1, <1>2, <1>4 DEF Numbered
<1>8. LiveIsNewest'
  BY <1>1, <1>2, <1>4 DEF LiveIsNewest
<1>9. FileIsSaved'
  BY <1>1 DEF FileIsSaved
<1>10. AnswersAreSaved'
  BY <1>1, <1>4 DEF AnswersAreSaved, Idle
<1>11. NewestIsCared'
  <2>1. CASE job[h].gen = cloneGen
    BY <1>1, <1>3, <1>5, <2>1 DEF NewestIsCared, LiveIsNewest
  <2>2. CASE job[h].gen # cloneGen
    BY <1>1, <1>3, <1>4, <1>5, <2>2 DEF NewestIsCared
  <2> QED
    BY <2>1, <2>2
<1>12. LoopsOverPrinters'
  BY <1>4 DEF LoopsOverPrinters, Of, Idle
<1> QED
  BY <1>6, <1>7, <1>8, <1>9, <1>10, <1>11, <1>12

(* The printer's own connection after its save, and the answer.             *)
LEMMA ConnectKeeps ==
  ASSUME IInv, NEW h \in Handlers, ConnectOne(h)
  PROVE  IInv'
<1> USE DEF IInv
<1>1. /\ job[h].at = "connect" /\ job' = [job EXCEPT ![h] = Idle]
      /\ mqtt' = MqttAfter(job[h]) /\ poll' = PollAfter(job[h])
      /\ answered' = IF job[h].failed \/ base + job[h].gen < answered THEN answered
                     ELSE base + job[h].gen
      /\ UNCHANGED <<live, file, cloneGen, savedGen, base, reported, crashes>>
  BY DEF ConnectOne
<1>2. job[h] \in Jobs
  BY <1>1, AtWork DEF Steps
<1>3. job[h].gen \in Nat /\ job[h].new \in Configs /\ job[h].name \in Names
  BY <1>2 DEF Jobs
<1>4. /\ mqtt' \in [Names -> Settings \cup {NoPrinter}]
      /\ poll' \in [Names -> Settings \cup {NoPrinter}]
  <2>1. ASSUME NEW kind \in {"bambu", "http"}, job[h].name \in Of(job[h].new, kind)
        PROVE  job[h].new[job[h].name].set \in Settings
    BY <1>3, <2>1 DEF Of, Configs, Printers
  <2>2. mqtt \in [Names -> Settings \cup {NoPrinter}] /\ poll \in [Names -> Settings \cup {NoPrinter}]
    BY DEF TypeOK
  <2>3. mqtt' \in [Names -> Settings \cup {NoPrinter}]
    BY <1>1, <1>3, <2>1, <2>2 DEF MqttAfter, Connect
  <2>4. poll' \in [Names -> Settings \cup {NoPrinter}]
    BY <1>1, <1>3, <2>1, <2>2 DEF PollAfter
  <2> QED
    BY <2>3, <2>4
<1>5. /\ job'[h] = Idle
      /\ \A k \in Handlers : k # h => job'[k] = job[k]
  BY <1>1 DEF TypeOK
<1>6. answered' \in Nat /\ (answered' = answered \/ (~job[h].failed /\ answered' = base + job[h].gen))
  BY <1>1, <1>3 DEF TypeOK
<1>7. TypeOK'
  BY <1>1, <1>4, <1>6 DEF TypeOK
<1>8. Numbered'
  BY <1>1, <1>5 DEF Numbered
<1>9. LiveIsNewest'
  BY <1>1, <1>5 DEF LiveIsNewest
<1>10. FileIsSaved'
  BY <1>1 DEF FileIsSaved
<1>11. AnswersAreSaved'
  BY <1>1, <1>5, <1>6 DEF AnswersAreSaved, Idle
<1>12. NewestIsCared'
  BY <1>1, <1>5 DEF NewestIsCared, Unsaved
<1>13. LoopsOverPrinters'
  BY <1>5 DEF LoopsOverPrinters, Of, Idle
<1> QED
  BY <1>7, <1>8, <1>9, <1>10, <1>11, <1>12, <1>13

(* After a restart the live config is the file and the numbers start anew.  *)
LEMMA RestartKeeps == IInv /\ Restart => IInv'
<1> SUFFICES ASSUME IInv, Restart PROVE IInv'
  OBVIOUS
<1> USE DEF IInv
<1>1. /\ crashes' = crashes + 1 /\ live' = file /\ base' = base + cloneGen
      /\ cloneGen' = 0 /\ savedGen' = 0 /\ job' = [h \in Handlers |-> Idle]
      /\ mqtt' = Running(file.list, "bambu") /\ poll' = Running(file.list, "http")
      /\ UNCHANGED <<file, answered, reported>>
  BY DEF Restart
<1>2. /\ file.list \in Configs /\ file.ver \in Nat /\ base \in Nat
      /\ cloneGen \in Nat /\ savedGen \in Nat
  BY DEF TypeOK, Stored
<1>3. ASSUME NEW kind \in {"bambu", "http"}
      PROVE  Running(file.list, kind) \in [Names -> Settings \cup {NoPrinter}]
  BY <1>2 DEF Running, Of, Configs, Printers
<1>4. TypeOK'
  BY <1>1, <1>2, <1>3 DEF TypeOK
<1>5. Numbered'
  BY <1>1 DEF Numbered
<1>6. LiveIsNewest'
  BY <1>1 DEF LiveIsNewest
<1>7. FileIsSaved'
  BY <1>1, <1>2 DEF FileIsSaved, Numbered
<1>8. AnswersAreSaved'
  BY <1>1 DEF AnswersAreSaved, Idle
<1>9. NewestIsCared'
  BY <1>1 DEF NewestIsCared
<1>10. LoopsOverPrinters'
  BY <1>1 DEF LoopsOverPrinters, Idle
<1> QED
  BY <1>4, <1>5, <1>6, <1>7, <1>8, <1>9, <1>10

-----------------------------------------------------------------------------
(* One handler's loops over the connections.                                *)
LEMMA LoopsKeep ==
  ASSUME IInv, NEW h \in Handlers,
         SyncBambu(h) \/ DropBambu(h) \/ SyncHttp(h) \/ DropHttp(h) \/ NextLoop(h)
  PROVE  IInv'
<1> USE DEF IInv
<1>1. job[h] \in Jobs /\ job[h].at \in Unsaved
  <2>1. job[h].at \in {"bambu", "drop", "http", "gone"}
    BY DEF SyncBambu, DropBambu, SyncHttp, DropHttp, NextLoop
  <2> QED
    BY <2>1, AtWork DEF Steps, Unsaved
<1>2. /\ job[h].todo \in SUBSET Names /\ job[h].new \in Configs /\ job[h].old \in Configs
      /\ mqtt \in [Names -> Settings \cup {NoPrinter}]
      /\ poll \in [Names -> Settings \cup {NoPrinter}]
  BY <1>1 DEF Jobs, TypeOK
<1>3. ASSUME NEW kind \in {"bambu", "http"}, NEW n \in Of(job[h].new, kind)
      PROVE  n \in Names /\ job[h].new[n].set \in Settings
  BY <1>2, <1>3 DEF Of, Configs, Printers
<1>4. ASSUME NEW n \in Names, NEW f \in [Names -> Settings \cup {NoPrinter}],
             NEW s \in Settings \cup {NoPrinter}
      PROVE  [f EXCEPT ![n] = s] \in [Names -> Settings \cup {NoPrinter}]
  OBVIOUS
<1>5. ASSUME NEW n \in Names
      PROVE  LET j == [job[h] EXCEPT !.todo = @ \ {n}] IN
             /\ j \in Jobs /\ j.at = job[h].at /\ j.gen = job[h].gen /\ j.new = job[h].new
             /\ j.at \in {"bambu", "http"} => j.todo \subseteq Of(j.new, j.at)
  BY <1>1 DEF Jobs, LoopsOverPrinters
<1>6. CASE SyncBambu(h)
  <2>1. PICK n \in job[h].todo :
          /\ mqtt' = [mqtt EXCEPT ![n] =
               IF n \notin Of(job[h].old, "bambu") THEN Connect(mqtt[n], job[h].new[n].set)
               ELSE IF job[h].old[n] = job[h].new[n] THEN mqtt[n] ELSE job[h].new[n].set]
          /\ job' = [job EXCEPT ![h] = [job[h] EXCEPT !.todo = @ \ {n}]]
    BY <1>6 DEF SyncBambu
  <2>2. n \in Names /\ job[h].new[n].set \in Settings
    BY <1>2, <1>3, <1>6 DEF SyncBambu, LoopsOverPrinters
  <2>3. mqtt' \in [Names -> Settings \cup {NoPrinter}]
    BY <1>2, <2>1, <2>2 DEF Connect
  <2> QED
    BY <1>1, <1>2, <1>5, <1>6, <2>1, <2>2, <2>3, WorkKeeps DEF SyncBambu
<1>7. CASE DropBambu(h)
  <2>1. PICK n \in job[h].todo :
          /\ mqtt' = [mqtt EXCEPT ![n] = NoPrinter]
          /\ job' = [job EXCEPT ![h] = [job[h] EXCEPT !.todo = @ \ {n}]]
    BY <1>7 DEF DropBambu
  <2>2. n \in Names
    BY <1>2
  <2>3. mqtt' \in [Names -> Settings \cup {NoPrinter}]
    BY <1>2, <2>1, <2>2
  <2> QED
    BY <1>1, <1>2, <1>5, <1>7, <2>1, <2>2, <2>3, WorkKeeps DEF DropBambu
<1>8. CASE SyncHttp(h)
  <2>1. PICK n \in job[h].todo :
          /\ poll' = [poll EXCEPT ![n] = job[h].new[n].set]
          /\ job' = [job EXCEPT ![h] = [job[h] EXCEPT !.todo = @ \ {n}]]
    BY <1>8 DEF SyncHttp
  <2>2. n \in Names /\ job[h].new[n].set \in Settings
    BY <1>2, <1>3, <1>8 DEF SyncHttp, LoopsOverPrinters
  <2>3. poll' \in [Names -> Settings \cup {NoPrinter}]
    BY <1>2, <2>1, <2>2
  <2> QED
    BY <1>1, <1>2, <1>5, <1>8, <2>1, <2>2, <2>3, WorkKeeps DEF SyncHttp
<1>9. CASE DropHttp(h)
  <2> DEFINE j == [job[h] EXCEPT !.at = "save"]
  <2>1. job' = [job EXCEPT ![h] = j]
    BY <1>9 DEF DropHttp
  <2>2. j \in Jobs /\ j.at = "save" /\ j.gen = job[h].gen /\ j.new = job[h].new
    BY <1>1 DEF Jobs, Steps
  <2>3. poll' \in [Names -> Settings \cup {NoPrinter}]
    BY <1>2, <1>9 DEF DropHttp
  <2> HIDE DEF j
  <2> QED
    BY <1>1, <1>2, <1>9, <2>1, <2>2, <2>3, WorkKeeps DEF DropHttp, Unsaved
<1>10. CASE NextLoop(h)
  <2>1. ASSUME NEW list \in Configs, NEW kind \in {"bambu", "http"}
        PROVE  Of(list, kind) \in SUBSET Names
    BY DEF Of
  <2>2. PICK j :
          /\ job' = [job EXCEPT ![h] = j]
          /\ j = CASE job[h].at = "bambu" -> [job[h] EXCEPT !.at = "drop",
                       !.todo = Of(job[h].old, "bambu") \ Of(job[h].new, "bambu")]
                   [] job[h].at = "drop" -> [job[h] EXCEPT !.at = "http", !.todo = Of(job[h].new, "http")]
                   [] OTHER -> [job[h] EXCEPT !.at = "gone"]
    BY <1>10 DEF NextLoop
  <2>3. job[h].at \in {"bambu", "drop", "http"}
    BY <1>10 DEF NextLoop
  <2>4. j \in Jobs /\ j.at \in Unsaved /\ j.gen = job[h].gen /\ j.new = job[h].new
    BY <1>1, <1>2, <2>1, <2>2, <2>3 DEF Jobs, Steps, Unsaved
  <2>5. j.at \in {"bambu", "http"} => j.todo \subseteq Of(j.new, j.at)
    BY <1>1, <2>2, <2>3 DEF Jobs
  <2> QED
    BY <1>1, <1>2, <1>10, <2>2, <2>4, <2>5, WorkKeeps DEF NextLoop
<1> QED
  BY <1>6, <1>7, <1>8, <1>9, <1>10

(* The steps together, those of the requests and of the loops.               *)
LEMMA InvStep == IInv /\ [Next]_vars => IInv'
<1> SUFFICES ASSUME IInv, [Next]_vars PROVE IInv'
  OBVIOUS
<1>1. live.list \in Configs /\ AnyName \in Names
  BY ConfigAssumptions DEF IInv, TypeOK, Stored, AnyName
<1>2. ASSUME NEW h \in Handlers,
             ReplaceConfig(h) \/ AddPrinter(h) \/ DeletePrinter(h) \/ EditPrinter(h) \/ ChangeSetting(h)
      PROVE  IInv'
  <2>1. CASE ReplaceConfig(h)
    BY <1>1, <2>1, ChangeKeeps DEF ReplaceConfig
  <2>2. CASE AddPrinter(h)
    <3>1. PICK n \in Names, p \in Printers : Change(h, "add", n, [live.list EXCEPT ![n] = p], "save")
      BY <2>2 DEF AddPrinter
    <3>2. [live.list EXCEPT ![n] = p] \in Configs
      BY <1>1 DEF Configs
    <3> QED
      BY <3>1, <3>2, ChangeKeeps
  <2>3. CASE DeletePrinter(h)
    <3>1. PICK n \in Names : Change(h, "delete", n, [live.list EXCEPT ![n] = NoPrinter], "save")
      BY <2>3 DEF DeletePrinter
    <3>2. [live.list EXCEPT ![n] = NoPrinter] \in Configs
      BY <1>1 DEF Configs
    <3> QED
      BY <3>1, <3>2, ChangeKeeps
  <2>4. CASE EditPrinter(h)
    <3>1. PICK n \in Names, s \in Settings :
            live.list[n] # NoPrinter /\ Change(h, "edit", n, [live.list EXCEPT ![n].set = s], "save")
      BY <2>4 DEF EditPrinter
    <3>2. [live.list[n] EXCEPT !.set = s] \in Printers
      BY <1>1, <3>1 DEF Configs, Printers
    <3>3. [live.list EXCEPT ![n].set = s] \in Configs
      BY <1>1, <3>2 DEF Configs
    <3> QED
      BY <3>1, <3>3, ChangeKeeps
  <2>5. CASE ChangeSetting(h)
    BY <1>1, <2>5, ChangeKeeps DEF ChangeSetting
  <2> QED
    BY <1>2, <2>1, <2>2, <2>3, <2>4, <2>5
<1>3. CASE UNCHANGED vars
  BY <1>3 DEF vars, IInv, TypeOK, Numbered, LiveIsNewest, FileIsSaved, AnswersAreSaved,
     NewestIsCared, LoopsOverPrinters
<1> QED
  BY <1>2, <1>3, SaveKeeps, SkipKeeps, FailKeeps, ConnectKeeps, LoopsKeep, RestartKeeps DEF Next

(* Every state of file, clones and answers is in order.                      *)
LEMMA Invariance == Spec => []IInv
  BY InvInit, InvStep, PTL DEF Spec

(* The variables stay in their sets. *)
THEOREM ConfigTypes == Spec => []TypeOK
<1>1. IInv => TypeOK
  BY DEF IInv
<1> QED
  BY <1>1, Invariance, PTL

(* A change that was answered with ok is on disk from then on, whatever the *)
(* order and the failures of the saves, and across restarts (SaveConfig).   *)
THEOREM AcknowledgedSurvives == Spec => []AnsweredIsKept
<1>1. IInv => AnsweredIsKept
  BY DEF IInv, AnswersAreSaved, AnsweredIsKept
<1> QED
  BY <1>1, Invariance, PTL

(* With no save left to do the file holds the live config, unless the       *)
(* newest change was reported as not saved.                                 *)
THEOREM SettledIsLive == Spec => []SettledFileIsLive
<1>1. IInv => SettledFileIsLive
  <2> SUFFICES ASSUME IInv, \A h \in Handlers : job[h].at \in {"idle", "connect"}, reported < live.ver
               PROVE  file.list = live.list
    BY DEF SettledFileIsLive
  <2>1. cloneGen \in Nat /\ reported \in Nat /\ live.ver \in Nat
    BY DEF IInv, TypeOK, Stored
  <2>2. CASE cloneGen = 0
    BY <2>2 DEF IInv, LiveIsNewest
  <2>3. CASE cloneGen > 0
    <3>1. savedGen = cloneGen
      BY <2>1, <2>3 DEF IInv, NewestIsCared, Unsaved
    <3> QED
      BY <2>3, <3>1 DEF IInv, FileIsSaved
  <2> QED
    BY <2>1, <2>2, <2>3
<1> QED
  BY <1>1, Invariance, PTL

(* No step puts an older config on disk, so no save undoes another          *)
(* (Clone's numbers and savedGen).                                          *)
THEOREM NeverBack == Spec => FileNeverGoesBack
<1>1. IInv /\ [Next]_vars => [file'.ver >= file.ver]_vars
  <2> SUFFICES ASSUME IInv, Next PROVE file'.ver >= file.ver
    OBVIOUS
  <2>1. file.ver \in Nat
    BY DEF IInv, TypeOK, Stored
  <2>2. ASSUME NEW h \in Handlers, Save(h) PROVE file'.ver >= file.ver
    BY <2>2, SaveKeeps
  <2>3. CASE UNCHANGED file
    BY <2>1, <2>3
  <2>4. (\E h \in Handlers : Save(h)) \/ UNCHANGED file
    BY DEF Next, ReplaceConfig, AddPrinter, DeletePrinter, EditPrinter, ChangeSetting, Change,
       SkipSave, SaveFails, SyncBambu, DropBambu, SyncHttp, DropHttp, NextLoop, ConnectOne, Restart
  <2> QED
    BY <2>2, <2>3, <2>4
<1> QED
  BY <1>1, Invariance, PTL DEF Spec, FileNeverGoesBack

-----------------------------------------------------------------------------
(* SelfUpdate.                                                               *)

UpdateTypes ==
    /\ supervised \in BOOLEAN /\ inProgress \in BOOLEAN /\ pending \in BOOLEAN /\ twice \in BOOLEAN
    /\ install \in [Installs -> [at : {"idle", "begin", "download", "verify", "copy", "staged", "restart", "over"},
                                 file : {"none", "new", "cut"}]]
    /\ beside \in {"none", "part", "new", "cut"} /\ exe \in {"old", "part", "new", "cut"}
    /\ process \in {"runs", "leaving", "gone"} /\ updated \in {"none", "starts", "ended", "runs"}

(* An install that has begun and not ended: there is one at most, and        *)
(* installInProgress tells of it.                                            *)
Installing(i) == install[i].at \in {"download", "verify", "copy", "staged"}
OneInstall ==
    /\ \A i \in Installs : Installing(i) => inProgress
    /\ \A i, j \in Installs : Installing(i) /\ Installing(j) => i = j

(* Only what was verified is copied; and as long as no install has begun     *)
(* over a staged update, nothing is staged while one is at work, and what is *)
(* staged is whole.                                                          *)
StagedIsWhole ==
    /\ \A i \in Installs : install[i].at \in {"copy", "staged"} => install[i].file = "new"
    /\ \A i \in Installs : install[i].at \in {"download", "verify", "copy"} /\ ~twice => ~pending
    /\ pending /\ ~twice => beside \in {"none", "new"}

UpdateInv == UpdateTypes /\ OneInstall /\ StagedIsWhole /\ UpdateIsWhole

LEMMA UpdateStart == UpdateInit => UpdateInv
<1> SUFFICES ASSUME UpdateInit PROVE UpdateInv
  OBVIOUS
<1>1. \A i \in Installs : install[i].at = "idle" BY DEF UpdateInit
<1>2. UpdateTypes BY DEF UpdateInit, UpdateTypes
<1>3. OneInstall /\ StagedIsWhole BY <1>1 DEF UpdateInit, OneInstall, Installing, StagedIsWhole
<1>4. UpdateIsWhole BY DEF UpdateInit, UpdateIsWhole
<1> QED BY <1>2, <1>3, <1>4 DEF UpdateInv

(* An install that goes from one stage to another keeps what it downloaded.  *)
LEMMA GoesDoes ==
    ASSUME UpdateTypes, NEW i \in Installs,
           NEW at \in {"idle", "begin", "download", "verify", "copy", "staged", "restart", "over"},
           Goes(i, at)
    PROVE  /\ install' \in [Installs -> [at : {"idle", "begin", "download", "verify", "copy", "staged",
                                               "restart", "over"}, file : {"none", "new", "cut"}]]
           /\ install'[i].at = at /\ install'[i].file = install[i].file
           /\ \A j \in Installs \ {i} : install'[j] = install[j]
BY DEF UpdateTypes, Goes

(* The steps of StartInstall, one by one.                                    *)
LEMMA InstallOK == ASSUME UpdateInv, NEW i \in Installs, Install(i) PROVE UpdateInv'
<1> USE DEF UpdateInv
<1>1. CASE SeesNothingStaged(i)
  <2>1. /\ install[i].at = "idle" /\ Goes(i, "begin")
        /\ UNCHANGED <<supervised, exe, process, updated, inProgress, pending, beside, twice, failures>>
    BY <1>1 DEF SeesNothingStaged, Rest
  <2>2. /\ install'[i].at = "begin" /\ install'[i].file = install[i].file
        /\ \A j \in Installs \ {i} : install'[j] = install[j]
        /\ UpdateTypes'
    BY <2>1, GoesDoes DEF UpdateTypes
  <2> QED BY <2>1, <2>2 DEF OneInstall, Installing, StagedIsWhole, UpdateIsWhole
<1>2. CASE BeginInstall(i)
  <2>1. install[i].at = "begin" /\ UNCHANGED <<supervised, exe, process, updated, pending, beside, failures>>
    BY <1>2 DEF BeginInstall, Rest
  <2>2. CASE ~inProgress /\ inProgress' = TRUE /\ twice' = (twice \/ pending) /\ Goes(i, "download")
    <3>1. /\ install'[i].at = "download" /\ install'[i].file = install[i].file
          /\ \A j \in Installs \ {i} : install'[j] = install[j]
          /\ UpdateTypes'
      BY <2>1, <2>2, GoesDoes DEF UpdateTypes
    <3>2. OneInstall' BY <2>2, <3>1 DEF OneInstall, Installing
    <3>3. StagedIsWhole' BY <2>1, <2>2, <3>1 DEF StagedIsWhole
    <3> QED BY <2>1, <2>2, <3>1, <3>2, <3>3 DEF UpdateIsWhole
  <2>3. CASE inProgress /\ Goes(i, "over") /\ UNCHANGED <<inProgress, twice>>
    <3>1. /\ install'[i].at = "over" /\ install'[i].file = install[i].file
          /\ \A j \in Installs \ {i} : install'[j] = install[j]
          /\ UpdateTypes'
      BY <2>1, <2>3, GoesDoes DEF UpdateTypes
    <3> QED BY <2>1, <2>3, <3>1 DEF OneInstall, Installing, StagedIsWhole, UpdateIsWhole
  <2> QED BY <1>2, <2>2, <2>3 DEF BeginInstall
<1>3. CASE InstallFails(i)
  <2>1. /\ install[i].at \in {"download", "verify", "copy"} /\ Goes(i, "idle") /\ inProgress' = FALSE
        /\ beside' = IF install[i].at = "copy" THEN "none" ELSE beside
        /\ UNCHANGED <<supervised, exe, process, updated, pending, twice>>
    BY <1>3 DEF InstallFails, Rest
  <2>2. /\ install'[i].at = "idle" /\ install'[i].file = install[i].file
        /\ \A j \in Installs \ {i} : install'[j] = install[j]
        /\ UpdateTypes'
    BY <2>1, GoesDoes DEF UpdateTypes
  <2> QED BY <2>1, <2>2 DEF OneInstall, Installing, StagedIsWhole, UpdateIsWhole
<1>4. CASE Download(i)
  <2>1. PICK got \in {"new", "cut"} : install' = [install EXCEPT ![i] = [at |-> "verify", file |-> got]]
    BY <1>4 DEF Download
  <2>2. /\ install[i].at = "download"
        /\ UNCHANGED <<supervised, exe, process, updated, inProgress, pending, beside, twice>>
    BY <1>4 DEF Download, Rest
  <2>3. /\ install'[i].at = "verify" /\ \A j \in Installs \ {i} : install'[j] = install[j]
        /\ UpdateTypes'
    BY <2>1, <2>2 DEF UpdateTypes
  <2> QED BY <2>2, <2>3 DEF OneInstall, Installing, StagedIsWhole, UpdateIsWhole
<1>5. CASE CopyBegins(i)
  <2>1. install[i].at = "verify" /\ UNCHANGED <<supervised, exe, process, updated, pending, twice>>
    BY <1>5 DEF CopyBegins, Rest
  <2>2. CASE Verified(i) /\ Goes(i, "copy") /\ beside' = "part" /\ UNCHANGED inProgress
    <3>1. /\ install'[i].at = "copy" /\ install'[i].file = install[i].file
          /\ \A j \in Installs \ {i} : install'[j] = install[j]
          /\ UpdateTypes'
      BY <2>1, <2>2, GoesDoes DEF UpdateTypes
    <3> QED BY <2>1, <2>2, <3>1 DEF OneInstall, Installing, StagedIsWhole, UpdateIsWhole, Verified
  <2>3. CASE ~Verified(i) /\ Goes(i, "over") /\ inProgress' = FALSE /\ UNCHANGED beside
    <3>1. /\ install'[i].at = "over" /\ install'[i].file = install[i].file
          /\ \A j \in Installs \ {i} : install'[j] = install[j]
          /\ UpdateTypes'
      BY <2>1, <2>3, GoesDoes DEF UpdateTypes
    <3> QED BY <2>1, <2>3, <3>1 DEF OneInstall, Installing, StagedIsWhole, UpdateIsWhole
  <2> QED BY <1>5, <2>2, <2>3 DEF CopyBegins
<1>6. CASE CopyEnds(i)
  <2>1. /\ install[i].at = "copy" /\ Goes(i, "staged") /\ beside' = install[i].file /\ pending' = TRUE
        /\ UNCHANGED <<supervised, exe, process, updated, inProgress, twice>>
    BY <1>6 DEF CopyEnds, Rest
  <2>2. /\ install'[i].at = "staged" /\ install'[i].file = install[i].file
        /\ \A j \in Installs \ {i} : install'[j] = install[j]
        /\ install[i].file = "new" /\ UpdateTypes'
    BY <2>1, GoesDoes DEF UpdateTypes, StagedIsWhole
  <2> QED BY <2>1, <2>2 DEF OneInstall, Installing, StagedIsWhole, UpdateIsWhole
<1>7. CASE InstallEnds(i)
  <2>1. PICK at \in {"restart", "over"} : Goes(i, at) BY <1>7 DEF InstallEnds
  <2>2. /\ install[i].at = "staged" /\ inProgress' = FALSE
        /\ UNCHANGED <<supervised, exe, process, updated, pending, beside, twice>>
    BY <1>7 DEF InstallEnds, Rest
  <2>3. /\ install'[i].at \in {"restart", "over"} /\ install'[i].file = install[i].file
        /\ \A j \in Installs \ {i} : install'[j] = install[j]
        /\ UpdateTypes'
    BY <2>1, <2>2, GoesDoes, ZenonT(60) DEF UpdateTypes
  <2> QED BY <2>2, <2>3 DEF OneInstall, Installing, StagedIsWhole, UpdateIsWhole
<1> QED BY <1>1, <1>2, <1>3, <1>4, <1>5, <1>6, <1>7 DEF Install

(* What is applied is staged; it takes the place of the program.             *)
LEMMA ApplyOK ==
    ASSUME UpdateInv, Apply, install' \in [Installs -> [at : {"idle", "begin", "download", "verify", "copy",
                                                              "staged", "restart", "over"},
                                                        file : {"none", "new", "cut"}]],
           \A i \in Installs : /\ install'[i].file = install[i].file
                               /\ \/ install'[i].at = install[i].at
                                  \/ install'[i].at = "over" /\ install[i].at = "restart",
           UNCHANGED <<supervised, inProgress, twice>>
    PROVE  UpdateInv'
<1> USE DEF UpdateInv
<1>1. pending /\ pending' = FALSE BY DEF Apply
<1>2. UpdateTypes' BY <1>1 DEF Apply, UpdateTypes
<1>3. OneInstall' BY DEF OneInstall, Installing
<1>4. StagedIsWhole' BY <1>1 DEF StagedIsWhole, Installing
<1>5. UpdateIsWhole' BY <1>1 DEF Apply, UpdateIsWhole, StagedIsWhole, UpdateTypes
<1> QED BY <1>2, <1>3, <1>4, <1>5

LEMMA UpdateStepOK == UpdateInv /\ [UpdateNext]_updateVars => UpdateInv'
<1> SUFFICES ASSUME UpdateInv, [UpdateNext]_updateVars PROVE UpdateInv'
  OBVIOUS
<1>1. ASSUME NEW i \in Installs, Install(i) PROVE UpdateInv' BY <1>1, InstallOK
<1>2. CASE PressRestart
  <2>1. Apply /\ UNCHANGED <<supervised, install, inProgress, twice>> BY <1>2 DEF PressRestart
  <2>2. \A i \in Installs : install'[i].file = install[i].file /\ install'[i].at = install[i].at BY <2>1
  <2>3. install' \in [Installs -> [at : {"idle", "begin", "download", "verify", "copy", "staged",
                                         "restart", "over"}, file : {"none", "new", "cut"}]]
    BY <2>1 DEF UpdateInv, UpdateTypes
  <2> QED BY <2>1, <2>2, <2>3, ApplyOK
<1>3. CASE LoopRestarts
  <2>1. "loop" \in Installs BY DEF Installs
  <2>2. /\ install["loop"].at = "restart" /\ Goes("loop", "over") /\ UNCHANGED <<supervised, inProgress, twice>>
    BY <1>3 DEF LoopRestarts
  <2>3. /\ install' \in [Installs -> [at : {"idle", "begin", "download", "verify", "copy", "staged",
                                            "restart", "over"}, file : {"none", "new", "cut"}]]
        /\ install'["loop"].at = "over" /\ install'["loop"].file = install["loop"].file
        /\ \A j \in Installs \ {"loop"} : install'[j] = install[j]
    BY <2>1, <2>2, GoesDoes DEF UpdateInv
  <2>4. \A i \in Installs : /\ install'[i].file = install[i].file
                            /\ \/ install'[i].at = install[i].at
                               \/ install'[i].at = "over" /\ install[i].at = "restart"
    BY <2>2, <2>3
  <2>5. CASE Apply BY <2>2, <2>3, <2>4, <2>5, ApplyOK
  <2>6. CASE UNCHANGED <<pending, beside, exe, process, updated>>
    <3>1. UpdateTypes' BY <2>2, <2>3, <2>6 DEF UpdateInv, UpdateTypes
    <3>2. OneInstall' BY <2>2, <2>4 DEF UpdateInv, OneInstall, Installing
    <3>3. StagedIsWhole' BY <2>2, <2>4, <2>6 DEF UpdateInv, StagedIsWhole, Installing
    <3> QED BY <2>2, <2>6, <3>1, <3>2, <3>3 DEF UpdateInv, UpdateIsWhole
  <2> QED BY <1>3, <2>5, <2>6 DEF LoopRestarts
<1>4. CASE Exit
  BY <1>4 DEF Exit, UpdateInv, UpdateTypes, OneInstall, Installing, StagedIsWhole, UpdateIsWhole
<1>5. CASE NewListens
  BY <1>5 DEF NewListens, UpdateInv, UpdateTypes, OneInstall, Installing, StagedIsWhole, UpdateIsWhole
<1>6. CASE UNCHANGED updateVars
  BY <1>6 DEF updateVars, UpdateInv, UpdateTypes, OneInstall, Installing, StagedIsWhole, UpdateIsWhole
<1> QED BY <1>1, <1>2, <1>3, <1>4, <1>5, <1>6 DEF UpdateNext

-----------------------------------------------------------------------------
(* SignIn.                                                                   *)

SignInTypes ==
    /\ password \in Nat /\ made \in Nat
    /\ request \in [Requests -> [at : {"none", "over", "save", "wait", "check"}, by : Callers \cup {"none"},
                                 does : {"none", "login", "set", "remove"}, types : Nat, seen : Nat]]
    /\ \A r \in Requests : request[r].at # "none" => request[r].by \in Callers
    /\ fails \in [Callers -> Nat] /\ locked \in [Callers -> BOOLEAN] /\ waited \in [Callers -> Nat]
    /\ guesses = fails

(* A session is signed with what its owner knew; an address that is not      *)
(* locked has a try left.                                                    *)
CookiesOK == \A k \in cookies : k.signed = k.knew
LockOK(c) == fails[c] + (IF locked[c] THEN 0 ELSE 1) <= FreeTries + waited[c]
SignInInv == SignInTypes /\ CookiesOK /\ \A c \in Callers : LockOK(c)

LEMMA SignInStart == SignInInit => SignInInv
<1> SUFFICES ASSUME SignInInit PROVE SignInInv
  OBVIOUS
<1> USE TriesAssumption
<1>1. SignInTypes BY DEF SignInInit, SignInTypes, NoRequest, NoPassword
<1>2. CookiesOK /\ \A c \in Callers : LockOK(c) BY DEF SignInInit, CookiesOK, LockOK
<1> QED BY <1>1, <1>2 DEF SignInInv

(* A step that leaves the tries alone.                                       *)
LEMMA TriesStay ==
    ASSUME SignInInv, TriesKept
    PROVE  /\ fails' \in [Callers -> Nat] /\ locked' \in [Callers -> BOOLEAN] /\ waited' \in [Callers -> Nat]
           /\ guesses' = fails' /\ \A c \in Callers : LockOK(c)'
BY DEF SignInInv, SignInTypes, TriesKept, LockOK

(* The right password clears them.                                           *)
LEMMA ClearsDoes ==
    ASSUME SignInInv, NEW c \in Callers, Clears(c)
    PROVE  /\ fails' \in [Callers -> Nat] /\ locked' \in [Callers -> BOOLEAN] /\ waited' \in [Callers -> Nat]
           /\ guesses' = fails' /\ \A d \in Callers : LockOK(d)'
<1> USE TriesAssumption
<1>1. /\ fails' \in [Callers -> Nat] /\ locked' \in [Callers -> BOOLEAN] /\ waited' \in [Callers -> Nat]
      /\ guesses' = fails'
  BY DEF SignInInv, SignInTypes, Clears
<1>2. fails'[c] = 0 /\ locked'[c] = FALSE /\ waited'[c] = 0 BY DEF SignInInv, SignInTypes, Clears
<1>3. \A d \in Callers \ {c} : fails'[d] = fails[d] /\ locked'[d] = locked[d] /\ waited'[d] = waited[d]
  BY DEF SignInInv, SignInTypes, Clears
<1>4. LockOK(c)' BY <1>2 DEF LockOK
<1>5. \A d \in Callers \ {c} : LockOK(d)' BY <1>3 DEF SignInInv, LockOK
<1> QED BY <1>1, <1>4, <1>5

(* A try that counts locks the address when it was its last free one.        *)
LEMMA CountsDoes ==
    ASSUME SignInInv, NEW c \in Callers, ~locked[c], Counts(c), guesses' = [guesses EXCEPT ![c] = @ + 1],
           UNCHANGED waited
    PROVE  /\ fails' \in [Callers -> Nat] /\ locked' \in [Callers -> BOOLEAN] /\ waited' \in [Callers -> Nat]
           /\ guesses' = fails' /\ \A d \in Callers : LockOK(d)'
<1> USE TriesAssumption
<1>1. fails[c] \in Nat /\ waited[c] \in Nat BY DEF SignInInv, SignInTypes
<1>2. /\ fails' \in [Callers -> Nat] /\ locked' \in [Callers -> BOOLEAN] /\ waited' \in [Callers -> Nat]
      /\ guesses' = fails'
  BY <1>1 DEF SignInInv, SignInTypes, Counts
<1>3. fails'[c] = fails[c] + 1 /\ locked'[c] = (fails[c] + 1 >= FreeTries)
  BY DEF SignInInv, SignInTypes, Counts
<1>4. \A d \in Callers \ {c} : fails'[d] = fails[d] /\ locked'[d] = locked[d]
  BY DEF SignInInv, SignInTypes, Counts
<1>5. LockOK(c)'
  <2>1. waited'[c] = waited[c] OBVIOUS
  <2>2. (IF locked[c] THEN 0 ELSE 1) = 1 OBVIOUS
  <2>3. fails[c] + 1 <= FreeTries + waited[c]
    <3>1. LockOK(c) BY DEF SignInInv
    <3>2. fails[c] + (IF locked[c] THEN 0 ELSE 1) <= FreeTries + waited[c] BY <3>1 DEF LockOK
    <3> QED BY <1>1, <2>2, <3>2
  <2>4. CASE fails[c] + 1 >= FreeTries
    <3>1. locked'[c] = TRUE BY <1>3, <2>4
    <3>2. (IF locked'[c] THEN 0 ELSE 1) = 0 BY <3>1
    <3> QED BY <1>1, <1>3, <2>1, <2>3, <2>4, <3>1, <3>2 DEF LockOK
  <2>5. CASE fails[c] + 1 < FreeTries
    <3>0. ~(fails[c] + 1 >= FreeTries) BY <1>1, <2>5
    <3>1. ~locked'[c] BY <1>3, <3>0, Zenon
    <3> QED BY <1>1, <1>3, <2>5, <3>1 DEF LockOK
  <2> QED BY <1>1, <2>4, <2>5
<1>6. \A d \in Callers \ {c} : LockOK(d)' BY <1>4 DEF SignInInv, LockOK
<1> QED BY <1>2, <1>5, <1>6

LEMMA SignInStepOK == SignInInv /\ [SignInNext]_signInVars => SignInInv'
<1> SUFFICES ASSUME SignInInv, [SignInNext]_signInVars PROVE SignInInv'
  OBVIOUS
<1> USE TriesAssumption
<1>t. SignInTypes /\ CookiesOK BY DEF SignInInv
<1> DEFINE ReqOK == /\ request' \in [Requests -> [at : {"none", "over", "save", "wait", "check"},
                                       by : Callers \cup {"none"}, does : {"none", "login", "set", "remove"},
                                       types : Nat, seen : Nat]]
                    /\ \A r \in Requests : request'[r].at # "none" => request'[r].by \in Callers
           TriesOK == /\ fails' \in [Callers -> Nat] /\ locked' \in [Callers -> BOOLEAN]
                      /\ waited' \in [Callers -> Nat]
                      /\ guesses' = fails' /\ \A d \in Callers : LockOK(d)'
<1>a. ASSUME ReqOK, TriesOK, CookiesOK', password' \in Nat, made' \in Nat PROVE SignInInv'
  BY <1>a DEF SignInInv, SignInTypes
<1>m. ASSUME NEW r \in Requests, NEW at \in {"over", "save", "check"}, Moves(r, at), request[r].at # "none"
      PROVE  ReqOK
  BY <1>m, <1>t DEF Moves, SignInTypes
<1> HIDE DEF ReqOK, TriesOK
<1>1. ASSUME NEW r \in Requests, NEW c \in Callers, NEW does \in {"login", "set", "remove"},
             NEW types \in 0 .. made, Arrive(r, c, does, types)
      PROVE  SignInInv'
  <2>1. PICK at \in {"over", "save", "wait"} :
          request' = [request EXCEPT ![r] = [at |-> at, by |-> c, does |-> does, types |-> types, seen |-> password]]
    BY <1>1 DEF Arrive
  <2>2. ReqOK BY <1>t, <2>1 DEF ReqOK, SignInTypes
  <2>3. UNCHANGED <<password, made, cookies>> BY <1>1 DEF Arrive
  <2>4. TriesOK
    <3>1. CASE TriesKept BY <3>1, TriesStay DEF TriesOK
    <3>2. CASE /\ ~locked[c] /\ Counts(c)
               /\ guesses' = [guesses EXCEPT ![c] = @ + 1] /\ UNCHANGED waited
      BY <3>2, CountsDoes DEF TriesOK
    <3> QED BY <1>1, <3>1, <3>2 DEF Arrive
  <2> QED BY <1>a, <1>t, <2>2, <2>3, <2>4 DEF CookiesOK, SignInTypes
<1>2. ASSUME NEW r \in Requests, TakeSlot(r) \/ Busy(r) PROVE SignInInv'
  <2>1. /\ UNCHANGED <<password, made, cookies>> /\ TriesKept /\ request[r].at = "wait"
        /\ Moves(r, "check") \/ Moves(r, "over")
    BY <1>2 DEF TakeSlot, Busy
  <2>2. ReqOK BY <1>m, <2>1
  <2>3. TriesOK BY <2>1, TriesStay DEF TriesOK
  <2> QED BY <1>a, <1>t, <2>1, <2>2, <2>3 DEF CookiesOK, SignInTypes
<1>3. ASSUME NEW r \in Requests, CheckEnds(r) PROVE SignInInv'
  <2>1. request[r].at = "check" /\ UNCHANGED <<password, made>> BY <1>3 DEF CheckEnds
  <2>2. request[r].by \in Callers BY <1>t, <2>1 DEF SignInTypes
  <2>3. \/ Moves(r, "over") /\ TriesKept /\ UNCHANGED cookies
        \/ /\ request[r].types = request[r].seen /\ Moves(r, "over") /\ Clears(request[r].by)
           /\ cookies' = cookies \cup {[signed |-> SignsWith(r), knew |-> request[r].types]}
        \/ Moves(r, "save") /\ TriesKept /\ UNCHANGED cookies
    BY <1>3 DEF CheckEnds
  <2>4. ReqOK BY <1>m, <2>1, <2>3
  <2>5. TriesOK BY <2>2, <2>3, TriesStay, ClearsDoes DEF TriesOK
  <2>6. CookiesOK' BY <1>t, <2>3 DEF CookiesOK, SignsWith
  <2> QED BY <1>a, <1>t, <2>1, <2>4, <2>5, <2>6 DEF SignInTypes
<1>4. ASSUME NEW r \in Requests, SavePassword(r) PROVE SignInInv'
  <2>1. request[r].at = "save" /\ Moves(r, "over") BY <1>4 DEF SavePassword
  <2>2. request[r].by \in Callers BY <1>t, <2>1 DEF SignInTypes
  <2>3. \/ TriesKept /\ UNCHANGED <<password, made, cookies>>
        \/ Clears(request[r].by) /\ password' = NoPassword /\ UNCHANGED <<made, cookies>>
        \/ /\ Clears(request[r].by) /\ password' = made + 1 /\ made' = made + 1
           /\ cookies' = cookies \cup {[signed |-> made + 1, knew |-> made + 1]}
    BY <1>4 DEF SavePassword
  <2>4. ReqOK BY <1>m, <2>1
  <2>5. TriesOK BY <2>2, <2>3, TriesStay, ClearsDoes DEF TriesOK
  <2>6. CookiesOK' BY <1>t, <2>3 DEF CookiesOK
  <2>7. password' \in Nat /\ made' \in Nat BY <1>t, <2>3 DEF SignInTypes, NoPassword
  <2> QED BY <1>a, <2>4, <2>5, <2>6, <2>7
<1>5. ASSUME NEW c \in Callers, LockEnds(c) PROVE SignInInv'
  <2>1. /\ locked[c] /\ locked' = [locked EXCEPT ![c] = FALSE] /\ waited' = [waited EXCEPT ![c] = @ + 1]
        /\ UNCHANGED <<password, made, request, fails, guesses, cookies>>
    BY <1>5 DEF LockEnds
  <2>2. ReqOK BY <1>t, <2>1 DEF ReqOK, SignInTypes
  <2>3. TriesOK
    <3>1. fails[c] \in Nat /\ waited[c] \in Nat BY <1>t DEF SignInTypes
    <3>2. /\ fails' \in [Callers -> Nat] /\ locked' \in [Callers -> BOOLEAN] /\ waited' \in [Callers -> Nat]
          /\ guesses' = fails' /\ fails'[c] = fails[c] /\ waited'[c] = waited[c] + 1 /\ ~locked'[c]
      BY <1>t, <2>1, <3>1 DEF SignInTypes
    <3>3. \A d \in Callers \ {c} : fails'[d] = fails[d] /\ waited'[d] = waited[d] /\ locked'[d] = locked[d]
      BY <1>t, <2>1 DEF SignInTypes
    <3>4. LockOK(c)
      BY DEF SignInInv
    <3>5. LockOK(c)' BY <2>1, <3>1, <3>2, <3>4 DEF LockOK
    <3>6. \A d \in Callers \ {c} : LockOK(d)' BY <3>3 DEF SignInInv, LockOK
    <3> QED BY <3>2, <3>5, <3>6 DEF TriesOK
  <2> QED BY <1>a, <1>t, <2>1, <2>2, <2>3 DEF CookiesOK, SignInTypes
<1>6. CASE UNCHANGED signInVars
  BY <1>6 DEF signInVars, SignInInv, SignInTypes, CookiesOK, LockOK
<1> QED BY <1>1, <1>2, <1>3, <1>4, <1>5, <1>6 DEF SignInNext

LEMMA SignInFollows == SignInInv => SignInIsSafe
<1> SUFFICES ASSUME SignInInv PROVE SignInIsSafe
  OBVIOUS
<1>1. SessionsKnowThePassword BY DEF SignInInv, CookiesOK, SessionsKnowThePassword, ValidSession
<1>2. TriesAreLimited
  <2> SUFFICES ASSUME NEW c \in Callers PROVE guesses[c] <= FreeTries + waited[c]
    BY DEF TriesAreLimited
  <2>1. guesses[c] = fails[c] /\ fails[c] \in Nat /\ waited[c] \in Nat BY DEF SignInInv, SignInTypes
  <2> QED BY <2>1, TriesAssumption DEF SignInInv, LockOK
<1> QED BY <1>1, <1>2 DEF SignInIsSafe

-----------------------------------------------------------------------------
(* VirtualPrinter.                                                           *)

SlicerTypes ==
    /\ wanted \in [on : BOOLEAN, port : SlicerPorts, key : SlicerKeys, linked : BOOLEAN]
    /\ upload \in [SlicerFiles -> {"none", "handle", "count", "busy", "read", "forward", "refused", "created"}]
    /\ applied \in BOOLEAN
    /\ server \in [srv : BOOLEAN, port : SlicerPorts \cup {"none"}, key : SlicerKeys \cup {"none"}, linked : BOOLEAN]
SlicerInv == SlicerTypes /\ ServerFollows /\ SlotsComeBack

(* The requests at some steps.                                               *)
At(places) == {u \in SlicerFiles : upload[u] \in places}
Working == At({"read", "forward"})
Counted == At({"busy", "read", "forward"})

SlotsAdd == /\ Cardinality(Working) <= MaxUploads /\ uploading = Cardinality(Counted)
            /\ temp = At({"forward"})

LEMMA SlotsMean == (SlotsComeBack <=> SlotsAdd) /\ (SlotsComeBack' <=> SlotsAdd')
BY DEF SlotsComeBack, SlotsAdd, Working, Counted, At

LEMMA AtIsFinite == \A places : IsFiniteSet(At(places)) /\ Cardinality(At(places)) \in Nat
<1>1. TAKE places
<1>2. At(places) \subseteq SlicerFiles BY DEF At
<1> QED BY <1>2, SlicerAssumption, FS_Subset, FS_CardinalityType

(* A request moves: who is at some steps changes by it alone.                *)
LEMMA PutsDoes ==
    ASSUME SlicerTypes, NEW u \in SlicerFiles, NEW places,
           NEW at \in {"none", "handle", "count", "busy", "read", "forward", "refused", "created"}, Puts(u, at)
    PROVE  /\ upload' \in [SlicerFiles -> {"none", "handle", "count", "busy", "read", "forward", "refused", "created"}]
           /\ at \in places => At(places)' = At(places) \cup {u}
           /\ at \notin places => At(places)' = At(places) \ {u}
           /\ (at \in places <=> upload[u] \in places) => At(places)' = At(places)
           /\ u \in At(places) <=> upload[u] \in places
<1>1. upload' \in [SlicerFiles -> {"none", "handle", "count", "busy", "read", "forward", "refused", "created"}]
  BY DEF SlicerTypes, Puts
<1>2. upload'[u] = at /\ \A v \in SlicerFiles \ {u} : upload'[v] = upload[v] BY DEF SlicerTypes, Puts
<1>3. at \in places => At(places)' = At(places) \cup {u} BY <1>2 DEF At
<1>4. at \notin places => At(places)' = At(places) \ {u} BY <1>2 DEF At
<1>5. (at \in places <=> upload[u] \in places) => At(places)' = At(places) BY <1>2 DEF At
<1> QED BY <1>1, <1>3, <1>4, <1>5 DEF At

(* One request more, or one less.                                            *)
LEMMA OneMore ==
    ASSUME NEW places, NEW u, u \notin At(places)
    PROVE  Cardinality(At(places) \cup {u}) = Cardinality(At(places)) + 1
BY AtIsFinite, FS_AddElement

LEMMA OneLess ==
    ASSUME NEW places, NEW u, u \in At(places)
    PROVE  Cardinality(At(places) \ {u}) = Cardinality(At(places)) - 1
BY AtIsFinite, FS_RemoveElement

LEMMA SlicerStart == SlicerInit => SlicerInv
<1> SUFFICES ASSUME SlicerInit PROVE SlicerInv
  OBVIOUS
<1>1. SlicerTypes BY DEF SlicerInit, SlicerTypes
<1>2. ServerFollows BY DEF SlicerInit, ServerFollows
<1>3. \A places : "none" \notin places => At(places) = {} BY DEF SlicerInit, At
<1>4. Working = {} /\ Counted = {} /\ At({"forward"}) = {} BY <1>3 DEF Working, Counted
<1>5. Cardinality({}) = 0 BY FS_EmptySet
<1>6. Cardinality(Working) = 0 /\ Cardinality(Counted) = 0 BY <1>4, <1>5
<1>7. SlotsAdd BY <1>4, <1>6, SlicerAssumption DEF SlotsAdd, SlicerInit
<1>8. SlotsComeBack BY <1>7, SlotsMean
<1> QED BY <1>1, <1>2, <1>8 DEF SlicerInv

(* A request that moves among the steps that hold no slot.                   *)
LEMMA SlotlessOK ==
    ASSUME SlicerInv, NEW u \in SlicerFiles, NEW at \in {"none", "handle", "count", "refused", "created"},
           Puts(u, at), upload[u] \in {"none", "handle", "count"}, UNCHANGED <<uploading, temp>>
    PROVE  SlotsComeBack'
<1>1. SlicerTypes /\ SlotsComeBack BY DEF SlicerInv
<1>2. \A places : at \notin places /\ upload[u] \notin places => At(places)' = At(places)
  BY <1>1, PutsDoes
<1>3. Working' = Working /\ Counted' = Counted /\ At({"forward"})' = At({"forward"})
  BY <1>2 DEF Working, Counted
<1> QED BY <1>1, <1>3, SlotsMean DEF SlotsAdd

LEMMA SlicerStepOK == SlicerInv /\ [SlicerNext]_slicerVars => SlicerInv'
<1> SUFFICES ASSUME SlicerInv, [SlicerNext]_slicerVars PROVE SlicerInv'
  OBVIOUS
<1> USE SlicerAssumption
<1>t. SlicerTypes /\ ServerFollows /\ SlotsComeBack BY DEF SlicerInv
<1>n. /\ Cardinality(Working) <= MaxUploads /\ uploading = Cardinality(Counted) /\ temp = At({"forward"})
  BY <1>t, SlotsMean DEF SlotsAdd
<1>f. Cardinality(Working) \in Nat /\ Cardinality(Counted) \in Nat BY AtIsFinite DEF Working, Counted
<1>r. ASSUME OnlyRequest, SlotsComeBack', NEW u \in SlicerFiles, Puts(u, upload'[u]), 
             upload'[u] \in {"none", "handle", "count", "busy", "read", "forward", "refused", "created"}
      PROVE  SlicerInv'
  <2>1. SlicerTypes' BY <1>r, <1>t, PutsDoes DEF SlicerTypes, OnlyRequest
  <2>2. ServerFollows' BY <1>r, <1>t DEF ServerFollows, OnlyRequest
  <2> QED BY <1>r, <2>1, <2>2 DEF SlicerInv
<1>p. ASSUME NEW u \in SlicerFiles, NEW at, Puts(u, at) PROVE upload'[u] = at
  BY <1>p, <1>t DEF Puts, SlicerTypes
<1>s. ASSUME UNCHANGED <<upload, uploading, temp>> PROVE SlotsComeBack'
  BY <1>s, <1>t DEF SlotsComeBack
<1>1. CASE ChangeSlicer
  <2>1. SlotsComeBack' BY <1>1, <1>s DEF ChangeSlicer
  <2>2. SlicerTypes' /\ ServerFollows' BY <1>1, <1>t DEF ChangeSlicer, SlicerTypes, ServerFollows
  <2> QED BY <2>1, <2>2 DEF SlicerInv
<1>2. CASE ApplySlicer
  <2>1. SlotsComeBack' BY <1>2, <1>s DEF ApplySlicer
  <2>2. SlicerTypes'
    <3> DEFINE Servers == [srv : BOOLEAN, port : SlicerPorts \cup {"none"}, key : SlicerKeys \cup {"none"},
                           linked : BOOLEAN]
    <3>1. server \in Servers /\ wanted.port \in SlicerPorts /\ wanted.key \in SlicerKeys /\ wanted.linked \in BOOLEAN
      BY <1>t DEF SlicerTypes
    <3>2. [server EXCEPT !.srv = FALSE, !.linked = wanted.linked] \in Servers BY <3>1
    <3>3. [server EXCEPT !.linked = wanted.linked] \in Servers BY <3>1
    <3>4. [srv |-> wanted.port \notin taken, port |-> wanted.port, key |-> wanted.key, linked |-> wanted.linked]
            \in Servers
      BY <3>1
    <3>5. server' \in Servers
      <4> HIDE DEF Servers
      <4> QED BY <1>2, <3>2, <3>3, <3>4 DEF ApplySlicer
    <3> QED BY <1>2, <1>t, <3>5 DEF ApplySlicer, SlicerTypes
  <2>3. ServerFollows'
    <3>1. applied' /\ wanted' = wanted /\ taken' = taken BY <1>2 DEF ApplySlicer
    <3>2. CASE ~wanted.on
      <4>1. server' = [server EXCEPT !.srv = FALSE, !.linked = wanted.linked] BY <1>2, <3>2 DEF ApplySlicer
      <4>2. ~server'.srv /\ server'.linked = wanted.linked BY <1>t, <4>1 DEF SlicerTypes
      <4> QED BY <3>1, <3>2, <4>2 DEF ServerFollows
    <3>3. CASE wanted.on /\ IsServed
      <4>1. server' = [server EXCEPT !.linked = wanted.linked] BY <1>2, <3>3 DEF ApplySlicer
      <4>2. server'.srv = server.srv /\ server'.port = server.port /\ server'.key = server.key
            /\ server'.linked = wanted.linked
        BY <1>t, <4>1 DEF SlicerTypes
      <4> QED BY <3>1, <3>3, <4>2 DEF ServerFollows, IsServed
    <3>4. CASE wanted.on /\ ~IsServed
      <4>1. server' = [srv |-> wanted.port \notin taken, port |-> wanted.port,
                       key |-> wanted.key, linked |-> wanted.linked]
        BY <1>2, <3>4 DEF ApplySlicer
      <4>2. server'.port = wanted.port /\ server'.key = wanted.key /\ server'.linked = wanted.linked
            /\ (server'.srv \/ wanted.port \in taken)
        BY <4>1
      <4> QED BY <3>1, <3>4, <4>2 DEF ServerFollows
    <3> QED BY <3>2, <3>3, <3>4
  <2> QED BY <2>1, <2>2, <2>3 DEF SlicerInv
<1>3. CASE Shutdown
  BY <1>3, <1>t, <1>s DEF Shutdown, SlicerTypes, ServerFollows, SlicerInv
<1>4. CASE OtherProgram
  BY <1>4, <1>t, <1>s DEF OtherProgram, SlicerTypes, ServerFollows, SlicerInv
<1>5. ASSUME NEW u \in SlicerFiles, ComesIn(u) PROVE SlicerInv'
  <2>1. SlotsComeBack' BY <1>5, SlotlessOK DEF ComesIn
  <2> QED BY <1>5, <1>p, <1>r, <2>1 DEF ComesIn
<1>6. ASSUME NEW u \in SlicerFiles, Handle(u) PROVE SlicerInv'
  <2>1. PICK at \in {"count", "refused"} : Puts(u, at) BY <1>6 DEF Handle
  <2>2. SlotsComeBack' BY <1>6, <2>1, SlotlessOK DEF Handle
  <2> QED BY <1>6, <1>p, <1>r, <2>1, <2>2 DEF Handle
<1>7. ASSUME NEW u \in SlicerFiles, Count(u) PROVE SlicerInv'
  <2> DEFINE at == IF uploading + 1 > MaxUploads THEN "busy" ELSE "read"
  <2>1. Puts(u, at) /\ upload[u] = "count" /\ uploading' = uploading + 1 /\ temp' = temp /\ OnlyRequest
    BY <1>7 DEF Count
  <2>2. Counted' = Counted \cup {u} /\ u \notin Counted /\ u \notin Working
        /\ At({"forward"})' = At({"forward"})
    BY <1>t, <2>1, PutsDoes DEF Counted, Working
  <2>3. Cardinality(Counted)' = Cardinality(Counted) + 1 BY <2>2, OneMore DEF Counted
  <2>4. Cardinality(Working)' <= MaxUploads
    <3>1. Working \subseteq Counted BY DEF Working, Counted, At
    <3>2. Cardinality(Working) <= Cardinality(Counted) BY <3>1, AtIsFinite, FS_Subset DEF Working, Counted
    <3>3. CASE uploading + 1 > MaxUploads
      <4>1. Working' = Working BY <1>t, <2>1, <2>2, <3>3, PutsDoes DEF Working
      <4> QED BY <4>1, <1>n
    <3>4. CASE ~(uploading + 1 > MaxUploads)
      <4>1. Working' = Working \cup {u} BY <1>t, <2>1, <3>4, PutsDoes DEF Working
      <4>2. Cardinality(Working)' = Cardinality(Working) + 1 BY <4>1, <2>2, OneMore DEF Working
      <4> QED BY <4>2, <3>2, <3>4, <1>n, <1>f
    <3> QED BY <3>3, <3>4
  <2>5. SlotsComeBack' BY <2>1, <2>2, <2>3, <2>4, <1>n, SlotsMean DEF SlotsAdd
  <2> QED BY <1>p, <1>r, <2>1, <2>5
<1>8. ASSUME NEW u \in SlicerFiles, CountsBack(u) PROVE SlicerInv'
  <2>1. Puts(u, "refused") /\ upload[u] = "busy" /\ uploading' = uploading - 1 /\ temp' = temp /\ OnlyRequest
    BY <1>8 DEF CountsBack
  <2>2. Counted' = Counted \ {u} /\ u \in Counted /\ Working' = Working /\ At({"forward"})' = At({"forward"})
    BY <1>t, <2>1, PutsDoes DEF Counted, Working
  <2>3. Cardinality(Counted)' = Cardinality(Counted) - 1 BY <2>2, OneLess DEF Counted
  <2>4. SlotsComeBack' BY <2>1, <2>2, <2>3, <1>n, SlotsMean DEF SlotsAdd
  <2> QED BY <1>p, <1>r, <2>1, <2>4
<1>9. ASSUME NEW u \in SlicerFiles, Store(u) PROVE SlicerInv'
  <2>a. upload[u] = "read" /\ OnlyRequest BY <1>9 DEF Store
  <2>1. CASE temp' = temp \cup {u} /\ Puts(u, "forward") /\ UNCHANGED uploading
    <3>1. /\ Counted' = Counted /\ Working' = Working /\ At({"forward"})' = At({"forward"}) \cup {u}
      BY <1>t, <2>1, <2>a, PutsDoes DEF Counted, Working
    <3>2. SlotsComeBack' BY <2>1, <3>1, <1>n, SlotsMean DEF SlotsAdd
    <3> QED BY <1>p, <1>r, <2>1, <2>a, <3>2
  <2>2. CASE UNCHANGED temp /\ Puts(u, "refused") /\ uploading' = uploading - 1
    <3>1. /\ Counted' = Counted \ {u} /\ u \in Counted /\ Working' = Working \ {u} /\ u \in Working
          /\ At({"forward"})' = At({"forward"})
      BY <1>t, <2>2, <2>a, PutsDoes DEF Counted, Working
    <3>2. Cardinality(Counted)' = Cardinality(Counted) - 1 /\ Cardinality(Working)' = Cardinality(Working) - 1
      BY <3>1, OneLess DEF Counted, Working
    <3>3. SlotsComeBack' BY <2>2, <3>1, <3>2, <1>n, <1>f, SlotsMean DEF SlotsAdd
    <3> QED BY <1>p, <1>r, <2>2, <2>a, <3>3
  <2> QED BY <1>9, <2>1, <2>2 DEF Store
<1>10. ASSUME NEW u \in SlicerFiles, Forward(u) PROVE SlicerInv'
  <2>1. PICK at \in {"created", "refused"} : Puts(u, at) BY <1>10 DEF Forward
  <2>2. upload[u] = "forward" /\ uploading' = uploading - 1 /\ temp' = temp \ {u} /\ OnlyRequest
    BY <1>10 DEF Forward
  <2>3. /\ Counted' = Counted \ {u} /\ u \in Counted /\ Working' = Working \ {u} /\ u \in Working
        /\ At({"forward"})' = At({"forward"}) \ {u}
    BY <1>t, <2>1, <2>2, PutsDoes DEF Counted, Working
  <2>4. Cardinality(Counted)' = Cardinality(Counted) - 1 /\ Cardinality(Working)' = Cardinality(Working) - 1
    BY <2>3, OneLess DEF Counted, Working
  <2>5. SlotsComeBack' BY <2>2, <2>3, <2>4, <1>n, <1>f, SlotsMean DEF SlotsAdd
  <2> QED BY <1>p, <1>r, <2>1, <2>2, <2>5
<1>11. CASE UNCHANGED slicerVars
  BY <1>11, <1>t, <1>s DEF slicerVars, SlicerTypes, ServerFollows, SlicerInv
<1> QED BY <1>1, <1>2, <1>3, <1>4, <1>5, <1>6, <1>7, <1>8, <1>9, <1>10, <1>11 DEF SlicerNext

-----------------------------------------------------------------------------
(* Notifier.                                                                 *)

(* A channel that is stored or used holds no secret but one given for where  *)
(* its messages go; and what is sent for an event, or for a stored channel,  *)
(* was stored under its id.                                                  *)
Homely(ch) == ch.secret \in {<<>>, Place(ch.kind, ch.to)}
WasStored(id, ch) == ch \in once[id] \cup {NoChannel}
IsChannel(ch) == ch = NoChannel \/ ch.kind \in Kinds
StoredOK == \A id \in Channels : IsChannel(stored[id]) /\ Homely(stored[id]) /\ WasStored(id, stored[id])
SendingOK ==
    \A s \in sending : /\ s.id \in Channels /\ Homely(s.ch)
                       /\ s.of \in {"event", "stored"} => WasStored(s.id, s.ch)
NotifierInv == StoredOK /\ SendingOK /\ SecretsStayHome /\ ResultsAreOfSaved

(* fillChannel keeps a token or a password only for its own place.           *)
LEMMA FillIsHomely ==
    ASSUME NEW f, f.kind \in Kinds, NEW old, Homely(old)
    PROVE  IsChannel(Fill(f, old)) /\ Homely(Fill(f, old))
<1> DEFINE new == Fill(f, old)
<1>1. new.kind = f.kind BY DEF Fill
<1>2. ASSUME NEW ch, ch.secret = <<>> \/ ch.secret = Place(ch.kind, ch.to) PROVE Homely(ch)
  BY <1>2 DEF Homely
<1>3. IsChannel(new) BY <1>1 DEF IsChannel
<1>4. CASE f.kind = "discord"
  <2>1. new.secret = <<>> BY <1>4 DEF Fill
  <2> QED BY <1>2, <1>3, <2>1
<1>5. CASE f.kind # "discord" /\ f.typed
  <2>1. new.secret = Place(f.kind, f.to) /\ new.to = f.to BY <1>5 DEF Fill
  <2> QED BY <1>1, <1>2, <1>3, <2>1
<1>6. CASE f.kind # "discord" /\ ~f.typed /\ ~f.clear /\ SamePlace(f, old)
  <2>1. new.secret = old.secret /\ new.to = f.to BY <1>6 DEF Fill
  <2>2. Place(f.kind, f.to) = Place(old.kind, old.to) BY <1>6 DEF SamePlace, Place, Kinds
  <2>3. new.secret = <<>> \/ new.secret = Place(f.kind, f.to) BY <2>1, <2>2 DEF Homely
  <2> QED BY <1>1, <1>2, <1>3, <2>1, <2>3
<1>7. CASE f.kind # "discord" /\ ~f.typed /\ ~(~f.clear /\ SamePlace(f, old))
  <2>1. new.secret = <<>> BY <1>7 DEF Fill
  <2> QED BY <1>2, <1>3, <2>1
<1> QED BY <1>1, <1>4, <1>5, <1>6, <1>7

LEMMA NotifierStart == NotifierInit => NotifierInv
<1> SUFFICES ASSUME NotifierInit PROVE NotifierInv
  OBVIOUS
<1>1. Homely(NoChannel) BY DEF Homely, NoChannel
<1>2. StoredOK BY <1>1 DEF NotifierInit, StoredOK, WasStored, IsChannel
<1> QED BY <1>2 DEF NotifierInit, NotifierInv, SendingOK, SecretsStayHome, ResultsAreOfSaved

LEMMA NotifierStepOK == NotifierInv /\ [NotifierNext]_notifierVars => NotifierInv'
<1> SUFFICES ASSUME NotifierInv, [NotifierNext]_notifierVars PROVE NotifierInv'
  OBVIOUS
<1>t. StoredOK /\ SendingOK /\ SecretsStayHome /\ ResultsAreOfSaved BY DEF NotifierInv
<1>0. Homely(NoChannel) BY DEF Homely, NoChannel
<1>1. CASE SaveChannels
  <2>1. once' = [id \in Channels |-> once[id] \cup {stored'[id]}] /\ UNCHANGED <<sending, last, sent>>
    BY <1>1 DEF SaveChannels
  <2>2. \A id \in Channels : IsChannel(stored'[id]) /\ Homely(stored'[id])
    <3>1. CASE stored' = [id \in Channels |-> NoChannel] BY <3>1, <1>0 DEF IsChannel
    <3>2. CASE stored' # [id \in Channels |-> NoChannel]
      <4> DEFINE Shown(c) == [kind |-> stored[c].kind, typed |-> FALSE, clear |-> FALSE,
                              to |-> IF stored[c].kind = "discord" THEN Blank ELSE stored[c].to]
      <4>1. PICK id \in Channels, f \in Forms, others \in SUBSET Channels :
              stored' = [c \in Channels |->
                           IF c = id THEN Fill(f, stored[id])
                           ELSE IF c \in others /\ stored[c] # NoChannel THEN Fill(Shown(c), stored[c])
                           ELSE NoChannel]
        BY <1>1, <3>2 DEF SaveChannels
      <4>2. f.kind \in Kinds BY DEF Forms
      <4>3. \A c \in Channels : stored[c] # NoChannel => Shown(c).kind \in Kinds
        BY <1>t DEF StoredOK, IsChannel
      <4> HIDE DEF Shown
      <4>4. ASSUME NEW c \in Channels PROVE IsChannel(stored'[c]) /\ Homely(stored'[c])
        <5>1. Homely(stored[c]) /\ Homely(stored[id]) BY <1>t DEF StoredOK
        <5>2. CASE c = id
          <6>1. stored'[c] = Fill(f, stored[id]) BY <4>1, <5>2
          <6> QED BY <4>2, <5>1, <6>1, FillIsHomely
        <5>3. CASE c # id /\ c \in others /\ stored[c] # NoChannel
          <6>1. stored'[c] = Fill(Shown(c), stored[c]) BY <4>1, <5>3
          <6> QED BY <4>3, <5>1, <5>3, <6>1, FillIsHomely
        <5>4. CASE c # id /\ ~(c \in others /\ stored[c] # NoChannel)
          BY <1>0, <4>1, <5>4 DEF IsChannel
        <5> QED BY <5>2, <5>3, <5>4
      <4> QED BY <4>4
    <3> QED BY <3>1, <3>2
  <2> QED BY <1>t, <2>1, <2>2
      DEF NotifierInv, StoredOK, SendingOK, WasStored, SecretsStayHome, ResultsAreOfSaved
<1>2. ASSUME NEW e \in NoticeEvents, Dispatch(e) PROVE NotifierInv'
  <2>1. PICK want \in SUBSET {id \in Channels : stored[id] # NoChannel} :
         sending' = sending \cup
           {[of |-> "event", id |-> id, ch |-> stored[id], try |-> 0] : id \in want}
    BY <1>2 DEF Dispatch
  <2>2. UNCHANGED <<stored, last, once, sent>> BY <1>2 DEF Dispatch
  <2>3. SendingOK' BY <1>t, <2>1, <2>2 DEF SendingOK, StoredOK, WasStored
  <2> QED BY <1>t, <2>2, <2>3 DEF NotifierInv, StoredOK, WasStored, SecretsStayHome, ResultsAreOfSaved
<1>3. ASSUME NEW id \in Channels, Test(id) PROVE NotifierInv'
  <2>1. UNCHANGED <<stored, last, once, sent>> BY <1>3 DEF Test
  <2>2. CASE sending' = sending \cup {[of |-> "stored", id |-> id, ch |-> stored[id], try |-> 0]}
    <3>1. SendingOK' BY <1>t, <2>1, <2>2 DEF SendingOK, StoredOK, WasStored
    <3> QED BY <1>t, <2>1, <3>1 DEF NotifierInv, StoredOK, WasStored, SecretsStayHome, ResultsAreOfSaved
  <2>3. ASSUME NEW f \in Forms,
               sending' = sending \cup {[of |-> "form", id |-> id, ch |-> Fill(f, stored[id]), try |-> 0]}
        PROVE  NotifierInv'
    <3>1. Homely(Fill(f, stored[id])) BY <1>t, FillIsHomely DEF StoredOK, Forms
    <3>2. SendingOK' BY <1>t, <2>1, <2>3, <3>1 DEF SendingOK, WasStored
    <3> QED BY <1>t, <2>1, <3>2 DEF NotifierInv, StoredOK, WasStored, SecretsStayHome, ResultsAreOfSaved
  <2> QED BY <1>3, <2>2, <2>3 DEF Test
<1>4. ASSUME NEW s \in sending, Leaves(s) PROVE SecretsStayHome'
  BY <1>4, <1>t DEF SendingOK, Homely, SecretsStayHome, Leaves
<1>5. ASSUME NEW s \in sending, SendAgain(s) PROVE NotifierInv'
  <2>1. UNCHANGED <<stored, last, once>> /\ sending' = (sending \ {s}) \cup {[s EXCEPT !.try = 1]} /\ Leaves(s)
    BY <1>5 DEF SendAgain
  <2> DEFINE again == [s EXCEPT !.try = 1]
  <2>2. again.id = s.id /\ again.ch = s.ch /\ again.of = s.of OBVIOUS
  <2> HIDE DEF again
  <2>3. SendingOK' BY <1>t, <2>1, <2>2 DEF SendingOK, WasStored, again
  <2> QED BY <1>t, <1>4, <2>1, <2>3 DEF NotifierInv, StoredOK, WasStored, ResultsAreOfSaved
<1>6. ASSUME NEW s \in sending, SendEnds(s) PROVE NotifierInv'
  <2>1. UNCHANGED <<stored, once>> /\ sending' = sending \ {s} /\ Leaves(s) BY <1>6 DEF SendEnds
  <2>2. SendingOK' BY <1>t, <2>1 DEF SendingOK, WasStored
  <2>3. ResultsAreOfSaved'
    <3>1. \A id \in Channels : last'[id] = last[id] \/ (id = s.id /\ CountsFor(s) /\ last'[id] = s.ch)
      BY <1>6 DEF SendEnds
    <3> QED BY <1>t, <2>1, <3>1 DEF ResultsAreOfSaved, SendingOK, WasStored, CountsFor
  <2> QED BY <1>t, <1>4, <2>1, <2>2, <2>3 DEF NotifierInv, StoredOK, WasStored
<1>7. CASE UNCHANGED notifierVars
  BY <1>7, <1>t
  DEF notifierVars, NotifierInv, StoredOK, SendingOK, WasStored, SecretsStayHome, ResultsAreOfSaved
<1> QED BY <1>1, <1>2, <1>3, <1>5, <1>6, <1>7 DEF NotifierNext

-----------------------------------------------------------------------------
(* Assistant.                                                                *)

Tools == Lookups \cup {Camera}
Replies == SeqOf(Lookups \cup {Camera, Nameless}, MaxCalls)
Messages == [is : {"calls"}, of : Replies]
            \cup [is : {"result"}, of : Tools, was : {"data", "refused", "repeated", "image", "no image"}]
            \cup [is : {"picture"}]

TalkTypes(k) ==
    /\ DOMAIN k = {"at", "to", "key", "round", "said", "left", "frames", "allowed"}
    /\ k.said \in Seq(Messages) /\ k.left \in Seq(Tools) /\ k.frames \in Nat /\ k.allowed \in BOOLEAN

(* Of the calls of a reply, the first have their results behind it and the   *)
(* others are those that are left, in the same order.                        *)
CallsStand(said, left) ==
    \A i \in DOMAIN said : said[i].is = "calls" =>
      LET calls == Named(said[i].of) IN
      /\ calls \in Seq(Tools)
      /\ \A j \in 1 .. Len(calls) :
           \/ i + j <= Len(said) /\ said[i + j].is = "result" /\ said[i + j].of = calls[j]
           \/ i + j - Len(said) \in 1 .. Len(left) /\ left[i + j - Len(said)] = calls[j]

RanAt(said, i) == said[i].is = "result" /\ said[i].was # "repeated"
RanOnce(said) ==
    \A i, j \in DOMAIN said : RanAt(said, i) /\ RanAt(said, j) /\ said[i].of = said[j].of => i = j
CalledIn(said, call) == \E i \in DOMAIN said : said[i].is = "result" /\ said[i].of = call

PicturesIn(said) == {i \in DOMAIN said : said[i].is = "picture"}
ImagesIn(said) == {i \in DOMAIN said : RanAt(said, i) /\ said[i].was = "image"}

(* Calls are left, and frames are taken, only while a reply is run; the call *)
(* that takes a frame is a new one; and each frame that is posted, or will   *)
(* be, is of one result.                                                     *)
TalkOK(k) ==
    /\ TalkTypes(k)
    /\ k.at = "asking" => k.left = <<>> /\ k.frames = 0
    /\ k.at = "looking" => k.left # <<>> /\ ~CalledIn(k.said, Head(k.left))
    /\ CallsStand(k.said, k.left) /\ RanOnce(k.said)
    /\ Cardinality(PicturesIn(k.said)) + k.frames = Cardinality(ImagesIn(k.said))

(* A chat that takes, holds or has posted a frame was allowed to.            *)
AllowedOK(k, camera) ==
    k.at = "looking" \/ k.frames # 0 \/ PicturesIn(k.said) # {} \/ camera => k.allowed

AssistantInv ==
    /\ AtHome(ai, moved) /\ ai.camera \in BOOLEAN
    /\ DOMAIN chat = Chats
    /\ \A c \in Chats : chat[c] # NoChat => TalkOK(chat[c]) /\ AllowedOK(chat[c], ai.camera) /\ AtHome(chat[c], moved)
    /\ KeysStayHome

LEMMA AssistantStart == AssistantInit => AssistantInv
BY DEF AssistantInit, AssistantInv, KeysStayHome, AtHome

LEMMA AssistantFollows == AssistantInv => AssistantIsRight
<1> SUFFICES ASSUME AssistantInv PROVE AssistantIsRight
  OBVIOUS
<1>1. \A c \in Asked : chat[c] # NoChat /\ TalkOK(chat[c]) /\ AllowedOK(chat[c], ai.camera) /\ AtHome(chat[c], moved) /\ chat[c].at = "asking"
  BY DEF AssistantInv, Asked, NoChat
<1>2. CallsAreAnswered
  <2>1. SUFFICES ASSUME NEW c \in Asked, NEW i \in DOMAIN chat[c].said, chat[c].said[i].is = "calls"
        PROVE  LET said == chat[c].said
                   calls == Named(said[i].of)
               IN  /\ i + Len(calls) <= Len(said)
                   /\ \A j \in 1..Len(calls) : said[i + j].is = "result" /\ said[i + j].of = calls[j]
    BY DEF CallsAreAnswered
  <2> DEFINE said == chat[c].said
             calls == Named(said[i].of)
  <2>2. said \in Seq(Messages) /\ chat[c].left = <<>> /\ CallsStand(said, <<>>)
    BY <1>1 DEF TalkOK, TalkTypes
  <2>3. calls \in Seq(Tools) BY <2>1, <2>2 DEF CallsStand
  <2>4. \A j \in 1 .. Len(calls) : i + j <= Len(said) /\ said[i + j].is = "result" /\ said[i + j].of = calls[j]
    BY <2>1, <2>2 DEF CallsStand
  <2>5. i \in 1 .. Len(said) /\ Len(calls) \in Nat BY <2>2, <2>3
  <2> HIDE DEF said, calls
  <2>6. i + Len(calls) <= Len(said) BY <2>4, <2>5
  <2> QED BY <2>4, <2>6 DEF said, calls
<1>3. CallsRunOnce
  <2>1. SUFFICES ASSUME NEW c \in Asked
        PROVE  RanOnce(chat[c].said) /\ Cardinality(PicturesIn(chat[c].said)) = Cardinality(ImagesIn(chat[c].said))
    BY DEF CallsRunOnce, RanOnce, RanAt, PicturesIn, ImagesIn
  <2>2. Cardinality(PicturesIn(chat[c].said)) \in Nat
    <3>1. chat[c].said \in Seq(Messages) BY <1>1 DEF TalkOK, TalkTypes
    <3>2. PicturesIn(chat[c].said) \subseteq 1 .. Len(chat[c].said) BY <3>1 DEF PicturesIn
    <3>3. IsFiniteSet(1 .. Len(chat[c].said)) BY <3>1, FS_Interval
    <3> QED BY <3>2, <3>3, FS_Subset, FS_CardinalityType
  <2> QED BY <1>1, <2>2 DEF TalkOK
<1>4. PicturesWereAllowed BY <1>1 DEF PicturesWereAllowed, AllowedOK, AtHome, PicturesIn
<1> QED BY <1>2, <1>3, <1>4 DEF AssistantInv, AssistantIsRight

(* One message more.                                                         *)
LEMMA SaidMore ==
    ASSUME NEW said \in Seq(Messages), NEW m \in Messages
    PROVE  /\ Append(said, m) \in Seq(Messages) /\ Len(said) \in Nat /\ Len(Append(said, m)) = Len(said) + 1
           /\ DOMAIN said = 1 .. Len(said) /\ DOMAIN Append(said, m) = 1 .. Len(said) + 1
           /\ Append(said, m)[Len(said) + 1] = m
           /\ \A i \in 1 .. Len(said) : Append(said, m)[i] = said[i]
           /\ \A i \in 1 .. Len(said) + 1 : i \in 1 .. Len(said) \/ i = Len(said) + 1
<1>1. \A S : \A q \in Seq(S), x \in S :
          /\ Append(q, x) \in Seq(S) /\ Len(q) \in Nat /\ Len(Append(q, x)) = Len(q) + 1
          /\ DOMAIN q = 1 .. Len(q) /\ DOMAIN Append(q, x) = 1 .. Len(q) + 1
          /\ Append(q, x)[Len(q) + 1] = x
          /\ \A i \in 1 .. Len(q) : Append(q, x)[i] = q[i]
  OBVIOUS
<1>2. /\ Append(said, m) \in Seq(Messages) /\ Len(said) \in Nat /\ Len(Append(said, m)) = Len(said) + 1
      /\ DOMAIN said = 1 .. Len(said) /\ DOMAIN Append(said, m) = 1 .. Len(said) + 1
      /\ Append(said, m)[Len(said) + 1] = m
      /\ \A i \in 1 .. Len(said) : Append(said, m)[i] = said[i]
  BY <1>1
<1>3. \A n \in Nat : \A i \in 1 .. n + 1 : i \in 1 .. n \/ i = n + 1 OBVIOUS
<1> QED BY <1>2, <1>3

LEMMA ResultStands ==
    ASSUME NEW said \in Seq(Messages), NEW left \in Seq(Tools), left # <<>>, CallsStand(said, left),
           NEW m \in Messages, m.is = "result", m.of = Head(left)
    PROVE  CallsStand(Append(said, m), Tail(left)) /\ Tail(left) \in Seq(Tools)
<1> DEFINE new == Append(said, m)
<1>1. /\ Len(said) \in Nat /\ Len(new) = Len(said) + 1 /\ DOMAIN said = 1 .. Len(said)
      /\ DOMAIN new = 1 .. Len(said) + 1 /\ new[Len(said) + 1] = m
      /\ \A i \in 1 .. Len(said) : new[i] = said[i]
      /\ \A i \in 1 .. Len(said) + 1 : i \in 1 .. Len(said) \/ i = Len(said) + 1
  BY SaidMore
<1> HIDE DEF new
<1>2. /\ Tail(left) \in Seq(Tools) /\ Len(left) \in Nat \ {0} /\ Len(Tail(left)) = Len(left) - 1
      /\ Head(left) = left[1]
      /\ \A i \in 1 .. Len(left) - 1 : Tail(left)[i] = left[i + 1]
  <2>1. \A S : \A q \in Seq(S) : q # <<>> =>
          /\ Tail(q) \in Seq(S) /\ Len(q) \in Nat \ {0} /\ Len(Tail(q)) = Len(q) - 1
          /\ Head(q) = q[1]
          /\ \A i \in 1 .. Len(q) - 1 : Tail(q)[i] = q[i + 1]
    OBVIOUS
  <2> QED BY <2>1
<1>3. ASSUME NEW i \in 1 .. Len(said), new[i].is = "calls", NEW j \in 1 .. Len(Named(new[i].of)),
             Named(new[i].of) \in Seq(Tools)
      PROVE  \/ /\ i + j <= Len(new) /\ new[i + j].is = "result" /\ new[i + j].of = Named(new[i].of)[j]
             \/ /\ i + j - Len(new) \in 1 .. Len(Tail(left))
                /\ Tail(left)[i + j - Len(new)] = Named(new[i].of)[j]
  <2>1. Len(Named(new[i].of)) \in Nat /\ new[i] = said[i] BY <1>1, <1>3
  <2> DEFINE calls == Named(new[i].of)
  <2>2. \/ i + j <= Len(said) /\ said[i + j].is = "result" /\ said[i + j].of = calls[j]
        \/ i + j - Len(said) \in 1 .. Len(left) /\ left[i + j - Len(said)] = calls[j]
    BY <1>1, <1>3, <2>1, ZenonT(60) DEF CallsStand
  <2>3. i \in Nat /\ j \in Nat /\ i >= 1 /\ j >= 1 BY <1>1, <2>1
  <2> HIDE DEF calls
  <2>4. CASE i + j <= Len(said) /\ said[i + j].is = "result" /\ said[i + j].of = calls[j]
    <3>1. i + j \in 1 .. Len(said) /\ i + j <= Len(new) BY <1>1, <2>3, <2>4
    <3>2. new[i + j] = said[i + j] BY <1>1, <3>1
    <3> QED BY <2>4, <3>1, <3>2 DEF calls
  <2>5. CASE i + j - Len(said) \in 1 .. Len(left) /\ left[i + j - Len(said)] = calls[j]
    <3> DEFINE d == i + j - Len(said)
    <3>1. CASE d = 1
      <4>1. i + j = Len(said) + 1 BY <1>1, <2>3, <3>1
      <4>2. new[i + j] = m /\ m.of = calls[j] BY <1>1, <1>2, <2>5, <3>1, <4>1
      <4> QED BY <1>1, <4>1, <4>2 DEF calls
    <3>2. CASE d # 1
      <4>1. i + j - Len(new) = d - 1 /\ d - 1 \in 1 .. Len(left) - 1 /\ d - 1 + 1 = d
        BY <1>1, <1>2, <2>3, <2>5, <3>2
      <4>2. Tail(left)[d - 1] = left[d] BY <1>2, <4>1
      <4> QED BY <1>2, <2>5, <4>1, <4>2 DEF calls
    <3> QED BY <3>1, <3>2
  <2> QED BY <2>2, <2>4, <2>5 DEF calls
<1>4. \A i \in DOMAIN new : new[i].is = "calls" => i \in 1 .. Len(said) /\ Named(new[i].of) \in Seq(Tools)
  BY <1>1 DEF CallsStand
<1>5. CallsStand(new, Tail(left)) BY <1>3, <1>4 DEF CallsStand
<1> QED BY <1>2, <1>5 DEF new

LEMMA CallsBegin ==
    ASSUME NEW said \in Seq(Messages), CallsStand(said, <<>>),
           NEW m \in Messages, m.is = "calls", Named(m.of) \in Seq(Tools)
    PROVE  CallsStand(Append(said, m), Named(m.of))
<1> DEFINE new == Append(said, m)
<1>1. /\ Len(said) \in Nat /\ Len(new) = Len(said) + 1 /\ DOMAIN said = 1 .. Len(said)
      /\ DOMAIN new = 1 .. Len(said) + 1 /\ new[Len(said) + 1] = m
      /\ \A i \in 1 .. Len(said) : new[i] = said[i]
      /\ \A i \in 1 .. Len(said) + 1 : i \in 1 .. Len(said) \/ i = Len(said) + 1
  BY SaidMore
<1> HIDE DEF new
<1>2. ASSUME NEW i \in 1 .. Len(said), new[i].is = "calls" 
      PROVE  /\ Named(new[i].of) \in Seq(Tools)
             /\ \A j \in 1 .. Len(Named(new[i].of)) :
                  i + j <= Len(new) /\ new[i + j].is = "result" /\ new[i + j].of = Named(new[i].of)[j]
  <2>1. new[i] = said[i] BY <1>1
  <2>2. Named(new[i].of) \in Seq(Tools) BY <1>1, <1>2, <2>1 DEF CallsStand
  <2>3. ASSUME NEW j \in 1 .. Len(Named(new[i].of))
        PROVE  i + j <= Len(new) /\ new[i + j].is = "result" /\ new[i + j].of = Named(new[i].of)[j]
    <3>1. i + j <= Len(said) /\ said[i + j].is = "result" /\ said[i + j].of = Named(new[i].of)[j]
      BY <1>1, <1>2, <2>1 DEF CallsStand
    <3>2. i + j \in 1 .. Len(said) /\ i + j <= Len(new) BY <1>1, <2>2, <3>1
    <3> QED BY <1>1, <3>1, <3>2
  <2> QED BY <2>2, <2>3
<1>3. \A j \in 1 .. Len(Named(m.of)) : Len(said) + 1 + j - Len(new) = j BY <1>1
<1>4. CallsStand(new, Named(m.of)) BY <1>1, <1>2, <1>3 DEF CallsStand
<1> QED BY <1>4 DEF new

(* The frames that were taken are posted behind the results.                 *)
LEMMA SaidPictures ==
    ASSUME NEW said \in Seq(Messages), NEW n \in Nat
    PROVE  LET new == said \o Pictures(n) IN
           /\ new \in Seq(Messages) /\ Len(said) \in Nat /\ Len(new) = Len(said) + n
           /\ DOMAIN said = 1 .. Len(said) /\ DOMAIN new = 1 .. Len(said) + n
           /\ \A i \in 1 .. Len(said) : new[i] = said[i] /\ i \in 1 .. Len(said) + n
           /\ \A i \in Len(said) + 1 .. Len(said) + n : new[i].is = "picture" /\ i \in 1 .. Len(said) + n
           /\ \A i \in 1 .. Len(said) + n : i \in 1 .. Len(said) \/ i \in Len(said) + 1 .. Len(said) + n
<1> DEFINE p == [is |-> "picture"]
           new == said \o Pictures(n)
<1>1. p \in Messages BY DEF Messages
<1> HIDE DEF p
<1>2. Pictures(n) = [i \in 1 .. n |-> p] BY DEF Pictures, p
<1>3. Pictures(n) \in Seq(Messages) /\ Len(Pictures(n)) = n BY <1>1, <1>2
<1>4. \A i \in 1 .. n : Pictures(n)[i] = p BY <1>2
<1> HIDE DEF new
<1>5. /\ new \in Seq(Messages) /\ Len(said) \in Nat /\ Len(new) = Len(said) + n
      /\ DOMAIN said = 1 .. Len(said) /\ DOMAIN new = 1 .. Len(said) + n
      /\ \A i \in 1 .. Len(said) : new[i] = said[i]
      /\ \A i \in Len(said) + 1 .. Len(said) + n : new[i] = Pictures(n)[i - Len(said)]
  <2>1. \A S : \A q, r \in Seq(S) :
          /\ q \o r \in Seq(S) /\ Len(q) \in Nat /\ Len(q \o r) = Len(q) + Len(r)
          /\ DOMAIN q = 1 .. Len(q) /\ DOMAIN (q \o r) = 1 .. Len(q) + Len(r)
          /\ \A i \in 1 .. Len(q) : (q \o r)[i] = q[i]
          /\ \A i \in Len(q) + 1 .. Len(q) + Len(r) : (q \o r)[i] = r[i - Len(q)]
    OBVIOUS
  <2> DEFINE r == Pictures(n)
  <2>2. r \in Seq(Messages) /\ Len(r) = n /\ new = said \o r BY <1>3 DEF new
  <2> HIDE DEF r
  <2>3. /\ said \o r \in Seq(Messages) /\ Len(said) \in Nat /\ Len(said \o r) = Len(said) + Len(r)
        /\ DOMAIN said = 1 .. Len(said) /\ DOMAIN (said \o r) = 1 .. Len(said) + Len(r)
        /\ \A i \in 1 .. Len(said) : (said \o r)[i] = said[i]
        /\ \A i \in Len(said) + 1 .. Len(said) + Len(r) : (said \o r)[i] = r[i - Len(said)]
    BY <2>1, <2>2
  <2> QED BY <2>2, <2>3 DEF r
<1>6. \A i \in Len(said) + 1 .. Len(said) + n :
        new[i].is = "picture" /\ i \in 1 .. Len(said) + n
  <2>1. \A i \in Len(said) + 1 .. Len(said) + n : i - Len(said) \in 1 .. n /\ i \in 1 .. Len(said) + n BY <1>5
  <2>2. \A i \in Len(said) + 1 .. Len(said) + n : new[i] = p BY <2>1, <1>4, <1>5
  <2> QED BY <2>1, <2>2 DEF p
<1>7. \A l \in Nat : \A i \in 1 .. l + n : i \in 1 .. l \/ i \in l + 1 .. l + n OBVIOUS
<1>8. \A l \in Nat : \A i \in 1 .. l : i \in 1 .. l + n OBVIOUS
<1> QED BY <1>5, <1>6, <1>7, <1>8 DEF new

LEMMA PicturesStand ==
    ASSUME NEW said \in Seq(Messages), CallsStand(said, <<>>), NEW n \in Nat
    PROVE  CallsStand(said \o Pictures(n), <<>>)
<1> DEFINE new == said \o Pictures(n)
<1>1. /\ Len(said) \in Nat /\ Len(new) = Len(said) + n
      /\ DOMAIN said = 1 .. Len(said) /\ DOMAIN new = 1 .. Len(said) + n
      /\ \A i \in 1 .. Len(said) : new[i] = said[i]
      /\ \A i \in Len(said) + 1 .. Len(said) + n : new[i].is = "picture"
      /\ \A i \in 1 .. Len(said) + n : i \in 1 .. Len(said) \/ i \in Len(said) + 1 .. Len(said) + n
  BY SaidPictures
<1> HIDE DEF new
<1>2. \A i \in DOMAIN new : new[i].is = "calls" => i \in 1 .. Len(said) BY <1>1
<1>3. ASSUME NEW i \in 1 .. Len(said), new[i].is = "calls"
      PROVE  /\ Named(new[i].of) \in Seq(Tools)
             /\ \A j \in 1 .. Len(Named(new[i].of)) :
                  i + j <= Len(new) /\ new[i + j].is = "result" /\ new[i + j].of = Named(new[i].of)[j]
  <2>1. new[i] = said[i] BY <1>1
  <2>2. Named(new[i].of) \in Seq(Tools) BY <1>1, <1>3, <2>1 DEF CallsStand
  <2>3. ASSUME NEW j \in 1 .. Len(Named(new[i].of))
        PROVE  i + j <= Len(new) /\ new[i + j].is = "result" /\ new[i + j].of = Named(new[i].of)[j]
    <3>1. i + j <= Len(said) /\ said[i + j].is = "result" /\ said[i + j].of = Named(new[i].of)[j]
      BY <1>1, <1>3, <2>1 DEF CallsStand
    <3>2. i + j \in 1 .. Len(said) /\ i + j <= Len(new) BY <1>1, <2>2, <3>1
    <3> QED BY <1>1, <3>1, <3>2
  <2> QED BY <2>2, <2>3
<1>4. CallsStand(new, <<>>) BY <1>2, <1>3 DEF CallsStand
<1> QED BY <1>4 DEF new

LEMMA CountsAreFinite ==
    ASSUME NEW said \in Seq(Messages)
    PROVE  /\ IsFiniteSet(PicturesIn(said)) /\ Cardinality(PicturesIn(said)) \in Nat
           /\ IsFiniteSet(ImagesIn(said)) /\ Cardinality(ImagesIn(said)) \in Nat
           /\ PicturesIn(said) \subseteq 1 .. Len(said) /\ ImagesIn(said) \subseteq 1 .. Len(said)
<1>1. DOMAIN said = 1 .. Len(said) /\ Len(said) \in Nat OBVIOUS
<1>2. IsFiniteSet(1 .. Len(said)) BY <1>1, FS_Interval
<1>3. PicturesIn(said) \subseteq 1 .. Len(said) /\ ImagesIn(said) \subseteq 1 .. Len(said)
  BY <1>1 DEF PicturesIn, ImagesIn
<1> QED BY <1>2, <1>3, FS_Subset, FS_CardinalityType

(* A message that is not a new result changes neither count; a new result    *)
(* comes once, and counts as one more image if it is one.                    *)
LEMMA CountsStay ==
    ASSUME NEW said \in Seq(Messages), NEW m \in Messages, RanOnce(said), m.is # "picture",
           m.is = "result" => m.was = "repeated"
    PROVE  /\ RanOnce(Append(said, m))
           /\ PicturesIn(Append(said, m)) = PicturesIn(said) /\ ImagesIn(Append(said, m)) = ImagesIn(said)
<1> DEFINE new == Append(said, m)
<1>1. /\ DOMAIN said = 1 .. Len(said) /\ Len(said) + 1 \in DOMAIN new
      /\ new[Len(said) + 1] = m
      /\ \A i \in 1 .. Len(said) : new[i] = said[i] /\ i \in DOMAIN new
      /\ \A i \in DOMAIN new : i \in 1 .. Len(said) \/ i = Len(said) + 1
  BY SaidMore
<1> HIDE DEF new
<1>2. RanOnce(new) BY <1>1 DEF RanOnce, RanAt
<1>3. PicturesIn(new) = PicturesIn(said) BY <1>1 DEF PicturesIn
<1>4. ImagesIn(new) = ImagesIn(said) BY <1>1 DEF ImagesIn, RanAt
<1> QED BY <1>2, <1>3, <1>4 DEF new

LEMMA NewResult ==
    ASSUME NEW said \in Seq(Messages), NEW m \in Messages, RanOnce(said), m.is = "result",
           ~CalledIn(said, m.of)
    PROVE  /\ RanOnce(Append(said, m)) /\ PicturesIn(Append(said, m)) = PicturesIn(said)
           /\ m.was # "image" => ImagesIn(Append(said, m)) = ImagesIn(said)
           /\ m.was = "image" => Cardinality(ImagesIn(Append(said, m))) = Cardinality(ImagesIn(said)) + 1
<1> DEFINE new == Append(said, m)
<1>1. /\ DOMAIN said = 1 .. Len(said) /\ Len(said) + 1 \in DOMAIN new /\ Len(said) \in Nat
      /\ new[Len(said) + 1] = m
      /\ \A i \in 1 .. Len(said) : new[i] = said[i] /\ i \in DOMAIN new
      /\ \A i \in DOMAIN new : i \in 1 .. Len(said) \/ i = Len(said) + 1
  BY SaidMore
<1> HIDE DEF new
<1>2. RanOnce(new) BY <1>1 DEF RanOnce, RanAt, CalledIn
<1>3. PicturesIn(new) = PicturesIn(said) BY <1>1 DEF PicturesIn
<1>4. m.was # "image" => ImagesIn(new) = ImagesIn(said) BY <1>1 DEF ImagesIn, RanAt
<1>5. ASSUME m.was = "image" PROVE Cardinality(ImagesIn(new)) = Cardinality(ImagesIn(said)) + 1
  <2>1. ImagesIn(new) = ImagesIn(said) \cup {Len(said) + 1} BY <1>1, <1>5 DEF ImagesIn, RanAt
  <2>2. Len(said) + 1 \notin 1 .. Len(said) BY <1>1
  <2> QED BY <2>1, <2>2, CountsAreFinite, FS_AddElement
<1> QED BY <1>2, <1>3, <1>4, <1>5 DEF new

LEMMA PicturesCount ==
    ASSUME NEW said \in Seq(Messages), RanOnce(said), NEW n \in Nat
    PROVE  LET new == said \o Pictures(n) IN
           /\ RanOnce(new) /\ ImagesIn(new) = ImagesIn(said)
           /\ n = 0 => PicturesIn(new) = PicturesIn(said)
           /\ Cardinality(PicturesIn(new)) = Cardinality(PicturesIn(said)) + n
<1> DEFINE new == said \o Pictures(n)
           More == Len(said) + 1 .. Len(said) + n
<1>1. /\ Len(said) \in Nat /\ DOMAIN said = 1 .. Len(said)
      /\ \A i \in 1 .. Len(said) : new[i] = said[i] /\ i \in DOMAIN new
      /\ \A i \in More : new[i].is = "picture" /\ i \in DOMAIN new
      /\ \A i \in DOMAIN new : i \in 1 .. Len(said) \/ i \in More
  BY SaidPictures
<1>2. IsFiniteSet(More) /\ Cardinality(More) = n
  <2> DEFINE a == Len(said) + 1
             b == Len(said) + n
  <2>1. a \in Int /\ b \in Int /\ More = a .. b /\ n = b - a + 1 /\ (a > b => n = 0) BY <1>1
  <2> HIDE DEF a, b, More
  <2>2. IsFiniteSet(a .. b) /\ Cardinality(a .. b) = IF a > b THEN 0 ELSE b - a + 1
    BY <2>1, FS_Interval
  <2> QED BY <2>1, <2>2
<1>3. \A i \in More : i \notin 1 .. Len(said) BY <1>1
<1>4. n = 0 => More = {} BY <1>1
<1> HIDE DEF new, More
<1>5. RanOnce(new) BY <1>1 DEF RanOnce, RanAt
<1>6. ImagesIn(new) = ImagesIn(said) BY <1>1 DEF ImagesIn, RanAt
<1>7. PicturesIn(new) = PicturesIn(said) \cup More BY <1>1 DEF PicturesIn
<1>8. PicturesIn(said) \cap More = {} BY <1>3, CountsAreFinite
<1>9. Cardinality(PicturesIn(said) \cup More)
        = Cardinality(PicturesIn(said)) + Cardinality(More) - Cardinality({})
  BY <1>2, <1>8, CountsAreFinite, FS_Union
<1>10. Cardinality({}) = 0 BY FS_EmptySet
<1>11. Cardinality(PicturesIn(new)) = Cardinality(PicturesIn(said)) + n
  BY <1>2, <1>7, <1>9, <1>10, CountsAreFinite
<1> QED BY <1>4, <1>5, <1>6, <1>7, <1>11 DEF new

(* What a step does to one chat is all that it does.                         *)
LEMMA OneChat ==
    ASSUME AssistantInv, NEW c \in Chats, UNCHANGED <<ai, moved>>, DOMAIN chat' = Chats, KeysStayHome',
           \A d \in Chats \ {c} : chat'[d] = chat[d],
           TalkOK(chat'[c]), AllowedOK(chat'[c], ai.camera) /\ AtHome(chat'[c], moved)
    PROVE  AssistantInv'
BY DEF AssistantInv, AllowedOK, AtHome

LEMMA KeySent ==
    ASSUME KeysStayHome, UNCHANGED moved, NEW s, AtHome(s, moved), Sends(s.key, s.to)
    PROVE  KeysStayHome'
<1> SUFFICES ASSUME NEW r \in keySent' PROVE AtHome(r, moved)
  BY DEF KeysStayHome, AtHome
<1>1. CASE r \in keySent BY <1>1 DEF KeysStayHome
<1>2. CASE r = [key |-> s.key, to |-> s.to]
  <2>1. r.key = s.key /\ r.to = s.to BY <1>2
  <2> QED BY <2>1 DEF AtHome
<1> QED BY <1>1, <1>2 DEF Sends

(* The result of a call: the fields of a chat after it.                      *)
LEMMA AnsweredDoes ==
    ASSUME NEW c \in Chats, TalkTypes(chat[c]), NEW was
    PROVE  LET k == chat[c]
               n == Answered(c, was)
           IN  /\ DOMAIN n = DOMAIN k /\ n.at = "running" /\ n.to = k.to /\ n.key = k.key /\ n.allowed = k.allowed
               /\ n.left = Tail(k.left)
               /\ n.said = Append(k.said, [is |-> "result", of |-> Head(k.left), was |-> was])
               /\ n.frames = IF was = "image" THEN k.frames + 1 ELSE k.frames
<1> DEFINE k == chat[c]
           m == [is |-> "result", of |-> Head(k.left), was |-> was]
           half == [k EXCEPT !.at = "running", !.left = Tail(@)]
           n == [half EXCEPT !.said = Append(@, m), !.frames = IF was = "image" THEN @ + 1 ELSE @]
<1>1. DOMAIN k = {"at", "to", "key", "round", "said", "left", "frames", "allowed"} BY DEF TalkTypes
<1>2. Answered(c, was) = n BY DEF Answered
<1> HIDE DEF k, m
<1>3. /\ DOMAIN half = DOMAIN k /\ half.at = "running" /\ half.to = k.to /\ half.key = k.key
      /\ half.allowed = k.allowed /\ half.left = Tail(k.left) /\ half.said = k.said /\ half.frames = k.frames
  BY <1>1
<1> HIDE DEF half
<1>4. /\ DOMAIN n = DOMAIN half /\ n.at = half.at /\ n.to = half.to /\ n.key = half.key
      /\ n.allowed = half.allowed /\ n.left = half.left /\ n.said = Append(half.said, m)
      /\ n.frames = IF was = "image" THEN half.frames + 1 ELSE half.frames
  BY <1>1, <1>3
<1> HIDE DEF n
<1> QED BY <1>2, <1>3, <1>4 DEF k, m

LEMMA SameOrMore == \A x \in Nat : \A y : y = x \/ y = x + 1 => y \in Nat
OBVIOUS

LEMMA HeadIsOf ==
    ASSUME NEW S, NEW q \in Seq(S), q # <<>>
    PROVE  Head(q) \in S
<1>1. Len(q) \in Nat \ {0} /\ Head(q) = q[1] OBVIOUS
<1>2. q \in [1 .. Len(q) -> S] /\ 1 \in 1 .. Len(q) BY <1>1
<1> QED BY <1>1, <1>2

LEMMA AnsweredIsOK ==
    ASSUME NEW c \in Chats, TalkOK(chat[c]), AllowedOK(chat[c], ai.camera), AtHome(chat[c], moved),
           chat[c].left # <<>>,
           NEW was \in {"data", "refused", "repeated", "image", "no image"},
           was = "repeated" \/ ~CalledIn(chat[c].said, Head(chat[c].left)),
           was = "image" => chat[c].at = "looking"
    PROVE  TalkOK(Answered(c, was)) /\ AllowedOK(Answered(c, was), ai.camera) /\ AtHome(Answered(c, was), moved)
<1> DEFINE k == chat[c]
           n == Answered(c, was)
           m == [is |-> "result", of |-> Head(k.left), was |-> was]
<1>1. TalkTypes(k) /\ CallsStand(k.said, k.left) /\ RanOnce(k.said) /\ k.left # <<>>
      /\ Cardinality(PicturesIn(k.said)) + k.frames = Cardinality(ImagesIn(k.said))
  BY DEF TalkOK
<1>2. /\ DOMAIN n = DOMAIN k /\ n.at = "running" /\ n.to = k.to /\ n.key = k.key /\ n.allowed = k.allowed
      /\ n.left = Tail(k.left) /\ n.said = Append(k.said, m)
      /\ n.frames = IF was = "image" THEN k.frames + 1 ELSE k.frames
  BY <1>1, AnsweredDoes
<1>3. k.said \in Seq(Messages) /\ k.left \in Seq(Tools) /\ k.frames \in Nat /\ k.allowed \in BOOLEAN
  BY <1>1 DEF TalkTypes
<1>4. Head(k.left) \in Tools
  BY <1>1, <1>3, HeadIsOf
<1>5. m \in Messages /\ m.is = "result" /\ m.of = Head(k.left) /\ m.was = was BY <1>4 DEF Messages
<1>6. was = "repeated" \/ ~CalledIn(k.said, m.of) BY <1>5
<1>7. was = "image" => k.at = "looking" OBVIOUS
<1>8. AllowedOK(k, ai.camera) /\ AtHome(k, moved) OBVIOUS
<1> HIDE DEF k, n, m
<1>9. n.said \in Seq(Messages) BY <1>2, <1>3, <1>5, SaidMore
<1>10. CallsStand(n.said, n.left) /\ n.left \in Seq(Tools) BY <1>1, <1>2, <1>3, <1>5, ResultStands
<1>11. /\ RanOnce(n.said) /\ PicturesIn(n.said) = PicturesIn(k.said)
       /\ was # "image" => ImagesIn(n.said) = ImagesIn(k.said)
       /\ was = "image" => Cardinality(ImagesIn(n.said)) = Cardinality(ImagesIn(k.said)) + 1
  <2>1. CASE was = "repeated" BY <1>1, <1>2, <1>3, <1>5, <2>1, CountsStay
  <2>2. CASE was # "repeated" BY <1>1, <1>2, <1>3, <1>5, <1>6, <2>2, NewResult
  <2> QED BY <2>1, <2>2
<1>12. n.frames \in Nat
  <2>1. n.frames = k.frames \/ n.frames = k.frames + 1 BY <1>2
  <2>2. k.frames \in Nat BY <1>3
  <2> QED BY <2>1, <2>2, SameOrMore, Zenon
<1>13. Cardinality(PicturesIn(n.said)) + n.frames = Cardinality(ImagesIn(n.said))
  <2>1. Cardinality(PicturesIn(k.said)) \in Nat BY <1>3, CountsAreFinite
  <2>2. CASE was = "image" BY <1>1, <1>2, <1>3, <1>11, <2>1, <2>2
  <2>3. CASE was # "image" BY <1>1, <1>2, <1>11, <2>3
  <2> QED BY <2>2, <2>3
<1>14. TalkTypes(n) BY <1>1, <1>2, <1>3, <1>9, <1>10, <1>12 DEF TalkTypes
<1>15. TalkOK(n) BY <1>1, <1>2, <1>10, <1>11, <1>13, <1>14 DEF TalkOK
<1>16. n.frames # 0 => k.frames # 0 \/ k.at = "looking" BY <1>2, <1>7
<1>17. AllowedOK(n, ai.camera) /\ AtHome(n, moved) BY <1>2, <1>8, <1>11, <1>16 DEF AllowedOK, AtHome
<1> QED BY <1>15, <1>17 DEF n

LEMMA AssistantStepOK == AssistantInv /\ [AssistantNext]_assistantVars => AssistantInv'
<1> SUFFICES ASSUME AssistantInv, [AssistantNext]_assistantVars PROVE AssistantInv'
  OBVIOUS
<1>t. /\ AtHome(ai, moved) /\ ai.camera \in BOOLEAN /\ DOMAIN chat = Chats /\ KeysStayHome
      /\ \A c \in Chats : chat[c] # NoChat => TalkOK(chat[c]) /\ AllowedOK(chat[c], ai.camera) /\ AtHome(chat[c], moved)
  BY DEF AssistantInv
<1>c. ASSUME NEW c \in Chats, chat[c].at \in {"asking", "running", "looking"}
      PROVE  TalkOK(chat[c]) /\ AllowedOK(chat[c], ai.camera) /\ AtHome(chat[c], moved) /\ TalkTypes(chat[c])
  BY <1>c, <1>t DEF NoChat, TalkOK
<1>r. ASSUME NEW on \in BOOLEAN, NEW camera \in BOOLEAN, NEW to, NEW key, Replace(on, to, key, camera),
             AtHome(ai', moved'), moved \subseteq moved'
      PROVE  AssistantInv'
  <2>1. /\ ai' = [on |-> on, to |-> to, key |-> key, camera |-> camera] /\ UNCHANGED keySent
        /\ chat' = [c \in Chats |-> IF chat[c] = NoChat THEN NoChat
                                    ELSE [chat[c] EXCEPT !.allowed = @ \/ camera]]
    BY <1>r DEF Replace
  <2>2. ai'.camera = camera BY <2>1
  <2>3. KeysStayHome' BY <1>t, <1>r, <2>1 DEF KeysStayHome, AtHome
  <2>4. ASSUME NEW c \in Chats, chat'[c] # NoChat
        PROVE  TalkOK(chat'[c]) /\ AllowedOK(chat'[c], ai'.camera) /\ AtHome(chat'[c], moved')
    <3> DEFINE k == chat[c]
               n == chat'[c]
    <3>1. k # NoChat /\ n = [k EXCEPT !.allowed = @ \/ camera] BY <2>1, <2>4
    <3>2. TalkOK(k) /\ AllowedOK(k, ai.camera) /\ AtHome(k, moved) BY <1>t, <3>1
    <3> HIDE DEF k, n
    <3>3. /\ DOMAIN n = DOMAIN k /\ n.at = k.at /\ n.to = k.to /\ n.key = k.key /\ n.said = k.said
          /\ n.left = k.left /\ n.frames = k.frames
      BY <3>1, <3>2 DEF TalkOK, TalkTypes
    <3>4. n.allowed = (k.allowed \/ camera) BY <3>1, <3>2 DEF TalkOK, TalkTypes
    <3>5. TalkOK(n) BY <3>2, <3>3, <3>4, <1>r DEF TalkOK, TalkTypes
    <3>6. AllowedOK(n, ai'.camera) BY <2>2, <3>2, <3>3, <3>4 DEF AllowedOK
    <3>7. AtHome(n, moved') BY <1>r, <3>2, <3>3 DEF AtHome
    <3> QED BY <3>5, <3>6, <3>7 DEF n
  <2>5. DOMAIN chat' = Chats /\ ai'.camera \in BOOLEAN BY <2>1, <2>2
  <2> QED BY <1>r, <2>3, <2>4, <2>5 DEF AssistantInv
<1>1. CASE SaveAI
  <2>1. PICK on \in BOOLEAN, camera \in BOOLEAN, to \in Endpoints :
          \E key \in {to, NoKey, IF SameEndpoint(ai.to, to) THEN ai.key ELSE NoKey} :
            Replace(on, to, key, camera)
    BY <1>1 DEF SaveAI
  <2>2. PICK key \in {to, NoKey, IF SameEndpoint(ai.to, to) THEN ai.key ELSE NoKey} :
          Replace(on, to, key, camera)
    BY <2>1
  <2>3. moved' = moved BY <1>1 DEF SaveAI
  <2>4. ai'.key = key /\ ai'.to = to BY <2>2 DEF Replace
  <2>5. AtHome(ai', moved') BY <1>t, <2>2, <2>3, <2>4 DEF SameEndpoint, AtHome
  <2> QED BY <1>r, <2>2, <2>3, <2>5
<1>10. CASE PostConfig
  <2>1. PICK on \in BOOLEAN, camera \in BOOLEAN, to \in Endpoints : \E key \in {to, ai.key} : Replace(on, to, key, camera)
    BY <1>10 DEF PostConfig
  <2>2. PICK key \in {to, ai.key} : Replace(on, to, key, camera) BY <2>1
  <2>3. moved' = IF AtHome(ai', {}) THEN moved ELSE moved \cup {[key |-> ai'.key, to |-> ai'.to]}
    BY <1>10 DEF PostConfig
  <2>4. AtHome(ai', moved') /\ moved \subseteq moved' BY <2>3 DEF AtHome
  <2> QED BY <1>r, <2>2, <2>4
<1>2. CASE ListModels
  <2>0. PICK to \in Hosted \cup Own :
          \E key \in {to, IF SameEndpoint(ai.to, to) THEN ai.key ELSE NoKey} : Sends(key, to)
    BY <1>2 DEF ListModels
  <2>1. PICK key \in {to, IF SameEndpoint(ai.to, to) THEN ai.key ELSE NoKey} : Sends(key, to)
    BY <2>0
  <2>2. PICK s : s = [key |-> key, to |-> to] OBVIOUS
  <2>3. s.key = key /\ s.to = to /\ AtHome(s, moved) BY <1>t, <2>1, <2>2 DEF SameEndpoint, AtHome
  <2>4. UNCHANGED <<ai, chat, moved>> BY <1>2 DEF ListModels
  <2>5. KeysStayHome' BY <1>t, <2>1, <2>3, <2>4, KeySent
  <2> QED BY <1>t, <2>4, <2>5 DEF AssistantInv, AllowedOK, AtHome
<1>3. ASSUME NEW c \in Chats, StartChat(c) PROVE AssistantInv'
  <2>1. /\ chat' = [chat EXCEPT ![c] =
             [at |-> "asking", to |-> ai.to, key |-> ai.key, round |-> 0, said |-> <<>>,
              left |-> <<>>, frames |-> 0, allowed |-> ai.camera]]
        /\ Sends(ai.key, ai.to) /\ UNCHANGED <<ai, moved>>
    BY <1>3 DEF StartChat
  <2>2. KeysStayHome' BY <1>t, <2>1, KeySent
  <2> DEFINE n == chat'[c]
  <2>3. n = [at |-> "asking", to |-> ai.to, key |-> ai.key, round |-> 0, said |-> <<>>,
             left |-> <<>>, frames |-> 0, allowed |-> ai.camera]
    BY <1>t, <2>1
  <2> HIDE DEF n
  <2>4. /\ DOMAIN n = {"at", "to", "key", "round", "said", "left", "frames", "allowed"}
        /\ n.at = "asking" /\ n.to = ai.to /\ n.key = ai.key /\ n.said = <<>> /\ n.left = <<>>
        /\ n.frames = 0 /\ n.allowed = ai.camera
    BY <2>3
  <2>5. <<>> \in Seq(Messages) /\ <<>> \in Seq(Tools) /\ DOMAIN <<>> = {} OBVIOUS
  <2>6. PicturesIn(<<>>) = {} /\ ImagesIn(<<>>) = {} /\ RanOnce(<<>>) /\ CallsStand(<<>>, <<>>)
    BY <2>5 DEF PicturesIn, ImagesIn, RanOnce, CallsStand
  <2>7. Cardinality({}) = 0 BY FS_EmptySet
  <2>8. TalkTypes(n) BY <1>t, <2>4, <2>5 DEF TalkTypes
  <2>9. Cardinality(PicturesIn(n.said)) + n.frames = Cardinality(ImagesIn(n.said))
    <3>1. PicturesIn(n.said) = {} /\ ImagesIn(n.said) = {} /\ n.frames = 0 BY <2>4, <2>6
    <3> QED BY <2>7, <3>1
  <2>10. TalkOK(n) BY <1>t, <2>4, <2>6, <2>8, <2>9 DEF TalkOK
  <2>11. AllowedOK(n, ai.camera) /\ AtHome(n, moved) BY <1>t, <2>4, <2>6 DEF AllowedOK, AtHome
  <2> QED BY <1>t, <2>1, <2>2, <2>10, <2>11, OneChat DEF n
<1>4. ASSUME NEW c \in Chats, ChatEnds(c) PROVE AssistantInv'
  <2> DEFINE k == chat[c]
             n == chat'[c]
  <2>1. k.at = "asking" /\ TalkOK(k) /\ AllowedOK(k, ai.camera) /\ AtHome(k, moved) /\ TalkTypes(k)
    BY <1>4, <1>c DEF ChatEnds
  <2>2. n = [k EXCEPT !.at = "over"] /\ UNCHANGED <<ai, keySent, moved>> BY <1>4, <1>t DEF ChatEnds
  <2>3. DOMAIN chat' = Chats /\ \A d \in Chats \ {c} : chat'[d] = chat[d] BY <1>4, <1>t DEF ChatEnds
  <2> HIDE DEF k, n
  <2>4. /\ DOMAIN n = DOMAIN k /\ n.at = "over" /\ n.to = k.to /\ n.key = k.key /\ n.said = k.said
        /\ n.left = k.left /\ n.frames = k.frames /\ n.allowed = k.allowed
    BY <2>1, <2>2 DEF TalkTypes
  <2>5. TalkOK(n) BY <2>1, <2>4 DEF TalkOK, TalkTypes
  <2>6. AllowedOK(n, ai.camera) /\ AtHome(n, moved) BY <2>1, <2>4 DEF AllowedOK, AtHome
  <2> QED BY <1>t, <2>2, <2>3, <2>5, <2>6, OneChat DEF n, KeysStayHome
<1>5. ASSUME NEW c \in Chats, ReplyCalls(c) PROVE AssistantInv'
  <2> DEFINE k == chat[c]
             n == chat'[c]
  <2>1. k.at = "asking" /\ TalkOK(k) /\ AllowedOK(k, ai.camera) /\ AtHome(k, moved) /\ TalkTypes(k)
    BY <1>5, <1>c DEF ReplyCalls
  <2>2. PICK calls \in Replies, named \in SeqOf(Lookups \cup {Camera}, MaxCalls) :
          /\ named = Named(calls)
          /\ chat' = [chat EXCEPT ![c].at = "running", ![c].left = named,
                                  ![c].said = Append(@, [is |-> "calls", of |-> calls])]
    BY <1>5 DEF ReplyCalls, Replies
  <2> DEFINE m == [is |-> "calls", of |-> calls]
  <2>3. DOMAIN chat' = Chats /\ \A d \in Chats \ {c} : chat'[d] = chat[d] BY <2>2, <1>t
  <2>4. UNCHANGED <<ai, keySent, moved>> BY <1>5 DEF ReplyCalls
  <2>5. m \in Messages /\ m.is = "calls" /\ m.of = calls BY DEF Messages
  <2>6. /\ DOMAIN n = DOMAIN k /\ n.at = "running" /\ n.to = k.to /\ n.key = k.key /\ n.said = Append(k.said, m)
        /\ n.left = named /\ n.frames = k.frames /\ n.allowed = k.allowed
    <3> HIDE DEF m
    <3>1. chat' = [chat EXCEPT ![c] = [k EXCEPT !.at = "running", !.left = named, !.said = Append(@, m)]]
      BY <2>2 DEF m
    <3>2. n = [k EXCEPT !.at = "running", !.left = named, !.said = Append(@, m)] BY <1>t, <3>1
    <3> HIDE DEF k, n
    <3> QED BY <2>1, <3>2 DEF TalkTypes
  <2>7. named \in Seq(Tools)
    <3>1. PICK w \in 0 .. MaxCalls : named \in [1 .. w -> Tools] BY <2>2 DEF SeqOf, Tools
    <3>2. w \in Nat BY <3>1
    <3> QED BY <3>1, <3>2
  <2> HIDE DEF k, n, m
  <2>8. k.said \in Seq(Messages) /\ CallsStand(k.said, <<>>) /\ RanOnce(k.said) /\ k.frames = 0
    BY <2>1 DEF TalkOK, TalkTypes
  <2>9. CallsStand(n.said, n.left) BY <2>2, <2>5, <2>6, <2>7, <2>8, CallsBegin
  <2>10. n.said \in Seq(Messages) BY <2>5, <2>6, <2>8, SaidMore
  <2>11. RanOnce(n.said) /\ PicturesIn(n.said) = PicturesIn(k.said) /\ ImagesIn(n.said) = ImagesIn(k.said)
    BY <2>5, <2>6, <2>8, CountsStay
  <2>12. TalkTypes(n) BY <2>1, <2>6, <2>7, <2>10 DEF TalkTypes
  <2>13. Cardinality(PicturesIn(n.said)) + n.frames = Cardinality(ImagesIn(n.said))
    BY <2>1, <2>6, <2>11 DEF TalkOK
  <2>15. TalkOK(n) BY <2>6, <2>9, <2>11, <2>12, <2>13 DEF TalkOK
  <2>16. AllowedOK(n, ai.camera) /\ AtHome(n, moved) BY <2>1, <2>6, <2>11 DEF AllowedOK, AtHome
  <2> QED BY <1>t, <2>3, <2>4, <2>15, <2>16, OneChat DEF n, KeysStayHome
<1>6. ASSUME NEW c \in Chats, RunCall(c) PROVE AssistantInv'
  <2> DEFINE k == chat[c]
             n == chat'[c]
             call == Head(k.left)
  <2>1. k.at = "running" /\ k.left # <<>> /\ TalkOK(k) /\ AllowedOK(k, ai.camera) /\ AtHome(k, moved) /\ TalkTypes(k)
    BY <1>6, <1>c DEF RunCall
  <2>2. chat' = [chat EXCEPT ![c] = IF Called(c, call) THEN Answered(c, "repeated") ELSE Execute(c, call)]
        /\ UNCHANGED <<ai, keySent, moved>>
    BY <1>6 DEF RunCall
  <2>3. DOMAIN chat' = Chats /\ \A d \in Chats \ {c} : chat'[d] = chat[d] BY <2>2, <1>t
  <2>4. Called(c, call) <=> CalledIn(k.said, call) BY DEF Called, CalledIn
  <2>5. n = IF Called(c, call) THEN Answered(c, "repeated") ELSE Execute(c, call) BY <2>2, <1>t
  <2>6. TalkOK(n) /\ AllowedOK(n, ai.camera) /\ AtHome(n, moved)
    <3>1. CASE Called(c, call)
      <4>1. n = Answered(c, "repeated") BY <2>5, <3>1
      <4> HIDE DEF n
      <4> QED BY <2>1, <4>1, AnsweredIsOK
    <3>2. CASE ~Called(c, call) /\ call # Camera
      <4>1. n = Answered(c, "data") BY <2>5, <3>2 DEF Execute
      <4> HIDE DEF n
      <4> QED BY <2>1, <2>4, <3>2, <4>1, AnsweredIsOK
    <3>3. CASE ~Called(c, call) /\ call = Camera /\ ~ai.camera
      <4>1. n = Answered(c, "refused") BY <2>5, <3>3 DEF Execute
      <4> HIDE DEF n
      <4> QED BY <2>1, <2>4, <3>3, <4>1, AnsweredIsOK
    <3>4. CASE ~Called(c, call) /\ call = Camera /\ ai.camera
      <4>1. n = [k EXCEPT !.at = "looking"] BY <2>5, <3>4 DEF Execute
      <4>2. ~CalledIn(k.said, Head(k.left)) BY <2>4, <3>4
      <4> HIDE DEF k, n
      <4>3. /\ DOMAIN n = DOMAIN k /\ n.at = "looking" /\ n.to = k.to /\ n.key = k.key /\ n.said = k.said
            /\ n.left = k.left /\ n.frames = k.frames /\ n.allowed = k.allowed
        BY <2>1, <4>1 DEF TalkTypes
      <4>4. TalkOK(n) BY <2>1, <4>2, <4>3 DEF TalkOK, TalkTypes
      <4>5. AllowedOK(n, ai.camera) /\ AtHome(n, moved) BY <2>1, <3>4, <4>3 DEF AllowedOK, AtHome
      <4> QED BY <4>4, <4>5
    <3> QED BY <3>1, <3>2, <3>3, <3>4
  <2> HIDE DEF k, call
  <2> QED BY <1>t, <2>2, <2>3, <2>6, OneChat DEF KeysStayHome
<1>7. ASSUME NEW c \in Chats, FrameComes(c) PROVE AssistantInv'
  <2>1. PICK was \in {"image", "no image"} : chat' = [chat EXCEPT ![c] = Answered(c, was)]
    BY <1>7 DEF FrameComes
  <2>2. chat[c].at = "looking" /\ UNCHANGED <<ai, keySent, moved>> BY <1>7 DEF FrameComes
  <2>3. chat'[c] = Answered(c, was) /\ DOMAIN chat' = Chats /\ \A d \in Chats \ {c} : chat'[d] = chat[d]
    BY <2>1, <1>t
  <2>4. TalkOK(chat[c]) /\ AllowedOK(chat[c], ai.camera) /\ AtHome(chat[c], moved) BY <2>2, <1>c
  <2>5. chat[c].left # <<>> /\ ~CalledIn(chat[c].said, Head(chat[c].left)) BY <2>2, <2>4 DEF TalkOK
  <2>6. TalkOK(chat'[c]) /\ AllowedOK(chat'[c], ai.camera) /\ AtHome(chat'[c], moved)
    BY <2>2, <2>3, <2>4, <2>5, AnsweredIsOK
  <2> QED BY <1>t, <2>2, <2>3, <2>6, OneChat DEF KeysStayHome
<1>8. ASSUME NEW c \in Chats, NextRound(c) PROVE AssistantInv'
  <2> DEFINE k == chat[c]
             n == chat'[c]
             more == k.round < MaxToolRounds
             at == IF more THEN "asking" ELSE "over"
             round == IF more THEN k.round + 1 ELSE k.round
             said == k.said \o Pictures(k.frames)
  <2>1. k.at = "running" /\ k.left = <<>> /\ TalkOK(k) /\ AllowedOK(k, ai.camera) /\ AtHome(k, moved) /\ TalkTypes(k)
    BY <1>8, <1>c DEF NextRound
  <2>2. /\ chat' = [chat EXCEPT ![c] = [k EXCEPT !.at = at, !.round = round, !.said = said, !.frames = 0]]
        /\ UNCHANGED <<ai, moved>> /\ (Sends(k.key, k.to) \/ UNCHANGED keySent)
    BY <1>8 DEF NextRound
  <2>3. DOMAIN chat' = Chats /\ \A d \in Chats \ {c} : chat'[d] = chat[d] BY <2>2, <1>t
  <2>4. at # "looking" OBVIOUS
  <2>5. n = [k EXCEPT !.at = at, !.round = round, !.said = said, !.frames = 0] BY <2>2, <1>t
  <2>6. KeysStayHome'
    <3>2. CASE Sends(k.key, k.to) BY <1>t, <2>1, <2>2, <3>2, KeySent
    <3>3. CASE UNCHANGED keySent BY <1>t, <2>2, <3>3 DEF KeysStayHome
    <3> QED BY <2>2, <3>2, <3>3
  <2> HIDE DEF k, n, at, round, said
  <2>7. /\ DOMAIN n = DOMAIN k /\ n.at = at /\ n.to = k.to /\ n.key = k.key /\ n.said = said
        /\ n.left = k.left /\ n.frames = 0 /\ n.allowed = k.allowed
    <3> DEFINE half == [k EXCEPT !.at = at, !.round = round]
    <3>1. /\ DOMAIN half = DOMAIN k /\ half.at = at /\ half.to = k.to /\ half.key = k.key
          /\ half.left = k.left /\ half.allowed = k.allowed
      BY <2>1 DEF TalkTypes
    <3>2. n = [half EXCEPT !.said = said, !.frames = 0] BY <2>5
    <3> HIDE DEF half
    <3> QED BY <2>1, <3>1, <3>2 DEF TalkTypes
  <2>8. k.said \in Seq(Messages) /\ CallsStand(k.said, <<>>) /\ RanOnce(k.said) /\ k.frames \in Nat
    BY <2>1 DEF TalkOK, TalkTypes
  <2>9. said \in Seq(Messages) /\ CallsStand(said, <<>>) BY <2>8, SaidPictures, PicturesStand DEF said
  <2>10. /\ RanOnce(said) /\ ImagesIn(said) = ImagesIn(k.said)
         /\ k.frames = 0 => PicturesIn(said) = PicturesIn(k.said)
         /\ Cardinality(PicturesIn(said)) = Cardinality(PicturesIn(k.said)) + k.frames
    BY <2>8, PicturesCount DEF said
  <2>11. Cardinality(PicturesIn(said)) = Cardinality(ImagesIn(said)) BY <2>1, <2>10 DEF TalkOK
  <2>12. Cardinality(PicturesIn(n.said)) + n.frames = Cardinality(ImagesIn(n.said))
    <3>1. Cardinality(PicturesIn(said)) \in Nat BY <2>9, CountsAreFinite
    <3> QED BY <2>7, <2>11, <3>1
  <2>13. TalkTypes(n) BY <2>1, <2>7, <2>9 DEF TalkTypes
  <2>15. n.left = <<>> BY <2>1, <2>7
  <2>16. TalkOK(n) BY <2>4, <2>7, <2>9, <2>10, <2>12, <2>13, <2>15 DEF TalkOK
  <2>17. AllowedOK(n, ai.camera) /\ AtHome(n, moved) BY <2>1, <2>4, <2>7, <2>10 DEF AllowedOK, AtHome
  <2> QED BY <1>t, <2>2, <2>3, <2>6, <2>16, <2>17, OneChat DEF n
<1>9. CASE UNCHANGED assistantVars
  BY <1>9, <1>t DEF assistantVars, AssistantInv, AllowedOK, AtHome, KeysStayHome
<1> QED BY <1>1, <1>2, <1>3, <1>4, <1>5, <1>6, <1>7, <1>8, <1>9, <1>10 DEF AssistantNext

-----------------------------------------------------------------------------
(* ConfigStore, one request at a time.                                       *)

(* What runs while the loops of syncPrinterConnections go from one config to *)
(* another: what they have passed is the new config's, and what they have    *)
(* not is the old one's.                                                     *)
ConnOf(list, kind, n) == IF n \in Of(list, kind) THEN list[n].set ELSE NoPrinter

SyncStands(j) ==
    /\ j.at = "bambu" =>
         /\ j.todo \subseteq Of(j.new, "bambu")
         /\ \A n \in Names : IF n \in Of(j.new, "bambu") \ j.todo THEN mqtt[n] = j.new[n].set
                             ELSE mqtt[n] = ConnOf(j.old, "bambu", n)
    /\ j.at = "drop" => \A n \in Names \ j.todo : mqtt[n] = ConnOf(j.new, "bambu", n)
    /\ j.at \in {"http", "gone"} => \A n \in Names : mqtt[n] = ConnOf(j.new, "bambu", n)
    /\ j.at = "drop" => j.todo \cap Of(j.new, "bambu") = {}
    /\ j.at = "http" => \A n \in Of(j.new, "http") \ j.todo : poll[n] = j.new[n].set
    /\ j.at = "gone" => \A n \in Of(j.new, "http") : poll[n] = j.new[n].set

(* The connections of a config run, but for those of the request at work.    *)
RunsAll(list) == \A n \in Names : mqtt[n] = ConnOf(list, "bambu", n) /\ poll[n] = ConnOf(list, "http", n)

OnePrinter(j) ==
    /\ \A n \in Names \ {j.name} : j.new[n] = j.old[n]
    /\ j.op = "add" => j.old[j.name] = NoPrinter
    /\ j.op = "delete" => j.new[j.name] = NoPrinter
    /\ j.op = "edit" => /\ j.old[j.name] # NoPrinter /\ j.new[j.name] # NoPrinter
                        /\ j.old[j.name].kind = j.new[j.name].kind

JobStands(j) ==
    /\ j.new = live.list
    /\ j.at \in {"bambu", "drop", "http", "gone"} => j.op = "replace" /\ SyncStands(j)
    /\ j.at \in {"save", "connect"} /\ j.op \in {"replace", "setting"} => j.at = "save" /\ RunsAll(j.new)
    /\ j.at \in {"save", "connect"} /\ j.op \in {"add", "delete", "edit"} => OnePrinter(j) /\ RunsAll(j.old)

SoloInv ==
    /\ \A h, g \in Handlers : job[h] # Idle /\ job[g] # Idle => h = g
    /\ (\A h \in Handlers : job[h] = Idle) => RunsAll(live.list)
    /\ \A h \in Handlers : job[h] # Idle => JobStands(job[h])

LEMMA SoloStart == Init => SoloInv
BY DEF Init, SoloInv, RunsAll, ConnOf, Of

(* One request is at work, before or after the step.                         *)
LEMMA SoloOne ==
    ASSUME NEW h \in Handlers, \A g \in Handlers \ {h} : job'[g] = Idle,
           job'[h] = Idle => RunsAll(live.list)', job'[h] # Idle => JobStands(job[h])'
    PROVE  SoloInv'
BY DEF SoloInv

LEMMA SoloChange ==
    ASSUME TypeOK, SoloInv, NEW h \in Handlers, NEW op \in {"replace", "add", "delete", "edit", "setting"},
           NEW n \in Names, NEW list \in Configs, NEW first \in {"bambu", "save"},
           Change(h, op, n, list, first), op = "replace" <=> first = "bambu",
           op = "setting" => list = live.list,
           op \in {"add", "delete", "edit"} => \A m \in Names \ {n} : list[m] = live.list[m],
           op = "add" => live.list[n] = NoPrinter, op = "delete" => list[n] = NoPrinter,
           op = "edit" => live.list[n] # NoPrinter /\ list[n] # NoPrinter /\ live.list[n].kind = list[n].kind,
           \A g, k \in Handlers : job'[g] # Idle /\ job'[k] # Idle => g = k
    PROVE  SoloInv'
<1>1. PICK j : j = [at |-> first, op |-> op, gen |-> cloneGen + 1, old |-> live.list, new |-> list,
                    todo |-> Of(list, "bambu"), name |-> n, failed |-> FALSE]
  OBVIOUS
<1>2. job' = [job EXCEPT ![h] = j] /\ job[h] = Idle /\ live'.list = list /\ mqtt' = mqtt /\ poll' = poll
  BY <1>1 DEF Change
<1>3. j # Idle BY <1>1 DEF Idle
<1>4. job'[h] = j /\ \A g \in Handlers \ {h} : job'[g] = job[g] BY <1>2 DEF TypeOK
<1>5. \A g \in Handlers \ {h} : job'[g] = Idle BY <1>3, <1>4
<1>6. RunsAll(live.list) BY <1>2, <1>4, <1>5 DEF SoloInv
<1>7. /\ job'[h].at = first /\ job'[h].op = op /\ job'[h].old = live.list /\ job'[h].new = list
      /\ job'[h].todo = Of(list, "bambu") /\ job'[h].name = n
  BY <1>1, <1>4
<1>8. JobStands(job[h])'
  <2>1. CASE op = "replace"
    <3>1. SyncStands(job[h])' BY <1>2, <1>6, <1>7, <2>1 DEF SyncStands, RunsAll
    <3> QED BY <1>2, <1>7, <2>1, <3>1 DEF JobStands
  <2>2. CASE op = "setting" BY <1>2, <1>6, <1>7, <2>2 DEF JobStands, RunsAll
  <2>3. CASE op \in {"add", "delete", "edit"}
    <3>1. OnePrinter(job[h])' BY <1>7, <2>3 DEF OnePrinter
    <3>2. RunsAll(job[h].old)' BY <1>2, <1>6, <1>7 DEF RunsAll
    <3> QED BY <1>2, <1>7, <2>3, <3>1, <3>2 DEF JobStands
  <2> QED BY <2>1, <2>2, <2>3
<1> QED BY <1>3, <1>4, <1>5, <1>8, SoloOne

(* The other steps: who is at work goes on with its job, or ends it.         *)
LEMMA SoloGoes ==
    ASSUME TypeOK, SoloInv, NEW h \in Handlers, job[h] # Idle, live' = live,
           job'[h] = Idle => RunsAll(live.list)', job'[h] # Idle => JobStands(job[h])',
           \A g \in Handlers \ {h} : job'[g] = job[g]
    PROVE  SoloInv'
<1>1. \A g \in Handlers \ {h} : job'[g] = Idle BY DEF SoloInv
<1> QED BY <1>1, SoloOne

(* What a job keeps when its step or its list of printers to do changes.     *)
LEMMA StepDoes ==
    ASSUME TypeOK, NEW h \in Handlers, job[h].at \in Steps, NEW at \in Steps, NEW todo,
           job' = [job EXCEPT ![h] = [job[h] EXCEPT !.at = at, !.todo = todo]]
    PROVE  /\ job[h] # Idle /\ job'[h] # Idle /\ \A g \in Handlers \ {h} : job'[g] = job[g]
           /\ job'[h].at = at /\ job'[h].todo = todo
           /\ job'[h].op = job[h].op /\ job'[h].old = job[h].old /\ job'[h].new = job[h].new
           /\ job'[h].name = job[h].name
<1>1. job[h] \in Jobs /\ job[h] # Idle BY AtWork
<1>2. job'[h] = [job[h] EXCEPT !.at = at, !.todo = todo] /\ \A g \in Handlers \ {h} : job'[g] = job[g]
  BY DEF TypeOK
<1> DEFINE k == job[h]
           n == job'[h]
<1>3. DOMAIN k = {"at", "op", "gen", "old", "new", "todo", "name", "failed"} BY <1>1 DEF Jobs
<1>4. n = [k EXCEPT !.at = at, !.todo = todo] BY <1>2
<1> HIDE DEF k, n
<1>5. /\ n.at = at /\ n.todo = todo /\ n.op = k.op /\ n.old = k.old /\ n.new = k.new /\ n.name = k.name
  BY <1>3, <1>4
<1>6. Idle.at = "idle" /\ at # "idle" BY DEF Idle, Steps
<1>7. n # Idle BY <1>5, <1>6
<1> QED BY <1>1, <1>2, <1>5, <1>7 DEF k, n

LEMMA SoloLoops ==
    ASSUME TypeOK, SoloInv, NEW h \in Handlers,
           SyncBambu(h) \/ DropBambu(h) \/ SyncHttp(h) \/ DropHttp(h) \/ NextLoop(h)
    PROVE  SoloInv'
<1> DEFINE j == job[h]
<1>1. /\ j.at \in {"bambu", "drop", "http", "gone"} /\ live' = live
      /\ mqtt' = mqtt \/ poll' = poll
  BY DEF SyncBambu, DropBambu, SyncHttp, DropHttp, NextLoop
<1>2. j \in Jobs /\ j # Idle BY <1>1, AtWork DEF Steps
<1>3. j.new = live.list /\ j.op = "replace" /\ SyncStands(j) BY <1>1, <1>2 DEF SoloInv, JobStands
<1>4. j.new \in Configs /\ j.old \in Configs /\ j.todo \subseteq Names BY <1>2 DEF Jobs
<1>5. /\ \A n \in Names : mqtt[n] \in Settings \cup {NoPrinter} /\ poll[n] \in Settings \cup {NoPrinter}
      /\ DOMAIN mqtt = Names /\ DOMAIN poll = Names
  BY DEF TypeOK
<1>6. j = [j EXCEPT !.at = j.at, !.todo = j.todo]
  BY <1>2 DEF Jobs
<1>7. ASSUME NEW at \in {"bambu", "drop", "http", "gone", "save"}, NEW todo,
             job' = [job EXCEPT ![h] = [job[h] EXCEPT !.at = at, !.todo = todo]],
             at # "save" => SyncStands(job[h])', at = "save" => RunsAll(job[h].new)'
      PROVE  SoloInv'
  <2>1. /\ job[h] # Idle /\ job'[h] # Idle /\ \A g \in Handlers \ {h} : job'[g] = job[g]
        /\ job'[h].at = at /\ job'[h].op = j.op /\ job'[h].new = j.new
    BY <1>1, <1>7, StepDoes DEF Steps
  <2>2. JobStands(job[h])' BY <1>1, <1>3, <1>7, <2>1 DEF JobStands
  <2> QED BY <1>1, <2>1, <2>2, SoloGoes
<1>8. CASE SyncBambu(h)
  <2>1. PICK n \in j.todo :
          /\ mqtt' = [mqtt EXCEPT ![n] =
               IF n \notin Of(j.old, "bambu") THEN Connect(@, j.new[n].set)
               ELSE IF j.old[n] = j.new[n] THEN @ ELSE j.new[n].set]
          /\ job' = [job EXCEPT ![h].todo = @ \ {n}]
    BY <1>8 DEF SyncBambu
  <2>2. j.at = "bambu" /\ n \in Of(j.new, "bambu") /\ n \in Names BY <1>3, <1>4, <1>8, <2>1 DEF SyncBambu, SyncStands
  <2>3. job' = [job EXCEPT ![h] = [job[h] EXCEPT !.at = "bambu", !.todo = j.todo \ {n}]]
    <3>1. [j EXCEPT !.todo = @ \ {n}] = [j EXCEPT !.at = "bambu", !.todo = j.todo \ {n}] BY <1>2, <2>2 DEF Jobs
    <3> QED BY <2>1, <3>1
  <2>4. /\ job'[h].at = "bambu" /\ job'[h].todo = j.todo \ {n} /\ job'[h].old = j.old /\ job'[h].new = j.new
    BY <1>1, <2>3, StepDoes DEF Steps
  <2>5. mqtt[n] = ConnOf(j.old, "bambu", n) BY <1>3, <2>1, <2>2 DEF SyncStands
  <2>6. mqtt'[n] = j.new[n].set /\ \A m \in Names \ {n} : mqtt'[m] = mqtt[m]
    BY <1>5, <2>1, <2>2, <2>5 DEF ConnOf, Connect
  <2>7. SyncStands(job[h])' BY <1>3, <2>2, <2>4, <2>6 DEF SyncStands
  <2> QED BY <1>7, <2>3, <2>7
<1>9. CASE DropBambu(h)
  <2>1. PICK n \in j.todo : /\ mqtt' = [mqtt EXCEPT ![n] = NoPrinter]
                            /\ job' = [job EXCEPT ![h].todo = @ \ {n}]
    BY <1>9 DEF DropBambu
  <2>2. j.at = "drop" /\ n \notin Of(j.new, "bambu") /\ n \in Names
    BY <1>3, <1>4, <1>9, <2>1 DEF DropBambu, SyncStands
  <2>3. job' = [job EXCEPT ![h] = [job[h] EXCEPT !.at = "drop", !.todo = j.todo \ {n}]]
    <3>1. [j EXCEPT !.todo = @ \ {n}] = [j EXCEPT !.at = "drop", !.todo = j.todo \ {n}] BY <1>2, <2>2 DEF Jobs
    <3> QED BY <2>1, <3>1
  <2>4. /\ job'[h].at = "drop" /\ job'[h].todo = j.todo \ {n} /\ job'[h].old = j.old /\ job'[h].new = j.new
    BY <1>1, <2>3, StepDoes DEF Steps
  <2>5. mqtt'[n] = NoPrinter /\ \A m \in Names \ {n} : mqtt'[m] = mqtt[m] BY <1>5, <2>1, <2>2
  <2>6. mqtt'[n] = ConnOf(j.new, "bambu", n) BY <2>2, <2>5 DEF ConnOf
  <2>7. SyncStands(job[h])' BY <1>3, <2>2, <2>4, <2>5, <2>6 DEF SyncStands
  <2> QED BY <1>7, <2>3, <2>7
<1>10. CASE SyncHttp(h)
  <2>1. PICK n \in j.todo : /\ poll' = [poll EXCEPT ![n] = j.new[n].set]
                            /\ job' = [job EXCEPT ![h].todo = @ \ {n}]
    BY <1>10 DEF SyncHttp
  <2>2. j.at = "http" /\ n \in Names /\ mqtt' = mqtt BY <1>4, <1>10, <2>1 DEF SyncHttp
  <2>3. job' = [job EXCEPT ![h] = [job[h] EXCEPT !.at = "http", !.todo = j.todo \ {n}]]
    <3>1. [j EXCEPT !.todo = @ \ {n}] = [j EXCEPT !.at = "http", !.todo = j.todo \ {n}] BY <1>2, <2>2 DEF Jobs
    <3> QED BY <2>1, <3>1
  <2>4. /\ job'[h].at = "http" /\ job'[h].todo = j.todo \ {n} /\ job'[h].old = j.old /\ job'[h].new = j.new
    BY <1>1, <2>3, StepDoes DEF Steps
  <2>5. poll'[n] = j.new[n].set /\ \A m \in Names \ {n} : poll'[m] = poll[m] BY <1>5, <2>1, <2>2
  <2>6. Of(j.new, "http") \subseteq Names BY DEF Of
  <2>7. SyncStands(job[h])' BY <1>3, <2>2, <2>4, <2>5, <2>6 DEF SyncStands
  <2> QED BY <1>7, <2>3, <2>7
<1>11. CASE DropHttp(h)
  <2>1. /\ poll' = [n \in Names |-> IF n \in Of(j.new, "http") THEN poll[n] ELSE NoPrinter]
        /\ j.at = "gone" /\ mqtt' = mqtt
    BY <1>11 DEF DropHttp
  <2>2. job' = [job EXCEPT ![h] = [job[h] EXCEPT !.at = "save", !.todo = j.todo]]
    <3>1. [j EXCEPT !.at = "save"] = [j EXCEPT !.at = "save", !.todo = j.todo] BY <1>2 DEF Jobs
    <3>2. job' = [job EXCEPT ![h] = [j EXCEPT !.at = "save"]] BY <1>11 DEF DropHttp
    <3> QED BY <3>1, <3>2
  <2>3. job'[h].new = j.new BY <1>1, <2>2, StepDoes DEF Steps
  <2>4. RunsAll(job[h].new)' BY <1>3, <2>1, <2>3 DEF SyncStands, RunsAll, ConnOf
  <2> QED BY <1>7, <2>2, <2>4
<1>12. CASE NextLoop(h)
  <2>1. j.todo = {} /\ mqtt' = mqtt /\ poll' = poll BY <1>12 DEF NextLoop
  <2>2. PICK at \in {"drop", "http", "gone"},
             todo \in {Of(j.old, "bambu") \ Of(j.new, "bambu"), Of(j.new, "http"), j.todo} :
          /\ job' = [job EXCEPT ![h] = [job[h] EXCEPT !.at = at, !.todo = todo]]
          /\ \/ j.at = "bambu" /\ at = "drop" /\ todo = Of(j.old, "bambu") \ Of(j.new, "bambu")
             \/ j.at = "drop" /\ at = "http" /\ todo = Of(j.new, "http")
             \/ j.at = "http" /\ at = "gone" /\ todo = j.todo
    <3>1. [j EXCEPT !.at = "gone"] = [j EXCEPT !.at = "gone", !.todo = j.todo] BY <1>2 DEF Jobs
    <3> HIDE DEF j
    <3>2. CASE j.at = "bambu" BY <1>12, <3>2 DEF NextLoop, j
    <3>3. CASE j.at = "drop" BY <1>12, <3>3 DEF NextLoop, j
    <3>4. CASE j.at = "http" BY <1>12, <3>1, <3>4 DEF NextLoop, j
    <3> QED BY <1>12, <3>2, <3>3, <3>4 DEF NextLoop, j
  <2>3. /\ job'[h].at = at /\ job'[h].todo = todo /\ job'[h].old = j.old /\ job'[h].new = j.new
    BY <1>1, <2>2, StepDoes DEF Steps
  <2>4. CASE at = "drop"
    <3>1. \A n \in Names \ todo : mqtt[n] = ConnOf(j.new, "bambu", n)
      BY <1>3, <2>1, <2>2, <2>4 DEF SyncStands, ConnOf
    <3>2. SyncStands(job[h])' BY <2>1, <2>2, <2>3, <2>4, <3>1 DEF SyncStands
    <3> QED BY <1>7, <2>2, <2>4, <3>2
  <2>5. CASE at \in {"http", "gone"}
    <3>1. SyncStands(job[h])' BY <1>3, <2>1, <2>2, <2>3, <2>5 DEF SyncStands
    <3> QED BY <1>7, <2>2, <2>5, <3>1
  <2> QED BY <2>4, <2>5
<1> QED BY <1>8, <1>9, <1>10, <1>11, <1>12

LEMMA SoloSaves ==
    ASSUME TypeOK, SoloInv, NEW h \in Handlers, Save(h) \/ SkipSave(h) \/ SaveFails(h)
    PROVE  SoloInv'
<1>1. PICK failed \in BOOLEAN : AfterSave(h, failed) BY DEF Save, SkipSave, SaveFails
<1>2. job[h].at = "save" /\ live' = live /\ mqtt' = mqtt /\ poll' = poll BY DEF Save, SkipSave, SaveFails
<1>3. job[h] \in Jobs /\ job[h] # Idle BY <1>2, AtWork DEF Steps
<1>4. JobStands(job[h]) /\ job[h].new = live.list BY <1>3 DEF SoloInv, JobStands
<1>5. CASE job[h].op \in {"replace", "setting"}
  <2>1. job' = [job EXCEPT ![h] = Idle] BY <1>1, <1>5 DEF AfterSave
  <2>2. job'[h] = Idle /\ \A g \in Handlers \ {h} : job'[g] = job[g] BY <2>1 DEF TypeOK
  <2>3. RunsAll(live.list)' BY <1>2, <1>4, <1>5 DEF JobStands, RunsAll
  <2> QED BY <1>2, <1>3, <2>2, <2>3, SoloGoes
<1>6. CASE job[h].op \notin {"replace", "setting"}
  <2>1. job' = [job EXCEPT ![h].at = "connect", ![h].failed = failed] BY <1>1, <1>6 DEF AfterSave
  <2> DEFINE k == job[h]
             n == job'[h]
  <2>2. n = [k EXCEPT !.at = "connect", !.failed = failed] /\ \A g \in Handlers \ {h} : job'[g] = job[g]
    BY <2>1 DEF TypeOK
  <2>3. DOMAIN k = {"at", "op", "gen", "old", "new", "todo", "name", "failed"}
        /\ k.op \in {"add", "delete", "edit"}
    BY <1>3, <1>6 DEF Jobs
  <2>4. OnePrinter(k) /\ RunsAll(k.old) BY <1>2, <1>4, <2>3 DEF JobStands
  <2>5. k.new = live.list BY <1>4
  <2> HIDE DEF k, n
  <2>6. /\ n.at = "connect" /\ n.op = k.op /\ n.old = k.old /\ n.new = k.new /\ n.name = k.name
    BY <2>2, <2>3
  <2>7. n # Idle BY <2>6 DEF Idle
  <2>8. OnePrinter(n) BY <2>4, <2>6 DEF OnePrinter
  <2>9. RunsAll(job[h].old)' BY <1>2, <2>4, <2>6 DEF RunsAll, n
  <2>10. JobStands(job[h])' BY <1>2, <2>3, <2>5, <2>6, <2>8, <2>9 DEF JobStands, n, OnePrinter
  <2> QED BY <1>2, <1>3, <2>2, <2>7, <2>10, SoloGoes DEF n
<1> QED BY <1>5, <1>6

LEMMA SoloConnects ==
    ASSUME TypeOK, SoloInv, NEW h \in Handlers, ConnectOne(h)
    PROVE  SoloInv'
<1> DEFINE j == job[h]
           m == j.name
<1>1. /\ j.at = "connect" /\ live' = live /\ mqtt' = MqttAfter(j) /\ poll' = PollAfter(j)
      /\ job' = [job EXCEPT ![h] = Idle]
  BY DEF ConnectOne
<1>2. j \in Jobs /\ j # Idle BY <1>1, AtWork DEF Steps
<1>3. j.new \in Configs /\ j.old \in Configs /\ m \in Names BY <1>2 DEF Jobs
<1>4. job'[h] = Idle /\ \A g \in Handlers \ {h} : job'[g] = job[g] BY <1>1 DEF TypeOK
<1>5. JobStands(j) BY <1>2 DEF SoloInv
<1>6. j.op \in {"add", "delete", "edit"} /\ j.new = live.list BY <1>1, <1>2, <1>5 DEF JobStands, Jobs
<1>7. OnePrinter(j) /\ RunsAll(j.old) BY <1>1, <1>5, <1>6 DEF JobStands
<1>8. DOMAIN mqtt = Names /\ DOMAIN poll = Names BY DEF TypeOK
<1>9. \A n \in Names \ {m} : mqtt'[n] = mqtt[n] /\ poll'[n] = poll[n] BY <1>1, <1>8 DEF MqttAfter, PollAfter
<1>10. \A n \in Names \ {m} : \A kind \in {"bambu", "http"} : ConnOf(j.new, kind, n) = ConnOf(j.old, kind, n)
  BY <1>7 DEF OnePrinter, ConnOf, Of
<1>11. mqtt'[m] = ConnOf(j.new, "bambu", m) /\ poll'[m] = ConnOf(j.new, "http", m)
  <2>0. mqtt[m] = ConnOf(j.old, "bambu", m) /\ poll[m] = ConnOf(j.old, "http", m) BY <1>3, <1>7 DEF RunsAll
  <2>1. /\ mqtt'[m] = IF j.op = "delete" THEN NoPrinter
                      ELSE IF m \notin Of(j.new, "bambu") \/ Unedited(j) THEN mqtt[m]
                      ELSE IF j.op = "edit" THEN j.new[m].set
                      ELSE Connect(mqtt[m], j.new[m].set)
        /\ poll'[m] = IF j.op = "delete" THEN NoPrinter
                      ELSE IF m \notin Of(j.new, "http") \/ Unedited(j) THEN poll[m]
                      ELSE j.new[m].set
    BY <1>1, <1>3, <1>8 DEF MqttAfter, PollAfter
  <2>2. CASE j.op = "delete"
    <3>1. m \notin Of(j.new, "bambu") /\ m \notin Of(j.new, "http") BY <1>7, <2>2 DEF OnePrinter, Of
    <3> QED BY <2>1, <2>2, <3>1 DEF ConnOf
  <2>3. CASE j.op = "add"
    <3>1. mqtt[m] = NoPrinter /\ poll[m] = NoPrinter BY <1>7, <2>0, <2>3 DEF OnePrinter, ConnOf, Of
    <3>2. ~Unedited(j) BY <2>3 DEF Unedited
    <3> QED BY <2>1, <2>3, <3>1, <3>2 DEF ConnOf, Connect
  <2>4. CASE j.op = "edit" /\ Unedited(j)
    BY <2>0, <2>1, <2>4 DEF Unedited
  <2>5. CASE j.op = "edit" /\ ~Unedited(j)
    <3>1. \A kind \in {"bambu", "http"} : m \in Of(j.new, kind) <=> m \in Of(j.old, kind)
      BY <1>3, <1>7, <2>5 DEF OnePrinter, Of
    <3> QED BY <2>0, <2>1, <2>5, <3>1 DEF ConnOf
  <2> QED BY <1>6, <2>2, <2>3, <2>4, <2>5
<1>12. \A n \in Names : mqtt'[n] = ConnOf(j.new, "bambu", n) /\ poll'[n] = ConnOf(j.new, "http", n)
  BY <1>7, <1>9, <1>10, <1>11 DEF RunsAll
<1>13. RunsAll(live.list)' BY <1>1, <1>6, <1>12 DEF RunsAll
<1> QED BY <1>1, <1>2, <1>4, <1>13, SoloGoes

LEMMA SoloRestarts == ASSUME Restart PROVE SoloInv'
BY DEF Restart, SoloInv, RunsAll, Running, ConnOf

LEMMA SoloStepOK ==
    ASSUME TypeOK, SoloInv, Next, \A g, k \in Handlers : job'[g] # Idle /\ job'[k] # Idle => g = k
    PROVE  SoloInv'
<1>1. live.list \in Configs /\ AnyName \in Names BY ConfigAssumptions DEF TypeOK, Stored, AnyName
<1>2. ASSUME NEW h \in Handlers, ReplaceConfig(h) PROVE SoloInv'
  BY <1>1, <1>2, SoloChange DEF ReplaceConfig
<1>3. ASSUME NEW h \in Handlers, AddPrinter(h) PROVE SoloInv'
  <2>1. PICK n \in Names, p \in Printers :
          live.list[n] = NoPrinter /\ Change(h, "add", n, [live.list EXCEPT ![n] = p], "save")
    BY <1>3 DEF AddPrinter
  <2> DEFINE list == [live.list EXCEPT ![n] = p]
  <2>2. list \in Configs /\ \A m \in Names \ {n} : list[m] = live.list[m] BY <1>1 DEF Configs
  <2> HIDE DEF list
  <2>3. Change(h, "add", n, list, "save") BY <2>1 DEF list
  <2> QED BY <2>1, <2>2, <2>3, SoloChange
<1>4. ASSUME NEW h \in Handlers, DeletePrinter(h) PROVE SoloInv'
  <2>1. PICK n \in Names : Change(h, "delete", n, [live.list EXCEPT ![n] = NoPrinter], "save")
    BY <1>4 DEF DeletePrinter
  <2> DEFINE list == [live.list EXCEPT ![n] = NoPrinter]
  <2>2. list \in Configs /\ list[n] = NoPrinter /\ \A m \in Names \ {n} : list[m] = live.list[m]
    BY <1>1 DEF Configs
  <2> HIDE DEF list
  <2>3. Change(h, "delete", n, list, "save") BY <2>1 DEF list
  <2> QED BY <2>2, <2>3, SoloChange
<1>5. ASSUME NEW h \in Handlers, EditPrinter(h) PROVE SoloInv'
  <2>1. PICK n \in Names, s \in Settings :
          live.list[n] # NoPrinter /\ Change(h, "edit", n, [live.list EXCEPT ![n].set = s], "save")
    BY <1>5 DEF EditPrinter
  <2> DEFINE list == [live.list EXCEPT ![n].set = s]
             new == [live.list[n] EXCEPT !.set = s]
  <2>2. live.list[n] \in Printers BY <1>1, <2>1 DEF Configs
  <2>3. new \in Printers /\ new.kind = live.list[n].kind /\ new # NoPrinter
    BY <2>2, ConfigAssumptions DEF Printers
  <2>4. list[n] = new /\ \A m \in Names \ {n} : list[m] = live.list[m] BY <1>1 DEF Configs
  <2>5. list \in Configs BY <1>1, <2>3, <2>4 DEF Configs
  <2> HIDE DEF list, new
  <2>6. Change(h, "edit", n, list, "save") BY <2>1 DEF list
  <2> QED BY <2>1, <2>3, <2>4, <2>5, <2>6, SoloChange
<1>6. ASSUME NEW h \in Handlers, ChangeSetting(h) PROVE SoloInv'
  BY <1>1, <1>6, SoloChange DEF ChangeSetting
<1> QED BY <1>2, <1>3, <1>4, <1>5, <1>6, SoloSaves, SoloLoops, SoloConnects, SoloRestarts DEF Next

-----------------------------------------------------------------------------
(* Together, in whatever mix the dashboard's requests come.                  *)

ServicesInv == UpdateInv /\ SignInInv /\ SlicerInv /\ NotifierInv /\ AssistantInv

MCNext == ConfigStep \/ NoticeStep \/ SignInStep \/ UpdateStep \/ ChatStep \/ SlicerStep

LEMMA ServicesStart == MCInit => ServicesInv
BY UpdateStart, SignInStart, SlicerStart, NotifierStart, AssistantStart DEF MCInit, ServicesInv

LEMMA ServicesStepOK == ServicesInv /\ [MCNext]_mcVars => ServicesInv'
<1> SUFFICES ASSUME ServicesInv, [MCNext]_mcVars PROVE ServicesInv'
  OBVIOUS
<1>1. /\ [NotifierNext]_notifierVars /\ [SignInNext]_signInVars /\ [UpdateNext]_updateVars
      /\ [AssistantNext]_assistantVars /\ [SlicerNext]_slicerVars
  BY DEF MCNext, mcVars, ConfigStep, NoticeStep, SignInStep, UpdateStep, ChatStep, SlicerStep
<1> QED BY <1>1, UpdateStepOK, SignInStepOK, SlicerStepOK, NotifierStepOK, AssistantStepOK DEF ServicesInv

LEMMA ServicesStay == MCSpec => []ServicesInv
BY ServicesStart, ServicesStepOK, PTL DEF MCSpec, MCNext

(* Whatever installs, failures, cut downloads and restarts come in between,  *)
(* the Bridge leaves only for a whole and verified program, and its own is   *)
(* never replaced by anything else, unless an install had begun before       *)
(* another staged its update (update.go, selfupdate/).                       *)
THEOREM UpdateStaysWhole == MCSpec => []UpdateIsWhole
<1>1. ServicesInv => UpdateIsWhole BY DEF ServicesInv, UpdateInv
<1> QED BY <1>1, ServicesStay, PTL

(* For any number of callers and requests at once: a session is only held by *)
(* one who typed the password of its time, and the tries of an address are   *)
(* limited (auth.go).                                                        *)
THEOREM SignInStaysSafe == MCSpec => []SignInIsSafe
<1>1. ServicesInv => SignInIsSafe BY SignInFollows DEF ServicesInv
<1> QED BY <1>1, ServicesStay, PTL

(* Secrets and keys are sent only where they were given for, but for a key   *)
(* that a body of /api/config put beside another endpoint; results are of    *)
(* saved channels, a chat's calls are run once and answered in order, its    *)
(* pictures were allowed, and the virtual printer follows its settings and   *)
(* gives its slots back: for any number of channels, chats, tools, endpoints,*)
(* uploads, keys and ports (notify/, server_ai.go, ai/, virtualprinter/).    *)
THEOREM ServicesStayRight == MCSpec => []ServicesAreUsedRight
<1>1. ServicesInv => ServicesAreUsedRight
  BY AssistantFollows DEF ServicesInv, NotifierInv, SlicerInv, SlicerIsServed, ServicesAreUsedRight
<1> QED BY <1>1, ServicesStay, PTL

(* With one request at a time, what runs between requests is the live        *)
(* config: for any number of printers, settings, changes and restarts, with  *)
(* writes that fail (server.go, config.go, printer_edit.go).                 *)
THEOREM ConnectionsFollow == MCSpec => []ConnectionsFollowIfAlone
<1> DEFINE Inv == IInv /\ (part = "alone" => SoloInv)
<1>1. MCInit => Inv BY InvInit, SoloStart DEF MCInit
<1>2. Inv /\ [MCNext]_mcVars => Inv'
  <2> SUFFICES ASSUME IInv, part = "alone" => SoloInv, [MCNext]_mcVars PROVE Inv'
    OBVIOUS
  <2>1. [Next]_vars /\ part' = part
    BY DEF MCNext, mcVars, ConfigStep, NoticeStep, SignInStep, UpdateStep, ChatStep, SlicerStep
  <2>2. IInv' BY <2>1, InvStep
  <2>3. ASSUME part = "alone" PROVE SoloInv'
    <3>1. CASE UNCHANGED vars
      BY <2>3, <3>1 DEF vars, SoloInv, JobStands, RunsAll, SyncStands, OnePrinter
    <3>2. CASE ~UNCHANGED vars
      <4>1. ConfigStep BY <2>3, <3>2 DEF MCNext, mcVars, NoticeStep, SignInStep, UpdateStep, ChatStep, SlicerStep
      <4>2. Next /\ \A g, k \in Handlers : job'[g] # Idle /\ job'[k] # Idle => g = k
        BY <2>3, <4>1 DEF ConfigStep
      <4> QED BY <2>3, <4>2, SoloStepOK DEF IInv
    <3> QED BY <3>1, <3>2
  <2> QED BY <2>1, <2>2, <2>3
<1>3. Inv => ConnectionsFollowIfAlone
  <2> SUFFICES ASSUME IInv, SoloInv, \A h \in Handlers : job[h] = Idle
               PROVE  mqtt = Running(live.list, "bambu") /\ poll = Running(live.list, "http")
    BY DEF ConnectionsFollowIfAlone, ConnectionsFollowConfig
  <2>1. RunsAll(live.list) BY DEF SoloInv
  <2>2. mqtt = [n \in Names |-> mqtt[n]] /\ poll = [n \in Names |-> poll[n]] BY DEF IInv, TypeOK
  <2> QED BY <2>1, <2>2 DEF RunsAll, Running, ConnOf
<1> QED BY <1>1, <1>2, <1>3, PTL DEF MCSpec, MCNext
=============================================================================
