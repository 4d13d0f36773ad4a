------------------------- MODULE AfterPrint_proofs -------------------------
(***************************************************************************)
(* Proofs about what follows a print. SpoolBooking, for any servers,       *)
(* prints and number of tries, and any length of the log; Maintenance, for *)
(* any tasks and interval. The bounds on what happens are not used.        *)
(***************************************************************************)
EXTENDS MCPlugManager, SequenceTheorems, FiniteSetTheorems, TLAPS

MaybeServers == Servers \cup {NoServer}
Goroutines == [at : {"none", "send", "heard", "wait", "over"}, client : MaybeServers,
               spool : MaybeServers, try : Nat,
               heard : {"none", "ok", "5xx", "4xx", "timeout", "dial"}]
Moods == {"works", "fails", "refuses", "mute", "unreachable"}
LogEntries == [use : Uses, status : {"retrying", "ok", "error"}]

Types ==
    /\ setting \in [on : BOOLEAN, url : MaybeServers, spool : MaybeServers]
    /\ use \in [Uses -> Goroutines]
    /\ entries \in Seq(LogEntries)
    /\ mood \in [Servers -> Moods]
    /\ booked \in [Uses -> Seq(MaybeServers \X MaybeServers)]

(* The mapping in the config is one of the server that is set.               *)
MappingFits ==
    /\ setting.on => setting.url \in Servers
    /\ setting.spool \in {NoServer, setting.url}

(* A goroutine g holds a spool of its own server; what it has booked, b, is  *)
(* nothing as long as it may still send.                                     *)
Fitting(g) == g.at \in {"send", "heard", "wait"} => g.client \in Servers /\ g.spool = g.client
BookedOnce(g, b) ==
    /\ g.at \in {"none", "send", "wait"} => b = <<>>
    /\ g.at = "heard" /\ Retryable(g.heard) => b = <<>>
    /\ g.at = "heard" /\ g.heard = "ok" => b # <<>>
    /\ Len(b) <= 1
    /\ \A i \in DOMAIN b : b[i][1] = b[i][2]

UsesOK == \A u \in Uses : Fitting(use[u]) /\ BookedOnce(use[u], booked[u])

(* A print whose goroutine has not begun is not in the log.                  *)
LogOK == \A i \in DOMAIN entries : use[entries[i].use].at # "none"

IInv == Types /\ MappingFits /\ UsesOK /\ LogOK /\ LogIsTrue

-----------------------------------------------------------------------------
(* Before the first print nothing is booked and the log is empty.            *)
THEOREM InitOK == SpoolInit => IInv
BY DEF SpoolInit, IInv, Types, MappingFits, UsesOK, LogOK, LogIsTrue, NoUse, Fitting, BookedOnce,
       MaybeServers, Goroutines, Moods, LogEntries

(* A step of the goroutine of u, to g with b booked in all, leaves a log     *)
(* whose entries are true of it or were there before.                        *)
TrueOf(u, g, b) ==
    /\ entries' \in Seq(LogEntries)
    /\ \A i \in DOMAIN entries' :
         \/ /\ entries'[i].use = u
            /\ entries'[i].status = "ok" => b # <<>>
            /\ entries'[i].status = "retrying" => g.at # "over"
         \/ entries'[i].use # u /\ \E j \in DOMAIN entries : entries'[i] = entries[j]

(* Such a step keeps the invariant.                                          *)
LEMMA OwnStep ==
    ASSUME IInv, NEW u \in Uses,
           NEW g \in Goroutines, Fitting(g), g.at # "none",
           NEW b \in Seq(MaybeServers \X MaybeServers), BookedOnce(g, b),
           use' = [use EXCEPT ![u] = g], booked' = [booked EXCEPT ![u] = b],
           OnlyUses, TrueOf(u, g, b)
    PROVE  IInv'
<1>1. Types' /\ MappingFits' BY DEF IInv, Types, MappingFits, OnlyUses, TrueOf
<1>2. UsesOK' BY DEF IInv, Types, UsesOK
<1>3. \A i \in DOMAIN entries' : entries'[i] \in LogEntries
  BY DEF TrueOf
<1>4. ASSUME NEW i \in DOMAIN entries'
      PROVE  /\ use'[entries'[i].use].at # "none"
             /\ entries'[i].status = "ok" => booked'[entries'[i].use] # <<>>
             /\ entries'[i].status = "retrying" => use'[entries'[i].use].at # "over"
  <2>1. entries'[i].use \in Uses BY <1>3, <1>4 DEF LogEntries
  <2>2. CASE entries'[i].use = u
    BY <1>4, <2>1, <2>2 DEF IInv, Types, TrueOf
  <2>3. CASE entries'[i].use # u
    <3>1. PICK j \in DOMAIN entries : entries'[i] = entries[j] BY <1>4, <2>3 DEF TrueOf
    <3>2. /\ use'[entries[j].use] = use[entries[j].use]
          /\ booked'[entries[j].use] = booked[entries[j].use]
      BY <2>1, <2>3, <3>1 DEF IInv, Types
    <3> QED BY <3>1, <3>2 DEF IInv, LogOK, LogIsTrue
  <2> QED BY <2>2, <2>3
<1> QED BY <1>1, <1>2, <1>4 DEF IInv, LogOK, LogIsTrue

(* The log after an update.                                                  *)
LEMMA Updated ==
    ASSUME Types, NEW u \in Uses, NEW status \in {"retrying", "ok", "error"}, UpdateEntry(u, status),
           NEW g, NEW b, status = "ok" => b # <<>>, status = "retrying" => g.at # "over"
    PROVE  TrueOf(u, g, b)
<1>1. /\ Len(entries) \in Nat /\ DOMAIN entries = 1 .. Len(entries)
      /\ \A i \in DOMAIN entries : entries[i] \in LogEntries
  BY DEF Types
<1>2. \A i \in DOMAIN entries : [entries[i] EXCEPT !.status = status] \in LogEntries
  BY <1>1 DEF LogEntries
<1>3. entries' \in [1 .. Len(entries) -> LogEntries] BY <1>1, <1>2 DEF UpdateEntry
<1>4. entries' \in Seq(LogEntries) BY <1>1, <1>3, SeqDef
<1>5. ASSUME NEW i \in DOMAIN entries'
      PROVE  \/ entries'[i].use = u /\ entries'[i].status = status
             \/ entries'[i].use # u /\ \E j \in DOMAIN entries : entries'[i] = entries[j]
  BY <1>1, <1>5 DEF UpdateEntry, LogEntries
<1> QED BY <1>4, <1>5 DEF TrueOf

(* The log after the entry of a use that begins.                             *)
LEMMA Added ==
    ASSUME IInv, NEW u \in Uses, AddEntry(u), use[u].at = "none", NEW g, g.at # "over"
    PROVE  TrueOf(u, g, <<>>)
<1> DEFINE e == [use |-> u, status |-> "retrying"]
           all == Append(entries, e)
<1>1. entries \in Seq(LogEntries) /\ e \in LogEntries BY DEF IInv, Types, LogEntries
<1>2. \A j \in DOMAIN entries : entries[j].use # u BY DEF IInv, LogOK
<1>3. /\ all \in Seq(LogEntries) /\ all # <<>>
      /\ Len(all) = Len(entries) + 1
      /\ \A i \in 1 .. Len(entries) : all[i] = entries[i]
      /\ all[Len(entries) + 1] = e
  <2> HIDE DEF e
  <2> QED BY <1>1
<1>4. \A i \in DOMAIN all : all[i] = e \/ \E j \in DOMAIN entries : all[i] = entries[j]
  <2> HIDE DEF e, all
  <2> QED BY <1>1, <1>3
<1>5. \/ entries' = all
      \/ entries' = Tail(all)
  BY DEF AddEntry
<1>6. entries' \in Seq(LogEntries) /\ \A i \in DOMAIN entries' : \E k \in DOMAIN all : entries'[i] = all[k]
  <2> HIDE DEF e, all
  <2>1. CASE entries' = all BY <1>3, <2>1
  <2>2. CASE entries' = Tail(all)
    <3>1. Tail(all) \in Seq(LogEntries) /\ Len(Tail(all)) = Len(all) - 1 BY <1>3
    <3>2. \A i \in 1 .. Len(all) - 1 : Tail(all)[i] = all[i + 1] BY <1>3
    <3> QED BY <1>1, <1>3, <2>2, <3>1, <3>2
  <2> QED BY <1>5, <2>1, <2>2
<1>7. e.use = u /\ e.status = "retrying" OBVIOUS
<1> HIDE DEF e, all
<1> QED BY <1>2, <1>4, <1>6, <1>7 DEF TrueOf

-----------------------------------------------------------------------------
(* A use that may be tried again has not been booked, and each step of its   *)
(* goroutine keeps the log true.                                             *)
LEMMA StepOK == IInv /\ [SpoolNext]_spoolVars => IInv'
<1> SUFFICES ASSUME IInv, [SpoolNext]_spoolVars PROVE IInv'
  OBVIOUS
<1>t. Types /\ MappingFits /\ UsesOK BY DEF IInv
<1>1. CASE SaveSetting
  <2>1. Mapping(setting'.url) \in {NoServer, setting'.url}
    BY <1>t DEF Mapping, MappingFits
  <2>2. setting' \in [on : BOOLEAN, url : MaybeServers, spool : MaybeServers] /\ MappingFits'
    BY <1>1, <1>t, <2>1 DEF SaveSetting, Types, MappingFits, MaybeServers, Mapping
  <2> QED BY <1>1, <2>2 DEF SaveSetting, IInv, Types, UsesOK, LogOK, LogIsTrue
<1>2. ASSUME NEW s \in Servers, MoodOfServer(s) PROVE IInv'
  BY <1>2 DEF MoodOfServer, IInv, Types, Moods, MappingFits, UsesOK, LogOK, LogIsTrue
<1>3. ASSUME NEW u \in Uses, BeginUse(u) PROVE IInv'
  <2>0. use[u].at = "none" /\ booked[u] = <<>>
    BY <1>3, <1>t DEF BeginUse, NoUse, UsesOK, BookedOnce
  <2>1. PICK tag \in BOOLEAN :
          LET spool == IF setting.spool # NoServer THEN setting.spool
                       ELSE IF tag THEN setting.url ELSE NoServer
          IN  IF ~setting.on \/ spool = NoServer
              THEN use' = [use EXCEPT ![u].at = "over"] /\ UNCHANGED entries
              ELSE /\ use' = [use EXCEPT ![u] = [at |-> "send", client |-> setting.url,
                                                 spool |-> spool, try |-> 0, heard |-> "none"]]
                   /\ AddEntry(u)
    BY <1>3 DEF BeginUse
  <2>b. booked' = [booked EXCEPT ![u] = <<>>] /\ OnlyUses
    BY <1>3, <1>t, <2>0 DEF BeginUse, Types
  <2>2. CASE use' = [use EXCEPT ![u].at = "over"] /\ UNCHANGED entries
    <3> DEFINE g == [use[u] EXCEPT !.at = "over"]
    <3>1. g \in Goroutines /\ g.at = "over" BY <1>t DEF Types, Goroutines
    <3>2. use' = [use EXCEPT ![u] = g] BY <2>2
    <3>4. TrueOf(u, g, <<>>) BY <2>0, <2>2, <1>t DEF IInv, LogOK, Types, TrueOf
    <3> HIDE DEF g
    <3>5. Fitting(g) /\ BookedOnce(g, <<>>) BY <3>1 DEF Fitting, BookedOnce
    <3>6. <<>> \in Seq(MaybeServers \X MaybeServers) OBVIOUS
    <3> QED BY <2>b, <3>1, <3>2, <3>4, <3>5, <3>6, OwnStep
  <2>3. CASE /\ setting.on
             /\ use' = [use EXCEPT ![u] = [at |-> "send", client |-> setting.url,
                                           spool |-> setting.url, try |-> 0, heard |-> "none"]]
             /\ AddEntry(u)
    <3> DEFINE g == [at |-> "send", client |-> setting.url, spool |-> setting.url,
                     try |-> 0, heard |-> "none"]
    <3>1. g \in Goroutines /\ g.at = "send" /\ Fitting(g) /\ BookedOnce(g, <<>>)
      BY <2>3, <1>t DEF Types, MappingFits, Goroutines, MaybeServers, Fitting, BookedOnce
    <3>2. use' = [use EXCEPT ![u] = g] BY <2>3
    <3> HIDE DEF g
    <3>3. <<>> \in Seq(MaybeServers \X MaybeServers) OBVIOUS
    <3>4. TrueOf(u, g, <<>>) BY <2>0, <2>3, <3>1, Added
    <3> QED BY <2>b, <3>1, <3>2, <3>3, <3>4, OwnStep
  <2> QED BY <2>1, <2>2, <2>3, <1>t DEF MappingFits
<1>4. ASSUME NEW u \in Uses, SendUse(u) PROVE IInv'
  <2>0. /\ use[u].at = "send" /\ use[u] \in Goroutines /\ booked[u] = <<>>
        /\ use[u].client \in Servers /\ use[u].spool = use[u].client
    BY <1>4, <1>t DEF SendUse, Types, UsesOK, Fitting, BookedOnce
  <2>1. PICK r \in Results(use[u].client) :
          /\ use' = [use EXCEPT ![u].at = "heard", ![u].heard = r.heard]
          /\ booked' = IF r.books THEN [booked EXCEPT ![u] = Append(@, <<use[u].client, use[u].spool>>)]
                       ELSE booked
    BY <1>4 DEF SendUse
  <2>2. /\ r.heard \in {"ok", "5xx", "4xx", "timeout", "dial"} /\ r.books \in BOOLEAN
        /\ r.heard = "ok" => r.books
        /\ Retryable(r.heard) => ~r.books
    <3>1. mood[use[u].client] \in Moods BY <2>0, <1>t DEF Types
    <3>2. CASE mood[use[u].client] = "mute"
      <4>1. r \in [heard : {"timeout"}, books : BOOLEAN] BY <2>1, <3>2 DEF Results
      <4> QED BY <4>1 DEF Retryable
    <3>3. CASE mood[use[u].client] = "works"
      <4>1. r = [heard |-> "ok", books |-> TRUE] BY <2>1, <3>3 DEF Results
      <4> QED BY <4>1 DEF Retryable
    <3>4. CASE mood[use[u].client] \in {"fails", "refuses", "unreachable"}
      <4>1. \E h \in {"5xx", "4xx", "dial"} : r = [heard |-> h, books |-> FALSE]
        BY <2>1, <3>4 DEF Results
      <4> QED BY <4>1 DEF Retryable
    <3> QED BY <3>1, <3>2, <3>3, <3>4 DEF Moods
  <2> DEFINE g == [use[u] EXCEPT !.at = "heard", !.heard = r.heard]
             b == IF r.books THEN << <<use[u].client, use[u].client>> >> ELSE <<>>
  <2>3. g \in Goroutines /\ g.at = "heard" /\ g.heard = r.heard /\ Fitting(g)
    BY <2>0, <2>2 DEF Goroutines, Fitting
  <2>4. use' = [use EXCEPT ![u] = g] BY <2>1
  <2>5. booked' = [booked EXCEPT ![u] = b]
    <3>1. CASE r.books BY <2>0, <2>1, <3>1, <1>t DEF Types
    <3>2. CASE ~r.books BY <2>0, <2>1, <3>2, <1>t DEF Types
    <3> QED BY <3>1, <3>2
  <2>6. b \in Seq(MaybeServers \X MaybeServers)
    BY <2>0 DEF MaybeServers
  <2>7. BookedOnce(g, b)
    <3> HIDE DEF g
    <3>1. CASE r.books BY <2>2, <2>3, <3>1 DEF BookedOnce
    <3>2. CASE ~r.books BY <2>2, <2>3, <3>2 DEF BookedOnce
    <3> QED BY <2>2, <3>1, <3>2
  <2> HIDE DEF g, b
  <2>8. TrueOf(u, g, b) /\ OnlyUses
    BY <1>4, <1>t, <2>0, <2>3 DEF SendUse, Types, IInv, LogIsTrue, TrueOf
  <2> QED BY <2>3, <2>4, <2>5, <2>6, <2>7, <2>8, OwnStep
<1>5. ASSUME NEW u \in Uses, HearUse(u) PROVE IInv'
  <2>0. /\ use[u].at = "heard" /\ use[u] \in Goroutines
        /\ Fitting(use[u]) /\ BookedOnce(use[u], booked[u])
        /\ booked[u] \in Seq(MaybeServers \X MaybeServers)
        /\ booked' = [booked EXCEPT ![u] = booked[u]] /\ OnlyUses
    BY <1>5, <1>t DEF HearUse, Types, UsesOK
  <2>1. CASE use[u].heard = "ok" /\ use' = [use EXCEPT ![u].at = "over"] /\ UpdateEntry(u, "ok")
    <3> DEFINE g == [use[u] EXCEPT !.at = "over"]
    <3>1. g \in Goroutines /\ g.at = "over" /\ use' = [use EXCEPT ![u] = g]
      BY <2>0, <2>1 DEF Goroutines
    <3> HIDE DEF g
    <3>2. Fitting(g) /\ BookedOnce(g, booked[u]) /\ booked[u] # <<>>
      BY <2>0, <2>1, <3>1 DEF Fitting, BookedOnce
    <3>3. TrueOf(u, g, booked[u]) BY <2>1, <3>1, <3>2, <1>t, Updated
    <3> QED BY <2>0, <3>1, <3>2, <3>3, OwnStep
  <2>2. CASE /\ Retryable(use[u].heard)
             /\ use' = [use EXCEPT ![u].at = "wait", ![u].try = @ + 1] /\ UpdateEntry(u, "retrying")
    <3> DEFINE g == [use[u] EXCEPT !.at = "wait", !.try = @ + 1]
    <3>1. g \in Goroutines /\ g.at = "wait" /\ use' = [use EXCEPT ![u] = g]
          /\ g.client = use[u].client /\ g.spool = use[u].spool
      <4>1. PICK n \in Nat : n = use[u].try + 1 BY <2>0 DEF Goroutines
      <4>2. g = [use[u] EXCEPT !.at = "wait", !.try = n] BY <2>0, <4>1 DEF Goroutines
      <4>3. use' = [use EXCEPT ![u] = g] BY <2>2
      <4> HIDE DEF g
      <4> QED BY <2>0, <4>2, <4>3 DEF Goroutines
    <3> HIDE DEF g
    <3>2. Fitting(g) /\ BookedOnce(g, booked[u])
      BY <2>0, <2>2, <3>1 DEF Fitting, BookedOnce
    <3>3. TrueOf(u, g, booked[u]) BY <2>2, <3>1, <3>2, <1>t, Updated
    <3> QED BY <2>0, <3>1, <3>2, <3>3, OwnStep
  <2>3. CASE use' = [use EXCEPT ![u].at = "over"] /\ UpdateEntry(u, "error")
    <3> DEFINE g == [use[u] EXCEPT !.at = "over"]
    <3>1. g \in Goroutines /\ g.at = "over" /\ use' = [use EXCEPT ![u] = g]
      BY <2>0, <2>3 DEF Goroutines
    <3> HIDE DEF g
    <3>2. Fitting(g) /\ BookedOnce(g, booked[u])
      BY <2>0, <3>1 DEF Fitting, BookedOnce
    <3>3. TrueOf(u, g, booked[u]) BY <2>3, <3>1, <3>2, <1>t, Updated
    <3> QED BY <2>0, <3>1, <3>2, <3>3, OwnStep
  <2> QED BY <1>5, <2>1, <2>2, <2>3 DEF HearUse
<1>6. ASSUME NEW u \in Uses, RetryUse(u) PROVE IInv'
  <2> DEFINE g == [use[u] EXCEPT !.at = "send"]
  <2>1. /\ use[u].at = "wait" /\ use[u] \in Goroutines
        /\ Fitting(use[u]) /\ BookedOnce(use[u], booked[u]) /\ booked[u] = <<>>
        /\ booked' = [booked EXCEPT ![u] = booked[u]] /\ OnlyUses
    BY <1>6, <1>t DEF RetryUse, Types, UsesOK, BookedOnce
  <2>2. g \in Goroutines /\ g.at = "send" /\ use' = [use EXCEPT ![u] = g]
        /\ g.client = use[u].client /\ g.spool = use[u].spool
    BY <1>6, <2>1 DEF RetryUse, Goroutines
  <2> HIDE DEF g
  <2>3. Fitting(g) /\ BookedOnce(g, <<>>) BY <2>1, <2>2 DEF Fitting, BookedOnce
  <2>4. TrueOf(u, g, <<>>)
    BY <1>6, <1>t, <2>1, <2>2 DEF RetryUse, Types, IInv, LogIsTrue, TrueOf
  <2>5. <<>> \in Seq(MaybeServers \X MaybeServers) OBVIOUS
  <2> QED BY <2>1, <2>2, <2>3, <2>4, <2>5, OwnStep
<1>7. CASE UNCHANGED spoolVars
  BY <1>7 DEF spoolVars, IInv, Types, MappingFits, UsesOK, LogOK, LogIsTrue
<1> QED BY <1>1, <1>2, <1>3, <1>4, <1>5, <1>6, <1>7 DEF SpoolNext, Booking

(* However many prints end at once, whatever Spoolman answers and whatever   *)
(* is set meanwhile, a use is booked once at most and on a spool of the      *)
(* server it is sent to, and the log of the dashboard tells what became of   *)
(* it.                                                                       *)
THEOREM UsesAreBookedRight == SpoolSpec => []BookedRight
<1>1. SpoolSpec => []IInv BY InitOK, StepOK, PTL DEF SpoolSpec
<1>2. IInv => BookedRight BY DEF IInv, UsesOK, BookedOnce, BookedRight
<1> QED BY <1>1, <1>2, PTL
-----------------------------------------------------------------------------
(* Maintenance.                                                              *)

DueNow(t) == IsDue(tasks[t], records)
Running(c) == c.at \in {"copied", "ask"}
Stamps == [Tasks -> Nat]
Checks == [id : Nat, at : {"start", "copied", "ask"}, tasks : Stamps, due : SUBSET Tasks]

MaintenanceTypes ==
    /\ now \in Nat \ {0} /\ records \subseteq 1 .. now /\ readable \in BOOLEAN
    /\ tasks \in Stamps /\ deleted \in Stamps /\ announced \in Stamps /\ saved \in Stamps
    /\ \A t \in Tasks : tasks[t] <= now /\ deleted[t] <= now
    /\ checks \subseteq Checks /\ said \subseteq Tasks \X Nat
    /\ appended \in Nat /\ mishaps \in Nat

OneCheck == \A c, d \in checks : c = d

(* What is announced was said; what is due was said when no check runs, and  *)
(* a check that runs has it with the time it was last done.                  *)
SteadyInv ==
    /\ mishaps = 0 /\ readable = TRUE
    /\ \A t \in Tasks : announced[t] # None => <<t, announced[t]>> \in said
    /\ checks = {} => \A t \in Tasks : DueNow(t) => <<t, tasks[t]>> \in said
    /\ \A c \in checks : Running(c) =>
         \A t \in Tasks : DueNow(t) => c.tasks[t] = tasks[t] /\ (c.at = "ask" => t \in c.due)

(* What was said is due still, or the task was done since; what was said of  *)
(* a task as it is, or as the check has it, is announced. A task done while  *)
(* the check runs is not due before the next record.                         *)
OnceInv ==
    /\ again = {} /\ (mishaps = 0 => saved = announced)
    /\ \A n \in said : n[2] <= tasks[n[1]] /\ IsDue(n[2], records)
    /\ \A t \in Tasks : <<t, tasks[t]>> \in said => announced[t] = tasks[t]
    /\ \A c \in checks : Running(c) => \A t \in Tasks :
         /\ c.tasks[t] <= tasks[t]
         /\ c.tasks[t] # tasks[t] => ~DueNow(t)
         /\ <<t, c.tasks[t]>> \in said => announced[t] = c.tasks[t]
         /\ c.at = "ask" => (t \in c.due <=> IsDue(c.tasks[t], records))

MishapsInv ==
    /\ deleted = Nothing /\ Cardinality(records) <= appended
    /\ NoRecordLost /\ mishaps <= 1 => OnceInv

ReminderInv ==
    part \in Service => /\ MaintenanceTypes /\ OneCheck
                        /\ part = "steady" => SteadyInv
                        /\ part = "mishaps" => MishapsInv

(* A task is due for records that came after it was done, and stays due when *)
(* more come.                                                                *)
LEMMA DueNeedsRecord ==
    ASSUME NEW last \in Nat, NEW recs, IsDue(last, recs)
    PROVE  last # None /\ \E e \in recs : e > last
<1>1. CASE {e \in recs : e > last} = {}
  BY <1>1, FS_EmptySet, MaintenanceAssumption DEF IsDue
<1>2. CASE {e \in recs : e > last} # {}
  BY <1>2 DEF IsDue
<1> QED BY <1>1, <1>2

LEMMA StaysDue ==
    ASSUME NEW last \in Nat, NEW recs, NEW more, recs \subseteq more, IsFiniteSet(more), IsDue(last, recs)
    PROVE  IsDue(last, more)
<1> DEFINE R == {e \in recs : e > last}
           M == {e \in more : e > last}
<1>1. IsFiniteSet(M)
  <2>1. M \subseteq more
    OBVIOUS
  <2> QED BY <2>1, FS_Subset
<1>2. R \subseteq M
  OBVIOUS
<1>3. Cardinality(R) <= Cardinality(M)
  BY <1>1, <1>2, FS_Subset
<1>4. Cardinality(R) \in Nat /\ Cardinality(M) \in Nat
  BY <1>1, <1>2, FS_Subset, FS_CardinalityType
<1>5. last # None /\ Cardinality(R) >= Interval
  BY DEF IsDue
<1>6. Cardinality(M) >= Interval
  BY <1>3, <1>4, <1>5, MaintenanceAssumption
<1> QED BY <1>5, <1>6 DEF IsDue

LEMMA NothingAfter == ASSUME MaintenanceTypes PROVE ~IsDue(now + 1, records)
<1> SUFFICES ASSUME IsDue(now + 1, records) PROVE FALSE
  OBVIOUS
<1>1. now + 1 \in Nat
  BY DEF MaintenanceTypes
<1>2. PICK e \in records : e > now + 1
  BY <1>1, DueNeedsRecord
<1> QED BY <1>2 DEF MaintenanceTypes

LEMMA RecordsFinite == ASSUME NEW n \in Nat, NEW r, r \subseteq 1 .. n PROVE IsFiniteSet(r)
<1>1. IsFiniteSet(1 .. n)
  BY FS_Interval
<1> QED BY <1>1, FS_Subset

(* The types, and one check at a time.                                       *)
LEMMA ReminderTypes ==
    ASSUME MaintenanceTypes, OneCheck, part \in Service, ServicePart
    PROVE  MaintenanceTypes' /\ OneCheck'
<1> USE DEF MaintenanceTypes, OneCheck, Stamps, Nothing, None
<1>0. ASSUME NEW r, r \subseteq 1 .. now PROVE r \cup {now + 1} \subseteq 1 .. (now + 1)
  BY <1>0
<1>1. CASE AppendRecord
  <2>1. now' = now + 1 /\ now' \in Nat \ {0} /\ appended' \in Nat /\ readable' = TRUE
        /\ UNCHANGED <<tasks, deleted, announced, saved, said, mishaps>>
    BY <1>1 DEF AppendRecord
  <2>2. records' \subseteq 1 .. now'
    BY <1>0, <1>1, <2>1 DEF AppendRecord
  <2>3. checks = {}
    BY <1>1 DEF AppendRecord, ServicePart
  <2>4. checks' = {[id |-> now', at |-> "start", tasks |-> Nothing, due |-> {}]}
    BY <1>1, <2>3 DEF AppendRecord
  <2>5. checks' \subseteq Checks /\ OneCheck'
    BY <2>1, <2>4 DEF Checks
  <2>6. \A t \in Tasks : tasks'[t] <= now' /\ deleted'[t] <= now'
    BY <2>1
  <2> QED BY <2>1, <2>2, <2>5, <2>6
<1>2. CASE HistoryBreaks
  <2>1. readable' = FALSE /\ mishaps' = mishaps + 1
        /\ UNCHANGED <<now, records, tasks, deleted, checks, announced, saved, said, appended>>
    BY <1>2 DEF HistoryBreaks
  <2>2. mishaps' \in Nat
    BY <2>1
  <2>3. readable' \in BOOLEAN
    BY <2>1, Zenon
  <2> QED BY <2>1, <2>2, <2>3
<1>3. ASSUME NEW c \in checks, CopyTasks(c) PROVE MaintenanceTypes' /\ OneCheck'
  BY <1>3 DEF CopyTasks, OnlyCheck, Checks
<1>4. ASSUME NEW c \in checks, ReadHistory(c) PROVE MaintenanceTypes' /\ OneCheck'
  <2>1. \A d : [c EXCEPT !.at = "ask", !.due = {t \in Tasks : IsDue(c.tasks[t], d)}] \in Checks
    BY DEF Checks
  <2>2. checks' \subseteq Checks /\ OneCheck'
    BY <1>4, <2>1, ZenonT(60) DEF ReadHistory
  <2> QED BY <1>4, <2>2 DEF ReadHistory, OnlyCheck
<1>5. ASSUME NEW c \in checks, NewlyDue(c) PROVE MaintenanceTypes' /\ OneCheck'
  <2>1. Keep(c) \in Stamps
    BY DEF Keep, Checks
  <2>2. {<<t, c.tasks[t]>> : t \in New(c)} \subseteq Tasks \X Nat
    BY DEF New, Checks
  <2>3. announced' \in Stamps /\ saved' \in Stamps /\ mishaps' \in Nat
    BY <1>5, <2>1 DEF NewlyDue
  <2>4. said' \subseteq Tasks \X Nat
    BY <1>5, <2>2 DEF NewlyDue
  <2>5. checks' \subseteq checks /\ UNCHANGED <<now, records, readable, tasks, deleted, appended>>
    BY <1>5 DEF NewlyDue, OnlyCheck
  <2> QED BY <2>3, <2>4, <2>5
<1>6. ASSUME NEW t \in Tasks, Done(t) PROVE MaintenanceTypes' /\ OneCheck'
  BY <1>6 DEF Done, UserStep
<1>7. ASSUME NEW t \in Tasks, Remove(t) PROVE MaintenanceTypes' /\ OneCheck'
  BY <1>7 DEF Remove, UserStep
<1>8. ASSUME NEW t \in Tasks, Post(t), tasks'[t] <= now' PROVE MaintenanceTypes' /\ OneCheck'
  BY <1>8 DEF Post, UserStep
<1>9. CASE MaintenanceRestart
  BY <1>9 DEF MaintenanceRestart
<1>10. ASSUME NEW t \in Tasks, Post(t) PROVE tasks'[t] <= now'
  <2>1. PICK last \in {now', deleted[t]} \ {None} : tasks' = [tasks EXCEPT ![t] = last]
    BY <1>10 DEF Post
  <2> QED BY <1>10, <2>1 DEF Post, UserStep
<1>11. MaintenanceNext
  BY DEF ServicePart
<1> QED BY <1>1, <1>2, <1>3, <1>4, <1>5, <1>6, <1>7, <1>8, <1>9, <1>10, <1>11 DEF MaintenanceNext, Check

(* Without mishaps, what is due has been announced when the check ends.      *)
LEMMA SteadyStep ==
    ASSUME MaintenanceTypes, OneCheck, SteadyInv, part = "steady", ServicePart, MaintenanceTypes'
    PROVE  SteadyInv'
<1>0. mishaps' = 0 /\ ~MaintenanceRestart /\ ~HistoryBreaks
  BY DEF ServicePart, MaintenanceRestart, HistoryBreaks, SteadyInv
<1>1. CASE AppendRecord
  <2>1. /\ UNCHANGED <<tasks, announced, said>> /\ readable' = TRUE
        /\ checks' = checks \cup {[id |-> now', at |-> "start", tasks |-> Nothing, due |-> {}]}
        /\ checks = {}
    BY <1>1 DEF AppendRecord, ServicePart
  <2>2. checks' # {} /\ \A c \in checks' : ~Running(c)
    BY <2>1 DEF Running
  <2> QED BY <1>0, <2>1, <2>2 DEF SteadyInv
<1>2. ASSUME NEW c \in checks, CopyTasks(c) PROVE SteadyInv'
  <2>1. checks' = {[c EXCEPT !.at = "copied", !.tasks = tasks]}
    BY <1>2 DEF CopyTasks, OneCheck
  <2>2. \A d \in checks' : d.at = "copied" /\ d.tasks = tasks
    BY <2>1 DEF MaintenanceTypes, Checks
  <2>3. UNCHANGED <<records, readable, tasks, announced, said>>
    BY <1>2 DEF CopyTasks, OnlyCheck
  <2> QED BY <1>0, <2>1, <2>2, <2>3 DEF SteadyInv, DueNow
<1>3. ASSUME NEW c \in checks, ReadHistory(c) PROVE SteadyInv'
  <2>1. checks' = {[c EXCEPT !.at = "ask", !.due = {t \in Tasks : IsDue(c.tasks[t], records)}]}
    BY <1>3 DEF ReadHistory, OneCheck, SteadyInv
  <2>2. \A d \in checks' : /\ d.at = "ask" /\ d.tasks = c.tasks
                           /\ d.due = {t \in Tasks : IsDue(c.tasks[t], records)}
    BY <2>1 DEF MaintenanceTypes, Checks
  <2>3. UNCHANGED <<records, readable, tasks, announced, said>>
    BY <1>3 DEF ReadHistory, OnlyCheck
  <2>4. \A t \in Tasks : DueNow(t) => c.tasks[t] = tasks[t]
    BY <1>3 DEF ReadHistory, SteadyInv, Running
  <2>5. \A d \in checks' : \A t \in Tasks : DueNow(t) => d.tasks[t] = tasks[t] /\ t \in d.due
    BY <2>2, <2>4 DEF DueNow
  <2> QED BY <1>0, <2>1, <2>3, <2>5 DEF SteadyInv, DueNow
<1>4. ASSUME NEW c \in checks, NewlyDue(c) PROVE SteadyInv'
  <2>1. checks' = {} /\ announced' = Keep(c) /\ said' = said \cup {<<t, c.tasks[t]>> : t \in New(c)}
    BY <1>4 DEF NewlyDue, OneCheck
  <2>2. UNCHANGED <<records, readable, tasks>>
    BY <1>4 DEF NewlyDue, OnlyCheck
  <2>3. \A t \in Tasks : t \in c.due => c.tasks[t] = None \/ <<t, c.tasks[t]>> \in said'
    BY <2>1 DEF New, SteadyInv
  <2>4. \A t \in Tasks : announced'[t] # None => <<t, announced'[t]>> \in said'
    BY <2>1, <2>3 DEF Keep
  <2>5. \A t \in Tasks : DueNow(t) => t \in c.due /\ c.tasks[t] = tasks[t]
    BY <1>4 DEF NewlyDue, SteadyInv, Running
  <2>6. \A t \in Tasks : DueNow(t) => <<t, tasks[t]>> \in said'
    BY <2>3, <2>5 DEF DueNow, IsDue
  <2> QED BY <1>0, <2>1, <2>2, <2>4, <2>6 DEF SteadyInv, DueNow
<1>5. ASSUME NEW t \in Tasks, Done(t) \/ Remove(t) \/ Post(t) PROVE SteadyInv'
  <2>1. UNCHANGED <<records, readable, checks, announced, said>> /\ now' = now + 1
    BY <1>5 DEF Done, Remove, Post, UserStep
  <2>2. \A u \in Tasks : tasks'[u] \in {tasks[u], None, now'}
    BY DEF ServicePart
  <2>3. ~IsDue(now', records) /\ ~IsDue(None, records)
    BY <2>1, NothingAfter DEF IsDue
  <2>4. \A u \in Tasks : IsDue(tasks'[u], records') => tasks'[u] = tasks[u]
    BY <2>1, <2>2, <2>3
  <2> QED BY <1>0, <2>1, <2>4 DEF SteadyInv, DueNow
<1> QED BY <1>0, <1>1, <1>2, <1>3, <1>4, <1>5 DEF ServicePart, MaintenanceNext, Check

(* While no record is lost and no two mishaps met, nothing is said twice.    *)
LEMMA OnceStep ==
    ASSUME MaintenanceTypes, OneCheck, OnceInv, part = "mishaps", ServicePart, MaintenanceTypes',
           deleted = Nothing, records \subseteq records', mishaps' <= 1
    PROVE  OnceInv'
<1>0. IsFiniteSet(records') /\ \A last \in Nat : IsDue(last, records) => IsDue(last, records')
  <2>1. IsFiniteSet(records')
    BY RecordsFinite DEF MaintenanceTypes
  <2> QED BY <2>1, StaysDue
<1>1. CASE AppendRecord
  <2>0. appended' # appended
    BY <1>1 DEF AppendRecord, MaintenanceTypes
  <2>1. /\ UNCHANGED <<tasks, announced, saved, said, again, mishaps>>
        /\ checks' = checks \cup {[id |-> now', at |-> "start", tasks |-> Nothing, due |-> {}]}
        /\ checks = {}
    BY <1>1, <2>0 DEF AppendRecord, ServicePart
  <2>2. \A c \in checks' : ~Running(c)
    BY <2>1 DEF Running
  <2>3. \A n \in said' : n[2] <= tasks'[n[1]] /\ IsDue(n[2], records')
    BY <1>0, <2>1 DEF OnceInv, MaintenanceTypes
  <2> QED BY <2>1, <2>2, <2>3 DEF OnceInv
<1>2. CASE HistoryBreaks
  <2>1. UNCHANGED <<records, tasks, checks, announced, saved, said, again>> /\ mishaps' = mishaps + 1
    BY <1>2 DEF HistoryBreaks
  <2>2. mishaps' # 0
    BY <2>1 DEF MaintenanceTypes
  <2> QED BY <2>1, <2>2 DEF OnceInv, DueNow
<1>3. ASSUME NEW c \in checks, CopyTasks(c) PROVE OnceInv'
  <2>1. checks' = {[c EXCEPT !.at = "copied", !.tasks = tasks]}
    BY <1>3 DEF CopyTasks, OneCheck
  <2>2. \A d \in checks' : d.at = "copied" /\ d.tasks = tasks
    BY <2>1 DEF MaintenanceTypes, Checks
  <2>3. UNCHANGED <<records, tasks, announced, saved, said, again, mishaps>>
    BY <1>3 DEF CopyTasks, OnlyCheck
  <2>4. \A t \in Tasks : tasks[t] <= tasks[t]
    BY DEF MaintenanceTypes, Stamps
  <2> QED BY <2>2, <2>3, <2>4 DEF OnceInv, DueNow
<1>4. ASSUME NEW c \in checks, ReadHistory(c) PROVE OnceInv'
  <2>1. c.at = "copied" /\ UNCHANGED <<records, tasks, announced, saved, said, again, mishaps>>
    BY <1>4 DEF ReadHistory, OnlyCheck
  <2>2. checks' \subseteq {[c EXCEPT !.at = "ask", !.due = {t \in Tasks : IsDue(c.tasks[t], records)}]}
    BY <1>4 DEF ReadHistory, OneCheck
  <2>3. \A d \in checks' : /\ d.at = "ask" /\ d.tasks = c.tasks
                           /\ d.due = {t \in Tasks : IsDue(c.tasks[t], records)}
    BY <2>2 DEF MaintenanceTypes, Checks
  <2>4. \A t \in Tasks :
          /\ c.tasks[t] <= tasks[t]
          /\ c.tasks[t] # tasks[t] => ~DueNow(t)
          /\ <<t, c.tasks[t]>> \in said => announced[t] = c.tasks[t]
    BY <2>1 DEF OnceInv, Running
  <2>5. \A d \in checks' : \A t \in Tasks : t \in d.due <=> IsDue(d.tasks[t], records)
    BY <2>3
  <2> QED BY <2>1, <2>3, <2>4, <2>5 DEF OnceInv, DueNow
<1>5. ASSUME NEW c \in checks, NewlyDue(c) PROVE OnceInv'
  <2>1. /\ checks' = {} /\ announced' = Keep(c) /\ said' = said \cup {<<t, c.tasks[t]>> : t \in New(c)}
        /\ again' = again \cup {n \in said : n[1] \in New(c) /\ n[2] = c.tasks[n[1]]}
        /\ UNCHANGED <<records, tasks>>
    BY <1>5 DEF NewlyDue, OneCheck, OnlyCheck
  <2>2. \A t \in Tasks :
          /\ c.tasks[t] \in Nat /\ c.tasks[t] <= tasks[t]
          /\ c.tasks[t] # tasks[t] => ~DueNow(t)
          /\ <<t, c.tasks[t]>> \in said => announced[t] = c.tasks[t]
          /\ t \in c.due <=> IsDue(c.tasks[t], records)
    BY <1>5 DEF NewlyDue, OnceInv, Running, MaintenanceTypes, Checks, Stamps
  <2>3. again' = {}
    <3>1. \A n \in said : ~(n[1] \in New(c) /\ n[2] = c.tasks[n[1]])
      <4> SUFFICES ASSUME NEW n \in said, n[1] \in New(c), n[2] = c.tasks[n[1]] PROVE FALSE
        OBVIOUS
      <4>1. n[1] \in Tasks /\ n = <<n[1], c.tasks[n[1]]>>
        BY DEF MaintenanceTypes
      <4>2. announced[n[1]] # c.tasks[n[1]]
        BY DEF New
      <4> QED BY <2>2, <4>1, <4>2
    <3> QED BY <2>1, <3>1 DEF OnceInv
  <2>4. mishaps' = 0 => saved' = announced'
    BY <1>5 DEF NewlyDue, MaintenanceTypes
  <2>5. New(c) \subseteq Tasks /\ New(c) \subseteq c.due
    BY DEF New, MaintenanceTypes, Checks
  <2>6. \A n \in said' : n[2] <= tasks'[n[1]] /\ IsDue(n[2], records')
    <3>1. \A n \in said : n[2] <= tasks'[n[1]] /\ IsDue(n[2], records')
      BY <2>1 DEF OnceInv
    <3>2. \A t \in New(c) : c.tasks[t] <= tasks'[t] /\ IsDue(c.tasks[t], records')
      BY <2>1, <2>2, <2>5
    <3> QED BY <2>1, <3>1, <3>2
  <2>7. \A t \in Tasks : <<t, tasks'[t]>> \in said' => announced'[t] = tasks'[t]
    <3> SUFFICES ASSUME NEW t \in Tasks, <<t, tasks[t]>> \in said' PROVE announced'[t] = tasks[t]
      BY <2>1
    <3>1. DueNow(t)
      <4>1. IsDue(<<t, tasks[t]>>[2], records')
        BY <2>6
      <4> QED BY <2>1, <4>1 DEF DueNow
    <3>2. c.tasks[t] = tasks[t] /\ t \in c.due
      BY <2>2, <3>1 DEF DueNow
    <3> QED BY <2>1, <3>2 DEF Keep
  <2> QED BY <2>1, <2>3, <2>4, <2>6, <2>7 DEF OnceInv
<1>6. ASSUME NEW t \in Tasks, Done(t) \/ Remove(t) \/ Post(t) PROVE OnceInv'
  <2>1. UNCHANGED <<records, checks, announced, saved, said, again, mishaps>> /\ now' = now + 1
    BY <1>6 DEF Done, Remove, Post, UserStep
  <2>2. deleted' = Nothing
    BY DEF ServicePart
  <2>3. tasks' = [tasks EXCEPT ![t] = now']
    BY <1>6, <2>2 DEF Done, Remove, Post, Nothing, MaintenanceTypes, Stamps
  <2>4. tasks'[t] = now + 1 /\ \A u \in Tasks \ {t} : tasks'[u] = tasks[u]
    BY <2>1, <2>3 DEF MaintenanceTypes, Stamps
  <2>5. ~IsDue(now + 1, records)
    BY NothingAfter
  <2>6. \A n \in said : n[1] \in Tasks /\ n[2] \in Nat /\ n[2] <= now
    BY DEF MaintenanceTypes, OnceInv, Stamps
  <2>7. \A n \in said' : n[2] <= tasks'[n[1]] /\ IsDue(n[2], records')
    BY <2>1, <2>4, <2>6 DEF OnceInv, MaintenanceTypes
  <2>8. \A u \in Tasks : <<u, tasks'[u]>> \in said' => announced'[u] = tasks'[u]
    <3>1. <<t, now + 1>> \notin said
      BY <2>6 DEF MaintenanceTypes
    <3> QED BY <2>1, <2>4, <3>1 DEF OnceInv
  <2>9. \A c \in checks' : Running(c) => \A u \in Tasks :
          c.tasks[u] <= tasks'[u] /\ (c.tasks[u] # tasks'[u] => ~IsDue(tasks'[u], records'))
    <3> SUFFICES ASSUME NEW c \in checks, Running(c), NEW u \in Tasks
                 PROVE  c.tasks[u] <= tasks'[u] /\ (c.tasks[u] # tasks'[u] => ~IsDue(tasks'[u], records))
      BY <2>1
    <3>0. c.tasks[u] \in Nat /\ tasks[u] <= now /\ now \in Nat /\ tasks[u] \in Nat
      BY DEF MaintenanceTypes, Checks, Stamps
    <3>1. c.tasks[u] <= tasks[u] /\ (c.tasks[u] # tasks[u] => ~IsDue(tasks[u], records))
      BY DEF OnceInv, DueNow
    <3>2. CASE u = t
      BY <2>4, <2>5, <3>0, <3>1, <3>2
    <3>3. CASE u # t
      BY <2>4, <3>0, <3>1, <3>3
    <3> QED BY <3>2, <3>3
  <2> QED BY <2>1, <2>7, <2>8, <2>9 DEF OnceInv, DueNow
<1>7. CASE MaintenanceRestart
  <2>1. checks' = {} /\ announced' = saved /\ UNCHANGED <<records, tasks, saved, said, again>>
    BY <1>7 DEF MaintenanceRestart
  <2>2. mishaps = 0
    BY <1>7 DEF MaintenanceRestart, MaintenanceTypes
  <2> QED BY <2>1, <2>2 DEF OnceInv
<1> QED BY <1>1, <1>2, <1>3, <1>4, <1>5, <1>6, <1>7 DEF ServicePart, MaintenanceNext, Check

(* The history has a record at most for each that was written; once one is   *)
(* lost, that is seen for ever.                                              *)
LEMMA MishapsStep ==
    ASSUME MaintenanceTypes, OneCheck, MishapsInv, part = "mishaps", ServicePart, MaintenanceTypes'
    PROVE  MishapsInv'
<1>1. deleted' = Nothing
  BY DEF ServicePart
<1>2. mishaps' \in Nat /\ mishaps <= mishaps'
  <2>1. mishaps' = mishaps \/ mishaps' = mishaps + 1
    BY DEF ServicePart, MaintenanceNext, AppendRecord, HistoryBreaks, Check, CopyTasks, ReadHistory,
           NewlyDue, OnlyCheck, Done, Remove, Post, UserStep, MaintenanceRestart
  <2> QED BY <2>1 DEF MaintenanceTypes
<1>3. /\ Cardinality(records') <= appended'
      /\ NoRecordLost' => NoRecordLost /\ records \subseteq records'
  <2>1. CASE AppendRecord
    <3>1. PICK kept : /\ kept \in {records, {}} /\ records' = kept \cup {now'}
                      /\ now' = now + 1 /\ appended' = appended + 1
      BY <2>1 DEF AppendRecord
    <3>2. IsFiniteSet(records) /\ Cardinality(records) \in Nat
      BY RecordsFinite, FS_CardinalityType DEF MaintenanceTypes
    <3>3. IsFiniteSet(kept) /\ Cardinality(kept) \in Nat /\ Cardinality(kept) <= Cardinality(records)
          /\ (kept # records => Cardinality(kept) = 0)
      BY <3>1, <3>2, FS_EmptySet
    <3>4. now' \notin kept
      BY <3>1 DEF MaintenanceTypes
    <3>5. Cardinality(records') = Cardinality(kept) + 1
      BY <3>1, <3>3, <3>4, FS_AddElement
    <3>6. appended \in Nat /\ Cardinality(records) <= appended
      BY DEF MaintenanceTypes, MishapsInv
    <3>7. Cardinality(records') <= appended'
      BY <3>1, <3>2, <3>3, <3>5, <3>6
    <3>8. ASSUME Cardinality(records') = appended' PROVE Cardinality(records) = appended
      BY <3>1, <3>2, <3>3, <3>5, <3>6, <3>8
    <3>9. ASSUME Cardinality(records') = appended' PROVE records \subseteq records'
      <4>1. CASE kept = records
        BY <3>1, <4>1
      <4>2. CASE kept # records
        <5>1. Cardinality(records) = 0
          BY <3>1, <3>3, <3>5, <3>8, <3>9, <4>2 DEF MaintenanceTypes
        <5> QED BY <3>2, <5>1, FS_EmptySet
      <4> QED BY <4>1, <4>2
    <3> QED BY <3>7, <3>8, <3>9 DEF NoRecordLost
  <2>2. CASE ~AppendRecord
    <3>1. UNCHANGED <<records, appended>>
      BY <2>2 DEF ServicePart, MaintenanceNext, HistoryBreaks, Check, CopyTasks, ReadHistory, NewlyDue, OnlyCheck,
                  Done, Remove, Post, UserStep, MaintenanceRestart
    <3> QED BY <3>1 DEF MishapsInv, NoRecordLost
  <2> QED BY <2>1, <2>2
<1>4. ASSUME NoRecordLost', mishaps' <= 1 PROVE OnceInv'
  <2>1. NoRecordLost /\ records \subseteq records' /\ mishaps <= 1
    BY <1>2, <1>3, <1>4 DEF MaintenanceTypes
  <2> QED BY <1>4, <2>1, OnceStep DEF MishapsInv
<1> QED BY <1>1, <1>3, <1>4 DEF MishapsInv

(* maintenance/maintenance.go:168-204: with one check at a time a task that  *)
(* came due is announced, and once only for each time it was done, unless    *)
(* records of the history are lost or two mishaps meet.                      *)
THEOREM RemindersStayRight == MCSpec => []RemindersAreRight
<1>1. MCInit => ReminderInv
  <2>1. \A t \in Tasks : ~IsDue(1, {})
    BY DueNeedsRecord
  <2>2. Cardinality({}) = 0
    BY FS_EmptySet
  <2> SUFFICES ASSUME MCInit, part \in Service PROVE ReminderInv
    BY DEF ReminderInv
  <2>3. MaintenanceTypes /\ OneCheck
    BY DEF MCInit, MaintenanceInit, MaintenanceTypes, OneCheck, Stamps, Nothing, None
  <2>4. SteadyInv
    BY <2>1 DEF MCInit, MaintenanceInit, SteadyInv, DueNow, Nothing
  <2>5. MishapsInv
    BY <2>2 DEF MCInit, MaintenanceInit, MishapsInv, OnceInv, Nothing
  <2> QED BY <2>3, <2>4, <2>5 DEF ReminderInv
<1>2. ReminderInv /\ [MCNext]_allVars => ReminderInv'
  <2> SUFFICES ASSUME ReminderInv, [MCNext]_allVars, part \in Service PROVE ReminderInv'
    BY DEF ReminderInv, MCNext, allVars
  <2>1. CASE UNCHANGED <<maintenanceVars, part>>
    BY <2>1 DEF maintenanceVars, ReminderInv, MaintenanceTypes, OneCheck, SteadyInv, MishapsInv, OnceInv, NoRecordLost, DueNow
  <2>2. CASE ServicePart /\ UNCHANGED part
    <3>1. MaintenanceTypes' /\ OneCheck'
      BY <2>2, ReminderTypes DEF ReminderInv
    <3>2. part = "steady" => SteadyInv'
      BY <2>2, <3>1, SteadyStep DEF ReminderInv
    <3>3. part = "mishaps" => MishapsInv'
      BY <2>2, <3>1, MishapsStep DEF ReminderInv
    <3> QED BY <2>2, <3>1, <3>2, <3>3 DEF ReminderInv
  <2> QED BY <2>1, <2>2 DEF MCNext, allVars, Service
<1>3. ReminderInv => RemindersAreRight
  BY DEF ReminderInv, RemindersAreRight, Service, SteadyInv, MishapsInv, OnceInv, DueNow, DueIsAnnounced, AnnouncedOnce
<1> QED BY <1>1, <1>2, <1>3, PTL DEF MCSpec

-----------------------------------------------------------------------------
(* PlugManager, with at most one look at the printer under way and no poll   *)
(* while PrintEnergy reads the plug.                                         *)

Last == (phase + 1) \div 2      \* the print of the machine, or the last one
Pictures == [known : BOOLEAN, job : Nat, hot : BOOLEAN]
Looks == [ok : BOOLEAN, busy : BOOLEAN, hot : BOOLEAN, job : Nat]
Answers == [ok : BOOLEAN, on : BOOLEAN]
Entries == [id : Nat, cfg : Cfgs \cup {NoCfg}, on : BOOLEAN, read : BOOLEAN, reachable : BOOLEAN,
            inPrint : BOOLEAN, known : BOOLEAN, fresh : BOOLEAN, lastHot : BOOLEAN,
            pending : {"no", "wait", "due"}]

(* Where a poll may be.                                                      *)
ProcFits(w) ==
    /\ w.pc \in {"look", "apply"} => w.r \in Answers
    /\ w.pc = "apply" => w.s \in Looks /\ (w.s.ok => (w.s.busy <=> w.s.job # 0)) /\ w.s.job <= Last
    /\ w.pc = "recheck" => w.id \in Nat /\ w.id <= syncs
    /\ w.pc \in {"check", "switch", "set"} => w.on \in BOOLEAN
ProcsFit == DOMAIN proc = Polls /\ proc = [p \in Polls |-> proc[p]] /\ \A p \in Polls : ProcFits(proc[p])

PlugTypes ==
    /\ phase \in Nat /\ power \in BOOLEAN /\ shown \in Pictures /\ half \subseteq Pictures
    /\ sess \in Nat /\ seen \in Nat /\ cuts \in Nat /\ syncs \in Nat
    /\ entry \in Entries /\ entry.id <= syncs
    /\ taking \in [Takers -> SUBSET [id : Nat, r : Answers]]
    /\ \A k \in Takers : \A w \in taking[k] : w.id <= syncs

(* One record is written at a time, one report comes at a time, and one poll *)
(* has looked.                                                               *)
OneAtATime ==
    /\ \A q, r \in half : q = r
    /\ \A j, k \in toTake : j = k
    /\ toTake # {} => \A k \in Takers : taking[k] = {}
    /\ \A j, k \in Takers : taking[j] # {} /\ taking[k] # {} => j = k
    /\ \A p, q \in Polls : proc[p].pc = "apply" /\ proc[q].pc = "apply" => p = q

(* Nobody knows of a print to come.                                          *)
Past == seen <= Last /\ shown.job <= Last /\ \A r \in half : r.job <= Last

(* Once somebody knows of the print that runs, what is stored shows it, and  *)
(* the session is its, at the latest when the report has been taken in.      *)
HasLooked(p) == proc[p].pc = "apply" /\ proc[p].s.ok
Known == Job # 0 /\ (\/ seen = Job \/ shown.job = Job
                     \/ \E p \in Polls : HasLooked(p) /\ proc[p].s.job = Job)
KnownIsStored ==
    /\ Known => /\ shown.job = Job /\ \A r \in half : r.job = Job
                /\ half = {} \/ ~StoreFirst => sess = Job
    /\ ~StoreFirst => \A r \in half : sess = r.job

(* While a print runs that a poll has seen, no other is being recorded, and  *)
(* the entry is in print unless it was made since.                           *)
NoneTaken == toTake = {} /\ \A k \in Takers : taking[k] = {}
SeenIsCounted ==
    /\ SeenRuns => sess = Job /\ NoneTaken
    /\ SeenRuns /\ HasEntry /\ ~entry.inPrint =>
         ~entry.known /\ \A p \in Polls : proc[p].pc = "recheck" => proc[p].id # entry.id
    /\ \A k \in Takers : \A w \in taking[k] : HasEntry /\ w.id = entry.id => entry.inPrint

(* The automatic offs so far and those decided on; one more may follow while *)
(* the entry is in print or waits. They stay behind the prints that are      *)
(* known of.                                                                 *)
Deciders == {p \in Polls : proc[p].pc \in {"recheck", "ask", "cut"}}
Offs == cuts + Cardinality(Deciders)
ToCome == IF entry.inPrint \/ entry.pending # "no" THEN 1 ELSE 0
OffsFollowPrints ==
    /\ Offs + ToCome <= Last
    /\ shown.job # 0 => Offs < shown.job
    /\ Job # 0 /\ shown.job # Job => Offs + ToCome < Job
    /\ \A r \in half : r.job # 0 /\ shown.job # r.job => Offs + ToCome < r.job
    /\ \A p \in Polls : HasLooked(p) =>
         /\ proc[p].s.job # 0 => Offs < proc[p].s.job
         /\ proc[p].s.job = 0 /\ shown.job # 0 => Offs + ToCome < shown.job

PlugInv ==
    PlugTypes /\ ProcsFit /\ OneAtATime /\ Past /\ KnownIsStored /\ SeenIsCounted /\ OffsFollowPrints

(* Prints begin and end.                                                     *)
LEMMA JobIsLast == ASSUME phase \in Nat PROVE Last \in Nat /\ Job \in Nat /\ (Job # 0 => Job = Last)
BY DEF Job, Last

PrintBegins == phase' = phase + 1 /\ Job = 0
PrintEnds == phase' = phase \/ phase' = AfterOff \/ (phase' = phase + 1 /\ Job # 0)
LEMMA JobMoves ==
    ASSUME phase \in Nat
    PROVE  /\ PrintBegins => phase' \in Nat /\ Last' = Last + 1 /\ Job' = Last'
           /\ PrintEnds => phase' \in Nat /\ Last' = Last /\ Job' \in {0, Job}
BY DEF PrintBegins, PrintEnds, AfterOff, Job, Last

(* Who decides on an automatic off, when one poll moves on.                  *)
Deciding(w) == w.pc \in {"recheck", "ask", "cut"}
LEMMA DecidersMove ==
    ASSUME ProcsFit, NEW p \in Polls, NEW w, Goes(p, w)
    PROVE  /\ Cardinality(Deciders) \in Nat /\ Cardinality(Deciders') \in Nat
           /\ ~Deciding(w) \/ Deciding(proc[p]) => Cardinality(Deciders') <= Cardinality(Deciders)
           /\ Cardinality(Deciders') <= Cardinality(Deciders) + 1
           /\ Deciding(proc[p]) /\ ~Deciding(w) => Cardinality(Deciders') = Cardinality(Deciders) - 1
<1>1. proc'[p] = w /\ \A q \in Polls \ {p} : proc'[q] = proc[q]
  BY DEF Goes, ProcsFit
<1>2. IsFiniteSet(Polls)
  BY PlugAssumption, FS_Union DEF Polls
<1>3. IsFiniteSet(Deciders) /\ Cardinality(Deciders) \in Nat
  <2>1. Deciders \subseteq Polls
    BY DEF Deciders
  <2> QED BY <1>2, <2>1, FS_Subset, FS_CardinalityType
<1>4. Deciders' = IF Deciding(w) THEN Deciders \cup {p} ELSE Deciders \ {p}
  BY <1>1 DEF Deciders, Deciding
<1>5. p \in Deciders <=> Deciding(proc[p])
  BY DEF Deciders, Deciding
<1>6. CASE Deciding(w)
  <2>1. Deciders' = Deciders \cup {p}
    BY <1>4, <1>6
  <2>2. /\ IsFiniteSet(Deciders \cup {p})
        /\ p \in Deciders => Cardinality(Deciders \cup {p}) = Cardinality(Deciders)
        /\ p \notin Deciders => Cardinality(Deciders \cup {p}) = Cardinality(Deciders) + 1
    BY <1>3, FS_AddElement
  <2> QED BY <1>3, <1>5, <1>6, <2>1, <2>2
<1>7. CASE ~Deciding(w)
  <2>1. Deciders' = Deciders \ {p}
    BY <1>4, <1>7
  <2>2. /\ IsFiniteSet(Deciders \ {p})
        /\ p \in Deciders => Cardinality(Deciders \ {p}) = Cardinality(Deciders) - 1
        /\ p \notin Deciders => Cardinality(Deciders \ {p}) = Cardinality(Deciders)
    BY <1>3, FS_RemoveElement
  <2>3. p \in Deciders => Cardinality(Deciders \ {p}) \in Nat
    BY <2>2, FS_CardinalityType
  <2> QED BY <1>3, <1>5, <1>7, <2>1, <2>2, <2>3
<1> QED BY <1>6, <1>7

LEMMA DecidersStay == ASSUME ProcsFit PROVE Cardinality(Deciders) \in Nat
<1>1. IsFiniteSet(Polls) /\ Deciders \subseteq Polls
  BY PlugAssumption, FS_Union DEF Polls, Deciders
<1> QED BY <1>1, FS_Subset, FS_CardinalityType

(* Nothing new is learned of the printer: prints begin or end, the entry     *)
(* changes or is made anew, a poll moves on.                                 *)
Calm ==
    /\ phase' \in Nat
    /\ \/ Job' \in {0, Job} /\ Last' = Last
       \/ Job' = Last' /\ Last' = Last + 1
    /\ shown' \in Pictures /\ shown'.job = shown.job
    /\ power' \in BOOLEAN /\ syncs' \in Nat /\ syncs <= syncs'
    /\ UNCHANGED <<half, sess, toTake, taking, seen>>
    /\ cuts' \in Nat /\ Offs' <= Offs /\ ToCome' <= ToCome
EntryCalm ==
    /\ entry' \in Entries /\ entry'.id <= syncs'
    /\ HasEntry' => \/ /\ HasEntry /\ entry'.id = entry.id
                       /\ entry'.inPrint = entry.inPrint /\ entry'.known = entry.known
                    \/ ~entry'.inPrint /\ ~entry'.known /\ syncs < entry'.id
ProcsCalm ==
    /\ ProcsFit'
    /\ \A p \in Polls : proc'[p].pc \in {"apply", "recheck"} => proc'[p] = proc[p]

LEMMA CalmStep == ASSUME PlugInv, Calm, EntryCalm, ProcsCalm PROVE PlugInv'
<1>1. PlugTypes'
  BY DEF PlugInv, Calm, EntryCalm, PlugTypes
<1>2. OneAtATime'
  BY DEF PlugInv, Calm, ProcsCalm, OneAtATime
<1>3. Last \in Nat /\ Job \in Nat /\ (Job # 0 => Job = Last) /\ Job' \in Nat /\ Last' \in Nat
  BY JobIsLast DEF PlugInv, PlugTypes, Calm
<1>4. seen' = seen /\ shown'.job = shown.job /\ half' = half /\ seen \in Nat /\ shown.job \in Nat
      /\ \A r \in half : r.job \in Nat
  BY DEF PlugInv, PlugTypes, Calm, Pictures
<1>5. Past'
  BY <1>3, <1>4 DEF PlugInv, Past, Calm
<1>6. \A p \in Polls : HasLooked(p)' => HasLooked(p) /\ proc'[p] = proc[p]
  BY DEF HasLooked, ProcsCalm
<1>7. \A p \in Polls : HasLooked(p) => proc[p].s.job \in Nat /\ proc[p].s.job <= Last
  BY DEF HasLooked, PlugInv, ProcsFit, ProcFits, Looks
<1>8. Job' # 0 /\ (Known' \/ SeenRuns') => Job' = Job
  BY <1>3, <1>4, <1>6, <1>7 DEF Known, SeenRuns, PlugInv, Past, Calm
<1>9. (Known' => Known) /\ (SeenRuns' => SeenRuns)
  BY <1>4, <1>6, <1>8 DEF Known, SeenRuns
<1>10. KnownIsStored'
  <2>1. Known' => Job' = Job
    BY <1>8 DEF Known
  <2> QED BY <1>4, <1>9, <2>1 DEF PlugInv, KnownIsStored, Calm
<1>11. SeenIsCounted'
  <2>1. SeenRuns' => Job' = Job
    BY <1>8 DEF SeenRuns
  <2>2. SeenRuns' => sess' = Job' /\ NoneTaken'
    BY <1>9, <2>1 DEF PlugInv, SeenIsCounted, Calm, NoneTaken
  <2>3. ASSUME SeenRuns', HasEntry', ~entry'.inPrint
        PROVE  ~entry'.known /\ \A p \in Polls : proc'[p].pc = "recheck" => proc'[p].id # entry'.id
    <3>0. \A p \in Polls : proc'[p].pc = "recheck" =>
            /\ proc'[p] = proc[p] /\ proc[p].id \in Nat /\ proc[p].id <= syncs
      BY DEF ProcsCalm, PlugInv, ProcsFit, ProcFits
    <3>1. CASE HasEntry /\ entry'.id = entry.id /\ entry'.inPrint = entry.inPrint /\ entry'.known = entry.known
      BY <1>9, <2>3, <3>0, <3>1 DEF PlugInv, SeenIsCounted
    <3>2. CASE ~entry'.known /\ syncs < entry'.id
      <4>1. syncs \in Nat /\ entry'.id \in Nat
        BY <1>1 DEF PlugInv, PlugTypes, Entries
      <4> QED BY <3>0, <3>2, <4>1
    <3> QED BY <2>3, <3>1, <3>2 DEF EntryCalm
  <2>4. ASSUME NEW k \in Takers, NEW w \in taking[k], HasEntry', w.id = entry'.id PROVE entry'.inPrint
    <3>1. w.id <= syncs /\ w.id \in Nat /\ syncs \in Nat
      BY DEF PlugInv, PlugTypes
    <3> QED BY <2>4, <3>1 DEF PlugInv, SeenIsCounted, EntryCalm
  <2>5. \A k \in Takers : \A w \in taking'[k] : HasEntry' /\ w.id = entry'.id => entry'.inPrint
    BY <2>4 DEF Calm
  <2> QED BY <2>2, <2>3, <2>5 DEF SeenIsCounted
<1>12. OffsFollowPrints'
  <2>1. Offs \in Nat /\ Offs' \in Nat /\ ToCome \in {0, 1} /\ ToCome' \in {0, 1}
        /\ Offs' <= Offs /\ ToCome' <= ToCome
    <3>1. Cardinality(Deciders) \in Nat /\ Cardinality(Deciders)' \in Nat
      <4>1. IsFiniteSet(Polls) /\ Deciders \subseteq Polls /\ Deciders' \subseteq Polls
        BY PlugAssumption, FS_Union DEF Polls, Deciders
      <4> QED BY <4>1, FS_Subset, FS_CardinalityType
    <3> QED BY <3>1 DEF Offs, ToCome, Calm, PlugInv, PlugTypes
  <2>0. /\ Offs + ToCome <= Last
        /\ shown.job # 0 => Offs < shown.job
    BY DEF PlugInv, OffsFollowPrints
  <2>2. /\ Offs' + ToCome' <= Last'
        /\ shown'.job # 0 => Offs' < shown'.job
    <3>1. Last <= Last'
      BY <1>3 DEF Calm
    <3>0. \A a, b, i, j, l, m \in Int : a <= b /\ i <= j /\ b + j <= l /\ l <= m => a + i <= m
      OBVIOUS
    <3>2. Last \in Int /\ Last' \in Int /\ Offs \in Int /\ Offs' \in Int /\ ToCome \in Int /\ ToCome' \in Int
      BY <1>3, <2>1
    <3>3. Offs' + ToCome' <= Last'
      BY <2>0, <2>1, <3>0, <3>1, <3>2
    <3>4. shown'.job # 0 => Offs' < shown'.job
      BY <1>4, <2>0, <2>1
    <3> QED BY <3>3, <3>4
  <2>3. Job' # 0 /\ shown'.job # Job' => Offs' + ToCome' < Job'
    <3>1. CASE Job' = Job
      <4>1. \A a, b, i, j, l \in Int : a <= b /\ i <= j /\ b + j < l => a + i < l
        OBVIOUS
      <4>2. Job \in Int /\ Offs \in Int /\ Offs' \in Int /\ ToCome \in Int /\ ToCome' \in Int
        BY <1>3, <2>1
      <4>3. Job # 0 /\ shown.job # Job => Offs + ToCome < Job
        BY DEF PlugInv, OffsFollowPrints
      <4>4. Job # 0 /\ shown.job # Job => Offs' + ToCome' < Job
        BY <2>1, <4>1, <4>2, <4>3
      <4> QED BY <1>4, <3>1, <4>4
    <3>2. CASE Job' = Last' /\ Last' = Last + 1
      <4>1. \A a, b, i, j, l \in Int : a <= b /\ i <= j /\ b + j <= l => a + i < l + 1
        OBVIOUS
      <4>2. Last \in Int /\ Offs \in Int /\ Offs' \in Int /\ ToCome \in Int /\ ToCome' \in Int
        BY <1>3, <2>1
      <4>3. Offs' + ToCome' < Last + 1
        BY <2>0, <2>1, <4>1, <4>2
      <4> QED BY <3>2, <4>3
    <3> QED BY <3>1, <3>2 DEF Calm
  <2>4. \A r \in half' : r.job # 0 /\ shown'.job # r.job => Offs' + ToCome' < r.job
    BY <1>4, <2>1 DEF PlugInv, OffsFollowPrints
  <2>5. ASSUME NEW p \in Polls, HasLooked(p)'
        PROVE  /\ proc'[p].s.job # 0 => Offs' < proc'[p].s.job
               /\ proc'[p].s.job = 0 /\ shown'.job # 0 => Offs' + ToCome' < shown'.job
    <3>1. HasLooked(p) /\ proc'[p] = proc[p] /\ proc[p].s.job \in Nat
      BY <1>6, <1>7, <2>5
    <3>2. /\ proc[p].s.job # 0 => Offs < proc[p].s.job
          /\ proc[p].s.job = 0 /\ shown.job # 0 => Offs + ToCome < shown.job
      BY <3>1 DEF PlugInv, OffsFollowPrints
    <3> QED BY <1>4, <2>1, <3>1, <3>2
  <2> QED BY <2>2, <2>3, <2>4, <2>5 DEF OffsFollowPrints
<1>13. ProcsFit'
  BY DEF ProcsCalm
<1> QED BY <1>1, <1>2, <1>5, <1>10, <1>11, <1>12, <1>13 DEF PlugInv

(* The polls stay where they are, or one moves on.                           *)
Plain(w) ==
    /\ w.pc \notin {"apply", "recheck"}
    /\ w.pc = "look" => w.r \in Answers
    /\ w.pc \in {"check", "switch", "set"} => w.on \in BOOLEAN

LEMMA ProcsStay ==
    ASSUME ProcsFit, Last \in Nat, Last' \in Nat, Last <= Last', syncs \in Nat, syncs' \in Nat, syncs <= syncs',
           proc' = proc
    PROVE  ProcsCalm
BY DEF ProcsCalm, ProcsFit, ProcFits, Looks

LEMMA ProcsMove ==
    ASSUME ProcsFit, Last \in Nat, Last' \in Nat, Last <= Last', syncs \in Nat, syncs' = syncs,
           NEW p \in Polls, NEW w, Plain(w), Goes(p, w)
    PROVE  ProcsCalm
<1>1. proc' = [q \in Polls |-> proc'[q]] /\ DOMAIN proc' = Polls
      /\ proc'[p] = w /\ \A q \in Polls \ {p} : proc'[q] = proc[q]
  BY DEF Goes, ProcsFit
<1>2. ASSUME NEW q \in Polls PROVE ProcFits(proc[q])'
  <2>1. CASE q = p
    BY <1>1, <2>1 DEF ProcFits, Plain
  <2>2. CASE q # p
    BY <1>1, <2>2 DEF ProcFits, ProcsFit, Looks
  <2> QED BY <2>1, <2>2
<1> QED BY <1>1, <1>2 DEF ProcsCalm, ProcsFit, Plain

LEMMA OffsStay == ASSUME PlugInv, proc' = proc, cuts' = cuts PROVE cuts' \in Nat /\ Offs' <= Offs
<1>1. Cardinality(Deciders) \in Nat
  BY DecidersStay DEF PlugInv
<1>2. Deciders' = Deciders
  BY DEF Deciders
<1> QED BY <1>1, <1>2 DEF Offs, PlugInv, PlugTypes

LEMMA OffsMove ==
    ASSUME PlugInv, NEW p \in Polls, NEW w, Goes(p, w), ~Deciding(w) \/ Deciding(proc[p]),
           cuts' = cuts \/ (cuts' = cuts + 1 /\ Deciding(proc[p]) /\ ~Deciding(w))
    PROVE  cuts' \in Nat /\ Offs' <= Offs
<1>1. /\ Cardinality(Deciders) \in Nat /\ Cardinality(Deciders') \in Nat
      /\ Cardinality(Deciders') <= Cardinality(Deciders)
      /\ Deciding(proc[p]) /\ ~Deciding(w) => Cardinality(Deciders') = Cardinality(Deciders) - 1
  BY DecidersMove DEF PlugInv
<1>2. cuts \in Nat
  BY DEF PlugInv, PlugTypes
<1>3. Offs = cuts + Cardinality(Deciders) /\ Offs' = cuts' + Cardinality(Deciders')
  BY DEF Offs
<1>4. cuts' \in Nat
  BY <1>2
<1>5. CASE cuts' = cuts
  BY <1>1, <1>2, <1>3, <1>5
<1>6. CASE cuts' = cuts + 1 /\ Deciding(proc[p]) /\ ~Deciding(w)
  BY <1>1, <1>2, <1>3, <1>6
<1> QED BY <1>4, <1>5, <1>6

(* A step that leaves the entry and the settings alone, and one that leaves  *)
(* the machine alone.                                                        *)
LEMMA EntryStays == ASSUME PlugInv, entry' = entry, syncs' = syncs PROVE EntryCalm /\ ToCome' <= ToCome
<1>1. ToCome \in {0, 1} /\ ToCome' = ToCome
  BY DEF ToCome
<1> QED BY <1>1 DEF EntryCalm, PlugInv, PlugTypes, HasEntry

LEMMA MachineStays ==
    ASSUME PlugInv, machine' = machine
    PROVE  /\ phase' = phase /\ phase' \in Nat /\ power' \in BOOLEAN /\ Last \in Nat /\ Last' = Last
           /\ Last <= Last' /\ Job' \in {0, Job}
<1>1. Last \in Nat /\ Job \in Nat
  BY JobIsLast DEF PlugInv, PlugTypes
<1>2. phase' = phase /\ power' = power /\ Last' = Last /\ Job' = Job
  BY DEF machine, Last, Job
<1> QED BY <1>1, <1>2 DEF PlugInv, PlugTypes

(* Prints begin and end, the supply and the link come and go.                *)
LEMMA MachineStep == ASSUME PlugInv, Machine PROVE PlugInv'
<1> USE DEF PlugTypes
<1>1. PrintBegins \/ PrintEnds
  BY DEF Machine, PrintBegins, PrintEnds
<1>2. Last \in Nat /\ Job \in Nat /\ phase \in Nat /\ syncs \in Nat
  BY JobIsLast DEF PlugInv
<1>3. /\ phase' \in Nat /\ Last' \in Nat /\ Last <= Last'
      /\ (Job' \in {0, Job} /\ Last' = Last) \/ (Job' = Last' /\ Last' = Last + 1)
  BY <1>1, <1>2, JobMoves
<1>4. shown' \in Pictures /\ shown'.job = shown.job
  BY DEF Machine, PlugInv, Pictures
<1>5. power' \in BOOLEAN
  BY DEF Machine, PlugInv
<1>6. UNCHANGED <<half, sess, toTake, entry, proc, taking, seen, cuts, syncs>>
  BY DEF Machine, ghosts
<1>7. EntryCalm /\ ToCome' <= ToCome
  BY <1>6, EntryStays
<1>8. ProcsCalm
  BY <1>2, <1>3, <1>6, ProcsStay DEF PlugInv
<1>9. cuts' \in Nat /\ Offs' <= Offs
  BY <1>6, OffsStay
<1>10. Calm
  BY <1>2, <1>3, <1>4, <1>5, <1>6, <1>7, <1>9 DEF Calm
<1> QED BY <1>7, <1>8, <1>10, CalmStep

(* The entry on its own: the delay passes, it ages, the settings change.     *)
LEMMA EntryStep ==
    ASSUME PlugInv, DelayPasses \/ StateAges \/ \E c \in Cfgs \cup {NoCfg} : Sync(c)
    PROVE  PlugInv'
<1>1. UNCHANGED <<machine, reports, proc, taking, ghosts>>
  BY DEF DelayPasses, StateAges, Sync
<1>2. UNCHANGED <<shown, half, sess, toTake, proc, taking, seen, cuts>> /\ machine' = machine
  BY <1>1 DEF reports, ghosts
<1>3. /\ phase' = phase /\ phase' \in Nat /\ power' \in BOOLEAN /\ Last \in Nat /\ Last' = Last
      /\ Last <= Last' /\ Job' \in {0, Job}
  BY <1>2, MachineStays
<1>4. entry \in Entries /\ entry.id <= syncs /\ syncs \in Nat
  BY DEF PlugInv, PlugTypes
<1>5. syncs' \in Nat /\ syncs <= syncs' /\ EntryCalm /\ ToCome' <= ToCome
  <2>1. CASE DelayPasses
    <3>1. entry' = [entry EXCEPT !.pending = "due"] /\ syncs' = syncs /\ entry.pending = "wait"
      BY <2>1 DEF DelayPasses
    <3>2. ToCome = 1 /\ ToCome' = 1
      BY <1>4, <3>1 DEF ToCome, Entries
    <3>3. EntryCalm
      BY <1>4, <3>1 DEF EntryCalm, Entries, HasEntry
    <3> QED BY <1>4, <3>1, <3>2, <3>3
  <2>2. CASE StateAges
    <3>1. entry' = [entry EXCEPT !.fresh = FALSE] /\ syncs' = syncs
      BY <2>2 DEF StateAges
    <3>2. ToCome' = ToCome /\ ToCome \in {0, 1}
      BY <1>4, <3>1 DEF ToCome, Entries
    <3>3. EntryCalm
      BY <1>4, <3>1 DEF EntryCalm, Entries, HasEntry
    <3> QED BY <1>4, <3>1, <3>2, <3>3
  <2>3. ASSUME NEW c \in Cfgs \cup {NoCfg}, Sync(c)
        PROVE  syncs' \in Nat /\ syncs <= syncs' /\ EntryCalm /\ ToCome' <= ToCome
    <3>1. syncs' = syncs + 1 /\ syncs' \in Nat
      BY <1>4, <2>3 DEF Sync
    <3>2. CASE c = NoCfg
      <4>1. entry' = Fresh(NoCfg, 0)
        BY <2>3, <3>2 DEF Sync
      <4>2. entry' \in Entries /\ entry'.id <= syncs' /\ ~HasEntry' /\ ToCome' = 0
        BY <3>1, <4>1 DEF Fresh, Entries, HasEntry, ToCome
      <4> QED BY <1>4, <3>1, <4>2 DEF EntryCalm, ToCome
    <3>3. CASE c # NoCfg /\ HasEntry /\ entry.cfg.addr = c.addr
      <4>1. entry' = [entry EXCEPT !.cfg = c]
        BY <2>3, <3>3 DEF Sync
      <4>2. /\ entry' \in Entries /\ entry'.id = entry.id /\ entry'.inPrint = entry.inPrint
            /\ entry'.known = entry.known /\ entry'.pending = entry.pending
        BY <1>4, <4>1 DEF Entries
      <4>3. ToCome' = ToCome /\ ToCome \in {0, 1}
        BY <4>2 DEF ToCome
      <4>4. entry'.id <= syncs' /\ entry.id \in Nat
        BY <1>4, <3>1, <4>2 DEF Entries
      <4> QED BY <1>4, <3>1, <3>3, <4>2, <4>3, <4>4 DEF EntryCalm
    <3>4. CASE c # NoCfg /\ ~(HasEntry /\ entry.cfg.addr = c.addr)
      <4>1. entry' = Fresh(c, syncs')
        BY <2>3, <3>4 DEF Sync
      <4>2. /\ entry' \in Entries /\ entry'.id = syncs' /\ ~entry'.inPrint
            /\ ~entry'.known /\ entry'.pending = "no"
        BY <3>1, <4>1 DEF Entries, Fresh
      <4> QED BY <1>4, <3>1, <4>2 DEF EntryCalm, ToCome
    <3> QED BY <3>2, <3>3, <3>4
  <2> QED BY <2>1, <2>2, <2>3
<1>6. ProcsCalm
  BY <1>2, <1>3, <1>4, <1>5, ProcsStay DEF PlugInv
<1>7. cuts' \in Nat /\ Offs' <= Offs
  BY <1>2, OffsStay
<1>8. shown' \in Pictures /\ shown'.job = shown.job
  BY <1>2 DEF PlugInv, PlugTypes
<1>9. Calm
  BY <1>2, <1>3, <1>5, <1>7, <1>8 DEF Calm
<1> QED BY <1>5, <1>6, <1>9, CalmStep

(* A poll or a Set moves on.                                                 *)
LEMMA MovesOn ==
    ASSUME PlugInv, NEW p \in Polls, NEW w, Plain(w), Goes(p, w), ~Deciding(w) \/ Deciding(proc[p]),
           UNCHANGED <<reports, taking, syncs, seen>>, EntryCalm, ToCome' <= ToCome,
           cuts' = cuts \/ (cuts' = cuts + 1 /\ Deciding(proc[p]) /\ ~Deciding(w)),
           power' \in BOOLEAN, PrintEnds
    PROVE  PlugInv'
<1>1. phase \in Nat /\ Last \in Nat /\ Job \in Nat /\ syncs \in Nat
  BY JobIsLast DEF PlugInv, PlugTypes
<1>2. phase' \in Nat /\ Last' = Last /\ Last <= Last' /\ Job' \in {0, Job}
  BY <1>1, JobMoves
<1>3. ProcsCalm
  BY <1>1, <1>2, ProcsMove DEF PlugInv
<1>4. cuts' \in Nat /\ Offs' <= Offs
  BY OffsMove
<1>5. UNCHANGED <<shown, half, sess, toTake>> /\ shown' \in Pictures /\ syncs <= syncs' /\ syncs' \in Nat
  BY <1>1 DEF reports, PlugInv, PlugTypes
<1>6. Calm
  BY <1>2, <1>4, <1>5 DEF Calm
<1> QED BY <1>3, <1>6, CalmStep

(* Steps of a poll, and of a Set, that learn nothing new of the printer.     *)
LEMMA PollMoves ==
    ASSUME PlugInv, NEW p \in Polls, PollReads(p) \/ PollRechecks(p) \/ PollAsks(p) \/ PollCuts(p) \/ PollNotes(p)
    PROVE  PlugInv'
<1> USE DEF Plain, Deciding, AtRest
<1>0. ASSUME UNCHANGED machine PROVE power' \in BOOLEAN /\ PrintEnds
  BY <1>0, MachineStays DEF PrintEnds
<1>1. CASE PollReads(p)
  <2>1. PICK w : /\ Goes(p, w)
                 /\ w = AtRest \/ \E r \in Readings : w = [pc |-> "look", cfg |-> entry.cfg, r |-> r]
    BY <1>1 DEF PollReads
  <2>2. Plain(w) /\ ~Deciding(w)
    <3>1. \A r \in Readings : r \in Answers
      <4>1. \A a, b \in BOOLEAN : [ok |-> a, on |-> b] \in Answers
        BY DEF Answers
      <4>2. power \in BOOLEAN
        BY DEF PlugInv, PlugTypes
      <4> QED BY <4>1, <4>2, Zenon DEF Readings
    <3>2. ASSUME NEW r \in Readings, w = [pc |-> "look", cfg |-> entry.cfg, r |-> r] PROVE Plain(w) /\ ~Deciding(w)
      BY <3>1, <3>2
    <3> QED BY <2>1, <3>2
  <2>3. UNCHANGED <<machine, reports, taking, syncs, seen, cuts, entry>>
    BY <1>1 DEF PollReads, Keeps, ghosts
  <2> QED BY <1>0, <2>1, <2>2, <2>3, EntryStays, MovesOn
<1>2. CASE PollRechecks(p)
  <2>1. PICK w : Goes(p, w) /\ w \in {AtRest, [pc |-> "ask"]}
    BY <1>2 DEF PollRechecks
  <2>2. Plain(w) /\ Deciding(proc[p])
    BY <1>2, <2>1 DEF PollRechecks
  <2>3. UNCHANGED <<machine, reports, taking, syncs, seen, cuts, entry>>
    BY <1>2 DEF PollRechecks, Keeps, ghosts
  <2> QED BY <1>0, <2>1, <2>2, <2>3, EntryStays, MovesOn
<1>3. CASE PollAsks(p)
  <2>1. PICK w : Goes(p, w) /\ w \in {AtRest, [pc |-> "cut"]}
    BY <1>3 DEF PollAsks
  <2>2. Plain(w) /\ Deciding(proc[p])
    BY <1>3, <2>1 DEF PollAsks
  <2>3. UNCHANGED <<machine, reports, taking, syncs, seen, cuts, entry>>
    BY <1>3 DEF PollAsks, Keeps, ghosts
  <2> QED BY <1>0, <2>1, <2>2, <2>3, EntryStays, MovesOn
<1>4. CASE PollCuts(p)
  <2>1. PICK w : /\ Goes(p, w)
                 /\ \/ power' = FALSE /\ phase' = AfterOff /\ cuts' = cuts + 1 /\ w = [pc |-> "note"]
                    \/ UNCHANGED <<power, phase, cuts>> /\ w = AtRest
    BY <1>4 DEF PollCuts
  <2>2. Plain(w) /\ Deciding(proc[p]) /\ ~Deciding(w)
    BY <1>4, <2>1 DEF PollCuts
  <2>3. UNCHANGED <<reports, taking, syncs, seen, entry>>
    BY <1>4 DEF PollCuts
  <2>4. power' \in BOOLEAN /\ PrintEnds /\ (cuts' = cuts \/ cuts' = cuts + 1)
    BY <2>1 DEF PrintEnds, PlugInv, PlugTypes
  <2> QED BY <2>1, <2>2, <2>3, <2>4, EntryStays, MovesOn
<1>5. CASE PollNotes(p)
  <2>1. Goes(p, AtRest) /\ Plain(AtRest) /\ ~Deciding(AtRest)
    BY <1>5 DEF PollNotes
  <2>2. UNCHANGED <<machine, reports, taking, syncs, seen, cuts>>
    BY <1>5 DEF PollNotes, Keeps, ghosts
  <2>3. entry \in Entries /\ entry.id <= syncs
    BY DEF PlugInv, PlugTypes
  <2>4. /\ entry' \in Entries /\ entry'.id = entry.id /\ entry'.inPrint = entry.inPrint
        /\ entry'.known = entry.known /\ entry'.pending = entry.pending /\ entry'.cfg = entry.cfg
    BY <1>5, <2>3 DEF PollNotes, Entries
  <2>5. EntryCalm
    BY <2>2, <2>3, <2>4 DEF EntryCalm, HasEntry
  <2>6. ToCome' <= ToCome
    BY <2>4 DEF ToCome
  <2> QED BY <1>0, <2>1, <2>2, <2>5, <2>6, MovesOn
<1> QED BY <1>1, <1>2, <1>3, <1>4, <1>5

LEMMA SetMoves ==
    ASSUME PlugInv, NEW h \in Hands,
           SetBegins(h, TRUE) \/ SetBegins(h, FALSE) \/ SetChecks(h) \/ SetSwitches(h) \/ SetNotes(h)
    PROVE  PlugInv'
<1> USE DEF Plain, Deciding, AtRest
<1>0. ASSUME UNCHANGED machine PROVE power' \in BOOLEAN /\ PrintEnds
  BY <1>0, MachineStays DEF PrintEnds
<1>h. h \in Polls
  BY DEF Polls
<1>1. ASSUME NEW on \in BOOLEAN, SetBegins(h, on) PROVE PlugInv'
  <2>1. PICK w : Goes(h, w) /\ w \in {[pc |-> "switch", on |-> on], [pc |-> "check", on |-> on]}
    BY <1>1 DEF SetBegins
  <2>2. Plain(w) /\ ~Deciding(w)
    <3>1. w.on = on /\ w.pc \in {"switch", "check"}
      BY <2>1
    <3> QED BY <3>1
  <2>3. UNCHANGED <<machine, reports, taking, syncs, seen, cuts, entry>>
    BY <1>1 DEF SetBegins, Keeps, ghosts
  <2> QED BY <1>0, <1>h, <2>1, <2>2, <2>3, EntryStays, MovesOn
<1>2. CASE SetChecks(h)
  <2>1. PICK w : Goes(h, w) /\ w \in {AtRest, [pc |-> "switch", on |-> FALSE]}
    BY <1>2 DEF SetChecks
  <2>2. Plain(w) /\ ~Deciding(w)
    <3>1. CASE w = AtRest
      BY <3>1
    <3>2. CASE w = [pc |-> "switch", on |-> FALSE]
      <4>1. w.on = FALSE /\ w.pc = "switch"
        BY <3>2
      <4> QED BY <4>1
    <3> QED BY <2>1, <3>1, <3>2
  <2>3. UNCHANGED <<machine, reports, taking, syncs, seen, cuts, entry>>
    BY <1>2 DEF SetChecks, Keeps, ghosts
  <2> QED BY <1>0, <1>h, <2>1, <2>2, <2>3, EntryStays, MovesOn
<1>3. CASE SetSwitches(h)
  <2>1. PICK w : /\ Goes(h, w) /\ w \in {AtRest, [pc |-> "set", on |-> proc[h].on]}
                 /\ \/ power' = proc[h].on /\ phase' \in {phase, AfterOff}
                    \/ UNCHANGED <<power, phase>>
    BY <1>3 DEF SetSwitches
  <2>2. proc[h].on \in BOOLEAN
    BY <1>3, <1>h DEF SetSwitches, PlugInv, ProcsFit, ProcFits
  <2>3. Plain(w) /\ ~Deciding(w)
    BY <2>1, <2>2
  <2>4. UNCHANGED <<reports, taking, syncs, seen, cuts, entry>>
    BY <1>3 DEF SetSwitches, ghosts
  <2>5. power' \in BOOLEAN /\ PrintEnds
    BY <2>1, <2>2 DEF PrintEnds, PlugInv, PlugTypes
  <2> QED BY <1>h, <2>1, <2>3, <2>4, <2>5, EntryStays, MovesOn
<1>4. CASE SetNotes(h)
  <2>1. Goes(h, [pc |-> "poll"]) /\ Plain([pc |-> "poll"]) /\ ~Deciding([pc |-> "poll"])
    BY <1>4 DEF SetNotes
  <2>2. UNCHANGED <<machine, reports, taking, syncs, seen, cuts>> /\ proc[h].on \in BOOLEAN
    BY <1>4, <1>h DEF SetNotes, Keeps, ghosts, PlugInv, ProcsFit, ProcFits
  <2>3. entry \in Entries /\ entry.id <= syncs
    BY DEF PlugInv, PlugTypes
  <2>4. /\ entry' \in Entries /\ entry'.id = entry.id /\ entry'.inPrint = entry.inPrint
        /\ entry'.known = entry.known /\ entry'.pending \in {"no", entry.pending} /\ entry'.cfg = entry.cfg
    BY <1>4, <2>2, <2>3 DEF SetNotes, Entries
  <2>5. EntryCalm
    BY <2>2, <2>3, <2>4 DEF EntryCalm, HasEntry
  <2>6. ToCome' <= ToCome
    BY <2>4 DEF ToCome
  <2> QED BY <1>0, <1>h, <2>1, <2>2, <2>5, <2>6, MovesOn
<1> QED BY <1>1, <1>2, <1>3, <1>4

(* Steps that learn something leave the machine alone.                       *)
LEMMA JobStays ==
    ASSUME PlugInv, phase' = phase
    PROVE  /\ Job' = Job /\ Last' = Last /\ Job \in Nat /\ Last \in Nat /\ Job <= Last
           /\ Job # 0 => Job = Last
<1>1. Last \in Nat /\ Job \in Nat /\ (Job # 0 => Job = Last)
  BY JobIsLast DEF PlugInv, PlugTypes
<1> QED BY <1>1 DEF Job, Last

LEMMA Numbers ==
    ASSUME PlugInv
    PROVE  /\ Offs \in Nat /\ ToCome \in {0, 1} /\ shown.job \in Nat /\ \A r \in half : r.job \in Nat
           /\ \A p \in Polls : HasLooked(p) => proc[p].s.job \in Nat /\ proc[p].s.job <= Last
<1>1. Cardinality(Deciders) \in Nat
  BY DecidersStay DEF PlugInv
<1>2. Offs \in Nat /\ ToCome \in {0, 1}
  BY <1>1 DEF PlugInv, PlugTypes, Offs, ToCome
<1> QED BY <1>2 DEF PlugInv, PlugTypes, Pictures, HasLooked, ProcsFit, ProcFits, Looks

(* A report comes.                                                           *)
LEMMA ReportComes == ASSUME PlugInv, ReportArrives PROVE PlugInv'
<1>0. /\ UNCHANGED <<phase, power, entry, proc, taking, seen, cuts, syncs>> /\ half = {}
      /\ HasEntry' = HasEntry /\ (\A p \in Polls : HasLooked(p)' = HasLooked(p))
      /\ Offs' = Offs /\ ToCome' = ToCome
  BY DEF ReportArrives, machine, ghosts, HasEntry, HasLooked, Offs, ToCome, Deciders
<1>1. /\ Job' = Job /\ Last' = Last /\ Job \in Nat /\ Last \in Nat /\ Job <= Last
      /\ Job # 0 => Job = Last
  BY <1>0, JobStays
<1>2. PICK r \in Reports : /\ half' = {r}
                           /\ IF StoreFirst THEN shown' = r /\ UNCHANGED <<sess, toTake>>
                                            ELSE SessionStep(Job) /\ UNCHANGED shown
  BY DEF ReportArrives
<1>3. r \in Pictures /\ r.job = Job
  <2>1. PICK k \in {TRUE, Job # 0}, h \in BOOLEAN : r = [known |-> k, job |-> Job, hot |-> h]
    BY DEF Reports
  <2>2. k \in BOOLEAN
    BY Zenon
  <2> QED BY <1>1, <2>1, <2>2 DEF Pictures
<1>4. /\ Offs \in Nat /\ ToCome \in {0, 1} /\ shown.job \in Nat
      /\ \A p \in Polls : HasLooked(p) => proc[p].s.job \in Nat /\ proc[p].s.job <= Last
  BY Numbers
<1>5. /\ shown' \in {shown, r} /\ sess' \in {sess, Job}
      /\ StoreFirst => shown' = r /\ sess' = sess
      /\ ~StoreFirst => shown' = shown /\ sess' = Job
      /\ toTake' = toTake \/ (~StoreFirst /\ sess \notin {0, Job} /\ toTake' = {sess} /\ NoneTaken)
  BY <1>2 DEF SessionStep, NoneTaken
<1>6. PlugTypes'
  BY <1>0, <1>1, <1>2, <1>3, <1>5 DEF PlugInv, PlugTypes
<1>7. ProcsFit'
  BY <1>0, <1>1 DEF PlugInv, ProcsFit, ProcFits
<1>8. OneAtATime'
  BY <1>0, <1>2, <1>5 DEF PlugInv, OneAtATime, NoneTaken
<1>9. Past'
  BY <1>0, <1>1, <1>2, <1>3, <1>5 DEF PlugInv, Past
<1>10. KnownIsStored'
  <2>1. ~StoreFirst => (Known' => Known)
    BY <1>0, <1>1, <1>5 DEF Known
  <2>2. Known' => shown'.job = Job'
    BY <1>1, <1>3, <1>5, <2>1 DEF PlugInv, KnownIsStored
  <2>3. half' # {} /\ \A q \in half' : q.job = Job'
    BY <1>1, <1>2, <1>3
  <2> QED BY <1>1, <1>5, <2>2, <2>3 DEF KnownIsStored
<1>11. SeenIsCounted'
  <2>1. SeenRuns' = SeenRuns /\ (SeenRuns => Job # 0)
    BY <1>0, <1>1 DEF SeenRuns
  <2>2. SeenRuns' => sess' = Job' /\ NoneTaken'
    BY <1>0, <1>1, <1>5, <2>1 DEF PlugInv, SeenIsCounted, NoneTaken
  <2> QED BY <1>0, <2>1, <2>2 DEF PlugInv, SeenIsCounted
<1>12. OffsFollowPrints'
  <2> USE DEF OffsFollowPrints, PlugInv
  <2>1. Job # 0 => Offs < Job \/ shown.job # Job
    BY <1>1, <1>4
  <2>2. Job # 0 /\ shown.job # Job => Offs + ToCome < Job /\ Offs < Job
    BY <1>1, <1>4
  <2>3. shown'.job # 0 => Offs < shown'.job
    BY <1>3, <1>5, <2>1, <2>2
  <2>4. Job # 0 /\ shown'.job # Job => Offs + ToCome < Job
    BY <1>3, <1>5, <2>2
  <2>5. \A q \in half' : q.job # 0 /\ shown'.job # q.job => Offs + ToCome < q.job
    BY <1>2, <1>3, <1>5, <2>2
  <2>6. ASSUME NEW p \in Polls, HasLooked(p)
        PROVE  /\ proc[p].s.job # 0 => Offs < proc[p].s.job
               /\ proc[p].s.job = 0 /\ shown'.job # 0 => Offs + ToCome < shown'.job
    BY <1>3, <1>5, <2>2, <2>6
  <2> QED BY <1>0, <1>1, <2>3, <2>4, <2>5, <2>6
<1> QED BY <1>6, <1>7, <1>8, <1>9, <1>10, <1>11, <1>12 DEF PlugInv

(* A report has been taken in.                                               *)
LEMMA ReportTakenIn == ASSUME PlugInv, ReportEnds PROVE PlugInv'
<1>0. /\ UNCHANGED <<phase, power, entry, proc, taking, seen, cuts, syncs>> /\ half' = {}
      /\ HasEntry' = HasEntry /\ (\A p \in Polls : HasLooked(p)' = HasLooked(p))
      /\ Offs' = Offs /\ ToCome' = ToCome
  BY DEF ReportEnds, machine, ghosts, HasEntry, HasLooked, Offs, ToCome, Deciders
<1>1. /\ Job' = Job /\ Last' = Last /\ Job \in Nat /\ Last \in Nat /\ Job <= Last
      /\ Job # 0 => Job = Last
  BY <1>0, JobStays
<1>2. PICK r \in half : IF StoreFirst THEN SessionStep(r.job) /\ UNCHANGED shown
                                      ELSE shown' = r /\ UNCHANGED <<sess, toTake>>
  BY DEF ReportEnds
<1>3. r \in Pictures /\ r.job \in Nat /\ r.job <= Last
  BY DEF PlugInv, PlugTypes, Pictures, Past
<1>4. /\ Offs \in Nat /\ ToCome \in {0, 1} /\ shown.job \in Nat
      /\ \A p \in Polls : HasLooked(p) => proc[p].s.job \in Nat /\ proc[p].s.job <= Last
  BY Numbers
<1>5. /\ StoreFirst => shown' = shown /\ sess' = r.job
      /\ ~StoreFirst => shown' = r /\ sess' = sess /\ sess = r.job
      /\ toTake' = toTake \/ (StoreFirst /\ sess \notin {0, r.job} /\ toTake' = {sess} /\ NoneTaken)
  BY <1>2 DEF SessionStep, NoneTaken, PlugInv, KnownIsStored
<1>6. PlugTypes'
  BY <1>0, <1>3, <1>5 DEF PlugInv, PlugTypes
<1>7. ProcsFit'
  BY <1>0, <1>1 DEF PlugInv, ProcsFit, ProcFits
<1>8. OneAtATime'
  BY <1>0, <1>5 DEF PlugInv, OneAtATime, NoneTaken
<1>9. Past'
  BY <1>0, <1>1, <1>3, <1>5 DEF PlugInv, Past
<1>10. Known => r.job = Job /\ shown.job = Job
  BY DEF PlugInv, KnownIsStored
<1>11. KnownIsStored'
  <2>1. Known' => Known \/ (r.job = Job /\ ~StoreFirst)
    BY <1>0, <1>1, <1>5 DEF Known
  <2>2. Known' => shown'.job = Job' /\ sess' = Job'
    BY <1>1, <1>5, <1>10, <2>1
  <2> QED BY <1>0, <2>2 DEF KnownIsStored
<1>12. SeenIsCounted'
  <2>1. SeenRuns' = SeenRuns /\ (SeenRuns => Known)
    BY <1>0, <1>1 DEF SeenRuns, Known
  <2>2. SeenRuns' => sess' = Job' /\ NoneTaken'
    BY <1>0, <1>1, <1>5, <1>10, <2>1 DEF PlugInv, SeenIsCounted, NoneTaken
  <2> QED BY <1>0, <2>1, <2>2 DEF PlugInv, SeenIsCounted
<1>13. OffsFollowPrints'
  <2> USE DEF OffsFollowPrints, PlugInv
  <2>1. r.job # 0 /\ shown.job # r.job => Offs + ToCome < r.job /\ Offs < r.job
    BY <1>3, <1>4
  <2>2. shown'.job # 0 => Offs < shown'.job
    BY <1>5, <2>1
  <2>3. Job # 0 /\ shown'.job # Job => shown.job # Job
    BY <1>5, <1>10 DEF Known
  <2>4. \A p \in Polls : HasLooked(p) =>
          /\ proc[p].s.job # 0 => Offs < proc[p].s.job
          /\ proc[p].s.job = 0 /\ shown'.job # 0 => Offs + ToCome < shown'.job
    BY <1>5, <2>1
  <2> QED BY <1>0, <1>1, <2>2, <2>3, <2>4
<1> QED BY <1>6, <1>7, <1>8, <1>9, <1>11, <1>12, <1>13 DEF PlugInv

(* A poll looks at the printer.                                              *)
LEMMA LookStep == ASSUME PlugInv, ~SlowLook, NEW p \in Polls, PollLooks(p) PROVE PlugInv'
<1> DEFINE w == [pc |-> "apply", cfg |-> proc[p].cfg, r |-> proc[p].r, s |-> Status]
<1>0. /\ proc[p].pc = "look" /\ Goes(p, w) /\ \A q \in Polls : proc[q].pc # "apply"
      /\ UNCHANGED <<phase, power, shown, half, sess, toTake, entry, taking, seen, cuts, syncs>>
      /\ HasEntry' = HasEntry /\ ToCome' = ToCome
  BY DEF PollLooks, Keeps, machine, reports, ghosts, HasEntry, ToCome
<1>1. Job' = Job /\ Last' = Last /\ Job \in Nat /\ Last \in Nat
  BY <1>0, JobStays
<1>2. /\ proc' = [q \in Polls |-> proc'[q]] /\ DOMAIN proc' = Polls
      /\ proc'[p] = w /\ \A q \in Polls \ {p} : proc'[q] = proc[q]
  BY <1>0 DEF Goes, PlugInv, ProcsFit
<1>3. /\ Status \in Looks /\ (Status.ok => (Status.busy <=> Status.job # 0))
      /\ Status.job \in {0, shown.job} /\ (Status.ok => Status.job = shown.job)
  <2>1. shown.known \in BOOLEAN /\ shown.hot \in BOOLEAN /\ shown.job \in Nat
    BY DEF PlugInv, PlugTypes, Pictures
  <2>2. CASE shown.known
    BY <2>1, <2>2 DEF Status, Looks
  <2>3. CASE ~shown.known
    BY <2>1, <2>3 DEF Status, Looks
  <2> QED BY <2>2, <2>3
<1>4. /\ w.pc = "apply" /\ w.s = Status /\ w.r = proc[p].r /\ proc[p].r \in Answers
  BY <1>0 DEF PlugInv, ProcsFit, ProcFits
<1> HIDE DEF w
<1>5. Offs' = Offs
  <2>1. Deciders' = Deciders
    BY <1>0, <1>2, <1>4 DEF Deciders
  <2> QED BY <1>0, <2>1 DEF Offs
<1>6. /\ Offs \in Nat /\ ToCome \in {0, 1} /\ shown.job \in Nat /\ \A r \in half : r.job \in Nat
  BY Numbers
<1>7. PlugTypes'
  BY <1>0 DEF PlugInv, PlugTypes
<1>8. ProcsFit'
  <2>1. ASSUME NEW q \in Polls PROVE ProcFits(proc[q])'
    <3>1. CASE q = p
      <4>1. Status.job <= Last
        BY <1>1, <1>3, <1>6 DEF PlugInv, Past
      <4> QED BY <1>1, <1>2, <1>3, <1>4, <3>1, <4>1 DEF ProcFits
    <3>2. CASE q # p
      BY <1>0, <1>1, <1>2, <3>2 DEF ProcFits, PlugInv, ProcsFit
    <3> QED BY <3>1, <3>2
  <2> QED BY <1>2, <2>1 DEF ProcsFit
<1>9. OneAtATime'
  BY <1>0, <1>2 DEF PlugInv, OneAtATime
<1>10. Past'
  BY <1>0, <1>1 DEF PlugInv, Past
<1>11. \A q \in Polls : HasLooked(q)' => q = p /\ Status.ok /\ proc'[q].s.job = shown.job
  BY <1>0, <1>2, <1>3, <1>4 DEF HasLooked
<1>12. KnownIsStored'
  <2>1. Known' => Known
    BY <1>0, <1>1, <1>11 DEF Known
  <2> QED BY <1>0, <1>1, <2>1 DEF PlugInv, KnownIsStored
<1>13. SeenIsCounted'
  <2>1. \A q \in Polls : proc'[q].pc = "recheck" => proc'[q] = proc[q]
    BY <1>2, <1>4
  <2>2. SeenRuns' = SeenRuns /\ NoneTaken' = NoneTaken
    BY <1>0, <1>1 DEF SeenRuns, NoneTaken
  <2> QED BY <1>0, <1>1, <2>1, <2>2 DEF PlugInv, SeenIsCounted
<1>14. OffsFollowPrints'
  <2>1. \A q \in Polls : HasLooked(q)' =>
          /\ proc'[q].s.job # 0 => Offs' < proc'[q].s.job
          /\ proc'[q].s.job = 0 /\ shown'.job # 0 => Offs' + ToCome' < shown'.job
    BY <1>0, <1>5, <1>11 DEF PlugInv, OffsFollowPrints
  <2> QED BY <1>0, <1>1, <1>5, <2>1 DEF PlugInv, OffsFollowPrints
<1> QED BY <1>7, <1>8, <1>9, <1>10, <1>12, <1>13, <1>14 DEF PlugInv

(* PrintEnergy begins and ends.                                              *)
LEMMA TakeStep == ASSUME PlugInv, NEW k \in Takers, TakeBegins(k) \/ TakeEnds(k) PROVE PlugInv'
<1>0. /\ UNCHANGED <<phase, power, shown, half, sess, proc, seen, cuts, syncs>>
      /\ (\A p \in Polls : HasLooked(p)' = HasLooked(p)) /\ Offs' = Offs
  BY DEF TakeBegins, TakeEnds, reports, machine, ghosts, HasLooked, Offs, Deciders
<1>1. Job' = Job /\ Last' = Last /\ Job \in Nat /\ Last \in Nat
  BY <1>0, JobStays
<1>2. entry \in Entries /\ entry.id \in Nat /\ entry.id <= syncs /\ taking \in [Takers -> SUBSET [id : Nat, r : Answers]]
  BY DEF PlugInv, PlugTypes, Entries
<1>3. ~SeenRuns
  BY DEF TakeBegins, TakeEnds, PlugInv, SeenIsCounted, NoneTaken
<1>4. /\ taking' \in [Takers -> SUBSET [id : Nat, r : Answers]]
      /\ (\A j \in Takers : \A w \in taking'[j] : w.id <= syncs')
      /\ \A j \in Takers : j # k => taking'[j] = taking[j]
  <2>1. CASE TakeBegins(k)
    <3>1. \A a, b \in BOOLEAN : [ok |-> a, on |-> b] \in Answers
      BY DEF Answers
    <3>2. power \in BOOLEAN
      BY DEF PlugInv, PlugTypes
    <3>3. Readings \subseteq Answers
      BY <3>1, <3>2, Zenon DEF Readings
    <3>4. {[id |-> entry.id, r |-> r] : r \in Readings} \in SUBSET [id : Nat, r : Answers]
      BY <1>2, <3>3
    <3>5. \A w \in {[id |-> entry.id, r |-> r] : r \in Readings} : w.id <= syncs
      BY <1>2
    <3> QED BY <1>0, <1>2, <2>1, <3>4, <3>5 DEF TakeBegins, PlugInv, PlugTypes
  <2>2. CASE TakeEnds(k)
    BY <1>0, <1>2, <2>2 DEF TakeEnds, PlugInv, PlugTypes
  <2> QED BY <2>1, <2>2
<1>5. /\ entry' \in Entries /\ entry'.id = entry.id /\ HasEntry' = HasEntry /\ ToCome' <= ToCome
      /\ ToCome' \in {0, 1}
  <2>1. CASE TakeBegins(k)
    BY <1>2, <2>1 DEF TakeBegins, HasEntry, ToCome
  <2>2. CASE TakeEnds(k)
    <3>1. PICK w \in taking[k] :
             entry' = IF HasEntry /\ entry.id = w.id
                      THEN EndPrint(IF w.r.ok THEN ApplyReading(entry, w.r) ELSE entry) ELSE entry
      BY <2>2 DEF TakeEnds
    <3>2. w.r \in Answers
      BY <1>2
    <3>3. CASE HasEntry /\ entry.id = w.id
      <4>1. entry.inPrint
        BY <3>3 DEF PlugInv, SeenIsCounted
      <4>2. PICK e \in Entries : e.id = entry.id /\ e.cfg = entry.cfg /\ entry' = EndPrint(e)
        <5>1. CASE w.r.ok
          <6>1. ApplyReading(entry, w.r) \in Entries /\ ApplyReading(entry, w.r).id = entry.id
                /\ ApplyReading(entry, w.r).cfg = entry.cfg
            BY <1>2, <3>2 DEF ApplyReading, Entries, Answers
          <6> QED BY <3>1, <3>3, <5>1, <6>1
        <5>2. CASE ~w.r.ok
          BY <1>2, <3>1, <3>3, <5>2
        <5> QED BY <5>1, <5>2
      <4>3. entry' \in Entries /\ entry'.id = entry.id /\ entry'.cfg = entry.cfg
        BY <4>2 DEF EndPrint, Entries
      <4>4. ToCome = 1 /\ ToCome' \in {0, 1}
        BY <4>1 DEF ToCome
      <4> QED BY <4>3, <4>4 DEF HasEntry
    <3>4. CASE ~(HasEntry /\ entry.id = w.id)
      <4>1. entry' = entry
        BY <3>1, <3>4
      <4> QED BY <1>2, <4>1 DEF HasEntry, ToCome
    <3> QED BY <3>3, <3>4
  <2> QED BY <2>1, <2>2
<1>6. PlugTypes'
  BY <1>0, <1>2, <1>4, <1>5 DEF PlugInv, PlugTypes
<1>7. ProcsFit' /\ Past' /\ KnownIsStored'
  <2>1. Known' = Known
    BY <1>0, <1>1 DEF Known
  <2> QED BY <1>0, <1>1, <2>1 DEF PlugInv, ProcsFit, ProcFits, Past, KnownIsStored
<1>8. OneAtATime'
  <2>1. CASE TakeBegins(k)
    BY <1>0, <1>4, <2>1 DEF TakeBegins, PlugInv, OneAtATime
  <2>2. CASE TakeEnds(k)
    <3>1. taking'[k] = {} /\ toTake' = toTake
      BY <1>2, <2>2 DEF TakeEnds, reports
    <3> QED BY <1>0, <1>4, <3>1 DEF PlugInv, OneAtATime
  <2> QED BY <2>1, <2>2
<1>9. SeenIsCounted'
  <2>1. ~SeenRuns'
    BY <1>0, <1>1, <1>3 DEF SeenRuns
  <2>2. CASE TakeBegins(k)
    <3>1. entry' = entry /\ \A w \in taking'[k] : w \in taking[k] \/ entry.inPrint
      BY <1>2, <2>2 DEF TakeBegins
    <3> QED BY <1>4, <1>5, <2>1, <3>1 DEF PlugInv, SeenIsCounted
  <2>3. CASE TakeEnds(k)
    <3>1. taking'[k] = {} /\ taking[k] # {}
      BY <1>2, <2>3 DEF TakeEnds
    <3>2. \A j \in Takers : taking'[j] = {}
      BY <1>4, <3>1 DEF PlugInv, OneAtATime
    <3> QED BY <2>1, <3>2 DEF SeenIsCounted
  <2> QED BY <2>2, <2>3
<1>10. OffsFollowPrints'
  <2>1. /\ Offs \in Nat /\ ToCome \in {0, 1} /\ shown.job \in Nat /\ \A r \in half : r.job \in Nat
    BY Numbers
  <2>2. \A n \in Nat : (Offs + ToCome <= n => Offs + ToCome' <= n) /\ (Offs + ToCome < n => Offs + ToCome' < n)
    BY <1>5, <2>1
  <2> QED BY <1>0, <1>1, <2>1, <2>2 DEF PlugInv, OffsFollowPrints
<1> QED BY <1>6, <1>7, <1>8, <1>9, <1>10 DEF PlugInv

(* What an entry becomes of a look: in print as long as the look was busy;   *)
(* it begins to wait only when a print ended, and what was due is over.      *)
LEMMA AnswerApplied ==
    ASSUME NEW e \in Entries, NEW r \in Answers
    PROVE  \A b \in {ApplyReading(e, r), [e EXCEPT !.reachable = FALSE]} :
             /\ b \in Entries /\ b.id = e.id /\ b.cfg = e.cfg /\ b.inPrint = e.inPrint /\ b.known = e.known
             /\ b.pending \in {"no", e.pending}
<1>1. ASSUME NEW b, b = [e EXCEPT !.reachable = FALSE]
      PROVE  /\ b \in Entries /\ b.id = e.id /\ b.cfg = e.cfg /\ b.inPrint = e.inPrint /\ b.known = e.known
             /\ b.pending \in {"no", e.pending}
  BY <1>1 DEF Entries
<1>2. ASSUME NEW b, b = ApplyReading(e, r)
      PROVE  /\ b \in Entries /\ b.id = e.id /\ b.cfg = e.cfg /\ b.inPrint = e.inPrint /\ b.known = e.known
             /\ b.pending \in {"no", e.pending}
  BY <1>2 DEF Entries, ApplyReading, Answers
<1> QED BY <1>1, <1>2

LEMMA LookApplied ==
    ASSUME NEW b \in Entries, NEW s \in Looks, NEW e, e = Looked(b, s)
    PROVE  /\ e \in Entries /\ e.id = b.id /\ e.cfg = b.cfg
           /\ ~s.ok => e = b
           /\ s.ok => e.known = TRUE /\ e.inPrint = s.busy
           /\ s.ok /\ ~b.inPrint => e.pending \in {"no", b.pending}
           /\ s.ok /\ b.inPrint => e.pending \in {b.pending, "wait"} /\ (~s.busy => e.pending = "wait")
<1> DEFINE k == [b EXCEPT !.known = TRUE, !.fresh = TRUE, !.lastHot = s.hot]
<1>1. /\ k \in Entries /\ k.id = b.id /\ k.cfg = b.cfg /\ k.known = TRUE
      /\ k.inPrint = b.inPrint /\ k.pending = b.pending
  BY DEF Entries, Looks
<1>2. /\ s.busy \in BOOLEAN /\ b.inPrint \in BOOLEAN
      /\ e = IF ~s.ok THEN b ELSE IF s.busy /\ ~b.inPrint THEN BeginPrint(k)
             ELSE IF ~s.busy /\ b.inPrint THEN EndPrint(k) ELSE k
  BY DEF Looked, Looks, Entries
<1> HIDE DEF k
<1>3. CASE ~s.ok
  BY <1>2, <1>3
<1>4. CASE s.ok /\ s.busy /\ ~b.inPrint
  <2>1. e = BeginPrint(k)
    BY <1>2, <1>4
  <2>2. /\ e \in Entries /\ e.id = k.id /\ e.cfg = k.cfg /\ e.known = k.known /\ e.inPrint = TRUE
        /\ e.pending = "no"
    BY <1>1, <2>1 DEF BeginPrint, Entries
  <2> QED BY <1>1, <1>2, <1>4, <2>2
<1>5. CASE s.ok /\ ~s.busy /\ b.inPrint
  <2>1. e = EndPrint(k)
    BY <1>2, <1>5
  <2>2. /\ e \in Entries /\ e.id = k.id /\ e.cfg = k.cfg /\ e.known = k.known /\ e.inPrint = FALSE
        /\ e.pending = "wait"
    BY <1>1, <2>1 DEF EndPrint, Entries
  <2> QED BY <1>1, <1>2, <1>5, <2>2
<1>6. CASE s.ok /\ ~(s.busy /\ ~b.inPrint) /\ ~(~s.busy /\ b.inPrint)
  <2>1. e = k
    BY <1>2, <1>6
  <2> QED BY <1>1, <1>2, <1>6, <2>1
<1> QED BY <1>3, <1>4, <1>5, <1>6

LEMMA WaitApplied ==
    ASSUME NEW e \in Entries, NEW s \in Looks, NEW f, f = Waiting(e, s)
    PROVE  /\ f \in Entries /\ f.id = e.id /\ f.cfg = e.cfg /\ f.inPrint = e.inPrint /\ f.known = e.known
           /\ f.pending \in {"no", e.pending}
           /\ Due(e, s) => f.pending = "no" /\ e.pending = "due" /\ s.ok /\ ~s.busy
<1>1. CASE f = e
  BY <1>1 DEF Waiting, Due
<1>2. CASE f = [e EXCEPT !.pending = "no"]
  BY <1>2 DEF Entries, Due
<1> QED BY <1>1, <1>2 DEF Waiting

(* The sums of OffsFollowPrints, when a look shows print k and when none.    *)
Behind(o, t, l, sh, j) == o + t <= l /\ (sh # 0 => o < sh) /\ (j # 0 /\ sh # j => o + t < j)
LEMMA SumsBusy ==
    ASSUME NEW o \in Nat, NEW o2 \in Nat, NEW t2 \in Nat, NEW k \in Nat, NEW l \in Nat, NEW sh \in Nat, NEW j \in Nat,
           o2 <= o, t2 <= 1, o < k, k <= l, sh # 0 => o < sh, j # 0 /\ sh # j => k < j
    PROVE  Behind(o2, t2, l, sh, j)
BY DEF Behind

LEMMA SumsIdle ==
    ASSUME NEW o \in Nat, NEW o2 \in Nat, NEW t \in Nat, NEW t2 \in Nat, NEW l \in Nat, NEW sh \in Nat, NEW j \in Nat,
           (o2 <= o /\ t2 <= t) \/ (o2 <= o + 1 /\ t = 1 /\ t2 = 0),
           o + t <= l, sh # 0 => o + t < sh, j # 0 /\ sh # j => o + t < j
    PROVE  Behind(o2, t2, l, sh, j)
<1>1. CASE o2 <= o /\ t2 <= t
  BY <1>1 DEF Behind
<1>2. CASE o2 <= o + 1 /\ t = 1 /\ t2 = 0
  BY <1>2 DEF Behind
<1> QED BY <1>1, <1>2

(* A look is applied.                                                        *)
LEMMA ApplyStep == ASSUME PlugInv, ~SlowRecord, NEW p \in Polls, PollApplies(p) PROVE PlugInv'
<1> DEFINE s == proc[p].s
           base == IF proc[p].r.ok THEN ApplyReading(entry, proc[p].r) ELSE [entry EXCEPT !.reachable = FALSE]
           e == Looked(base, s)
           goes == Due(e, s) /\ e.on /\ e.reachable
           w == IF goes THEN [pc |-> "recheck", cfg |-> proc[p].cfg, id |-> e.id] ELSE AtRest
<1>0. /\ proc[p].pc = "apply" /\ half = {} /\ NoneTaken /\ cuts' = cuts
      /\ UNCHANGED <<phase, power, shown, sess, toTake, half, taking, syncs>> /\ machine' = machine /\ reports' = reports
  BY DEF PollApplies, NoneTaken, Keeps, machine, reports
<1>1. s \in Looks /\ (s.ok => (s.busy <=> s.job # 0)) /\ s.job <= Last /\ proc[p].r \in Answers /\ s.job \in Nat
      /\ s.ok \in BOOLEAN /\ s.busy \in BOOLEAN
  BY <1>0 DEF PlugInv, ProcsFit, ProcFits, Looks
<1>2. entry \in Entries /\ entry.id \in Nat /\ entry.id <= syncs
  BY DEF PlugInv, PlugTypes, Entries
<1>3. /\ base \in Entries /\ base.id = entry.id /\ base.cfg = entry.cfg /\ base.inPrint = entry.inPrint
      /\ base.known = entry.known /\ base.pending \in {"no", entry.pending}
  BY <1>1, <1>2, AnswerApplied
<1>4. /\ e \in Entries /\ e.id = base.id /\ e.cfg = base.cfg
      /\ ~s.ok => e = base
      /\ s.ok => e.known = TRUE /\ e.inPrint = s.busy
      /\ s.ok /\ ~base.inPrint => e.pending \in {"no", base.pending}
      /\ s.ok /\ base.inPrint => e.pending \in {base.pending, "wait"} /\ (~s.busy => e.pending = "wait")
  <2> HIDE DEF base, s
  <2> QED BY <1>1, <1>3, LookApplied
<1>5. PICK f : f = Waiting(e, s)
  OBVIOUS
<1>v. PICK v : v = w
  OBVIOUS
<1>6. /\ f \in Entries /\ f.id = e.id /\ f.cfg = e.cfg /\ f.inPrint = e.inPrint /\ f.known = e.known
      /\ f.pending \in {"no", e.pending}
      /\ Due(e, s) => f.pending = "no" /\ e.pending = "due" /\ s.ok /\ ~s.busy
  <2> HIDE DEF e, s
  <2> QED BY <1>1, <1>4, <1>5, WaitApplied
<1>7. \/ /\ HasEntry /\ entry' = f /\ seen' = (IF s.ok THEN s.job ELSE seen) /\ Goes(p, v)
      \/ UNCHANGED <<entry, seen>> /\ Goes(p, AtRest)
  BY <1>5, <1>v DEF PollApplies
<1>8. \/ v.pc = "recheck" /\ v.id = e.id /\ goes
      \/ v = AtRest /\ ~goes
  <2> HIDE DEF e, s
  <2> QED BY <1>v
<1>9. goes => Due(e, s)
  <2> HIDE DEF e, s
  <2> QED OBVIOUS
<1> HIDE DEF s, base, e, goes, w
<1>10. CASE UNCHANGED <<entry, seen>> /\ Goes(p, AtRest)
  <2>1. Plain(AtRest) /\ ~Deciding(AtRest)
    BY DEF Plain, Deciding, AtRest
  <2>2. power' \in BOOLEAN /\ PrintEnds
    BY <1>0, MachineStays DEF PrintEnds
  <2> QED BY <1>0, <1>10, <2>1, <2>2, EntryStays, MovesOn
<1>11. CASE HasEntry /\ entry' = f /\ ~s.ok /\ seen' = seen /\ Goes(p, v)
  <2>1. v = AtRest
    BY <1>6, <1>8, <1>9, <1>11
  <2>2. Plain(AtRest) /\ ~Deciding(AtRest)
    BY DEF Plain, Deciding, AtRest
  <2>3. power' \in BOOLEAN /\ PrintEnds
    BY <1>0, MachineStays DEF PrintEnds
  <2>4. /\ entry'.id = entry.id /\ entry'.cfg = entry.cfg /\ entry'.inPrint = entry.inPrint
        /\ entry'.known = entry.known /\ entry'.pending \in {"no", entry.pending}
    BY <1>3, <1>4, <1>6, <1>11
  <2>5. EntryCalm
    BY <1>0, <1>2, <1>6, <1>11, <2>4 DEF EntryCalm
  <2>6. ToCome' <= ToCome
    BY <2>4 DEF ToCome
  <2> QED BY <1>0, <1>11, <2>1, <2>2, <2>3, <2>5, <2>6, MovesOn
<1>12. CASE HasEntry /\ entry' = f /\ s.ok /\ seen' = s.job /\ Goes(p, v)
  <2>1. Job' = Job /\ Last' = Last /\ Job \in Nat /\ Last \in Nat /\ (Job # 0 => Job = Last)
    BY <1>0, JobStays
  <2>2. /\ proc' = [q \in Polls |-> proc'[q]] /\ DOMAIN proc' = Polls
        /\ proc'[p] = v /\ \A q \in Polls \ {p} : proc'[q] = proc[q]
    BY <1>12 DEF Goes, PlugInv, ProcsFit
  <2>3. \A q \in Polls : proc'[q].pc # "apply"
    BY <1>0, <1>8, <2>2 DEF AtRest, PlugInv, OneAtATime
  <2>4. /\ entry'.id = entry.id /\ entry'.id \in Nat /\ entry'.known = TRUE /\ entry'.inPrint = s.busy
    BY <1>2, <1>3, <1>4, <1>6, <1>12
  <2>5. HasLooked(p) /\ (Job # 0 /\ s.job = Job => Known)
    BY <1>0, <1>12 DEF HasLooked, Known, s
  <2>6. PlugTypes'
    BY <1>0, <1>1, <1>2, <1>6, <1>12, <2>4 DEF PlugInv, PlugTypes
  <2>7. ProcsFit'
    <3>1. ProcFits(v)'
      BY <1>0, <1>2, <1>3, <1>4, <1>8, <2>1 DEF ProcFits, AtRest
    <3>2. ASSUME NEW q \in Polls PROVE ProcFits(proc[q])'
      <4>1. CASE q = p
        BY <2>2, <3>1, <4>1
      <4>2. CASE q # p
        BY <1>0, <2>1, <2>2, <4>2 DEF ProcFits, PlugInv, ProcsFit
      <4> QED BY <4>1, <4>2
    <3> QED BY <2>2, <3>2 DEF ProcsFit
  <2>8. OneAtATime'
    BY <1>0, <2>3 DEF PlugInv, OneAtATime
  <2>9. Past'
    BY <1>0, <1>1, <1>12, <2>1 DEF PlugInv, Past
  <2>10. Known' => Known
    BY <1>0, <1>12, <2>1, <2>3, <2>5 DEF Known, HasLooked
  <2>11. KnownIsStored'
    BY <1>0, <2>1, <2>10 DEF PlugInv, KnownIsStored
  <2>12. SeenIsCounted'
    <3>1. SeenRuns' => Known /\ s.job # 0
      BY <1>12, <2>1, <2>5 DEF SeenRuns
    <3>2. SeenRuns' => sess' = Job' /\ NoneTaken'
      BY <1>0, <2>1, <3>1 DEF PlugInv, KnownIsStored, NoneTaken
    <3>3. SeenRuns' => entry'.inPrint
      BY <1>1, <1>12, <2>4, <3>1
    <3>4. \A k \in Takers : taking'[k] = {}
      BY <1>0 DEF NoneTaken
    <3> QED BY <3>2, <3>3, <3>4 DEF SeenIsCounted
  <2>13. /\ Offs \in Nat /\ ToCome \in {0, 1} /\ shown.job \in Nat
    BY Numbers
  <2>14. /\ Offs' \in Nat /\ (~goes => Offs' <= Offs) /\ Offs' <= Offs + 1
    <3>1. /\ Cardinality(Deciders) \in Nat /\ Cardinality(Deciders') \in Nat
          /\ ~Deciding(v) => Cardinality(Deciders') <= Cardinality(Deciders)
          /\ Cardinality(Deciders') <= Cardinality(Deciders) + 1
      BY <1>12, DecidersMove DEF PlugInv
    <3>2. ~goes => ~Deciding(v)
      BY <1>8 DEF Deciding, AtRest
    <3>3. Offs = cuts + Cardinality(Deciders) /\ Offs' = cuts + Cardinality(Deciders') /\ cuts \in Nat
      BY <1>0 DEF Offs, PlugInv, PlugTypes
    <3> QED BY <3>1, <3>2, <3>3
  <2>15. /\ Offs + ToCome <= Last
         /\ shown.job # 0 => Offs < shown.job
         /\ Job # 0 /\ shown.job # Job => Offs + ToCome < Job
         /\ s.job # 0 => Offs < s.job
         /\ s.job = 0 /\ shown.job # 0 => Offs + ToCome < shown.job
    BY <2>5 DEF PlugInv, OffsFollowPrints, s
  <2>16. ToCome' \in {0, 1}
    BY DEF ToCome
  <2>17. /\ Offs' + ToCome' <= Last
         /\ shown.job # 0 => Offs' < shown.job
         /\ Job # 0 /\ shown.job # Job => Offs' + ToCome' < Job
    <3>1. CASE s.job # 0
      <4>1. s.busy /\ ~goes
        BY <1>1, <1>6, <1>9, <1>12, <3>1
      <4>2. Job # 0 /\ shown.job # Job => s.job < Job
        <5>1. Job # 0 /\ shown.job # Job => s.job # Job
          BY <2>5 DEF PlugInv, KnownIsStored
        <5> QED BY <1>1, <2>1, <5>1
      <4>3. Offs' <= Offs /\ ToCome' <= 1 /\ ToCome' \in Nat /\ Offs < s.job
        BY <2>14, <2>15, <2>16, <3>1, <4>1
      <4>4. Behind(Offs', ToCome', Last, shown.job, Job)
        BY <1>1, <2>1, <2>13, <2>14, <2>15, <4>2, <4>3, SumsBusy
      <4> QED BY <4>4 DEF Behind
    <3>2. CASE s.job = 0
      <4>1. ~s.busy /\ entry'.inPrint = FALSE
        BY <1>1, <1>12, <2>4, <3>2
      <4>2. ASSUME goes PROVE Offs' <= Offs + 1 /\ ToCome = 1 /\ ToCome' = 0
        <5>1. Due(e, s) /\ entry'.pending = "no" /\ e.pending = "due"
          BY <1>6, <1>9, <1>12, <4>2
        <5>2. ToCome' = 0
          BY <4>1, <5>1 DEF ToCome
        <5>3. entry.pending = "due"
          BY <1>3, <1>4, <1>12, <4>1, <5>1 DEF Entries
        <5>4. ToCome = 1
          BY <5>3 DEF ToCome
        <5> QED BY <2>14, <5>2, <5>4
      <4>3. ASSUME ~goes PROVE Offs' <= Offs /\ ToCome' <= ToCome
        <5>1. ToCome' <= ToCome
          <6>1. CASE entry.inPrint
            BY <2>16, <6>1 DEF ToCome
          <6>2. CASE ~entry.inPrint
            <7>1. entry'.pending \in {"no", entry.pending}
              BY <1>3, <1>4, <1>6, <1>12, <6>2
            <7> QED BY <4>1, <7>1 DEF ToCome
          <6> QED BY <6>1, <6>2
        <5> QED BY <2>14, <4>3, <5>1
      <4>4. ToCome \in Nat /\ ToCome' \in Nat
        BY <2>13, <2>16
      <4>5. (Offs' <= Offs /\ ToCome' <= ToCome) \/ (Offs' <= Offs + 1 /\ ToCome = 1 /\ ToCome' = 0)
        BY <4>2, <4>3
      <4>6. Behind(Offs', ToCome', Last, shown.job, Job)
        BY <2>1, <2>13, <2>14, <2>15, <3>2, <4>4, <4>5, SumsIdle
      <4> QED BY <4>6 DEF Behind
    <3> QED BY <3>1, <3>2
  <2>18. OffsFollowPrints'
    BY <1>0, <2>1, <2>3, <2>17 DEF OffsFollowPrints, HasLooked
  <2> QED BY <2>6, <2>7, <2>8, <2>9, <2>11, <2>12, <2>18 DEF PlugInv
<1>13. QED BY <1>1, <1>7, <1>10, <1>11, <1>12

LEMMA PlugInit == Init => PlugInv
<1> SUFFICES ASSUME Init PROVE PlugInv
  OBVIOUS
<1>1. /\ phase = 0 /\ power = TRUE /\ shown = [known |-> FALSE, job |-> 0, hot |-> FALSE] /\ half = {}
      /\ sess = 0 /\ toTake = {} /\ proc = [p \in Polls |-> AtRest] /\ taking = [k \in Takers |-> {}]
      /\ seen = 0 /\ cuts = 0 /\ syncs = 0
  BY DEF Init
<1>2. PICK c \in Cfgs : entry = Fresh(c, 0)
  BY DEF Init
<1>3. entry \in Entries /\ entry.id = 0 /\ ~entry.inPrint /\ entry.pending = "no"
  BY <1>2 DEF Fresh, Entries
<1>4. Job = 0 /\ Last = 0 /\ shown.job = 0 /\ shown \in Pictures
  BY <1>1 DEF Job, Last, Pictures
<1>5. \A p \in Polls : proc[p] = AtRest /\ proc[p].pc = "idle"
  BY <1>1 DEF AtRest
<1>6. PlugTypes
  BY <1>1, <1>3, <1>4 DEF PlugTypes
<1>7. ProcsFit
  BY <1>1, <1>5 DEF ProcsFit, ProcFits
<1>8. OneAtATime /\ Past
  BY <1>1, <1>4, <1>5 DEF OneAtATime, Past
<1>9. KnownIsStored /\ SeenIsCounted
  BY <1>1, <1>4 DEF KnownIsStored, SeenIsCounted, Known, SeenRuns
<1>10. OffsFollowPrints
  <2>1. Deciders = {} /\ \A p \in Polls : ~HasLooked(p)
    BY <1>5 DEF Deciders, HasLooked
  <2>2. Offs = 0 /\ ToCome = 0
    BY <1>1, <1>3, <2>1, FS_EmptySet DEF Offs, ToCome
  <2> QED BY <1>1, <1>4, <2>1, <2>2 DEF OffsFollowPrints
<1> QED BY <1>6, <1>7, <1>8, <1>9, <1>10 DEF PlugInv

LEMMA PlugStep == ASSUME ~SlowLook, ~SlowRecord, PlugInv, [Next]_vars PROVE PlugInv'
<1>1. CASE UNCHANGED vars
  <2>1. UNCHANGED <<phase, power, shown, half, sess, toTake, entry, proc, taking, seen, cuts, syncs>>
    BY <1>1 DEF vars, machine, reports, ghosts
  <2> QED BY <2>1 DEF PlugInv, PlugTypes, ProcsFit, ProcFits, OneAtATime, Past, KnownIsStored, Known, HasLooked,
              SeenIsCounted, SeenRuns, NoneTaken, HasEntry, OffsFollowPrints, Offs, ToCome, Deciders, Job, Last
<1>2. CASE Machine
  BY <1>2, MachineStep
<1>3. CASE ReportArrives
  BY <1>3, ReportComes
<1>4. CASE ReportEnds
  BY <1>4, ReportTakenIn
<1>5. CASE DelayPasses \/ StateAges \/ \E c \in Cfgs \cup {NoCfg} : Sync(c)
  BY <1>5, EntryStep
<1>6. ASSUME NEW p \in Polls,
             PollReads(p) \/ PollRechecks(p) \/ PollAsks(p) \/ PollCuts(p) \/ PollNotes(p)
      PROVE  PlugInv'
  BY <1>6, PollMoves
<1>7. ASSUME NEW p \in Polls, PollLooks(p) PROVE PlugInv'
  BY <1>7, LookStep
<1>8. ASSUME NEW p \in Polls, PollApplies(p) PROVE PlugInv'
  BY <1>8, ApplyStep
<1>9. ASSUME NEW h \in Hands,
             SetBegins(h, TRUE) \/ SetBegins(h, FALSE) \/ SetChecks(h) \/ SetSwitches(h) \/ SetNotes(h)
      PROVE  PlugInv'
  BY <1>9, SetMoves
<1>10. ASSUME NEW k \in Takers, TakeBegins(k) \/ TakeEnds(k) PROVE PlugInv'
  BY <1>10, TakeStep
<1> QED BY <1>1, <1>2, <1>3, <1>4, <1>5, <1>6, <1>7, <1>8, <1>9, <1>10 DEF Next

(* A poll passes its second look, and a Set its check, by one action each.   *)
LEMMA WhoPasses ==
    ASSUME PlugInv, Next, NEW p \in Polls
    PROVE  /\ proc[p].pc = "recheck" /\ proc'[p].pc = "ask" => PollRechecks(p)
           /\ proc[p].pc = "check" /\ proc'[p].pc = "switch" => SetChecks(p)
<1> DEFINE Passes == \/ proc[p].pc = "recheck" /\ proc'[p].pc = "ask"
                     \/ proc[p].pc = "check" /\ proc'[p].pc = "switch"
<1>1. ASSUME NEW q, NEW w, Goes(q, w), Passes PROVE q = p /\ proc'[p] = w
  BY <1>1 DEF Goes, PlugInv, ProcsFit
<1>2. ASSUME proc' = proc PROVE ~Passes
  BY <1>2
<1> HIDE DEF Passes
<1>3. ASSUME Machine \/ ReportArrives \/ ReportEnds \/ DelayPasses \/ StateAges \/ \E c \in Cfgs \cup {NoCfg} : Sync(c)
      PROVE  ~Passes
  BY <1>2, <1>3 DEF Machine, ReportArrives, ReportEnds, DelayPasses, StateAges, Sync
<1>4. ASSUME NEW k \in Takers, TakeBegins(k) \/ TakeEnds(k) PROVE ~Passes
  BY <1>2, <1>4 DEF TakeBegins, TakeEnds
<1>5. ASSUME NEW q \in Polls, PollReads(q), Passes PROVE FALSE
  <2>1. PICK w : Goes(q, w) /\ proc[q].pc \in {"idle", "poll"}
    BY <1>5 DEF PollReads
  <2> QED BY <1>1, <1>5, <2>1 DEF Passes
<1>6. ASSUME NEW q \in Polls, PollLooks(q), Passes PROVE FALSE
  <2>1. PICK w : Goes(q, w) /\ proc[q].pc = "look"
    BY <1>6 DEF PollLooks
  <2> QED BY <1>1, <1>6, <2>1 DEF Passes
<1>7. ASSUME NEW q \in Polls, PollApplies(q), Passes PROVE FALSE
  <2>1. PICK w : Goes(q, w) /\ proc[q].pc = "apply"
    BY <1>7 DEF PollApplies
  <2> QED BY <1>1, <1>7, <2>1 DEF Passes
<1>8. ASSUME NEW q \in Polls, PollRechecks(q), Passes PROVE PollRechecks(p) /\ proc[p].pc = "recheck"
  <2>1. PICK w : Goes(q, w) /\ proc[q].pc = "recheck"
    BY <1>8 DEF PollRechecks
  <2>2. q = p
    BY <1>1, <1>8, <2>1
  <2> QED BY <1>8, <2>1, <2>2
<1>9. ASSUME NEW q \in Polls, PollAsks(q) \/ PollCuts(q) \/ PollNotes(q), Passes PROVE FALSE
  <2>1. PICK w : Goes(q, w) /\ proc[q].pc \in {"ask", "cut", "note"}
    BY <1>9 DEF PollAsks, PollCuts, PollNotes
  <2> QED BY <1>1, <1>9, <2>1 DEF Passes
<1>10. ASSUME NEW h \in Hands, SetBegins(h, TRUE) \/ SetBegins(h, FALSE) \/ SetSwitches(h) \/ SetNotes(h), Passes
       PROVE  FALSE
  <2>1. PICK w : Goes(h, w) /\ proc[h].pc \in {"idle", "switch", "set"}
    BY <1>10 DEF SetBegins, SetSwitches, SetNotes
  <2> QED BY <1>1, <1>10, <2>1 DEF Passes
<1>11. ASSUME NEW h \in Hands, SetChecks(h), Passes PROVE SetChecks(p) /\ proc[p].pc = "check"
  <2>1. PICK w : Goes(h, w) /\ proc[h].pc = "check"
    BY <1>11 DEF SetChecks
  <2>2. h = p
    BY <1>1, <1>11, <2>1
  <2> QED BY <1>11, <2>1, <2>2
<1>12. ASSUME Passes
       PROVE  (PollRechecks(p) /\ proc[p].pc = "recheck") \/ (SetChecks(p) /\ proc[p].pc = "check")
  <2>1. CASE \E q \in Polls : \/ PollReads(q) \/ PollLooks(q) \/ PollApplies(q) \/ PollRechecks(q)
                              \/ PollAsks(q) \/ PollCuts(q) \/ PollNotes(q)
    BY <1>5, <1>6, <1>7, <1>8, <1>9, <1>12, <2>1
  <2>2. CASE \E h \in Hands : \/ SetBegins(h, TRUE) \/ SetBegins(h, FALSE) \/ SetChecks(h)
                              \/ SetSwitches(h) \/ SetNotes(h)
    BY <1>10, <1>11, <1>12, <2>2
  <2>3. CASE \E k \in Takers : TakeBegins(k) \/ TakeEnds(k)
    BY <1>4, <1>12, <2>3
  <2> QED BY <1>3, <1>12, <2>1, <2>2, <2>3 DEF Next
<1> QED BY <1>12 DEF Passes

LEMMA AutoOffs == PlugInv => AutoOffOnce
<1> SUFFICES ASSUME PlugInv PROVE AutoOffOnce
  OBVIOUS
<1>1. Cardinality(Deciders) \in Nat /\ cuts \in Nat /\ ToCome \in {0, 1} /\ Last \in Nat
  BY DecidersStay, JobIsLast DEF PlugInv, PlugTypes, ToCome
<1>2. cuts + Cardinality(Deciders) + ToCome <= Last
  BY DEF PlugInv, OffsFollowPrints, Offs
<1>3. cuts <= Last
  BY <1>1, <1>2
<1> QED BY <1>3 DEF AutoOffOnce, Last

(* plug/manager.go:296-332 and 168-192: neither the second look of an        *)
(* automatic off nor the check of a hand switch passes over a print that a   *)
(* poll has seen running, and a print is followed by one automatic off at    *)
(* most. A look at the printer and the request of PrintEnergy are taken to   *)
(* be quicker than the next poll.                                            *)
THEOREM CutsStayRight == ASSUME ~SlowLook, ~SlowRecord PROVE Spec => CutsAreRight
<1>1. PlugInv /\ PlugInv' /\ [Next]_vars => [SparesSeenPrint /\ AutoOffOnce']_vars
  <2> SUFFICES ASSUME PlugInv, PlugInv', Next PROVE SparesSeenPrint /\ AutoOffOnce'
    OBVIOUS
  <2>1. ASSUME NEW p \in Polls, SeenRuns, PollRechecks(p), proc'[p].pc = "ask" PROVE FALSE
    <3>1. HasEntry /\ entry.id = proc[p].id /\ ~entry.inPrint
      BY <2>1 DEF PollRechecks, Goes, AtRest, PlugInv, ProcsFit
    <3> QED BY <2>1, <3>1 DEF PollRechecks, PlugInv, SeenIsCounted
  <2>2. ASSUME NEW p \in Polls, SeenRuns, SetChecks(p), proc'[p].pc = "switch" PROVE FALSE
    <3>1. OffState.ok /\ ~OffState.busy
      BY <2>2 DEF SetChecks, Goes, AtRest, PlugInv, ProcsFit
    <3>2. shown.job # 0
      BY <2>2 DEF PlugInv, KnownIsStored, Known, SeenRuns
    <3>3. ~Status.ok
      BY <3>1, <3>2 DEF OffState, Status
    <3>4. HasEntry /\ entry.known /\ ~entry.inPrint
      BY <3>1, <3>3 DEF OffState
    <3> QED BY <2>2, <3>4 DEF PlugInv, SeenIsCounted
  <2>3. SparesSeenPrint
    BY <2>1, <2>2, WhoPasses DEF SparesSeenPrint
  <2>4. AutoOffOnce'
    BY AutoOffs, PTL
  <2> QED BY <2>3, <2>4
<1> QED BY <1>1, PlugInit, PlugStep, PTL DEF Spec, CutsAreRight
=============================================================================
