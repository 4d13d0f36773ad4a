-------------------------- MODULE LanSession_proofs --------------------------
(***************************************************************************)
(* Proofs about LanSession and EventWatcher, for any number of names,      *)
(* prints, poll loops and outages, and any time of grace.                  *)
(***************************************************************************)
EXTENDS MCLanSession, FiniteSetTheorems, TLAPS

(* The calls a handler makes.                                                *)
Renames(n, m) == [call |-> "RenamePrinter", from |-> n, to |-> m]
Unregs(n)     == [call |-> "Unregister", name |-> n]
Forgets(n)    == [call |-> "Forget", name |-> n]
Adds(n)       == [call |-> "AddOrUpdate", name |-> n]

OnlyOf(n) == \A k \in Names : k # n => current[k] = 0
NoLoop    == \A k \in Names : current[k] = 0
HeldBy(S) == \A k \in Names : k \notin S => session[k] = NoSession

(* How far a handler of the printer n, which m replaces, has got, and under  *)
(* which names loops are registered and, where polls are whole, sessions are *)
(* kept. Once the session has moved to m, n's loop gets none for the poll    *)
(* that is under way, but from that poll, and it makes no other.             *)
Shape(n, m, whole) ==
    \/ /\ todo = <<>> /\ OnlyOf(n)
       /\ whole => HeldBy({n}) /\ (current[n] = 0 => HeldBy({}))
    \/ /\ todo = <<Renames(n, m), Unregs(n), Forgets(n), Adds(m)>> /\ OnlyOf(n)
       /\ whole => HeldBy({n})
    \/ /\ todo = <<Unregs(n), Forgets(n), Adds(m)>> /\ OnlyOf(n)
       /\ whole => /\ HeldBy({n, m})
                   /\ current[n] # 0 /\ loop[current[n]].at # "resting" => session[n] = NoSession
    \/ /\ todo = <<Forgets(n), Adds(m)>> /\ NoLoop
       /\ whole => HeldBy({n, m})
    \/ /\ todo = <<Unregs(n), Forgets(n)>> /\ OnlyOf(n)
       /\ whole => HeldBy({n})
    \/ /\ todo = <<Forgets(n)>> /\ NoLoop
       /\ whole => HeldBy({n})
    \/ /\ todo = <<Adds(n)>> /\ OnlyOf(n)
       /\ whole => HeldBy({n})

(* A printer's registered loop is its own, a state is shown for a registered *)
(* loop only, and who prints, reports a print or keeps a session has a job.  *)
Registered ==
    /\ todo # <<>> => started < MaxLoops
    /\ \A n \in Names : current[n] # 0 => current[n] \in Started /\ loop[current[n]].name = n
    /\ \A n \in Names : states[n] # "none" => current[n] # 0
    /\ machine.status \in InPrint => machine.job # 0
    /\ \A l \in Loops : loop[l].tel.status \in InPrint => loop[l].tel.job # 0
    /\ \A n \in Names : session[n].job = 0 => session[n] = NoSession

Mine(l) == current[loop[l].name] = l

(* A poll that has stored its state is of a registered loop.                 *)
StoredIsMine == \A l \in Started : loop[l].at = "stored" => Mine(l)

LanInv(whole) ==
    /\ TypeOK /\ Registered
    /\ \E n, m \in Names : Shape(n, m, whole)
    /\ whole => StoredIsMine

-----------------------------------------------------------------------------
(* What is left of a handler's calls.                                        *)
LEMMA Rest ==
    ASSUME NEW a, NEW b, NEW c, NEW d
    PROVE  /\ Head(<<a>>) = a /\ Tail(<<a>>) = <<>>
           /\ Head(<<a, b>>) = a /\ Tail(<<a, b>>) = <<b>>
           /\ Head(<<a, b, c>>) = a /\ Tail(<<a, b, c>>) = <<b, c>>
           /\ Head(<<a, b, c, d>>) = a /\ Tail(<<a, b, c, d>>) = <<b, c, d>>
           /\ <<a>> # <<>> /\ <<a, b>> # <<>> /\ <<a, b, c>> # <<>> /\ <<a, b, c, d>> # <<>>
OBVIOUS

LEMMA CallTypes ==
    ASSUME NEW n \in Names, NEW m \in Names
    PROVE  Renames(n, m) \in Calls /\ Unregs(n) \in Calls /\ Forgets(n) \in Calls /\ Adds(n) \in Calls
BY DEF Renames, Unregs, Forgets, Adds, Calls

LEMMA CallLists ==
    ASSUME NEW n \in Names, NEW m \in Names
    PROVE  /\ <<>> \in Seq(Calls)
           /\ <<Renames(n, m), Unregs(n), Forgets(n), Adds(m)>> \in Seq(Calls)
           /\ <<Unregs(n), Forgets(n), Adds(m)>> \in Seq(Calls)
           /\ <<Forgets(n), Adds(m)>> \in Seq(Calls)
           /\ <<Unregs(n), Forgets(n)>> \in Seq(Calls)
           /\ <<Forgets(n)>> \in Seq(Calls) /\ <<Adds(n)>> \in Seq(Calls)
<1>1. /\ Renames(n, m) \in Calls /\ Unregs(n) \in Calls /\ Forgets(n) \in Calls
      /\ Adds(n) \in Calls /\ Adds(m) \in Calls
  BY CallTypes
<1> HIDE DEF Calls
<1> QED BY <1>1

LEMMA LanInit == Init => \A whole \in BOOLEAN : LanInv(whole)
<1> SUFFICES ASSUME Init, NEW whole \in BOOLEAN PROVE LanInv(whole)
  OBVIOUS
<1>0. First \in Names /\ MaxLoops \in Nat \ {0} /\ MaxJobs \in Nat /\ MaxOutages \in Nat /\ PollGrace \in Nat
  BY LanAssumption
<1>1. TypeOK
  BY <1>0 DEF Init, TypeOK, NewLoop, NoSession, Telemetry, Places, Over, InPrint, Loops, Jobs
<1>2. Registered
  BY <1>0 DEF Init, Registered, NewLoop, NoSession, Over, InPrint, Loops, Started
<1>3. Shape(First, First, whole)
  BY <1>0 DEF Init, Shape, OnlyOf, HeldBy
<1>4. StoredIsMine
  BY <1>0 DEF Init, StoredIsMine, NewLoop, Loops, Started
<1> QED BY <1>0, <1>1, <1>2, <1>3, <1>4 DEF LanInv

-----------------------------------------------------------------------------
(* The steps of a poll and of the machine leave what a handler does alone.   *)
LEMMA LoopMoves ==
    ASSUME TypeOK, NEW l \in Loops, NEW p \in Places, loop' = [loop EXCEPT ![l].at = p]
    PROVE  /\ loop' \in [Loops -> [name : Names, at : Places, tel : Telemetry]]
           /\ \A k \in Loops : loop'[k].name = loop[k].name /\ loop'[k].tel = loop[k].tel
           /\ \A k \in Loops : loop'[k].at = IF k = l THEN p ELSE loop[k].at
BY DEF TypeOK

LEMMA MachineTypes ==
    ASSUME TypeOK, Registered, Machine
    PROVE  TypeOK' /\ Registered'
<1>1. /\ MaxJobs \in Nat /\ MaxOutages \in Nat /\ MaxLoops \in Nat \ {0}
  BY LanAssumption
<1>2. machine' \in [job : 0 .. MaxJobs, status : InPrint \cup Over, up : BOOLEAN]
      /\ (machine'.status \in InPrint => machine'.job # 0)
  <2>1. CASE StartPrint
    <3>1. PICK j : j = machine.job + 1 OBVIOUS
    <3>2. j \in 0 .. MaxJobs /\ j # 0 BY <1>1, <2>1, <3>1 DEF StartPrint, TypeOK
    <3>3. machine' = [machine EXCEPT !.job = j, !.status = "printing"] BY <2>1, <3>1 DEF StartPrint, TypeOK
    <3> QED BY <3>2, <3>3 DEF TypeOK, InPrint
  <2>2. CASE PauseOrResume BY <2>2 DEF PauseOrResume, TypeOK, Registered, InPrint
  <2>3. CASE EndPrint BY <2>3 DEF EndPrint, TypeOK, Registered, InPrint, Over
  <2>4. CASE LoseReach \/ RegainReach BY <2>4 DEF LoseReach, RegainReach, TypeOK, Registered
  <2> QED BY <2>1, <2>2, <2>3, <2>4 DEF Machine
<1>3. noticed' \in BOOLEAN
  BY DEF Machine, StartPrint, PauseOrResume, EndPrint, LoseReach, RegainReach, TypeOK
<1>5. outages' \in 0 .. MaxOutages
  BY <1>1 DEF Machine, LoseReach, RegainReach, TypeOK
<1>4. UNCHANGED <<loop, started, current, states, session, todo, history>> BY DEF Machine
<1> QED BY <1>2, <1>3, <1>4, <1>5 DEF TypeOK, Registered, Started

LEMMA WakeTypes ==
    ASSUME TypeOK, Registered, NEW l \in Started, Wake(l)
    PROVE  TypeOK' /\ Registered'
<1>1. l \in Loops BY LanAssumption DEF TypeOK, Started, Loops
<1>2. /\ loop' \in [Loops -> [name : Names, at : Places, tel : Telemetry]]
      /\ \A k \in Loops : loop'[k].name = loop[k].name /\ loop'[k].tel = loop[k].tel
  BY <1>1, LoopMoves DEF Wake, Places
<1> QED BY <1>2, SMTT(30) DEF Wake, TypeOK, Registered, Started, Loops

LEMMA FetchTypes ==
    ASSUME TypeOK, Registered, NEW l \in Started, Fetch(l)
    PROVE  TypeOK' /\ Registered'
<1>1. l \in Loops BY LanAssumption DEF TypeOK, Started, Loops
<1>2. PICK t : /\ t = [status |-> IF machine.up THEN machine.status ELSE "disconnected", job |-> machine.job]
               /\ loop' = [loop EXCEPT ![l].at = "fetched", ![l].tel = t]
  BY DEF Fetch
<1>3. t \in Telemetry /\ (t.status \in InPrint => t.job # 0)
  BY <1>2 DEF TypeOK, Registered, Telemetry, InPrint
<1>5. UNCHANGED <<machine, noticed, outages, started, current, states, session, todo, history>>
  BY DEF Fetch
<1>4. /\ loop' \in [Loops -> [name : Names, at : Places, tel : Telemetry]]
      /\ \A k \in Loops : loop'[k].name = loop[k].name
      /\ \A k \in Loops : loop'[k].tel = loop[k].tel \/ loop'[k].tel = t
  BY <1>1, <1>2, <1>3, ZenonT(60) DEF TypeOK, Places
<1>6. \A k \in Loops : loop'[k].tel.status \in InPrint => loop'[k].tel.job # 0
  BY <1>3, <1>4 DEF Registered
<1>7. \A n \in Names : current[n] # 0 => current[n] \in Loops /\ loop'[current[n]].name = n
  BY <1>4, LanAssumption, SMTT(30) DEF Registered, TypeOK, Started, Loops
<1> QED BY <1>4, <1>5, <1>6, <1>7 DEF TypeOK, Registered, Started

LEMMA StoreTypes ==
    ASSUME TypeOK, Registered, NEW l \in Started, StoreState(l)
    PROVE  TypeOK' /\ Registered'
<1>1. l \in Loops /\ loop[l].name \in Names /\ loop[l].tel \in Telemetry
  BY LanAssumption, SMTT(30) DEF TypeOK, Started, Loops
<1>2. /\ loop' \in [Loops -> [name : Names, at : Places, tel : Telemetry]]
      /\ \A k \in Loops : loop'[k].name = loop[k].name /\ loop'[k].tel = loop[k].tel
  BY <1>1, LoopMoves DEF StoreState, Places
<1>3. states' \in [Names -> InPrint \cup Over \cup {"disconnected", "none"}]
  BY <1>1 DEF StoreState, TypeOK, Telemetry
<1>4. \A n \in Names : states'[n] # "none" => current[n] # 0
  <2>1. CASE current[loop[l].name] = l
    <3>1. l # 0 BY <1>1, LanAssumption DEF Loops
    <3>2. \A n \in Names : n # loop[l].name => states'[n] = states[n]
      BY <1>1, <2>1 DEF StoreState, TypeOK
    <3> QED BY <2>1, <3>1, <3>2 DEF Registered
  <2>2. CASE current[loop[l].name] # l
    BY <2>2 DEF StoreState, Registered
  <2> QED BY <2>1, <2>2
<1> QED BY <1>2, <1>3, <1>4, SMTT(30) DEF StoreState, TypeOK, Registered, Started, Loops

(* What updateSession makes of a session and of the history.                 *)
LEMMA SessionAfter ==
    ASSUME TypeOK, Registered, NEW l \in Started, UpdateSession(l)
    PROVE  /\ l \in Loops /\ loop[l].name \in Names /\ loop[l].at = "stored"
           /\ \E s \in [job : 0 .. MaxJobs, lost : 0 .. PollGrace] :
                /\ session' = [session EXCEPT ![loop[l].name] = s]
                /\ s.job = 0 => s = NoSession
                /\ s.job \in {0, Sess(l).job} \/ (Tel(l).status = "printing" /\ s.job = Tel(l).job)
           /\ \/ history' = history
              \/ \E r \in {"finished", "error", "cancelled"}, c \in {"seen", "replaced", "lost"} :
                   history' = Append(history, [name |-> loop[l].name, job |-> Sess(l).job,
                                               result |-> r, cause |-> c])
                   /\ Sess(l).job \in Jobs
           /\ loop' = [loop EXCEPT ![l].at = "resting"]
           /\ UNCHANGED <<machine, outages, started, current, states, todo>>
<1>1. /\ l \in Loops /\ loop[l].name \in Names /\ loop[l].at = "stored"
      /\ loop' = [loop EXCEPT ![l].at = "resting"]
      /\ UNCHANGED <<machine, outages, started, current, states, todo>>
  BY LanAssumption DEF UpdateSession, TypeOK, Started, Loops
<1>2. /\ Sess(l) \in [job : 0 .. MaxJobs, lost : 0 .. PollGrace] /\ (Sess(l).job = 0 => Sess(l) = NoSession)
      /\ Tel(l) \in Telemetry /\ (Tel(l).status \in InPrint => Tel(l).job # 0)
      /\ PollGrace \in Nat /\ MaxJobs \in Nat
  BY <1>1, LanAssumption DEF TypeOK, Registered, Sess, Tel
<1>3. NoSession \in [job : 0 .. MaxJobs, lost : 0 .. PollGrace] /\ NoSession.job = 0
  BY <1>2 DEF NoSession
<1>4. Sess(l) # NoSession => Sess(l).job \in Jobs BY <1>2 DEF Jobs
<1>5. Tel(l).status = "printing" =>
        /\ [job |-> Tel(l).job, lost |-> 0] \in [job : 0 .. MaxJobs, lost : 0 .. PollGrace]
        /\ Tel(l).job # 0
  BY <1>2 DEF Telemetry, InPrint
<1>6. PICK d : d = [session EXCEPT ![loop[l].name] = Sess(l)] OBVIOUS
<1>7. session = d BY <1>1, <1>6 DEF Sess, TypeOK
<1>8. CASE PollFailed(l)
  <2>1. CASE Sess(l) = NoSession
    BY <1>1, <1>2, <1>3, <1>6, <1>7, <1>8, <2>1 DEF PollFailed, NoRecord
  <2>2. CASE Sess(l) # NoSession /\ Sess(l).lost < PollGrace
    <3>1. PICK s : s = [Sess(l) EXCEPT !.lost = @ + 1] OBVIOUS
    <3>2. s \in [job : 0 .. MaxJobs, lost : 0 .. PollGrace] /\ s.job = Sess(l).job /\ s.job # 0
      BY <1>2, <2>2, <3>1
    <3>3. session' = [session EXCEPT ![loop[l].name] = s] /\ history' = history
      BY <1>2, <1>8, <2>2, <3>1 DEF PollFailed, Keep, NoRecord
    <3> QED BY <1>1, <3>2, <3>3
  <2>3. CASE Sess(l) # NoSession /\ Sess(l).lost = PollGrace
    BY <1>1, <1>2, <1>3, <1>4, <1>8, <2>3, SMTT(30) DEF PollFailed, Keep, Record
  <2> QED BY <1>8, <2>1, <2>2, <2>3 DEF PollFailed
<1>9. CASE Replaced(l)
  BY <1>1, <1>4, <1>5, <1>9 DEF Replaced, AnotherFile, Keep, Record
<1>10. CASE NoSessionYet(l)
  <2>1. CASE Tel(l).status = "printing"
    BY <1>1, <1>5, <1>10, <2>1 DEF NoSessionYet, Keep, NoRecord
  <2>2. CASE Tel(l).status # "printing"
    BY <1>1, <1>3, <1>10, <2>2 DEF NoSessionYet, Keep, NoRecord
  <2> QED BY <2>1, <2>2
<1>11. CASE Ongoing(l)
  <2>1. PICK s : s = [Sess(l) EXCEPT !.lost = 0] OBVIOUS
  <2>2. s \in [job : 0 .. MaxJobs, lost : 0 .. PollGrace] /\ s.job = Sess(l).job /\ s.job # 0
    BY <1>2, <1>11, <2>1 DEF Ongoing
  <2> QED BY <1>1, <1>11, <2>1, <2>2 DEF Ongoing, Keep, NoRecord
<1>12. CASE PrintOver(l)
  <2>1. ResultOf(Tel(l).status) \in {"finished", "error", "cancelled"} BY DEF ResultOf
  <2> QED BY <1>1, <1>3, <1>4, <1>12, <2>1 DEF PrintOver, Keep, Record
<1> QED BY <1>8, <1>9, <1>10, <1>11, <1>12 DEF UpdateSession

LEMMA UpdateTypes ==
    ASSUME TypeOK, Registered, NEW l \in Started, UpdateSession(l)
    PROVE  TypeOK' /\ Registered'
<1>1. l \in Loops /\ loop[l].name \in Names /\ loop' = [loop EXCEPT ![l].at = "resting"]
      /\ UNCHANGED <<machine, outages, started, current, states, todo>>
  BY SessionAfter
<1>2. PICK s \in [job : 0 .. MaxJobs, lost : 0 .. PollGrace] :
           session' = [session EXCEPT ![loop[l].name] = s] /\ (s.job = 0 => s = NoSession)
  BY SessionAfter
<1>3. session' \in [Names -> [job : 0 .. MaxJobs, lost : 0 .. PollGrace]]
      /\ \A n \in Names : session'[n].job = 0 => session'[n] = NoSession
  BY <1>1, <1>2 DEF TypeOK, Registered
<1>4. history' \in Seq([name : Names, job : Jobs, result : {"finished", "error", "cancelled"},
                        cause : {"seen", "replaced", "lost"}])
  <2>1. CASE history' = history BY <2>1 DEF TypeOK
  <2>2. CASE history' # history
    <3>1. PICK r \in {"finished", "error", "cancelled"}, c \in {"seen", "replaced", "lost"} :
            /\ history' = Append(history, [name |-> loop[l].name, job |-> Sess(l).job,
                                           result |-> r, cause |-> c])
            /\ Sess(l).job \in Jobs
      BY <2>2, SessionAfter
    <3>2. [name |-> loop[l].name, job |-> Sess(l).job, result |-> r, cause |-> c]
            \in [name : Names, job : Jobs, result : {"finished", "error", "cancelled"},
                 cause : {"seen", "replaced", "lost"}]
      BY <1>1, <3>1
    <3>3. ASSUME NEW S, history \in Seq(S), NEW e \in S PROVE Append(history, e) \in Seq(S)
      BY <3>3
    <3> QED BY <3>1, <3>2, <3>3 DEF TypeOK
  <2> QED BY <2>1, <2>2
<1>5. /\ loop' \in [Loops -> [name : Names, at : Places, tel : Telemetry]]
      /\ \A k \in Loops : loop'[k].name = loop[k].name /\ loop'[k].tel = loop[k].tel
  BY <1>1, LoopMoves DEF Places
<1>6. noticed' \in BOOLEAN BY DEF UpdateSession, TypeOK
<1>7. \A k \in Loops : loop'[k].tel.status \in InPrint => loop'[k].tel.job # 0
  BY <1>5 DEF Registered
<1>8. \A n \in Names : current[n] # 0 => current[n] \in Loops /\ loop'[current[n]].name = n
  BY <1>5, LanAssumption, SMTT(30) DEF Registered, TypeOK, Started, Loops
<1> QED BY <1>1, <1>3, <1>4, <1>5, <1>6, <1>7, <1>8 DEF TypeOK, Registered, Started

-----------------------------------------------------------------------------
(* A step that keeps the sessions keeps the place of the handler.            *)
LEMMA SameShape ==
    ASSUME TypeOK, Registered, NEW whole \in BOOLEAN, NEW n \in Names, NEW m \in Names,
           Shape(n, m, whole), UNCHANGED <<todo, current, session>>,
           todo # <<>> => \A k \in Loops : loop[k].at = "resting" => loop'[k].at = "resting"
    PROVE  Shape(n, m, whole)'
<1>1. OnlyOf(n)' = OnlyOf(n) /\ NoLoop' = NoLoop /\ (\A S : HeldBy(S)' = HeldBy(S))
  BY DEF OnlyOf, NoLoop, HeldBy
<1>2. current[n] # 0 => current[n] \in Loops BY LanAssumption DEF Registered, TypeOK, Started, Loops
<1>3. todo # <<>> /\ current[n] # 0 /\ loop'[current[n]].at # "resting" => loop[current[n]].at # "resting"
  BY <1>2
<1>4. <<Unregs(n), Forgets(n), Adds(m)>> # <<>> BY Rest
<1> HIDE DEF OnlyOf, NoLoop, HeldBy
<1> QED BY <1>1, <1>3, <1>4 DEF Shape

(* A poll that updates a session does it under its registered loop's name.   *)
LEMMA UpdateShape ==
    ASSUME TypeOK, Registered, NEW whole \in BOOLEAN, NEW n \in Names, NEW m \in Names,
           Shape(n, m, whole), NEW l \in Started, UpdateSession(l), whole => Mine(l)
    PROVE  Shape(n, m, whole)'
<1>1. /\ l \in Loops /\ loop[l].name \in Names /\ loop[l].at = "stored"
      /\ loop' = [loop EXCEPT ![l].at = "resting"] /\ UNCHANGED <<current, todo>>
  BY SessionAfter
<1>2. \A k \in Names : k # loop[l].name => session'[k] = session[k]
  <2>1. PICK s : session' = [session EXCEPT ![loop[l].name] = s] BY SessionAfter
  <2> QED BY <2>1 DEF TypeOK
<1>3. OnlyOf(n)' = OnlyOf(n) /\ NoLoop' = NoLoop BY <1>1 DEF OnlyOf, NoLoop
<1>4. CASE ~whole BY <1>1, <1>3, <1>4 DEF Shape
<1>5. CASE whole
  <2>1. Mine(l) /\ l # 0 BY <1>1, <1>5, LanAssumption DEF Loops
  <2>2. ~NoLoop BY <1>1, <2>1 DEF NoLoop, Mine
  <2>3. OnlyOf(n) => loop[l].name = n /\ current[n] = l
    BY <1>1, <2>1 DEF OnlyOf, Mine
  <2>4. OnlyOf(n) BY <2>2 DEF Shape
  <2>5. loop'[l].at = "resting" BY <1>1 DEF TypeOK
  <2>6. HeldBy({n}) => HeldBy({n})' BY <1>2, <2>3, <2>4 DEF HeldBy
  <2>7. HeldBy({n, m}) => HeldBy({n, m})' BY <1>2, <2>3, <2>4 DEF HeldBy
  <2>8. UNCHANGED <<current, todo>> /\ current[n] # 0 /\ current[n] = l BY <1>1, <2>1, <2>3, <2>4
  <2> HIDE DEF OnlyOf, NoLoop, HeldBy
  <2> QED BY <1>3, <1>5, <2>2, <2>5, <2>6, <2>7, <2>8 DEF Shape
<1> QED BY <1>4, <1>5

(* What a request's calls start from.                                        *)
LEMMA AskShape ==
    ASSUME TypeOK, Registered, NEW whole \in BOOLEAN, \E n, m \in Names : Shape(n, m, whole),
           AskSync \/ AskRename \/ AskRemove \/ AskAdd
    PROVE  TypeOK' /\ Registered' /\ \E n, m \in Names : Shape(n, m, whole)'
<1>0. PICK n \in Names, m \in Names : Shape(n, m, whole) OBVIOUS
<1>1. /\ todo = <<>> /\ started < MaxLoops
      /\ UNCHANGED <<machine, noticed, outages, loop, started, current, states, session, history>>
  BY DEF AskSync, AskRename, AskRemove, AskAdd, Ask
<1>2. OnlyOf(n) /\ (whole => HeldBy({n}) /\ (current[n] = 0 => HeldBy({})))
  <2> HIDE DEF OnlyOf, HeldBy
  <2> QED BY <1>0, <1>1, Rest DEF Shape
<1>3. ASSUME NEW a \in Names, NEW b \in Names, current[a] # 0 \/ NoLoop
      PROVE  OnlyOf(a)' /\ (whole => HeldBy({a})')
  <2>1. CASE current[a] # 0
    <3>1. a = n BY <1>2, <2>1 DEF OnlyOf
    <3> QED BY <1>1, <1>2, <3>1 DEF OnlyOf, HeldBy
  <2>2. CASE NoLoop BY <1>1, <1>2, <2>2 DEF OnlyOf, HeldBy, NoLoop
  <2> QED BY <1>3, <2>1, <2>2
<1>4. ASSUME NEW a \in Names, NEW b \in Names, current[a] # 0 \/ NoLoop,
             \/ todo' = <<Renames(a, b), Unregs(a), Forgets(a), Adds(b)>>
             \/ todo' = <<Unregs(a), Forgets(a)>>
             \/ todo' = <<Adds(a)>>
      PROVE  Shape(a, b, whole)' /\ todo' \in Seq(Calls)
  <2>1. OnlyOf(a)' /\ (whole => HeldBy({a})') BY <1>3, <1>4
  <2>2. todo' \in Seq(Calls) BY <1>4, CallLists
  <2> HIDE DEF OnlyOf, HeldBy, NoLoop
  <2> QED BY <1>4, <2>1, <2>2 DEF Shape
<1>5. \E a, b \in Names :
        /\ current[a] # 0 \/ NoLoop
        /\ \/ todo' = <<Renames(a, b), Unregs(a), Forgets(a), Adds(b)>>
           \/ todo' = <<Unregs(a), Forgets(a)>>
           \/ todo' = <<Adds(a)>>
  <2>1. CASE AskSync BY <2>1 DEF AskSync, Ask, Configured, Adds
  <2>2. CASE AskRename BY <2>2 DEF AskRename, Ask, Configured, Renames, Unregs, Forgets, Adds
  <2>3. CASE AskRemove BY <2>3 DEF AskRemove, Ask, Configured, Unregs, Forgets
  <2>4. CASE AskAdd
    <3>1. NoLoop BY <2>4 DEF AskAdd, Configured, NoLoop
    <3> QED BY <2>4, <3>1 DEF AskAdd, Ask, Adds
  <2> QED BY <2>1, <2>2, <2>3, <2>4
<1>6. (\E a, b \in Names : Shape(a, b, whole)') /\ todo' \in Seq(Calls) BY <1>4, <1>5
<1>7. TypeOK' BY <1>1, <1>6 DEF TypeOK
<1>8. Registered' BY <1>1 DEF Registered, Started
<1> QED BY <1>6, <1>7, <1>8

-----------------------------------------------------------------------------
(* The calls of a handler, each in its shape.                                *)
CallOf(calls) == Head(calls).call

LEMMA FirstCalls ==
    ASSUME NEW n, NEW m
    PROVE  /\ CallOf(<<Renames(n, m), Unregs(n), Forgets(n), Adds(m)>>) = "RenamePrinter"
           /\ CallOf(<<Unregs(n), Forgets(n), Adds(m)>>) = "Unregister"
           /\ CallOf(<<Forgets(n), Adds(m)>>) = "Forget"
           /\ CallOf(<<Unregs(n), Forgets(n)>>) = "Unregister"
           /\ CallOf(<<Forgets(n)>>) = "Forget"
           /\ CallOf(<<Adds(n)>>) = "AddOrUpdate"
<1>1. \A a, b, c, d : /\ Head(<<a>>) = a /\ Head(<<a, b>>) = a
                     /\ Head(<<a, b, c>>) = a /\ Head(<<a, b, c, d>>) = a
  BY Rest
<1> QED BY <1>1 DEF CallOf, Renames, Unregs, Forgets, Adds

LEMMA RenameShape ==
    ASSUME TypeOK, Registered, NEW whole \in BOOLEAN, NEW n \in Names, NEW m \in Names,
           Shape(n, m, whole), RenamePrinter
    PROVE  TypeOK' /\ Registered' /\ Shape(n, m, whole)'
           /\ todo = <<Renames(n, m), Unregs(n), Forgets(n), Adds(m)>>
           /\ session' = IF session[n] # NoSession
                         THEN [session EXCEPT ![m] = session[n], ![n] = NoSession] ELSE session
<1>1. todo # <<>> /\ Head(todo).call = "RenamePrinter" /\ todo' = Tail(todo)
      /\ UNCHANGED <<machine, noticed, outages, loop, started, current, states, history>>
  BY DEF RenamePrinter
<1>2. todo = <<Renames(n, m), Unregs(n), Forgets(n), Adds(m)>> /\ OnlyOf(n) /\ (whole => HeldBy({n}))
  <2> HIDE DEF OnlyOf, HeldBy, NoLoop
  <2> QED BY <1>1, Rest DEF Shape, Unregs, Forgets, Adds
<1>3. Head(todo).from = n /\ Head(todo).to = m BY <1>2, Rest DEF Renames
<1>4. todo' = <<Unregs(n), Forgets(n), Adds(m)>> BY <1>1, <1>2, Rest
<1>5. session' = IF session[n] # NoSession
                 THEN [session EXCEPT ![m] = session[n], ![n] = NoSession] ELSE session
  BY <1>3 DEF RenamePrinter
<1>6. NoSession \in [job : 0 .. MaxJobs, lost : 0 .. PollGrace] /\ NoSession.job = 0
  BY LanAssumption DEF NoSession
<1>7. /\ session' \in [Names -> [job : 0 .. MaxJobs, lost : 0 .. PollGrace]]
      /\ session'[n] = NoSession
      /\ \A k \in Names : session'[k] = session[k] \/ session'[k] = session[n] \/ session'[k] = NoSession
      /\ \A k \in Names : k # n /\ k # m => session'[k] = session[k]
  BY <1>5, <1>6 DEF TypeOK
<1>8. todo' \in Seq(Calls) BY <1>4, CallLists
<1>9. TypeOK' BY <1>1, <1>7, <1>8 DEF TypeOK
<1>10. Registered'
  <2>1. \A k \in Names : session'[k].job = 0 => session'[k] = NoSession
    BY <1>7, <1>6 DEF Registered
  <2> QED BY <1>1, <2>1 DEF Registered, Started
<1>11. OnlyOf(n)' /\ (whole => HeldBy({n, m})')
  BY <1>1, <1>2, <1>7 DEF OnlyOf, HeldBy
<1>12. Shape(n, m, whole)'
  <2> HIDE DEF OnlyOf, HeldBy, NoLoop
  <2> QED BY <1>4, <1>7, <1>11 DEF Shape
<1> QED BY <1>2, <1>5, <1>9, <1>10, <1>12

LEMMA UnregisterShape ==
    ASSUME TypeOK, Registered, NEW whole \in BOOLEAN, NEW n \in Names, NEW m \in Names,
           Shape(n, m, whole), Unregister
    PROVE  TypeOK' /\ Registered' /\ Shape(n, m, whole)' /\ NoLoop'
           /\ UNCHANGED <<machine, noticed, outages, loop, started, session, history>>
<1>1. todo # <<>> /\ Head(todo).call = "Unregister" /\ todo' = Tail(todo)
      /\ current' = [current EXCEPT ![Head(todo).name] = 0]
      /\ states' = [states EXCEPT ![Head(todo).name] = "none"]
      /\ UNCHANGED <<machine, noticed, outages, loop, started, session, history>>
  BY DEF Unregister
<1>2. \/ /\ todo = <<Unregs(n), Forgets(n), Adds(m)>> /\ OnlyOf(n) /\ (whole => HeldBy({n, m}))
         /\ todo' = <<Forgets(n), Adds(m)>> /\ Head(todo) = Unregs(n)
      \/ /\ todo = <<Unregs(n), Forgets(n)>> /\ OnlyOf(n) /\ (whole => HeldBy({n}))
         /\ todo' = <<Forgets(n)>> /\ Head(todo) = Unregs(n)
  <2> HIDE DEF OnlyOf, HeldBy, NoLoop
  <2>1. CallOf(todo) = "Unregister" /\ todo # <<>> /\ todo' = Tail(todo) BY <1>1 DEF CallOf
  <2> HIDE DEF Renames, Unregs, Forgets, Adds
  <2>2. \/ todo = <<Unregs(n), Forgets(n), Adds(m)>> /\ OnlyOf(n) /\ (whole => HeldBy({n, m}))
        \/ todo = <<Unregs(n), Forgets(n)>> /\ OnlyOf(n) /\ (whole => HeldBy({n}))
    BY <2>1, FirstCalls DEF Shape
  <2>3. todo = <<Unregs(n), Forgets(n), Adds(m)>> =>
          Head(todo) = Unregs(n) /\ Tail(todo) = <<Forgets(n), Adds(m)>>
    BY Rest
  <2>4. todo = <<Unregs(n), Forgets(n)>> => Head(todo) = Unregs(n) /\ Tail(todo) = <<Forgets(n)>>
    BY Rest
  <2> QED BY <2>1, <2>2, <2>3, <2>4
<1>3. Head(todo).name = n BY <1>2 DEF Unregs
<1>4. /\ current' \in [Names -> 0 .. MaxLoops] /\ NoLoop'
      /\ \A k \in Names : current'[k] = 0
      /\ states' \in [Names -> InPrint \cup Over \cup {"disconnected", "none"}]
      /\ \A k \in Names : states'[k] # "none" => k # n /\ states[k] # "none"
  <2>1. current' = [current EXCEPT ![n] = 0] /\ states' = [states EXCEPT ![n] = "none"] BY <1>1, <1>3
  <2>2. \A k \in Names : k # n => current[k] = 0 BY <1>2 DEF OnlyOf
  <2>3. current' \in [Names -> 0 .. MaxLoops] BY <2>1, LanAssumption DEF TypeOK
  <2>4. \A k \in Names : current'[k] = 0 BY <2>1, <2>2 DEF TypeOK
  <2>5. states' \in [Names -> InPrint \cup Over \cup {"disconnected", "none"}] BY <2>1 DEF TypeOK
  <2>6. \A k \in Names : states'[k] # "none" => k # n /\ states[k] # "none" BY <2>1 DEF TypeOK
  <2> QED BY <2>3, <2>4, <2>5, <2>6 DEF NoLoop
<1>5. todo' \in Seq(Calls) BY <1>2, CallLists
<1>6. TypeOK' BY <1>1, <1>4, <1>5 DEF TypeOK
<1>7. Registered'
  <2>1. \A k \in Names : states'[k] = "none" BY <1>2, <1>4 DEF Registered, OnlyOf
  <2> QED BY <1>1, <1>4, <2>1 DEF Registered, Started
<1>8. Shape(n, m, whole)'
  <2>1. \A S : HeldBy(S)' = HeldBy(S) BY <1>1 DEF HeldBy
  <2> HIDE DEF OnlyOf, HeldBy, NoLoop
  <2> QED BY <1>2, <1>4, <2>1 DEF Shape
<1> QED BY <1>1, <1>4, <1>6, <1>7, <1>8

LEMMA ForgetShape ==
    ASSUME TypeOK, Registered, NEW whole \in BOOLEAN, NEW n \in Names, NEW m \in Names,
           Shape(n, m, whole), Forget
    PROVE  TypeOK' /\ Registered' /\ (Shape(n, m, whole)' \/ Shape(m, n, whole)')
           /\ session' = [session EXCEPT ![n] = NoSession] /\ NoLoop
           /\ UNCHANGED <<machine, noticed, outages, loop, started, current, states, history>>
<1>1. CallOf(todo) = "Forget" /\ todo # <<>> /\ todo' = Tail(todo)
      /\ session' = [session EXCEPT ![Head(todo).name] = NoSession]
      /\ UNCHANGED <<machine, noticed, outages, loop, started, current, states, history>>
  BY DEF Forget, CallOf
<1>2. \/ todo = <<Forgets(n), Adds(m)>> /\ NoLoop /\ (whole => HeldBy({n, m}))
      \/ todo = <<Forgets(n)>> /\ NoLoop /\ (whole => HeldBy({n}))
  <2> HIDE DEF OnlyOf, HeldBy, NoLoop, Renames, Unregs, Forgets, Adds
  <2> QED BY <1>1, FirstCalls DEF Shape
<1>a. todo = <<Forgets(n), Adds(m)>> => Head(todo) = Forgets(n) /\ Tail(todo) = <<Adds(m)>>
  BY Rest
<1>b. todo = <<Forgets(n)>> => Head(todo) = Forgets(n) /\ Tail(todo) = <<>>
  BY Rest
<1>3. Head(todo).name = n BY <1>2, <1>a, <1>b DEF Forgets
<1>4. session' = [session EXCEPT ![n] = NoSession] BY <1>1, <1>3
<1>5. NoSession \in [job : 0 .. MaxJobs, lost : 0 .. PollGrace] BY LanAssumption DEF NoSession
<1>6. /\ session' \in [Names -> [job : 0 .. MaxJobs, lost : 0 .. PollGrace]]
      /\ session'[n] = NoSession
      /\ \A k \in Names : k # n => session'[k] = session[k]
  BY <1>4, <1>5 DEF TypeOK
<1>7. todo' \in Seq(Calls) BY <1>1, <1>2, <1>a, <1>b, CallLists
<1>8. TypeOK' BY <1>1, <1>6, <1>7 DEF TypeOK
<1>9. Registered'
  <2>1. \A k \in Names : session'[k].job = 0 => session'[k] = NoSession BY <1>6 DEF Registered
  <2> QED BY <1>1, <2>1 DEF Registered, Started
<1>10. NoLoop /\ NoLoop' /\ OnlyOf(n)' /\ OnlyOf(m)' /\ current'[n] = 0
  BY <1>1, <1>2 DEF NoLoop, OnlyOf
<1>11. /\ HeldBy({n, m}) => HeldBy({m})'
       /\ HeldBy({n}) => HeldBy({n})' /\ HeldBy({})'
  BY <1>6 DEF HeldBy
<1>12. Shape(n, m, whole)' \/ Shape(m, n, whole)'
  <2> HIDE DEF OnlyOf, HeldBy, NoLoop, Renames, Unregs, Forgets, Adds
  <2>1. CASE todo = <<Forgets(n), Adds(m)>> /\ (whole => HeldBy({n, m}))
    <3>1. todo' = <<Adds(m)>> /\ OnlyOf(m)' /\ (whole => HeldBy({m})') BY <1>1, <1>a, <1>10, <1>11, <2>1
    <3> QED BY <3>1 DEF Shape
  <2>2. CASE todo = <<Forgets(n)>> /\ (whole => HeldBy({n}))
    <3>1. todo' = <<>> /\ OnlyOf(n)' /\ (whole => HeldBy({n})' /\ HeldBy({})')
      BY <1>1, <1>b, <1>10, <1>11, <2>2
    <3> QED BY <3>1 DEF Shape
  <2> QED BY <1>2, <2>1, <2>2
<1> QED BY <1>1, <1>4, <1>8, <1>9, <1>10, <1>12

LEMMA AddShape ==
    ASSUME TypeOK, Registered, NEW whole \in BOOLEAN, NEW n \in Names, NEW m \in Names,
           Shape(n, m, whole), AddOrUpdate
    PROVE  /\ TypeOK' /\ Registered' /\ Shape(n, m, whole)'
           /\ OnlyOf(n) /\ started + 1 \in Loops /\ current' = [current EXCEPT ![n] = started + 1]
           /\ loop' = [loop EXCEPT ![started + 1] = NewLoop(n)] /\ started' = started + 1
           /\ UNCHANGED <<machine, noticed, outages, states, session, history>>
<1>1. CallOf(todo) = "AddOrUpdate" /\ todo # <<>> /\ todo' = Tail(todo) /\ started' = started + 1
      /\ loop' = [loop EXCEPT ![started + 1] = NewLoop(Head(todo).name)]
      /\ current' = [current EXCEPT ![Head(todo).name] = started + 1]
      /\ UNCHANGED <<machine, noticed, outages, states, session, history>>
  BY DEF AddOrUpdate, CallOf
<1>2. todo = <<Adds(n)>> /\ OnlyOf(n) /\ (whole => HeldBy({n}))
  <2> HIDE DEF OnlyOf, HeldBy, NoLoop, Renames, Unregs, Forgets, Adds
  <2> QED BY <1>1, FirstCalls DEF Shape
<1>3. Head(todo) = Adds(n) /\ Tail(todo) = <<>>
  BY <1>2, Rest
<1>4. loop' = [loop EXCEPT ![started + 1] = NewLoop(n)] /\ current' = [current EXCEPT ![n] = started + 1]
      /\ todo' = <<>>
  <2>1. Head(todo).name = n BY <1>3 DEF Adds
  <2> QED BY <1>1, <1>3, <2>1
<1>5. started + 1 \in Loops /\ started + 1 # 0
  BY <1>1, LanAssumption DEF Registered, TypeOK, Loops
<1>6. NewLoop(n) \in [name : Names, at : Places, tel : Telemetry] /\ NewLoop(n).name = n
      /\ NewLoop(n).tel.status \notin InPrint
  BY LanAssumption DEF NewLoop, Places, Telemetry, InPrint, Over
<1>7. /\ loop' \in [Loops -> [name : Names, at : Places, tel : Telemetry]]
      /\ loop'[started + 1] = NewLoop(n)
      /\ \A k \in Loops : k # started + 1 => loop'[k] = loop[k]
  BY <1>4, <1>5, <1>6 DEF TypeOK
<1>8. /\ current' \in [Names -> 0 .. MaxLoops] /\ current'[n] = started + 1
      /\ \A k \in Names : k # n => current'[k] = current[k]
  BY <1>4, <1>5, LanAssumption DEF TypeOK, Loops
<1>9. TypeOK'
  <2>1. todo' \in Seq(Calls) BY <1>4
  <2> QED BY <1>1, <1>5, <1>7, <1>8, <2>1 DEF TypeOK
<1>10. Registered'
  <2>1. \A k \in Names : current'[k] # 0 => current'[k] \in Started' /\ loop'[current'[k]].name = k
    <3> SUFFICES ASSUME NEW k \in Names, current'[k] # 0
                 PROVE  current'[k] \in Started' /\ loop'[current'[k]].name = k
      OBVIOUS
    <3>1. CASE k = n
      <4>1. current'[k] = started + 1 /\ started + 1 \in Nat BY <1>8, <3>1 DEF TypeOK, Loops
      <4>2. started + 1 \in 1 .. started' BY <1>1, <1>5, <4>1 DEF Loops
      <4> QED BY <1>6, <1>7, <3>1, <4>1, <4>2 DEF Started
    <3>2. CASE k # n
      <4>1. current[k] \in Started /\ loop[current[k]].name = k BY <1>8, <3>2 DEF Registered
      <4>2. current[k] \in Loops /\ current[k] # started + 1
        BY <4>1, LanAssumption DEF Started, TypeOK, Loops
      <4>3. current[k] \in 1 .. started' BY <1>1, <1>5, <4>1, LanAssumption DEF Started, Loops, TypeOK
      <4>4. current'[k] = current[k] /\ loop'[current[k]] = loop[current[k]] BY <1>7, <1>8, <3>2, <4>2
      <4> QED BY <4>1, <4>3, <4>4 DEF Started
    <3> QED BY <3>1, <3>2
  <2>2. \A k \in Names : states'[k] # "none" => current'[k] # 0
    BY <1>1, <1>5, <1>8 DEF Registered
  <2>3. \A k \in Loops : loop'[k].tel.status \in InPrint => loop'[k].tel.job # 0
    BY <1>6, <1>7 DEF Registered
  <2> QED BY <1>1, <1>4, <2>1, <2>2, <2>3 DEF Registered
<1>11. OnlyOf(n)' /\ (whole => HeldBy({n})') /\ current'[n] # 0
  BY <1>1, <1>2, <1>5, <1>8 DEF OnlyOf, HeldBy
<1>12. Shape(n, m, whole)'
  <2> HIDE DEF OnlyOf, HeldBy, NoLoop, Renames, Unregs, Forgets, Adds
  <2> QED BY <1>4, <1>11 DEF Shape
<1> QED BY <1>1, <1>2, <1>4, <1>5, <1>9, <1>10, <1>12

-----------------------------------------------------------------------------
(* Where polls are whole, nobody but the poll itself comes after its         *)
(* storeState.                                                               *)
LEMMA NoneStored ==
    ASSUME TypeOK, PollsWhole, Next, \A l \in Started : ~UpdateSession(l)
    PROVE  \A l \in Started : loop[l].at # "stored"
<1> SUFFICES ASSUME NEW l \in Started, loop[l].at = "stored", loop'[l].at = "resting"
             PROVE  FALSE
  BY DEF PollsWhole
<1>0. l \in Loops /\ started \in Nat BY LanAssumption, SMTT(30) DEF TypeOK, Started, Loops
<1>1. ~Machine /\ ~AskSync /\ ~AskRename /\ ~AskRemove /\ ~AskAdd
  BY DEF Machine, AskSync, AskRename, AskRemove, AskAdd, Ask
<1>2. ~RenamePrinter /\ ~Unregister /\ ~Forget
  BY DEF RenamePrinter, Unregister, Forget
<1>3. ~AddOrUpdate
  <2> SUFFICES ASSUME AddOrUpdate PROVE FALSE OBVIOUS
  <2>1. l # started + 1 BY <1>0 DEF Started
  <2>2. loop'[l] = loop[l] BY <1>0, <2>1 DEF AddOrUpdate, TypeOK
  <2> QED BY <2>2
<1>4. ASSUME NEW k \in Started, Poll(k) PROVE FALSE
  <2>0. k \in Loops BY LanAssumption DEF TypeOK, Started, Loops
  <2>1. CASE Wake(k) BY <1>0, <2>0, <2>1 DEF Wake, TypeOK
  <2>2. CASE Fetch(k) BY <1>0, <2>0, <2>2 DEF Fetch, TypeOK
  <2>3. CASE StoreState(k) BY <1>0, <2>0, <2>3 DEF StoreState, TypeOK
  <2> QED BY <1>4, <2>1, <2>2, <2>3 DEF Poll
<1> QED BY <1>1, <1>2, <1>3, <1>4 DEF Next, Handler

LEMMA LanStep ==
    ASSUME NEW whole \in BOOLEAN, LanInv(whole), Next, whole => PollsWhole
    PROVE  LanInv(whole)'
<1>0. TypeOK /\ Registered /\ (whole => StoredIsMine) BY DEF LanInv
<1>1. PICK n \in Names, m \in Names : Shape(n, m, whole) BY DEF LanInv
<1>2. ASSUME loop' = loop, started' = started, whole
      PROVE  StoredIsMine' /\ \A l \in Started : loop[l].at # "stored"
  <2>1. ASSUME NEW l \in Started PROVE ~UpdateSession(l)
    <3> SUFFICES ASSUME UpdateSession(l) PROVE FALSE OBVIOUS
    <3>1. l \in Loops /\ loop[l].at = "stored" /\ loop' = [loop EXCEPT ![l].at = "resting"]
      BY <1>0, SessionAfter
    <3>2. loop'[l].at = "resting" BY <1>0, <3>1 DEF TypeOK
    <3> QED BY <1>2, <3>1, <3>2
  <2>2. \A l \in Started : loop[l].at # "stored" BY <1>0, <1>2, <2>1, NoneStored
  <2> QED BY <1>2, <2>2 DEF StoredIsMine, Started
<1>3. CASE Machine
  <2>1. UNCHANGED <<loop, started, current, todo, session>> BY <1>3 DEF Machine
  <2>2. TypeOK' /\ Registered' BY <1>0, <1>3, MachineTypes
  <2>3. Shape(n, m, whole)' BY <1>0, <1>1, <2>1, SameShape
  <2>4. whole => StoredIsMine' BY <1>2, <2>1
  <2> QED BY <2>2, <2>3, <2>4 DEF LanInv
<1>4. ASSUME NEW l \in Started, Poll(l) PROVE LanInv(whole)'
  <2>0. l \in Loops /\ started \in Nat BY <1>0, LanAssumption DEF TypeOK, Started, Loops
  <2>1. CASE Wake(l)
    <3>1. TypeOK' /\ Registered' BY <1>0, <2>1, WakeTypes
    <3>2. Shape(n, m, whole)' BY <1>0, <1>1, <2>1, SameShape DEF Wake
    <3>3. StoredIsMine => StoredIsMine'
      <4>1. PICK p \in {"fetching", "stopped"} : loop' = [loop EXCEPT ![l].at = p]
        BY <2>1 DEF Wake
      <4>2. /\ \A k \in Loops : loop'[k].at = IF k = l THEN p ELSE loop[k].at
            /\ \A k \in Loops : loop'[k].name = loop[k].name
        BY <1>0, <2>0, <4>1, LoopMoves, ZenonT(60) DEF Places
      <4>3. Started \subseteq Loops BY <1>0, LanAssumption DEF TypeOK, Started, Loops
      <4> QED BY <2>1, <4>2, <4>3 DEF Wake, StoredIsMine, Started, Mine
    <3> QED BY <1>0, <3>1, <3>2, <3>3 DEF LanInv
  <2>2. CASE Fetch(l)
    <3>1. TypeOK' /\ Registered' BY <1>0, <2>2, FetchTypes
    <3>2. /\ \A k \in Loops : loop'[k].at = IF k = l THEN "fetched" ELSE loop[k].at
          /\ \A k \in Loops : loop'[k].name = loop[k].name
      BY <1>0, <2>0, <2>2, SMTT(30) DEF Fetch, TypeOK
    <3>3. Shape(n, m, whole)' BY <1>0, <1>1, <2>2, <3>2, SameShape DEF Fetch
    <3>4. StoredIsMine => StoredIsMine'
      <4>3. Started \subseteq Loops BY <1>0, LanAssumption DEF TypeOK, Started, Loops
      <4>4. UNCHANGED <<current, started>> BY <2>2 DEF Fetch
      <4> QED BY <3>2, <4>3, <4>4 DEF StoredIsMine, Started, Mine
    <3> QED BY <1>0, <3>1, <3>3, <3>4 DEF LanInv
  <2>3. CASE StoreState(l)
    <3>1. TypeOK' /\ Registered' BY <1>0, <2>3, StoreTypes
    <3>2. PICK p \in {"stored", "stopped"} :
            loop' = [loop EXCEPT ![l].at = p] /\ (p = "stored" => Mine(l))
      BY <2>3 DEF StoreState, Mine
    <3>3. /\ \A k \in Loops : loop'[k].at = IF k = l THEN p ELSE loop[k].at
          /\ \A k \in Loops : loop'[k].name = loop[k].name
      BY <1>0, <2>0, <3>2, LoopMoves, ZenonT(60) DEF Places
    <3>4. Shape(n, m, whole)' BY <1>0, <1>1, <2>3, <3>3, SameShape DEF StoreState
    <3>5. StoredIsMine => StoredIsMine'
      <4>3. Started \subseteq Loops BY <1>0, LanAssumption DEF TypeOK, Started, Loops
      <4> QED BY <2>3, <3>2, <3>3, <4>3 DEF StoreState, StoredIsMine, Started, Mine
    <3> QED BY <1>0, <3>1, <3>4, <3>5 DEF LanInv
  <2>4. CASE UpdateSession(l)
    <3>1. TypeOK' /\ Registered' BY <1>0, <2>4, UpdateTypes
    <3>2. loop[l].at = "stored" /\ loop' = [loop EXCEPT ![l].at = "resting"] /\ UNCHANGED <<current, started>>
      BY <1>0, <2>4, SessionAfter
    <3>3. Shape(n, m, whole)' BY <1>0, <1>1, <2>4, <3>2, UpdateShape DEF StoredIsMine
    <3>4. /\ \A k \in Loops : loop'[k].at = IF k = l THEN "resting" ELSE loop[k].at
          /\ \A k \in Loops : loop'[k].name = loop[k].name
      BY <1>0, <2>0, <3>2, LoopMoves DEF Places
    <3>5. StoredIsMine => StoredIsMine'
      <4>3. Started \subseteq Loops BY <1>0, LanAssumption DEF TypeOK, Started, Loops
      <4> QED BY <3>2, <3>4, <4>3 DEF StoredIsMine, Started, Mine
    <3> QED BY <1>0, <3>1, <3>3, <3>5 DEF LanInv
  <2> QED BY <1>4, <2>1, <2>2, <2>3, <2>4 DEF Poll
<1>5. CASE AskSync \/ AskRename \/ AskRemove \/ AskAdd
  <2>1. TypeOK' /\ Registered' /\ \E a, b \in Names : Shape(a, b, whole)'
    BY <1>0, <1>1, <1>5, AskShape
  <2>2. loop' = loop /\ started' = started BY <1>5 DEF AskSync, AskRename, AskRemove, AskAdd, Ask
  <2> QED BY <1>2, <2>1, <2>2 DEF LanInv
<1>6. CASE RenamePrinter
  <2>1. TypeOK' /\ Registered' /\ Shape(n, m, whole)' BY <1>0, <1>1, <1>6, RenameShape
  <2>2. loop' = loop /\ started' = started BY <1>6 DEF RenamePrinter
  <2> QED BY <1>2, <2>1, <2>2 DEF LanInv
<1>7. CASE Unregister
  <2>1. TypeOK' /\ Registered' /\ Shape(n, m, whole)' BY <1>0, <1>1, <1>7, UnregisterShape
  <2>2. loop' = loop /\ started' = started BY <1>7 DEF Unregister
  <2> QED BY <1>2, <2>1, <2>2 DEF LanInv
<1>8. CASE Forget
  <2>1. TypeOK' /\ Registered' /\ (Shape(n, m, whole)' \/ Shape(m, n, whole)')
    BY <1>0, <1>1, <1>8, ForgetShape
  <2>2. loop' = loop /\ started' = started BY <1>8 DEF Forget
  <2> QED BY <1>2, <2>1, <2>2 DEF LanInv
<1>9. CASE AddOrUpdate
  <2>1. /\ TypeOK' /\ Registered' /\ Shape(n, m, whole)' /\ started + 1 \in Loops
        /\ loop' = [loop EXCEPT ![started + 1] = NewLoop(n)] /\ started' = started + 1
    BY <1>0, <1>1, <1>9, AddShape
  <2>2. ASSUME whole PROVE StoredIsMine'
    <3>0. started \in Nat BY <1>0, LanAssumption DEF TypeOK, Loops
    <3>1. ASSUME NEW l \in Started PROVE ~UpdateSession(l)
      <4>1. started' # started BY <2>1, <3>0
      <4> QED BY <1>0, <4>1, SessionAfter
    <3>2. \A l \in Started : loop[l].at # "stored" BY <1>0, <2>2, <3>1, NoneStored
    <3>3. \A l \in Loops : loop'[l].at # "stored" \/ (l # started + 1 /\ loop'[l] = loop[l])
      BY <1>0, <2>1 DEF TypeOK, NewLoop
    <3>4. Started' \subseteq Loops /\ \A l \in Started' : l = started + 1 \/ l \in Started
      BY <2>1, <3>0, LanAssumption DEF Started, Loops
    <3> QED BY <3>2, <3>3, <3>4 DEF StoredIsMine
  <2> QED BY <2>1, <2>2 DEF LanInv
<1> QED BY <1>3, <1>4, <1>5, <1>6, <1>7, <1>8, <1>9 DEF Next, Handler

LEMMA LanStutter ==
    ASSUME NEW whole \in BOOLEAN, LanInv(whole), UNCHANGED vars
    PROVE  LanInv(whole)'
<1>1. PICK n \in Names, m \in Names : Shape(n, m, whole) BY DEF LanInv
<1>2. TypeOK' /\ Registered' BY DEF LanInv, vars, TypeOK, Registered, Started
<1>3. Shape(n, m, whole)' BY <1>1, SameShape DEF LanInv, vars
<1>4. StoredIsMine => StoredIsMine' BY DEF vars, StoredIsMine, Started, Mine
<1> QED BY <1>2, <1>3, <1>4 DEF LanInv

(* Whatever the user, the network and the printer do, and in whatever order  *)
(* polls and handlers take their locks: the bookkeeping keeps its types, and *)
(* there is no state of a printer that has no poll loop.                     *)
LEMMA LanInvariance == Spec => []LanInv(FALSE)
<1>1. Init => LanInv(FALSE) BY LanInit
<1>2. LanInv(FALSE) /\ [Next]_vars => LanInv(FALSE)' BY LanStep, LanStutter
<1> QED BY <1>1, <1>2, PTL DEF Spec

(* Polls, requests and outages keep the types, for any of the constants.     *)
THEOREM LanTypes == Spec => []TypeOK
<1>1. LanInv(FALSE) => TypeOK BY DEF LanInv
<1> QED BY <1>1, LanInvariance, PTL

(* A poll under way when its printer is removed or renamed does not bring    *)
(* the state back, even where another runs between its two halves.           *)
THEOREM StatesStayRemoved == Spec => []RemovedStaysRemoved
<1>1. LanInv(FALSE) => RemovedStaysRemoved BY DEF LanInv, Registered, RemovedStaysRemoved
<1> QED BY <1>1, LanInvariance, PTL

-----------------------------------------------------------------------------
(* Where polls are whole: prints and their records.                          *)
Past(j)    == j < machine.job \/ (j = machine.job /\ machine.status \in Over)
Pending(l) == l \in Started /\ Mine(l) /\ loop[l].at \in {"fetched", "stored"}
Counts(i)  == history[i].cause # "lost"

(* A poll under way is not behind its session, nor before the machine.       *)
PollFits(l) ==
    /\ Sess(l).job <= Tel(l).job /\ Tel(l).job <= machine.job
    /\ Tel(l).status \in Over => Past(Tel(l).job)

(* A print that is recorded is past, and no session or poll has it any more. *)
Closed(j) ==
    /\ Past(j)
    /\ \A n \in Names : session[n].job # j
    /\ \A l \in Loops : Pending(l) /\ Tel(l).status \in InPrint => Tel(l).job # j

JobsInv ==
    /\ \A n \in Names : session[n].job <= machine.job
    /\ \A l \in Loops : Pending(l) => PollFits(l)
    /\ \A i \in DOMAIN history : Counts(i) => Closed(history[i].job)
    /\ \A i, k \in DOMAIN history :
          Counts(i) /\ Counts(k) /\ history[i].job = history[k].job => i = k

LEMMA JobsInit == Init => JobsInv
BY LanAssumption DEF Init, JobsInv, Pending, NewLoop, NoSession, Loops, Started

(* What is recorded is of a print.                                           *)
LEMMA RecordedJobs ==
    ASSUME TypeOK
    PROVE  \A i \in DOMAIN history : history[i].job \in Nat /\ history[i].job # 0
<1>1. \A S : history \in Seq(S) => \A i \in DOMAIN history : history[i] \in S OBVIOUS
<1>2. \A i \in DOMAIN history : history[i] \in [name : Names, job : Jobs,
          result : {"finished", "error", "cancelled"}, cause : {"seen", "replaced", "lost"}]
  BY <1>1 DEF TypeOK
<1> QED BY <1>2, LanAssumption DEF Jobs

(* The sessions and polls after a step that records nothing.                 *)
LEMMA NothingRecorded ==
    ASSUME TypeOK, JobsInv, history' = history,
           \A n \in Names : session'[n].job <= machine'.job,
           \A l \in Loops : Pending(l)' => PollFits(l)',
           \A j \in Nat : j # 0 /\ Closed(j) => Closed(j)'
    PROVE  JobsInv'
<1>1. \A i \in DOMAIN history : Counts(i) => Closed(history[i].job)'
  BY RecordedJobs DEF JobsInv
<1>2. (\A i \in DOMAIN history : Counts(i) => Closed(history[i].job))'
  BY <1>1 DEF Counts
<1>3. (\A i, k \in DOMAIN history : Counts(i) /\ Counts(k) /\ history[i].job = history[k].job => i = k)'
  BY DEF JobsInv, Counts
<1> QED BY <1>2, <1>3 DEF JobsInv

(* What is past stays past.                                                  *)
LEMMA PastStays ==
    ASSUME TypeOK, Machine \/ machine' = machine
    PROVE  machine.job <= machine'.job /\ \A j \in Nat : Past(j) => Past(j)'
<1>1. machine \in [job : 0 .. MaxJobs, status : InPrint \cup Over, up : BOOLEAN] /\ MaxJobs \in Nat
  BY LanAssumption DEF TypeOK
<1>2. CASE machine' = machine BY <1>1, <1>2 DEF Past
<1>3. CASE StartPrint
  BY <1>1, <1>3 DEF Past, StartPrint, InPrint, Over
<1>4. CASE PauseOrResume
  BY <1>1, <1>4 DEF Past, PauseOrResume, InPrint, Over
<1>5. CASE EndPrint
  BY <1>1, <1>5 DEF Past, EndPrint, InPrint, Over
<1>6. CASE LoseReach \/ RegainReach
  BY <1>1, <1>6 DEF Past, LoseReach, RegainReach
<1> QED BY <1>2, <1>3, <1>4, <1>5, <1>6 DEF Machine

(* At most one poll is under way in a registered loop.                       *)
LEMMA OnePending ==
    ASSUME TypeOK, Registered, NEW n \in Names, OnlyOf(n), NEW l \in Started, Mine(l)
    PROVE  l \in Loops /\ loop[l].name = n /\ current[n] = l
<1>1. l \in Loops /\ l # 0 BY LanAssumption DEF TypeOK, Started, Loops
<1>2. loop[l].name \in Names BY <1>1 DEF TypeOK
<1> QED BY <1>1, <1>2 DEF OnlyOf, Mine

(* A poll that finds a session finds the only one.                           *)
LEMMA OnlySession ==
    ASSUME TypeOK, Registered, NEW n \in Names, NEW m \in Names, Shape(n, m, TRUE),
           NEW l \in Started, Mine(l), loop[l].at = "stored"
    PROVE  /\ OnlyOf(n)
           /\ Sess(l) # NoSession => \A k \in Names : k # loop[l].name => session[k] = NoSession
<1>0. l \in Loops /\ l # 0 BY LanAssumption DEF TypeOK, Started, Loops
<1>1. l \in Loops /\ l # 0 /\ loop[l].name \in Names BY <1>0 DEF TypeOK
<1>2. ~NoLoop BY <1>1 DEF NoLoop, Mine
<1>3. OnlyOf(n) BY <1>2 DEF Shape
<1>4. loop[l].name = n /\ current[n] = l /\ Sess(l) = session[n] BY <1>3, OnePending DEF Sess
<1>5. loop[current[n]].at # "resting" /\ current[n] # 0 BY <1>1, <1>4
<1>6. session[n] # NoSession => HeldBy({n})
  <2> HIDE DEF OnlyOf, NoLoop, HeldBy
  <2> QED BY <1>2, <1>5 DEF Shape
<1> QED BY <1>3, <1>4, <1>6 DEF HeldBy

(* A record that counts is of a print that is past.                          *)
LEMMA RecordCounts ==
    ASSUME TypeOK, Registered, NEW l \in Started, PollFits(l), UpdateSession(l), history' # history
    PROVE  \E r, c : /\ history' = Append(history, [name |-> loop[l].name, job |-> Sess(l).job,
                                                     result |-> r, cause |-> c])
                     /\ Sess(l) # NoSession /\ Sess(l).job \in Nat /\ Sess(l).job # 0
                     /\ \/ c = "lost"
                        \/ Past(Sess(l).job) /\ session'[loop[l].name].job # Sess(l).job
<1>1. /\ l \in Loops /\ loop[l].name \in Names
      /\ Sess(l).job \in Nat /\ (Sess(l) # NoSession => Sess(l).job # 0)
      /\ Tel(l).job \in Nat /\ machine.job \in Nat
  <2>1. l \in Loops BY LanAssumption DEF TypeOK, Started, Loops
  <2>2. loop[l] \in [name : Names, at : Places, tel : Telemetry] BY <2>1 DEF TypeOK
  <2>3. session[loop[l].name] \in [job : 0 .. MaxJobs, lost : 0 .. PollGrace] BY <2>2 DEF TypeOK
  <2> QED BY <2>1, <2>2, <2>3, LanAssumption DEF TypeOK, Registered, Sess, Tel, Telemetry
<1>2. ASSUME NEW s, Keep(l, s) PROVE session'[loop[l].name] = s
  BY <1>1, <1>2 DEF Keep, TypeOK
<1>3. CASE PollFailed(l)
  BY <1>1, <1>3 DEF PollFailed, NoRecord, Record
<1>4. CASE Replaced(l)
  <2>1. session'[loop[l].name].job = Tel(l).job BY <1>2, <1>4 DEF Replaced
  <2>2. Tel(l).job # Sess(l).job /\ Sess(l) # NoSession BY <1>4 DEF Replaced, AnotherFile
  <2>3. Past(Sess(l).job) BY <1>1, <2>2 DEF PollFits, Past
  <2> QED BY <1>1, <1>4, <2>1, <2>2, <2>3 DEF Replaced, Record
<1>5. CASE NoSessionYet(l) \/ Ongoing(l)
  BY <1>5 DEF NoSessionYet, Ongoing, NoRecord
<1>6. CASE PrintOver(l)
  <2>1. session'[loop[l].name].job = 0 BY <1>2, <1>6 DEF PrintOver, NoSession
  <2>2. Past(Sess(l).job) BY <1>1, <1>6 DEF PrintOver, PollFits, Past
  <2> QED BY <1>1, <1>6, <2>1, <2>2 DEF PrintOver, Record
<1> QED BY <1>3, <1>4, <1>5, <1>6 DEF UpdateSession

-----------------------------------------------------------------------------
(* Each step keeps prints and records in order.                              *)
LEMMA JobTypes ==
    ASSUME TypeOK
    PROVE  /\ machine.job \in Nat
           /\ \A n \in Names : session[n].job \in Nat
           /\ \A l \in Loops : loop[l].name \in Names /\ Tel(l).job \in Nat /\ Sess(l).job \in Nat
<1>1. \A n \in Names : session[n] \in [job : 0 .. MaxJobs, lost : 0 .. PollGrace] BY DEF TypeOK
<1>2. \A l \in Loops : loop[l] \in [name : Names, at : Places, tel : Telemetry] BY DEF TypeOK
<1>3. \A l \in Loops : loop[l].name \in Names /\ loop[l].tel \in Telemetry BY <1>2
<1>4. \A l \in Loops : Tel(l).job \in 0 .. MaxJobs BY <1>3 DEF Tel, Telemetry
<1> QED BY <1>1, <1>3, <1>4, LanAssumption DEF TypeOK, Sess

LEMMA MachineJobs ==
    ASSUME TypeOK, Registered, JobsInv, Machine
    PROVE  JobsInv'
<1>1. UNCHANGED <<loop, started, current, states, session, todo, history>> BY DEF Machine
<1>2. machine.job <= machine'.job /\ \A j \in Nat : Past(j) => Past(j)' BY PastStays
<1>3. machine'.job \in Nat BY MachineTypes, LanAssumption DEF TypeOK
<1>4. \A n \in Names : session'[n].job <= machine'.job
  BY <1>1, <1>2, <1>3, JobTypes DEF JobsInv
<1>5. \A l \in Loops : /\ Sess(l)' = Sess(l) /\ Tel(l)' = Tel(l)
                       /\ Pending(l)' = Pending(l)
  BY <1>1 DEF Sess, Tel, Pending, Mine, Started
<1>6. \A l \in Loops : Pending(l)' => PollFits(l)'
  <2> SUFFICES ASSUME NEW l \in Loops, Pending(l) PROVE PollFits(l)'
    BY <1>5
  <2>1. PollFits(l) BY DEF JobsInv
  <2>2. Tel(l).job \in Nat /\ machine.job \in Nat BY JobTypes
  <2>3. Tel(l).status \in Over => Past(Tel(l).job)' BY <1>1, <1>2, <2>1, <2>2 DEF PollFits, Tel
  <2> QED BY <1>2, <1>3, <1>5, <2>1, <2>2, <2>3 DEF PollFits
<1>7. \A j \in Nat : Closed(j) => Closed(j)'
  BY <1>1, <1>2, <1>5 DEF Closed
<1> QED BY <1>1, <1>4, <1>6, <1>7, NothingRecorded

(* A step that keeps the sessions, and under which no poll begins to be      *)
(* under way, keeps everything in order.                                     *)
LEMMA QuietJobs ==
    ASSUME TypeOK, JobsInv, UNCHANGED <<machine, history>>,
           \A n \in Names : session'[n].job = 0 \/ \E k \in Names : session'[n].job = session[k].job,
           \A l \in Loops : Pending(l)' =>
              /\ Pending(l) /\ Tel(l)' = Tel(l)
              /\ Sess(l)'.job = 0 \/ Sess(l)' = Sess(l)
    PROVE  JobsInv'
<1>1. \A n \in Names : session'[n].job <= machine'.job
  BY JobTypes DEF JobsInv
<1>2. \A j \in Nat : Past(j) => Past(j)' BY DEF Past
<1>3. \A l \in Loops : Pending(l)' => PollFits(l)'
  <2> SUFFICES ASSUME NEW l \in Loops, Pending(l)' PROVE PollFits(l)'
    OBVIOUS
  <2>1. PollFits(l) BY DEF JobsInv
  <2>2. Tel(l).job \in Nat /\ machine.job \in Nat BY JobTypes
  <2>3. Tel(l)' = Tel(l) /\ (Sess(l)'.job = 0 \/ Sess(l)' = Sess(l)) OBVIOUS
  <2>4. Tel(l).status \in Over => Past(Tel(l).job)'
    BY <2>1, <2>3 DEF PollFits, Past
  <2> QED BY <2>1, <2>2, <2>3, <2>4 DEF PollFits
<1>4. \A j \in Nat : j # 0 /\ Closed(j) => Closed(j)'
  BY <1>2 DEF Closed
<1> QED BY <1>1, <1>3, <1>4, NothingRecorded

LEMMA WakeJobs ==
    ASSUME TypeOK, JobsInv, NEW l \in Started, Wake(l)
    PROVE  JobsInv'
<1>1. l \in Loops BY LanAssumption DEF TypeOK, Started, Loops
<1>2. PICK p \in {"fetching", "stopped"} : loop' = [loop EXCEPT ![l].at = p]
  BY DEF Wake
<1>3. /\ \A k \in Loops : loop'[k].at = IF k = l THEN p ELSE loop[k].at
      /\ \A k \in Loops : loop'[k].name = loop[k].name /\ loop'[k].tel = loop[k].tel
  BY <1>1, <1>2, LoopMoves, ZenonT(60) DEF Places
<1>4. UNCHANGED <<machine, started, current, session, history>> BY DEF Wake
<1>5. \A k \in Loops : Pending(k)' => Pending(k) /\ Tel(k)' = Tel(k) /\ Sess(k)' = Sess(k)
  BY <1>3, <1>4 DEF Pending, Mine, Tel, Sess, Started
<1> QED BY <1>4, <1>5, QuietJobs

LEMMA FetchJobs ==
    ASSUME TypeOK, Registered, JobsInv, NEW l \in Started, Fetch(l)
    PROVE  JobsInv'
<1>1. l \in Loops BY LanAssumption DEF TypeOK, Started, Loops
<1>2. PICK t : /\ t = [status |-> IF machine.up THEN machine.status ELSE "disconnected", job |-> machine.job]
               /\ loop' = [loop EXCEPT ![l].at = "fetched", ![l].tel = t]
  BY DEF Fetch
<1>3. UNCHANGED <<machine, started, current, session, history>> BY DEF Fetch
<1>4. /\ \A k \in Loops : loop'[k].name = loop[k].name
      /\ \A k \in Loops : k # l => loop'[k] = loop[k]
      /\ loop'[l].tel = t
  BY <1>1, <1>2 DEF TypeOK
<1>5. /\ \A k \in Loops : Sess(k)' = Sess(k) /\ Mine(k)' = Mine(k)
      /\ \A k \in Loops : k # l => Tel(k)' = Tel(k) /\ Pending(k)' = Pending(k)
      /\ Tel(l)' = t
  BY <1>3, <1>4 DEF Pending, Mine, Tel, Sess, Started
<1>6. t.job = machine.job /\ (t.status \in InPrint \cup Over => t.status = machine.status)
  BY <1>2 DEF InPrint, Over
<1>7. \A j \in Nat : Past(j)' = Past(j) BY <1>3 DEF Past
<1>8. \A n \in Names : session'[n].job <= machine'.job
  BY <1>3 DEF JobsInv
<1>9. \A k \in Loops : Pending(k)' => PollFits(k)'
  <2> SUFFICES ASSUME NEW k \in Loops, Pending(k)' PROVE PollFits(k)'
    OBVIOUS
  <2>0. Tel(k).job \in Nat /\ machine.job \in Nat /\ loop[k].name \in Names BY JobTypes
  <2>1. CASE k = l
    <3>1. Sess(k).job <= machine.job BY <2>0 DEF Sess, JobsInv
    <3>2. t.status \in Over => Past(machine.job)' BY <1>3, <1>6 DEF Past
    <3>3. Tel(k)'.job = machine.job /\ Tel(k)'.status = t.status BY <1>5, <1>6, <2>1
    <3> QED BY <1>3, <1>5, <2>0, <2>1, <3>1, <3>2, <3>3 DEF PollFits, Past
  <2>2. CASE k # l
    <3>1. PollFits(k) BY <1>5, <2>2 DEF JobsInv
    <3>2. Tel(k)' = Tel(k) /\ Sess(k)' = Sess(k) BY <1>5, <2>2
    <3> QED BY <1>3, <3>1, <3>2 DEF PollFits, Past
  <2> QED BY <2>1, <2>2
<1>10. \A j \in Nat : Closed(j) => Closed(j)'
  <2> SUFFICES ASSUME NEW j \in Nat, Closed(j) PROVE Closed(j)' OBVIOUS
  <2>1. machine.status \in InPrint => machine.job # j
    BY JobTypes DEF Closed, Past, InPrint, Over
  <2>2. \A k \in Loops : Pending(k)' /\ Tel(k)'.status \in InPrint => Tel(k)'.job # j
    BY <1>5, <1>6, <2>1 DEF Closed
  <2> QED BY <1>3, <1>7, <2>2 DEF Closed
<1> QED BY <1>3, <1>8, <1>9, <1>10, NothingRecorded

LEMMA StoreJobs ==
    ASSUME TypeOK, JobsInv, NEW l \in Started, StoreState(l)
    PROVE  JobsInv'
<1>1. l \in Loops BY LanAssumption DEF TypeOK, Started, Loops
<1>2. PICK p \in {"stored", "stopped"} : loop' = [loop EXCEPT ![l].at = p]
  BY DEF StoreState
<1>3. /\ \A k \in Loops : loop'[k].at = IF k = l THEN p ELSE loop[k].at
      /\ \A k \in Loops : loop'[k].name = loop[k].name /\ loop'[k].tel = loop[k].tel
  BY <1>1, <1>2, LoopMoves, ZenonT(60) DEF Places
<1>4. UNCHANGED <<machine, started, current, session, history>> /\ loop[l].at = "fetched" BY DEF StoreState
<1>5. \A k \in Loops : Pending(k)' => Pending(k) /\ Tel(k)' = Tel(k) /\ Sess(k)' = Sess(k)
  BY <1>3, <1>4 DEF Pending, Mine, Tel, Sess, Started
<1> QED BY <1>4, <1>5, QuietJobs

LEMMA UpdateJobs ==
    ASSUME TypeOK, Registered, JobsInv, \E n, m \in Names : Shape(n, m, TRUE), StoredIsMine,
           NEW l \in Started, UpdateSession(l)
    PROVE  JobsInv'
<1>1. /\ l \in Loops /\ loop[l].name \in Names /\ loop[l].at = "stored"
      /\ loop' = [loop EXCEPT ![l].at = "resting"]
      /\ UNCHANGED <<machine, outages, started, current, states, todo>>
  BY SessionAfter
<1>2. Mine(l) /\ Pending(l) /\ PollFits(l) BY <1>1 DEF StoredIsMine, Pending, JobsInv
<1>3. PICK n \in Names, m \in Names : Shape(n, m, TRUE) OBVIOUS
<1>4. /\ OnlyOf(n)
      /\ Sess(l) # NoSession => \A k \in Names : k # loop[l].name => session[k] = NoSession
  BY <1>1, <1>2, <1>3, OnlySession
<1>5. /\ \A k \in Loops : loop'[k].at = IF k = l THEN "resting" ELSE loop[k].at
      /\ \A k \in Loops : loop'[k].name = loop[k].name
  BY <1>1, LoopMoves DEF Places
<1>6. ASSUME NEW k \in Loops PROVE ~Pending(k)'
  <2> SUFFICES ASSUME Pending(k)' PROVE FALSE OBVIOUS
  <2>1. k \in Started /\ Mine(k) /\ k # l
    BY <1>1, <1>5 DEF Pending, Mine, Started
  <2> QED BY <1>2, <1>4, <2>1, OnePending
<1>7. PICK s \in [job : 0 .. MaxJobs, lost : 0 .. PollGrace] :
        /\ session' = [session EXCEPT ![loop[l].name] = s]
        /\ s.job \in {0, Sess(l).job} \/ (Tel(l).status = "printing" /\ s.job = Tel(l).job)
  BY SessionAfter
<1>8. /\ session'[loop[l].name] = s
      /\ \A k \in Names : k # loop[l].name => session'[k] = session[k]
  BY <1>1, <1>7 DEF TypeOK
<1>9. \A k \in Names : session'[k].job <= machine'.job
  <2>1. s.job <= machine.job BY <1>1, <1>2, <1>7, JobTypes DEF PollFits
  <2> QED BY <1>1, <1>8, <2>1 DEF JobsInv
<1>10. \A j \in Nat : j # 0 /\ Closed(j) => Closed(j)'
  <2> SUFFICES ASSUME NEW j \in Nat, j # 0, Closed(j) PROVE Closed(j)' OBVIOUS
  <2>1. Past(j)' BY <1>1 DEF Closed, Past
  <2>2. s.job # j BY <1>1, <1>2, <1>7 DEF Closed, Sess, InPrint
  <2> QED BY <1>6, <1>8, <2>1, <2>2 DEF Closed
<1>11. CASE history' = history
  BY <1>6, <1>9, <1>10, <1>11, NothingRecorded
<1>12. CASE history' # history
  <2>1. PICK r, c : /\ history' = Append(history, [name |-> loop[l].name, job |-> Sess(l).job,
                                                   result |-> r, cause |-> c])
                    /\ Sess(l) # NoSession /\ Sess(l).job \in Nat /\ Sess(l).job # 0
                    /\ \/ c = "lost"
                       \/ Past(Sess(l).job) /\ session'[loop[l].name].job # Sess(l).job
    BY <1>2, <1>12, RecordCounts
  <2>2. PICK j \in Nat : j = Sess(l).job BY <2>1
  <2>3. /\ DOMAIN history' = 1 .. Len(history) + 1 /\ DOMAIN history = 1 .. Len(history)
        /\ Len(history) \in Nat
        /\ \A i \in 1 .. Len(history) : history'[i] = history[i]
        /\ history'[Len(history) + 1].job = j /\ history'[Len(history) + 1].cause = c
    <3>1. PICK S : history \in Seq(S) BY DEF TypeOK
    <3> QED BY <2>1, <2>2, <3>1
  <2>4. j # 0 /\ ~Closed(j)
    BY <1>1, <2>1, <2>2 DEF Closed, Sess
  <2>5. c # "lost" => Closed(j)'
    <3> SUFFICES ASSUME c # "lost" PROVE Closed(j)' OBVIOUS
    <3>1. Past(j)' BY <1>1, <2>1, <2>2 DEF Past
    <3>2. session'[loop[l].name].job # j BY <2>1, <2>2
    <3>3. ASSUME NEW k \in Names, k # loop[l].name PROVE session'[k].job # j
      <4>1. session[k].job = 0 BY <1>4, <2>1, <3>3 DEF NoSession
      <4> QED BY <1>8, <2>4, <3>3, <4>1
    <3> QED BY <1>6, <3>1, <3>2, <3>3 DEF Closed
  <2>6. \A i \in DOMAIN history : Counts(i) => \E h \in Nat : h = history[i].job /\ h # j /\ Closed(h)'
    <3> SUFFICES ASSUME NEW i \in DOMAIN history, Counts(i)
                 PROVE  \E h \in Nat : h = history[i].job /\ h # j /\ Closed(h)'
      OBVIOUS
    <3>1. PICK h \in Nat : h = history[i].job /\ h # 0 BY RecordedJobs
    <3>2. Closed(h) BY <3>1 DEF JobsInv
    <3> QED BY <1>10, <2>4, <3>1, <3>2
  <2>7. (\A i \in DOMAIN history : Counts(i) => Closed(history[i].job))'
    <3> SUFFICES ASSUME NEW i \in DOMAIN history', Counts(i)'
                 PROVE  \E h \in Nat : h = history'[i].job /\ Closed(h)'
      BY DEF Closed, Past
    <3>1. CASE i = Len(history) + 1 BY <2>2, <2>3, <2>5, <3>1 DEF Counts
    <3>2. CASE i # Len(history) + 1
      <4>1. i \in DOMAIN history /\ history'[i] = history[i] BY <2>3, <3>2
      <4> QED BY <2>6, <4>1 DEF Counts
    <3> QED BY <3>1, <3>2
  <2>8. (\A i, k \in DOMAIN history : Counts(i) /\ Counts(k) /\ history[i].job = history[k].job => i = k)'
    <3> SUFFICES ASSUME NEW i \in DOMAIN history', NEW k \in DOMAIN history', Counts(i)', Counts(k)',
                        history'[i].job = history'[k].job
                 PROVE  i = k
      OBVIOUS
    <3>1. ASSUME NEW d \in DOMAIN history', d # Len(history) + 1, Counts(d)'
          PROVE  d \in DOMAIN history /\ Counts(d) /\ history'[d] = history[d] /\ history'[d].job # j
      <4>1. d \in DOMAIN history /\ history'[d] = history[d] BY <2>3, <3>1
      <4>2. Counts(d) BY <3>1, <4>1 DEF Counts
      <4> QED BY <2>6, <4>1, <4>2
    <3> QED BY <2>3, <3>1 DEF JobsInv
  <2> QED BY <1>6, <1>9, <2>7, <2>8 DEF JobsInv
<1> QED BY <1>11, <1>12

(* The calls of a handler.                                                   *)
LEMMA RenameJobs ==
    ASSUME TypeOK, Registered, JobsInv, \E n, m \in Names : Shape(n, m, TRUE), RenamePrinter
    PROVE  JobsInv'
<1>1. PICK n \in Names, m \in Names : Shape(n, m, TRUE) OBVIOUS
<1>2. /\ todo = <<Renames(n, m), Unregs(n), Forgets(n), Adds(m)>>
      /\ session' = IF session[n] # NoSession
                    THEN [session EXCEPT ![m] = session[n], ![n] = NoSession] ELSE session
  BY <1>1, RenameShape
<1>3. OnlyOf(n)
  <2>1. CallOf(todo) = "RenamePrinter" /\ todo # <<>> BY <1>2, FirstCalls, Rest
  <2> HIDE DEF OnlyOf, HeldBy, NoLoop, Renames, Unregs, Forgets, Adds
  <2> QED BY <1>1, <2>1, FirstCalls DEF Shape
<1>4. UNCHANGED <<machine, loop, started, current, history>> BY DEF RenamePrinter
<1>5. /\ \A k \in Names : session'[k] \in {session[k], session[n], NoSession}
      /\ session'[n] = NoSession
  BY <1>2 DEF TypeOK
<1>6. \A k \in Names : session'[k].job = 0 \/ \E h \in Names : session'[k].job = session[h].job
  BY <1>5 DEF NoSession
<1>7. ASSUME NEW l \in Loops, Pending(l)' PROVE Pending(l) /\ Tel(l)' = Tel(l) /\ Sess(l)'.job = 0
  <2>1. Pending(l) /\ Tel(l)' = Tel(l) /\ loop'[l].name = loop[l].name
    BY <1>4, <1>7 DEF Pending, Mine, Tel, Started
  <2>2. loop[l].name = n BY <1>3, <2>1, OnePending DEF Pending
  <2> QED BY <1>5, <2>1, <2>2 DEF Sess, NoSession
<1> QED BY <1>4, <1>6, <1>7, QuietJobs

LEMMA UnregisterJobs ==
    ASSUME TypeOK, Registered, JobsInv, \E n, m \in Names : Shape(n, m, TRUE), Unregister
    PROVE  JobsInv'
<1>1. NoLoop' /\ UNCHANGED <<machine, loop, started, session, history>>
  BY UnregisterShape
<1>2. ASSUME NEW l \in Loops PROVE ~Pending(l)'
  <2>1. loop[l].name \in Names /\ l # 0 BY JobTypes DEF Loops
  <2> QED BY <1>1, <2>1 DEF Pending, Mine, NoLoop
<1> QED BY <1>1, <1>2, QuietJobs

LEMMA ForgetJobs ==
    ASSUME TypeOK, Registered, JobsInv, \E n, m \in Names : Shape(n, m, TRUE), Forget
    PROVE  JobsInv'
<1>1. PICK n \in Names, m \in Names : Shape(n, m, TRUE) OBVIOUS
<1>2. session' = [session EXCEPT ![n] = NoSession] /\ NoLoop
      /\ UNCHANGED <<machine, outages, loop, started, current, history>>
  BY <1>1, ForgetShape
<1>3. ASSUME NEW l \in Loops PROVE ~Pending(l)'
  <2>1. loop[l].name \in Names /\ l # 0 BY JobTypes DEF Loops
  <2> QED BY <1>2, <2>1 DEF Pending, Mine, NoLoop
<1>4. \A k \in Names : session'[k].job = 0 \/ session'[k].job = session[k].job
  BY <1>2 DEF TypeOK, NoSession
<1> QED BY <1>2, <1>3, <1>4, QuietJobs

(* The registered loop that a handler starts has not polled yet.             *)
LEMMA AddPending ==
    ASSUME TypeOK, Registered, NEW n \in Names, NEW m \in Names, Shape(n, m, TRUE), AddOrUpdate
    PROVE  \A l \in Loops : ~Pending(l)'
<1>1. /\ OnlyOf(n) /\ started + 1 \in Loops /\ current' = [current EXCEPT ![n] = started + 1]
      /\ loop' = [loop EXCEPT ![started + 1] = NewLoop(n)] /\ started' = started + 1
  BY AddShape
<1> SUFFICES ASSUME NEW l \in Loops PROVE ~Pending(l)'
  OBVIOUS
<1>2. CASE l = started + 1
  <2>1. loop'[l].at = "fetching" BY <1>1, <1>2 DEF TypeOK, NewLoop
  <2> QED BY <2>1 DEF Pending
<1>3. CASE l # started + 1
  <2>1. loop'[l].name = loop[l].name /\ loop[l].name \in Names /\ l # 0
    BY <1>1, <1>3, JobTypes DEF TypeOK, Loops
  <2>2. current'[loop[l].name] \in {0, started + 1} BY <1>1, <2>1 DEF TypeOK, OnlyOf
  <2> QED BY <1>3, <2>1, <2>2 DEF Pending, Mine
<1> QED BY <1>2, <1>3

LEMMA AddJobs ==
    ASSUME TypeOK, Registered, JobsInv, \E n, m \in Names : Shape(n, m, TRUE), AddOrUpdate
    PROVE  JobsInv'
<1>1. PICK n \in Names, m \in Names : Shape(n, m, TRUE) OBVIOUS
<1>2. UNCHANGED <<machine, session, history>> BY DEF AddOrUpdate
<1>3. \A l \in Loops : ~Pending(l)' BY <1>1, AddPending
<1> QED BY <1>2, <1>3, QuietJobs

(* No step of the machine, a poll or a handler, where polls are whole,       *)
(* disturbs what is recorded.                                                *)
LEMMA JobsStep ==
    ASSUME LanInv(TRUE), JobsInv, Next
    PROVE  JobsInv'
<1>1. TypeOK /\ Registered /\ StoredIsMine /\ \E n, m \in Names : Shape(n, m, TRUE) BY DEF LanInv
<1>2. CASE AskSync \/ AskRename \/ AskRemove \/ AskAdd
  <2>1. UNCHANGED <<machine, loop, started, current, session, history>>
    BY <1>2 DEF AskSync, AskRename, AskRemove, AskAdd, Ask
  <2>2. \A l \in Loops : Pending(l)' => Pending(l) /\ Tel(l)' = Tel(l) /\ Sess(l)' = Sess(l)
    BY <2>1 DEF Pending, Mine, Tel, Sess, Started
  <2> QED BY <1>1, <2>1, <2>2, QuietJobs
<1> QED BY <1>1, <1>2, MachineJobs, WakeJobs, FetchJobs, StoreJobs, UpdateJobs, RenameJobs, UnregisterJobs,
           ForgetJobs, AddJobs DEF Next, Poll, Handler

LEMMA JobsStutter ==
    ASSUME JobsInv, UNCHANGED vars
    PROVE  JobsInv'
BY DEF vars, JobsInv, Pending, PollFits, Closed, Past, Counts, Mine, Sess, Tel, Started

(* The sessions' part of a behaviour's invariant: polls are whole unless the *)
(* part is the overtaken one.                                                *)
PartsInv == LanInv(part # "overtaken") /\ (part # "overtaken" => JobsInv)

LEMMA PartsInvariance == MCSpec => []PartsInv
<1>1. MCInit => PartsInv BY LanInit, JobsInit DEF MCInit, PartsInv
<1>2. ASSUME PartsInv, SessionStep PROVE PartsInv'
  <2>1. part' = part /\ Next /\ (part # "overtaken" => PollsWhole) BY <1>2 DEF SessionStep
  <2>2. LanInv(part # "overtaken") /\ (part # "overtaken" => JobsInv) BY <1>2 DEF PartsInv
  <2>3. CASE part = "overtaken"
    <3>1. LanInv(FALSE)' BY <2>1, <2>2, <2>3, LanStep
    <3> QED BY <2>1, <2>3, <3>1 DEF PartsInv
  <2>4. CASE part # "overtaken"
    <3>1. LanInv(TRUE)' BY <2>1, <2>2, <2>4, LanStep
    <3>2. JobsInv' BY <2>1, <2>2, <2>4, JobsStep
    <3> QED BY <2>1, <2>4, <3>1, <3>2 DEF PartsInv
  <2> QED BY <2>3, <2>4
<1>3. ASSUME PartsInv, UNCHANGED <<part, vars>> PROVE PartsInv'
  <2>1. part' = part /\ UNCHANGED vars BY <1>3
  <2>2. LanInv(part # "overtaken") /\ (part # "overtaken" => JobsInv) BY <1>3 DEF PartsInv
  <2>3. CASE part = "overtaken"
    <3>1. LanInv(FALSE)' BY <2>1, <2>2, <2>3, LanStutter
    <3> QED BY <2>1, <2>3, <3>1 DEF PartsInv
  <2>4. CASE part # "overtaken"
    <3>1. LanInv(TRUE)' BY <2>1, <2>2, <2>4, LanStutter
    <3>2. JobsInv' BY <2>1, <2>2, <2>4, JobsStutter
    <3> QED BY <2>1, <2>4, <3>1, <3>2 DEF PartsInv
  <2> QED BY <2>3, <2>4
<1>4. PartsInv /\ [SessionStep \/ WatchStep]_<<part, vars, watchVars>> => PartsInv'
  <2>1. WatchStep => UNCHANGED <<part, vars>> BY DEF WatchStep
  <2>2. UNCHANGED <<part, vars, watchVars>> => UNCHANGED <<part, vars>> OBVIOUS
  <2> HIDE DEF vars, watchVars
  <2> QED BY <1>2, <1>3, <2>1, <2>2
<1> QED BY <1>1, <1>4, PTL DEF MCSpec

(* A print is recorded once, however often its printer is restarted, renamed *)
(* or out of reach for less than pollGrace while it runs, when no other      *)
(* loop's poll comes between a poll's two halves.                            *)
THEOREM PrintsAreRecordedOnce == MCSpec => []RecordedOnceIfWhole
<1>1. PartsInv => RecordedOnceIfWhole
  <2> SUFFICES ASSUME PartsInv, part # "overtaken", NEW j \in Jobs
               PROVE  Cardinality({i \in DOMAIN history :
                                     history[i].job = j /\ history[i].cause # "lost"}) <= 1
    BY DEF RecordedOnceIfWhole, RecordedOnce
  <2>1. PICK S : S = {i \in DOMAIN history : history[i].job = j /\ history[i].cause # "lost"} OBVIOUS
  <2>2. \A i, k \in S : i = k BY <2>1 DEF PartsInv, JobsInv, Counts
  <2>3. CASE S = {} BY <2>1, <2>3, FS_EmptySet
  <2>4. CASE S # {}
    <3>1. PICK i : S = {i} BY <2>2, <2>4
    <3>2. Cardinality({i}) = 1 BY FS_Singleton, Zenon
    <3>3. Cardinality(S) = 1 BY <3>1, <3>2
    <3> QED BY <2>1, <3>3
  <2> QED BY <2>3, <2>4
<1> QED BY <1>1, PartsInvariance, PTL

(* A removed printer leaves nothing behind: its state does not come back,    *)
(* and a printer later added under its name starts without its session.      *)
THEOREM RemovedPrintersAreGone == MCSpec => []RemovedIsGone
<1>1. PartsInv => RemovedIsGone
  <2> SUFFICES ASSUME PartsInv PROVE RemovedIsGone OBVIOUS
  <2>1. Registered BY DEF PartsInv, LanInv
  <2>2. RemovedStaysRemoved BY <2>1 DEF Registered, RemovedStaysRemoved
  <2>3. ASSUME part # "overtaken", todo = <<>>, NEW k \in Names, current[k] = 0
        PROVE  session[k] = NoSession
    <3>1. PICK n \in Names, m \in Names : Shape(n, m, TRUE) BY <2>3 DEF PartsInv, LanInv
    <3>2. HeldBy({n}) /\ (current[n] = 0 => HeldBy({}))
      <4> HIDE DEF OnlyOf, NoLoop, HeldBy
      <4> QED BY <2>3, <3>1, Rest DEF Shape
    <3> QED BY <2>3, <3>2 DEF HeldBy
  <2> QED BY <2>2, <2>3 DEF RemovedIsGone, RemovedIsForgotten
<1> QED BY <1>1, PartsInvariance, PTL

-----------------------------------------------------------------------------
(* For prints that do not pause: a poll that saw a print, and a session no   *)
(* poll has failed for, are of the machine's last one, and if that is over   *)
(* it has not been noticed, so that no other starts.                         *)
Here(j) == machine.job = j /\ (machine.status \in Over => ~noticed)

TrackInv ==
    /\ machine.status # "paused"
    /\ \A l \in Loops : Pending(l) /\ Tel(l).status \in InPrint =>
          Tel(l).status = "printing" /\ Here(Tel(l).job)
    /\ \A n \in Names : session[n] # NoSession /\ session[n].lost = 0 => Here(session[n].job)

LEMMA TrackInit == Init => TrackInv
BY LanAssumption DEF Init, TrackInv, Pending, NewLoop, NoSession, Loops, Started

(* A step that neither moves the machine nor brings a session or a poll.     *)
LEMMA QuietTrack ==
    ASSUME TypeOK, TrackInv, UNCHANGED <<machine, noticed>>,
           \A n \in Names : session'[n] = NoSession \/ \E k \in Names : session'[n] = session[k],
           \A l \in Loops : Pending(l)' => Pending(l) /\ Tel(l)' = Tel(l)
    PROVE  TrackInv'
BY DEF TrackInv, Here

LEMMA MachineTrack ==
    ASSUME TypeOK, TrackInv, Machine, machine'.status # "paused"
    PROVE  TrackInv'
<1>1. UNCHANGED <<loop, started, current, session>> BY DEF Machine
<1>2. machine \in [job : 0 .. MaxJobs, status : InPrint \cup Over, up : BOOLEAN] BY DEF TypeOK
<1>3. \A j : Here(j) => Here(j)'
  <2>1. CASE StartPrint BY <2>1 DEF StartPrint, Here
  <2>2. CASE PauseOrResume
    <3>1. FALSE BY <1>2, <2>2 DEF PauseOrResume, TrackInv, InPrint
    <3> QED BY <3>1
  <2>3. CASE EndPrint BY <1>2, <2>3 DEF EndPrint, Here
  <2>4. CASE LoseReach \/ RegainReach BY <1>2, <2>4 DEF LoseReach, RegainReach, Here
  <2> QED BY <2>1, <2>2, <2>3, <2>4 DEF Machine
<1>4. \A l \in Loops : Tel(l)' = Tel(l) /\ Pending(l)' = Pending(l)
  BY <1>1 DEF Tel, Pending, Mine, Started
<1> QED BY <1>1, <1>3, <1>4 DEF TrackInv

LEMMA FetchTrack ==
    ASSUME TypeOK, TrackInv, NEW l \in Started, Fetch(l)
    PROVE  TrackInv'
<1>1. l \in Loops BY LanAssumption DEF TypeOK, Started, Loops
<1>2. PICK t : /\ t = [status |-> IF machine.up THEN machine.status ELSE "disconnected", job |-> machine.job]
               /\ loop' = [loop EXCEPT ![l].at = "fetched", ![l].tel = t]
  BY DEF Fetch
<1>3. UNCHANGED <<machine, noticed, started, current, session>> BY DEF Fetch
<1>4. /\ \A k \in Loops : k # l => Tel(k)' = Tel(k) /\ Pending(k)' = Pending(k)
      /\ Tel(l)' = t
  BY <1>1, <1>2, <1>3 DEF TypeOK, Tel, Pending, Mine, Started
<1>5. t.status \in InPrint => t.status = "printing" /\ Here(t.job)
  BY <1>2 DEF TrackInv, Here, InPrint, Over
<1> QED BY <1>3, <1>4, <1>5 DEF TrackInv, Here

LEMMA UpdateTrack ==
    ASSUME TypeOK, Registered, TrackInv, \E n, m \in Names : Shape(n, m, TRUE), StoredIsMine,
           NEW l \in Started, UpdateSession(l)
    PROVE  TrackInv' /\ (Tel(l).status \in InPrint => session'[loop[l].name].job = Tel(l).job)
<1>1. /\ l \in Loops /\ loop[l].name \in Names /\ loop[l].at = "stored"
      /\ loop' = [loop EXCEPT ![l].at = "resting"]
      /\ UNCHANGED <<machine, outages, started, current, states, todo>>
  BY SessionAfter
<1>2. Mine(l) /\ Pending(l) BY <1>1 DEF StoredIsMine, Pending
<1>3. PICK n \in Names, m \in Names : Shape(n, m, TRUE) OBVIOUS
<1>4. OnlyOf(n) BY <1>1, <1>2, <1>3, OnlySession
<1>5. /\ \A k \in Loops : loop'[k].at = IF k = l THEN "resting" ELSE loop[k].at
      /\ \A k \in Loops : loop'[k].name = loop[k].name
  BY <1>1, LoopMoves DEF Places
<1>6. ASSUME NEW k \in Loops PROVE ~Pending(k)'
  <2> SUFFICES ASSUME Pending(k)' PROVE FALSE OBVIOUS
  <2>1. k \in Started /\ Mine(k) /\ k # l
    BY <1>1, <1>5 DEF Pending, Mine, Started
  <2> QED BY <1>2, <1>4, <2>1, OnePending
<1>7. PICK s : session' = [session EXCEPT ![loop[l].name] = s] BY SessionAfter
<1>8. /\ session'[loop[l].name] = s
      /\ \A k \in Names : k # loop[l].name => session'[k] = session[k]
  BY <1>1, <1>7 DEF TypeOK
<1>9. /\ Sess(l) \in [job : 0 .. MaxJobs, lost : 0 .. PollGrace]
      /\ PollGrace \in Nat /\ Tel(l) \in Telemetry
  BY <1>1, LanAssumption DEF TypeOK, Sess, Tel
<1>10. /\ Tel(l).status \in InPrint => Tel(l).status = "printing" /\ Here(Tel(l).job)
       /\ Sess(l) # NoSession /\ Sess(l).lost = 0 => Here(Sess(l).job)
  BY <1>1, <1>2 DEF TrackInv, Sess
<1>11. /\ noticed' = (noticed \/ (todo = <<>> /\ Tel(l).status \in Over \cup {"disconnected"}))
       /\ Tel(l).status \in InPrint => noticed' = noticed
  <2>1. noticed' = (noticed \/ (todo = <<>> /\ Tel(l).status \in Over \cup {"disconnected"}))
    BY DEF UpdateSession
  <2>2. Tel(l).status \in InPrint => Tel(l).status \notin Over \cup {"disconnected"}
    BY DEF InPrint, Over
  <2>3. noticed \in BOOLEAN BY DEF TypeOK
  <2> QED BY <2>1, <2>2, <2>3
<1>k. ASSUME NEW x, Keep(l, x) PROVE s = x
  BY <1>1, <1>8, <1>k DEF Keep, TypeOK
<1>12. /\ s # NoSession /\ s.lost = 0 => Tel(l).status \in InPrint /\ Here(s.job)
       /\ Tel(l).status \in InPrint => s.job = Tel(l).job
  <2>1. CASE PollFailed(l)
    <3>1. Tel(l).status \notin InPrint BY <2>1 DEF PollFailed, InPrint
    <3>2. CASE Sess(l) = NoSession
      BY <1>1, <1>8, <2>1, <3>1, <3>2 DEF PollFailed, Sess, NoSession
    <3>3. CASE Sess(l) # NoSession /\ Sess(l).lost < PollGrace
      <4>1. s = [Sess(l) EXCEPT !.lost = @ + 1]
        BY <1>k, <1>9, <2>1, <3>3 DEF PollFailed
      <4>2. s.lost # 0 BY <1>9, <4>1
      <4> QED BY <3>1, <4>2
    <3>4. CASE Sess(l) # NoSession /\ Sess(l).lost = PollGrace
      BY <1>k, <1>9, <2>1, <3>1, <3>4 DEF PollFailed
    <3> QED BY <2>1, <3>2, <3>3, <3>4 DEF PollFailed
  <2>2. CASE Replaced(l)
    <3>1. s = [job |-> Tel(l).job, lost |-> 0] /\ Tel(l).status = "printing"
      BY <1>k, <2>2 DEF Replaced, AnotherFile
    <3> QED BY <1>10, <3>1 DEF InPrint
  <2>3. CASE NoSessionYet(l)
    <3>1. s = IF Tel(l).status = "printing" THEN [job |-> Tel(l).job, lost |-> 0] ELSE NoSession
      BY <1>k, <2>3 DEF NoSessionYet
    <3> QED BY <1>10, <3>1 DEF InPrint
  <2>4. CASE Ongoing(l)
    <3>1. s = [Sess(l) EXCEPT !.lost = 0] BY <1>k, <2>4 DEF Ongoing
    <3>2. s.job = Sess(l).job BY <1>9, <3>1
    <3>3. Tel(l).status = "printing" /\ Here(Tel(l).job) /\ Tel(l).status \in InPrint
          /\ Sess(l) # NoSession /\ ~AnotherFile(l)
      BY <1>10, <2>4 DEF Ongoing
    <3>4. CASE Sess(l).lost = 0
      <4>1. Here(Sess(l).job) BY <1>10, <3>3, <3>4
      <4> QED BY <3>2, <3>3, <4>1 DEF Here
    <3>5. CASE Sess(l).lost # 0
      <4>1. Sess(l).lost > 0 BY <1>9, <3>5
      <4>2. Tel(l).job = Sess(l).job BY <3>3, <4>1 DEF AnotherFile
      <4> QED BY <3>2, <3>3, <4>2
    <3> QED BY <3>4, <3>5
  <2>5. CASE PrintOver(l)
    <3>1. s = NoSession BY <1>k, <2>5 DEF PrintOver
    <3>2. Tel(l).status \notin InPrint BY <2>5 DEF PrintOver, InPrint, Over
    <3> QED BY <3>1, <3>2
  <2> QED BY <2>1, <2>2, <2>3, <2>4, <2>5 DEF UpdateSession
<1>13. (\A k \in Names : session[k] # NoSession /\ session[k].lost = 0 => Here(session[k].job))'
  <2> SUFFICES ASSUME NEW k \in Names, session'[k] # NoSession, session'[k].lost = 0
               PROVE  machine'.job = session'[k].job /\ (machine'.status \in Over => ~noticed')
    BY DEF Here
  <2>1. CASE k = loop[l].name
    <3>1. noticed' = noticed /\ Here(s.job) BY <1>8, <1>11, <1>12, <2>1
    <3> QED BY <1>1, <1>8, <2>1, <3>1 DEF Here
  <2>2. CASE k # loop[l].name
    <3>1. session'[k] = session[k] /\ Here(session[k].job) BY <1>8, <2>2 DEF TrackInv
    <3>2. noticed' = noticed
      <4>1. CASE todo = <<>>
        <5>1. HeldBy({n})
          <6> HIDE DEF OnlyOf, NoLoop, HeldBy
          <6> QED BY <1>3, <4>1, Rest DEF Shape
        <5>2. loop[l].name = n BY <1>2, <1>4, OnePending
        <5> QED BY <2>2, <3>1, <5>1, <5>2 DEF HeldBy
      <4>2. CASE todo # <<>> BY <1>11, <4>2 DEF TypeOK
      <4> QED BY <4>1, <4>2
    <3> QED BY <1>1, <3>1, <3>2 DEF Here
  <2> QED BY <2>1, <2>2
<1>14. TrackInv' BY <1>1, <1>6, <1>13 DEF TrackInv
<1> QED BY <1>8, <1>12, <1>14

LEMMA TrackStep ==
    ASSUME LanInv(TRUE), TrackInv, Next, machine'.status # "paused"
    PROVE  TrackInv'
<1>0. TypeOK /\ Registered /\ StoredIsMine /\ \E n, m \in Names : Shape(n, m, TRUE) BY DEF LanInv
<1>1. PICK n \in Names, m \in Names : Shape(n, m, TRUE) BY <1>0
<1>2. CASE Machine BY <1>0, <1>2, MachineTrack
<1>3. ASSUME NEW l \in Started, Poll(l) PROVE TrackInv'
  <2>0. l \in Loops BY <1>0, LanAssumption DEF TypeOK, Started, Loops
  <2>1. CASE Wake(l) \/ StoreState(l)
    <3>1. PICK p \in {"fetching", "stopped", "stored"} :
            loop' = [loop EXCEPT ![l].at = p] /\ (p = "stored" => loop[l].at = "fetched")
      BY <2>1 DEF Wake, StoreState
    <3>2. /\ \A k \in Loops : loop'[k].at = IF k = l THEN p ELSE loop[k].at
          /\ \A k \in Loops : loop'[k].name = loop[k].name /\ loop'[k].tel = loop[k].tel
      BY <1>0, <2>0, <3>1, LoopMoves, ZenonT(60) DEF Places
    <3>3. UNCHANGED <<machine, noticed, started, current, session>> BY <2>1 DEF Wake, StoreState
    <3>4. \A k \in Loops : Pending(k)' => Pending(k) /\ Tel(k)' = Tel(k)
      BY <3>1, <3>2, <3>3 DEF Pending, Mine, Tel, Started
    <3> QED BY <1>0, <3>3, <3>4, QuietTrack
  <2>2. CASE Fetch(l) BY <1>0, <2>2, FetchTrack
  <2>3. CASE UpdateSession(l) BY <1>0, <2>3, UpdateTrack
  <2> QED BY <1>3, <2>1, <2>2, <2>3 DEF Poll
<1>4. CASE AskSync \/ AskRename \/ AskRemove \/ AskAdd
  <2>1. UNCHANGED <<machine, noticed, loop, started, current, session>>
    BY <1>4 DEF AskSync, AskRename, AskRemove, AskAdd, Ask
  <2>2. \A l \in Loops : Pending(l)' => Pending(l) /\ Tel(l)' = Tel(l)
    BY <2>1 DEF Pending, Mine, Tel, Started
  <2> QED BY <1>0, <2>1, <2>2, QuietTrack
<1>5. CASE RenamePrinter
  <2>1. session' = IF session[n] # NoSession
                   THEN [session EXCEPT ![m] = session[n], ![n] = NoSession] ELSE session
    BY <1>0, <1>1, <1>5, RenameShape
  <2>2. \A k \in Names : session'[k] \in {session[k], session[n], NoSession}
    BY <1>0, <2>1 DEF TypeOK
  <2>3. UNCHANGED <<machine, noticed, loop, started, current>> BY <1>5 DEF RenamePrinter
  <2>4. \A l \in Loops : Pending(l)' => Pending(l) /\ Tel(l)' = Tel(l)
    BY <2>3 DEF Pending, Mine, Tel, Started
  <2>5. \A k \in Names : session'[k] = NoSession \/ \E h \in Names : session'[k] = session[h]
    BY <2>2
  <2> QED BY <1>0, <2>3, <2>4, <2>5, QuietTrack
<1>6. CASE Unregister
  <2>1. NoLoop' /\ UNCHANGED <<machine, noticed, loop, started, session>>
    BY <1>0, <1>1, <1>6, UnregisterShape
  <2>2. \A l \in Loops : loop[l].name \in Names /\ l # 0 BY <1>0, JobTypes DEF Loops
  <2>3. \A l \in Loops : ~Pending(l)' BY <2>1, <2>2 DEF Pending, Mine, NoLoop
  <2> QED BY <1>0, <2>1, <2>3, QuietTrack
<1>7. CASE Forget
  <2>1. session' = [session EXCEPT ![n] = NoSession] /\ UNCHANGED <<machine, noticed, loop, started, current>>
    BY <1>0, <1>1, <1>7, ForgetShape DEF Forget
  <2>2. \A k \in Names : session'[k] = NoSession \/ session'[k] = session[k]
    BY <1>0, <2>1 DEF TypeOK
  <2>3. \A l \in Loops : Pending(l)' => Pending(l) /\ Tel(l)' = Tel(l)
    BY <2>1 DEF Pending, Mine, Tel, Started
  <2> QED BY <1>0, <2>1, <2>2, <2>3, QuietTrack
<1>8. CASE AddOrUpdate
  <2>1. UNCHANGED <<machine, noticed, session>> BY <1>8 DEF AddOrUpdate
  <2>2. \A l \in Loops : ~Pending(l)' BY <1>0, <1>1, <1>8, AddPending
  <2> QED BY <1>0, <2>1, <2>2, QuietTrack
<1> QED BY <1>2, <1>3, <1>4, <1>5, <1>6, <1>7, <1>8 DEF Next, Handler

(* Where a poll is stored and then rests, it has updated the session.        *)
LEMMA RestsAfterUpdate ==
    ASSUME LanInv(TRUE), Next, PollsWhole, NEW l \in Started, loop[l].at = "stored", loop'[l].at = "resting"
    PROVE  UpdateSession(l)
<1>0. TypeOK /\ Registered BY DEF LanInv
<1>1. PICK k \in Started : UpdateSession(k) BY <1>0, NoneStored
<1>2. k \in Loops /\ l \in Loops /\ loop' = [loop EXCEPT ![k].at = "resting"]
  <2>1. k \in Loops /\ loop' = [loop EXCEPT ![k].at = "resting"] BY <1>0, <1>1, SessionAfter
  <2>2. l \in Loops BY <1>0, LanAssumption DEF TypeOK, Started, Loops
  <2> QED BY <2>1, <2>2
<1>3. k = l
  <2> SUFFICES ASSUME k # l PROVE FALSE OBVIOUS
  <2>1. loop'[l] = loop[l] BY <1>0, <1>2 DEF TypeOK
  <2> QED BY <2>1
<1> QED BY <1>1, <1>3

(* Print A ended and print B started while the printer was unreachable: the  *)
(* poll that finds B closes A's session, for prints that do not pause.       *)
THEOREM SwitchedPrintsAreClosed == MCSpec => SwitchClosesPrint
<1> DEFINE Tracks == part = "track" => TrackInv
<1>1. MCInit => Tracks BY TrackInit DEF MCInit
<1>2. ASSUME PartsInv, Tracks, SessionStep PROVE Tracks' /\ (part = "track" => ClosesOtherPrint)
  <2> SUFFICES ASSUME part = "track" PROVE TrackInv' /\ ClosesOtherPrint
    BY <1>2 DEF SessionStep
  <2>1. Next /\ machine'.status # "paused" /\ PollsWhole BY <1>2 DEF SessionStep
  <2>2. LanInv(TRUE) /\ TrackInv BY <1>2 DEF PartsInv
  <2>3. TrackInv' BY <2>1, <2>2, TrackStep
  <2>4. ASSUME NEW l \in Started, loop[l].at = "stored", loop'[l].at = "resting", Tel(l).status \in InPrint
        PROVE  session'[loop[l].name].job = Tel(l).job
    <3>1. UpdateSession(l) BY <2>1, <2>2, <2>4, RestsAfterUpdate
    <3> QED BY <2>2, <2>4, <3>1, UpdateTrack DEF LanInv
  <2> QED BY <2>3, <2>4 DEF ClosesOtherPrint
<1>3. ASSUME Tracks, UNCHANGED <<part, vars>> PROVE Tracks' /\ (vars' = vars)
  <2>1. CASE part # "track" BY <1>3, <2>1
  <2>2. CASE part = "track"
    <3>1. TrackInv' BY <1>3, <2>2 DEF vars, TrackInv, Here, Pending, Mine, Tel, Started
    <3> QED BY <1>3, <3>1
  <2> QED BY <2>1, <2>2
<1>4. ASSUME PartsInv, Tracks, [SessionStep \/ WatchStep]_<<part, vars, watchVars>>
      PROVE  Tracks' /\ [part = "track" => ClosesOtherPrint]_vars
  <2>1. WatchStep => UNCHANGED <<part, vars>> BY DEF WatchStep
  <2>2. UNCHANGED <<part, vars, watchVars>> => UNCHANGED <<part, vars>> OBVIOUS
  <2> HIDE DEF vars, watchVars, Tracks
  <2> QED BY <1>2, <1>3, <1>4, <2>1, <2>2
<1> QED BY <1>1, <1>4, PartsInvariance, PTL DEF MCSpec, SwitchClosesPrint

-----------------------------------------------------------------------------
(* EventWatcher. A print that was told, or was under way while there was no  *)
(* watch, is one the machine has begun to print; where the watch says that   *)
(* nothing is printed it is over, and the state shown does not say otherwise.*)
Known   == told \cup old
Done(p) == work.print > p \/ work.at = "idle"

WatchTypes ==
    /\ listed \in BOOLEAN
    /\ shown \in [status : Reports \cup {"none", "connected", "disconnected"}, print : Nat, alarm : BOOLEAN]
    /\ work \in [print : Nat, at : Reports]
    /\ watched \in [status : Reports \cup {"none"}, inPrint : BOOLEAN, alarm : BOOLEAN,
                    lost : Nat, offline : BOOLEAN]
    /\ told \subseteq Nat /\ old \subseteq Nat

ShownIsPast ==
    /\ shown.print <= work.print
    /\ PrintsNow(shown.status) => shown.print < work.print \/ work.at # "prepare"

KnownHasBegun ==
    \A p \in Known : p <= work.print /\ (work.at = "prepare" => p < work.print)

ShownKnown ==
    listed /\ shown.status \in Reports =>
        \A p \in Known : p <= shown.print /\ (PrintsNow(shown.status) \/ p < shown.print \/ Done(p))

WatchKnows ==
    watched # Unwatched /\ ~watched.inPrint =>
        \A p \in Known : Done(p) /\ ~(PrintsNow(shown.status) /\ shown.print = p)

WatchInv == WatchTypes /\ ShownIsPast /\ KnownHasBegun /\ ShownKnown /\ WatchKnows

LEMMA WatchStarts == WatchInit => WatchInv
BY DEF WatchInit, WatchInv, WatchTypes, ShownIsPast, KnownHasBegun, ShownKnown, WatchKnows, Known, Unwatched,
       PrintsNow, Reports

LEMMA MachineWatch ==
    ASSUME WatchInv, MachineMoves
    PROVE  WatchInv'
<1>1. UNCHANGED <<listed, shown, watched, told, old>> BY DEF MachineMoves, watcher
<1>2. PICK q \in Nat, a \in Reports :
        /\ work' = [print |-> q, at |-> a]
        /\ \/ q > work.print /\ work.at = "idle"
           \/ q = work.print /\ a # "prepare" /\ work.at # "idle"
  <2>1. work.print \in Nat /\ work.print + 1 \in Nat /\ work.print + 1 > work.print
        /\ work = [print |-> work.print, at |-> work.at]
    BY DEF WatchInv, WatchTypes
  <2>2. CASE work.at = "idle" /\ work' = [print |-> work.print + 1, at |-> "prepare"]
    <3>1. PICK q \in Nat : q = work.print + 1 BY <2>1
    <3>2. work' = [print |-> q, at |-> "prepare"] /\ q > work.print /\ work.at = "idle"
      BY <2>1, <2>2, <3>1
    <3> QED BY <3>2 DEF Reports
  <2>3. CASE work.at # "idle" /\ work' \in {[work EXCEPT !.at = a] : a \in {"printing", "paused", "idle"}}
    BY <2>1, <2>3 DEF Reports
  <2> QED BY <2>2, <2>3 DEF MachineMoves
<1>3. work' \in [print : Nat, at : Reports] /\ work'.print = q /\ work'.at = a BY <1>2
<1>4. work.print \in Nat /\ shown.print \in Nat /\ (\A p \in Known : p \in Nat) /\ Known' = Known
  BY <1>1 DEF WatchInv, WatchTypes, Known
<1>5. \A p \in Known : Done(p) => Done(p)'
  BY <1>2, <1>3, <1>4 DEF Done, WatchInv, KnownHasBegun
<1>6. WatchTypes' BY <1>1, <1>3 DEF WatchInv, WatchTypes
<1>7. ShownIsPast' BY <1>1, <1>2, <1>3, <1>4 DEF WatchInv, ShownIsPast
<1>8. KnownHasBegun' BY <1>2, <1>3, <1>4 DEF WatchInv, KnownHasBegun
<1>9. ShownKnown' BY <1>1, <1>4, <1>5 DEF WatchInv, ShownKnown
<1>10. WatchKnows' BY <1>1, <1>4, <1>5 DEF WatchInv, WatchKnows
<1> QED BY <1>6, <1>7, <1>8, <1>9, <1>10 DEF WatchInv

LEMMA ReportWatch ==
    ASSUME WatchInv, ReportComes
    PROVE  WatchInv'
<1>1. UNCHANGED <<listed, work, watched, told, old>> BY DEF ReportComes, watcher
<1>2. PICK b \in BOOLEAN : shown' = [status |-> work.at, print |-> work.print, alarm |-> b]
  BY DEF ReportComes
<1>3. /\ work.print \in Nat /\ (\A p \in Known : p \in Nat) /\ Known' = Known
      /\ work.at \in Reports
  BY <1>1 DEF WatchInv, WatchTypes, Known
<1>4. \A p : Done(p)' = Done(p) BY <1>1 DEF Done
<1>5. WatchTypes' BY <1>1, <1>2, <1>3 DEF WatchInv, WatchTypes
<1>6. ShownIsPast' BY <1>1, <1>2, <1>3 DEF ShownIsPast, PrintsNow
<1>7. KnownHasBegun' BY <1>1, <1>3 DEF WatchInv, KnownHasBegun
<1>8. ShownKnown'
  BY <1>1, <1>2, <1>3, <1>4 DEF WatchInv, KnownHasBegun, ShownKnown, Done, PrintsNow, Reports
<1>9. WatchKnows'
  BY <1>1, <1>2, <1>3, <1>4 DEF WatchInv, WatchKnows, Done, PrintsNow
<1> QED BY <1>5, <1>6, <1>7, <1>8, <1>9 DEF WatchInv

(* The link or the watch breaks, or the watch does not look at a report: the *)
(* print that is under way may become known, but nobody shows or watches it. *)
LEMMA QuietWatch ==
    ASSUME WatchInv, WatchTypes', UNCHANGED <<work>>, shown'.print = shown.print,
           shown' = shown \/ shown'.status \notin Reports,
           told' = told, old' \in {old, Underway},
           old' = old \/ ~listed' \/ shown'.status \notin Reports,
           listed' => listed \/ shown'.status \notin Reports,
           \/ watched' = Unwatched
           \/ old' = old /\ watched # Unwatched /\ watched'.inPrint = watched.inPrint
    PROVE  WatchInv'
<1>1. work.print \in Nat /\ shown.print \in Nat /\ (\A p \in Known : p \in Nat)
  BY DEF WatchInv, WatchTypes, Known
<1>2. \A p : Done(p)' = Done(p) BY DEF Done
<1>3. \A p \in Known' : p \in Known \/ (p = work.print /\ work.at # "prepare")
  BY DEF Known, Underway, PrintsNow
<1>4. old' = old => Known' = Known BY DEF Known
<1>5. shown'.status \notin Reports => ~PrintsNow(shown'.status) BY DEF PrintsNow, Reports
<1>6. ShownIsPast' BY <1>1, <1>5 DEF WatchInv, ShownIsPast
<1>7. KnownHasBegun' BY <1>1, <1>3 DEF WatchInv, KnownHasBegun
<1>8. ShownKnown' BY <1>2, <1>4, <1>5 DEF WatchInv, ShownKnown
<1>9. WatchKnows' BY <1>2, <1>4, <1>5 DEF WatchInv, WatchKnows
<1> QED BY <1>6, <1>7, <1>8, <1>9 DEF WatchInv

LEMMA BreaksWatch ==
    ASSUME WatchInv, LinkChanges \/ WatchBreaks
    PROVE  WatchInv'
<1>1. WatchTypes BY DEF WatchInv
<1>2. Unwatched \in [status : Reports \cup {"none"}, inPrint : BOOLEAN, alarm : BOOLEAN,
                     lost : Nat, offline : BOOLEAN]
      /\ {"none", "connected", "disconnected"} \cap Reports = {}
  BY DEF Unwatched, Reports
<1>3. Underway \subseteq Nat BY <1>1 DEF WatchTypes, Underway
<1>4. CASE LinkChanges
  <2>1. UNCHANGED <<listed, work, watched, told, old>> BY <1>4 DEF LinkChanges, watcher
  <2>2. PICK s \in {"connected", "disconnected"} : shown' = [shown EXCEPT !.status = s]
    BY <1>4 DEF LinkChanges
  <2>3. /\ shown' \in [status : Reports \cup {"none", "connected", "disconnected"}, print : Nat, alarm : BOOLEAN]
        /\ shown'.status \notin Reports /\ shown'.print = shown.print
    BY <1>1, <1>2, <2>2 DEF WatchTypes
  <2>4. WatchTypes' BY <1>1, <2>1, <2>3 DEF WatchTypes
  <2> QED BY <2>1, <2>3, <2>4, QuietWatch
<1>5. CASE WatchBreaks
  <2>1. /\ UNCHANGED work /\ told' = told
        /\ shown' = [shown EXCEPT !.status = "none", !.alarm = FALSE]
        /\ \/ listed' = ~listed /\ watched' = watched /\ old' = old
           \/ listed' = listed /\ watched' = Unwatched /\ old' = Underway
    BY <1>5 DEF WatchBreaks, watcher
  <2>2. /\ shown' \in [status : Reports \cup {"none", "connected", "disconnected"}, print : Nat, alarm : BOOLEAN]
        /\ shown'.status \notin Reports /\ shown'.print = shown.print
    BY <1>1, <1>2, <2>1 DEF WatchTypes
  <2>3. listed' \in BOOLEAN BY <1>1, <2>1 DEF WatchTypes
  <2>4. WatchTypes' BY <1>1, <1>2, <1>3, <2>1, <2>2, <2>3 DEF WatchTypes
  <2> QED BY <2>1, <2>2, <2>4, QuietWatch
<1> QED BY <1>4, <1>5

LEMMA SeedWatch ==
    ASSUME WatchInv, listed, watched = Unwatched, IsReport(shown.status), Seed,
           UNCHANGED <<listed, shown, work, old>>
    PROVE  WatchInv'
<1>1. /\ WatchTypes /\ shown.status \in Reports /\ work.print \in Nat /\ shown.print \in Nat
      /\ \A p \in Known : p \in Nat
  BY DEF WatchInv, WatchTypes, IsReport, Known
<1>2. /\ watched' = [Unwatched EXCEPT !.status = shown.status, !.inPrint = PrintsNow(shown.status),
                                      !.alarm = shown.alarm]
      /\ told' = told
  BY DEF Seed
<1>a. PrintsNow(shown.status) \in BOOLEAN BY DEF PrintsNow
<1>3. PICK b \in BOOLEAN : b = PrintsNow(shown.status) BY <1>a
<1>4. watched' = [status |-> shown.status, inPrint |-> b, alarm |-> shown.alarm, lost |-> 0, offline |-> FALSE]
  BY <1>2, <1>3 DEF Unwatched
<1>5. WatchTypes' BY <1>1, <1>2, <1>3, <1>4 DEF WatchTypes
<1>6. Known' = Known /\ \A p : Done(p)' = Done(p) BY <1>2 DEF Known, Done
<1>7. watched'.inPrint = b BY <1>4
<1>8. WatchKnows'
  <2> SUFFICES ASSUME ~PrintsNow(shown.status), NEW p \in Known PROVE Done(p)
    BY <1>3, <1>6, <1>7 DEF WatchKnows
  <2>1. p <= shown.print /\ (p < shown.print \/ Done(p)) BY <1>1 DEF WatchInv, ShownKnown
  <2> QED BY <1>1, <2>1 DEF WatchInv, ShownIsPast, Done
<1> QED BY <1>2, <1>5, <1>6, <1>8 DEF WatchInv, ShownIsPast, KnownHasBegun, ShownKnown

LEMMA DifferWatch ==
    ASSUME WatchInv, listed, watched # Unwatched, shown.status \in Reports, Differ,
           UNCHANGED <<listed, shown, work, old>>
    PROVE  WatchInv' /\ ("start" \in news' => shown.print \notin Known)
<1>1. /\ WatchTypes /\ work.print \in Nat /\ shown.print \in Nat /\ watched.inPrint \in BOOLEAN
      /\ shown.alarm \in BOOLEAN /\ \A p \in Known : p \in Nat
  BY DEF WatchInv, WatchTypes, Known
<1>2. PICK starts \in BOOLEAN : starts = (shown.status = "printing" /\ ~watched.inPrint) OBVIOUS
<1>3. /\ watched' = [status |-> shown.status, alarm |-> shown.alarm, lost |-> 0, offline |-> FALSE,
                     inPrint |-> starts \/ (watched.inPrint /\ ~Settled(shown.status))]
      /\ told' = IF starts THEN told \cup {shown.print} ELSE told
      /\ "start" \in news' => starts
  BY <1>2 DEF Differ
<1>4. PICK b \in BOOLEAN : b = (starts \/ (watched.inPrint /\ ~Settled(shown.status))) OBVIOUS
<1>5. watched' = [status |-> shown.status, alarm |-> shown.alarm, lost |-> 0, offline |-> FALSE, inPrint |-> b]
  BY <1>3, <1>4
<1>6. WatchTypes'
  <2>1. watched' \in [status : Reports \cup {"none"}, inPrint : BOOLEAN, alarm : BOOLEAN,
                      lost : Nat, offline : BOOLEAN]
    BY <1>1, <1>4, <1>5
  <2>2. told' \subseteq Nat BY <1>1, <1>3 DEF WatchTypes
  <2> QED BY <1>1, <2>1, <2>2 DEF WatchTypes
<1>7. /\ \A p : Done(p)' = Done(p)
      /\ ~starts => Known' = Known
      /\ \A p \in Known' : p \in Known \/ (starts /\ p = shown.print)
  BY <1>3 DEF Known, Done
<1>8. starts => shown.status = "printing" /\ PrintsNow(shown.status) BY <1>2 DEF PrintsNow
<1>9. ShownIsPast' BY DEF WatchInv, ShownIsPast
<1>10. KnownHasBegun'
  BY <1>1, <1>7, <1>8 DEF WatchInv, ShownIsPast, KnownHasBegun
<1>11. ShownKnown'
  BY <1>1, <1>7, <1>8 DEF WatchInv, ShownKnown
<1>12. WatchKnows'
  <2> SUFFICES ASSUME ~b, NEW p \in Known' PROVE Done(p) /\ ~(PrintsNow(shown.status) /\ shown.print = p)
    BY <1>5, <1>7 DEF WatchKnows
  <2>1. ~starts /\ p \in Known BY <1>4, <1>7
  <2>2. CASE ~watched.inPrint BY <2>1, <2>2 DEF WatchInv, WatchKnows
  <2>3. CASE shown.status = "idle"
    <3>1. ~PrintsNow(shown.status) BY <2>3 DEF PrintsNow
    <3>2. p <= shown.print /\ (p < shown.print \/ Done(p)) BY <2>1, <3>1 DEF WatchInv, ShownKnown
    <3> QED BY <1>1, <2>1, <3>1, <3>2 DEF WatchInv, ShownIsPast, Done
  <2> QED BY <1>1, <1>4, <2>2, <2>3 DEF Settled
<1>13. "start" \in news' => shown.print \notin Known
  <2> SUFFICES ASSUME starts PROVE shown.print \notin Known BY <1>3
  <2> QED BY <1>2, <1>8 DEF WatchInv, WatchKnows
<1> QED BY <1>6, <1>9, <1>10, <1>11, <1>12, <1>13 DEF WatchInv

(* Without a report nothing is seeded or compared.                           *)
LEMMA LooksWatch ==
    ASSUME WatchInv, UNCHANGED <<listed, shown, work>>, old' = IF listed THEN old ELSE Underway,
           \/ ~listed /\ Forgotten
           \/ listed /\ watched = Unwatched /\ Waits
           \/ listed /\ watched # Unwatched /\ (Lost \/ Waits)
    PROVE  WatchInv' /\ news' \subseteq {"offline"}
<1>1. WatchTypes /\ watched.lost \in Nat /\ watched.offline \in BOOLEAN BY DEF WatchInv, WatchTypes
<1>2. Underway \subseteq Nat BY <1>1 DEF WatchTypes, Underway
<1>3. LostFor \in Nat BY <1>1 DEF LostFor
<1>4. Unwatched \in [status : Reports \cup {"none"}, inPrint : BOOLEAN, alarm : BOOLEAN,
                     lost : Nat, offline : BOOLEAN] /\ Unwatched.lost = 0
  BY DEF Unwatched
<1>5. told' = told /\ news' \subseteq {"offline"}
      /\ \/ watched' = Unwatched
         \/ /\ listed /\ watched # Unwatched
            /\ \E n \in Nat, b \in BOOLEAN : watched' = [watched EXCEPT !.lost = n, !.offline = b]
  <2>1. CASE ~listed /\ Forgotten BY <2>1 DEF Forgotten
  <2>2. CASE listed /\ watched # Unwatched /\ Lost
    <3>1. PICK b \in BOOLEAN : b = (watched.offline \/ LostFor > OfflineAfter) OBVIOUS
    <3>2. watched' = [watched EXCEPT !.lost = LostFor, !.offline = b] BY <1>1, <2>2, <3>1 DEF Lost, WatchTypes
    <3>3. told' = told /\ news' \subseteq {"offline"} BY <2>2 DEF Lost
    <3> QED BY <1>3, <2>2, <3>1, <3>2, <3>3
  <2>3. CASE listed /\ Waits
    <3>1. told' = told /\ news' \subseteq {"offline"} BY <2>3 DEF Waits
    <3>2. PICK n \in Nat : n = IF watched.lost = 0 THEN 0 ELSE LostFor BY <1>3
    <3>3. watched' = [watched EXCEPT !.lost = n] BY <2>3, <3>2 DEF Waits
    <3>4. watched' = [watched EXCEPT !.lost = n, !.offline = watched.offline] BY <1>1, <3>3 DEF WatchTypes
    <3>5. CASE watched = Unwatched
      <4>1. n = 0 BY <1>4, <3>2, <3>5
      <4>2. watched' = Unwatched BY <3>3, <3>5, <4>1 DEF Unwatched
      <4> QED BY <3>1, <4>2
    <3> QED BY <1>1, <2>3, <3>1, <3>4, <3>5
  <2> QED BY <2>1, <2>2, <2>3
<1>6. /\ watched' \in [status : Reports \cup {"none"}, inPrint : BOOLEAN, alarm : BOOLEAN,
                       lost : Nat, offline : BOOLEAN]
      /\ watched' = Unwatched \/ (listed /\ watched # Unwatched /\ watched'.inPrint = watched.inPrint)
  BY <1>1, <1>4, <1>5 DEF WatchTypes
<1>7. WatchTypes' BY <1>1, <1>2, <1>5, <1>6 DEF WatchTypes
<1>8. WatchInv' BY <1>5, <1>6, <1>7, QuietWatch
<1> QED BY <1>5, <1>8

LEMMA WatchSteps ==
    ASSUME WatchInv, WatchNext
    PROVE  WatchInv' /\ ("start" \in news' => shown.print \notin told \cup old)
<1>1. CASE MachineMoves
  <2>1. news' = {} BY <1>1 DEF MachineMoves
  <2> QED BY <1>1, <2>1, MachineWatch
<1>2. CASE ReportComes
  <2>1. news' = {} BY <1>2 DEF ReportComes
  <2> QED BY <1>2, <2>1, ReportWatch
<1>3. CASE LinkChanges \/ WatchBreaks
  <2>1. news' = {} BY <1>3 DEF LinkChanges, WatchBreaks
  <2> QED BY <1>3, <2>1, BreaksWatch
<1>4. CASE WatchOnce
  <2>1. UNCHANGED <<listed, shown, work>> /\ old' = IF listed THEN old ELSE Underway
    BY <1>4 DEF WatchOnce
  <2>2. CASE listed /\ watched = Unwatched /\ IsReport(shown.status) /\ Seed
    <3>1. news' = {} BY <2>2 DEF Seed
    <3> QED BY <2>1, <2>2, <3>1, SeedWatch
  <2>3. CASE listed /\ watched # Unwatched /\ shown.status \in Reports /\ Differ
    BY <2>1, <2>3, DifferWatch DEF Known
  <2>4. CASE \/ ~listed /\ Forgotten
             \/ listed /\ watched = Unwatched /\ Waits
             \/ listed /\ watched # Unwatched /\ (Lost \/ Waits)
    BY <2>1, <2>4, LooksWatch
  <2> QED BY <1>4, <2>2, <2>3, <2>4 DEF WatchOnce
<1> QED BY <1>1, <1>2, <1>3, <1>4 DEF WatchNext

(* The start of a print is told once, and never of a print that was under    *)
(* way when the Bridge was started or the printer was added.                 *)
THEOREM StartsAreTold == MCSpec => StartsAreNews
<1>1. MCInit => WatchInv BY WatchStarts DEF MCInit
<1>2. UNCHANGED watchVars => UNCHANGED <<listed, shown, work, watched, told, old>>
  BY DEF watchVars, watcher
<1>3. ASSUME WatchInv, UNCHANGED watchVars PROVE WatchInv'
  <2>1. UNCHANGED <<listed, shown, work, watched, told, old>> BY <1>2, <1>3
  <2>2. WatchTypes' BY <1>3, <2>1 DEF WatchInv, WatchTypes
  <2>3. Known' = Known /\ \A p : Done(p)' = Done(p) BY <2>1 DEF Known, Done
  <2>4. ShownIsPast' /\ KnownHasBegun' BY <1>3, <2>1, <2>3 DEF WatchInv, ShownIsPast, KnownHasBegun
  <2>5. ShownKnown' BY <1>3, <2>1, <2>3 DEF WatchInv, ShownKnown
  <2>6. WatchKnows' BY <1>3, <2>1, <2>3 DEF WatchInv, WatchKnows
  <2> QED BY <2>2, <2>4, <2>5, <2>6 DEF WatchInv
<1>4. ASSUME WatchInv, [SessionStep \/ WatchStep]_<<part, vars, watchVars>>
      PROVE  WatchInv' /\ ["start" \in news' => shown.print \notin told \cup old]_watchVars
  <2>1. WatchStep => WatchNext BY DEF WatchStep
  <2>2. SessionStep => UNCHANGED watchVars BY DEF SessionStep
  <2>3. UNCHANGED <<part, vars, watchVars>> => UNCHANGED watchVars OBVIOUS
  <2> HIDE DEF vars, watchVars
  <2> QED BY <1>3, <1>4, <2>1, <2>2, <2>3, WatchSteps
<1> QED BY <1>1, <1>4, PTL DEF MCSpec, StartsAreNews
=============================================================================
