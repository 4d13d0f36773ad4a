------------------------- MODULE CloudRunner_proofs -------------------------
(***************************************************************************)
(* Proofs about CloudRunner, CloudPrinters and CloudSignIn, for any number *)
(* of requests, tokens, printers and changes, and any limits.              *)
(***************************************************************************)
EXTENDS MCCloudRunner, FiniteSetTheorems, TLAPS

Loops == [at : {"unborn", "top", "dial", "up", "wait", "done"}, token : Sessions, stop : BOOLEAN,
          failures : Nat, refusals : Nat, tries : Nat, retry : BOOLEAN, asked : BOOLEAN]

Types ==
    /\ account \in [token : Sessions, expired : BOOLEAN, printers : BOOLEAN]
    /\ job \in [Workers -> [at : {"idle", "ask", "expire", "sync", "stop"}, want : Sessions]]
    /\ runner \in [Runners -> Loops]
    /\ started \in Nat /\ cloudRun \in Nat
    /\ alive \subseteq Tokens

(* Attempts and failures of a loop keep step, and its retry signal is from   *)
(* the wait it is in or has just left.                                       *)
LoopOK(l) ==
    /\ l.failures < MaxFailures
    /\ l.tries <= l.failures + 1
    /\ l.at \in {"top", "wait"} => l.tries <= l.failures
    /\ l.at \in {"dial", "up"} => ~l.retry
    /\ l.at = "wait" /\ l.retry => l.asked

LoopsOK == \A r \in Runners : LoopOK(runner[r])

(* Only the loop under cloudMu runs: any other was waited for.               *)
OnlyCurrent == \A r \in Runners : runner[r].at \notin {"unborn", "done"} => r = cloudRun

IInv == Types /\ LoopsOK /\ OnlyCurrent

-----------------------------------------------------------------------------
(* A loop that starts is in order.                                           *)
LEMMA NewLoop ==
    ASSUME NEW t \in Sessions
    PROVE  NewRunner(t) \in Loops /\ LoopOK(NewRunner(t))
BY CloudAssumption DEF NewRunner, Fresh, Loops, LoopOK

(* A loop that ends is in order, and no longer runs.                         *)
LEMMA EndedLoop ==
    ASSUME Types, NEW r \in Runners
    PROVE  Ended(r) \in Loops /\ LoopOK(Ended(r)) /\ Ended(r).at = "done"
BY CloudAssumption DEF Types, Ended, Fresh, Loops, LoopOK

(* A failure or a lost session leaves a loop in order.                       *)
LEMMA WaitingLoop ==
    ASSUME Types, LoopsOK, NEW r \in Runners, NEW refused \in BOOLEAN, NEW stable \in BOOLEAN,
           runner[r].at \in {"dial", "up"}
    PROVE  Wait(r, refused, stable) \in Loops /\ LoopOK(Wait(r, refused, stable))
<1> DEFINE failures == (IF stable THEN 0 ELSE runner[r].failures) + 1
           refusals == IF ~refused THEN 0 ELSE (IF stable THEN 0 ELSE runner[r].refusals) + 1
           held     == refusals >= BanFailures \/ failures >= MaxFailures
<1>1. /\ runner[r] \in Loops /\ LoopOK(runner[r])
      /\ MaxFailures \in Nat \ {0} /\ BanFailures \in Nat \ {0}
  BY CloudAssumption DEF Types, LoopsOK
<1>2. failures \in Nat /\ refusals \in Nat /\ held \in BOOLEAN /\ ~runner[r].retry
      /\ runner[r].tries \in Nat /\ runner[r].tries <= runner[r].failures + 1
  BY <1>1 DEF Loops, LoopOK
<1>3. Wait(r, refused, stable) =
        [runner[r] EXCEPT !.at = "wait", !.asked = FALSE,
           !.failures = IF held THEN 0 ELSE failures,
           !.refusals = IF held THEN 0 ELSE refusals,
           !.tries = IF held THEN 0 ELSE IF stable THEN 1 ELSE runner[r].tries]
  BY DEF Wait
<1>4. Wait(r, refused, stable) \in Loops
  <2> HIDE DEF failures, refusals, held
  <2>1. PICK x \in Nat, y \in Nat, z \in Nat :
             /\ x = (IF held THEN 0 ELSE failures)
             /\ y = (IF held THEN 0 ELSE refusals)
             /\ z = (IF held THEN 0 ELSE IF stable THEN 1 ELSE runner[r].tries)
    BY <1>2
  <2>2. Wait(r, refused, stable) =
          [runner[r] EXCEPT !.at = "wait", !.asked = FALSE,
             !.failures = x, !.refusals = y, !.tries = z]
    BY <1>3, <2>1
  <2> QED BY <1>1, <2>2 DEF Loops
<1>5. CASE held
  <2> HIDE DEF failures, refusals, held
  <2> QED BY <1>1, <1>2, <1>3, <1>4, <1>5 DEF Loops, LoopOK
<1>6. CASE ~held
  <2>1. failures < MaxFailures BY <1>6, <1>1, <1>2
  <2>2. (IF stable THEN 1 ELSE runner[r].tries) <= failures BY <1>1, <1>2 DEF Loops, LoopOK
  <2> HIDE DEF failures, refusals, held
  <2> QED BY <1>1, <1>2, <1>3, <1>4, <1>6, <2>1, <2>2 DEF Loops, LoopOK
<1> QED BY <1>4, <1>5, <1>6

-----------------------------------------------------------------------------
(* Before the first loop nothing is out of order.                            *)
THEOREM InitOK == Init => IInv
BY CloudAssumption DEF Init, IInv, Types, LoopsOK, LoopOK, OnlyCurrent, Unborn, Fresh, Idle, Loops, Sessions

(* A loop's own step leaves the others alone.                                *)
LEMMA OwnStep ==
    ASSUME IInv, NEW r \in Runners, NEW l \in Loops, LoopOK(l),
           runner[r].at \notin {"unborn", "done"},
           runner' = [runner EXCEPT ![r] = l], cloudRun' = cloudRun
    PROVE  runner' \in [Runners -> Loops] /\ LoopsOK' /\ OnlyCurrent'
BY DEF IInv, Types, LoopsOK, OnlyCurrent, Loops

(* A new loop is started where none runs.                                    *)
LEMMA StartStep ==
    ASSUME IInv, NEW t \in Sessions,
           \A r \in Runners : runner[r].at \in {"unborn", "done"},
           runner' = [runner EXCEPT ![started'] = NewRunner(t)], cloudRun' = started'
    PROVE  runner' \in [Runners -> Loops] /\ LoopsOK' /\ OnlyCurrent'
<1>1. NewRunner(t) \in Loops /\ LoopOK(NewRunner(t)) BY NewLoop
<1> QED BY <1>1 DEF IInv, Types, LoopsOK, OnlyCurrent

(* A loop that is told to stop or to retry goes on where it was.             *)
LEMMA SignalStep ==
    ASSUME IInv, NEW l, cloudRun' = cloudRun,
           cloudRun \in Runners => l \in Loops /\ LoopOK(l) /\ l.at = runner[cloudRun].at,
           runner' = [runner EXCEPT ![cloudRun] = l]
    PROVE  runner' \in [Runners -> Loops] /\ LoopsOK' /\ OnlyCurrent'
<1>1. CASE cloudRun \in Runners
  BY <1>1 DEF IInv, Types, LoopsOK, OnlyCurrent
<1>2. CASE cloudRun \notin Runners
  <2>1. runner' = runner BY <1>2 DEF IInv, Types
  <2> QED BY <2>1 DEF IInv, Types, LoopsOK, OnlyCurrent
<1> QED BY <1>1, <1>2

-----------------------------------------------------------------------------
(* No step of a loop or of SetCloudPrinters puts a second loop at work, or   *)
(* one out of order.                                                         *)
LEMMA StepOK == IInv /\ [Next]_vars => IInv'
<1> SUFFICES ASSUME IInv, [Next]_vars PROVE IInv'
  OBVIOUS
<1> USE DEF IInv
<1>t. Types BY DEF IInv
(* The requests do not touch the loops.                                      *)
<1>1. ASSUME NEW h \in Handlers, Request(h) PROVE IInv'
  <2>1. \E acc \in [token : Sessions, expired : BOOLEAN, printers : BOOLEAN] : Change(h, acc)
          \/ AskDevices(h)
    BY <1>1, <1>t DEF Request, Link, Unlink, SetPrinters, Types, Sessions
  <2>2. CASE AskDevices(h)
    BY <2>2, <1>t DEF AskDevices, Types, LoopsOK, OnlyCurrent, broker, Workers
  <2>3. ASSUME NEW acc \in [token : Sessions, expired : BOOLEAN, printers : BOOLEAN], Change(h, acc)
        PROVE  IInv'
    <3>1. Session(acc) \in Sessions BY DEF Session, Sessions
    <3> QED BY <2>3, <3>1, <1>t DEF Change, Types, LoopsOK, OnlyCurrent, Workers
  <2> QED BY <2>1, <2>2, <2>3
<1>2. ASSUME NEW w \in Workers, Serve(w) PROVE IInv'
  <2>0. NoToken \in Sessions /\ job[w].want \in Sessions BY <1>t DEF Types, Sessions
  <2>1. CASE DevicesAnswered(w)
    BY <2>0, <2>1, <1>t DEF DevicesAnswered, Types, LoopsOK, OnlyCurrent, broker, Idle
  <2>2. CASE Expire(w)
    <3>1. job' \in [Workers -> [at : {"idle", "ask", "expire", "sync", "stop"}, want : Sessions]]
      BY <2>0, <2>2, <1>t DEF Expire, Types, Idle
    <3>2. account' \in [token : Sessions, expired : BOOLEAN, printers : BOOLEAN]
      BY <2>2, <1>t DEF Expire, Types
    <3> QED BY <2>2, <3>1, <3>2, <1>t DEF Expire, Types, LoopsOK, OnlyCurrent, broker
  <2>3. CASE Sync(w)
    <3>1. job' \in [Workers -> [at : {"idle", "ask", "expire", "sync", "stop"}, want : Sessions]]
      BY <2>0, <2>3, <1>t DEF Sync, Types, Idle
    <3>2. CASE UNCHANGED <<runner, cloudRun, started>>
      BY <2>3, <3>1, <3>2, <1>t DEF Sync, Types, LoopsOK, OnlyCurrent, broker
    <3>3. CASE /\ cloudRun = 0
               /\ started' = started + 1 /\ cloudRun' = started'
               /\ runner' = [runner EXCEPT ![started'] = NewRunner(job[w].want)]
      <4>1. \A r \in Runners : runner[r].at \in {"unborn", "done"}
        BY <3>3 DEF OnlyCurrent, Runners
      <4>2. runner' \in [Runners -> Loops] /\ LoopsOK' /\ OnlyCurrent'
        BY <2>0, <3>3, <4>1, StartStep
      <4> QED BY <2>3, <3>1, <3>3, <4>2, <1>t DEF Sync, Types, broker
    <3> QED BY <2>3, <3>2, <3>3 DEF Sync
  <2>4. CASE StopRunner(w)
    <3> DEFINE l == [runner[cloudRun] EXCEPT !.stop = TRUE]
    <3>1. cloudRun \in Runners => l \in Loops /\ LoopOK(l) /\ l.at = runner[cloudRun].at
      BY <1>t DEF Types, LoopsOK, LoopOK, Loops
    <3>2. runner' = [runner EXCEPT ![cloudRun] = l] /\ cloudRun' = cloudRun
      BY <2>4 DEF StopRunner
    <3>3. runner' \in [Runners -> Loops] /\ LoopsOK' /\ OnlyCurrent'
      <4> HIDE DEF l
      <4> QED BY <3>1, <3>2, SignalStep
    <3> QED BY <2>4, <3>3, <1>t DEF StopRunner, Types, broker
  <2>5. CASE Replace(w)
    <3>1. job' \in [Workers -> [at : {"idle", "ask", "expire", "sync", "stop"}, want : Sessions]]
      BY <2>0, <2>5, <1>t DEF Replace, Types, Idle
    <3>2. \A r \in Runners : runner[r].at \in {"unborn", "done"}
      BY <2>5 DEF Replace, Gone, OnlyCurrent
    <3>3. CASE cloudRun' = 0 /\ UNCHANGED <<runner, started>>
      BY <2>5, <3>1, <3>2, <3>3, <1>t DEF Replace, Types, LoopsOK, OnlyCurrent, broker
    <3>4. CASE /\ started' = started + 1 /\ cloudRun' = started'
               /\ runner' = [runner EXCEPT ![started'] = NewRunner(job[w].want)]
      <4>1. runner' \in [Runners -> Loops] /\ LoopsOK' /\ OnlyCurrent'
        BY <2>0, <3>2, <3>4, StartStep
      <4> QED BY <2>5, <3>1, <3>4, <4>1, <1>t DEF Replace, Types, broker
    <3> QED BY <2>5, <3>3, <3>4 DEF Replace
  <2> QED BY <1>2, <2>1, <2>2, <2>3, <2>4, <2>5 DEF Serve
<1>3. ASSUME NEW r \in Runners, Loop(r) PROVE IInv'
  <2>0. runner[r] \in Loops /\ LoopOK(runner[r]) BY <1>t DEF Types, LoopsOK
  <2>1. CASE AuthFails(r)
    <3>1. runner' \in [Runners -> Loops] /\ LoopsOK' /\ OnlyCurrent'
      BY <2>1, <1>t, EndedLoop, OwnStep DEF AuthFails
    <3>2. [at |-> "expire", want |-> NoToken]
            \in [at : {"idle", "ask", "expire", "sync", "stop"}, want : Sessions]
      BY DEF Sessions
    <3> QED BY <2>1, <3>1, <3>2, <1>t DEF AuthFails, Types
  <2>2. ASSUME NEW l \in Loops, LoopOK(l), Stays, runner' = [runner EXCEPT ![r] = l],
               runner[r].at \notin {"unborn", "done"}
        PROVE  IInv'
    <3>1. runner' \in [Runners -> Loops] /\ LoopsOK' /\ OnlyCurrent'
      BY <2>2, OwnStep DEF Stays
    <3> QED BY <2>2, <3>1, <1>t DEF Stays, Types, broker
  <2>3. CASE Attempt(r)
    <3> DEFINE l == [runner[r] EXCEPT !.at = "dial", !.retry = FALSE, !.tries = @ + 1]
    <3>1. PICK n \in Nat : n = runner[r].tries + 1 BY <2>0 DEF Loops
    <3>2. l = [runner[r] EXCEPT !.at = "dial", !.retry = FALSE, !.tries = n] BY <2>0, <3>1 DEF Loops
    <3> HIDE DEF l
    <3>3. l \in Loops BY <2>0, <3>2 DEF Loops
    <3>4. LoopOK(l) BY <2>0, <2>3, <3>1, <3>2 DEF Attempt, LoopOK, Loops
    <3>5. Stays /\ runner' = [runner EXCEPT ![r] = l] /\ runner[r].at \notin {"unborn", "done"}
      BY <2>3 DEF Attempt, l
    <3> QED BY <2>2, <3>3, <3>4, <3>5
  <2>4. CASE DialSucceeds(r)
    <3>1. [runner[r] EXCEPT !.at = "up"] \in Loops /\ LoopOK([runner[r] EXCEPT !.at = "up"])
      BY <2>0, <2>4 DEF DialSucceeds, Loops, LoopOK
    <3> QED BY <2>2, <2>4, <3>1 DEF DialSucceeds
  <2>5. CASE WaitEnds(r)
    <3>1. [runner[r] EXCEPT !.at = "top"] \in Loops /\ LoopOK([runner[r] EXCEPT !.at = "top"])
      BY <2>0, <2>5 DEF WaitEnds, Loops, LoopOK
    <3> QED BY <2>2, <2>5, <3>1 DEF WaitEnds
  <2>6. CASE TakeRetry(r)
    <3>1. /\ [runner[r] EXCEPT !.at = "top", !.retry = FALSE] \in Loops
          /\ LoopOK([runner[r] EXCEPT !.at = "top", !.retry = FALSE])
      BY <2>0, <2>6 DEF TakeRetry, Loops, LoopOK
    <3> QED BY <2>2, <2>6, <3>1 DEF TakeRetry
  <2>7. CASE Stopped(r)
    BY <2>2, <2>7, <1>t, EndedLoop DEF Stopped, HearsStop
  <2>8. ASSUME NEW b \in BOOLEAN, DialFails(r, b) PROVE IInv'
    BY <2>2, <2>8, <1>t, WaitingLoop DEF DialFails
  <2>9. ASSUME NEW b \in BOOLEAN, Lost(r, b) PROVE IInv'
    BY <2>2, <2>9, <1>t, WaitingLoop DEF Lost
  <2> QED BY <1>3, <2>1, <2>3, <2>4, <2>5, <2>6, <2>7, <2>8, <2>9 DEF Loop
<1>4. CASE RetryCloudNow
  <2> DEFINE l == [runner[cloudRun] EXCEPT !.retry = TRUE, !.asked = TRUE]
  <2>1. cloudRun \in Runners => l \in Loops /\ LoopOK(l) /\ l.at = runner[cloudRun].at
    BY <1>4, <1>t DEF RetryCloudNow, Types, LoopsOK, LoopOK, Loops
  <2>2. runner' = [runner EXCEPT ![cloudRun] = l] /\ cloudRun' = cloudRun
    BY <1>4 DEF RetryCloudNow
  <2>3. runner' \in [Runners -> Loops] /\ LoopsOK' /\ OnlyCurrent'
    <3> HIDE DEF l
    <3> QED BY <2>1, <2>2, SignalStep
  <2> QED BY <1>4, <2>3, <1>t DEF RetryCloudNow, Types, broker
<1>5. ASSUME NEW t \in Tokens, TokenDies(t) PROVE IInv'
  BY <1>5, <1>t DEF TokenDies, Types, LoopsOK, OnlyCurrent
<1>6. CASE UNCHANGED vars
  BY <1>6, <1>t DEF vars, Types, LoopsOK, OnlyCurrent
<1> QED BY <1>1, <1>2, <1>3, <1>4, <1>5, <1>6 DEF Next

(* Every state is in order.                                                  *)
LEMMA Invariance == Spec => []IInv
BY InitOK, StepOK, PTL DEF Spec

(* There is never a second loop, however the requests and the expired tokens *)
(* overlap: the account has one connection.                                  *)
THEOREM NeverTwoLoops == Spec => []OneLoop
<1>1. IInv => OneLoop
  <2> SUFFICES ASSUME IInv PROVE OneLoop OBVIOUS
  <2>1. Active \subseteq {cloudRun} BY DEF IInv, OnlyCurrent, Active
  <2>2. IsFiniteSet({cloudRun}) /\ Cardinality({cloudRun}) = 1 BY FS_Singleton
  <2>3. Cardinality(Active) <= Cardinality({cloudRun}) BY <2>1, <2>2, FS_Subset
  <2> QED BY <2>2, <2>3 DEF OneLoop
<1> QED BY <1>1, Invariance, PTL

(* A press of Retry never cuts a later wait short.                           *)
THEOREM RetryStaysInItsWait == Spec => []RetryIsForThisWait
<1>1. IInv => RetryIsForThisWait
  BY DEF IInv, LoopsOK, LoopOK, RetryIsForThisWait
<1> QED BY <1>1, Invariance, PTL

(* Whatever the broker does and the user presses, the hold comes in time.    *)
THEOREM HoldIsReached == Spec => []HoldComes
<1>1. IInv => HoldComes
  BY CloudAssumption DEF IInv, Types, Loops, LoopsOK, LoopOK, HoldComes
<1> QED BY <1>1, Invariance, PTL

-----------------------------------------------------------------------------
(* Part "alone": a request or an expired token at a time.                    *)
OneJob == \A v, w \in Workers : job[v] # Idle /\ job[w] # Idle => v = w

(* What SetCloudPrinters has made of the account.                            *)
Synced == IF cloudRun = 0 THEN Session(account) = NoToken
                          ELSE runner[cloudRun].token = Session(account)

(* Every loop was started for a change of its own, and with a token.         *)
Counted ==
    /\ cloudRun <= started /\ started <= changes /\ changes \in 0 .. MaxChanges
    /\ \A r \in Runners : r > started => runner[r].at = "unborn"
    /\ cloudRun # 0 => runner[cloudRun].token # NoToken

(* What a worker has still to do is what the account asks for; a loop has    *)
(* an OnCloudAuthFailed only once it has ended.                              *)
JobFits(w) ==
    /\ job[w].at = "idle" => job[w] = Idle
    /\ job[w].at = "ask" => job[w].want = account.token
    /\ job[w].at = "expire" => account.token \notin alive
    /\ job[w].at \in {"sync", "stop"} => /\ job[w].want = Session(account)
                                         /\ job[w].want # NoToken => started < changes
    /\ job[w].at = "stop" => cloudRun # 0
    /\ w \in Runners /\ job[w] # Idle => runner[w].at = "done"

AloneInv ==
    /\ OneJob /\ Counted
    /\ account.expired => account.token \notin alive
    /\ (\A w \in Workers : job[w].at \notin {"sync", "stop"}) => Synced
    /\ \A w \in Workers : JobFits(w)

LEMMA AloneInit == Init => AloneInv
BY CloudAssumption DEF Init, AloneInv, OneJob, Counted, JobFits, Synced, Session, Idle, Unborn, Fresh,
   Runners, Workers

(* While one worker is at its job, every other is idle.                      *)
LEMMA OthersIdle ==
    ASSUME Types, AloneInv, OneJob', NEW w \in Workers, NEW j, job' = [job EXCEPT ![w] = j],
           job[w] # Idle \/ j # Idle
    PROVE  /\ \A v \in Workers : v # w => job[v] = Idle /\ job'[v] = Idle
           /\ job'[w] = j
BY DEF Types, AloneInv, OneJob

(* A step of one worker keeps what is said of the others.                    *)
LEMMA WorkerStep ==
    ASSUME Types, AloneInv, OneJob', NEW w \in Workers, NEW j, job' = [job EXCEPT ![w] = j],
           job[w] # Idle \/ j # Idle,
           Counted', account'.expired => account'.token \notin alive',
           j.at \notin {"sync", "stop"} => Synced', JobFits(w)'
    PROVE  AloneInv'
<1>1. /\ \A v \in Workers : v # w => job[v] = Idle /\ job'[v] = Idle
      /\ job'[w] = j
  BY OthersIdle
<1>2. \A v \in Workers : JobFits(v)'
  BY <1>1 DEF JobFits, Idle
<1> QED BY <1>1, <1>2 DEF AloneInv

(* The others are idle, so a worker with nothing to ask for finds the        *)
(* account and the loop in step.                                             *)
LEMMA InStep ==
    ASSUME Types, AloneInv, OneJob', NEW w \in Workers, NEW j, job' = [job EXCEPT ![w] = j],
           job[w] # Idle \/ j # Idle, job[w].at \notin {"sync", "stop"}
    PROVE  Synced
<1>1. \A v \in Workers : v # w => job[v] = Idle BY OthersIdle
<1> QED BY <1>1 DEF AloneInv, Idle

(* A new loop is the first of its number.                                    *)
LEMMA NextNumber ==
    ASSUME Types, Counted, started < changes
    PROVE  started + 1 \in Runners /\ started + 1 # 0 /\ runner[started + 1].at = "unborn"
BY CloudAssumption DEF Types, Counted, Runners

(* Started again, the loop runs for what was asked.                          *)
LEMMA StartedFits ==
    ASSUME Types, AloneInv, OneJob', NEW w \in Workers, job' = [job EXCEPT ![w] = Idle],
           job[w].at \in {"sync", "stop"}, job[w].want # NoToken,
           started' = started + 1, cloudRun' = started',
           runner' = [runner EXCEPT ![started'] = NewRunner(job[w].want)],
           UNCHANGED <<account, broker>>
    PROVE  AloneInv'
<1>1. JobFits(w) /\ Counted BY DEF AloneInv
<1>2. started < changes /\ job[w].want = Session(account) BY <1>1 DEF JobFits
<1>3. started' \in Runners /\ started' # 0 /\ runner[started'].at = "unborn"
  BY <1>1, <1>2, NextNumber
<1>4. runner'[started'] = NewRunner(job[w].want) /\ runner'[started'].token = Session(account)
      /\ runner'[started'].token # NoToken
  BY <1>2, <1>3 DEF Types, NewRunner, Fresh
<1>5. \A r \in Runners : r # started' => runner'[r] = runner[r]
  BY DEF Types
<1>6. Counted'
  <2>1. runner'[started'].token # NoToken BY <1>4
  <2>2. \A r \in Runners : r > started' => runner'[r].at = "unborn" BY <1>1, <1>5 DEF Types, Counted, Runners
  <2> QED BY <1>1, <1>2, <2>1, <2>2 DEF Types, Counted, broker
<1>7. Synced' BY <1>3, <1>4 DEF Synced, Session
<1>8. account'.expired => account'.token \notin alive' BY DEF AloneInv, broker
<1>9. JobFits(w)' BY DEF JobFits, Types, Idle
<1>10. job[w] # Idle BY DEF Idle
<1> QED BY <1>6, <1>7, <1>8, <1>9, <1>10, WorkerStep

(* A loop's own step keeps everything in step with the account.              *)
LEMMA LoopStays ==
    ASSUME Types, AloneInv, Stays, NEW r \in Runners, NEW l,
           runner[r].at \notin {"unborn", "done"}, l.token = runner[r].token,
           runner' = [runner EXCEPT ![r] = l]
    PROVE  AloneInv'
<1>1. Counted /\ \A w \in Workers : JobFits(w) BY DEF AloneInv
<1>2. r <= started BY <1>1 DEF Types, Counted, Runners
<1>3. Counted' BY <1>1, <1>2 DEF Types, Counted, Runners, Stays, broker
<1>4. Synced <=> Synced'
  BY DEF Types, Synced, Session, Stays
<1>5. \A w \in Workers : JobFits(w)'
  BY <1>1 DEF JobFits, Types, Stays, Session, broker
<1>6. OneJob' BY DEF AloneInv, OneJob, Stays
<1> QED BY <1>3, <1>4, <1>5, <1>6 DEF AloneInv, Stays, broker

(* One worker at a time, every step keeps the account, what is still to do   *)
(* for it, and its loop in step.                                             *)
LEMMA AloneStep ==
    ASSUME IInv, AloneInv, OneJob', Next
    PROVE  AloneInv'
<1>t. Types /\ OnlyCurrent /\ Counted /\ \A w \in Workers : JobFits(w)
  BY DEF IInv, AloneInv
<1>1. ASSUME NEW h \in Handlers, Request(h) PROVE AloneInv'
  <2>0. h \in Workers /\ h \notin Runners BY CloudAssumption DEF Workers, Runners
  <2>1. CASE AskDevices(h)
    <3>1. job' = [job EXCEPT ![h] = [at |-> "ask", want |-> account.token]] /\ job[h] = Idle
          /\ UNCHANGED <<account, runner, cloudRun, started, changes, alive>>
      BY <2>1 DEF AskDevices, broker
    <3>2. Synced
      <4>1. [at |-> "ask", want |-> account.token] # Idle /\ job[h].at \notin {"sync", "stop"}
        BY <3>1 DEF Idle
      <4> QED BY <2>0, <3>1, <4>1, <1>t, InStep
    <3>3. Synced' /\ Counted' BY <3>1, <3>2, <1>t DEF Synced, Session, Counted
    <3>4. JobFits(h)' BY <2>0, <3>1, <1>t DEF JobFits, Types
    <3> QED BY <2>0, <3>1, <3>3, <3>4, <1>t, WorkerStep DEF Idle, AloneInv
  <2>2. ASSUME NEW acc, Change(h, acc), acc.expired => acc.token \notin alive PROVE AloneInv'
    <3>1. job' = [job EXCEPT ![h] = [at |-> "sync", want |-> Session(acc)]] /\ job[h] = Idle
          /\ account' = acc /\ changes < MaxChanges /\ changes' = changes + 1
          /\ UNCHANGED <<runner, cloudRun, started, alive>>
      BY <2>2 DEF Change
    <3>2. Counted' BY <3>1, <1>t, CloudAssumption DEF Counted, Types
    <3>3. started' < changes' BY <3>1, <1>t DEF Counted, Types
    <3>4. job'[h] = [at |-> "sync", want |-> Session(acc)] BY <2>0, <3>1, <1>t DEF Types
    <3>5. JobFits(h)' BY <2>0, <3>1, <3>3, <3>4 DEF JobFits, Session
    <3> QED BY <2>0, <2>2, <3>1, <3>2, <3>5, <1>t, WorkerStep DEF Idle
  <2>3. CASE Link(h)
    <3>1. PICK t \in alive : Change(h, [account EXCEPT !.token = t, !.expired = FALSE])
      BY <2>3 DEF Link
    <3> QED BY <2>2, <3>1, <1>t DEF Types
  <2>4. CASE Unlink(h)
    BY <2>2, <2>4, <1>t DEF Types, Unlink
  <2>5. CASE SetPrinters(h)
    <3>1. PICK has \in BOOLEAN : Change(h, [account EXCEPT !.printers = has])
      BY <2>5 DEF SetPrinters
    <3> QED BY <2>2, <3>1, <1>t DEF Types, AloneInv
  <2> QED BY <1>1, <2>1, <2>3, <2>4, <2>5 DEF Request
<1>2. ASSUME NEW w \in Workers, Serve(w) PROVE AloneInv'
  <2>1. CASE w \in Handlers /\ DevicesAnswered(w)
    <3>0. w \notin Runners BY <2>1, CloudAssumption DEF Runners
    <3>1. PICK j : /\ j = (IF job[w].want \in alive THEN Idle ELSE [at |-> "expire", want |-> NoToken])
                   /\ job' = [job EXCEPT ![w] = j] /\ job[w].at = "ask"
                   /\ UNCHANGED <<account, runner, cloudRun, started, changes, alive>>
      BY <2>1 DEF DevicesAnswered, broker
    <3>2. job[w].want = account.token /\ job[w] # Idle BY <3>1, <1>t DEF JobFits, Idle
    <3>3. Synced BY <3>1, <3>2, <1>t, InStep
    <3>4. Synced' /\ Counted' BY <3>1, <3>3, <1>t DEF Synced, Session, Counted
    <3>5. JobFits(w)' BY <3>0, <3>1, <3>2, <1>t DEF JobFits, Types, Idle
    <3> QED BY <3>1, <3>2, <3>4, <3>5, <1>t, WorkerStep DEF AloneInv
  <2>2. CASE Expire(w)
    <3>0. job[w].at = "expire" /\ job[w] # Idle /\ account.token \notin alive
          /\ UNCHANGED <<runner, cloudRun, started, changes, alive>>
      BY <2>2, <1>t DEF Expire, JobFits, Idle, broker
    <3>1. Counted' BY <3>0, <1>t DEF Counted
    <3>2. CASE account.token = NoToken
      <4>1. job' = [job EXCEPT ![w] = Idle] /\ account' = account BY <2>2, <3>2 DEF Expire
      <4>2. Synced BY <3>0, <4>1, <1>t, InStep
      <4>3. Synced' BY <3>0, <4>1, <4>2 DEF Synced, Session
      <4>4. JobFits(w)' BY <4>1, <1>t DEF JobFits, Types, Idle
      <4> QED BY <3>0, <3>1, <4>1, <4>3, <4>4, <1>t, WorkerStep DEF AloneInv
    <3>3. CASE account.token # NoToken
      <4>1. /\ job' = [job EXCEPT ![w] = [at |-> "sync", want |-> NoToken]]
            /\ account' = [account EXCEPT !.expired = TRUE]
        BY <2>2, <3>3 DEF Expire
      <4>2. account'.expired /\ account'.token = account.token BY <4>1, <1>t DEF Types
      <4>3. job'[w] = [at |-> "sync", want |-> NoToken] BY <4>1, <1>t DEF Types
      <4>4. JobFits(w)'
        <5>1. w \in Runners => runner[w].at = "done" BY <3>0, <1>t DEF JobFits
        <5> QED BY <3>0, <4>2, <4>3, <5>1 DEF JobFits, Session
      <4>5. account'.token \notin alive' BY <3>0, <4>2
      <4>6. PICK j : j = [at |-> "sync", want |-> NoToken] OBVIOUS
      <4> QED BY <3>0, <3>1, <4>1, <4>4, <4>5, <4>6, <1>t, WorkerStep
    <3> QED BY <3>2, <3>3
  <2>3. CASE Sync(w)
    <3>0. job[w].at = "sync" /\ job[w] # Idle /\ job[w].want = Session(account)
          /\ job' = [job EXCEPT ![w] = Idle] /\ UNCHANGED <<account, broker>>
      BY <2>3, <1>t DEF Sync, JobFits, Idle
    <3>1. CASE UNCHANGED <<runner, cloudRun, started>>
      <4>1. Synced'
        BY <2>3, <3>0, <3>1, <1>t DEF Sync, Synced, Session, Counted, Types
      <4>2. Counted' BY <3>0, <3>1, <1>t DEF Counted, broker
      <4>3. JobFits(w)' BY <3>0, <1>t DEF JobFits, Types, Idle
      <4> QED BY <3>0, <4>1, <4>2, <4>3, <1>t, WorkerStep DEF AloneInv, broker
    <3>2. CASE /\ job[w].want # NoToken
               /\ started' = started + 1 /\ cloudRun' = started'
               /\ runner' = [runner EXCEPT ![started'] = NewRunner(job[w].want)]
      BY <3>0, <3>2, <1>t, StartedFits
    <3> QED BY <2>3, <3>1, <3>2 DEF Sync
  <2>4. CASE StopRunner(w)
    <3>0. PICK j : /\ j = [job[w] EXCEPT !.at = "stop"] /\ job' = [job EXCEPT ![w] = j]
                   /\ job[w].at = "sync" /\ cloudRun # 0
                   /\ runner' = [runner EXCEPT ![cloudRun].stop = TRUE]
                   /\ UNCHANGED <<account, cloudRun, started, changes, alive>>
      BY <2>4 DEF StopRunner, broker
    <3>1. j.at = "stop" /\ j.want = job[w].want /\ job[w] # Idle BY <3>0, <1>t DEF Types, Idle
    <3>2. \A r \in Runners : runner'[r].at = runner[r].at BY <3>0, <1>t DEF Types, Loops
    <3>3. Counted' BY <3>0, <3>2, <1>t DEF Counted
    <3>4. job'[w] = j BY <3>0, <1>t DEF Types
    <3>5. JobFits(w)'
      <4>1. job[w].want = Session(account) /\ (job[w].want # NoToken => started < changes)
            /\ (w \in Runners => runner[w].at = "done")
        BY <3>0, <3>1, <1>t DEF JobFits
      <4> QED BY <3>0, <3>1, <3>2, <3>4, <4>1 DEF JobFits, Session
    <3> QED BY <3>0, <3>1, <3>3, <3>5, <1>t, WorkerStep DEF AloneInv
  <2>5. CASE Replace(w)
    <3>0. job[w].at = "stop" /\ job[w] # Idle /\ job[w].want = Session(account)
          /\ job' = [job EXCEPT ![w] = Idle] /\ UNCHANGED <<account, broker>>
      BY <2>5, <1>t DEF Replace, JobFits, Idle
    <3>1. CASE job[w].want = NoToken /\ cloudRun' = 0 /\ UNCHANGED <<runner, started>>
      <4>1. Synced' BY <3>0, <3>1 DEF Synced, Session
      <4>2. Counted' BY <3>0, <3>1, <1>t DEF Counted, Types, broker
      <4>3. JobFits(w)' BY <3>0, <1>t DEF JobFits, Types, Idle
      <4> QED BY <3>0, <4>1, <4>2, <4>3, <1>t, WorkerStep DEF AloneInv, broker
    <3>2. CASE /\ job[w].want # NoToken
               /\ started' = started + 1 /\ cloudRun' = started'
               /\ runner' = [runner EXCEPT ![started'] = NewRunner(job[w].want)]
      BY <3>0, <3>2, <1>t, StartedFits
    <3> QED BY <2>5, <3>1, <3>2 DEF Replace
  <2> QED BY <1>2, <2>1, <2>2, <2>3, <2>4, <2>5 DEF Serve
<1>3. ASSUME NEW r \in Runners, Loop(r) PROVE AloneInv'
  <2>0. runner[r] \in Loops BY <1>t DEF Types
  <2>1. CASE AuthFails(r)
    <3>0. PICK j : /\ j = [at |-> "expire", want |-> NoToken] /\ job' = [job EXCEPT ![r] = j]
                   /\ runner' = [runner EXCEPT ![r] = Ended(r)] /\ runner[r].at = "dial"
                   /\ runner[r].token \notin alive
                   /\ UNCHANGED <<account, cloudRun, started, changes, alive>>
      BY <2>1 DEF AuthFails
    <3>1. r \in Workers /\ r = cloudRun /\ r # 0 /\ r <= started /\ j # Idle /\ job[r] = Idle
      BY <3>0, <1>t DEF Workers, OnlyCurrent, Runners, Counted, Types, JobFits, Idle
    <3>2. Synced
      <4>1. job[r].at \notin {"sync", "stop"} BY <3>1 DEF Idle
      <4> QED BY <3>0, <3>1, <4>1, <1>t, InStep
    <3>3. runner'[r] = Ended(r) /\ Ended(r).token = runner[r].token /\ Ended(r).at = "done"
      BY <3>0, <1>t DEF Types, Ended, Fresh
    <3>4. account.token \notin alive
      <4>1. runner[r].token = Session(account) BY <3>1, <3>2 DEF Synced
      <4>2. CASE account.expired BY <4>2 DEF AloneInv
      <4>3. CASE ~account.expired /\ account.printers BY <4>1, <4>3, <3>0 DEF Session
      <4>4. CASE ~account.expired /\ ~account.printers
        BY <4>1, <4>4, <3>1, <1>t DEF Session, Counted
      <4> QED BY <4>2, <4>3, <4>4, <1>t DEF Types
    <3>5. Synced' BY <3>0, <3>1, <3>2, <3>3 DEF Synced, Session
    <3>6. Counted' BY <3>0, <3>1, <3>3, <1>t DEF Counted, Types, Runners
    <3>7. JobFits(r)' BY <3>0, <3>1, <3>3, <3>4, <1>t DEF JobFits, Types
    <3> QED BY <3>0, <3>1, <3>5, <3>6, <3>7, <1>t, WorkerStep DEF AloneInv
  <2>2. CASE Attempt(r)
    <3>1. PICK n : n = runner[r].tries + 1 OBVIOUS
    <3>2. runner' = [runner EXCEPT ![r] = [runner[r] EXCEPT !.at = "dial", !.retry = FALSE, !.tries = n]]
      BY <2>2, <3>1, <1>t DEF Attempt, Types
    <3>3. [runner[r] EXCEPT !.at = "dial", !.retry = FALSE, !.tries = n].token = runner[r].token
      BY <2>0 DEF Loops
    <3>4. runner[r].at = "top" /\ Stays BY <2>2 DEF Attempt
    <3> QED BY <3>2, <3>3, <3>4, <1>t, LoopStays
  <2>3. CASE DialSucceeds(r)
    BY <2>0, <2>3, <1>t, LoopStays DEF DialSucceeds, Loops
  <2>4. CASE WaitEnds(r)
    BY <2>0, <2>4, <1>t, LoopStays DEF WaitEnds, Loops
  <2>5. CASE TakeRetry(r)
    BY <2>0, <2>5, <1>t, LoopStays DEF TakeRetry, Loops
  <2>6. CASE Stopped(r)
    BY <2>6, <1>t, LoopStays DEF Stopped, HearsStop, Ended, Fresh
  <2>7. ASSUME NEW refused, NEW stable PROVE Wait(r, refused, stable).token = runner[r].token
    BY <2>0 DEF Wait, Loops
  <2>8. ASSUME NEW b \in BOOLEAN, DialFails(r, b) PROVE AloneInv'
    BY <2>7, <2>8, <1>t, LoopStays DEF DialFails
  <2>9. ASSUME NEW b \in BOOLEAN, Lost(r, b) PROVE AloneInv'
    BY <2>7, <2>9, <1>t, LoopStays DEF Lost
  <2> QED BY <1>3, <2>1, <2>2, <2>3, <2>4, <2>5, <2>6, <2>8, <2>9 DEF Loop
<1>4. CASE RetryCloudNow
  <2>1. /\ cloudRun # 0 /\ runner[cloudRun].at = "wait" /\ Stays
        /\ runner' = [runner EXCEPT ![cloudRun].retry = TRUE, ![cloudRun].asked = TRUE]
    BY <1>4 DEF RetryCloudNow, Stays
  <2>2. cloudRun \in Runners
    <3>1. cloudRun \in Nat /\ started \in Nat /\ changes \in 0 .. MaxChanges /\ MaxChanges \in Nat
      BY <1>t, CloudAssumption DEF Types, Counted
    <3> QED BY <2>1, <3>1, <1>t DEF Counted, Runners
  <2>3. runner[cloudRun] \in Loops BY <2>2, <1>t DEF Types
  <2> QED BY <2>1, <2>2, <2>3, <1>t, LoopStays DEF Loops
<1>5. ASSUME NEW t \in Tokens, TokenDies(t) PROVE AloneInv'
  BY <1>5, <1>t DEF TokenDies, AloneInv, OneJob, Counted, Synced, Session, JobFits
<1> QED BY <1>1, <1>2, <1>3, <1>4, <1>5 DEF Next

-----------------------------------------------------------------------------
(* The printers on the connection.                                           *)
PrinterTypes ==
    /\ named \in [Serials -> CloudNames \cup {NoCloudName}]
    /\ shown \in [CloudNames -> {"none", "off", "on"} \cup Serials]
    /\ inHand \in {NoReport} \cup [serial : Serials, name : CloudNames]
    /\ leaving \in CloudNames \cup {NoCloudName}
    /\ link \in {"up", "down", "dropping"}

(* No two printers have one name.                                            *)
OneName == \A s, t \in Serials : OnAccount(s) /\ named[s] = named[t] => s = t

PrintersInv == PrinterTypes /\ OneName /\ RoutesFollow

LEMMA PrintersInit == CloudPrintersInit => PrintersInv
BY DEF CloudPrintersInit, PrintersInv, PrinterTypes, OneName, RoutesFollow, OnAccount, AccountNames, NoReport

(* A name is the account's if a printer goes by it.                          *)
LEMMA NameOfOne ==
    ASSUME PrinterTypes
    PROVE  \A n \in CloudNames : n \in AccountNames <=> \E s \in Serials : named[s] = n
BY CloudPrintersAssumption DEF PrinterTypes, AccountNames

(* What a change of one printer's name does to the names of the account.     *)
LEMMA NamesChange ==
    ASSUME PrinterTypes, OneName, NEW s \in Serials, NEW n \in CloudNames \cup {NoCloudName},
           n \notin AccountNames, named' = [named EXCEPT ![s] = n]
    PROVE  /\ AccountNames' = (AccountNames \ {named[s]}) \cup ({n} \ {NoCloudName})
           /\ OneName' /\ named' \in [Serials -> CloudNames \cup {NoCloudName}]
<1>1. \A t \in Serials : named'[t] = IF t = s THEN n ELSE named[t] BY DEF PrinterTypes
<1>2. OneName' BY <1>1 DEF OneName, OnAccount, AccountNames
<1>3. AccountNames' = {named'[t] : t \in Serials} \ {NoCloudName} BY DEF AccountNames
<1>4. ASSUME NEW m PROVE m \in AccountNames' <=> m \in (AccountNames \ {named[s]}) \cup ({n} \ {NoCloudName})
  <2>1. CASE m = NoCloudName BY <2>1, <1>3 DEF AccountNames
  <2>2. CASE m # NoCloudName
    <3>1. m \in AccountNames' => m \in (AccountNames \ {named[s]}) \cup ({n} \ {NoCloudName})
      <4>1. SUFFICES ASSUME NEW t \in Serials, named'[t] = m
                     PROVE  m \in (AccountNames \ {named[s]}) \cup ({n} \ {NoCloudName})
        BY <1>3
      <4>2. CASE t = s BY <4>1, <4>2, <2>2, <1>1
      <4>3. CASE t # s BY <4>1, <4>3, <2>2, <1>1 DEF AccountNames, OneName, OnAccount
      <4> QED BY <4>2, <4>3
    <3>2. ASSUME m \in AccountNames, m # named[s] PROVE m \in AccountNames'
      <4>1. PICK t \in Serials : named[t] = m BY <3>2 DEF AccountNames
      <4> QED BY <4>1, <3>2, <2>2, <1>1, <1>3
    <3>3. m = n => m \in AccountNames' BY <2>2, <1>1, <1>3
    <3> QED BY <3>1, <3>2, <3>3
  <2> QED BY <2>1, <2>2
<1>5. named' \in [Serials -> CloudNames \cup {NoCloudName}] BY DEF PrinterTypes
<1> QED BY <1>2, <1>4, <1>5

(* A command goes to the account's printers only, whatever changes.          *)
LEMMA PrintersStep == PrintersInv /\ CloudPrintersNext => PrintersInv'
<1> SUFFICES ASSUME PrintersInv, CloudPrintersNext PROVE PrintersInv'
  OBVIOUS
<1>t. PrinterTypes /\ OneName /\ RoutesFollow BY DEF PrintersInv
<1>k. ASSUME UNCHANGED named PROVE OneName' /\ AccountNames' = AccountNames
  BY <1>k, <1>t DEF OneName, OnAccount, AccountNames
<1>1. CASE LinkUp
  BY <1>1, <1>k, <1>t DEF LinkUp, PrintersInv, PrinterTypes, RoutesFollow
<1>2. CASE LinkLost
  BY <1>2, <1>k, <1>t DEF LinkLost, PrintersInv, PrinterTypes, RoutesFollow
<1>3. CASE MarkNames
  BY <1>3, <1>k, <1>t DEF MarkNames, PrintersInv, PrinterTypes, RoutesFollow
<1>4. CASE RemoveState
  BY <1>4, <1>k, <1>t DEF RemoveState, PrintersInv, PrinterTypes, RoutesFollow
<1>5. CASE StoreReport
  <2>1. inHand.name \in CloudNames /\ inHand.serial \in Serials
    BY <1>5, <1>t DEF StoreReport, PrinterTypes
  <2> QED BY <1>5, <2>1, <1>k, <1>t DEF StoreReport, PrintersInv, PrinterTypes, RoutesFollow
<1>6. ASSUME NEW s \in Serials, HearReport(s) PROVE PrintersInv'
  <2>1. inHand' \in [serial : Serials, name : CloudNames]
    BY <1>6, <1>t DEF HearReport, PrinterTypes, OnAccount
  <2> QED BY <1>6, <2>1, <1>k, <1>t DEF HearReport, PrintersInv, PrinterTypes, RoutesFollow
<1>7. ASSUME NEW s \in Serials, RemovePrinter(s) PROVE PrintersInv'
  <2>1. NoCloudName \notin AccountNames /\ named' = [named EXCEPT ![s] = NoCloudName]
        /\ NoCloudName \in CloudNames \cup {NoCloudName}
    BY <1>7 DEF RemovePrinter, AccountNames
  <2>2. AccountNames' = AccountNames \ {named[s]} /\ OneName'
        /\ named' \in [Serials -> CloudNames \cup {NoCloudName}]
    BY <2>1, <1>t, NamesChange
  <2> QED BY <1>7, <2>2, <1>t DEF RemovePrinter, PrintersInv, PrinterTypes, RoutesFollow
<1>8. ASSUME NEW s \in Serials, NEW n \in CloudNames, AddPrinter(s, n) PROVE PrintersInv'
  <2>1. n \notin AccountNames /\ named' = [named EXCEPT ![s] = n] /\ named[s] = NoCloudName
        /\ n # NoCloudName
    BY <1>8, CloudPrintersAssumption DEF AddPrinter, OnAccount
  <2>2. AccountNames' = AccountNames \cup {n} /\ OneName'
        /\ named' \in [Serials -> CloudNames \cup {NoCloudName}]
    <3>1. NoCloudName \notin AccountNames BY DEF AccountNames
    <3>2. /\ AccountNames' = (AccountNames \ {named[s]}) \cup ({n} \ {NoCloudName}) /\ OneName'
          /\ named' \in [Serials -> CloudNames \cup {NoCloudName}]
      BY <2>1, <1>t, NamesChange
    <3> QED BY <2>1, <3>1, <3>2
  <2>3. shown' \in [CloudNames -> {"none", "off", "on"} \cup Serials]
    BY <1>8, <1>t DEF AddPrinter, PrinterTypes
  <2>4. RoutesFollow' BY <1>8, <2>2, <1>t DEF AddPrinter, RoutesFollow
  <2> QED BY <1>8, <2>2, <2>3, <2>4, <1>t DEF AddPrinter, PrintersInv, PrinterTypes
<1>9. ASSUME NEW s \in Serials, NEW n \in CloudNames, ChangeName(s, n) PROVE PrintersInv'
  <2>1. n \notin AccountNames /\ named' = [named EXCEPT ![s] = n] /\ named[s] \in CloudNames
        /\ n # NoCloudName
    BY <1>9, <1>t, CloudPrintersAssumption DEF ChangeName, OnAccount, PrinterTypes
  <2>2. AccountNames' = (AccountNames \ {named[s]}) \cup {n} /\ OneName'
        /\ named' \in [Serials -> CloudNames \cup {NoCloudName}]
    BY <2>1, <1>t, NamesChange
  <2>3. shown' \in [CloudNames -> {"none", "off", "on"} \cup Serials]
    BY <1>9, <2>1, <1>t DEF ChangeName, CarryOver, PrinterTypes
  <2>4. RoutesFollow' BY <1>9, <2>2, <1>t DEF ChangeName, RenameRoutes, RoutesFollow
  <2> QED BY <1>9, <2>1, <2>2, <2>3, <2>4, <1>t DEF ChangeName, PrintersInv, PrinterTypes
<1> QED BY <1>1, <1>2, <1>3, <1>4, <1>5, <1>6, <1>7, <1>8, <1>9 DEF CloudPrintersNext

-----------------------------------------------------------------------------
(* The names and the states, where the halves of a report and of dropClient  *)
(* stay together.                                                            *)
StateFits(n) ==
    /\ shown[n] # "none" => n \in AccountNames \/ n = leaving
    /\ shown[n] \in Serials /\ n # leaving => named[shown[n]] = n
    /\ link = "up" /\ n \in AccountNames => Live(n)
    /\ link = "down" /\ n # leaving => ~Live(n)

StatesInv ==
    /\ leaving \notin AccountNames
    /\ link = "dropping" => toMark = AccountNames
    /\ link = "down" => inHand = NoReport
    /\ inHand # NoReport => OnAccount(inHand.serial) /\ named[inHand.serial] = inHand.name
    /\ \A n \in CloudNames : StateFits(n)

LEMMA StatesInit == CloudPrintersInit => StatesInv
BY CloudPrintersAssumption
   DEF CloudPrintersInit, StatesInv, StateFits, OnAccount, AccountNames, NoReport, Live

LEMMA StatesStep == PrintersInv /\ StatesInv /\ CloudPrintersNext /\ WholeHalves => StatesInv'
<1> SUFFICES ASSUME PrintersInv, StatesInv, CloudPrintersNext, WholeHalves PROVE StatesInv'
  OBVIOUS
<1>t. PrinterTypes /\ OneName BY DEF PrintersInv
<1>n. NoCloudName \notin AccountNames BY DEF AccountNames
<1>a. Serials \cap {"none", "off", "on"} = {} /\ NoCloudName \notin CloudNames
      /\ NoSerial \notin Serials
  BY CloudPrintersAssumption
<1>k. ASSUME UNCHANGED named PROVE AccountNames' = AccountNames
  BY <1>k DEF AccountNames
<1>1. CASE LinkUp
  <2>1. \A n \in CloudNames : shown'[n] = IF n \in AccountNames THEN "on" ELSE shown[n]
    BY <1>1 DEF LinkUp
  <2>2. \A n \in CloudNames : StateFits(n)'
    BY <1>1, <2>1, <1>k, <1>a DEF LinkUp, StatesInv, StateFits, Live
  <2> QED BY <1>1, <2>2, <1>k DEF LinkUp, StatesInv, OnAccount
<1>2. CASE LinkLost
  BY <1>2, <1>k DEF LinkLost, StatesInv, StateFits, OnAccount, Live
<1>3. CASE MarkNames
  <2>1. \A n \in CloudNames : shown'[n] = IF n \in AccountNames THEN "off" ELSE shown[n]
    BY <1>3 DEF MarkNames, StatesInv
  <2>2. \A n \in CloudNames : StateFits(n)'
    BY <1>3, <2>1, <1>k, <1>a DEF MarkNames, StatesInv, StateFits, Live
  <2>3. inHand = NoReport BY <1>3 DEF MarkNames, WholeHalves
  <2> QED BY <1>3, <2>2, <2>3, <1>k DEF MarkNames, StatesInv, OnAccount
<1>4. CASE RemoveState
  <2>1. leaving \in CloudNames BY <1>4, <1>t DEF RemoveState, PrinterTypes
  <2>2. \A n \in CloudNames : shown'[n] = IF n = leaving THEN "none" ELSE shown[n]
    BY <1>4, <1>t DEF RemoveState, PrinterTypes
  <2>3. \A n \in CloudNames : StateFits(n)'
    BY <1>4, <2>1, <2>2, <1>k, <1>a DEF RemoveState, StatesInv, StateFits, Live
  <2> QED BY <1>4, <2>3, <1>k, <1>n DEF RemoveState, StatesInv, OnAccount
<1>5. CASE StoreReport
  <2>1. inHand.name \in CloudNames /\ inHand.serial \in Serials /\ named[inHand.serial] = inHand.name
        /\ link # "down" /\ inHand.name \in AccountNames
    BY <1>5, <1>t, <1>a DEF StoreReport, PrinterTypes, StatesInv, AccountNames
  <2>2. \A n \in CloudNames : shown'[n] = IF n = inHand.name THEN inHand.serial ELSE shown[n]
    BY <1>5, <1>t DEF StoreReport, PrinterTypes
  <2>3. \A n \in CloudNames : StateFits(n)'
    BY <1>5, <2>1, <2>2, <1>k, <1>a DEF StoreReport, StatesInv, StateFits, Live
  <2> QED BY <1>5, <2>3, <1>k DEF StoreReport, StatesInv, OnAccount
<1>6. ASSUME NEW s \in Serials, HearReport(s) PROVE StatesInv'
  BY <1>6, <1>k DEF HearReport, StatesInv, StateFits, OnAccount, Live
<1>7. ASSUME NEW s \in Serials, NEW n \in CloudNames \cup {NoCloudName},
             n \notin AccountNames, named' = [named EXCEPT ![s] = n], n # named[s],
             UNCHANGED <<link, toMark, inHand>>,
             leaving' = named[s],
             \A m \in CloudNames : StateFits(m)'
      PROVE  StatesInv'
  <2>1. named' # named
    <3>1. named'[s] = n BY <1>7, <1>t DEF PrinterTypes
    <3> QED BY <3>1, <1>7
  <2>2. inHand = NoReport /\ link # "dropping" BY <2>1 DEF WholeHalves
  <2>3. AccountNames' = (AccountNames \ {named[s]}) \cup ({n} \ {NoCloudName})
    BY <1>7, <1>t, NamesChange
  <2> QED BY <1>7, <2>2, <2>3 DEF StatesInv
<1>8. ASSUME NEW s \in Serials, NEW n \in CloudNames \cup {NoCloudName}, named' = [named EXCEPT ![s] = n]
      PROVE  \A t \in Serials : named'[t] = IF t = s THEN n ELSE named[t]
  BY <1>8, <1>t DEF PrinterTypes
<1>10. ASSUME NEW s \in Serials, RemovePrinter(s) PROVE StatesInv'
  <2>1. named' = [named EXCEPT ![s] = NoCloudName] /\ NoCloudName # named[s] /\ leaving = NoCloudName
        /\ UNCHANGED <<link, toMark, inHand, shown>> /\ leaving' = named[s]
    BY <1>10 DEF RemovePrinter, RequestFree, OnAccount
  <2>2. AccountNames' = AccountNames \ {named[s]}
    <3>1. AccountNames' = (AccountNames \ {named[s]}) \cup ({NoCloudName} \ {NoCloudName})
      BY <2>1, <1>t, <1>n, NamesChange
    <3> QED BY <3>1
  <2>3. \A m \in CloudNames : StateFits(m)'
    BY <2>1, <2>2, <1>8, <1>a, <1>t DEF StatesInv, StateFits, Live, PrinterTypes
  <2> QED BY <1>7, <2>1, <2>3, <1>n
<1>11. ASSUME NEW s \in Serials, NEW n \in CloudNames, AddPrinter(s, n) PROVE StatesInv'
  <2>1. named' = [named EXCEPT ![s] = n] /\ named[s] = NoCloudName /\ leaving = NoCloudName
        /\ n \notin AccountNames /\ UNCHANGED <<link, toMark, inHand>> /\ leaving' = named[s]
    BY <1>11 DEF AddPrinter, RequestFree, OnAccount
  <2>2. AccountNames' = AccountNames \cup {n}
    <3>1. AccountNames' = (AccountNames \ {named[s]}) \cup ({n} \ {NoCloudName})
      BY <2>1, <1>t, NamesChange
    <3> QED BY <2>1, <3>1, <1>n, <1>a
  <2>3. /\ \A m \in CloudNames : m # n => shown'[m] = shown[m]
        /\ shown'[n] = IF link = "up" THEN "on" ELSE shown[n]
    BY <1>11, <1>t DEF AddPrinter, PrinterTypes
  <2>4. shown[n] = "none" BY <2>1, <1>a DEF StatesInv, StateFits
  <2>5. link # "dropping"
    <3>1. named'[s] = n /\ named[s] # n BY <2>1, <1>a, <1>t DEF PrinterTypes
    <3> QED BY <3>1 DEF WholeHalves
  <2>6. \A m \in CloudNames : StateFits(m)'
    BY <2>1, <2>2, <2>3, <2>4, <2>5, <1>8, <1>a, <1>t DEF StatesInv, StateFits, Live, PrinterTypes
  <2> QED BY <1>7, <1>a, <2>1, <2>6
<1>12. ASSUME NEW s \in Serials, NEW n \in CloudNames, ChangeName(s, n) PROVE StatesInv'
  <2>0. PICK old : old = named[s] OBVIOUS
  <2>1. named' = [named EXCEPT ![s] = n] /\ old \in AccountNames /\ old \in CloudNames
        /\ leaving = NoCloudName /\ n \notin AccountNames /\ n # old
        /\ UNCHANGED <<link, toMark, inHand>> /\ leaving' = old
    BY <2>0, <1>12, <1>t DEF ChangeName, RequestFree, OnAccount, AccountNames, PrinterTypes
  <2>2. AccountNames' = (AccountNames \ {old}) \cup {n}
    <3>1. AccountNames' = (AccountNames \ {named[s]}) \cup ({n} \ {NoCloudName})
      BY <2>1, <1>t, NamesChange
    <3> QED BY <2>0, <2>1, <3>1, <1>a
  <2>3. /\ \A m \in CloudNames : m # n /\ m # old => shown'[m] = shown[m]
        /\ link = "up" => shown'[old] = "none" /\ shown'[n] = IF Live(old) THEN shown[old] ELSE "on"
        /\ link # "up" => shown' = shown
    BY <1>12, <2>0, <2>1, <1>t DEF ChangeName, CarryOver, PrinterTypes
  <2>4. shown[n] = "none" BY <2>1, <1>a DEF StatesInv, StateFits
  <2>5. link # "dropping"
    <3>1. named'[s] = n /\ named[s] # n BY <2>0, <2>1, <1>8
    <3> QED BY <3>1 DEF WholeHalves
  <2>6. shown[old] \in Serials => shown[old] = s
    BY <2>0, <2>1, <1>t, <1>a DEF StatesInv, StateFits, OneName, OnAccount
  <2>7. \A t \in Serials : named'[t] = IF t = s THEN n ELSE named[t] BY <2>1, <1>8
  <2>8. StateFits(n)'
    BY <2>1, <2>2, <2>3, <2>4, <2>5, <2>6, <2>7, <1>a DEF StatesInv, StateFits, Live
  <2>9. StateFits(old)'
    BY <2>1, <2>2, <2>3, <2>4, <2>5, <2>6, <2>7, <1>a DEF StatesInv, StateFits, Live
  <2>10. ASSUME NEW m \in CloudNames, m # n, m # old PROVE StateFits(m)'
    <3>1. shown'[m] = shown[m] BY <2>3, <2>10
    <3>2. StateFits(m) /\ m # leaving BY <2>1, <1>a DEF StatesInv
    <3> QED BY <2>0, <2>1, <2>2, <2>7, <2>10, <3>1, <3>2, <1>a DEF StateFits, Live
  <2>11. \A m \in CloudNames : StateFits(m)' BY <2>8, <2>9, <2>10
  <2> QED BY <1>7, <2>0, <2>1, <2>11
<1> QED BY <1>1, <1>2, <1>3, <1>4, <1>5, <1>6, <1>10, <1>11, <1>12 DEF CloudPrintersNext

-----------------------------------------------------------------------------
(* All the parts together.                                                   *)
CloudInv ==
    /\ part \in {"overlap", "alone", "signin", "list", "whole"}
    /\ IInv /\ PrintersInv
    /\ part = "alone" => AloneInv
    /\ part = "whole" => StatesInv

LEMMA CloudInvariance == MCSpec => []CloudInv
<1>1. MCInit => CloudInv
  BY InitOK, AloneInit, PrintersInit, StatesInit DEF MCInit, CloudInv
<1>2. CloudInv /\ [RunnerStep \/ SignInStep \/ ListStep]_<<vars, part, cloudSignInVars, cloudPrinterVars>>
        => CloudInv'
  <2> SUFFICES ASSUME CloudInv,
                      [RunnerStep \/ SignInStep \/ ListStep]_<<vars, part, cloudSignInVars, cloudPrinterVars>>
               PROVE  CloudInv'
    OBVIOUS
  <2>r. ASSUME UNCHANGED vars PROVE IInv' /\ (AloneInv => AloneInv')
    <3>1. IInv' BY <2>r, StepOK DEF CloudInv
    <3>2. AloneInv => AloneInv'
      BY <2>r DEF vars, AloneInv, OneJob, Counted, Synced, Session, JobFits
    <3> QED BY <3>1, <3>2
  <2>p. ASSUME UNCHANGED cloudPrinterVars PROVE PrintersInv' /\ (StatesInv => StatesInv')
    <3>1. PrintersInv'
      BY <2>p DEF CloudInv, cloudPrinterVars, PrintersInv, PrinterTypes, OneName, RoutesFollow, OnAccount,
         AccountNames
    <3>2. StatesInv => StatesInv'
      BY <2>p DEF cloudPrinterVars, StatesInv, StateFits, OnAccount, AccountNames, Live
    <3> QED BY <3>1, <3>2
  <2>1. CASE RunnerStep
    <3>1. IInv' BY <2>1, StepOK DEF RunnerStep, CloudInv
    <3>2. part = "alone" => AloneInv'
      <4> SUFFICES ASSUME part = "alone" PROVE AloneInv' OBVIOUS
      <4>1. OneJob' BY <2>1 DEF RunnerStep, OneJob
      <4> QED BY <2>1, <4>1, AloneStep DEF RunnerStep, CloudInv
    <3> QED BY <2>1, <3>1, <3>2, <2>p DEF RunnerStep, CloudInv
  <2>2. CASE SignInStep
    BY <2>2, <2>r, <2>p DEF SignInStep, CloudInv
  <2>3. CASE ListStep
    BY <2>3, <2>r, PrintersStep, StatesStep DEF ListStep, CloudInv
  <2>4. CASE UNCHANGED <<vars, part, cloudSignInVars, cloudPrinterVars>>
    BY <2>4, <2>r, <2>p DEF CloudInv
  <2> QED BY <2>1, <2>2, <2>3, <2>4
<1> QED BY <1>1, <1>2, PTL DEF MCSpec

(* Where requests do not overlap, the account's connection is at rest the    *)
(* one its session asks for, and a token is marked as expired only when      *)
(* Bambu no longer accepts it, through refusals, device lists and stops.     *)
THEOREM ConnectionFollowsTheAccount == MCSpec => []FollowsAccountIfAlone
<1>1. CloudInv => FollowsAccountIfAlone
  BY DEF CloudInv, AloneInv, FollowsAccountIfAlone, FollowsAccount, Synced, Idle
<1> QED BY <1>1, CloudInvariance, PTL

(* A command reaches the printers of the account and no other, however the   *)
(* list, the connection and the reports change; and at rest their states are *)
(* the account's.                                                            *)
THEOREM PrintersAreTheAccounts == MCSpec => []PrintersFollow
<1>1. CloudInv => PrintersFollow
  <2> SUFFICES ASSUME CloudInv PROVE PrintersFollow OBVIOUS
  <2>1. RoutesFollow BY DEF CloudInv, PrintersInv
  <2>2. ASSUME part = "whole" PROVE StatesFollow
    <3>1. /\ NoCloudName \notin CloudNames /\ Serials \cap {"none", "off", "on"} = {}
          /\ link \in {"up", "down", "dropping"}
      BY CloudPrintersAssumption DEF CloudInv, PrintersInv, PrinterTypes
    <3> QED BY <2>2, <3>1 DEF CloudInv, StatesInv, StateFits, StatesFollow
  <2> QED BY <2>1, <2>2 DEF PrintersFollow
<1> QED BY <1>1, CloudInvariance, PTL

-----------------------------------------------------------------------------
(* CloudSignIn: the calls of an endpoint keep their distance, and a list is  *)
(* named by the token it was asked for with.                                 *)
SignInTokens == AccountTokens \cup {NoAccount}
CallAts == {"none", "login", "verify", "sendCode", "user", "bind"}
CallStates == [at : CallAts, token : SignInTokens, got : SignInTokens]
Binds == [cache : SignInTokens, token : SignInTokens, try : SignInTokens]

SignInTypes ==
    /\ since \in [Paced -> Nat] /\ quiet \in [DOMAIN Gap -> Nat] /\ hold \in Nat
    /\ call \in [CloudCalls -> CallStates] /\ bind \in Binds
    /\ linked \in [token : SignInTokens, expired : BOOLEAN]

(* Whatever took a slot, no call of the endpoint was sent since.             *)
SlotsCover == \A e \in Paced : since[e] <= quiet[e] /\ quiet[e] <= Interval[e]

CacheIsOfItsToken == bind.cache \in {NoAccount, bind.token}

(* The email with a code: no other since its login was sent, so the last one *)
(* was sent in answer to an older login, at most RequestTimeout after it.    *)
LoginWaits(c) ==
    /\ since["login"] <= RequestTimeout
    /\ quiet["sendCode"] = Gap["sendCode"]
    /\ hold = 0 \/ hold + since["login"] >= CloudflareHold

CodeWaits ==
    /\ quiet["sendCode"] <= Gap["sendCode"]
    /\ since["login"] <= quiet["sendCode"] + RequestTimeout
    /\ \A c \in CloudCalls : call[c].at = "login" => LoginWaits(c)
    /\ \A c, d \in CloudCalls : call[c].at = "login" /\ call[d].at = "login" => c = d

SignInInv == SignInTypes /\ SlotsCover /\ CodeWaits /\ CacheIsOfItsToken /\ ListIsOfItsToken

LEMMA Intervals ==
    /\ Paced = {"login", "verify", "user", "bind"}
    /\ \A e \in Paced : Interval[e] \in Nat
    /\ Interval["bind"] = BindInterval /\ Interval["login"] = LoginInterval
    /\ LoginInterval \in Nat /\ CloudflareHold \in Nat
    /\ DOMAIN Gap = Paced \cup {"sendCode"}
    /\ \A e \in Paced : Gap[e] = Interval[e]
    /\ RequestTimeout \in Nat /\ RequestTimeout < LoginInterval
    /\ Gap["sendCode"] \in Nat /\ Gap["sendCode"] + RequestTimeout = LoginInterval
<1>1. Paced = {"login", "verify", "user", "bind"} BY DEF Paced, Interval
<1>2. /\ Interval["login"] = LoginInterval /\ Interval["verify"] = CodeInterval
      /\ Interval["user"] = CodeInterval /\ Interval["bind"] = BindInterval
  BY DEF Interval
<1>3. /\ LoginInterval \in Nat /\ CodeInterval \in Nat /\ BindInterval \in Nat
      /\ CloudflareHold \in Nat /\ RequestTimeout \in Nat /\ RequestTimeout < LoginInterval
  BY SignInAssumption
<1>4. DOMAIN Gap = Paced \cup {"sendCode"} BY <1>1 DEF Gap
<1>5. /\ Gap["login"] = LoginInterval /\ Gap["verify"] = CodeInterval /\ Gap["user"] = CodeInterval
      /\ Gap["bind"] = BindInterval /\ Gap["sendCode"] = LoginInterval - RequestTimeout
  BY DEF Gap
<1>6. /\ LoginInterval - RequestTimeout \in Nat
      /\ LoginInterval - RequestTimeout + RequestTimeout = LoginInterval
  BY <1>3
<1> QED BY <1>1, <1>2, <1>3, <1>4, <1>5, <1>6

LEMMA SignInInit == CloudInit => SignInInv
<1> SUFFICES ASSUME CloudInit PROVE SignInInv
  OBVIOUS
<1>1. Interval \in [Paced -> Nat]
  <2>1. Interval = [e \in Paced |-> Interval[e]] BY DEF Interval, Paced
  <2> QED BY <2>1, Intervals
<1>5. Gap \in [DOMAIN Gap -> Nat]
  <2>1. Gap = [e \in DOMAIN Gap |-> Gap[e]] BY DEF Gap
  <2>2. \A e \in DOMAIN Gap : Gap[e] \in Nat BY Intervals
  <2> QED BY <2>1, <2>2
<1>2. SignInTypes
  BY <1>1, <1>5 DEF CloudInit, SignInTypes, CallStates, CallAts, Binds, SignInTokens, NoCall, Unlinked
<1>3. SlotsCover BY Intervals DEF CloudInit, SlotsCover
<1>4. CacheIsOfItsToken /\ ListIsOfItsToken
  BY DEF CloudInit, CacheIsOfItsToken, ListIsOfItsToken, NoCall
<1>6. CodeWaits
  <2>1. \A c \in CloudCalls : call[c].at = "none" BY DEF CloudInit, NoCall
  <2>2. since["login"] = LoginInterval /\ quiet["sendCode"] = Gap["sendCode"] BY Intervals DEF CloudInit
  <2>3. since["login"] <= quiet["sendCode"] + RequestTimeout /\ quiet["sendCode"] <= Gap["sendCode"]
    BY <2>2, Intervals
  <2> QED BY <2>1, <2>3 DEF CodeWaits
<1> QED BY <1>2, <1>3, <1>4, <1>6 DEF SignInInv

(* What a request c does: the slot it takes, if any, and what it leaves.     *)
CallSteps(c) ==
    \E e \in Paced \cup {"no slot"}, q \in CallStates :
        /\ call' = [call EXCEPT ![c] = q]
        /\ q.got # NoAccount => q.got = q.token
        /\ since' = IF e = "no slot" THEN since ELSE [since EXCEPT ![e] = 0]
        /\ q.at \in Paced => e = q.at /\ hold = 0
        /\ e = "login" => q.at = "login"
        /\ q.at = "sendCode" => call[c].at = "login"
        /\ e # "no slot" => since[e] = Interval[e] \/ (e = "bind" /\ bind'.try # bind.try)

(* A request leaves the hold as it is, or starts it.                         *)
LEMMA AsksHold == \A c \in CloudCalls : Asks(c) => hold' \in {hold, CloudflareHold}
BY DEF Asks, BeginLogin, BeginVerify, HearLogin, HearCode, CodeIsSent, HearUser, PasteToken,
       BuildSession, Devices, HearDevices, DevicesFail, Fails

LEMMA AsksAreCallSteps ==
    ASSUME SignInInv, NEW c \in CloudCalls, Asks(c)
    PROVE  CallSteps(c) /\ bind' \in Binds /\ CacheIsOfItsToken'
           /\ linked' \in [token : SignInTokens, expired : BOOLEAN]
<1>t. SignInTypes /\ CacheIsOfItsToken BY DEF SignInInv
<1>p. Paced = {"login", "verify", "user", "bind"} BY Intervals
<1>n. NoCall \in CallStates /\ NoCall.at = "none" /\ NoCall.got = NoAccount
  BY DEF NoCall, CallStates, CallAts, SignInTokens
<1>g. NoAccount \in SignInTokens /\ AccountTokens \subseteq SignInTokens BY DEF SignInTokens
<1>w. ASSUME NEW at \in CallAts, NEW t \in SignInTokens, NEW got \in SignInTokens
      PROVE  \E q \in CallStates : /\ q = [at |-> at, token |-> t, got |-> got]
                                   /\ q.at = at /\ q.token = t /\ q.got = got
  <2>1. PICK q : q = [at |-> at, token |-> t, got |-> got] OBVIOUS
  <2>2. q \in CallStates /\ q.at = at /\ q.token = t /\ q.got = got BY <2>1 DEF CallStates
  <2> QED BY <2>1, <2>2
<1>a. \A at \in CallAts, t \in SignInTokens :
        /\ Waits(c, at, t)
        /\ at = "sendCode" => call[c].at = "login"
        /\ \/ at \notin Paced /\ since' = since
           \/ at \in Paced /\ TakeSlot(at)
        => CallSteps(c)
  <2> SUFFICES ASSUME NEW at \in CallAts, NEW t \in SignInTokens, Waits(c, at, t),
                      at = "sendCode" => call[c].at = "login",
                      \/ at \notin Paced /\ since' = since
                      \/ at \in Paced /\ TakeSlot(at)
               PROVE  CallSteps(c)
    OBVIOUS
  <2>1. PICK q \in CallStates : q = [at |-> at, token |-> t, got |-> NoAccount] /\ q.at = at /\ q.got = NoAccount
    BY <1>w, <1>g
  <2>2. call' = [call EXCEPT ![c] = q] BY <2>1 DEF Waits
  <2>3. CASE at \notin Paced /\ since' = since BY <1>p, <2>1, <2>2, <2>3 DEF CallSteps
  <2>4. CASE at \in Paced /\ TakeSlot(at) BY <1>p, <2>1, <2>2, <2>4 DEF CallSteps, TakeSlot, Free
  <2> QED BY <2>3, <2>4
<1>e. Ends(c) /\ since' = since => CallSteps(c) BY <1>n, <1>p DEF Ends, CallSteps
<1>u. UNCHANGED bind => bind' \in Binds /\ CacheIsOfItsToken'
  BY <1>t DEF SignInTypes, CacheIsOfItsToken
<1>l. UNCHANGED linked => linked' \in [token : SignInTokens, expired : BOOLEAN] BY <1>t DEF SignInTypes
<1>s. \A t \in AccountTokens : StoreSession(t) => linked' \in [token : SignInTokens, expired : BOOLEAN]
  BY <1>g DEF StoreSession
<1>b. ASSUME NEW t \in AccountTokens, BuildSession(c, t)
      PROVE  CallSteps(c) /\ bind' \in Binds /\ CacheIsOfItsToken'
             /\ linked' \in [token : SignInTokens, expired : BOOLEAN]
  <2>1. CallSteps(c)
    <3>1. CASE Ends(c) /\ UNCHANGED since BY <1>e, <3>1
    <3>2. CASE TakeSlot("user") /\ Waits(c, "user", t) BY <1>a, <1>g, <1>p, <3>2 DEF CallAts
    <3> QED BY <1>b, <3>1, <3>2 DEF BuildSession
  <2>2. UNCHANGED bind /\ (UNCHANGED linked \/ StoreSession(t)) BY <1>b DEF BuildSession
  <2> QED BY <1>u, <1>l, <1>s, <2>1, <2>2
<1>1. CASE BeginLogin(c)
  BY <1>1, <1>a, <1>g, <1>p, <1>u, <1>l DEF BeginLogin, CallAts
<1>2. CASE BeginVerify(c)
  BY <1>2, <1>a, <1>g, <1>p, <1>u, <1>l DEF BeginVerify, CallAts
<1>3. CASE HearLogin(c)
  <2>1. CASE \E t \in AccountTokens : BuildSession(c, t) BY <1>b, <2>1
  <2>2. CASE Waits(c, "sendCode", NoAccount) /\ UNCHANGED <<since, bind, linked>>
    BY <1>3, <1>a, <1>g, <1>p, <1>u, <1>l, <2>2 DEF CallAts, HearLogin
  <2>3. CASE Ends(c) /\ UNCHANGED <<since, bind, linked>> BY <1>e, <1>u, <1>l, <2>3
  <2> QED BY <1>3, <2>1, <2>2, <2>3 DEF HearLogin
<1>4. CASE HearCode(c) \/ \E t \in AccountTokens : PasteToken(c, t)
  <2>1. CASE \E t \in AccountTokens : BuildSession(c, t) BY <1>b, <2>1
  <2>2. CASE Ends(c) /\ UNCHANGED <<since, bind, linked>> BY <1>e, <1>u, <1>l, <2>2
  <2> QED BY <1>4, <2>1, <2>2 DEF HearCode, PasteToken
<1>5. CASE CodeIsSent(c) BY <1>5, <1>e, <1>u, <1>l DEF CodeIsSent
<1>6. CASE HearUser(c)
  <2>1. Ends(c) /\ UNCHANGED <<since, bind>> BY <1>6 DEF HearUser
  <2>2. PICK t \in SignInTokens : t = call[c].token BY <1>t DEF SignInTypes, CallStates
  <2>3. UNCHANGED linked \/ linked' = [token |-> t, expired |-> FALSE]
    BY <1>6, <2>2 DEF HearUser, StoreSession
  <2>4. linked' \in [token : SignInTokens, expired : BOOLEAN]
    <3>1. [token |-> t, expired |-> FALSE] \in [token : SignInTokens, expired : BOOLEAN] OBVIOUS
    <3> QED BY <1>l, <2>3, <3>1
  <2> QED BY <1>e, <1>u, <2>1, <2>4
<1>7. CASE \E force \in BOOLEAN : Devices(c, force)
  <2>0. PICK force \in BOOLEAN : Devices(c, force) BY <1>7
  <2>1. PICK t \in SignInTokens : t = linked.token BY <1>t DEF SignInTypes
  <2>2. t # NoAccount /\ hold = 0 /\ linked' = linked BY <2>0, <2>1 DEF Devices
  <2>3. CASE Cached(t, force) /\ UNCHANGED <<since, bind>>
             /\ call' = [call EXCEPT ![c] = [at |-> "none", token |-> t, got |-> bind.cache]]
    <3>1. bind.cache \in SignInTokens /\ (bind.cache # NoAccount => bind.cache = t)
      BY <1>t, <2>3 DEF Cached, CacheIsOfItsToken, SignInTypes, Binds
    <3>2. PICK q \in CallStates : /\ q = [at |-> "none", token |-> t, got |-> bind.cache]
                                  /\ q.at = "none" /\ q.got = bind.cache /\ q.token = t
      BY <1>w, <3>1 DEF CallAts
    <3>3. CallSteps(c) BY <1>p, <2>3, <3>1, <3>2 DEF CallSteps
    <3> QED BY <1>u, <1>l, <2>2, <2>3, <3>3
  <2>4. CASE /\ ~Recent(t, force) /\ Waits(c, "bind", t)
             /\ since' = [since EXCEPT !["bind"] = 0] /\ bind' = [bind EXCEPT !.try = t]
    <3>1. bind' \in Binds /\ bind'.try = t /\ bind'.cache = bind.cache /\ bind'.token = bind.token
      BY <1>t, <2>4 DEF SignInTypes, Binds
    <3>2. bind.try # t \/ since["bind"] = Interval["bind"]
      <4>1. since["bind"] \in Nat /\ since["bind"] <= Interval["bind"] /\ Interval["bind"] \in Nat
        <5>1. "bind" \in Paced BY <1>p
        <5>2. since["bind"] \in Nat /\ quiet["bind"] \in Nat BY <1>t, <5>1, Intervals DEF SignInTypes
        <5>3. since["bind"] <= quiet["bind"] /\ quiet["bind"] <= Interval["bind"]
          BY <5>1 DEF SignInInv, SlotsCover
        <5> QED BY <5>1, <5>2, <5>3, Intervals
      <4> QED BY <2>4, <4>1, Intervals DEF Recent
    <3>3. PICK q \in CallStates : q = [at |-> "bind", token |-> t, got |-> NoAccount] /\ q.at = "bind" /\ q.got = NoAccount
      BY <1>w, <1>g DEF CallAts
    <3>4. call' = [call EXCEPT ![c] = q] BY <2>4, <3>3 DEF Waits
    <3>5. CallSteps(c) BY <1>p, <2>2, <2>4, <3>1, <3>2, <3>3, <3>4 DEF CallSteps
    <3>6. CacheIsOfItsToken' BY <1>t, <3>1 DEF CacheIsOfItsToken
    <3> QED BY <1>l, <2>2, <3>1, <3>5, <3>6
  <2> QED BY <2>0, <2>1, <2>3, <2>4 DEF Devices
<1>8. CASE HearDevices(c)
  <2>1. PICK t \in SignInTokens : t = call[c].token BY <1>t DEF SignInTypes, CallStates
  <2>2. /\ bind' = [bind EXCEPT !.cache = t, !.token = t] /\ UNCHANGED <<since, linked>>
        /\ call' = [call EXCEPT ![c] = [at |-> "none", token |-> t, got |-> t]]
    BY <1>8, <2>1 DEF HearDevices
  <2>3. PICK q \in CallStates : q = [at |-> "none", token |-> t, got |-> t] /\ q.at = "none" /\ q.got = t /\ q.token = t
    BY <1>w DEF CallAts
  <2>4. CallSteps(c) BY <1>p, <2>2, <2>3 DEF CallSteps
  <2>5. bind' \in Binds /\ bind'.cache = t /\ bind'.token = t BY <1>t, <2>2 DEF SignInTypes, Binds
  <2> QED BY <1>l, <2>2, <2>4, <2>5 DEF CacheIsOfItsToken
<1>9. CASE DevicesFail(c)
  <2>1. Ends(c) /\ UNCHANGED <<since, bind>> BY <1>9 DEF DevicesFail
  <2>2. UNCHANGED linked \/ linked' = [linked EXCEPT !.expired = TRUE] BY <1>9 DEF DevicesFail
  <2>3. linked' \in [token : SignInTokens, expired : BOOLEAN] BY <1>t, <2>2 DEF SignInTypes
  <2> QED BY <1>e, <1>u, <2>1, <2>3
<1> QED BY <1>1, <1>2, <1>3, <1>4, <1>5, <1>6, <1>7, <1>8, <1>9 DEF Asks

(* A step of CallsArePaced.                                                  *)
Distance == \A e \in DOMAIN Gap : Sent(e) =>
    /\ hold = 0 \/ (e = "sendCode" /\ hold + RequestTimeout >= CloudflareHold)
    /\ quiet[e] = Gap[e] \/ (e = "bind" /\ bind'.try # bind.try)

(* The arithmetic of CodeWaits.                                              *)
LEMMA CodeNumbers ==
    /\ \A h, s, r, m \in Nat : s <= r /\ h + s >= m => h + r >= m
    /\ \A s, t, q, r \in Nat : t \in {0, s} /\ s <= q + r => t <= q + r
    /\ \A s, t, g, r \in Nat : t \in {0, s} /\ s <= r => 0 <= g /\ t <= 0 + r
    /\ \A m, s \in Nat : m + s >= m /\ m + 0 >= m /\ 0 <= m
OBVIOUS

QuietStep == quiet' = [e \in DOMAIN Gap |-> IF Sent(e) THEN 0 ELSE quiet[e]]

(* Time passes for a login no longer than RequestTimeout.                    *)
LEMMA CodeTick ==
    ASSUME SignInInv, Tick
    PROVE  CodeWaits'
<1>t. SignInTypes /\ CodeWaits BY DEF SignInInv
<1>g. /\ "login" \in Paced /\ "sendCode" \in DOMAIN Gap BY Intervals
<1>i. /\ since["login"] \in Nat /\ quiet["sendCode"] \in Nat /\ hold \in Nat
      /\ RequestTimeout \in Nat /\ Gap["sendCode"] \in Nat /\ LoginInterval \in Nat
      /\ CloudflareHold \in Nat
      /\ RequestTimeout < LoginInterval /\ Gap["sendCode"] + RequestTimeout = LoginInterval
      /\ Interval["login"] = LoginInterval
  BY <1>t, <1>g, Intervals DEF SignInTypes
<1>1. /\ since' = Older(since, Interval) /\ quiet' = Older(quiet, Gap) /\ call' = call
      /\ hold' = IF hold = 0 THEN 0 ELSE hold - 1
  BY DEF Tick
<1>2. /\ since'["login"] = IF since["login"] < LoginInterval THEN since["login"] + 1 ELSE since["login"]
      /\ quiet'["sendCode"] = IF quiet["sendCode"] < Gap["sendCode"] THEN quiet["sendCode"] + 1
                               ELSE quiet["sendCode"]
  BY <1>1, <1>g, <1>i DEF Older, Paced
<1>3. quiet["sendCode"] <= Gap["sendCode"] /\ since["login"] <= quiet["sendCode"] + RequestTimeout
  BY <1>t DEF CodeWaits
<1>4. since["login"] <= LoginInterval BY <1>3, <1>i
<1>5. quiet'["sendCode"] <= Gap["sendCode"] /\ since'["login"] <= quiet'["sendCode"] + RequestTimeout
  BY <1>2, <1>3, <1>4, <1>i
<1>6. ASSUME NEW c \in CloudCalls, call[c].at = "login" PROVE LoginWaits(c)'
  <2>1. since["login"] < RequestTimeout BY <1>6 DEF Tick
  <2>2. /\ quiet["sendCode"] = Gap["sendCode"]
        /\ hold = 0 \/ hold + since["login"] >= CloudflareHold
    BY <1>6, <1>t DEF CodeWaits, LoginWaits
  <2>3. since'["login"] = since["login"] + 1 BY <1>2, <1>i, <2>1
  <2>4. since'["login"] <= RequestTimeout BY <1>i, <2>1, <2>3
  <2>5. quiet'["sendCode"] = Gap["sendCode"] BY <1>2, <1>i, <2>2
  <2>6. hold' = 0 \/ hold' + since'["login"] >= CloudflareHold BY <1>1, <1>i, <2>2, <2>3
  <2> QED BY <2>4, <2>5, <2>6 DEF LoginWaits
<1> QED BY <1>t, <1>1, <1>5, <1>6 DEF CodeWaits

(* A login is begun, answered, or left waiting by another request.           *)
LEMMA CodeAsk ==
    ASSUME SignInInv, NEW c \in CloudCalls, CallSteps(c), hold' \in {hold, CloudflareHold},
           QuietStep
    PROVE  CodeWaits'
<1>t. SignInTypes /\ CodeWaits BY DEF SignInInv
<1>p. Paced = {"login", "verify", "user", "bind"} /\ "sendCode" \in DOMAIN Gap BY Intervals
<1>i. /\ since["login"] \in Nat /\ quiet["sendCode"] \in Nat /\ hold \in Nat
      /\ RequestTimeout \in Nat /\ Gap["sendCode"] \in Nat /\ LoginInterval \in Nat
      /\ CloudflareHold \in Nat
      /\ RequestTimeout < LoginInterval /\ Gap["sendCode"] + RequestTimeout = LoginInterval
      /\ Interval["login"] = LoginInterval
  BY <1>t, <1>p, Intervals DEF SignInTypes
<1>1. PICK s \in Paced \cup {"no slot"}, q \in CallStates :
        /\ call' = [call EXCEPT ![c] = q]
        /\ since' = IF s = "no slot" THEN since ELSE [since EXCEPT ![s] = 0]
        /\ q.at \in Paced => s = q.at /\ hold = 0
        /\ s = "login" => q.at = "login"
        /\ q.at = "sendCode" => call[c].at = "login"
        /\ s # "no slot" => since[s] = Interval[s] \/ (s = "bind" /\ bind'.try # bind.try)
  BY DEF CallSteps
<1>2. \A d \in CloudCalls : call'[d] = IF d = c THEN q ELSE call[d] BY <1>t, <1>1 DEF SignInTypes
<1>3. Sent("sendCode") => q.at = "sendCode" BY <1>2 DEF Sent
<1>4. since'["login"] = IF s = "login" THEN 0 ELSE since["login"]
  BY <1>t, <1>p, <1>1 DEF SignInTypes
<1>5. quiet'["sendCode"] = IF Sent("sendCode") THEN 0 ELSE quiet["sendCode"]
  BY <1>p DEF QuietStep
<1>6. quiet["sendCode"] <= Gap["sendCode"] /\ since["login"] <= quiet["sendCode"] + RequestTimeout
  BY <1>t DEF CodeWaits
<1>7. /\ \A d \in CloudCalls : call[d].at = "login" =>
            /\ since["login"] <= RequestTimeout /\ quiet["sendCode"] = Gap["sendCode"]
            /\ hold = 0 \/ hold + since["login"] >= CloudflareHold
      /\ \A d, e \in CloudCalls : call[d].at = "login" /\ call[e].at = "login" => d = e
  BY <1>t DEF CodeWaits, LoginWaits
<1>8. quiet'["sendCode"] <= Gap["sendCode"] /\ since'["login"] <= quiet'["sendCode"] + RequestTimeout
  <2>1. CASE Sent("sendCode")
    <3>1. since["login"] <= RequestTimeout BY <1>1, <1>3, <1>7, <2>1
    <3>2. quiet'["sendCode"] = 0 BY <1>5, <2>1
    <3>3. since'["login"] \in {0, since["login"]} BY <1>4
    <3>4. 0 <= Gap["sendCode"] /\ since'["login"] <= 0 + RequestTimeout
      <4>1. \A t \in Nat : t \in {0, since["login"]} => 0 <= Gap["sendCode"] /\ t <= 0 + RequestTimeout
        BY <1>i, <3>1, CodeNumbers
      <4>2. since["login"] \in Nat /\ 0 \in Nat BY <1>i
      <4>3. since'["login"] \in Nat BY <3>3, <4>2, Zenon
      <4> QED BY <3>3, <4>1, <4>3
    <3> QED BY <3>2, <3>4
  <2>2. CASE ~Sent("sendCode")
    <3>1. quiet'["sendCode"] = quiet["sendCode"] BY <1>5, <2>2
    <3>2. since'["login"] \in {0, since["login"]} BY <1>4
    <3>3. since'["login"] <= quiet["sendCode"] + RequestTimeout BY <1>i, <1>6, <3>2, CodeNumbers
    <3> QED BY <1>6, <3>1, <3>3
  <2> QED BY <2>1, <2>2
<1>9. ASSUME q.at = "login"
      PROVE  /\ hold = 0 /\ since'["login"] = 0 /\ quiet'["sendCode"] = Gap["sendCode"]
             /\ \A d \in CloudCalls : call[d].at # "login"
  <2>1. s = "login" /\ hold = 0 /\ since["login"] = LoginInterval BY <1>1, <1>9, <1>p, <1>i
  <2>2. \A d \in CloudCalls : call[d].at # "login"
    <3>1. ~(since["login"] <= RequestTimeout) BY <1>i, <2>1
    <3> QED BY <1>7, <3>1
  <2>3. quiet["sendCode"] = Gap["sendCode"] BY <1>6, <1>i, <2>1
  <2>4. quiet'["sendCode"] = quiet["sendCode"] BY <1>3, <1>5, <1>9
  <2> QED BY <1>4, <2>1, <2>2, <2>3, <2>4
<1>10. ASSUME NEW d \in CloudCalls, call'[d].at = "login" PROVE LoginWaits(d)'
  <2>1. CASE d = c
    <3>1. q.at = "login" BY <1>2, <1>10, <2>1
    <3>2. hold = 0 /\ since'["login"] = 0 /\ quiet'["sendCode"] = Gap["sendCode"] BY <1>9, <3>1
    <3>3. hold' = 0 \/ hold' + 0 >= CloudflareHold BY <1>i, <3>2, CodeNumbers
    <3>4. 0 <= RequestTimeout BY <1>i, CodeNumbers
    <3> QED BY <3>2, <3>3, <3>4 DEF LoginWaits
  <2>2. CASE d # c
    <3>1. call[d].at = "login" BY <1>2, <1>10, <2>2
    <3>2. s # "login" BY <1>1, <1>9, <3>1
    <3>3. since'["login"] = since["login"] BY <1>4, <3>2
    <3>4. ~Sent("sendCode") BY <1>1, <1>3, <1>7, <2>2, <3>1
    <3>5. quiet'["sendCode"] = Gap["sendCode"] BY <1>5, <1>7, <3>1, <3>4
    <3>6. since["login"] <= RequestTimeout /\ (hold = 0 \/ hold + since["login"] >= CloudflareHold)
      BY <1>7, <3>1
    <3>7. hold' = 0 \/ hold' + since["login"] >= CloudflareHold
      <4>1. CASE hold' = hold BY <3>6, <4>1
      <4>2. CASE hold' = CloudflareHold
        <5>1. CloudflareHold + since["login"] >= CloudflareHold BY <1>i, CodeNumbers
        <5> QED BY <4>2, <5>1
      <4> QED BY <4>1, <4>2
    <3> QED BY <3>3, <3>5, <3>6, <3>7 DEF LoginWaits
  <2> QED BY <2>1, <2>2
<1>11. ASSUME NEW d \in CloudCalls, NEW e \in CloudCalls, call'[d].at = "login", call'[e].at = "login"
       PROVE  d = e
  BY <1>2, <1>7, <1>9, <1>11
<1> QED BY <1>8, <1>10, <1>11 DEF CodeWaits

LEMMA SignInStepOK ==
    SignInInv /\ [CloudNext]_cloudSignInVars => SignInInv' /\ [Distance]_cloudSignInVars
<1> SUFFICES ASSUME SignInInv, [CloudNext]_cloudSignInVars
             PROVE  SignInInv' /\ [Distance]_cloudSignInVars
  OBVIOUS
<1>t. SignInTypes /\ SlotsCover /\ CodeWaits /\ CacheIsOfItsToken /\ ListIsOfItsToken BY DEF SignInInv
<1>p. /\ Paced = {"login", "verify", "user", "bind"} /\ DOMAIN Interval = Paced
      /\ DOMAIN Gap = Paced \cup {"sendCode"}
  BY Intervals DEF Paced
<1>i. \A e \in Paced : since[e] \in Nat /\ quiet[e] \in Nat /\ Interval[e] \in Nat
                       /\ since[e] <= quiet[e] /\ quiet[e] <= Interval[e]
  BY <1>t, <1>p, Intervals DEF SignInTypes, SlotsCover
<1>a. \A e \in Paced : /\ since[e] = Interval[e] => quiet[e] = Interval[e]
                       /\ 0 <= quiet[e] /\ 0 <= Interval[e] /\ 0 <= 0
  BY <1>i
<1>q. \A e \in DOMAIN Gap : quiet[e] \in Nat BY <1>t DEF SignInTypes
<1>e. \A e \in Paced : Gap[e] = Interval[e] BY Intervals
<1>n. call' = call => \A e : ~Sent(e) BY DEF Sent
<1>1. CASE Tick
  <2>1. since' = Older(since, Interval) /\ quiet' = Older(quiet, Gap) /\ UNCHANGED <<bind, linked, call>>
    BY <1>1 DEF Tick
  <2>2. \A e \in Paced :
          /\ since'[e] = IF since[e] < Interval[e] THEN since[e] + 1 ELSE since[e]
          /\ quiet'[e] = IF quiet[e] < Interval[e] THEN quiet[e] + 1 ELSE quiet[e]
    BY <1>p, <1>e, <2>1 DEF Older
  <2>3. since' \in [Paced -> Nat] /\ quiet' \in [DOMAIN Gap -> Nat]
    BY <1>i, <1>p, <1>q, <2>1 DEF Older
  <2>4. SlotsCover' BY <1>i, <2>2 DEF SlotsCover
  <2>5. hold' \in Nat
    <3>1. hold \in Nat /\ hold' = IF hold = 0 THEN 0 ELSE hold - 1 BY <1>1, <1>t DEF Tick, SignInTypes
    <3> QED BY <3>1
  <2>6. SignInTypes' /\ CacheIsOfItsToken' /\ ListIsOfItsToken'
    BY <1>t, <2>1, <2>3, <2>5 DEF SignInTypes, CacheIsOfItsToken, ListIsOfItsToken
  <2>7. CodeWaits' BY <1>1, CodeTick
  <2> QED BY <1>n, <2>1, <2>4, <2>6, <2>7 DEF SignInInv, Distance
<1>2. CASE (\E c \in CloudCalls : Asks(c)) /\ quiet' = [e \in DOMAIN Gap |-> IF Sent(e) THEN 0 ELSE quiet[e]]
  <2>1. PICK c \in CloudCalls : Asks(c) BY <1>2
  <2>2. /\ CallSteps(c) /\ bind' \in Binds /\ CacheIsOfItsToken'
        /\ linked' \in [token : SignInTokens, expired : BOOLEAN]
        /\ hold' \in {hold, CloudflareHold}
    BY <2>1, AsksAreCallSteps, AsksHold
  <2>3. PICK s \in Paced \cup {"no slot"}, q \in CallStates :
          /\ call' = [call EXCEPT ![c] = q]
          /\ q.got # NoAccount => q.got = q.token
          /\ since' = IF s = "no slot" THEN since ELSE [since EXCEPT ![s] = 0]
          /\ q.at \in Paced => s = q.at /\ hold = 0
          /\ q.at = "sendCode" => call[c].at = "login"
          /\ s # "no slot" => since[s] = Interval[s] \/ (s = "bind" /\ bind'.try # bind.try)
    BY <2>2 DEF CallSteps
  <2>4. \A d \in CloudCalls : call'[d] = IF d = c THEN q ELSE call[d] BY <1>t, <2>3 DEF SignInTypes
  <2>5. \A e \in DOMAIN Gap : Sent(e) => q.at = e BY <2>4 DEF Sent
  <2>6. \A e \in Paced : since'[e] = IF e = s THEN 0 ELSE since[e]
    BY <1>t, <1>p, <2>3 DEF SignInTypes
  <2>7. \A e \in DOMAIN Gap : quiet'[e] = IF Sent(e) THEN 0 ELSE quiet[e] BY <1>2
  <2>8. since' \in [Paced -> Nat]
    BY <1>t, <2>3 DEF SignInTypes
  <2>9. quiet' \in [DOMAIN Gap -> Nat] BY <1>2, <1>q
  <2>h. hold' \in Nat BY <1>t, <2>2, Intervals DEF SignInTypes
  <2>10. SignInTypes' BY <1>t, <2>2, <2>3, <2>8, <2>9, <2>h DEF SignInTypes
  <2>11. SlotsCover'
    <3>1. ASSUME NEW e \in Paced PROVE since'[e] <= quiet'[e] /\ quiet'[e] <= Interval[e]
      <4>1. CASE Sent(e)
        <5>1. since'[e] = 0 /\ quiet'[e] = 0 BY <1>p, <2>3, <2>5, <2>6, <2>7, <4>1
        <5> QED BY <1>a, <1>i, <5>1
      <4>2. CASE ~Sent(e)
        <5>1. since'[e] \in {0, since[e]} /\ quiet'[e] = quiet[e] BY <1>p, <2>6, <2>7, <4>2
        <5> QED BY <1>a, <1>i, <5>1
      <4> QED BY <4>1, <4>2
    <3> QED BY <3>1 DEF SlotsCover
  <2>12. ListIsOfItsToken' BY <1>t, <2>3, <2>4 DEF ListIsOfItsToken
  <2>13. Distance
    <3>1. ASSUME NEW e \in Paced, Sent(e)
          PROVE  hold = 0 /\ (quiet[e] = Gap[e] \/ (e = "bind" /\ bind'.try # bind.try))
      <4>1. s = e /\ hold = 0 BY <1>p, <2>3, <2>5, <3>1
      <4>2. since[e] = Interval[e] \/ (e = "bind" /\ bind'.try # bind.try) BY <1>p, <2>3, <4>1
      <4>3. since[e] = Interval[e] => quiet[e] = Gap[e] BY <1>a, <1>e
      <4> QED BY <4>1, <4>2, <4>3
    <3>2. ASSUME Sent("sendCode")
          PROVE  /\ hold = 0 \/ hold + RequestTimeout >= CloudflareHold
                 /\ quiet["sendCode"] = Gap["sendCode"]
      <4>1. call[c].at = "login" BY <1>p, <2>3, <2>5, <3>2
      <4>2. LoginWaits(c) BY <1>t, <4>1 DEF CodeWaits
      <4>3. /\ hold \in Nat /\ since["login"] \in Nat /\ RequestTimeout \in Nat /\ CloudflareHold \in Nat
        BY <1>t, <1>i, <1>p, Intervals DEF SignInTypes
      <4>4. /\ since["login"] <= RequestTimeout /\ quiet["sendCode"] = Gap["sendCode"]
            /\ hold = 0 \/ hold + since["login"] >= CloudflareHold
        BY <4>2 DEF LoginWaits
      <4>5. hold = 0 \/ hold + RequestTimeout >= CloudflareHold BY <4>3, <4>4, CodeNumbers
      <4> QED BY <4>4, <4>5
    <3> QED BY <1>p, <3>1, <3>2 DEF Distance
  <2>14. CodeWaits' BY <1>2, <2>2, CodeAsk DEF QuietStep
  <2> QED BY <2>2, <2>10, <2>11, <2>12, <2>13, <2>14 DEF SignInInv
<1>3. CASE /\ UnlinkAccount \/ \E t \in AccountTokens : Revoke(t)
           /\ quiet' = [e \in DOMAIN Gap |-> IF Sent(e) THEN 0 ELSE quiet[e]]
  <2>1. UNCHANGED <<since, hold, bind, call>> /\ linked' \in {linked, Unlinked}
    BY <1>3 DEF UnlinkAccount, Revoke
  <2>2. \A e : ~Sent(e) BY <1>n, <2>1
  <2>3. quiet' = quiet BY <1>3, <1>t, <2>2 DEF SignInTypes
  <2>4. Unlinked \in [token : SignInTokens, expired : BOOLEAN] BY DEF Unlinked, SignInTokens
  <2>5. SignInTypes' BY <1>t, <2>1, <2>3, <2>4 DEF SignInTypes
  <2>6. SlotsCover' /\ CacheIsOfItsToken' /\ ListIsOfItsToken'
    BY <1>t, <2>1, <2>3 DEF SlotsCover, CacheIsOfItsToken, ListIsOfItsToken
  <2>7. CodeWaits' BY <1>t, <2>1, <2>3 DEF CodeWaits, LoginWaits
  <2> QED BY <2>2, <2>5, <2>6, <2>7 DEF SignInInv, Distance
<1>4. CASE UNCHANGED cloudSignInVars
  BY <1>4, <1>t DEF cloudSignInVars, SignInInv, SignInTypes, SlotsCover, CodeWaits, LoginWaits,
                    CacheIsOfItsToken, ListIsOfItsToken
<1> QED BY <1>1, <1>2, <1>3, <1>4 DEF CloudNext

(* However sign-ins, codes and device lists overlap and fail, two calls of   *)
(* an endpoint are its interval apart and none is sent in a hold, but for    *)
(* the email with a code, whose bounds in time are those of CallsArePaced;   *)
(* and the printers offered for one account are never those of another.      *)
THEOREM SignInStaysRight == MCSpec => SignInIsRight
<1>1. MCInit => SignInInv BY SignInInit DEF MCInit
<1>2. [RunnerStep \/ SignInStep \/ ListStep]_<<vars, part, cloudSignInVars, cloudPrinterVars>>
        => [CloudNext]_cloudSignInVars
  BY DEF RunnerStep, SignInStep, ListStep
<1>3. SignInInv => ListIsOfItsToken BY DEF SignInInv
<1>4. SignInInv /\ [CloudNext]_cloudSignInVars => SignInInv' /\ [Distance]_cloudSignInVars BY SignInStepOK
<1>5. [Distance]_cloudSignInVars =>
        [\A e \in DOMAIN Gap : Sent(e) =>
          /\ hold = 0 \/ (e = "sendCode" /\ hold + RequestTimeout >= CloudflareHold)
          /\ quiet[e] = Gap[e] \/ (e = "bind" /\ bind'.try # bind.try)]_cloudSignInVars
  BY DEF Distance
<1> QED BY <1>1, <1>2, <1>3, <1>4, <1>5, PTL DEF MCSpec, SignInIsRight, CallsArePaced
=============================================================================
