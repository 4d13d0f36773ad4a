----------------------------- MODULE CloudRunner -----------------------------
(***************************************************************************)
(* The one MQTT connection of a Bambu Cloud account (mqtt/cloud.go) and    *)
(* the requests that start, stop and replace it (server_cloud.go).         *)
(*                                                                         *)
(* A request changes the account under configMutex, saves a clone of the   *)
(* config, and gives that clone to SetCloudPrinters, which holds cloudMu   *)
(* and waits for the loop it stops. A loop that is refused for its token   *)
(* ends, and a goroutine of its own marks the account's token as expired.  *)
(*                                                                         *)
(* Loops are numbered in the order they are started. Which printers the    *)
(* account has is left out, but for whether it has any; a change of the    *)
(* list of a running loop does not touch the connection.                   *)
(***************************************************************************)
EXTENDS Naturals, FiniteSets

CONSTANTS
    Tokens,       \* sign-ins of the account
    NoToken,
    Handlers,     \* HTTP requests in progress
    MaxFailures,  \* cloudMaxFailures
    BanFailures,  \* cloudBanFailures
    MaxChanges    \* bound: changes of the account and its printers

Runners == 1 .. MaxChanges      \* every change starts one loop at most
Workers == Handlers \cup Runners \* a loop's number stands for its OnCloudAuthFailed

ASSUME CloudAssumption ==
    /\ NoToken \notin Tokens /\ Handlers \cap Nat = {}
    /\ MaxFailures \in Nat \ {0} /\ BanFailures \in Nat \ {0} /\ MaxChanges \in Nat

VARIABLES
    account,   \* configStore.BambuCloud, and whether the config has cloud printers
    job,       \* what each request and each OnCloudAuthFailed has still to do
    runner,    \* the loops
    cloudRun,  \* the number of the loop under cloudMu, 0 for nil
    started,   \* loops started so far
    changes,   \* changes so far
    alive,     \* tokens that Bambu accepts
    rejected   \* history: tokens that the broker has refused

vars == <<account, job, runner, cloudRun, started, changes, alive, rejected>>
broker == <<changes, alive, rejected>>

Sessions == Tokens \cup {NoToken}
Fresh(at, t, stop) == [at |-> at, token |-> t, stop |-> stop, failures |-> 0,
                       refusals |-> 0, tries |-> 0, retry |-> FALSE, asked |-> FALSE]
Unborn == Fresh("unborn", NoToken, FALSE)
Idle == [at |-> "idle", want |-> NoToken]

TypeOK ==
    /\ account \in [token : Sessions, expired : BOOLEAN, printers : BOOLEAN]
    /\ job \in [Workers -> [at : {"idle", "ask", "expire", "sync", "stop"}, want : Sessions]]
    /\ runner \in [Runners ->
         [at : {"unborn", "top", "dial", "up", "wait", "done"}, token : Sessions, stop : BOOLEAN,
          failures : 0 .. MaxFailures - 1, refusals : 0 .. BanFailures - 1,
          tries : Nat, retry : BOOLEAN, asked : BOOLEAN]]
    /\ cloudRun \in 0 .. started /\ started \in 0 .. MaxChanges /\ changes \in 0 .. MaxChanges
    /\ alive \subseteq Tokens /\ rejected \subseteq Tokens \ alive

Init ==
    /\ account = [token |-> NoToken, expired |-> FALSE, printers |-> FALSE]
    /\ job = [w \in Workers |-> Idle]
    /\ runner = [r \in Runners |-> Unborn]
    /\ cloudRun = 0 /\ started = 0 /\ changes = 0
    /\ alive = Tokens /\ rejected = {}

-----------------------------------------------------------------------------
(* The requests.                                                             *)

(* What syncCloud asks for: the account's session, if it has a usable token  *)
(* and a printer to use it for.                                              *)
Session(acc) == IF acc.expired \/ ~acc.printers THEN NoToken ELSE acc.token

Change(h, acc) ==
    /\ job[h] = Idle /\ changes < MaxChanges
    /\ account' = acc
    /\ job' = [job EXCEPT ![h] = [at |-> "sync", want |-> Session(acc)]]
    /\ changes' = changes + 1
    /\ UNCHANGED <<runner, cloudRun, started, alive, rejected>>

(* A sign-in, or a token that was checked with Bambu.                        *)
Link(h) == \E t \in alive : Change(h, [account EXCEPT !.token = t, !.expired = FALSE])
Unlink(h) == Change(h, [account EXCEPT !.token = NoToken, !.expired = FALSE])
(* The first cloud printer is added, the last one removed; or any other      *)
(* change of the printers.                                                   *)
SetPrinters(h) == \E has \in BOOLEAN : Change(h, [account EXCEPT !.printers = has])

(* The device list is asked for with the account's token, without a lock.    *)
AskDevices(h) ==
    /\ job[h] = Idle /\ account.token # NoToken /\ ~account.expired
    /\ job' = [job EXCEPT ![h] = [at |-> "ask", want |-> account.token]]
    /\ UNCHANGED <<account, runner, cloudRun, started, broker>>

DevicesAnswered(h) ==
    /\ job[h].at = "ask"
    /\ job' = [job EXCEPT ![h] = IF @.want \in alive THEN Idle ELSE [at |-> "expire", want |-> NoToken]]
    /\ UNCHANGED <<account, runner, cloudRun, started, broker>>

(* expireCloudToken: whatever token is stored by now.                        *)
Expire(w) ==
    /\ job[w].at = "expire"
    /\ IF account.token = NoToken
       THEN job' = [job EXCEPT ![w] = Idle] /\ UNCHANGED account
       ELSE /\ account' = [account EXCEPT !.expired = TRUE]
            /\ job' = [job EXCEPT ![w] = [at |-> "sync", want |-> NoToken]]
    /\ UNCHANGED <<runner, cloudRun, started, broker>>

-----------------------------------------------------------------------------
(* SetCloudPrinters.                                                         *)

CloudMuFree == \A w \in Workers : job[w].at # "stop"

NewRunner(t) == Fresh("top", t, FALSE)

(* Mutant: a loop is kept whatever session it has.                           *)
SyncKeeps(w) ==
    /\ job[w].at = "sync" /\ CloudMuFree
    /\ job' = [job EXCEPT ![w] = Idle]
    /\ IF cloudRun = 0 /\ job[w].want # NoToken
       THEN /\ started' = started + 1 /\ cloudRun' = started'
            /\ runner' = [runner EXCEPT ![started'] = NewRunner(job[w].want)]
       ELSE UNCHANGED <<runner, cloudRun, started>>
    /\ UNCHANGED <<account, broker>>

(* Nothing runs, so a loop is started if one is wanted; or the loop that     *)
(* runs has the same session, and keeps its connection.                      *)
Sync(w) ==
    /\ job[w].at = "sync" /\ CloudMuFree
    /\ job' = [job EXCEPT ![w] = Idle]
    /\ \/ /\ cloudRun = 0 /\ job[w].want # NoToken
          /\ started' = started + 1 /\ cloudRun' = started'
          /\ runner' = [runner EXCEPT ![started'] = NewRunner(job[w].want)]
       \/ /\ IF cloudRun = 0 THEN job[w].want = NoToken ELSE runner[cloudRun].token = job[w].want
          /\ UNCHANGED <<runner, cloudRun, started>>
    /\ UNCHANGED <<account, broker>>

(* stopCloudRunner closes stop, and waits with cloudMu held.                 *)
StopRunner(w) ==
    /\ job[w].at = "sync" /\ CloudMuFree
    /\ cloudRun # 0 /\ runner[cloudRun].token # job[w].want
    /\ job' = [job EXCEPT ![w].at = "stop"]
    /\ runner' = [runner EXCEPT ![cloudRun].stop = TRUE]
    /\ UNCHANGED <<account, cloudRun, started, broker>>

(* Mutant: the loop is not waited for.                                       *)
GoneAtOnce == TRUE

(* The loop that was stopped has ended.                                      *)
Gone == runner[cloudRun].at = "done"

Replace(w) ==
    /\ job[w].at = "stop" /\ Gone
    /\ job' = [job EXCEPT ![w] = Idle]
    /\ IF job[w].want = NoToken
       THEN cloudRun' = 0 /\ UNCHANGED <<runner, started>>
       ELSE /\ started' = started + 1 /\ cloudRun' = started'
            /\ runner' = [runner EXCEPT ![started'] = NewRunner(job[w].want)]
    /\ UNCHANGED <<account, broker>>

(* RetryCloudNow signals a loop that waits. The minute it keeps between two  *)
(* signals is left out: a signal may come at any time.                       *)
RetryCloudNow ==
    /\ CloudMuFree /\ cloudRun # 0 /\ runner[cloudRun].at = "wait"
    /\ runner' = [runner EXCEPT ![cloudRun].retry = TRUE, ![cloudRun].asked = TRUE]
    /\ UNCHANGED <<account, job, cloudRun, started, broker>>

-----------------------------------------------------------------------------
(* The loop.                                                                 *)

Stays == UNCHANGED <<account, job, cloudRun, started, broker>>

(* Mutant: a signal that came too late is kept.                              *)
AttemptKeepsRetry(r) ==
    /\ runner[r].at = "top"
    /\ runner' = [runner EXCEPT ![r].at = "dial", ![r].tries = @ + 1]
    /\ Stays

(* A new attempt. A signal left from the last wait is dropped.               *)
Attempt(r) ==
    /\ runner[r].at = "top"
    /\ runner' = [runner EXCEPT ![r].at = "dial", ![r].retry = FALSE, ![r].tries = @ + 1]
    /\ Stays

Ended(r) == Fresh("done", runner[r].token, runner[r].stop)

(* Mutant: a hold comes one failure later.                                   *)
WaitOneMore(r, refused, stable) ==
    LET failures == (IF stable THEN 0 ELSE runner[r].failures) + 1
        refusals == IF ~refused THEN 0 ELSE (IF stable THEN 0 ELSE runner[r].refusals) + 1
        held     == refusals >= BanFailures \/ failures > MaxFailures
    IN  [runner[r] EXCEPT !.at = "wait", !.asked = FALSE,
           !.failures = IF held THEN 0 ELSE failures,
           !.refusals = IF held THEN 0 ELSE refusals,
           !.tries = IF held THEN 0 ELSE IF stable THEN 1 ELSE @]

(* The attempt or the session failed: a longer and longer wait, or half an   *)
(* hour after too many failures or refusals. tries counts the attempts since *)
(* such a hold or a session that lasted.                                     *)
Wait(r, refused, stable) ==
    LET failures == (IF stable THEN 0 ELSE runner[r].failures) + 1
        refusals == IF ~refused THEN 0 ELSE (IF stable THEN 0 ELSE runner[r].refusals) + 1
        held     == refusals >= BanFailures \/ failures >= MaxFailures
    IN  [runner[r] EXCEPT !.at = "wait", !.asked = FALSE,
           !.failures = IF held THEN 0 ELSE failures,
           !.refusals = IF held THEN 0 ELSE refusals,
           !.tries = IF held THEN 0 ELSE IF stable THEN 1 ELSE @]

(* The broker does not answer, or the connection fails in another way.       *)
DialFails(r, refused) ==
    /\ runner[r].at = "dial" /\ ~runner[r].stop
    /\ runner' = [runner EXCEPT ![r] = Wait(r, refused, FALSE)]
    /\ Stays

(* The broker refuses the token: the loop ends, unless it was to stop        *)
(* anyway, and its token is marked on a goroutine of its own.                *)
AuthFails(r) ==
    /\ runner[r].at = "dial" /\ runner[r].token \notin alive /\ ~runner[r].stop
    /\ runner' = [runner EXCEPT ![r] = Ended(r)]
    /\ job' = [job EXCEPT ![r] = [at |-> "expire", want |-> NoToken]]
    /\ rejected' = rejected \cup {runner[r].token}
    /\ UNCHANGED <<account, cloudRun, started, changes, alive>>

(* Mutant: a connection ends the streak of failures.                         *)
DialSucceedsResets(r) ==
    /\ runner[r].at = "dial" /\ runner[r].token \in alive
    /\ runner' = [runner EXCEPT ![r].at = "up", ![r].failures = 0, ![r].refusals = 0]
    /\ Stays

DialSucceeds(r) ==
    /\ runner[r].at = "dial" /\ runner[r].token \in alive
    /\ runner' = [runner EXCEPT ![r].at = "up"]
    /\ Stays

(* The session is lost, after cloudStableAfter or before.                    *)
Lost(r, stable) ==
    /\ runner[r].at = "up" /\ ~runner[r].stop
    /\ runner' = [runner EXCEPT ![r] = Wait(r, FALSE, stable)]
    /\ Stays

WaitEnds(r) ==
    /\ runner[r].at = "wait"
    /\ runner' = [runner EXCEPT ![r].at = "top"]
    /\ Stays

TakeRetry(r) ==
    /\ runner[r].at = "wait" /\ runner[r].retry
    /\ runner' = [runner EXCEPT ![r].at = "top", ![r].retry = FALSE]
    /\ Stays

(* Mutant: a running session does not look at stop.                          *)
HearsStopLate == {"dial", "wait"}

(* Where the loop selects on stop, or looks at it before it goes on.         *)
HearsStop == {"dial", "up", "wait"}

Stopped(r) ==
    /\ runner[r].stop /\ runner[r].at \in HearsStop
    /\ runner' = [runner EXCEPT ![r] = Ended(r)]
    /\ Stays

(* A token runs out, or is revoked.                                          *)
TokenDies(t) ==
    /\ alive' = alive \ {t}
    /\ UNCHANGED <<account, job, runner, cloudRun, started, changes, rejected>>

-----------------------------------------------------------------------------
Request(h) == Link(h) \/ Unlink(h) \/ SetPrinters(h) \/ AskDevices(h)

Serve(w) ==
    \/ w \in Handlers /\ DevicesAnswered(w)
    \/ Expire(w) \/ Sync(w) \/ StopRunner(w) \/ Replace(w)

Loop(r) ==
    \/ Attempt(r) \/ AuthFails(r) \/ DialSucceeds(r) \/ WaitEnds(r) \/ TakeRetry(r) \/ Stopped(r)
    \/ \E b \in BOOLEAN : DialFails(r, b) \/ Lost(r, b)

Next ==
    \/ \E h \in Handlers : Request(h)
    \/ \E w \in Workers : Serve(w)
    \/ \E r \in Runners : Loop(r)
    \/ RetryCloudNow
    \/ \E t \in Tokens : TokenDies(t)

Spec == Init /\ [][Next]_vars

(* The goroutines run: a request gets on where no lock holds it up, a loop   *)
(* begins its attempts, and a select with stop among its cases ends. Nothing *)
(* is assumed of the broker, and a session may last for ever.                *)
Fairness ==
    /\ \A w \in Workers : WF_vars(Serve(w))
    /\ \A r \in Runners : WF_vars(Attempt(r)) /\ WF_vars(Stopped(r))

FairSpec == Spec /\ Fairness

-----------------------------------------------------------------------------
Active == {r \in Runners : runner[r].at \notin {"unborn", "done"}}

(* There is one loop at most, so Bambu sees one connection of the account    *)
(* and "two reconnect loops can never run in parallel" (loop's comment):     *)
(* however requests, stops and expired tokens overlap.                       *)
OneLoop == Cardinality(Active) <= 1

(* A wait is cut short only by a signal that was sent during that wait, and  *)
(* not by one that lost the race with the timer of an earlier one.           *)
RetryIsForThisWait == \A r \in Runners :
    runner[r].at = "wait" /\ runner[r].retry => runner[r].asked

(* A loop never makes more than MaxFailures attempts without a session that  *)
(* lasted or a hold: short sessions and retries on request count too.        *)
HoldComes == \A r \in Runners : runner[r].tries <= MaxFailures

(* When no request and no OnCloudAuthFailed is at work, the loop runs for    *)
(* the account's session and there is none without one; and a token marked   *)
(* as expired is one that Bambu does not accept.                             *)
FollowsAccount ==
    (\A w \in Workers : job[w] = Idle) =>
      /\ IF cloudRun = 0 THEN Session(account) = NoToken
                         ELSE runner[cloudRun].token = Session(account)
      /\ account.expired => account.token \notin alive

(* SetCloudPrinters gets its cloudMu back: a loop that is stopped ends, in   *)
(* whatever it is doing.                                                     *)
StopEnds == \A w \in Workers : job[w].at = "stop" ~> job[w].at # "stop"
=============================================================================
