---------------------------- MODULE HistoryRetry ----------------------------
(***************************************************************************)
(* The history posts of ended prints, which are retried for a day, and the *)
(* relay's health that the dashboard shows (webhook/sender.go). Answers    *)
(* are processed some time after FoxTrack has given them. Of the other     *)
(* requests to FoxTrack, a status post and a poll for commands matter to   *)
(* the health. Left out: the legacy project, whose answers do not.         *)
(***************************************************************************)
EXTENDS Naturals, FiniteSets

CONSTANTS
    HistoryPosts,           \* the SendHistory calls
    MaxWaiting,             \* maxPendingRetries
    MaxAge,                 \* historyMaxAge, in periods of waiting
    MaxMoods, MaxHistoryRestarts   \* bounds

VARIABLES
    foxtrack,   \* how FoxTrack answers: "up", "down", or the problem it refuses for
    post,       \* [at, answer, age] of every SendHistory call
    waiting,    \* pendingHistoryRetries
    problem,    \* the kind of relayProblem, "none" without one
    flight,     \* the answer under way to a status post and to a poll
    moods, historyRestarts

historyVars == <<foxtrack, post, waiting, problem, flight, moods, historyRestarts>>

Refusals == {"unauthorized", "plan_limit", "printer_limit"}
Requests == {"relay", "poll"}

HistoryInit ==
    /\ foxtrack = "up" /\ waiting = 0 /\ problem = "none" /\ moods = 0 /\ historyRestarts = 0
    /\ post = [h \in HistoryPosts |-> [at |-> "new", answer |-> "none", age |-> 0]]
    /\ flight = [q \in Requests |-> "none"]

(* FoxTrack, its user and the network change.                                *)
MoodChanges ==
    /\ moods < MaxMoods /\ moods' = moods + 1
    /\ foxtrack' \in ({"up", "down"} \cup Refusals) \ {foxtrack}
    /\ UNCHANGED <<post, waiting, problem, flight, historyRestarts>>

-----------------------------------------------------------------------------
(* Health. setRelayProblem keeps a problem of the same kind; the text and    *)
(* the time that it keeps are left out.                                      *)

IsRefusal(answer) == answer \in Refusals
Note(answer) == problem' = IF IsRefusal(answer) THEN answer ELSE problem

(* Only a status post is held to the limit on printers.                      *)
AnswerTo(q) == IF foxtrack = "printer_limit" /\ q # "relay" THEN "up" ELSE foxtrack

Ask(q) ==
    /\ flight[q] = "none" /\ flight' = [flight EXCEPT ![q] = AnswerTo(q)]
    /\ UNCHANGED <<foxtrack, post, waiting, problem, moods, historyRestarts>>

(* Mutant: a poll that works clears every problem.                           *)
ClearsAll(q) == Refusals

(* The problems that FoxTrack's consent to a request clears.                 *)
Clears(q) == IF q = "relay" THEN Refusals ELSE {"unauthorized", "plan_limit"}

Hear(q) ==
    /\ flight[q] # "none" /\ flight' = [flight EXCEPT ![q] = "none"]
    /\ \/ flight[q] = "up" /\ problem' = IF problem \in Clears(q) THEN "none" ELSE problem
       \/ flight[q] # "up" /\ Note(flight[q])
    /\ UNCHANGED <<foxtrack, post, waiting, moods, historyRestarts>>

-----------------------------------------------------------------------------
(* SendHistory, and its retries.                                             *)

OnlyPost == UNCHANGED <<foxtrack, flight, moods, historyRestarts>>

SendHistory(h) ==
    /\ post[h].at = "new" /\ post' = [post EXCEPT ![h].at = "posting"]
    /\ UNCHANGED <<waiting, problem>> /\ OnlyPost

(* FoxTrack takes the record, although its answer may be lost; or does not.  *)
FoxTrackTakes(h) ==
    /\ post[h].at = "posting"
    /\ \/ /\ AnswerTo("history") = "up"
          /\ \E a \in {"up", "down"} :
               post' = [post EXCEPT ![h].at = "answered", ![h].answer = a]
       \/ /\ AnswerTo("history") # "up"
          /\ post' = [post EXCEPT ![h].at = "answered", ![h].answer = foxtrack]
    /\ UNCHANGED <<waiting, problem>> /\ OnlyPost

Outcome(a) == IF a = "up" THEN "sent" ELSE IF IsRefusal(a) THEN "refused" ELSE "count"

HearHistory(h) ==
    /\ post[h].at = "answered"
    /\ post' = [post EXCEPT ![h].at = Outcome(post[h].answer), ![h].answer = "none"]
    /\ Note(post[h].answer)
    /\ UNCHANGED waiting /\ OnlyPost

(* scheduleHistoryRetry: the counter is raised, and lowered again by a call  *)
(* that finds it too high.                                                   *)
CountRetry(h) ==
    /\ post[h].at = "count" /\ waiting' = waiting + 1
    /\ post' = [post EXCEPT ![h].at = IF waiting' > MaxWaiting THEN "full" ELSE "waiting"]
    /\ UNCHANGED problem /\ OnlyPost

(* Mutant: the counter stays raised.                                         *)
GiveUpKeepsCount(h) ==
    /\ post[h].at = "full" /\ post' = [post EXCEPT ![h].at = "dropped"]
    /\ UNCHANGED <<waiting, problem>> /\ OnlyPost

GiveUp(h) ==
    /\ post[h].at = "full" /\ post' = [post EXCEPT ![h].at = "dropped"] /\ waiting' = waiting - 1
    /\ UNCHANGED problem /\ OnlyPost

(* The timer fires after one period or more.                                 *)
RetryHistory(h) ==
    /\ post[h].at = "waiting" /\ waiting' = waiting - 1
    /\ \E age \in post[h].age + 1 .. MaxAge + 1 :
         post' = [post EXCEPT ![h].age = age, ![h].at = IF age > MaxAge THEN "old" ELSE "posting"]
    /\ UNCHANGED problem /\ OnlyPost

HistoryRestart ==
    /\ historyRestarts < MaxHistoryRestarts /\ historyRestarts' = historyRestarts + 1
    /\ post' = [h \in HistoryPosts |->
         IF post[h].at \in {"new", "sent", "refused", "dropped", "old"} THEN post[h]
         ELSE [post[h] EXCEPT !.at = "lost", !.answer = "none"]]
    /\ waiting' = 0 /\ problem' = "none" /\ flight' = [q \in Requests |-> "none"]
    /\ UNCHANGED <<foxtrack, moods>>

Progress(h) ==
    FoxTrackTakes(h) \/ HearHistory(h) \/ CountRetry(h) \/ GiveUp(h) \/ RetryHistory(h)

HistoryNext ==
    \/ MoodChanges \/ HistoryRestart
    \/ \E q \in Requests : Ask(q) \/ Hear(q)
    \/ \E h \in HistoryPosts : SendHistory(h) \/ Progress(h)

HistoryFairness ==
    /\ \A h \in HistoryPosts : WF_historyVars(Progress(h))
    /\ \A q \in Requests : WF_historyVars(Ask(q)) /\ WF_historyVars(Hear(q))

-----------------------------------------------------------------------------
(* The counter is the number of records that wait, and those are never more  *)
(* than the limit, although it is raised and lowered by calls that overlap.  *)
WaitingIsCounted ==
    /\ waiting = Cardinality({h \in HistoryPosts : post[h].at \in {"waiting", "full"}})
    /\ Cardinality({h \in HistoryPosts : post[h].at = "waiting"}) <= MaxWaiting

Settled == {"new", "sent", "refused", "dropped", "old", "lost"}

(* A record that FoxTrack does not take is retried until it takes it, has    *)
(* refused it for good, or the day is over: no retry is forgotten. And what  *)
(* the dashboard shows of the health settles on what FoxTrack says, as late  *)
(* as answers may be heard: a refusal stays shown while it lasts, beside     *)
(* requests that it does not concern, and is gone some time after it ended.  *)
RetriesSettle ==
    <>[](/\ \A h \in HistoryPosts : post[h].at \in Settled
         /\ foxtrack # "down" => problem = IF foxtrack = "up" THEN "none" ELSE foxtrack)
=============================================================================
