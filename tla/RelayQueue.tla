----------------------------- MODULE RelayQueue -----------------------------
(***************************************************************************)
(* lan.Controller.queueRelay: one post to FoxTrack in flight per printer,  *)
(* and only the newest later snapshot kept for it.                         *)
(*                                                                         *)
(* One printer. Snapshots are numbered in the order queueRelay is called,  *)
(* which is the order of the polls. A post stands for the one or two       *)
(* sendRelay calls of a job; what becomes of them is RelayDelivery's.      *)
(***************************************************************************)
EXTENDS Naturals

CONSTANTS
    MaxSnapshots,  \* bound: calls of queueRelay
    MaxForgets     \* bound: removals of the printer

ASSUME QueueAssumption == MaxSnapshots \in Nat /\ MaxForgets \in Nat

VARIABLES
    polled,   \* calls of queueRelay so far
    sent,     \* the newest snapshot whose post has begun, or that was forgotten
    forgets,  \* removals so far
    worker,   \* the posting goroutine: none, posting, or between two posts
    job,      \* the goroutine's job
    busy,     \* relayBusy
    relayPending  \* the snapshot kept for later, 0 when there is none

queueVars == <<polled, sent, forgets, worker, job, busy, relayPending>>

Snapshots == 1 .. MaxSnapshots

QueueTypeOK ==
    /\ polled \in 0 .. MaxSnapshots /\ sent \in 0 .. MaxSnapshots
    /\ forgets \in 0 .. MaxForgets
    /\ worker \in {"none", "posting", "between"}
    /\ job \in 0 .. MaxSnapshots
    /\ busy \in BOOLEAN
    /\ relayPending \in 0 .. MaxSnapshots

QueueInit ==
    /\ polled = 0 /\ sent = 0 /\ forgets = 0
    /\ worker = "none" /\ job = 0
    /\ busy = FALSE /\ relayPending = 0

(* queueRelay under relayQMu: keep the snapshot for later or start a         *)
(* goroutine that posts it.                                                  *)
Keep ==
    /\ polled < MaxSnapshots /\ busy
    /\ polled' = polled + 1
    /\ relayPending' = polled'
    /\ UNCHANGED <<sent, forgets, worker, job, busy>>

Start ==
    /\ polled < MaxSnapshots /\ ~busy
    /\ polled' = polled + 1
    /\ busy' = TRUE
    /\ worker' = "posting" /\ job' = polled' /\ sent' = polled'
    /\ UNCHANGED <<forgets, relayPending>>

(* The goroutine's sendRelay calls returned.                                 *)
JobEnds ==
    /\ worker = "posting"
    /\ worker' = "between" /\ job' = 0
    /\ UNCHANGED <<polled, sent, forgets, busy, relayPending>>

TakeNext ==
    /\ worker = "between" /\ relayPending # 0
    /\ job' = relayPending /\ sent' = relayPending
    /\ relayPending' = 0
    /\ worker' = "posting"
    /\ UNCHANGED <<polled, forgets, busy>>

(* Mutant: the printer's busy mark is left behind.                           *)
LeaveBusy ==
    /\ worker = "between" /\ relayPending = 0
    /\ worker' = "none"
    /\ UNCHANGED <<polled, sent, forgets, job, busy, relayPending>>

Leave ==
    /\ worker = "between" /\ relayPending = 0
    /\ busy' = FALSE
    /\ worker' = "none"
    /\ UNCHANGED <<polled, sent, forgets, job, relayPending>>

(* forgetBookkeeping drops what waits; a post under way goes on.             *)
ForgetPending ==
    /\ forgets < MaxForgets
    /\ forgets' = forgets + 1
    /\ relayPending' = 0
    /\ sent' = polled
    /\ UNCHANGED <<polled, worker, job, busy>>

Worker == JobEnds \/ TakeNext \/ Leave

QueueNext == Keep \/ Start \/ Worker \/ ForgetPending

QueueSpec == QueueInit /\ [][QueueNext]_queueVars

(* sendRelay returns: each post has a timeout.                               *)
QueueFairSpec == QueueSpec /\ WF_queueVars(Worker)

-----------------------------------------------------------------------------
(* relayBusy says whether a goroutine posts, and what waits is newer than    *)
(* what it posts: the state under relayQMu that keeps posts in order.        *)
BusyMeansPosting ==
    /\ busy <=> worker # "none"
    /\ relayPending # 0 => busy /\ sent < relayPending /\ relayPending <= polled

QueueFeed == INSTANCE StatusFeed WITH
    handed <- polled, begun <- sent, busy <- job

(* Posts do not overlap, do not go back, and the newest snapshot goes out:   *)
(* queueRelay implements the status feed.                                    *)
QueueImplementsFeed == QueueFeed!Spec

(* What of it is a matter of safety: one post at a time, in order.           *)
QueueFollowsFeed == QueueFeed!Init /\ [][QueueFeed!Next]_(QueueFeed!feedVars)
=============================================================================
