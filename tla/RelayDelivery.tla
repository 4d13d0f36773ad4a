---------------------------- MODULE RelayDelivery ----------------------------
(***************************************************************************)
(* How status payloads reach FoxTrack: webhook/sender.go, SendRelay and    *)
(* its retry queue.                                                        *)
(*                                                                         *)
(* A key is one entry of relayStates: one endpoint URL together with one   *)
(* printer serial. Every SendRelay call for a key takes the next sequence  *)
(* number of that key, so a call is named <<k, n>>, and the payload it     *)
(* carries is named by n as well. FoxTrack replaces the status it stores   *)
(* for the key with whatever is posted last.                               *)
(***************************************************************************)
EXTENDS Integers, FiniteSets

CONSTANTS
    Keys,         \* the (endpoint, printer serial) pairs in use
    Current,      \* the keys whose endpoint is in currentProjectURLs
    MaxCalls,     \* bound: SendRelay calls per key
    MaxPending,   \* maxPendingRetries
    MaxAttempts   \* len(relayBackoffs)

ASSUME RelayAssumption ==
    /\ IsFiniteSet(Keys)
    /\ Current \subseteq Keys
    /\ MaxCalls \in Nat
    /\ MaxPending \in Nat
    /\ MaxAttempts \in Nat

VARIABLES
    seq,        \* relayState.seq: calls made so far, per key
    delivered,  \* relayState.delivered: highest sequence FoxTrack accepted
    holder,     \* relayState.mu: the call that holds it, 0 when free
    call,       \* where each call is
    attempts,   \* waits asked for so far (retryItem.attempts from the first
                \* failure on)
    pending,    \* pendingRelayRetries
    stored,     \* FoxTrack: the payload it shows for the key
    abandoned,  \* posts the client timed out on and FoxTrack may still apply
    late        \* history: the keys for which FoxTrack applied such a post

vars == <<seq, delivered, holder, call, attempts, pending, stored, abandoned, late>>

Numbers == 1 .. MaxCalls
Calls   == Keys \X Numbers

Ended  == {"accepted", "skipped", "refused", "expired", "full", "gaveup"}
Phases == {"unused", "waiting", "posting", "failed", "overflow", "backoff"}
              \cup Ended

TypeOK ==
    /\ seq \in [Keys -> 0 .. MaxCalls]
    /\ delivered \in [Keys -> 0 .. MaxCalls]
    /\ holder \in [Keys -> 0 .. MaxCalls]
    /\ call \in [Calls -> Phases]
    /\ attempts \in [Calls -> 0 .. MaxAttempts]
    /\ pending \in Nat
    /\ stored \in [Keys -> 0 .. MaxCalls]
    /\ abandoned \subseteq Calls
    /\ late \subseteq Keys

Init ==
    /\ seq = [k \in Keys |-> 0]
    /\ delivered = [k \in Keys |-> 0]
    /\ holder = [k \in Keys |-> 0]
    /\ call = [c \in Calls |-> "unused"]
    /\ attempts = [c \in Calls |-> 0]
    /\ pending = 0
    /\ stored = [k \in Keys |-> 0]
    /\ abandoned = {}
    /\ late = {}

-----------------------------------------------------------------------------
(* SendRelay: st.seq.Add(1), then straight into deliverRelay. *)
SendRelay(k) ==
    /\ seq[k] < MaxCalls
    /\ seq' = [seq EXCEPT ![k] = @ + 1]
    /\ call' = [call EXCEPT ![<<k, seq[k] + 1>>] = "waiting"]
    /\ UNCHANGED <<delivered, holder, attempts, pending, stored, abandoned, late>>

(* Mutants of deliverRelay: skipping whatever is not the newest call, and    *)
(* posting without looking at delivered.                                     *)
SkipUnlessNewest(k, n) ==
    /\ call[<<k, n>>] = "waiting"
    /\ holder[k] = 0
    /\ seq[k] > n
    /\ call' = [call EXCEPT ![<<k, n>>] = "skipped"]
    /\ UNCHANGED <<seq, delivered, holder, attempts, pending, stored, abandoned, late>>

PostRegardless(k, n) ==
    /\ call[<<k, n>>] = "waiting"
    /\ holder[k] = 0
    /\ holder' = [holder EXCEPT ![k] = n]
    /\ call' = [call EXCEPT ![<<k, n>>] = "posting"]
    /\ UNCHANGED <<seq, delivered, attempts, pending, stored, abandoned, late>>

(* deliverRelay with st.mu taken: a payload older than the one delivered is *)
(* skipped, any other is posted with the lock held.                          *)
Skip(k, n) ==
    /\ call[<<k, n>>] = "waiting"
    /\ holder[k] = 0
    /\ delivered[k] > n
    /\ call' = [call EXCEPT ![<<k, n>>] = "skipped"]
    /\ UNCHANGED <<seq, delivered, holder, attempts, pending, stored, abandoned, late>>

Post(k, n) ==
    /\ call[<<k, n>>] = "waiting"
    /\ holder[k] = 0
    /\ ~(delivered[k] > n)
    /\ holder' = [holder EXCEPT ![k] = n]
    /\ call' = [call EXCEPT ![<<k, n>>] = "posting"]
    /\ UNCHANGED <<seq, delivered, attempts, pending, stored, abandoned, late>>

(* doSendRelay returned nil. *)
Accepted(k, n) ==
    /\ call[<<k, n>>] = "posting"
    /\ stored' = [stored EXCEPT ![k] = n]
    /\ delivered' = [delivered EXCEPT ![k] = n]
    /\ holder' = [holder EXCEPT ![k] = 0]
    /\ call' = [call EXCEPT ![<<k, n>>] = "accepted"]
    /\ UNCHANGED <<seq, attempts, pending, abandoned, late>>

(* A 401 or 403 of the current project: errNotRetryable. *)
Refused(k, n) ==
    /\ call[<<k, n>>] = "posting"
    /\ k \in Current
    /\ holder' = [holder EXCEPT ![k] = 0]
    /\ call' = [call EXCEPT ![<<k, n>>] = "refused"]
    /\ UNCHANGED <<seq, delivered, attempts, pending, stored, abandoned, late>>

(* Mutant: an error return that leaves st.mu locked.                         *)
AfterErrorLocked(k, n) ==
    /\ attempts[<<k, n>>] < MaxAttempts
    /\ attempts' = [attempts EXCEPT ![<<k, n>>] = @ + 1]
    /\ call' = [call EXCEPT ![<<k, n>>] = "failed"]
    /\ UNCHANGED <<seq, delivered, holder, pending, late>>

(* doSendRelay returned a retryable error. FoxTrack either never applied the *)
(* post, or applied it and the answer was lost, or may still apply it after  *)
(* the ten seconds of relayHTTPClient.                                       *)
AfterError(k, n) ==
    /\ holder' = [holder EXCEPT ![k] = 0]
    /\ IF attempts[<<k, n>>] < MaxAttempts
       THEN /\ attempts' = [attempts EXCEPT ![<<k, n>>] = @ + 1]
            /\ call' = [call EXCEPT ![<<k, n>>] = "failed"]
       ELSE /\ call' = [call EXCEPT ![<<k, n>>] = "gaveup"]
            /\ UNCHANGED attempts
    /\ UNCHANGED <<seq, delivered, pending, late>>

Failed(k, n) ==
    /\ call[<<k, n>>] = "posting"
    /\ AfterError(k, n)
    /\ UNCHANGED <<stored, abandoned, late>>

AnswerLost(k, n) ==
    /\ call[<<k, n>>] = "posting"
    /\ stored' = [stored EXCEPT ![k] = n]
    /\ AfterError(k, n)
    /\ UNCHANGED abandoned

TimedOut(k, n) ==
    /\ call[<<k, n>>] = "posting"
    /\ abandoned' = abandoned \cup {<<k, n>>}
    /\ AfterError(k, n)
    /\ UNCHANGED stored

LateApply(k, n) ==
    /\ <<k, n>> \in abandoned
    /\ abandoned' = abandoned \ {<<k, n>>}
    /\ stored' = [stored EXCEPT ![k] = n]
    /\ late' = late \cup {k}
    /\ UNCHANGED <<seq, delivered, holder, call, attempts, pending>>

(* Mutant of scheduleRelayRetry: a retry that is not counted.              *)
ScheduleUncounted(k, n) ==
    /\ call[<<k, n>>] = "failed"
    /\ call' = [call EXCEPT ![<<k, n>>] = "backoff"]
    /\ UNCHANGED <<seq, delivered, holder, attempts, pending, stored, abandoned, late>>

(* scheduleRelayRetry: the counter is raised first and looked at after, so   *)
(* it stands above the limit until a refused retry lowers it again.          *)
Schedule(k, n) ==
    /\ call[<<k, n>>] = "failed"
    /\ pending' = pending + 1
    /\ call' = [call EXCEPT ![<<k, n>>] =
                   IF pending' > MaxPending THEN "overflow" ELSE "backoff"]
    /\ UNCHANGED <<seq, delivered, holder, attempts, stored, abandoned, late>>

QueueFull(k, n) ==
    /\ call[<<k, n>>] = "overflow"
    /\ pending' = pending - 1
    /\ call' = [call EXCEPT ![<<k, n>>] = "full"]
    /\ UNCHANGED <<seq, delivered, holder, attempts, stored, abandoned, late>>

(* The timer fires: runRelayRetry drops a payload older than five minutes    *)
(* and hands any other to deliverRelay again.                                *)
Fire(k, n) ==
    /\ call[<<k, n>>] = "backoff"
    /\ pending' = pending - 1
    /\ \E next \in {"waiting", "expired"} :
          call' = [call EXCEPT ![<<k, n>>] = next]
    /\ UNCHANGED <<seq, delivered, holder, attempts, stored, abandoned, late>>

-----------------------------------------------------------------------------
Answer(k, n) ==
    \/ Accepted(k, n)
    \/ Refused(k, n)
    \/ Failed(k, n)
    \/ AnswerLost(k, n)
    \/ TimedOut(k, n)

Bridge(k, n) ==
    \/ Skip(k, n)
    \/ Post(k, n)
    \/ Answer(k, n)
    \/ Schedule(k, n)
    \/ QueueFull(k, n)
    \/ Fire(k, n)

Next ==
    \E k \in Keys :
        \/ SendRelay(k)
        \/ \E n \in Numbers : Bridge(k, n) \/ LateApply(k, n)

Spec == Init /\ [][Next]_vars

(* Go runs every goroutine and timer, hands st.mu to every waiter, and the   *)
(* HTTP client's timeout ends every post. Nothing makes a handler call       *)
(* SendRelay again, and nothing makes FoxTrack apply an abandoned post.      *)
Fairness == \A k \in Keys, n \in Numbers : WF_vars(Bridge(k, n))

FairSpec == Spec /\ Fairness

-----------------------------------------------------------------------------
(* What FoxTrack acknowledged is never undone by an older payload: a late    *)
(* retry or a slow goroutine cannot put the printer back behind a status     *)
(* FoxTrack has accepted (deliverRelay's skip, made under the lock), even    *)
(* when answers are lost. Only a post applied after the client gave up on it *)
(* could: nothing in the client can stop that one.                           *)
AcceptedNotUndone ==
    \A k \in Keys \ late, n \in Numbers :
        call[<<k, n>>] = "accepted" => stored[k] >= n

(* A payload is skipped only because a newer one of the same printer and     *)
(* endpoint was accepted: skipping never costs FoxTrack the newest status.   *)
SkippedWasReplaced ==
    \A k \in Keys, n \in Numbers :
        call[<<k, n>>] = "skipped" =>
            \E m \in Numbers : m > n /\ call[<<k, m>>] = "accepted"

InBackoff == {c \in Calls : call[c] = "backoff"}
Counted   == {c \in Calls : call[c] \in {"backoff", "overflow"}}

(* An endless outage holds at most maxPendingRetries payloads in memory,     *)
(* although the counter is raised before it is compared; and the counter     *)
(* never leaks, so a queue that was full takes retries again.                *)
RetriesBounded ==
    /\ Cardinality(InBackoff) <= MaxPending
    /\ pending = Cardinality(Counted)

(* Every SendRelay call comes to an end, whatever FoxTrack answers: accepted,*)
(* skipped, refused, too old, turned away by a full queue, or given up on.   *)
(* There are MaxCalls of them.                                               *)
EveryCallEnds == <>[](\A c \in Calls : call[c] \in Ended \cup {"unused"})

(* The register FoxTrack keeps for each key, as the bridge promises it: what *)
(* the bridge takes for delivered is the register's promise.                 *)
Register == INSTANCE StatusRegister WITH
    offered <- seq, shown <- stored, promised <- delivered

(* Delivery implements the register: FoxTrack shows only payloads handed to  *)
(* SendRelay, each step of the retry queue that FoxTrack acknowledges moves  *)
(* the promise forward, and a post whose answer is lost never puts FoxTrack  *)
(* behind the promise.                                                       *)
ImplementsRegister == Register!Spec
=============================================================================
