---------------------------- MODULE Relay_proofs -----------------------------
(***************************************************************************)
(* Proofs about what leaves the Bridge for FoxTrack, for any number of     *)
(* printers, calls, attempts, snapshots, posts and removals: the delivery of*)
(* a status and its register, and the two ways in which posts are kept in  *)
(* order.                                                                  *)
(***************************************************************************)
EXTENDS RelayDelivery, RelayQueue, RelayTurns, FiniteSetTheorems, TLAPS

-----------------------------------------------------------------------------
(* RelayDelivery: the calls of SendRelay for one printer and their retries. *)

(* TypeOK without the claim that the counter never goes below zero. *)
Types ==
    /\ seq \in [Keys -> 0 .. MaxCalls]
    /\ delivered \in [Keys -> 0 .. MaxCalls]
    /\ holder \in [Keys -> 0 .. MaxCalls]
    /\ call \in [Calls -> Phases]
    /\ attempts \in [Calls -> 0 .. MaxAttempts]
    /\ pending \in Int
    /\ stored \in [Keys -> 0 .. MaxCalls]
    /\ abandoned \subseteq Calls
    /\ late \subseteq Keys

(* Types is inductive.                                                       *)
LEMMA TypesInductive ==
    /\ Init => Types
    /\ Types /\ [Next]_vars => Types'
<1> USE RelayAssumption
<1>1. Init => Types
  BY DEF Init, Types, Phases, Calls, Numbers
<1>2. ASSUME Types, [Next]_vars PROVE Types'
  <2>1. ASSUME NEW k \in Keys, SendRelay(k) PROVE Types'
    <3>1. <<k, seq[k] + 1>> \in Calls
      BY <1>2, <2>1 DEF SendRelay, Types, Calls, Numbers
    <3> QED
      BY <1>2, <2>1, <3>1 DEF SendRelay, Types, Phases
  <2>2. ASSUME NEW k \in Keys, NEW n \in Numbers, Bridge(k, n) \/ LateApply(k, n)
        PROVE  Types'
    <3> n \in 0 .. MaxCalls /\ <<k, n>> \in Calls
      BY DEF Numbers, Calls
    <3>1. CASE Skip(k, n)
      BY <1>2, <3>1 DEF Types, Skip, Phases, Ended
    <3>2. CASE Post(k, n)
      BY <1>2, <3>2 DEF Types, Post, Phases
    <3>3. CASE Accepted(k, n)
      BY <1>2, <3>3 DEF Types, Accepted, Phases, Ended
    <3>4. CASE Refused(k, n)
      BY <1>2, <3>4 DEF Types, Refused, Phases, Ended
    <3>5. ASSUME AfterError(k, n)
          PROVE  /\ seq' \in [Keys -> 0 .. MaxCalls]
                 /\ delivered' \in [Keys -> 0 .. MaxCalls]
                 /\ holder' \in [Keys -> 0 .. MaxCalls]
                 /\ call' \in [Calls -> Phases]
                 /\ attempts' \in [Calls -> 0 .. MaxAttempts]
                 /\ pending' \in Int
                 /\ late' = late
      <4>1. CASE attempts[<<k, n>>] < MaxAttempts
        BY <1>2, <3>5, <4>1 DEF Types, AfterError, Phases
      <4>2. CASE ~(attempts[<<k, n>>] < MaxAttempts)
        BY <1>2, <3>5, <4>2 DEF Types, AfterError, Phases, Ended
      <4> QED BY <4>1, <4>2
    <3>6. CASE Failed(k, n)
      BY <1>2, <3>5, <3>6 DEF Types, Failed
    <3>7. CASE AnswerLost(k, n)
      BY <1>2, <3>5, <3>7 DEF Types, AnswerLost
    <3>8. CASE TimedOut(k, n)
      BY <1>2, <3>5, <3>8 DEF Types, TimedOut
    <3>9. CASE LateApply(k, n)
      BY <1>2, <3>9 DEF Types, LateApply
    <3>10. CASE Schedule(k, n)
      BY <1>2, <3>10 DEF Types, Schedule, Phases
    <3>11. CASE QueueFull(k, n)
      BY <1>2, <3>11 DEF Types, QueueFull, Phases, Ended
    <3>12. CASE Fire(k, n)
      BY <1>2, <3>12 DEF Types, Fire, Phases, Ended
    <3> QED
      BY <2>2, <3>1, <3>2, <3>3, <3>4, <3>6, <3>7, <3>8, <3>9, <3>10, <3>11,
         <3>12 DEF Bridge, Answer
  <2>3. CASE UNCHANGED vars
    BY <1>2, <2>3 DEF Types, vars
  <2> QED
    BY <1>2, <2>1, <2>2, <2>3 DEF Next
<1> QED
  BY <1>1, <1>2

-----------------------------------------------------------------------------
(* Why an accepted payload is never undone: st.mu lets one call post at a    *)
(* time, a call posts only what is not older than delivered, and delivered   *)
(* always names an accepted call.                                            *)
LockHeld ==
    \A k \in Keys, n \in Numbers : call[<<k, n>>] = "posting" <=> holder[k] = n

Issued ==
    \A k \in Keys, n \in Numbers : call[<<k, n>>] # "unused" <=> n <= seq[k]

DeliveredNamesAccepted ==
    \A k \in Keys :
        delivered[k] # 0 => call[<<k, delivered[k]>>] = "accepted"

DeliveredSeparates ==
    \A k \in Keys, n \in Numbers :
        /\ call[<<k, n>>] = "posting" => n >= delivered[k]
        /\ call[<<k, n>>] = "accepted" => n <= delivered[k]
        /\ call[<<k, n>>] = "skipped" => n < delivered[k]

Order ==
    /\ Types
    /\ LockHeld
    /\ Issued
    /\ DeliveredNamesAccepted
    /\ DeliveredSeparates

(* Order holds initially and is kept by every step.                          *)
LEMMA OrderInductive ==
    /\ Init => Order
    /\ Order /\ [Next]_vars => Order'
<1> USE RelayAssumption
<1> USE DEF LockHeld, Issued, DeliveredNamesAccepted, DeliveredSeparates
<1>1. Init => Order
  BY TypesInductive DEF Init, Order, Calls, Numbers
<1>2. ASSUME Order, [Next]_vars PROVE Order'
  <2>0. Types /\ Types'
    BY <1>2, TypesInductive DEF Order
  <2>1. ASSUME NEW k \in Keys, SendRelay(k) PROVE Order'
    <3>1. seq[k] + 1 \in Numbers /\ <<k, seq[k] + 1>> \in Calls
      BY <2>0, <2>1 DEF SendRelay, Types, Calls, Numbers
    <3>2. call[<<k, seq[k] + 1>>] = "unused"
      BY <1>2, <2>0, <3>1 DEF Order, Types
    <3> USE <1>2, <2>0, <2>1, <3>1, <3>2
        DEF SendRelay, Order, Types, Calls, Numbers
    <3>3. LockHeld' /\ DeliveredSeparates'
      OBVIOUS
    <3>4. ASSUME NEW k1 \in Keys, NEW n1 \in Numbers
          PROVE  call'[<<k1, n1>>] # "unused" <=> n1 <= seq'[k1]
      <4>1. CASE k1 = k /\ n1 = seq[k] + 1
        BY <4>1
      <4>2. CASE k1 = k /\ n1 # seq[k] + 1
        <5>1. call'[<<k1, n1>>] = call[<<k1, n1>>] /\ seq'[k1] = seq[k] + 1
          BY <4>2
        <5>2. n1 \in Nat /\ seq[k] \in Nat
          OBVIOUS
        <5>3. call[<<k1, n1>>] # "unused" <=> n1 <= seq[k]
          BY <4>2
        <5> QED
          BY ONLY <4>2, <5>1, <5>2, <5>3
      <4>3. CASE k1 # k
        <5>1. call'[<<k1, n1>>] = call[<<k1, n1>>] /\ seq'[k1] = seq[k1]
          BY <4>3
        <5> QED
          BY <5>1
      <4> QED
        BY <4>1, <4>2, <4>3
    <3>5. DeliveredNamesAccepted'
      OBVIOUS
    <3> QED
      BY <3>3, <3>4, <3>5
  <2>2. ASSUME NEW k \in Keys, NEW n \in Numbers, Bridge(k, n) \/ LateApply(k, n)
        PROVE  Order'
    <3> n \in 1 .. MaxCalls /\ <<k, n>> \in Calls
      BY DEF Numbers, Calls
    <3> USE <1>2, <2>0 DEF Order, Types, Calls, Numbers
    <3>1. CASE Skip(k, n)
      BY <3>1 DEF Skip
    <3>2. CASE Post(k, n)
      BY <3>2 DEF Post
    <3>3. CASE Accepted(k, n)
      BY <3>3 DEF Accepted
    <3>4. CASE Refused(k, n)
      BY <3>4 DEF Refused
    <3>5. CASE call[<<k, n>>] = "posting" /\ AfterError(k, n)
      <4>1. PICK p \in {"failed", "gaveup"} :
              /\ call' = [call EXCEPT ![<<k, n>>] = p]
              /\ holder' = [holder EXCEPT ![k] = 0]
              /\ UNCHANGED <<seq, delivered>>
        BY <3>5 DEF AfterError
      <4>p. p # "unused" /\ p # "posting" /\ p # "accepted" /\ p # "skipped"
        OBVIOUS
      <4>2. ASSUME NEW k1 \in Keys, NEW n1 \in Numbers
            PROVE  call'[<<k1, n1>>] = "posting" <=> holder'[k1] = n1
        <5>1. CASE k1 = k /\ n1 = n
          BY <4>1, <4>p, <5>1
        <5>2. CASE k1 = k /\ n1 # n
          BY <3>5, <4>1, <5>2
        <5>3. CASE k1 # k
          BY <4>1, <5>3
        <5> QED BY <5>1, <5>2, <5>3
      <4>3. ASSUME NEW k1 \in Keys, NEW n1 \in Numbers
            PROVE  call'[<<k1, n1>>] # "unused" <=> call[<<k1, n1>>] # "unused"
        <5>1. CASE <<k1, n1>> = <<k, n>>
          BY <3>5, <4>1, <4>p, <5>1
        <5>2. CASE <<k1, n1>> # <<k, n>>
          BY <3>5, <4>1, <5>2
        <5> QED BY <5>1, <5>2
      <4>4. ASSUME NEW k1 \in Keys, delivered'[k1] # 0
            PROVE  call'[<<k1, delivered'[k1]>>] = "accepted"
        <5>1. call[<<k1, delivered[k1]>>] = "accepted"
          BY <4>1, <4>4
        <5>2. <<k1, delivered[k1]>> # <<k, n>>
          BY <3>5, <5>1
        <5> QED
          BY <4>1, <5>1, <5>2
      <4>5. DeliveredSeparates'
        BY <3>5, <4>1
      <4>6. Issued'
        <5> SUFFICES ASSUME NEW k1 \in Keys, NEW n1 \in Numbers
                     PROVE  call'[<<k1, n1>>] # "unused" <=> n1 <= seq'[k1]
          OBVIOUS
        <5>1. seq' = seq /\ (call[<<k1, n1>>] # "unused" <=> n1 <= seq[k1])
          BY <4>1
        <5> QED
          BY <4>3, <5>1
      <4> QED BY <4>2, <4>4, <4>5, <4>6
    <3>6. CASE LateApply(k, n)
      BY <3>6 DEF LateApply
    <3>7. CASE Schedule(k, n)
      BY <3>7 DEF Schedule
    <3>8. CASE QueueFull(k, n)
      BY <3>8 DEF QueueFull
    <3>9. CASE Fire(k, n)
      BY <3>9 DEF Fire
    <3> QED
      BY <2>2, <3>1, <3>2, <3>3, <3>4, <3>5, <3>6, <3>7, <3>8, <3>9
      DEF Bridge, Answer, Failed, AnswerLost, TimedOut
  <2>3. CASE UNCHANGED vars
    BY <1>2, <2>0, <2>3 DEF Order, vars, Calls, Numbers
  <2> QED
    BY <1>2, <2>1, <2>2, <2>3 DEF Next
<1> QED
  BY <1>1, <1>2

(* A skipped payload was replaced by a newer one that FoxTrack accepted, for *)
(* every number of printers, calls and retries, and whatever gets lost.      *)
THEOREM SkippedReplaced == Spec => []SkippedWasReplaced
<1>1. Order => SkippedWasReplaced
  BY RelayAssumption
  DEF Order, Types, DeliveredNamesAccepted, DeliveredSeparates,
      SkippedWasReplaced, Numbers
<1> QED
  BY <1>1, OrderInductive, PTL DEF Spec

(* Unless FoxTrack applied a post the client had given up on, it never goes  *)
(* back behind a payload it accepted, even when answers are lost.            *)
StoredNotBehind == \A k \in Keys \ late : stored[k] >= delivered[k]

(* What FoxTrack has accepted is not undone by an older post, for every      *)
(* number of printers, calls and retries.                                    *)
THEOREM NotUndone == Spec => []AcceptedNotUndone
<1> USE RelayAssumption
<1>1. Init => Order /\ StoredNotBehind
  BY OrderInductive DEF Init, StoredNotBehind
<1>2. ASSUME Order, StoredNotBehind, [Next]_vars PROVE StoredNotBehind'
  <2>1. ASSUME NEW k \in Keys, SendRelay(k) PROVE StoredNotBehind'
    BY <1>2, <2>1 DEF SendRelay, StoredNotBehind
  <2>2. ASSUME NEW k \in Keys, NEW n \in Numbers, Bridge(k, n) \/ LateApply(k, n)
        PROVE  StoredNotBehind'
    <3> n \in 1 .. MaxCalls
      BY DEF Numbers
    <3> USE <1>2 DEF Order, Types, StoredNotBehind
    <3>1. CASE Accepted(k, n)
      BY <3>1 DEF Accepted
    <3>2. CASE AnswerLost(k, n)
      BY <3>2 DEF AnswerLost, AfterError, DeliveredSeparates
    <3>3. CASE Skip(k, n) \/ Post(k, n) \/ Refused(k, n)
      BY <3>3 DEF Skip, Post, Refused
    <3>4. CASE Failed(k, n)
      BY <3>4 DEF Failed, AfterError
    <3>5. CASE TimedOut(k, n)
      BY <3>5 DEF TimedOut, AfterError
    <3>6. CASE LateApply(k, n)
      BY <3>6 DEF LateApply
    <3>7. CASE Schedule(k, n) \/ QueueFull(k, n) \/ Fire(k, n)
      BY <3>7 DEF Schedule, QueueFull, Fire
    <3> QED
      BY <2>2, <3>1, <3>2, <3>3, <3>4, <3>5, <3>6, <3>7 DEF Bridge, Answer
  <2>3. CASE UNCHANGED vars
    BY <1>2, <2>3 DEF vars, StoredNotBehind
  <2> QED
    BY <1>2, <2>1, <2>2, <2>3 DEF Next
<1>3. Order /\ StoredNotBehind => AcceptedNotUndone
  BY DEF Order, Types, StoredNotBehind, DeliveredSeparates, AcceptedNotUndone,
         Numbers
<1> QED
  BY <1>1, <1>2, <1>3, OrderInductive, PTL DEF Spec

-----------------------------------------------------------------------------
(* A finite set of calls, of which one joins or leaves.                      *)
LEMMA OneJoins ==
    ASSUME NEW S, NEW T, NEW c, IsFiniteSet(S), c \notin S, T = S \cup {c}
    PROVE  Cardinality(T) = Cardinality(S) + 1
  BY FS_AddElement

(* And one that leaves.                                                      *)
LEMMA OneLeaves ==
    ASSUME NEW S, NEW T, NEW c, IsFiniteSet(S), c \in S, T = S \ {c}
    PROVE  Cardinality(T) = Cardinality(S) - 1
  BY FS_RemoveElement

(* There are finitely many calls.                                            *)
LEMMA CallsFinite == IsFiniteSet(Calls)
<1>1. IsFiniteSet(Keys) /\ 1 \in Int /\ MaxCalls \in Int
  BY RelayAssumption
<1>2. IsFiniteSet(Numbers)
  BY <1>1, FS_Interval DEF Numbers
<1> QED
  BY <1>1, <1>2, FS_Product, Zenon DEF Calls

(* The counter equals the retries it stands for, and no more than MaxPending *)
(* of them wait: the limit compares the counter after the increment, and the *)
(* counter is never below the number of waiting retries.                     *)
LEMMA CountingInductive ==
    /\ Init => Order /\ RetriesBounded
    /\ Order /\ RetriesBounded /\ [Next]_vars => RetriesBounded'
<1> USE RelayAssumption
<1>0. /\ IsFiniteSet(Counted) /\ IsFiniteSet(InBackoff)
      /\ IsFiniteSet(Counted') /\ IsFiniteSet(InBackoff')
      /\ Cardinality(Counted) \in Nat /\ Cardinality(InBackoff) \in Nat
      /\ Cardinality(InBackoff) <= Cardinality(Counted)
  <2>1. /\ Counted \subseteq Calls /\ InBackoff \subseteq Counted
        /\ Counted' \subseteq Calls /\ InBackoff' \subseteq Calls
    BY DEF Counted, InBackoff
  <2> QED
    BY <2>1, CallsFinite, FS_Subset, FS_CardinalityType
<1>1. Init => Order /\ RetriesBounded
  <2> SUFFICES ASSUME Init PROVE RetriesBounded
    BY OrderInductive
  <2>1. Counted = {} /\ InBackoff = {}
    BY DEF Init, Counted, InBackoff
  <2> QED
    BY <2>1, FS_EmptySet DEF Init, RetriesBounded
<1>2. ASSUME Order, Types, RetriesBounded, [Next]_vars PROVE RetriesBounded'
  <2>0. CASE UNCHANGED <<call, pending>>
    BY <1>2, <2>0 DEF RetriesBounded, Counted, InBackoff
  <2>1. ASSUME NEW c \in Calls, NEW p \in Phases \ {"backoff", "overflow"},
               call[c] \notin {"backoff", "overflow"},
               call' = [call EXCEPT ![c] = p], UNCHANGED pending
        PROVE  RetriesBounded'
    <3>1. Counted' = Counted /\ InBackoff' = InBackoff
      BY <1>2, <2>1 DEF Types, Counted, InBackoff
    <3> QED
      BY <1>2, <2>1, <3>1 DEF RetriesBounded
  <2>2. ASSUME NEW k \in Keys, NEW n \in Numbers, Schedule(k, n)
        PROVE  RetriesBounded'
    <3>1. <<k, n>> \in Calls /\ <<k, n>> \notin Counted
      BY <2>2 DEF Schedule, Counted, Calls
    <3>2. Counted' = Counted \cup {<<k, n>>}
      BY <1>2, <2>2, <3>1 DEF Types, Schedule, Counted
    <3>3. pending' = Cardinality(Counted')
      BY <1>0, <1>2, <2>2, <3>1, <3>2, OneJoins DEF RetriesBounded, Schedule
    <3>4. CASE pending' > MaxPending
      <4>1. InBackoff' = InBackoff
        BY <1>2, <2>2, <3>1, <3>4 DEF Types, Schedule, InBackoff
      <4> QED
        BY <1>2, <3>3, <4>1 DEF RetriesBounded
    <3>5. CASE ~(pending' > MaxPending)
      <4>1. InBackoff' = InBackoff \cup {<<k, n>>} /\ <<k, n>> \notin InBackoff
        BY <1>2, <2>2, <3>1, <3>5 DEF Types, Schedule, InBackoff
      <4>2. Cardinality(InBackoff') = Cardinality(InBackoff) + 1
        BY <1>0, <4>1, OneJoins
      <4>3. pending' = pending + 1 /\ pending = Cardinality(Counted)
        BY <1>2, <2>2 DEF Schedule, RetriesBounded
      <4> QED
        BY <1>0, <3>3, <3>5, <4>2, <4>3 DEF RetriesBounded
    <3> QED
      BY <3>4, <3>5
  <2>3. ASSUME NEW k \in Keys, NEW n \in Numbers, QueueFull(k, n)
        PROVE  RetriesBounded'
    <3>1. <<k, n>> \in Counted
      BY <2>3 DEF QueueFull, Counted, Calls
    <3>2. Counted' = Counted \ {<<k, n>>} /\ InBackoff' = InBackoff
      BY <1>2, <2>3, <3>1 DEF Types, QueueFull, Counted, InBackoff
    <3> QED
      BY <1>0, <1>2, <2>3, <3>1, <3>2, OneLeaves DEF RetriesBounded, QueueFull
  <2>4. ASSUME NEW k \in Keys, NEW n \in Numbers, Fire(k, n)
        PROVE  RetriesBounded'
    <3>1. <<k, n>> \in Counted /\ <<k, n>> \in InBackoff
      BY <2>4 DEF Fire, Counted, InBackoff, Calls
    <3>2. Counted' = Counted \ {<<k, n>>} /\ InBackoff' = InBackoff \ {<<k, n>>}
      BY <1>2, <2>4, <3>1 DEF Types, Fire, Counted, InBackoff
    <3>3. /\ Cardinality(Counted') = Cardinality(Counted) - 1
          /\ Cardinality(InBackoff') = Cardinality(InBackoff) - 1
      BY <1>0, <3>1, <3>2, OneLeaves
    <3> QED
      BY <1>0, <1>2, <2>4, <3>3 DEF RetriesBounded, Fire
  <2>5. ASSUME NEW k \in Keys, SendRelay(k) PROVE RetriesBounded'
    <3>1. /\ <<k, seq[k] + 1>> \in Calls
          /\ call[<<k, seq[k] + 1>>] = "unused"
      BY <1>2, <2>5 DEF Types, Order, Issued, SendRelay, Calls, Numbers
    <3> QED
      BY <2>1, <2>5, <3>1 DEF SendRelay, Phases
  <2>6. ASSUME NEW k \in Keys, NEW n \in Numbers,
               Skip(k, n) \/ Post(k, n) \/ Answer(k, n) \/ LateApply(k, n)
        PROVE  RetriesBounded'
    <3> <<k, n>> \in Calls
      BY DEF Calls
    <3>1. CASE LateApply(k, n)
      BY <2>0, <3>1 DEF LateApply
    <3>2. CASE Skip(k, n) \/ Post(k, n) \/ Accepted(k, n) \/ Refused(k, n)
      BY <2>1, <3>2 DEF Skip, Post, Accepted, Refused, Phases, Ended
    <3>3. CASE call[<<k, n>>] = "posting" /\ AfterError(k, n)
      BY <2>1, <3>3 DEF AfterError, Phases, Ended
    <3> QED
      BY <2>6, <3>1, <3>2, <3>3 DEF Answer, Failed, AnswerLost, TimedOut
  <2> QED
    BY <1>2, <2>0, <2>2, <2>3, <2>4, <2>5, <2>6 DEF Next, Bridge, vars
<1> QED
  BY <1>1, <1>2 DEF Order

(* An outage never holds more than maxPendingRetries relay payloads, and the *)
(* retry counter never leaks.                                                *)
THEOREM BoundedRetries == Spec => []RetriesBounded
<1>1. Init => Order /\ RetriesBounded
  BY CountingInductive
<1>2. Order /\ RetriesBounded /\ [Next]_vars => Order' /\ RetriesBounded'
  BY OrderInductive, CountingInductive
<1> QED
  BY <1>1, <1>2, PTL DEF Spec

(* Every variable keeps its type; the retry counter, an atomic.Int32 that is *)
(* added to and subtracted from without a lock, never goes below zero.       *)
THEOREM TypeCorrect == Spec => []TypeOK
<1>1. Init => Order /\ RetriesBounded
  BY CountingInductive
<1>2. Order /\ RetriesBounded /\ [Next]_vars => Order' /\ RetriesBounded'
  BY OrderInductive, CountingInductive
<1>3. Order /\ RetriesBounded => TypeOK
  <2>1. Cardinality(Counted) \in Nat
    BY CallsFinite, FS_Subset, FS_CardinalityType DEF Counted
  <2> QED
    BY <2>1 DEF Order, Types, RetriesBounded, TypeOK
<1> QED
  BY <1>1, <1>2, <1>3, PTL DEF Spec

-----------------------------------------------------------------------------
(* A post is of a payload handed out and not yet acknowledged, so FoxTrack   *)
(* shows something newer than the promise when it applies one.               *)
LEMMA PostedIsNewer ==
  ASSUME Order, NEW k \in Keys, NEW n \in Numbers, call[<<k, n>>] = "posting"
  PROVE  n \in delivered[k] + 1 .. seq[k]
<1>1. n >= delivered[k] /\ n <= seq[k]
  BY DEF Order, DeliveredSeparates, Issued
<1>2. n # delivered[k]
  <2> SUFFICES ASSUME n = delivered[k] PROVE FALSE
    OBVIOUS
  <2> QED
    BY RelayAssumption DEF Order, DeliveredNamesAccepted, Numbers
<1> QED
  BY <1>1, <1>2, RelayAssumption DEF Order, Types, Numbers

(* Only calls that were made have been given up on.                          *)
AbandonedIssued == \A k \in Keys, n \in Numbers : <<k, n>> \in abandoned => n <= seq[k]

(* Delivery implements the register, whatever is lost, refused or late:      *)
(* every step of SendRelay and its retry queue offers a payload, shows or    *)
(* acknowledges one newer than the promise, shows one late, or changes       *)
(* nothing FoxTrack can see.                                                 *)
THEOREM Implements == Spec => ImplementsRegister
<1> USE RelayAssumption
<1>1. Init => Order /\ AbandonedIssued /\ Register!Init
  BY OrderInductive DEF Init, AbandonedIssued, Register!Init
<1>2. ASSUME Order, AbandonedIssued, [Next]_vars
      PROVE  AbandonedIssued' /\ [Register!Next]_(Register!registerVars)
  <2> DEFINE Goal == AbandonedIssued' /\ [Register!Next]_(Register!registerVars)
  <2> USE DEF Register!registerVars
  <2>0. CASE UNCHANGED <<seq, stored, delivered, abandoned, late>>
    BY <1>2, <2>0 DEF AbandonedIssued
  <2>1. ASSUME NEW k \in Keys, SendRelay(k) PROVE Goal
    <3>1. Register!Offer(k)
      BY <2>1 DEF SendRelay, Register!Offer
    <3>2. AbandonedIssued'
      BY <1>2, <2>1 DEF SendRelay, AbandonedIssued, Order, Types, Numbers
    <3> QED
      BY <3>1, <3>2 DEF Register!Next
  <2>2. ASSUME NEW k \in Keys, NEW n \in Numbers, Accepted(k, n) PROVE Goal
    <3>1. n \in delivered[k] + 1 .. seq[k]
      BY <1>2, <2>2, PostedIsNewer DEF Accepted
    <3>2. Register!Acknowledge(k)
      BY <2>2, <3>1 DEF Accepted, Register!Acknowledge
    <3>3. AbandonedIssued'
      BY <1>2, <2>2 DEF Accepted, AbandonedIssued
    <3> QED
      BY <3>2, <3>3 DEF Register!Next
  <2>3. ASSUME NEW k \in Keys, NEW n \in Numbers, AnswerLost(k, n) PROVE Goal
    <3>1. n \in delivered[k] + 1 .. seq[k]
      BY <1>2, <2>3, PostedIsNewer DEF AnswerLost
    <3>2. Register!Show(k)
      BY <2>3, <3>1 DEF AnswerLost, AfterError, Register!Show
    <3>3. AbandonedIssued'
      BY <1>2, <2>3 DEF AnswerLost, AfterError, AbandonedIssued
    <3> QED
      BY <3>2, <3>3 DEF Register!Next
  <2>4. ASSUME NEW k \in Keys, NEW n \in Numbers, TimedOut(k, n) PROVE Goal
    <3>1. n <= seq[k]
      BY <1>2, <2>4, PostedIsNewer DEF TimedOut, Order, Types
    <3>2. AbandonedIssued'
      BY <1>2, <2>4, <3>1 DEF TimedOut, AfterError, AbandonedIssued
    <3> QED
      BY <2>4, <3>2 DEF TimedOut, AfterError
  <2>5. ASSUME NEW k \in Keys, NEW n \in Numbers, LateApply(k, n) PROVE Goal
    <3>1. n \in 1 .. seq[k]
      BY <1>2, <2>5 DEF LateApply, AbandonedIssued, Order, Types, Numbers
    <3>2. Register!ShowLate(k)
      BY <2>5, <3>1 DEF LateApply, Register!ShowLate
    <3>3. AbandonedIssued'
      BY <1>2, <2>5 DEF LateApply, AbandonedIssued
    <3> QED
      BY <3>2, <3>3 DEF Register!Next
  <2>6. ASSUME NEW k \in Keys, NEW n \in Numbers,
               \/ Skip(k, n) \/ Post(k, n) \/ Refused(k, n) \/ Failed(k, n)
               \/ Schedule(k, n) \/ QueueFull(k, n) \/ Fire(k, n)
        PROVE  Goal
    <3>1. UNCHANGED <<seq, stored, delivered, abandoned, late>>
      BY <2>6
      DEF Skip, Post, Refused, Failed, AfterError, Schedule, QueueFull, Fire
    <3> QED
      BY <2>0, <3>1
  <2>7. CASE UNCHANGED vars
    BY <2>0, <2>7 DEF vars
  <2> QED
    BY <1>2, <2>1, <2>2, <2>3, <2>4, <2>5, <2>6, <2>7 DEF Next, Bridge, Answer
<1> QED
  BY <1>1, <1>2, OrderInductive, PTL
  DEF Spec, ImplementsRegister, Register!Spec

-----------------------------------------------------------------------------
(* RelayQueue: the posts of an HTTP printer.                                *)

(* The goroutine has a job exactly while it posts.                           *)
JobWhilePosting == worker = "posting" <=> job # 0

QueueInv == QueueTypeOK /\ BusyMeansPosting /\ JobWhilePosting /\ sent <= polled

(* The invariant holds at the start.                                         *)
LEMMA QueueInvInit == QueueInit => QueueInv
<1> SUFFICES ASSUME QueueInit PROVE QueueInv
  OBVIOUS
<1>1. QueueTypeOK
  <2>1. busy \in BOOLEAN
    BY DEF QueueInit
  <2>2. polled = 0 /\ sent = 0 /\ forgets = 0 /\ worker = "none" /\ job = 0 /\ relayPending = 0
    BY DEF QueueInit
  <2> QED
    BY <2>1, <2>2, QueueAssumption DEF QueueTypeOK
<1>2. BusyMeansPosting
  BY DEF QueueInit, BusyMeansPosting
<1>3. JobWhilePosting /\ sent <= polled
  BY DEF QueueInit, JobWhilePosting
<1> QED
  BY <1>1, <1>2, <1>3 DEF QueueInv

(* Every step of queueRelay, of the goroutine and of a removal keeps it.     *)
LEMMA QueueInvStep == QueueInv /\ [QueueNext]_queueVars => QueueInv'
<1> SUFFICES ASSUME QueueInv, [QueueNext]_queueVars PROVE QueueInv'
  OBVIOUS
<1> USE QueueAssumption DEF QueueInv, QueueTypeOK, BusyMeansPosting, JobWhilePosting
<1>1. CASE Keep
  BY <1>1 DEF Keep
<1>2. CASE Start
  BY <1>2 DEF Start
<1>3. CASE JobEnds
  BY <1>3 DEF JobEnds
<1>4. CASE TakeNext
  BY <1>4 DEF TakeNext
<1>5. CASE Leave
  BY <1>5 DEF Leave
<1>6. CASE ForgetPending
  BY <1>6 DEF ForgetPending
<1>7. CASE UNCHANGED queueVars
  BY <1>7 DEF queueVars
<1> QED
  BY <1>1, <1>2, <1>3, <1>4, <1>5, <1>6, <1>7 DEF QueueNext, Worker

(* Every state of the queue is in order.                                     *)
LEMMA QueueInvariance == QueueSpec => []QueueInv
  BY QueueInvInit, QueueInvStep, PTL DEF QueueSpec

(* relayBusy says whether a goroutine posts, and what waits is newer than    *)
(* what it posts.                                                            *)
THEOREM BusyTellsPosting == QueueSpec => []BusyMeansPosting
<1>1. QueueInv => BusyMeansPosting
  BY DEF QueueInv
<1> QED
  BY <1>1, QueueInvariance, PTL

(* Every variable keeps its type.                                            *)
THEOREM QueueTypes == QueueSpec => []QueueTypeOK
<1>1. QueueInv => QueueTypeOK
  BY DEF QueueInv
<1> QED
  BY <1>1, QueueInvariance, PTL

(* Every step is a step of the feed or leaves it alone.                      *)
LEMMA QueueFeedStep == QueueInv /\ [QueueNext]_queueVars => [QueueFeed!Next]_(QueueFeed!feedVars)
<1> SUFFICES ASSUME QueueInv, [QueueNext]_queueVars PROVE [QueueFeed!Next]_(QueueFeed!feedVars)
  OBVIOUS
<1> USE DEF QueueInv, QueueTypeOK, BusyMeansPosting, JobWhilePosting, QueueFeed!Next, QueueFeed!feedVars
<1>1. CASE Keep
  BY <1>1 DEF Keep, QueueFeed!HandOver
<1>2. CASE Start
  BY <1>2 DEF Start, QueueFeed!HandOverAndBegin
<1>3. CASE JobEnds
  BY <1>3 DEF JobEnds, QueueFeed!End
<1>4. CASE TakeNext
  BY <1>4 DEF TakeNext, QueueFeed!Begin
<1>5. CASE Leave
  BY <1>5 DEF Leave
<1>6. CASE ForgetPending
  BY <1>6 DEF ForgetPending, QueueFeed!Forget
<1>7. CASE UNCHANGED queueVars
  BY <1>7 DEF queueVars
<1> QED
  BY <1>1, <1>2, <1>3, <1>4, <1>5, <1>6, <1>7 DEF QueueNext, Worker

(* queueRelay's posts do not overlap and do not go back.                     *)
THEOREM QueueKeepsFeed == QueueSpec => QueueFollowsFeed
<1>1. QueueInit => QueueFeed!Init
  BY DEF QueueInit, QueueFeed!Init
<1> QED
  BY <1>1, QueueFeedStep, QueueInvariance, PTL DEF QueueSpec, QueueFollowsFeed

-----------------------------------------------------------------------------
(* RelayTurns: the chain of turns of a Bambu printer's posts.               *)

(* Goroutines are started in the order of their numbers and wait only for    *)
(* goroutines that were started before them.                                 *)
Started ==
    /\ relayTurn <= handed /\ relaySeq <= handed
    /\ \A p \in Posts : at[p] = "none" <=> p > handed
    /\ \A p \in Posts : p > handed => prev[p] = 0

TurnsInv == TurnsTypeOK /\ Started /\ ChainInOrder

(* Before the first post there is no chain.                                  *)
LEMMA TurnsInvInit == TurnsInit => TurnsInv
  BY TurnsAssumption DEF TurnsInit, TurnsInv, TurnsTypeOK, Started, ChainInOrder, Posts, Over

(* Each step keeps the chain of turns.                                       *)
LEMMA TurnsInvStep == TurnsInv /\ [TurnsNext]_turnVars => TurnsInv'
<1> SUFFICES ASSUME TurnsInv, [TurnsNext]_turnVars PROVE TurnsInv'
  OBVIOUS
<1> USE TurnsAssumption DEF TurnsInv, TurnsTypeOK, Started, ChainInOrder, Posts
<1>1. CASE HandOver
  <2>1. PICK t \in BOOLEAN : terminal' = [terminal EXCEPT ![handed'] = t]
    BY <1>1 DEF HandOver
  <2>2. handed' \in 1 .. MaxPosts /\ handed' = handed + 1
    BY <1>1 DEF HandOver
  <2>3. TurnsTypeOK'
    BY <1>1, <2>1, <2>2 DEF HandOver
  <2> QED
    BY <1>1, <2>1, <2>2, <2>3 DEF HandOver, Over
<1>2. ASSUME NEW p \in Posts, Goroutine(p) PROVE TurnsInv'
  <2>1. CASE GiveWay(p)
    BY <2>1 DEF GiveWay, MyTurn, Over
  <2>2. CASE PostBegins(p)
    BY <2>2, SMTT(30) DEF PostBegins, MyTurn, Over
  <2>3. CASE PostEnds(p)
    BY <2>3 DEF PostEnds, Over
  <2> QED
    BY <1>2, <2>1, <2>2, <2>3 DEF Goroutine
<1>3. CASE Remove
  BY <1>3 DEF Remove, Over
<1>4. CASE UNCHANGED turnVars
  BY <1>4 DEF turnVars, Over
<1> QED
  BY <1>1, <1>2, <1>3, <1>4 DEF TurnsNext

(* Every state of the turns is in order.                                     *)
LEMMA TurnsInvariance == TurnsSpec => []TurnsInv
  BY TurnsInvInit, TurnsInvStep, PTL DEF TurnsSpec

(* A goroutine past its turn has the one it waited for behind it, whatever   *)
(* was removed meanwhile.                                                    *)
THEOREM TurnsInOrder == TurnsSpec => []ChainInOrder
<1>1. TurnsInv => ChainInOrder
  BY DEF TurnsInv
<1> QED
  BY <1>1, TurnsInvariance, PTL

(* Every variable keeps its type.                                            *)
THEOREM TurnTypes == TurnsSpec => []TurnsTypeOK
<1>1. TurnsInv => TurnsTypeOK
  BY DEF TurnsInv
<1> QED
  BY <1>1, TurnsInvariance, PTL

-----------------------------------------------------------------------------
(* As long as the printer is not removed there is one chain: each post waits *)
(* for the one before it, so all earlier ones are behind a post past its     *)
(* turn.                                                                     *)
OneChain ==
    /\ relayTurn = handed
    /\ \A p \in Posts : p <= handed => prev[p] = p - 1
    /\ \A p, q \in Posts : q < p /\ at[p] \notin {"none", "waiting"} => Over(q)
    /\ \A p \in Posts : at[p] \in {"posting", "posted"} => p <= begun
    /\ begun # 0 => at[begun] \in {"posting", "posted"}

ChainUntilRemoval == removals = 0 => OneChain

(* At the start the one chain is empty.                                      *)
LEMMA ChainInit == TurnsInit => ChainUntilRemoval
  BY TurnsAssumption DEF TurnsInit, ChainUntilRemoval, OneChain, Posts, Over

(* On the one chain, whoever's turn it is has all earlier posts behind it.   *)
LEMMA EarlierOver ==
  ASSUME TurnsInv, OneChain, NEW p \in Posts, MyTurn(p), NEW q \in Posts, q < p
  PROVE  Over(q)
<1> USE TurnsAssumption DEF TurnsInv, TurnsTypeOK, Started, OneChain, Posts
<1>1. p \in 1 .. MaxPosts /\ q \in 1 .. MaxPosts /\ p <= handed /\ prev[p] = p - 1
  BY DEF MyTurn
<1>2. p - 1 \in Posts /\ Over(p - 1)
  BY <1>1 DEF MyTurn
<1>3. CASE q = p - 1
  BY <1>2, <1>3
<1>4. CASE q < p - 1
  BY <1>2, <1>4 DEF Over
<1> QED
  BY <1>1, <1>3, <1>4

(* A printer not yet removed was not removed before.                         *)
LEMMA NotYetRemoved ==
  ASSUME TurnsInv, [TurnsNext]_turnVars, removals' = 0
  PROVE  removals = 0 /\ ~Remove
<1>1. ~Remove
  BY DEF Remove, TurnsInv, TurnsTypeOK
<1>2. removals' = removals
  BY <1>1 DEF TurnsNext, HandOver, Goroutine, GiveWay, PostBegins, PostEnds, turnVars
<1> QED
  BY <1>1, <1>2

(* As long as the printer is not removed every step keeps the one chain.     *)
LEMMA ChainStep == TurnsInv /\ ChainUntilRemoval /\ [TurnsNext]_turnVars => ChainUntilRemoval'
<1> SUFFICES ASSUME TurnsInv, OneChain, [TurnsNext]_turnVars, removals' = 0, ~Remove PROVE OneChain'
  BY NotYetRemoved DEF ChainUntilRemoval
<1> USE TurnsAssumption DEF TurnsInv, TurnsTypeOK, Started, OneChain, Posts
<1>1. CASE HandOver
  <2>1. handed' \in 1 .. MaxPosts /\ handed' = handed + 1 /\ at[handed'] = "none"
    BY <1>1 DEF HandOver
  <2>2. \A p \in Posts : at'[p] = IF p = handed' THEN "waiting" ELSE at[p]
    BY <1>1, <2>1 DEF HandOver
  <2>3. \A p \in Posts : Over(p) => Over(p)'
    BY <2>1, <2>2 DEF Over
  <2>4. \A p \in Posts : prev'[p] = IF p = handed' THEN handed ELSE prev[p]
    BY <1>1, <2>1 DEF HandOver
  <2> QED
    BY <1>1, <2>1, <2>2, <2>3, <2>4 DEF HandOver
<1>2. ASSUME NEW p \in Posts, GiveWay(p) PROVE OneChain'
  <2>1. \A q \in Posts : q < p => Over(q)
    BY <1>2, EarlierOver DEF GiveWay
  <2>2. \A q \in Posts : at'[q] = IF q = p THEN "skipped" ELSE at[q]
    BY <1>2 DEF GiveWay
  <2>3. \A q \in Posts : Over(q) => Over(q)'
    BY <2>2 DEF Over
  <2> QED
    BY <1>2, <2>1, <2>2, <2>3 DEF GiveWay, MyTurn
<1>3. ASSUME NEW p \in Posts, PostBegins(p) PROVE OneChain'
  <2>1. \A q \in Posts : q < p => Over(q)
    BY <1>3, EarlierOver DEF PostBegins
  <2>2. \A q \in Posts : at'[q] = IF q = p THEN "posting" ELSE at[q]
    BY <1>3 DEF PostBegins
  <2>3. \A q \in Posts : Over(q) => Over(q)'
    BY <1>3, <2>2 DEF Over, PostBegins, MyTurn
  <2>4. \A q \in Posts : p < q => at[q] \in {"none", "waiting"}
    BY <1>3 DEF PostBegins, MyTurn, Over
  <2> QED
    BY <1>3, <2>1, <2>2, <2>3, <2>4, SMTT(30) DEF PostBegins
<1>4. ASSUME NEW p \in Posts, PostEnds(p) PROVE OneChain'
  <2>1. \A q \in Posts : at'[q] = IF q = p THEN "posted" ELSE at[q]
    BY <1>4 DEF PostEnds
  <2>2. \A q \in Posts : Over(q) => Over(q)'
    BY <2>1 DEF Over
  <2> QED
    BY <1>4, <2>1, <2>2 DEF PostEnds
<1>5. CASE UNCHANGED turnVars
  BY <1>5 DEF turnVars, Over
<1> QED
  BY <1>1, <1>2, <1>3, <1>4, <1>5 DEF TurnsNext, Goroutine

(* At most one goroutine posts.                                              *)
LEMMA OnePosts ==
  ASSUME TurnsInv, OneChain, NEW p \in Posting
  PROVE  Posting = {p}
  BY DEF OneChain, Posting, Posts, Over

(* Every step of an unremoved printer is a step of the feed or leaves it     *)
(* alone.                                                                    *)
LEMMA TurnsFeedStep ==
  TurnsInv /\ ChainUntilRemoval /\ [TurnsNext]_turnVars
    => [removals' = 0 => Feed!Next]_(Feed!feedVars)
<1> SUFFICES ASSUME TurnsInv, OneChain, [TurnsNext]_turnVars, ~Remove
             PROVE  [Feed!Next]_(Feed!feedVars)
  BY NotYetRemoved DEF ChainUntilRemoval
<1> USE TurnsAssumption DEF Feed!Next, Feed!feedVars
<1>1. CASE HandOver
  <2>1. Posting' = Posting
    BY <1>1 DEF HandOver, Posting, TurnsInv, TurnsTypeOK, Started, Posts
  <2> QED
    BY <1>1, <2>1 DEF HandOver, Feed!HandOver
<1>2. ASSUME NEW p \in Posts, GiveWay(p) PROVE [Feed!Next]_(Feed!feedVars)
  <2>1. Posting' = Posting
    BY <1>2 DEF GiveWay, MyTurn, Posting, TurnsInv, TurnsTypeOK
  <2> QED
    BY <1>2, <2>1 DEF GiveWay
<1>3. ASSUME NEW p \in Posts, PostBegins(p) PROVE [Feed!Next]_(Feed!feedVars)
  <2>0. at[p] = "waiting" /\ \A q \in Posts : q > p => at[q] \in {"none", "waiting"}
    BY <1>3 DEF PostBegins, MyTurn, OneChain, Over
  <2>1. Posting = {}
    <3> SUFFICES ASSUME NEW q \in Posts, at[q] = "posting" PROVE FALSE
      BY DEF Posting
    <3>1. CASE q < p
      BY <1>3, <3>1, EarlierOver DEF PostBegins, Over
    <3>2. CASE q > p
      BY <2>0, <3>2
    <3> QED
      BY <2>0, <3>1, <3>2 DEF Posts
  <2>2. Posting' = {p}
    BY <1>3, <2>1 DEF PostBegins, Posting, TurnsInv, TurnsTypeOK
  <2>3. (IF Posting = {} THEN 0 ELSE CHOOSE q \in Posting : TRUE)' = p
    BY <2>2
  <2>4. p \in begun + 1 .. handed
    <3>1. p <= handed /\ p \in 1 .. MaxPosts /\ begun \in 0 .. MaxPosts /\ handed \in Nat
      BY <2>0 DEF TurnsInv, TurnsTypeOK, Started, Posts
    <3>2. ~(begun >= p)
      <4> SUFFICES ASSUME begun >= p PROVE FALSE
        OBVIOUS
      <4>1. begun \in Posts /\ at[begun] \in {"posting", "posted"}
        BY <3>1 DEF OneChain, Posts
      <4> QED
        BY <2>0, <3>1, <4>1
    <3> QED
      BY <3>1, <3>2
  <2> QED
    BY <1>3, <2>1, <2>3, <2>4 DEF PostBegins, Feed!Begin
<1>4. ASSUME NEW p \in Posts, PostEnds(p) PROVE [Feed!Next]_(Feed!feedVars)
  <2>1. p \in Posting
    BY <1>4 DEF PostEnds, Posting
  <2>2. Posting = {p}
    BY <2>1, OnePosts
  <2>3. Posting' = {}
    BY <1>4, <2>2 DEF PostEnds, Posting, TurnsInv, TurnsTypeOK
  <2>4. p # 0
    BY DEF Posts
  <2> QED
    BY <1>4, <2>2, <2>3, <2>4 DEF PostEnds, Feed!End
<1>5. CASE UNCHANGED turnVars
  BY <1>5 DEF turnVars, Posting
<1> QED
  BY <1>1, <1>2, <1>3, <1>4, <1>5 DEF TurnsNext, Goroutine

(* As long as the printer is not removed its posts do not overlap and do not *)
(* go back: the turns follow the feed.                                       *)
THEOREM TurnsFollowFeed == TurnsSpec => FollowsFeed
<1>1. TurnsInit => Feed!Init
  <2> SUFFICES ASSUME TurnsInit PROVE Feed!Init
    OBVIOUS
  <2>1. Posting = {}
    BY DEF TurnsInit, Posting
  <2> QED
    BY <2>1 DEF TurnsInit, Feed!Init
<1>2. TurnsSpec => [](TurnsInv /\ ChainUntilRemoval)
  BY TurnsInvInit, TurnsInvStep, ChainInit, ChainStep, PTL DEF TurnsSpec
<1> QED
  BY <1>1, <1>2, TurnsFeedStep, PTL DEF TurnsSpec, FollowsFeed
=============================================================================
