---------------------------- MODULE StatusRegister ----------------------------
(***************************************************************************)
(* What status delivery promises, without saying how: FoxTrack shows, for  *)
(* each (endpoint, printer) pair, one of the payloads the bridge offered.  *)
(* Those it acknowledged move forward only, and it never shows one older   *)
(* than the newest acknowledged, unless it applies a post late, after the  *)
(* bridge gave up on it. Payloads may be left out.                         *)
(***************************************************************************)
EXTENDS Integers

CONSTANTS Keys, MaxCalls

VARIABLES
    offered,   \* payloads offered so far, numbered from 1
    shown,     \* the payload shown, 0 before the first
    promised,  \* the newest payload acknowledged
    late       \* the keys for which a post was applied late

registerVars == <<offered, shown, promised, late>>

Init ==
    /\ offered = [k \in Keys |-> 0]
    /\ shown = [k \in Keys |-> 0]
    /\ promised = [k \in Keys |-> 0]
    /\ late = {}

Offer(k) ==
    /\ offered[k] < MaxCalls
    /\ offered' = [offered EXCEPT ![k] = @ + 1]
    /\ UNCHANGED <<shown, promised, late>>

(* A newer payload is shown and acknowledged.                                *)
Acknowledge(k) ==
    /\ \E n \in promised[k] + 1 .. offered[k] :
          shown' = [shown EXCEPT ![k] = n] /\ promised' = [promised EXCEPT ![k] = n]
    /\ UNCHANGED <<offered, late>>

(* A payload is shown, and the bridge does not learn of it.                  *)
Show(k) ==
    /\ \E n \in promised[k] + 1 .. offered[k] : shown' = [shown EXCEPT ![k] = n]
    /\ UNCHANGED <<offered, promised, late>>

(* Any payload offered before, applied late.                                 *)
ShowLate(k) ==
    /\ \E n \in 1 .. offered[k] : shown' = [shown EXCEPT ![k] = n]
    /\ late' = late \cup {k}
    /\ UNCHANGED <<offered, promised>>

Next == \E k \in Keys : Offer(k) \/ Acknowledge(k) \/ Show(k) \/ ShowLate(k)

Spec == Init /\ [][Next]_registerVars
=============================================================================
