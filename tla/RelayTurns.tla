----------------------------- MODULE RelayTurns -----------------------------
(***************************************************************************)
(* The order in which mqtt.makeHandler posts a Bambu printer's snapshots:  *)
(* every post has a goroutine that waits for its predecessor's turn to end *)
(* and then gives way to newer posts, unless it reports the end of a print.*)
(*                                                                         *)
(* One printer. Goroutines are numbered in the order of the reports they   *)
(* were started for. A post stands for the one or two sendRelay calls.     *)
(***************************************************************************)
EXTENDS Naturals

CONSTANTS
    MaxPosts,    \* bound: posts handed over
    MaxRemovals  \* bound: calls of RemovePrinterState

ASSUME TurnsAssumption == MaxPosts \in Nat /\ MaxRemovals \in Nat

VARIABLES
    handed,    \* posts handed over so far
    begun,     \* the newest post begun
    removals,  \* removals so far
    at,        \* the place of each goroutine
    terminal,  \* does it report the end of a print (or an error)?
    mySeq,     \* its number
    prev,      \* the goroutine whose turn it waits for, 0 if none
    relaySeq,  \* relaySeq of the printer
    relayTurn  \* the goroutine of the newest turn, 0 if none

turnVars == <<handed, begun, removals, at, terminal, mySeq, prev, relaySeq, relayTurn>>

Posts == 1 .. MaxPosts

TurnsTypeOK ==
    /\ handed \in 0 .. MaxPosts /\ begun \in 0 .. MaxPosts
    /\ removals \in 0 .. MaxRemovals
    /\ at \in [Posts -> {"none", "waiting", "posting", "posted", "skipped"}]
    /\ terminal \in [Posts -> BOOLEAN]
    /\ mySeq \in [Posts -> 0 .. MaxPosts]
    /\ prev \in [Posts -> 0 .. MaxPosts]
    /\ relaySeq \in 0 .. MaxPosts /\ relayTurn \in 0 .. MaxPosts

TurnsInit ==
    /\ handed = 0 /\ begun = 0 /\ removals = 0
    /\ at = [p \in Posts |-> "none"]
    /\ terminal = [p \in Posts |-> FALSE]
    /\ mySeq = [p \in Posts |-> 0]
    /\ prev = [p \in Posts |-> 0]
    /\ relaySeq = 0 /\ relayTurn = 0

(* A report that is to be posted: its number and its turn, under             *)
(* relayOrderMu.                                                             *)
HandOver ==
    /\ handed < MaxPosts
    /\ handed' = handed + 1
    /\ at' = [at EXCEPT ![handed'] = "waiting"]
    /\ \E t \in BOOLEAN : terminal' = [terminal EXCEPT ![handed'] = t]
    /\ relaySeq' = relaySeq + 1
    /\ mySeq' = [mySeq EXCEPT ![handed'] = relaySeq']
    /\ prev' = [prev EXCEPT ![handed'] = relayTurn]
    /\ relayTurn' = handed'
    /\ UNCHANGED <<begun, removals>>

Over(p) == at[p] \in {"posted", "skipped"}

(* Mutant: a post does not wait for the one before it.                       *)
MyTurnAlways(p) == at[p] = "waiting"

(* The turn that the goroutine waits for has ended.                          *)
MyTurn(p) == at[p] = "waiting" /\ (prev[p] # 0 => Over(prev[p]))

(* Mutant: the end of a print is skipped like any other snapshot.            *)
SupersededAlways(p) == relaySeq # mySeq[p]

Superseded(p) == relaySeq # mySeq[p] /\ ~terminal[p]

GiveWay(p) ==
    /\ MyTurn(p) /\ Superseded(p)
    /\ at' = [at EXCEPT ![p] = "skipped"]
    /\ UNCHANGED <<handed, begun, removals, terminal, mySeq, prev, relaySeq, relayTurn>>

PostBegins(p) ==
    /\ MyTurn(p) /\ ~Superseded(p)
    /\ at' = [at EXCEPT ![p] = "posting"]
    /\ begun' = p
    /\ UNCHANGED <<handed, removals, terminal, mySeq, prev, relaySeq, relayTurn>>

PostEnds(p) ==
    /\ at[p] = "posting"
    /\ at' = [at EXCEPT ![p] = "posted"]
    /\ UNCHANGED <<handed, begun, removals, terminal, mySeq, prev, relaySeq, relayTurn>>

(* RemovePrinterState forgets the printer's turn and numbers.                *)
Remove ==
    /\ removals < MaxRemovals
    /\ removals' = removals + 1
    /\ relaySeq' = 0 /\ relayTurn' = 0
    /\ UNCHANGED <<handed, begun, at, terminal, mySeq, prev>>

Goroutine(p) == GiveWay(p) \/ PostBegins(p) \/ PostEnds(p)

TurnsNext == HandOver \/ (\E p \in Posts : Goroutine(p)) \/ Remove

TurnsSpec == TurnsInit /\ [][TurnsNext]_turnVars

(* A post returns: each sendRelay call has a timeout.                        *)
TurnsFairSpec == TurnsSpec /\ \A p \in Posts : WF_turnVars(Goroutine(p))

-----------------------------------------------------------------------------
Posting == {p \in Posts : at[p] = "posting"}

Feed == INSTANCE StatusFeed WITH
    busy <- IF Posting = {} THEN 0 ELSE CHOOSE p \in Posting : TRUE

(* As long as the printer has not been removed, posts happen one at a time   *)
(* and in order: "FoxTrack never sees an older snapshot after a newer one"   *)
(* (the comment on relayTurn).                                               *)
FollowsFeed == Feed!Init /\ [][removals' = 0 => Feed!Next]_(Feed!feedVars)

(* No goroutine waits for a turn that never ends, and the end of a print is  *)
(* always posted, however many newer snapshots are queued behind it and even *)
(* if the printer is removed meanwhile.                                      *)
EveryTurnEnds == <>[](\A p \in Posts :
    at[p] \in {"none", "posted"} \/ (at[p] = "skipped" /\ ~terminal[p]))

(* The turns form a chain: a goroutine past its turn has every earlier one   *)
(* of its chain behind it, whatever was removed.                             *)
ChainInOrder ==
    \A p \in Posts :
        /\ prev[p] < p
        /\ at[p] \notin {"none", "waiting"} /\ prev[p] # 0 => Over(prev[p])
=============================================================================
