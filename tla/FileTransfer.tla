---------------------------- MODULE FileTransfer ----------------------------
(***************************************************************************)
(* One file to or from a Bambu printer over FTPS (ftps/): a control        *)
(* connection with commands and replies, a data connection, and a context  *)
(* whose cancel closes both from a goroutine of its own at any moment. The *)
(* printer is external, as far as the code relies on it: it says 226 only  *)
(* for a file that went over whole, but it may say so late, never, or say  *)
(* 426 instead; and it may hang or break off at any point.                 *)
(***************************************************************************)
EXTENDS Naturals

CONSTANTS MaxBytes,     \* the cap given to Download
          MaxFile       \* bound on the length of a file

ASSUME TransferAssumption == {MaxBytes, MaxFile} \subseteq Nat

VARIABLES
    ctx,        \* live, cancelled, or closed: connSet.closeAll has run
    open,       \* connections that are open
    conns,      \* connSet: connections to be closed together
    xfer,       \* the call: where it is, what it transfers and has transferred
    card        \* the printer: its file under the name, the reply on its way

transferVars == <<ctx, open, conns, xfer, card>>

Verbs == {"STOR", "RETR", "LIST"}

(* at is the next step; n what is sent or read; end how the data ended; told *)
(* the code of the reply after it; clear is Config.ClearData, which serves as a  *)
(* fallback for an A1.                                                       *)
TransferInit ==
    /\ ctx = "live" /\ open = {} /\ conns = {}
    /\ \E verb \in Verbs, length \in 1..MaxFile, fallback \in BOOLEAN :
         xfer = [verb |-> verb, length |-> length, fallback |-> fallback, clear |-> FALSE,
                 at |-> "dial", n |-> 0, end |-> "none", told |-> "none"]
    /\ \E there \in BOOLEAN, size \in 1..MaxFile :
         card = [there |-> there, size |-> IF there THEN size ELSE 0, serves |-> FALSE, reply |-> "none"]

Running == xfer.at \notin {"done", "failed", "refused", "not found"}
Goes(at) == xfer' = [xfer EXCEPT !.at = at]

(* The deferred closeAll.                                                    *)
Returns(result) == Goes(result) /\ open' = open \ conns

OnlyCaller == UNCHANGED <<ctx, card>>

-----------------------------------------------------------------------------
(* connSet.                                                                  *)

Add(c, next) ==
    \/ ctx # "closed" /\ conns' = conns \cup {c} /\ Goes(next) /\ UNCHANGED open
    \/ /\ ctx = "closed" /\ Goes("failed") /\ open' = open \ (conns \cup {c})
       /\ UNCHANGED conns

AddControl == xfer.at = "add control" /\ Add("control", "login") /\ OnlyCaller
AddData == xfer.at = "add data" /\ Add("data", "verb") /\ OnlyCaller

Cancel == Running /\ ctx = "live" /\ ctx' = "cancelled" /\ UNCHANGED <<open, conns, xfer, card>>

CloseAll ==
    /\ Running /\ ctx = "cancelled" /\ ctx' = "closed" /\ open' = open \ conns
    /\ UNCHANGED <<conns, xfer, card>>

-----------------------------------------------------------------------------
(* The steps of Upload, Download and List. Each may fail, by an error, a     *)
(* timeout or a reply that is none of those expected.                        *)
StepFails ==
    /\ xfer.at \notin {"add control", "add data", "final", "asked"} /\ Running
    /\ Returns("failed") /\ UNCHANGED conns /\ OnlyCaller

(* dialTCP, whose context may have ended already.                            *)
Dial ==
    /\ xfer.at = "dial" /\ ctx = "live" /\ Goes("add control") /\ open' = open \cup {"control"}
    /\ UNCHANGED conns /\ OnlyCaller

(* openControl: the handshake, USER, PASS, PBSZ, PROT and TYPE.              *)
Login ==
    /\ xfer.at = "login" /\ "control" \in open
    /\ \/ Goes(IF xfer.verb = "STOR" THEN "delete" ELSE "pasv") /\ UNCHANGED open
       \/ Returns("refused")
    /\ UNCHANGED conns /\ OnlyCaller

Delete ==
    /\ xfer.at = "delete" /\ "control" \in open /\ Goes("pasv")
    /\ card' = [card EXCEPT !.there = FALSE, !.size = 0]
    /\ UNCHANGED <<ctx, open, conns>>

(* openData: PASV and the dial.                                              *)
DialData ==
    /\ xfer.at = "pasv" /\ "control" \in open /\ ctx = "live"
    /\ Goes("add data") /\ open' = open \cup {"data"} /\ UNCHANGED conns /\ OnlyCaller

(* openData: the verb, and the handshake of the data connection.             *)
SendVerb ==
    /\ xfer.at = "verb" /\ {"control", "data"} \subseteq open
    /\ \/ /\ xfer.verb = "STOR" /\ Goes("copy")
          /\ card' = [there |-> TRUE, size |-> 0, serves |-> TRUE, reply |-> "none"] /\ UNCHANGED open
       \/ /\ xfer.verb # "STOR" /\ card.there /\ Goes("copy")
          /\ card' = [card EXCEPT !.serves = TRUE, !.reply = "none"] /\ UNCHANGED open
       \/ xfer.verb # "STOR" /\ ~card.there /\ Returns("not found") /\ UNCHANGED card
    /\ UNCHANGED <<ctx, conns>>

(* copyWithStall.                                                            *)
SendSome ==
    /\ xfer.verb = "STOR" /\ xfer.at = "copy" /\ "data" \in open
    /\ xfer.n < xfer.length /\ xfer' = [xfer EXCEPT !.n = @ + 1]
    /\ UNCHANGED <<ctx, open, conns, card>>

EndOfFile ==
    /\ xfer.verb = "STOR" /\ xfer.at = "copy" /\ xfer.n = xfer.length
    /\ Goes("final") /\ open' = open \ {"data"} /\ UNCHANGED conns /\ OnlyCaller

(* Upload: without a 226, SIZE decides, unless the context has ended.        *)
NextIf(code) == IF code = "226" THEN "done" ELSE IF ctx = "live" THEN "size" ELSE "failed"

(* The reply, or none within FinalWait.                                      *)
FinalReply ==
    /\ xfer.at = "final"
    /\ \E code \in {"none"} \cup IF "control" \in open THEN {card.reply} ELSE {} :
         /\ xfer' = [xfer EXCEPT !.at = NextIf(code), !.told = code]
         /\ card' = IF code = "none" THEN card ELSE [card EXCEPT !.reply = "none"]
         /\ open' = IF NextIf(code) = "size" THEN open ELSE open \ conns
    /\ UNCHANGED <<ctx, conns>>

(* control.size, which skips a reply of the upload that comes only now.      *)
AskSize ==
    /\ xfer.at = "size" /\ "control" \in open
    /\ Returns(IF card.size = xfer.length THEN "done" ELSE "failed") /\ UNCHANGED conns /\ OnlyCaller

(* Download and List read until the data ends; more than MaxBytes is refused.*)
ReadSome ==
    /\ xfer.verb # "STOR" /\ xfer.at = "copy" /\ "data" \in open
    /\ card.serves /\ xfer.n < card.size
    /\ IF xfer.verb = "RETR" /\ xfer.n + 1 > MaxBytes THEN Returns("failed")
       ELSE xfer' = [xfer EXCEPT !.n = @ + 1] /\ UNCHANGED open
    /\ UNCHANGED conns /\ OnlyCaller

(* The data ends with a close_notify, or without one: on a clear connection, *)
(* the two look alike.                                                       *)
DataEnds ==
    /\ xfer.verb # "STOR" /\ xfer.at = "copy" /\ "data" \in open
    /\ \E end \in IF xfer.clear THEN {"clean"} ELSE {"clean", "cut"} :
         xfer' = [xfer EXCEPT !.at = "asked", !.end = end]
    /\ card' = [card EXCEPT !.serves = FALSE,
                            !.reply = IF xfer.n = card.size THEN "226" ELSE "426"]
    /\ open' = open \ {"data"} /\ UNCHANGED <<ctx, conns>>

(* What was cut off needs the 226; otherwise none need come.                 *)
Accepts(code) ==
    IF xfer.end = "cut" THEN code = "226"
    ELSE xfer.verb = "RETR" => code \in {"226", "none"}

ReplyAfterData ==
    /\ xfer.at = "asked"
    /\ \E code \in {"none"} \cup IF "control" \in open THEN {card.reply} ELSE {} :
         xfer' = [xfer EXCEPT !.at = IF Accepts(code) THEN "done" ELSE "failed", !.told = code]
    /\ open' = open \ conns /\ UNCHANGED conns /\ OnlyCaller

(* useClearData: an A1 that failed is asked once more, in the clear.         *)
AgainInClear ==
    /\ xfer.at = "failed" /\ ctx = "live" /\ xfer.fallback /\ ~xfer.clear
    /\ xfer' = [xfer EXCEPT !.at = "dial", !.clear = TRUE, !.n = 0, !.end = "none", !.told = "none"]
    /\ conns' = {} /\ open' = {} /\ card' = [card EXCEPT !.serves = FALSE, !.reply = "none"]
    /\ UNCHANGED ctx

-----------------------------------------------------------------------------
(* The printer, while it takes a file.                                       *)

Stores ==
    /\ xfer.verb = "STOR" /\ card.serves /\ card.size < xfer.n
    /\ card' = [card EXCEPT !.size = @ + 1] /\ UNCHANGED <<ctx, open, conns, xfer>>

(* It is through, and says so or gives 426; or it breaks off.                *)
StoringEnds ==
    /\ xfer.verb = "STOR" /\ card.serves
    /\ \E reply \in {"226", "426"} :
         /\ reply = "226" => "data" \notin open /\ xfer.at # "copy" /\ card.size = xfer.n
         /\ card' = [card EXCEPT !.serves = FALSE, !.reply = reply]
    /\ UNCHANGED <<ctx, open, conns, xfer>>

TransferNext ==
    \/ AddControl \/ AddData \/ Cancel \/ CloseAll
    \/ StepFails \/ Dial \/ Login \/ Delete \/ DialData \/ SendVerb \/ SendSome \/ EndOfFile
    \/ FinalReply \/ AskSize \/ ReadSome \/ DataEnds \/ ReplyAfterData \/ AgainInClear
    \/ Stores \/ StoringEnds

-----------------------------------------------------------------------------
(* An upload that counts as done left the whole file on the printer, and     *)
(* nothing of what was there before, whatever the final reply was and        *)
(* whenever it came.                                                         *)
UploadedIsWhole ==
    xfer.verb = "STOR" /\ xfer.at = "done" => card.there /\ card.size = xfer.length

(* A download that counts as done is whole and within its cap, unless the    *)
(* data ended cleanly and the reply never came; so is a listing, if it was    *)
(* cut off.                                                                  *)
DownloadedIsWhole ==
    xfer.verb # "STOR" /\ xfer.at = "done" =>
      /\ xfer.verb = "RETR" => xfer.n <= MaxBytes
      /\ xfer.end = "cut" \/ (xfer.verb = "RETR" /\ xfer.told # "none") => xfer.n = card.size

(* Once a cancel has closed the connections none is open but one that was    *)
(* dialled meanwhile and goes at once; and a call that returned has none.    *)
CancelIsHonoured ==
    /\ ctx = "closed" /\ xfer.at \notin {"add control", "add data"} => open = {}
    /\ ~Running => open = {}

TransferIsRight == UploadedIsWhole /\ DownloadedIsWhole /\ CancelIsHonoured
=============================================================================
