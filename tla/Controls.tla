------------------------------ MODULE Controls ------------------------------
(***************************************************************************)
(* The dashboard's buttons for one printer (handleControl): the guard of a  *)
(* home command, the key each click is remembered under so that a retry of  *)
(* it does not run its command again, and a Bambu printer that is known to  *)
(* refuse commands. How a command is sent is left out; the answers of a     *)
(* Bambu printer come later, in the order of the commands.                  *)
(***************************************************************************)
EXTENDS Naturals, Sequences

CONSTANTS
    Requests,    \* requests that come in
    Clicks,      \* keys of the clicks, each of them retried any number of times
    CommandOf    \* what each click asks for: stop (or pause), home or other

ASSUME ClickAssumption == CommandOf \in [Clicks -> {"stop", "home", "other"}]

VARIABLES
    overMQTT,    \* whether the printer is a Bambu printer
    shows,       \* its stored status: settled, printing or away
    refuses,     \* whether it refuses commands: no Developer Mode
    blocked,     \* controlBlockedAt, while it counts
    replies,     \* its answers on their way: "success" or "verify failed"
    remembered,  \* controlKeys
    request,     \* each request: where it is, its click and its answer
    sent,        \* history: how often each click's command went out, 2 for more
    excused      \* history: clicks whose command may go out again

controlVars == <<overMQTT, shows, refuses, blocked, replies, remembered, request, sent, excused>>

NotCome(k) == [at |-> "none", click |-> k, answer |-> "none"]

ControlInit ==
    /\ overMQTT \in BOOLEAN /\ refuses \in {FALSE, overMQTT}
    /\ shows \in {"settled", "printing", "away"} /\ blocked = FALSE /\ replies = << >>
    /\ remembered = {} /\ sent = [k \in Clicks |-> 0] /\ excused = {}
    /\ \E click \in [Requests -> Clicks] : request = [r \in Requests |-> NotCome(click[r])]

Click(r) == request[r].click
Command(r) == CommandOf[Click(r)]
Going(r) == request[r].at \in {"run", "ran"}

To(r, at, answer) == request' = [request EXCEPT ![r].at = at, ![r].answer = answer]
OnlyPrinter == UNCHANGED <<overMQTT, remembered, request, sent, excused>>
OnlyRequest == UNCHANGED <<overMQTT, shows, refuses>>

-----------------------------------------------------------------------------
(* refuseHomeMidPrint                                                        *)
RefusesHome(r) == Command(r) = "home" /\ shows # "settled"

AskControl(r) ==
    /\ request[r].at = "none"
    /\ IF RefusesHome(r) THEN To(r, "over", "refused") ELSE To(r, "asked", "none")
    /\ UNCHANGED <<blocked, replies, remembered, sent, excused>> /\ OnlyRequest

SeenControlKey(r) ==
    /\ request[r].at = "asked"
    /\ IF Click(r) \in remembered
       THEN To(r, "over", "ok") /\ UNCHANGED excused
       ELSE /\ To(r, "run", "none")
            /\ excused' = excused \cup {Click(q) : q \in {o \in Requests \ {r} : Going(o) /\ Click(o) = Click(r)}}
    /\ UNCHANGED <<blocked, replies, remembered, sent>> /\ OnlyRequest

(* runControl: the command goes out or not, and an HTTP printer may carry it *)
(* out and not answer.                                                       *)
Blocks(r) == overMQTT /\ blocked /\ Command(r) # "stop"

RunControl(r) ==
    /\ request[r].at = "run"
    /\ \E out \in BOOLEAN, ok \in BOOLEAN :
        /\ Blocks(r) => ~out
        /\ ok => out
        /\ overMQTT /\ out => ok
        /\ To(r, IF ok THEN "ran" ELSE "over", IF ok THEN "none" ELSE IF Blocks(r) THEN "blocked" ELSE "error")
        /\ sent' = [sent EXCEPT ![Click(r)] = IF out /\ @ < 2 THEN @ + 1 ELSE @]
        /\ excused' = IF out /\ ~ok THEN excused \cup {Click(r)} ELSE excused
        /\ replies' = IF out /\ overMQTT
                      THEN Append(replies, IF refuses THEN "verify failed" ELSE "success") ELSE replies
    /\ UNCHANGED <<blocked, remembered>> /\ OnlyRequest

RememberControlKey(r) ==
    /\ request[r].at = "ran" /\ To(r, "over", "ok")
    /\ remembered' = remembered \cup {Click(r)}
    /\ UNCHANGED <<blocked, replies, sent, excused>> /\ OnlyRequest

(* Ten minutes later.                                                        *)
KeyExpires(k) ==
    /\ k \in remembered /\ remembered' = remembered \ {k} /\ excused' = excused \cup {k}
    /\ UNCHANGED <<blocked, replies, request, sent>> /\ OnlyRequest

-----------------------------------------------------------------------------
(* The printer.                                                              *)

Shows == shows' \in {"settled", "printing", "away"} \ {shows}
         /\ UNCHANGED <<refuses, blocked, replies>> /\ OnlyPrinter

(* Changing the printer's modes restarts its network, and a new session      *)
(* forgets what the last one said.                                           *)
NewSession ==
    /\ overMQTT /\ refuses' \in BOOLEAN /\ blocked' = FALSE /\ replies' = << >>
    /\ UNCHANGED shows /\ OnlyPrinter

(* NoteControlReply; an answer may also be lost.                             *)
NoteControlReply ==
    /\ replies # << >> /\ replies' = Tail(replies)
    /\ blocked' \in {blocked, Head(replies) = "verify failed"}
    /\ UNCHANGED <<shows, refuses>> /\ OnlyPrinter

BlockExpires ==
    /\ blocked /\ blocked' = FALSE
    /\ UNCHANGED <<shows, refuses, replies>> /\ OnlyPrinter

ControlNext ==
    \/ \E r \in Requests : AskControl(r) \/ SeenControlKey(r) \/ RunControl(r) \/ RememberControlKey(r)
    \/ \E k \in Clicks : KeyExpires(k)
    \/ Shows \/ NewSession \/ NoteControlReply \/ BlockExpires

-----------------------------------------------------------------------------
(* A click's command goes out again only when the first time went wrong, two *)
(* requests for it overlapped, or it was forgotten.                          *)
ClicksRunOnce == \A k \in Clicks : sent[k] > 1 => k \in excused

(* "Done" is only said of a command that went out, also to a retry, and a    *)
(* stop is never held back because of an old refusal.                        *)
AnswersAreTrue == \A r \in Requests :
    /\ request[r].answer = "ok" => sent[Click(r)] > 0
    /\ request[r].answer = "blocked" => Command(r) # "stop"

(* A printer that takes commands is not held to be one that refuses them.    *)
BlockIsFresh == blocked \/ (\E i \in 1 .. Len(replies) : replies[i] = "verify failed") => refuses

(* server.go:662-787, capability.go:22-90.                                   *)
ControlsAreRight == ClicksRunOnce /\ AnswersAreTrue /\ BlockIsFresh
=============================================================================
