------------------------------ MODULE Notifier ------------------------------
(***************************************************************************)
(* Notification channels (notify/, notify_routes.go): saving them, telling *)
(* them of an event, and testing one that may not be saved. A stored       *)
(* secret never leaves the Bridge for the dashboard, which posts it back   *)
(* blank: whether it is kept is decided from the rest of the form. One     *)
(* service stands for the others of its sort: discord for those whose      *)
(* address is the secret, ntfy for an address and a token, telegram for a  *)
(* token alone, email for a server and user with a password.               *)
(***************************************************************************)
EXTENDS Naturals, FiniteSets

CONSTANTS
    Channels,       \* ids
    Addresses,      \* URLs; a mail server and user
    NoticeEvents,   \* events that are published
    MaxSaves, MaxTests   \* bounds

Kinds == {"discord", "ntfy", "telegram", "email"}
Blank == "blank"
NoChannel == [kind |-> "none", to |-> Blank, secret |-> <<>>]

VARIABLES
    stored,     \* config.Notifications.Channels, by id
    told,       \* events dispatched
    sending,    \* sends on their goroutines: [of, id, ch, try]
    last,       \* notifyLast: the channel the last result is about
    once,       \* channels that were stored under an id
    sent,       \* what left the Bridge: [secret, place]
    saves, tests

notifierVars == <<stored, told, sending, last, once, sent, saves, tests>>

NotifierInit ==
    /\ stored = [id \in Channels |-> NoChannel]
    /\ told = {} /\ sending = {} /\ last = [id \in Channels |-> NoChannel]
    /\ once = [id \in Channels |-> {}] /\ sent = {} /\ saves = 0 /\ tests = 0

(* Where a channel's messages go, and what a token typed for it is for.      *)
Place(kind, to) == IF kind = "telegram" THEN <<kind>> ELSE <<kind, to>>

-----------------------------------------------------------------------------
(* fillChannel: a form is what the dashboard posts for a channel.            *)

Forms == [kind : Kinds, to : Addresses \cup {Blank}, typed : BOOLEAN, clear : BOOLEAN]

(* Mutant: the token of another address is kept.                             *)
SamePlaceAny(f, old) == f.kind = old.kind

SamePlace(f, old) ==
    /\ f.kind = old.kind
    /\ f.kind \in {"ntfy", "email"} => f.to = old.to

Fill(f, old) ==
    [kind |-> f.kind,
     to |-> IF f.to = Blank /\ f.kind = "discord" /\ old.kind = f.kind THEN old.to ELSE f.to,
     secret |-> CASE f.kind = "discord" -> <<>>
                  [] f.kind # "discord" /\ f.typed -> Place(f.kind, f.to)
                  [] f.kind # "discord" /\ ~f.typed /\ ~f.clear /\ SamePlace(f, old) -> old.secret
                  [] OTHER -> <<>>]

(* Validate: only a telegram channel needs no address, and it needs a token. *)
Valid(ch) == IF ch.kind = "telegram" THEN ch.secret # <<>> ELSE ch.to # Blank

(* applyNotifications: the posted list takes the place of the stored one. A  *)
(* page changes one channel and posts the others as it shows them, or, when  *)
(* it is stale, without them. An empty list needs confirm_clear_channels.    *)
SaveChannels ==
    /\ saves < MaxSaves /\ saves' = saves + 1
    /\ \/ \E id \in Channels, f \in Forms, others \in SUBSET Channels :
            LET Shown(c) == [kind |-> stored[c].kind, typed |-> FALSE, clear |-> FALSE,
                             to |-> IF stored[c].kind = "discord" THEN Blank ELSE stored[c].to]
                new == [c \in Channels |->
                          IF c = id THEN Fill(f, stored[id])
                          ELSE IF c \in others /\ stored[c] # NoChannel THEN Fill(Shown(c), stored[c])
                          ELSE NoChannel]
            IN  Valid(new[id]) /\ stored' = new
       \/ stored' = [id \in Channels |-> NoChannel]
    /\ once' = [id \in Channels |-> once[id] \cup {stored'[id]}]
    /\ UNCHANGED <<told, sending, last, sent, tests>>

-----------------------------------------------------------------------------
(* dispatchNotification, with the channels as they are then: those that want *)
(* the event, or none of them in quiet hours.                                *)
Dispatch(e) ==
    /\ e \notin told /\ told' = told \cup {e}
    /\ \E want \in SUBSET {id \in Channels : stored[id] # NoChannel} :
         sending' = sending \cup
           {[of |-> "event", id |-> id, ch |-> stored[id], try |-> 0] : id \in want}
    /\ UNCHANGED <<stored, last, once, sent, saves, tests>>

(* handleNotificationTest: of a stored channel, or of a form.                *)
Test(id) ==
    /\ tests < MaxTests /\ tests' = tests + 1
    /\ \/ /\ stored[id] # NoChannel
          /\ sending' = sending \cup {[of |-> "stored", id |-> id, ch |-> stored[id], try |-> 0]}
       \/ \E f \in Forms :
            /\ Valid(Fill(f, stored[id]))
            /\ sending' = sending \cup {[of |-> "form", id |-> id, ch |-> Fill(f, stored[id]), try |-> 0]}
    /\ UNCHANGED <<stored, told, last, once, sent, saves>>

(* Mutant: the result of a form that is not saved is shown for the channel.  *)
CountsForAny(s) == TRUE

(* recordNotify is for what was stored when the send began.                  *)
CountsFor(s) == s.of \in {"event", "stored"}

(* do: a service that is busy is asked once more; any other answer, or none  *)
(* in time, is the result.                                                   *)
Leaves(s) ==
    sent' = sent \cup {[secret |-> s.ch.secret, place |-> Place(s.ch.kind, s.ch.to)]}

SendAgain(s) ==
    /\ s.try = 0 /\ sending' = (sending \ {s}) \cup {[s EXCEPT !.try = 1]}
    /\ Leaves(s) /\ UNCHANGED <<stored, told, last, once, saves, tests>>

SendEnds(s) ==
    /\ sending' = sending \ {s} /\ Leaves(s)
    /\ last' = IF CountsFor(s) THEN [last EXCEPT ![s.id] = s.ch] ELSE last
    /\ UNCHANGED <<stored, told, once, saves, tests>>

NotifierNext ==
    \/ SaveChannels \/ \E e \in NoticeEvents : Dispatch(e) \/ \E id \in Channels : Test(id)
    \/ \E s \in sending : SendAgain(s) \/ SendEnds(s)

-----------------------------------------------------------------------------
(* A stored token or password is sent nowhere but to the service, server and *)
(* user that it was given for, whatever forms are saved, changed to another  *)
(* kind of channel or tested without saving, from however old a page.        *)
SecretsStayHome == \A s \in sent : s.secret # <<>> => s.secret = s.place

(* The result that the dashboard shows for a channel is of one that was      *)
(* saved under its id, never of a form that was only tried.                  *)
ResultsAreOfSaved == \A id \in Channels : last[id] \in once[id] \cup {NoChannel}
=============================================================================
