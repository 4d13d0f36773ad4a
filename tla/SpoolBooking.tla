---------------------------- MODULE SpoolBooking ----------------------------
(***************************************************************************)
(* Booking the filament of ended prints in Spoolman (spoolman/spoolman.go, *)
(* spoolman_routes.go). Each record is booked on a goroutine of its own,   *)
(* with the address and the mapping of slots as they were when it began;   *)
(* a use may be retried, which Spoolman cannot tell from another use. One  *)
(* printer with one slot; the spool of a server is known by that server.   *)
(***************************************************************************)
EXTENDS Naturals, Sequences, FiniteSets

CONSTANTS
    Servers, NoServer,
    Uses,           \* prints that end and used filament
    Tries,          \* 1 + len(Delays)
    SpoolLogSize,   \* logSize
    MaxSettings, MaxServerMoods   \* bounds

VARIABLES
    setting,    \* config.Spoolman: [on, url, spool], spool being that of a server
    use,        \* the goroutines: [at, client, spool, try, heard]
    entries,    \* Syncer.entries: [use, status], oldest first
    mood,       \* how each server answers
    booked,     \* times each use was booked, on which spool and server
    settings, serverMoods

spoolVars == <<setting, use, entries, mood, booked, settings, serverMoods>>

NoUse == [at |-> "none", client |-> NoServer, spool |-> NoServer, try |-> 0, heard |-> "none"]

SpoolInit ==
    /\ setting = [on |-> FALSE, url |-> NoServer, spool |-> NoServer]
    /\ use = [u \in Uses |-> NoUse] /\ entries = <<>>
    /\ mood \in [Servers -> {"works"}]
    /\ booked = [u \in Uses |-> <<>>] /\ settings = 0 /\ serverMoods = 0

-----------------------------------------------------------------------------
(* The servers: external. A server that answers with an error has not booked *)
(* the use.                                                                  *)
MoodOfServer(s) ==
    /\ serverMoods < MaxServerMoods /\ serverMoods' = serverMoods + 1
    /\ \E m \in {"works", "fails", "refuses", "mute", "unreachable"} \ {mood[s]} :
         mood' = [mood EXCEPT ![s] = m]
    /\ UNCHANGED <<setting, use, entries, booked, settings>>

(* What becomes of a request, and whether the use is booked.                 *)
Results(s) ==
    CASE mood[s] = "works"       -> {[heard |-> "ok", books |-> TRUE]}
      [] mood[s] = "fails"       -> {[heard |-> "5xx", books |-> FALSE]}
      [] mood[s] = "refuses"     -> {[heard |-> "4xx", books |-> FALSE]}
      [] mood[s] = "mute"        -> [heard : {"timeout"}, books : BOOLEAN]
      [] mood[s] = "unreachable" -> {[heard |-> "dial", books |-> FALSE]}

-----------------------------------------------------------------------------
(* handleSpoolman: the mapping is merged, and forgotten with a new address.  *)
(* A dashboard names spools of the server that is set when it posts.         *)

(* Mutant: the mapping is kept whatever the address.                         *)
MappingKept(url) == setting.spool

Mapping(url) == IF url = setting.url THEN setting.spool ELSE NoServer

SaveSetting ==
    /\ settings < MaxSettings /\ settings' = settings + 1
    /\ \E on \in BOOLEAN, url \in Servers \cup {NoServer}, maps \in {"keep", "set", "clear"} :
        /\ on => url # NoServer
        /\ setting' = [on |-> on, url |-> url,
                       spool |-> CASE maps = "keep" -> Mapping(url)
                                   [] maps = "set" -> url
                                   [] maps = "clear" -> NoServer]
    /\ UNCHANGED <<use, entries, mood, booked, serverMoods>>

-----------------------------------------------------------------------------
(* syncSpoolman, Plan and syncOne.                                           *)

OnlyUses == UNCHANGED <<setting, mood, settings, serverMoods>>

AddEntry(u) ==
    LET all == Append(entries, [use |-> u, status |-> "retrying"])
    IN  entries' = IF Len(all) > SpoolLogSize THEN Tail(all) ELSE all

(* An entry that is no longer kept is not updated.                           *)
UpdateEntry(u, status) ==
    entries' = [i \in DOMAIN entries |-> IF entries[i].use = u THEN [entries[i] EXCEPT !.status = status]
                                         ELSE entries[i]]

(* A slot without a spool falls back to the tag, which the server looks up.  *)
BeginUse(u) ==
    /\ use[u] = NoUse
    /\ \E tag \in BOOLEAN :
        LET spool == IF setting.spool # NoServer THEN setting.spool
                     ELSE IF tag THEN setting.url ELSE NoServer
        IN  IF ~setting.on \/ spool = NoServer
            THEN use' = [use EXCEPT ![u].at = "over"] /\ UNCHANGED entries
            ELSE /\ use' = [use EXCEPT ![u] = [at |-> "send", client |-> setting.url, spool |-> spool,
                                               try |-> 0, heard |-> "none"]]
                 /\ AddEntry(u)
    /\ UNCHANGED booked /\ OnlyUses

SendUse(u) ==
    /\ use[u].at = "send"
    /\ \E r \in Results(use[u].client) :
        /\ use' = [use EXCEPT ![u].at = "heard", ![u].heard = r.heard]
        /\ booked' = IF r.books THEN [booked EXCEPT ![u] = Append(@, <<use[u].client, use[u].spool>>)]
                     ELSE booked
    /\ UNCHANGED entries /\ OnlyUses

(* Mutant: every failure is retried.                                         *)
RetryableAny(heard) == TRUE

(* The use certainly never arrived, or was not booked.                       *)
Retryable(heard) == heard \in {"dial", "5xx"}

HearUse(u) ==
    /\ use[u].at = "heard"
    /\ \/ /\ use[u].heard = "ok"
          /\ use' = [use EXCEPT ![u].at = "over"] /\ UpdateEntry(u, "ok")
       \/ /\ use[u].heard # "ok" /\ Retryable(use[u].heard) /\ use[u].try + 1 < Tries
          /\ use' = [use EXCEPT ![u].at = "wait", ![u].try = @ + 1] /\ UpdateEntry(u, "retrying")
       \/ /\ use[u].heard # "ok" /\ (~Retryable(use[u].heard) \/ use[u].try + 1 >= Tries)
          /\ use' = [use EXCEPT ![u].at = "over"] /\ UpdateEntry(u, "error")
    /\ UNCHANGED booked /\ OnlyUses

RetryUse(u) ==
    /\ use[u].at = "wait" /\ use' = [use EXCEPT ![u].at = "send"]
    /\ UNCHANGED <<entries, booked>> /\ OnlyUses

Booking(u) == SendUse(u) \/ HearUse(u) \/ RetryUse(u)

SpoolNext ==
    \/ SaveSetting \/ \E s \in Servers : MoodOfServer(s)
    \/ \E u \in Uses : BeginUse(u) \/ Booking(u)

SpoolSpec == SpoolInit /\ [][SpoolNext]_spoolVars

-----------------------------------------------------------------------------
(* The log shows a use as done only if it is booked, and as being tried only *)
(* while it is.                                                              *)
LogIsTrue == \A i \in DOMAIN entries :
    LET u == entries[i].use
    IN  /\ entries[i].status = "ok" => booked[u] # <<>>
        /\ entries[i].status = "retrying" => use[u].at # "over"

(* spoolman.go:288-368: a use is booked once at most and on the server that  *)
(* its spool belongs to, however often it is tried and whatever is set       *)
(* meanwhile; the log tells the truth of it.                                 *)
BookedRight ==
    /\ \A u \in Uses : /\ Len(booked[u]) <= 1
                       /\ \A i \in DOMAIN booked[u] : booked[u][i][1] = booked[u][i][2]
    /\ LogIsTrue
=============================================================================
