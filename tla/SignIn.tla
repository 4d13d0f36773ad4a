------------------------------- MODULE SignIn -------------------------------
(***************************************************************************)
(* The dashboard's password (security.go). Sign-ins and changes of the     *)
(* password run side by side: each works on a copy of the security block,  *)
(* counts itself as a wrong try before its slow check, and waits for one   *)
(* of the slots. A session is signed with the stored hash and key, which   *)
(* are both new with each password that is set: a number stands for them,  *)
(* and for the password. An API token is a password of its own and left    *)
(* out.                                                                    *)
(***************************************************************************)
EXTENDS Naturals, FiniteSets

CONSTANTS
    Requests,       \* POSTs of /api/auth/login and /api/security
    Callers,        \* addresses
    Slots,          \* hashSlots
    FreeTries,      \* wrong passwords before the lock
    MaxLocks        \* bound: locks that are waited out

(* The lock comes after a try.                                             *)
ASSUME TriesAssumption == FreeTries \in Nat \ {0}

NoPassword == 0

VARIABLES
    password,       \* the stored hash and key; NoPassword without
    made,           \* passwords set so far
    request,        \* [at, by, does, types, seen]
    fails, locked,  \* loginByIP
    guesses, waited,    \* checks begun, and locks waited out, since a caller last signed in
    cookies,        \* sessions given: [signed, knew]
    locks

signInVars == <<password, made, request, fails, locked, guesses, waited, cookies, locks>>

NoRequest == [at |-> "none", by |-> "none", does |-> "none", types |-> 0, seen |-> NoPassword]

SignInInit ==
    /\ password \in {NoPassword, 1} /\ made = 1
    /\ request = [r \in Requests |-> NoRequest]
    /\ fails = [c \in Callers |-> 0] /\ locked = [c \in Callers |-> FALSE]
    /\ guesses = fails /\ waited = fails
    /\ cookies = {} /\ locks = 0

-----------------------------------------------------------------------------
Moves(r, at) == request' = [request EXCEPT ![r].at = at]

(* noteLogin of a password that is right.                                    *)
Clears(c) ==
    /\ fails' = [fails EXCEPT ![c] = 0] /\ locked' = [locked EXCEPT ![c] = FALSE]
    /\ guesses' = [guesses EXCEPT ![c] = 0] /\ waited' = [waited EXCEPT ![c] = 0]

TriesKept == UNCHANGED <<fails, locked, guesses, waited>>

(* Mutant: a try is counted as wrong only once it was checked.               *)
CountsLate(c) == UNCHANGED <<fails, locked>>

(* recordFailLocked.                                                         *)
Counts(c) ==
    /\ fails' = [fails EXCEPT ![c] = @ + 1]
    /\ locked' = [locked EXCEPT ![c] = fails[c] + 1 >= FreeTries]

(* securitySnapshot and beginLogin. A lock refuses it; without a password a  *)
(* sign-in succeeds, and one may be set.                                     *)
Arrive(r, c, does, types) ==
    /\ request[r].at = "none"
    /\ LET at(a) == request' = [request EXCEPT ![r] =
                        [at |-> a, by |-> c, does |-> does, types |-> types, seen |-> password]]
       IN  \/ /\ password = NoPassword /\ (does = "login" \/ locked[c]) /\ at("over") /\ TriesKept
           \/ /\ password = NoPassword /\ does # "login" /\ ~locked[c] /\ at("save") /\ TriesKept
           \/ /\ password # NoPassword /\ locked[c] /\ at("over") /\ TriesKept
           \/ /\ password # NoPassword /\ ~locked[c] /\ at("wait") /\ Counts(c)
              /\ guesses' = [guesses EXCEPT ![c] = @ + 1] /\ UNCHANGED waited
    /\ UNCHANGED <<password, made, cookies, locks>>

LockEnds(c) ==
    /\ locked[c] /\ locks < MaxLocks /\ locks' = locks + 1
    /\ locked' = [locked EXCEPT ![c] = FALSE] /\ waited' = [waited EXCEPT ![c] = @ + 1]
    /\ UNCHANGED <<password, made, request, fails, guesses, cookies>>

(* checkPassword waits for a slot, or gives up.                              *)
TakeSlot(r) ==
    /\ request[r].at = "wait" /\ Cardinality({q \in Requests : request[q].at = "check"}) < Slots
    /\ Moves(r, "check") /\ UNCHANGED <<password, made, cookies, locks>> /\ TriesKept

Busy(r) ==
    /\ request[r].at = "wait" /\ Cardinality({q \in Requests : request[q].at = "check"}) >= Slots
    /\ Moves(r, "over") /\ UNCHANGED <<password, made, cookies, locks>> /\ TriesKept

(* Mutant: the session is signed with what is stored once it is checked.     *)
SignsNow(r) == password

(* The session is signed with the copy that the password was checked against.*)
SignsWith(r) == request[r].seen

CheckEnds(r) ==
    /\ request[r].at = "check"
    /\ LET q == request[r]
           right == q.types = q.seen
       IN  \/ /\ ~right /\ Moves(r, "over") /\ TriesKept /\ UNCHANGED cookies
           \/ /\ right /\ q.does = "login" /\ Moves(r, "over") /\ Clears(q.by)
              /\ cookies' = cookies \cup {[signed |-> SignsWith(r), knew |-> q.types]}
           \/ /\ right /\ q.does # "login" /\ Moves(r, "save") /\ TriesKept /\ UNCHANGED cookies
    /\ UNCHANGED <<password, made, locks>>

(* Under mutateConfig's lock: the hash that was checked must still be stored.*)
SavePassword(r) ==
    /\ request[r].at = "save" /\ Moves(r, "over")
    /\ LET q == request[r] IN
       IF password # q.seen
       THEN TriesKept /\ UNCHANGED <<password, made, cookies>>
       ELSE /\ Clears(q.by)
            /\ IF q.does = "remove" THEN password' = NoPassword /\ UNCHANGED <<made, cookies>>
               ELSE /\ password' = made + 1 /\ made' = made + 1
                    /\ cookies' = cookies \cup {[signed |-> made + 1, knew |-> made + 1]}
    /\ UNCHANGED locks

SignInNext ==
    \/ \E r \in Requests, c \in Callers, does \in {"login", "set", "remove"}, types \in 0..made :
         Arrive(r, c, does, types)
    \/ \E r \in Requests : TakeSlot(r) \/ Busy(r) \/ CheckEnds(r) \/ SavePassword(r)
    \/ \E c \in Callers : LockEnds(c)

(* A cookie that requireAuth lets through.                                   *)
ValidSession(k) == password # NoPassword /\ k.signed = password

-----------------------------------------------------------------------------
(* A session that is taken was given to someone who knew the password that   *)
(* is set now, however sign-ins and changes overlap (sessionMAC).            *)
SessionsKnowThePassword == \A k \in cookies :
    ValidSession(k) => k.knew = password

(* Tries that run side by side do not get past the lock: one address has no  *)
(* more checks than are free, and one for each lock that it waited out.      *)
TriesAreLimited == \A c \in Callers : guesses[c] <= FreeTries + waited[c]
=============================================================================
