---------------------------- MODULE CloudSignIn ----------------------------
(* Signing in to Bambu Cloud and asking for the account's printers:          *)
(* cloud/bambu.go and its handlers in server_cloud.go. A login, a code, a    *)
(* user lookup and a device list take a slot: one per interval for their     *)
(* endpoint, none while Cloudflare's hold lasts. The email with a code takes *)
(* none: it follows a login's answer, which comes within RequestTimeout, in  *)
(* a hold too. Requests run side by side; limitMu covers a slot, no call.    *)
(* Time is the age of each endpoint's last call, up to its interval, and     *)
(* what is left of the hold. A token's device list is named by the token.    *)
EXTENDS Naturals

CONSTANTS CloudCalls,    \* requests under way at once
          AccountTokens, NoAccount,
          JwtTokens,     \* the tokens that carry their user's name
          LoginInterval, CodeInterval, BindInterval, CloudflareHold, RequestTimeout

ASSUME SignInAssumption ==
    /\ {LoginInterval, CodeInterval, BindInterval, CloudflareHold} \subseteq Nat \ {0}
    /\ RequestTimeout \in Nat \ {0} /\ RequestTimeout < LoginInterval
    /\ JwtTokens \subseteq AccountTokens /\ NoAccount \notin AccountTokens

VARIABLES
    since,      \* lastLoginAt, lastCodeAt, lastUserAt, lastBindAt, as ages
    hold,       \* holdUntil, as what is left of it
    bind,       \* bindCache (whose list), bindToken, bindTry
    userToken,  \* the token whose user name is known
    linked,    \* configStore.BambuCloud: its token, and whether it is expired
    revoked,    \* the tokens Bambu no longer takes
    call,       \* each request: what it waits for, its token, the list it got
    quiet       \* the time since a call of each endpoint was sent, observed

cloudSignInVars == <<since, hold, bind, userToken, linked, revoked, call, quiet>>

Interval == [login |-> LoginInterval, verify |-> CodeInterval,
             user |-> CodeInterval, bind |-> BindInterval]
Paced == DOMAIN Interval
(* How far apart the calls of each endpoint are sent.                        *)
Gap == [login |-> LoginInterval, verify |-> CodeInterval, user |-> CodeInterval,
        bind |-> BindInterval, sendCode |-> LoginInterval - RequestTimeout]
Unlinked == [token |-> NoAccount, expired |-> FALSE]
NoCall == [at |-> "none", token |-> NoAccount, got |-> NoAccount]

CloudInit ==
    /\ since = Interval /\ quiet = Gap /\ hold = 0
    /\ bind = [cache |-> NoAccount, token |-> NoAccount, try |-> NoAccount]
    /\ userToken = NoAccount /\ linked = Unlinked /\ revoked = {}
    /\ call = [c \in CloudCalls |-> NoCall]

Ends(c) == call' = [call EXCEPT ![c] = NoCall]
Waits(c, at, t) == call' = [call EXCEPT ![c] = [at |-> at, token |-> t, got |-> NoAccount]]

Free(e) == hold = 0 /\ since[e] = Interval[e]
(* One call per interval, and none in a hold.                                *)
TakeSlot(e) == Free(e) /\ since' = [since EXCEPT ![e] = 0]

(* storeCloudSession: the new account replaces whatever is stored.           *)
StoreSession(t) == linked' = [token |-> t, expired |-> FALSE]

(* A call that fails; Cloudflare's page starts the hold.                     *)
Fails == hold' \in {hold, CloudflareHold}

BeginLogin(c) ==
    /\ call[c].at = "none" /\ TakeSlot("login") /\ Waits(c, "login", NoAccount)
    /\ UNCHANGED <<hold, bind, userToken, linked, revoked>>

BeginVerify(c) ==
    /\ call[c].at = "none" /\ TakeSlot("verify") /\ Waits(c, "verify", NoAccount)
    /\ UNCHANGED <<hold, bind, userToken, linked, revoked>>

(* A token is stored once its user is known: from the token itself, from the *)
(* last lookup, or from a lookup that takes a slot of its own. Without the   *)
(* slot the sign-in fails and the token is dropped.                          *)
BuildSession(c, t) ==
    /\ \/ (t \in JwtTokens \/ userToken = t) /\ StoreSession(t) /\ Ends(c) /\ UNCHANGED since
       \/ /\ ~(t \in JwtTokens \/ userToken = t) /\ UNCHANGED linked
          /\ \/ TakeSlot("user") /\ Waits(c, "user", t)
             \/ ~Free("user") /\ Ends(c) /\ UNCHANGED since
    /\ UNCHANGED <<hold, bind, userToken, revoked>>

PasteToken(c, t) == call[c].at = "none" /\ BuildSession(c, t)

(* Bambu answers a password: a token, or a failure, or it wants a code by    *)
(* email, which is asked for at once, without a slot.                        *)
HearLogin(c) ==
    /\ call[c].at = "login"
    /\ \/ \E t \in AccountTokens \ revoked : BuildSession(c, t)
       \/ /\ Waits(c, "sendCode", NoAccount)
          /\ UNCHANGED <<since, hold, bind, userToken, linked, revoked>>
       \/ Fails /\ Ends(c) /\ UNCHANGED <<since, bind, userToken, linked, revoked>>

HearCode(c) ==
    /\ call[c].at = "verify"
    /\ \/ \E t \in AccountTokens \ revoked : BuildSession(c, t)
       \/ Fails /\ Ends(c) /\ UNCHANGED <<since, bind, userToken, linked, revoked>>

CodeIsSent(c) ==
    /\ call[c].at = "sendCode" /\ Fails /\ Ends(c)
    /\ UNCHANGED <<since, bind, userToken, linked, revoked>>

HearUser(c) ==
    LET t == call[c].token IN
    /\ call[c].at = "user" /\ Ends(c)
    /\ \/ t \notin revoked /\ userToken' = t /\ StoreSession(t) /\ UNCHANGED hold
       \/ Fails /\ UNCHANGED <<userToken, linked>>
    /\ UNCHANGED <<since, bind, revoked>>

RecentUnforced(t, force) == ~force /\ bind.try = t /\ since["bind"] < BindInterval

(* The latest attempt was for this token and is younger than the interval.   *)
Recent(t, force) == bind.try = t /\ since["bind"] < BindInterval

(* The list may be answered from memory.                                     *)
Cached(t, force) == bind.token = t /\ (Recent(t, force) \/ (~force /\ bind.cache # NoAccount))

(* Devices: from memory, refused (no change; bindErr only words it), or a    *)
(* call. The slot is taken whatever the call will bring.                     *)
Devices(c, force) ==
    LET t == linked.token IN
    /\ call[c].at = "none" /\ t # NoAccount /\ ~linked.expired /\ hold = 0
    /\ \/ /\ Cached(t, force)
          /\ call' = [call EXCEPT ![c] = [at |-> "none", token |-> t, got |-> bind.cache]]
          /\ UNCHANGED <<since, bind>>
       \/ /\ ~Cached(t, force) /\ ~Recent(t, force) /\ Waits(c, "bind", t)
          /\ since' = [since EXCEPT !["bind"] = 0]
          /\ bind' = [bind EXCEPT !.try = t]
    /\ UNCHANGED <<hold, userToken, linked, revoked>>

HearDevices(c) ==
    LET t == call[c].token IN
    /\ call[c].at = "bind" /\ t \notin revoked
    /\ bind' = [bind EXCEPT !.cache = t, !.token = t]
    /\ call' = [call EXCEPT ![c] = [at |-> "none", token |-> t, got |-> t]]
    /\ UNCHANGED <<since, hold, userToken, linked, revoked>>

(* A failed list. Refused as unauthorized, cloudDevices marks the stored     *)
(* account expired: whatever account is stored by now.                       *)
DevicesFail(c) ==
    LET t == call[c].token IN
    /\ call[c].at = "bind" /\ Ends(c)
    /\ \/ Fails /\ UNCHANGED linked
       \/ /\ t \in revoked /\ UNCHANGED hold
          /\ linked' = IF linked.token = NoAccount THEN linked
                        ELSE [linked EXCEPT !.expired = TRUE]
    /\ UNCHANGED <<since, bind, userToken, revoked>>

UnlinkAccount ==
    /\ linked # Unlinked /\ linked' = Unlinked
    /\ UNCHANGED <<since, hold, bind, userToken, revoked, call>>

(* Bambu ends a token: a password change, or its age.                        *)
Revoke(t) ==
    /\ t \notin revoked /\ revoked' = revoked \cup {t}
    /\ UNCHANGED <<since, hold, bind, userToken, linked, call>>

Asks(c) ==
    \/ BeginLogin(c) \/ BeginVerify(c) \/ HearLogin(c) \/ HearCode(c)
    \/ CodeIsSent(c) \/ HearUser(c)
    \/ \E t \in AccountTokens : PasteToken(c, t)
    \/ \E force \in BOOLEAN : Devices(c, force)
    \/ HearDevices(c) \/ DevicesFail(c)

Older(age, most) == [e \in DOMAIN most |-> IF age[e] < most[e] THEN age[e] + 1 ELSE age[e]]

(* A login is answered, or given up, within RequestTimeout.                  *)
Tick ==
    /\ (\E c \in CloudCalls : call[c].at = "login") => since["login"] < RequestTimeout
    /\ since' = Older(since, Interval) /\ quiet' = Older(quiet, Gap)
    /\ hold' = IF hold = 0 THEN 0 ELSE hold - 1
    /\ UNCHANGED <<bind, userToken, linked, revoked, call>>

Sent(e) == \E c \in CloudCalls : call'[c].at = e /\ call[c].at # e

CloudNext ==
    \/ Tick
    \/ /\ (\E c \in CloudCalls : Asks(c)) \/ UnlinkAccount \/ (\E t \in AccountTokens : Revoke(t))
       /\ quiet' = [e \in DOMAIN Gap |-> IF Sent(e) THEN 0 ELSE quiet[e]]

(* The pacing rules of bambu.go:19-22 and docs/bambu-cloud.md:10-13, however *)
(* requests interleave and fail: two calls of an endpoint are its interval   *)
(* apart, and none is sent in a hold, with two exceptions. The device list   *)
(* may be asked for sooner when the account was exchanged in between. And    *)
(* the email with a code takes no slot: "every cloud call is refused" in a   *)
(* hold (bambu.go:32-34), but this one is sent if the hold began while its   *)
(* login was on its way, so in the hold's first RequestTimeout only; and two *)
(* emails are apart by no more than Gap, which is less than LoginInterval.   *)
CallsArePaced ==
    [][\A e \in DOMAIN Gap : Sent(e) =>
          /\ hold = 0 \/ (e = "sendCode" /\ hold + RequestTimeout >= CloudflareHold)
          /\ quiet[e] = Gap[e] \/ (e = "bind" /\ bind'.try # bind.try)]_cloudSignInVars

(* The printers offered for one account are never those of another, although *)
(* accounts are exchanged while a list is on its way (Devices, and           *)
(* resolveCloudPrinter, which takes a printer's access code from it).        *)
ListIsOfItsToken == \A c \in CloudCalls :
    call[c].got # NoAccount => call[c].got = call[c].token

(* expireCloudToken "marks the stored token dead after Bambu rejected it"    *)
(* (server_cloud.go:103): an account is marked expired only when Bambu        *)
(* rejected its own token.                                                   *)
ExpiredWasRejected == linked.expired => linked.token \in revoked
=============================================================================
