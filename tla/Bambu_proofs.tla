---------------------------- MODULE Bambu_proofs -----------------------------
(***************************************************************************)
(* Proofs about a Bambu printer: its camera, the pace of its reports, its  *)
(* print session, and the commands, transfers and skipped objects of a     *)
(* print, for any number of viewers, requests, addresses, prints and       *)
(* jobs, and any constants of the pace that are in the order of the code's.*)
(***************************************************************************)
EXTENDS MCBambuSession, FiniteSetTheorems, TLAPS

-----------------------------------------------------------------------------
(* CameraHub: the stream shared by the viewers.                             *)

Hubs == [url : Addresses \cup {NoAddress}, subs : SUBSET Viewers, stopped : BOOLEAN,
         idle : {"nil", "armed", "spent"}, firing : Nat,
         ffmpeg : {"none", "up", "pause", "over"}, fresh : BOOLEAN]
Requests == [at : {"none", "asks", "watches", "over"}, url : Addresses \cup {NoAddress},
             hub : Viewers \cup {0}]

CameraTypes ==
    /\ address \in Addresses
    /\ hub \in [Viewers -> Hubs]
    /\ viewer \in [Viewers -> Requests]
    /\ cutBy \in [Viewers -> {"nobody", "another address"}]
    /\ snapshot \in [Snapshots -> {"none", "waits", "has", "runs", "over"}]

(* A hub r that lives has its timer in step with its viewers, and one that   *)
(* stopped has none.                                                         *)
HubOK(r) ==
    /\ r.url = NoAddress => r.subs = {} /\ r.firing = 0
    /\ r.stopped => r.subs = {}
    /\ r.url # NoAddress /\ ~r.stopped =>
         /\ r.subs # {} => r.idle = "nil"
         /\ r.subs = {} => r.idle # "nil"
         /\ r.idle = "spent" => r.firing > 0

HubsOK == \A h \in Viewers : HubOK(hub[h])

(* The hub in rtspHubs is the one that lives.                                *)
CurrentLives ==
    /\ current # 0 => current \in Viewers /\ Lives(current)
    /\ \A h \in Viewers : Lives(h) => current = h

(* Viewers and hubs agree on who watches what.                               *)
FeedsOK == \A h, v \in Viewers : v \in hub[h].subs => viewer[v].at = "watches" /\ viewer[v].hub = h

ViewersOK == \A v \in Viewers :
    /\ viewer[v].at \in {"none", "asks"} => hub[v].url = NoAddress /\ cutBy[v] = "nobody"
    /\ viewer[v].at = "asks" => viewer[v].url \in Addresses
    /\ viewer[v].at = "watches" =>
         /\ viewer[v].hub \in Viewers /\ hub[viewer[v].hub].url # NoAddress
         /\ v \in hub[viewer[v].hub].subs <=> cutBy[v] = "nobody"

OneTurn == \A s, t \in Snapshots :
    snapshot[s] \in {"has", "runs"} /\ snapshot[t] \in {"has", "runs"} => s = t

Streams == HubsOK /\ CurrentLives /\ FeedsOK /\ ViewersOK

CameraInv == CameraTypes /\ Streams /\ OneTurn

-----------------------------------------------------------------------------
(* Before the first viewer there is no hub, and nobody has a feed.           *)
THEOREM CameraInitOK == CameraInit => CameraInv
BY CameraAssumption DEF CameraInit, CameraInv, CameraTypes, Streams, HubsOK, HubOK, CurrentLives, Lives, FeedsOK,
       ViewersOK, OneTurn, NoHub, NotAsked, Hubs, Requests

(* A step of hub h that touches neither its viewers nor its life.            *)
LEMMA ViewerStep ==
    ASSUME CameraInv, NEW h \in Viewers, NEW r \in Hubs, HubOK(r),
           r.url = hub[h].url, r.subs = hub[h].subs, r.stopped = hub[h].stopped,
           hub' = [hub EXCEPT ![h] = r],
           UNCHANGED <<current, viewer, cutBy>>, OnlyHub
    PROVE  CameraInv'
<1>1. CameraTypes' BY DEF CameraInv, CameraTypes, OnlyHub
<1>2. \A i \in Viewers : /\ hub'[i].url = hub[i].url /\ hub'[i].subs = hub[i].subs
                         /\ hub'[i].stopped = hub[i].stopped
  BY DEF CameraInv, CameraTypes
<1>3. HubsOK' BY DEF CameraInv, CameraTypes, Streams, HubsOK
<1>4. CurrentLives' BY <1>2 DEF CameraInv, Streams, CurrentLives, Lives
<1>6. FeedsOK' /\ ViewersOK' BY <1>2 DEF CameraInv, Streams, FeedsOK, ViewersOK
<1>5. OneTurn' BY DEF CameraInv, OneTurn, OnlyHub
<1> QED BY <1>1, <1>3, <1>4, <1>5, <1>6 DEF CameraInv, Streams

(* The pictures are nobody's business but theirs.                            *)
LEMMA SnapshotStep ==
    ASSUME CameraInv, NEW s \in Snapshots, NEW to \in {"waits", "has", "runs", "over"},
           to \in {"has", "runs"} => snapshot[s] = "has" \/ ~Taken,
           SnapshotTo(s, to), OnlySnapshot
    PROVE  CameraInv'
<1>1. CameraTypes' /\ Streams'
  BY DEF CameraInv, CameraTypes, Streams, HubsOK, CurrentLives, Lives, FeedsOK, ViewersOK, SnapshotTo, OnlySnapshot
<1>2. OneTurn' BY DEF CameraInv, CameraTypes, OneTurn, Taken, SnapshotTo
<1> QED BY <1>1, <1>2 DEF CameraInv

-----------------------------------------------------------------------------
(* Whoever comes, goes or fires, in whatever order they get rtspMu.          *)
LEMMA CameraStepOK == CameraInv /\ [CameraNext]_hubVars => CameraInv'
<1> SUFFICES ASSUME CameraInv, [CameraNext]_hubVars PROVE CameraInv'
  OBVIOUS
<1>t. CameraTypes /\ Streams /\ OneTurn BY DEF CameraInv
<1>1. CASE AddressChanges
  BY <1>1, <1>t DEF AddressChanges, CameraInv, CameraTypes, Streams, HubsOK, CurrentLives, Lives, FeedsOK, ViewersOK, OneTurn
<1>2. ASSUME NEW v \in Viewers, AskStream(v) PROVE CameraInv'
  <2>1. CameraTypes' /\ viewer' = [viewer EXCEPT ![v] = [@ EXCEPT !.at = "asks", !.url = address]]
    BY <1>2, <1>t DEF AskStream, CameraTypes, Requests
  <2>2. /\ viewer[v].at = "none" /\ viewer'[v].at = "asks" /\ viewer'[v].url \in Addresses
        /\ \A x \in Viewers \ {v} : viewer'[x] = viewer[x]
        /\ UNCHANGED <<hub, cutBy>>
    <3>1. viewer[v] \in Requests /\ address \in Addresses BY <1>t DEF CameraTypes
    <3>3. viewer'[v] = [viewer[v] EXCEPT !.at = "asks", !.url = address] BY <2>1, <1>t DEF CameraTypes
    <3>4. \A x \in Viewers \ {v} : viewer'[x] = viewer[x] BY <2>1, <1>t DEF CameraTypes
    <3>5. viewer'[v].at = "asks" /\ viewer'[v].url = address BY <3>1, <3>3 DEF Requests
    <3> QED BY <1>2, <3>1, <3>4, <3>5 DEF AskStream
  <2>3. FeedsOK'
    <3>1. \A h \in Viewers : v \notin hub[h].subs BY <2>2, <1>t DEF Streams, FeedsOK
    <3> QED BY <2>2, <3>1, <1>t DEF Streams, FeedsOK
  <2>4. ViewersOK' BY <2>2, <1>t DEF Streams, ViewersOK
  <2> QED BY <1>2, <1>t, <2>1, <2>3, <2>4 DEF AskStream, CameraInv, Streams, HubsOK, CurrentLives, Lives, OneTurn
<1>3. ASSUME NEW v \in Viewers, JoinStream(v) PROVE CameraInv'
  <2> DEFINE u == viewer[v].url
             r == [NoHub EXCEPT !.url = u, !.ffmpeg = "pause"]
  <2>0. /\ viewer[v].at = "asks" /\ u \in Addresses /\ u # NoAddress
        /\ hub[v].url = NoAddress /\ cutBy[v] = "nobody"
        /\ \A h \in Viewers : v \notin hub[h].subs
        /\ UNCHANGED <<address, snapshot, addresses>>
    <3>1. viewer[v].at = "asks" /\ UNCHANGED <<address, snapshot, addresses>>
      BY <1>3 DEF JoinStream
    <3> QED BY <3>1, <1>t, CameraAssumption DEF Streams, FeedsOK, ViewersOK
  <2>1. CASE /\ current # 0 /\ hub[current].url = u
             /\ Join(hub, current, v) /\ UNCHANGED cutBy
    <3> DEFINE g == [hub[current] EXCEPT !.subs = @ \cup {v}, !.idle = "nil"]
               w == [viewer[v] EXCEPT !.at = "watches", !.hub = current]
    <3>1. /\ current \in Viewers /\ current # v
          /\ hub[current].url # NoAddress /\ ~hub[current].stopped
      BY <2>0, <2>1, <1>t DEF Streams, CurrentLives, Lives
    <3>2. hub' = [hub EXCEPT ![current] = g] /\ viewer' = [viewer EXCEPT ![v] = w] /\ current' = current
      BY <2>1 DEF Join
    <3>3. /\ g \in Hubs /\ HubOK(g) /\ g.subs = hub[current].subs \cup {v}
          /\ g.url = hub[current].url /\ g.stopped = hub[current].stopped
      BY <3>1, <1>t DEF CameraTypes, Hubs, HubOK
    <3>4. w \in Requests /\ w.at = "watches" /\ w.hub = current
      BY <3>1, <1>t DEF CameraTypes, Requests
    <3> HIDE DEF g, w
    <3>5. CameraTypes' BY <2>0, <2>1, <3>2, <3>3, <3>4, <1>t DEF CameraTypes
    <3>6. HubsOK' /\ CurrentLives'
      BY <3>1, <3>2, <3>3, <1>t DEF CameraTypes, Streams, HubsOK, CurrentLives, Lives
    <3>9. /\ \A h \in Viewers : hub'[h].subs = IF h = current THEN hub[h].subs \cup {v} ELSE hub[h].subs
          /\ \A h \in Viewers : hub'[h].url = hub[h].url
          /\ \A x \in Viewers : viewer'[x] = IF x = v THEN w ELSE viewer[x]
      BY <3>1, <3>2, <3>3, <1>t DEF CameraTypes
    <3>7. FeedsOK'
      <4> SUFFICES ASSUME NEW h \in Viewers, NEW x \in Viewers, x \in hub'[h].subs
                   PROVE  viewer'[x].at = "watches" /\ viewer'[x].hub = h
        BY DEF FeedsOK
      <4>1. CASE x = v BY <2>0, <3>4, <3>9, <4>1
      <4>2. CASE x # v
        <5>1. x \in hub[h].subs BY <3>9, <4>2
        <5> QED BY <3>9, <4>2, <5>1, <1>t DEF Streams, FeedsOK
      <4> QED BY <4>1, <4>2
    <3>8. ViewersOK'
      <4> SUFFICES ASSUME NEW x \in Viewers
                   PROVE  /\ viewer'[x].at \in {"none", "asks"} => hub'[x].url = NoAddress /\ cutBy'[x] = "nobody"
                          /\ viewer'[x].at = "asks" => viewer'[x].url \in Addresses
                          /\ viewer'[x].at = "watches" =>
                               /\ viewer'[x].hub \in Viewers /\ hub'[viewer'[x].hub].url # NoAddress
                               /\ x \in hub'[viewer'[x].hub].subs <=> cutBy'[x] = "nobody"
        BY DEF ViewersOK
      <4>0. cutBy' = cutBy BY <2>1
      <4>1. CASE x = v BY <2>0, <3>1, <3>4, <3>9, <4>0, <4>1
      <4>2. CASE x # v
        <5>1. viewer'[x] = viewer[x] BY <3>9, <4>2
        <5>2. \A h \in Viewers : x \in hub'[h].subs <=> x \in hub[h].subs BY <3>9, <4>2
        <5> QED BY <3>9, <4>0, <5>1, <5>2, <1>t DEF Streams, ViewersOK
      <4> QED BY <4>1, <4>2
    <3> QED BY <2>0, <3>5, <3>6, <3>7, <3>8, <1>t DEF CameraInv, Streams, OneTurn
  <2>2. CASE /\ ~(current # 0 /\ hub[current].url = u)
             /\ Join([h \in Viewers |-> IF h = v THEN r
                                        ELSE IF h = current THEN Stopped(hub[h]) ELSE hub[h]], v, v)
             /\ Cut(current, "another address")
    <3> DEFINE g == [r EXCEPT !.subs = {v}, !.idle = "nil"]
               w == [viewer[v] EXCEPT !.at = "watches", !.hub = v]
    <3>1. current # v /\ (current # 0 => current \in Viewers /\ hub[current].url # NoAddress)
      BY <2>0, <1>t, CameraAssumption DEF Streams, CurrentLives, Lives
    <3>2. /\ hub' \in [Viewers -> Hubs]
          /\ hub'[v] = g
          /\ \A h \in Viewers \ {v, current} : hub'[h] = hub[h]
          /\ current # 0 => hub'[current] = Stopped(hub[current])
      <4>1. r.subs \cup {v} = {v} BY DEF NoHub
      <4>2. g \in Hubs BY <2>0 DEF Hubs, NoHub
      <4>3. ASSUME NEW h \in Viewers PROVE Stopped(hub[h]) \in Hubs
        <5>1. hub[h] \in Hubs BY <1>t DEF CameraTypes
        <5> QED BY <5>1 DEF Hubs, Stopped
      <4>4. hub' = [h \in Viewers |-> IF h = v THEN g
                                      ELSE IF h = current THEN Stopped(hub[h]) ELSE hub[h]]
        <5> DEFINE k == [h \in Viewers |-> IF h = v THEN r
                                           ELSE IF h = current THEN Stopped(hub[h]) ELSE hub[h]]
        <5>1. hub' = [k EXCEPT ![v].subs = @ \cup {v}, ![v].idle = "nil"] BY <2>2 DEF Join
        <5>2. k[v] = r OBVIOUS
        <5>3. hub' = [k EXCEPT ![v] = [[r EXCEPT !.subs = r.subs \cup {v}] EXCEPT !.idle = "nil"]]
          <6> HIDE DEF r, k
          <6> QED BY <5>1, <5>2
        <5>4. hub' = [k EXCEPT ![v] = g] BY <5>3, <4>1 DEF NoHub
        <5> HIDE DEF r, g
        <5> QED BY <5>4
      <4> HIDE DEF g, r
      <4> QED BY <3>1, <4>2, <4>3, <4>4, <1>t DEF CameraTypes
    <3>3. /\ g.url = u /\ g.subs = {v} /\ ~g.stopped /\ HubOK(g)
      BY <2>0 DEF NoHub, HubOK
    <3>4. current # 0 => /\ hub'[current].url # NoAddress /\ hub'[current].stopped
                         /\ hub'[current].subs = {} /\ HubOK(hub'[current])
      <4>1. current # 0 => hub[current] \in Hubs BY <3>1, <1>t DEF CameraTypes
      <4> HIDE DEF g
      <4> QED BY <3>1, <3>2, <4>1 DEF Stopped, Hubs, HubOK
    <3>5. viewer' = [viewer EXCEPT ![v] = w] /\ current' = v
      BY <2>2 DEF Join
    <3>6. w \in Requests /\ w.at = "watches" /\ w.hub = v
      BY <1>t DEF CameraTypes, Requests
    <3> HIDE DEF g, w, r
    <3>7. /\ cutBy' \in [Viewers -> {"nobody", "another address"}]
          /\ \A x \in Viewers : current # 0 /\ x \in hub[current].subs => cutBy'[x] = "another address"
          /\ \A x \in Viewers : ~(current # 0 /\ x \in hub[current].subs) => cutBy'[x] = cutBy[x]
      BY <2>2, <1>t DEF Cut, CameraTypes
    <3>8. CameraTypes' BY <2>0, <3>2, <3>5, <3>6, <3>7, <1>t DEF CameraTypes
    <3>9. HubsOK' /\ CurrentLives'
      <4>1. \A h \in Viewers \ {v, current} : ~Lives(h) BY <1>t DEF Streams, CurrentLives
      <4> QED BY <2>0, <3>1, <3>2, <3>3, <3>4, <3>5, <4>1, <1>t, CameraAssumption
              DEF Streams, HubsOK, CurrentLives, Lives
    <3>10. FeedsOK'
      <4>1. \A x \in Viewers : viewer'[x] = IF x = v THEN w ELSE viewer[x] BY <3>5, <1>t DEF CameraTypes
      <4>2. \A h \in Viewers \ {v} : hub'[h].subs = {} \/ hub'[h].subs = hub[h].subs
        BY <3>1, <3>2, <3>4, CameraAssumption
      <4>3. hub'[v].subs = {v} BY <3>2, <3>3
      <4> QED BY <2>0, <3>6, <4>1, <4>2, <4>3, <1>t DEF Streams, FeedsOK
    <3>11. ViewersOK'
      <4>1. ASSUME NEW x \in Viewers, x # v
            PROVE  /\ viewer[x].at \in {"none", "asks"} => hub'[x].url = NoAddress /\ cutBy'[x] = "nobody"
                   /\ viewer[x].at = "watches" =>
                        /\ hub'[viewer[x].hub].url # NoAddress
                        /\ x \in hub'[viewer[x].hub].subs <=> cutBy'[x] = "nobody"
        <5>1. CASE viewer[x].at \in {"none", "asks"}
          <6>1. x # current BY <3>1, <4>1, <5>1, <1>t, CameraAssumption DEF Streams, ViewersOK
          <6>2. ~(current # 0 /\ x \in hub[current].subs)
            BY <3>1, <5>1, <1>t DEF Streams, FeedsOK
          <6> QED BY <3>2, <3>7, <4>1, <5>1, <6>1, <6>2, <1>t DEF Streams, ViewersOK
        <5>2. CASE viewer[x].at = "watches"
          <6>1. viewer[x].hub \in Viewers /\ viewer[x].hub # v /\ hub[viewer[x].hub].url # NoAddress
                /\ (x \in hub[viewer[x].hub].subs <=> cutBy[x] = "nobody")
            BY <2>0, <5>2, <1>t DEF Streams, ViewersOK
          <6>2. CASE viewer[x].hub = current
            BY <3>4, <3>7, <5>2, <6>1, <6>2, <1>t, CameraAssumption DEF CameraTypes
          <6>3. CASE viewer[x].hub # current
            <7>1. ~(current # 0 /\ x \in hub[current].subs)
              BY <3>1, <6>3, <1>t DEF Streams, FeedsOK
            <7> QED BY <3>2, <3>7, <5>2, <6>1, <6>3, <7>1
          <6> QED BY <6>2, <6>3
        <5> QED BY <5>1, <5>2
      <4>2. \A x \in Viewers \ {v} : viewer'[x] = viewer[x] BY <3>5, <1>t DEF CameraTypes
      <4>3. viewer'[v] = w BY <3>5, <1>t DEF CameraTypes
      <4>4. cutBy'[v] = "nobody" BY <2>0, <3>1, <3>7
      <4> QED BY <2>0, <3>2, <3>3, <3>6, <4>1, <4>2, <4>3, <4>4, <1>t DEF Streams, ViewersOK
    <3> QED BY <2>0, <3>8, <3>9, <3>10, <3>11, <1>t DEF CameraInv, Streams, OneTurn
  <2> QED BY <1>3, <2>1, <2>2 DEF JoinStream
<1>4. ASSUME NEW v \in Viewers, EndStream(v) PROVE CameraInv'
  <2> DEFINE h == viewer[v].hub
             rest == hub[h].subs \ {v}
             g == [hub[h] EXCEPT !.subs = rest,
                                 !.idle = IF rest = {} /\ hub[h].idle = "nil" THEN "armed" ELSE hub[h].idle]
             w == [viewer[v] EXCEPT !.at = "over"]
  <2>0. /\ viewer[v].at = "watches" /\ h \in Viewers /\ hub[h].url # NoAddress
        /\ viewer' = [viewer EXCEPT ![v] = w]
        /\ w \in Requests /\ w.at = "over"
        /\ UNCHANGED <<address, current, snapshot, cutBy, addresses>>
    BY <1>4, <1>t, ZenonT(60) DEF EndStream, Streams, ViewersOK, CameraTypes, Requests
  <2>1. /\ hub' \in [Viewers -> Hubs] /\ \A i \in Viewers \ {h} : hub'[i] = hub[i]
        /\ hub'[h].url = hub[h].url /\ hub'[h].stopped = hub[h].stopped
        /\ hub'[h].subs = hub[h].subs \ {v} /\ HubOK(hub'[h])
    <3>1. CASE hub[h].stopped /\ UNCHANGED hub
      BY <2>0, <3>1, <1>t DEF Streams, CameraTypes, HubsOK, HubOK
    <3>2. CASE ~hub[h].stopped /\ hub' = [hub EXCEPT ![h] = g]
      <4>1. /\ g \in Hubs /\ g.url = hub[h].url /\ g.stopped = hub[h].stopped
            /\ g.subs = rest /\ HubOK(g)
        BY <2>0, <3>2, <1>t, ZenonT(60) DEF Streams, HubsOK, HubOK, CameraTypes, Hubs
      <4> HIDE DEF g
      <4> QED BY <2>0, <3>2, <4>1, <1>t DEF CameraTypes
    <3> QED BY <1>4, <3>1, <3>2 DEF EndStream, Leave
  <2> HIDE DEF g, w, h, rest
  <2>2. CameraTypes' BY <2>0, <2>1, <1>t DEF CameraTypes
  <2>3. HubsOK' /\ CurrentLives'
    BY <2>0, <2>1, <1>t DEF Streams, HubsOK, CurrentLives, Lives
  <2>4. FeedsOK'
    <3>1. \A i \in Viewers : v \notin hub'[i].subs BY <2>0, <2>1, <1>t DEF Streams, FeedsOK, h
    <3>2. \A i \in Viewers : hub'[i].subs \subseteq hub[i].subs \ {v} BY <2>1, <3>1
    <3>3. \A x \in Viewers \ {v} : viewer'[x] = viewer[x] BY <2>0, <1>t DEF CameraTypes
    <3> QED BY <3>2, <3>3, <1>t DEF Streams, FeedsOK
  <2>5. ViewersOK'
    <3>1. \A x \in Viewers \ {v} : viewer'[x] = viewer[x] BY <2>0, <1>t DEF CameraTypes
    <3>2. viewer'[v].at = "over" BY <2>0, <1>t DEF CameraTypes
    <3>4. \A x \in Viewers \ {v}, i \in Viewers :
            x \in hub'[i].subs <=> x \in hub[i].subs BY <2>1
    <3>5. \A i \in Viewers : hub'[i].url = hub[i].url BY <2>1
    <3> QED BY <2>0, <3>1, <3>2, <3>4, <3>5, <1>t DEF Streams, ViewersOK
  <2> QED BY <2>0, <2>2, <2>3, <2>4, <2>5, <1>t DEF CameraInv, Streams, OneTurn
<1>5. ASSUME NEW h \in Viewers, IdleFires(h) PROVE CameraInv'
  <2> DEFINE g == [hub[h] EXCEPT !.idle = "spent", !.firing = @ + 1]
  <2>0. hub[h] \in Hubs /\ HubOK(hub[h]) BY <1>t DEF CameraTypes, Streams, HubsOK
  <2>1. PICK n \in Nat : n = hub[h].firing + 1 /\ n > 0 BY <2>0 DEF Hubs
  <2>2. g = [hub[h] EXCEPT !.idle = "spent", !.firing = n] BY <2>0, <2>1 DEF Hubs
  <2>3. hub' = [hub EXCEPT ![h] = g] BY <1>5 DEF IdleFires
  <2> HIDE DEF g
  <2>4. g \in Hubs BY <2>0, <2>1, <2>2 DEF Hubs
  <2>5. HubOK(g) /\ g.url = hub[h].url /\ g.subs = hub[h].subs /\ g.stopped = hub[h].stopped
    BY <1>5, <2>0, <2>1, <2>2 DEF Hubs, HubOK, IdleFires, Lives
  <2> QED BY <1>5, <2>3, <2>4, <2>5, ViewerStep DEF IdleFires
<1>6. ASSUME NEW h \in Viewers, IdleStop(h) PROVE CameraInv'
  <2> DEFINE d == [hub[h] EXCEPT !.firing = @ - 1]
  <2>0. hub[h] \in Hubs /\ HubOK(hub[h]) /\ hub[h].firing > 0 /\ hub[h].url # NoAddress
    <3>1. hub[h] \in Hubs /\ HubOK(hub[h]) /\ hub[h].firing > 0
      BY <1>6, <1>t DEF IdleStop, CameraTypes, Streams, HubsOK
    <3> QED BY <3>1 DEF HubOK
  <2>1. PICK n \in Nat : n = hub[h].firing - 1 BY <2>0 DEF Hubs
  <2>2. d = [hub[h] EXCEPT !.firing = n] BY <2>0, <2>1 DEF Hubs
  <2>3. /\ d \in Hubs /\ d.url = hub[h].url /\ d.subs = hub[h].subs
        /\ d.stopped = hub[h].stopped /\ d.idle = hub[h].idle
    <3> HIDE DEF d
    <3> QED BY <2>0, <2>1, <2>2 DEF Hubs
  <2>4. Disarmed(h) = [hub EXCEPT ![h] = d] BY DEF Disarmed
  <2> HIDE DEF d
  <2>5. CASE /\ hub[h].stopped \/ hub[h].subs # {}
             /\ hub' = Disarmed(h) /\ UNCHANGED <<current, cutBy>>
    <3>1. HubOK(d) BY <2>0, <2>3, <2>5 DEF HubOK
    <3> QED BY <1>6, <2>3, <2>4, <2>5, <3>1, ViewerStep DEF IdleStop
  <2>6. CASE ~hub[h].stopped /\ hub[h].subs = {} /\ StopHub(h)
    <3>0. current = h /\ h # 0
      BY <2>0, <2>6, <1>t, CameraAssumption DEF Streams, CurrentLives, Lives
    <3>1. cutBy' = cutBy BY <2>6, <1>t DEF StopHub, Cut, CameraTypes
    <3>2. hub' = [hub EXCEPT ![h] = Stopped(d)] /\ current' = 0
      BY <2>4, <2>6, <3>0, <1>t DEF StopHub, CameraTypes
    <3>3. /\ Stopped(d) \in Hubs /\ Stopped(d).url # NoAddress /\ Stopped(d).stopped
          /\ Stopped(d).subs = {} /\ HubOK(Stopped(d))
      BY <2>0, <2>3 DEF Stopped, Hubs, HubOK
    <3>4. UNCHANGED viewer /\ OnlyHub BY <1>6 DEF IdleStop
    <3>5. CameraTypes' BY <3>1, <3>2, <3>3, <3>4, <1>t DEF CameraTypes, OnlyHub
    <3>6. HubsOK' /\ CurrentLives'
      BY <3>0, <3>2, <3>3, <1>t DEF CameraTypes, Streams, HubsOK, CurrentLives, Lives
    <3>7. \A i \in Viewers : /\ hub'[i].subs = hub[i].subs
                             /\ hub[i].url = NoAddress <=> hub'[i].url = NoAddress
      BY <2>0, <2>6, <3>2, <3>3, <1>t DEF CameraTypes
    <3>8. FeedsOK' /\ ViewersOK'
      BY <3>1, <3>4, <3>7, <1>t DEF Streams, FeedsOK, ViewersOK
    <3> QED BY <3>4, <3>5, <3>6, <3>8, <1>t DEF CameraInv, Streams, OneTurn, OnlyHub
  <2> QED BY <1>6, <2>5, <2>6 DEF IdleStop
<1>7. ASSUME NEW h \in Viewers, FfmpegStarts(h) \/ FfmpegEnds(h) PROVE CameraInv'
  <2>0. hub[h] \in Hubs /\ HubOK(hub[h]) BY <1>t DEF CameraTypes, Streams, HubsOK
  <2>1. PICK f \in {"up", "pause", "over"} : hub' = [hub EXCEPT ![h] = [@ EXCEPT !.ffmpeg = f]]
    BY <1>7 DEF FfmpegStarts, FfmpegEnds
  <2> DEFINE g == [hub[h] EXCEPT !.ffmpeg = f]
  <2>2. /\ g \in Hubs /\ HubOK(g) /\ g.url = hub[h].url /\ g.subs = hub[h].subs
        /\ g.stopped = hub[h].stopped /\ hub' = [hub EXCEPT ![h] = g]
    BY <2>0, <2>1 DEF Hubs, HubOK
  <2> HIDE DEF g
  <2> QED BY <1>7, <2>2, ViewerStep DEF FfmpegStarts, FfmpegEnds
<1>8. ASSUME NEW h \in Viewers, Publish(h) \/ PictureAges(h) PROVE CameraInv'
  <2>0. hub[h] \in Hubs /\ HubOK(hub[h]) BY <1>t DEF CameraTypes, Streams, HubsOK
  <2>1. PICK f \in BOOLEAN : hub' = [hub EXCEPT ![h] = [@ EXCEPT !.fresh = f]]
    BY <1>8 DEF Publish, PictureAges
  <2> DEFINE g == [hub[h] EXCEPT !.fresh = f]
  <2>2. /\ g \in Hubs /\ HubOK(g) /\ g.url = hub[h].url /\ g.subs = hub[h].subs
        /\ g.stopped = hub[h].stopped /\ hub' = [hub EXCEPT ![h] = g]
    BY <2>0, <2>1 DEF Hubs, HubOK
  <2> HIDE DEF g
  <2> QED BY <1>8, <2>2, ViewerStep DEF Publish, PictureAges
<1>9. ASSUME NEW s \in Snapshots, AskSnapshot(s) \/ TakeTurn(s) \/ RunSnapshot(s) \/ EndSnapshot(s)
      PROVE  CameraInv'
  <2>1. \E to \in {"waits", "has", "runs", "over"} :
          /\ to \in {"has", "runs"} => snapshot[s] = "has" \/ ~Taken
          /\ SnapshotTo(s, to) /\ OnlySnapshot
    BY <1>9 DEF AskSnapshot, TakeTurn, RunSnapshot, EndSnapshot, SnapshotTo
  <2> QED BY <2>1, SnapshotStep
<1>10. CASE UNCHANGED hubVars
  BY <1>10, <1>t DEF hubVars, CameraInv, CameraTypes, Streams, HubsOK, CurrentLives, Lives, FeedsOK, ViewersOK, OneTurn
<1> QED BY <1>1, <1>2, <1>3, <1>4, <1>5, <1>6, <1>7, <1>8, <1>9, <1>10 DEF CameraNext

(* However many browsers come, go and come back, nobody's stream is stopped  *)
(* but for another address, there is one ffmpeg for all of them, which ends  *)
(* when nobody is left, and one for the pictures.                            *)
THEOREM CameraStaysShared == CameraSpec => []CameraIsShared
<1>1. CameraSpec => []CameraInv BY CameraInitOK, CameraStepOK, PTL DEF CameraSpec
<1>2. CameraInv => CameraIsShared
  <2> SUFFICES ASSUME CameraInv PROVE CameraIsShared OBVIOUS
  <2>1. ViewersAreKept BY DEF CameraInv, CameraTypes, Streams, ViewersOK, ViewersAreKept
  <2>2. OneStream
    BY DEF CameraInv, CameraTypes, Hubs, Streams, HubsOK, HubOK, CurrentLives, Lives, OneStream
  <2>3. OneSnapshot BY DEF CameraInv, OneTurn, OneSnapshot
  <2> QED BY <2>1, <2>2, <2>3 DEF CameraIsShared
<1> QED BY <1>1, <1>2, PTL

-----------------------------------------------------------------------------
(* Pacing: how soon FoxTrack hears of a printer.                            *)

PaceTypes ==
    /\ tells \in BOOLEAN /\ someone \in BOOLEAN
    /\ pace \in [known : BOOLEAN, quick : Nat] /\ pollIn \in Nat
    /\ quiet \in {0, 1, NotWatched}
    /\ device \in [up : BOOLEAN, reported : BOOLEAN, back : BOOLEAN]
    /\ relay \in [since : Nat, held : BOOLEAN]
    /\ behind \in [yes : BOOLEAN, for : Nat]

(* A printer that has reported is no longer coming back, and FoxTrack has    *)
(* just heard of it.                                                         *)
ReportedOK == device.up /\ device.reported => ~device.back /\ relay.since < HeartbeatSec

(* What FoxTrack lacks is held back for no longer than the last post is old, *)
(* and there is time for one more report before it is due.                   *)
BehindOK ==
    /\ relay.since <= Silence
    /\ behind.for <= relay.since /\ behind.for <= GapIdle
    /\ behind.yes => relay.held
    /\ behind.yes /\ device.up /\ device.reported => behind.for < GapIdle

(* Quick mode outlasts the wait for the next poll, by what is left for a     *)
(* poll that fails.                                                          *)
QuickOK ==
    /\ quiet = 0 => pollIn + WatchHold <= pace.quick + PollSoon
    /\ quiet = 1 => pollIn + WatchHold <= pace.quick + PollSoon + PollAfterError

SnapOK == snap.pause \in Nat /\ (snap.pause > 0 => ~snap.flight)

PaceInv == PaceTypes /\ ReportedOK /\ BehindOK /\ QuickOK /\ SnapOK

(* What each kind of step may touch.                                         *)
RelayPart == <<device, relay, behind>>
PollPart == <<tells, someone, pace, pollIn, quiet>>

-----------------------------------------------------------------------------
(* At the start nothing is held back and nothing is behind.                  *)
THEOREM PaceInitOK == PaceInit => PaceInv
BY PaceAssumption DEF PaceInit, PaceInv, PaceTypes, ReportedOK, BehindOK, QuickOK, SnapOK, NotWatched

(* A gap is never longer than a heartbeat, nor than the idle gap.            *)
LEMMA GapBound ==
    ASSUME PaceTypes PROVE RelayGap \in Nat /\ RelayGap <= GapIdle
BY PaceAssumption DEF PaceTypes, RelayGap, Gap

(* Whether a report is held back is a Boolean.                               *)
LEMMA HeldType ==
    ASSUME PaceTypes, NEW urgent \in BOOLEAN, NEW changed \in BOOLEAN
    PROVE  Decide(urgent, changed).held \in BOOLEAN
<1>1. (relay.since < RelayGap) \in BOOLEAN BY GapBound DEF PaceTypes
<1>2. CASE urgent BY <1>2 DEF Decide
<1>3. CASE ~urgent /\ (changed \/ relay.held) BY <1>1, <1>3 DEF Decide
<1>4. CASE ~urgent /\ ~(changed \/ relay.held) BY <1>4 DEF Decide
<1> QED BY <1>2, <1>3, <1>4

(* A report that is not sent comes before the next post is due, and a change *)
(* is then held.                                                             *)
LEMMA Unsent ==
    ASSUME PaceTypes, NEW urgent \in BOOLEAN, NEW changed \in BOOLEAN, ~Decide(urgent, changed).send
    PROVE  /\ ~urgent /\ relay.since < HeartbeatSec
           /\ Decide(urgent, changed).held \in BOOLEAN
           /\ Decide(urgent, changed).held <=> changed \/ relay.held
           /\ changed \/ relay.held => relay.since < GapIdle
<1> DEFINE d == Decide(urgent, changed)
<1>1. RelayGap \in Nat /\ RelayGap <= GapIdle BY GapBound
<1>2. relay.since \in Nat /\ relay.held \in BOOLEAN BY DEF PaceTypes
<1>3. ~urgent BY DEF Decide
<1>4. CASE changed \/ relay.held
  <2>1. d = [send |-> relay.since >= RelayGap, held |-> relay.since < RelayGap]
    BY <1>3, <1>4 DEF Decide
  <2> HIDE DEF d
  <2>2. (d.send <=> relay.since >= RelayGap) /\ (d.held <=> relay.since < RelayGap)
    BY <1>1, <1>2, <2>1
  <2>3. ~d.send BY DEF d
  <2>4. relay.since < RelayGap /\ d.held BY <1>1, <1>2, <2>2, <2>3
  <2>5. relay.since < GapIdle /\ relay.since < HeartbeatSec BY <1>1, <1>2, <2>4, PaceAssumption
  <2>6. d.held \in BOOLEAN BY HeldType DEF d
  <2> QED BY <1>3, <1>4, <2>4, <2>5, <2>6 DEF d
<1>5. CASE ~(changed \/ relay.held)
  <2>1. d = [send |-> relay.since >= HeartbeatSec, held |-> FALSE]
    BY <1>3, <1>5 DEF Decide
  <2> HIDE DEF d
  <2>2. (d.send <=> relay.since >= HeartbeatSec) /\ d.held = FALSE
    BY <1>2, <2>1, PaceAssumption
  <2>3. ~d.send BY DEF d
  <2>4. relay.since < HeartbeatSec BY <1>2, <2>2, <2>3, PaceAssumption
  <2> QED BY <1>3, <1>5, <2>2, <2>4 DEF d
<1> QED BY <1>3, <1>4, <1>5

-----------------------------------------------------------------------------
(* A unit of time.                                                           *)
LEMMA TickOK == PaceInv /\ Tick => PaceInv'
<1> SUFFICES ASSUME PaceInv, Tick PROVE PaceInv'
  OBVIOUS
<1>t. PaceTypes /\ ReportedOK /\ BehindOK /\ QuickOK /\ SnapOK BY DEF PaceInv
<1>0. /\ pace.quick \in Nat /\ pollIn \in Nat /\ pollIn > 0 /\ relay.since \in Nat /\ behind.for \in Nat
      /\ behind.yes \in BOOLEAN /\ device.up \in BOOLEAN /\ device.back \in BOOLEAN
      /\ relay.held \in BOOLEAN /\ pace.known \in BOOLEAN
  BY <1>t DEF PaceTypes, Tick
<1> DEFINE q == Less(pace.quick)
           s == Capped(relay.since + 1, Silence)
           f == IF behind.yes /\ device.up THEN behind.for + 1 ELSE behind.for
<1>1. /\ q \in Nat /\ q + 1 >= pace.quick /\ s \in Nat /\ f \in Nat
      /\ s <= Silence /\ s >= relay.since
      /\ relay.since < Silence => s = relay.since + 1
  BY <1>0, <1>t, PaceAssumption DEF Less, Capped, BehindOK
<1>2. /\ pace' = [known |-> pace.known, quick |-> q]
      /\ device' = [up |-> device.up, reported |-> FALSE, back |-> device.back]
      /\ relay' = [since |-> s, held |-> relay.held]
      /\ behind' = [yes |-> behind.yes, for |-> f]
      /\ pollIn' = pollIn - 1 /\ UNCHANGED <<tells, someone, quiet>>
      /\ device.up => device.reported
  BY <1>t DEF Tick, PaceTypes
<1>3. f <= s /\ f <= GapIdle
  <2>1. CASE behind.yes /\ device.up
    <3>1. behind.for < GapIdle /\ behind.for <= relay.since BY <1>2, <1>t, <2>1 DEF BehindOK
    <3> QED BY <1>0, <1>1, <1>t, <2>1, <3>1, PaceAssumption DEF BehindOK
  <2>2. CASE ~(behind.yes /\ device.up)
    BY <1>0, <1>1, <1>t, <2>2, PaceAssumption DEF BehindOK
  <2> QED BY <2>1, <2>2
<1>4. snap'.pause = Less(snap.pause) /\ snap'.flight = snap.flight
  BY DEF Tick
<1> HIDE DEF q, s, f
<1>5. PaceTypes' BY <1>0, <1>1, <1>2, <1>t DEF PaceTypes
<1>6. ReportedOK' /\ BehindOK' BY <1>0, <1>1, <1>2, <1>3, <1>t DEF ReportedOK, BehindOK
<1>7. QuickOK' BY <1>0, <1>1, <1>2, <1>t, PaceAssumption DEF QuickOK
<1>8. SnapOK' BY <1>4, <1>t DEF SnapOK, Less
<1> QED BY <1>5, <1>6, <1>7, <1>8 DEF PaceInv

(* A report of the printer, sent or not.                                     *)
LEMMA ReportOK == PaceInv /\ ReportIn => PaceInv'
<1> SUFFICES ASSUME PaceInv, ReportIn PROVE PaceInv'
  OBVIOUS
<1>t. PaceTypes /\ ReportedOK /\ BehindOK /\ QuickOK /\ SnapOK BY DEF PaceInv
<1>0. PICK urgent \in BOOLEAN, changed \in BOOLEAN :
        /\ device.back => urgent
        /\ relay' = [since |-> IF Decide(urgent, changed).send THEN 0 ELSE relay.since,
                     held |-> Decide(urgent, changed).held]
        /\ behind' = IF Decide(urgent, changed).send THEN [yes |-> FALSE, for |-> 0]
                     ELSE [behind EXCEPT !.yes = @ \/ changed]
  BY DEF ReportIn
<1>1. device' = [up |-> TRUE, reported |-> TRUE, back |-> FALSE]
  BY <1>t DEF ReportIn, PaceTypes
<1>2. UNCHANGED PollPart /\ snap' = snap BY DEF ReportIn, OnlyPrinterAndRelay, PollPart
<1>3. CASE Decide(urgent, changed).send
  <2>1. relay' = [since |-> 0, held |-> Decide(urgent, changed).held]
        /\ behind' = [yes |-> FALSE, for |-> 0]
    BY <1>0, <1>3
  <2>2. Decide(urgent, changed).held \in BOOLEAN BY <1>t, HeldType
  <2> QED BY <1>1, <1>2, <1>t, <2>1, <2>2, PaceAssumption
          DEF PaceInv, PaceTypes, PollPart, ReportedOK, BehindOK, QuickOK, SnapOK
<1>4. CASE ~Decide(urgent, changed).send
  <2>1. /\ ~urgent /\ relay.since < HeartbeatSec
        /\ Decide(urgent, changed).held \in BOOLEAN
        /\ Decide(urgent, changed).held <=> changed \/ relay.held
        /\ changed \/ relay.held => relay.since < GapIdle
    BY <1>4, <1>t, Unsent
  <2>2. /\ relay' = [since |-> relay.since, held |-> Decide(urgent, changed).held]
        /\ behind' = [yes |-> behind.yes \/ changed, for |-> behind.for]
    BY <1>0, <1>4, <1>t DEF PaceTypes
  <2>3. PaceTypes' BY <1>1, <1>2, <1>t, <2>1, <2>2 DEF PaceTypes, PollPart
  <2>4. ReportedOK' BY <1>1, <2>1, <2>2 DEF ReportedOK
  <2>5. BehindOK'
    BY <1>1, <1>t, <2>1, <2>2, PaceAssumption DEF PaceTypes, BehindOK
  <2> QED BY <1>2, <1>t, <2>3, <2>4, <2>5 DEF PaceInv, PollPart, QuickOK, SnapOK
<1> QED BY <1>3, <1>4

(* No order of polls, reports, pauses and time breaks the pace.              *)
LEMMA PaceStepOK == PaceInv /\ [PaceNext]_paceVars => PaceInv'
<1> SUFFICES ASSUME PaceInv, [PaceNext]_paceVars PROVE PaceInv'
  OBVIOUS
<1>t. PaceTypes /\ ReportedOK /\ BehindOK /\ QuickOK /\ SnapOK BY DEF PaceInv
<1>1. CASE Tick BY <1>1, TickOK
<1>2. CASE ReportIn BY <1>2, ReportOK
<1>3. CASE PageOpensOrCloses
  BY <1>3, <1>t DEF PageOpensOrCloses, PaceInv, PaceTypes, ReportedOK, BehindOK, QuickOK, SnapOK, NotWatched
<1>4. CASE Update
  BY <1>4, <1>t, PaceAssumption
  DEF Update, OnlyPoll, PaceInv, PaceTypes, ReportedOK, BehindOK, QuickOK, SnapOK, NotWatched
<1>5. CASE Refused
  BY <1>5, <1>t, PaceAssumption
  DEF Refused, OnlyPoll, PaceInv, PaceTypes, ReportedOK, BehindOK, QuickOK, SnapOK, NotWatched
<1>6. CASE PollFails
  BY <1>6, <1>t, PaceAssumption
  DEF PollFails, OnlyPoll, PaceInv, PaceTypes, ReportedOK, BehindOK, QuickOK, SnapOK, NotWatched
<1>7. CASE Wake
  BY <1>7, <1>t, PaceAssumption
  DEF Wake, OnlyPoll, PaceInv, PaceTypes, ReportedOK, BehindOK, QuickOK, SnapOK, NotWatched
<1>8. CASE PrinterComesOrGoes
  BY <1>8, <1>t
  DEF PrinterComesOrGoes, OnlyPrinterAndRelay, PaceInv, PaceTypes, ReportedOK, BehindOK, QuickOK, SnapOK
<1>9. CASE SnapshotDue
  BY <1>9, <1>t DEF SnapshotDue, OnlySnap, PaceInv, PaceTypes, ReportedOK, BehindOK, QuickOK, SnapOK
<1>10. ASSUME NEW ok \in BOOLEAN, CaptureEnds(ok) PROVE PaceInv'
  <2>1. snap'.flight = FALSE /\ snap'.pause \in Nat
    BY <1>10, <1>t, PaceAssumption DEF CaptureEnds, SnapOK
  <2> QED BY <1>10, <1>t, <2>1 DEF CaptureEnds, OnlySnap, PaceInv, PaceTypes, ReportedOK, BehindOK, QuickOK, SnapOK
<1>11. CASE UNCHANGED paceVars
  BY <1>11, <1>t DEF paceVars, PaceInv, PaceTypes, ReportedOK, BehindOK, QuickOK, SnapOK
<1> QED BY <1>1, <1>2, <1>3, <1>4, <1>5, <1>6, <1>7, <1>8, <1>9, <1>10, <1>11 DEF PaceNext

(* Whatever the gaps, a printer that reports is heard of before FoxTrack     *)
(* shows it as offline, what changed is told within the idle gap, one poll   *)
(* that fails leaves quick mode on, and a camera's pause is kept.            *)
THEOREM PaceStaysKept == PaceSpec => []PaceIsKept
<1>1. PaceSpec => []PaceInv BY PaceInitOK, PaceStepOK, PTL DEF PaceSpec
<1>2. PaceInv => PaceIsKept
  <2> SUFFICES ASSUME PaceInv PROVE PaceIsKept OBVIOUS
  <2>1. HeardInTime /\ ChangesAreTold /\ CameraIsLeftAlone
    BY DEF PaceInv, ReportedOK, BehindOK, SnapOK, HeardInTime, ChangesAreTold, CameraIsLeftAlone
  <2>2. WatchedStaysQuick
    BY PaceAssumption DEF PaceInv, PaceTypes, QuickOK, WatchedStaysQuick, NotWatched
  <2> QED BY <2>1, <2>2 DEF PaceIsKept
<1> QED BY <1>1, <1>2, PTL

-----------------------------------------------------------------------------
(* BambuSession: the reports, the state and the session.                     *)
LEMMA BambuConstants ==
    MaxJobs \in Nat /\ MaxDrops \in Nat /\ MaxEdits \in Nat /\ MaxWire \in Nat \ {0}
BY BambuAssumption

Between == Over \cup {"prepare"}

(* What comes after a print j was in the status s.                           *)
Precedes(j, s, later) ==
    /\ j <= later.job
    /\ j = later.job /\ s \in Over => later.status \notin InPrint \cup {"prepare"}
    /\ j = later.job /\ s \in InPrint => later.status # "prepare"

(* So do all reports under way, and the machine; and the report that is      *)
(* being handled, until the session was updated.                             *)
Ahead(j, s)  == Precedes(j, s, machine) /\ \A k \in DOMAIN wire : Precedes(j, s, wire[k])
ToCome(j, s) == Ahead(j, s) /\ (handler.at = "read" => Precedes(j, s, handler.rep))

PrintsHaveJobs ==
    /\ machine.status \in InPrint \cup {"prepare"} => machine.job # 0
    /\ \A k \in DOMAIN wire : wire[k].status \in InPrint => wire[k].job # 0
    /\ handler.rep.status \in InPrint => handler.rep.job # 0

ReportsInOrder ==
    /\ \A k \in DOMAIN wire : Precedes(wire[k].job, wire[k].status, machine)
    /\ \A k, l \in DOMAIN wire : k < l => Precedes(wire[k].job, wire[k].status, wire[l])
    /\ handler.at # "none" => Ahead(handler.rep.job, handler.rep.status)

(* The session's print is not over as far as reported, the recorded ones are *)
(* over and came before it.                                                  *)
SessionInOrder ==
    /\ session.born = 0 => session = NoSession
    /\ session # NoSession => session.of \in Jobs /\ ToCome(session.of, "printing")

HistoryInOrder ==
    /\ \A i \in DOMAIN history : ToCome(history[i].of, "finished")
                                 /\ (session # NoSession => history[i].of < session.of)
    /\ \A i, k \in DOMAIN history : i < k => history[i].of < history[k].of

(* A state from a report tells whether there is a session, so that a report  *)
(* without a status neither starts nor ends one.                             *)
Tells(s) == (s = "printing" => session # NoSession) /\ (s \in Between => session = NoSession)

StateTells ==
    /\ handler.at = "none" => Tells(state.status)
    /\ handler.at = "read" => Tells(handler.prev.status)
    /\ handler.at = "tracked" => Tells(Status)

(* Without a subscription nothing is under way.                              *)
LinkOK ==
    /\ link \notin Listening => handler.at = "none" /\ wire = <<>>
    /\ link = "subscribed" => Len(wire) <= MaxWire
    /\ link = "waiting" => state.status \in Bridge

InOrder == PrintsHaveJobs /\ ReportsInOrder /\ SessionInOrder /\ HistoryInOrder

BambuInv == TypeOK /\ InOrder /\ StateTells /\ LinkOK

LEMMA BambuInit == Init => BambuInv
<1>1. Init => TypeOK
  BY BambuConstants DEF Init, TypeOK, NoState, NoSession, NoReport, Report, State, Machine, InPrint, Over, Bridge,
     Files, Jobs, Listening
<1>2. Init => InOrder /\ StateTells /\ LinkOK
  BY BambuConstants DEF Init, InOrder, PrintsHaveJobs, ReportsInOrder, SessionInOrder, HistoryInOrder, StateTells,
     LinkOK, Tells, Between, NoState, NoSession, NoReport, InPrint, Over, Listening
<1> QED BY <1>1, <1>2 DEF BambuInv

-----------------------------------------------------------------------------
(* The reports under way.                                                    *)
LEMMA WireAppends ==
    ASSUME NEW w \in Seq(Report), NEW e \in Report
    PROVE  /\ Append(w, e) \in Seq(Report) /\ Len(w) \in Nat /\ Len(Append(w, e)) = Len(w) + 1
           /\ DOMAIN w = 1 .. Len(w) /\ DOMAIN Append(w, e) = 1 .. Len(w) + 1
           /\ \A k \in 1 .. Len(w) : Append(w, e)[k] = w[k]
           /\ Append(w, e)[Len(w) + 1] = e
OBVIOUS

LEMMA WireTails ==
    ASSUME NEW w \in Seq(Report), w # <<>>
    PROVE  /\ Head(w) = w[1] /\ Head(w) \in Report /\ Tail(w) \in Seq(Report)
           /\ Len(w) \in Nat \ {0} /\ Len(Tail(w)) = Len(w) - 1
           /\ DOMAIN w = 1 .. Len(w) /\ DOMAIN Tail(w) = 1 .. Len(w) - 1
           /\ \A k \in 1 .. Len(w) - 1 : Tail(w)[k] = w[k + 1]
OBVIOUS

LEMMA WireTypes ==
    ASSUME TypeOK
    PROVE  /\ machine.job \in Nat /\ handler.rep \in Report /\ handler.rep.job \in Nat
           /\ \A k \in DOMAIN wire : wire[k] \in Report /\ wire[k].job \in Nat
           /\ DOMAIN wire = 1 .. Len(wire) /\ Len(wire) \in Nat
           /\ session.of \in Nat
           /\ \A i \in DOMAIN history : history[i].of \in Nat
<1>1. wire \in Seq(Report) BY DEF TypeOK
<1>2. \A k \in DOMAIN wire : wire[k] \in Report BY <1>1
<1>a. \A S : history \in Seq(S) => \A i \in DOMAIN history : history[i] \in S
  OBVIOUS
<1>3. \A i \in DOMAIN history : history[i] \in [of : Jobs, born : 1 .. born, result : {"finished", "error", "cancelled"}]
  BY <1>a DEF TypeOK
<1>4. \A r \in Report : r.job \in Nat BY BambuConstants DEF Report, Files
<1>5. \A i \in DOMAIN history : history[i].of \in Nat BY <1>3, BambuConstants DEF Jobs
<1>6. machine.job \in Nat /\ handler.rep \in Report /\ session.of \in Nat
  BY BambuConstants DEF TypeOK, Files
<1> QED BY <1>1, <1>2, <1>4, <1>5, <1>6

(* What the machine, the ticker and the new connection send: the report is   *)
(* of the machine, and is lost only where nobody listens.                    *)
LEMMA Sends ==
    ASSUME TypeOK, PrintsHaveJobs, MachineStep \/ Pushall \/ MarkConnected
    PROVE  /\ machine' \in [job : Files, status : Machine]
           /\ machine'.status \in InPrint \cup {"prepare"} => machine'.job # 0
           /\ \A s : \A j \in Nat : Precedes(j, s, machine) => Precedes(j, s, machine')
           /\ \E e \in Report : /\ wire' = Append(wire, e) \/ (wire' = wire /\ link \notin Listening)
                                /\ e.job = machine'.job /\ e.status \in {machine'.status, "same"}
           /\ UNCHANGED <<drops, edits, handler, session, born, history>>
<1>0. machine \in [job : Files, status : Machine] /\ machine.job \in Nat
  BY WireTypes DEF TypeOK
<1>1. ASSUME NEW m \in [job : Files, status : Machine], machine' = m, NEW f \in {0, m.job}, NEW s \in {m.status, "same"},
             Send(s, f) \/ wire' = Append(wire, [status |-> s, file |-> f, job |-> m.job])
      PROVE  \E e \in Report : /\ wire' = Append(wire, e) \/ (wire' = wire /\ link \notin Listening)
                               /\ e.job = machine'.job /\ e.status \in {machine'.status, "same"}
  <2>1. [status |-> s, file |-> f, job |-> m.job] \in Report
    BY <1>1, BambuConstants DEF Report, Files
  <2> QED BY <1>1, <2>1 DEF Send
<1>2. ASSUME NEW j \in Files, NEW s \in Machine, Become(j, s)
      PROVE  /\ machine' = [job |-> j, status |-> s]
             /\ \E e \in Report : /\ wire' = Append(wire, e) \/ (wire' = wire /\ link \notin Listening)
                                  /\ e.job = machine'.job /\ e.status \in {machine'.status, "same"}
             /\ UNCHANGED <<drops, edits, handler, session, born, history>>
  <2>1. PICK f \in {0, j} : Send(s, f) BY <1>2 DEF Become
  <2>2. machine' = [job |-> j, status |-> s] BY <1>2 DEF Become
  <2>3. machine'.job = j /\ machine'.status = s BY <2>2
  <2> QED BY <1>1, <1>2, <2>1, <2>2, <2>3 DEF Become
<1>3. CASE PreparePrint
  <2>1. PICK j \in Files : j = machine.job + 1 BY <1>0, <1>3, BambuConstants DEF PreparePrint, Files
  <2>2. Become(j, "prepare") /\ "prepare" \in Machine BY <1>3, <2>1 DEF PreparePrint, Machine
  <2>3. machine'.job = j /\ machine'.status = "prepare" BY <1>2, <2>2
  <2>4. machine' \in [job : Files, status : Machine] BY <1>2, <2>2
  <2>5. \A s : \A i \in Nat : Precedes(i, s, machine) => Precedes(i, s, machine')
    BY <1>0, <2>1, <2>3 DEF Precedes
  <2> QED BY <1>0, <1>2, <2>1, <2>2, <2>3, <2>4, <2>5
<1>4. CASE StartPrint
  <2>1. Become(machine.job, "printing") /\ "printing" \in Machine BY <1>4 DEF StartPrint, Machine, InPrint
  <2>2. machine'.job = machine.job /\ machine'.status = "printing" /\ machine' \in [job : Files, status : Machine]
    BY <1>0, <1>2, <2>1
  <2>3. \A s : \A i \in Nat : Precedes(i, s, machine) => Precedes(i, s, machine')
    BY <1>0, <1>4, <2>2 DEF Precedes, StartPrint, Over, InPrint
  <2>4. machine.job # 0 BY <1>4 DEF StartPrint, PrintsHaveJobs
  <2> QED BY <1>0, <1>2, <2>1, <2>2, <2>3, <2>4
<1>5. CASE PauseOrResume \/ EndPrint
  <2>1. PICK s \in InPrint \cup Over : Become(machine.job, s) BY <1>5 DEF PauseOrResume, EndPrint, InPrint, Over
  <2>2. s \in Machine BY <2>1 DEF Machine
  <2>3. machine'.job = machine.job /\ machine'.status = s /\ machine' \in [job : Files, status : Machine]
    BY <1>0, <1>2, <2>1, <2>2
  <2>4. machine.status \in InPrint /\ machine.job # 0 BY <1>5 DEF PauseOrResume, EndPrint, PrintsHaveJobs
  <2>5. \A t : \A i \in Nat : Precedes(i, t, machine) => Precedes(i, t, machine')
    BY <1>0, <2>1, <2>3, <2>4 DEF Precedes, Over, InPrint
  <2> QED BY <1>0, <1>2, <2>1, <2>2, <2>3, <2>4, <2>5
<1>6. CASE ReportDelta
  <2>1. UNCHANGED <<machine, drops, edits, handler, session, born, history>> /\ Send("same", 0)
    BY <1>6 DEF ReportDelta
  <2> QED BY <1>0, <1>1, <2>1 DEF PrintsHaveJobs
<1>7. CASE Pushall \/ MarkConnected
  <2>1. UNCHANGED <<machine, drops, edits, handler, session, born, history>> /\ wire' = Append(wire, FullReport)
    BY <1>7 DEF Pushall, MarkConnected
  <2> QED BY <1>0, <1>1, <2>1 DEF PrintsHaveJobs, FullReport
<1> QED BY <1>3, <1>4, <1>5, <1>6, <1>7 DEF MachineStep

(* They fit on the wire, and nothing is sent where nobody listens.           *)
LEMMA SendsFit ==
    ASSUME TypeOK, LinkOK, PrintsHaveJobs, MachineStep \/ Pushall \/ MarkConnected
    PROVE  TypeOK' /\ LinkOK'
<1>1. PICK e \in Report : wire' = Append(wire, e) \/ (wire' = wire /\ link \notin Listening)
  BY Sends
<1>2. MachineStep \/ Pushall => UNCHANGED <<link, state>> /\ (link \notin Listening \/ Len(wire) < MaxWire)
  BY DEF MachineStep, PreparePrint, StartPrint, PauseOrResume, EndPrint, ReportDelta, Become, CanReport, Pushall
<1>3. MarkConnected => link = "subscribed" /\ link' = "live" /\ state' = [status |-> "connected", file |-> 0]
  BY DEF MarkConnected
<1>4. link \notin Listening => wire' = wire
  <2>1. \A t, f : Send(t, f) /\ link \notin Listening => wire' = wire BY DEF Send
  <2>2. \A j, t : Become(j, t) /\ link \notin Listening => wire' = wire BY <2>1 DEF Become
  <2>3. MachineStep => \/ \E j, t : Become(j, t)
                       \/ Send("same", 0)
    BY DEF MachineStep, PreparePrint, StartPrint, PauseOrResume, EndPrint, ReportDelta
  <2>4. Pushall \/ MarkConnected => link \in Listening BY DEF Pushall, MarkConnected, Listening
  <2> QED BY <2>1, <2>2, <2>3, <2>4
<1>5. Len(wire) \in Nat /\ Len(wire) <= MaxWire + 1 /\ wire \in Seq(Report) BY DEF TypeOK
<1>6. Append(wire, e) \in Seq(Report) /\ Len(Append(wire, e)) = Len(wire) + 1 BY <1>5
<1>7. link \in Listening => Len(wire) <= MaxWire
  BY <1>2, <1>3, <1>5, BambuConstants DEF LinkOK
<1>8. wire' \in Seq(Report) /\ Len(wire') <= MaxWire + 1
  BY <1>1, <1>4, <1>5, <1>6, <1>7, BambuConstants
<1>9. link' = "subscribed" => Len(wire') <= MaxWire
  <2>1. link' = "subscribed" => ~MarkConnected /\ link = "subscribed"
    BY <1>2, <1>3
  <2>2. link' = "subscribed" => Len(wire) < MaxWire BY <1>2, <2>1 DEF Listening
  <2> QED BY <1>1, <1>5, <1>6, <2>2, BambuConstants
<1>10. /\ machine' \in [job : Files, status : Machine]
       /\ UNCHANGED <<drops, edits, handler, session, born, history>>
  BY Sends
<1>11. link' \in Listening \cup {"stopped", "lost", "waiting"} /\ state' \in State
  BY <1>2, <1>3, BambuConstants DEF TypeOK, Listening, State, Bridge, Files
<1>12. TypeOK' BY <1>8, <1>10, <1>11 DEF TypeOK
<1>13. link' \notin Listening => link' = link /\ state' = state /\ wire' = wire
  BY <1>2, <1>3, <1>4 DEF Listening
<1>14. LinkOK' BY <1>9, <1>10, <1>13 DEF LinkOK, Listening
<1> QED BY <1>12, <1>14

(* Where the handler's and the machine's steps keep what is ahead, the       *)
(* session and the records keep their order.                                 *)
LEMMA OrderKept ==
    ASSUME TypeOK, InOrder, UNCHANGED <<session, history>>,
           \A s : \A j \in Nat : ToCome(j, s) => ToCome(j, s)'
    PROVE  SessionInOrder' /\ HistoryInOrder'
<1>1. SessionInOrder /\ HistoryInOrder BY DEF InOrder
<1>2. session.of \in Nat /\ \A i \in DOMAIN history : history[i].of \in Nat BY WireTypes
<1>3. SessionInOrder'
  <2>1. PICK j \in Nat : j = session.of BY <1>2
  <2>2. session # NoSession => ToCome(j, "printing") BY <1>1, <2>1 DEF SessionInOrder
  <2>3. session # NoSession => ToCome(j, "printing")' BY <2>2
  <2> QED BY <1>1, <2>1, <2>3 DEF SessionInOrder, ToCome, Ahead, Precedes, NoSession, Jobs
<1>4. HistoryInOrder'
  <2>1. ASSUME NEW i \in DOMAIN history PROVE ToCome(history[i].of, "finished")'
    <3>1. PICK j \in Nat : j = history[i].of BY <1>2
    <3>2. ToCome(j, "finished")' BY <1>1, <3>1 DEF HistoryInOrder
    <3> QED BY <3>1, <3>2 DEF ToCome, Ahead, Precedes
  <2>2. \A i \in DOMAIN history : ToCome(history[i].of, "finished")' BY <2>1
  <2>3. /\ \A i \in DOMAIN history : session # NoSession => history[i].of < session.of
        /\ \A i, k \in DOMAIN history : i < k => history[i].of < history[k].of
    BY <1>1 DEF HistoryInOrder
  <2> QED BY <2>2, <2>3 DEF HistoryInOrder, NoSession
<1> QED BY <1>3, <1>4

LEMMA SendStep ==
    ASSUME BambuInv, MachineStep \/ Pushall \/ MarkConnected PROVE BambuInv'
<1>t. TypeOK /\ InOrder /\ StateTells /\ LinkOK /\ PrintsHaveJobs /\ ReportsInOrder
  BY DEF BambuInv, InOrder
<1>1. TypeOK' /\ LinkOK' BY <1>t, SendsFit
<1>2. /\ machine'.status \in InPrint \cup {"prepare"} => machine'.job # 0
      /\ \A s : \A j \in Nat : Precedes(j, s, machine) => Precedes(j, s, machine')
      /\ UNCHANGED <<handler, session, born, history>>
  BY <1>t, Sends
<1>3. PICK e \in Report : /\ wire' = Append(wire, e) \/ wire' = wire
                          /\ e.job = machine'.job /\ e.status \in {machine'.status, "same"}
  BY <1>t, Sends
<1>w. /\ machine.job \in Nat /\ handler.rep.job \in Nat
      /\ \A k \in DOMAIN wire : wire[k] \in Report /\ wire[k].job \in Nat
      /\ DOMAIN wire = 1 .. Len(wire) /\ Len(wire) \in Nat /\ wire \in Seq(Report)
  BY <1>t, WireTypes DEF TypeOK
<1>4. PICK n \in Nat : /\ DOMAIN wire' = 1 .. n /\ n <= Len(wire) + 1
                       /\ \A k \in DOMAIN wire : k \in DOMAIN wire' /\ wire'[k] = wire[k]
                       /\ \A k \in DOMAIN wire' : k \in DOMAIN wire \/ (wire'[k] = e /\ k = Len(wire) + 1)
  <2>1. CASE wire' = wire
    <3>1. PICK n \in Nat : n = Len(wire) BY <1>w
    <3>2. n <= Len(wire) + 1 BY <1>w, <3>1
    <3>3. DOMAIN wire' = 1 .. n /\ \A k \in DOMAIN wire : k \in DOMAIN wire' /\ wire'[k] = wire[k]
      BY <1>w, <2>1, <3>1
    <3>4. \A k \in DOMAIN wire' : k \in DOMAIN wire BY <2>1
    <3> QED BY <3>2, <3>3, <3>4
  <2>2. CASE wire' = Append(wire, e)
    <3>1. /\ DOMAIN wire' = 1 .. Len(wire) + 1 /\ wire'[Len(wire) + 1] = e
          /\ \A k \in 1 .. Len(wire) : wire'[k] = wire[k]
      BY <1>w, <2>2, WireAppends
    <3>2. PICK n \in Nat : n = Len(wire) + 1 BY <1>w
    <3>3. /\ \A k \in 1 .. Len(wire) : k \in 1 .. n
          /\ \A k \in 1 .. n : k \in 1 .. Len(wire) \/ k = Len(wire) + 1
      BY <1>w, <3>2
    <3> QED BY <1>w, <3>1, <3>2, <3>3
  <2> QED BY <1>3, <2>1, <2>2
<1>5. \A s : \A j \in Nat : Precedes(j, s, machine') => Precedes(j, s, e)
  BY <1>3 DEF Precedes, Over, InPrint
<1>6. \A s : \A j \in Nat : Ahead(j, s) => /\ Precedes(j, s, machine')
                                       /\ \A k \in DOMAIN wire' : Precedes(j, s, wire'[k])
  BY <1>2, <1>4, <1>5 DEF Ahead
<1>7. \A s : \A j \in Nat : ToCome(j, s) => ToCome(j, s)'
  <2> SUFFICES ASSUME NEW j \in Nat, NEW s, ToCome(j, s) PROVE ToCome(j, s)'
    OBVIOUS
  <2>1. /\ Precedes(j, s, machine')
        /\ \A k \in DOMAIN wire' : Precedes(j, s, wire'[k])
        /\ handler'.at = "read" => Precedes(j, s, handler'.rep)
    BY <1>2, <1>6 DEF ToCome
  <2> QED BY <2>1 DEF ToCome, Ahead, Precedes
<1>8. SessionInOrder' /\ HistoryInOrder' BY <1>2, <1>7, <1>t, OrderKept
<1>9. PrintsHaveJobs'
  BY <1>2, <1>3, <1>4, <1>t DEF PrintsHaveJobs, InPrint
<1>10. ReportsInOrder'
  <2>1. \A k \in DOMAIN wire' : Precedes(wire'[k].job, wire'[k].status, machine')
    <3>1. ASSUME NEW k \in DOMAIN wire' PROVE Precedes(wire'[k].job, wire'[k].status, machine')
      <4>1. CASE k \in DOMAIN wire
        <5>1. Precedes(wire[k].job, wire[k].status, machine') BY <1>2, <1>t, <1>w, <4>1 DEF ReportsInOrder
        <5> QED BY <1>4, <4>1, <5>1
      <4>2. CASE wire'[k] = e
        <5>1. e.job \in Nat BY BambuConstants DEF Report, Files
        <5> QED BY <1>3, <4>2, <5>1 DEF Precedes, Over, InPrint
      <4> QED BY <1>4, <4>1, <4>2
    <3> QED BY <3>1
  <2>2. \A k, l \in DOMAIN wire' : k < l => Precedes(wire'[k].job, wire'[k].status, wire'[l])
    <3>1. ASSUME NEW k \in DOMAIN wire', NEW l \in DOMAIN wire', k < l
          PROVE  Precedes(wire'[k].job, wire'[k].status, wire'[l])
      <4>0. k \in Nat /\ l \in Nat /\ l <= Len(wire) + 1
        <5>1. k \in 1 .. n /\ l \in 1 .. n BY <1>4, <3>1
        <5>2. n \in Nat /\ n <= Len(wire) + 1 BY <1>4
        <5> QED BY <1>w, <5>1, <5>2
      <4>1. k \in DOMAIN wire /\ wire'[k] = wire[k]
        <5>1. k # Len(wire) + 1 BY <1>w, <3>1, <4>0
        <5> QED BY <1>4, <3>1, <5>1
      <4>2. CASE l \in DOMAIN wire
        <5>1. wire'[l] = wire[l] BY <1>4, <4>2
        <5> QED BY <1>t, <3>1, <4>1, <4>2, <5>1 DEF ReportsInOrder
      <4>3. CASE wire'[l] = e
        <5>1. Precedes(wire[k].job, wire[k].status, machine') BY <1>2, <1>t, <1>w, <4>1 DEF ReportsInOrder
        <5> QED BY <1>5, <1>w, <4>1, <4>3, <5>1
      <4> QED BY <1>4, <4>2, <4>3
    <3> QED BY <3>1
  <2>3. handler.at # "none" =>
           /\ Precedes(handler.rep.job, handler.rep.status, machine')
           /\ \A k \in DOMAIN wire' : Precedes(handler.rep.job, handler.rep.status, wire'[k])
    BY <1>6, <1>t, <1>w DEF ReportsInOrder
  <2> QED BY <1>2, <2>1, <2>2, <2>3 DEF ReportsInOrder, Ahead, Precedes
<1>11. StateTells'
  <2>1. state' = state \/ state'.status = "connected"
    BY DEF MachineStep, PreparePrint, StartPrint, PauseOrResume, EndPrint, ReportDelta, Become, Pushall, MarkConnected
  <2> QED BY <1>2, <1>t, <2>1 DEF StateTells, Tells, Between, Over, Status
<1> QED BY <1>1, <1>8, <1>9, <1>10, <1>11 DEF BambuInv, InOrder

(* With the connection go the reports under way; the handler is through.     *)
LEMMA ClearStep ==
    ASSUME BambuInv, Drop \/ Restart \/ Rename PROVE BambuInv'
<1>t. TypeOK /\ InOrder /\ StateTells /\ LinkOK /\ PrintsHaveJobs /\ ReportsInOrder
  BY DEF BambuInv, InOrder
<1>1. /\ wire' = <<>> /\ handler.at = "none"
      /\ UNCHANGED <<machine, handler, session, born, history>>
      /\ state' \in {state, NoState} /\ link' \in {"lost", "stopped"}
  BY DEF Drop, Restart, Rename, Stop
<1>2. drops' \in 0 .. MaxDrops /\ edits' \in 0 .. MaxEdits
  <2>1. drops \in 0 .. MaxDrops /\ edits \in 0 .. MaxEdits BY <1>t DEF TypeOK
  <2>2. CASE Drop BY <2>1, <2>2, BambuConstants DEF Drop
  <2>3. CASE Restart \/ Rename BY <2>1, <2>3, BambuConstants DEF Restart, Rename, Stop
  <2> QED BY <2>2, <2>3
<1>3. state' \in State
  BY <1>1, <1>t, BambuConstants DEF TypeOK, NoState, State, Bridge, Files
<1>4. TypeOK'
  <2>1. <<>> \in Seq(Report) /\ Len(<<>>) <= MaxWire + 1 BY BambuConstants
  <2> QED BY <1>1, <1>2, <1>3, <1>t, <2>1 DEF TypeOK
<1>5. \A s : \A j \in Nat : ToCome(j, s) => ToCome(j, s)'
  BY <1>1 DEF ToCome, Ahead, Precedes
<1>6. SessionInOrder' /\ HistoryInOrder' BY <1>1, <1>5, <1>t, OrderKept
<1>7. PrintsHaveJobs' /\ ReportsInOrder'
  BY <1>1, <1>t DEF PrintsHaveJobs, ReportsInOrder
<1>8. StateTells' BY <1>1, <1>t DEF StateTells, Tells, NoState, Between, Over
<1>9. LinkOK' BY <1>1, <1>t DEF LinkOK, Listening
<1> QED BY <1>4, <1>6, <1>7, <1>8, <1>9 DEF BambuInv, InOrder

(* The oldest report goes to the handler.                                    *)
LEMMA ReceiveStep ==
    ASSUME BambuInv, Receive PROVE BambuInv'
<1>t. TypeOK /\ InOrder /\ StateTells /\ LinkOK /\ PrintsHaveJobs /\ ReportsInOrder
  BY DEF BambuInv, InOrder
<1>1. /\ handler.at = "none" /\ link \in Listening /\ wire # <<>>
      /\ handler' = [at |-> "read", rep |-> Head(wire), prev |-> state]
      /\ wire' = Tail(wire)
      /\ UNCHANGED <<machine, link, drops, edits, state, session, born, history>>
  BY DEF Receive
<1>w. /\ machine.job \in Nat /\ wire \in Seq(Report)
      /\ \A k \in DOMAIN wire : wire[k] \in Report /\ wire[k].job \in Nat
  BY <1>t, WireTypes DEF TypeOK
<1>2. /\ Head(wire) = wire[1] /\ Head(wire) \in Report /\ Tail(wire) \in Seq(Report)
      /\ Len(wire) \in Nat \ {0} /\ Len(Tail(wire)) = Len(wire) - 1
      /\ DOMAIN wire = 1 .. Len(wire) /\ DOMAIN Tail(wire) = 1 .. Len(wire) - 1
      /\ \A k \in 1 .. Len(wire) - 1 : Tail(wire)[k] = wire[k + 1]
  BY <1>1, <1>w, WireTails
<1>3. /\ 1 \in DOMAIN wire
      /\ \A k \in DOMAIN wire' : /\ k \in Nat /\ k + 1 \in DOMAIN wire /\ wire'[k] = wire[k + 1]
                                 /\ 1 < k + 1
  BY <1>1, <1>2
<1>4. handler'.rep = wire[1] /\ handler'.at = "read" /\ handler'.prev = state
  BY <1>1, <1>2
<1>5. TypeOK'
  <2>1. Len(wire') <= MaxWire + 1 BY <1>1, <1>2, <1>t, BambuConstants DEF TypeOK
  <2> QED BY <1>1, <1>2, <1>t, <2>1 DEF TypeOK
<1>6. \A s : \A j \in Nat : ToCome(j, s) => ToCome(j, s)'
  <2> SUFFICES ASSUME NEW s, NEW j \in Nat, ToCome(j, s) PROVE ToCome(j, s)'
    OBVIOUS
  <2>1. Precedes(j, s, machine) /\ \A k \in DOMAIN wire : Precedes(j, s, wire[k])
    BY DEF ToCome, Ahead
  <2>2. /\ \A k \in DOMAIN wire' : Precedes(j, s, wire'[k])
        /\ Precedes(j, s, handler'.rep)
    BY <1>3, <1>4, <2>1
  <2> QED BY <1>1, <2>1, <2>2 DEF ToCome, Ahead, Precedes
<1>7. SessionInOrder' /\ HistoryInOrder' BY <1>1, <1>6, <1>t, OrderKept
<1>8. PrintsHaveJobs' BY <1>1, <1>3, <1>4, <1>t DEF PrintsHaveJobs
<1>9. ReportsInOrder'
  <2>1. \A k \in DOMAIN wire' : Precedes(wire'[k].job, wire'[k].status, machine)
    BY <1>3, <1>t DEF ReportsInOrder
  <2>2. \A k, l \in DOMAIN wire' : k < l => Precedes(wire'[k].job, wire'[k].status, wire'[l])
    <3>1. ASSUME NEW k \in DOMAIN wire', NEW l \in DOMAIN wire', k < l
          PROVE  Precedes(wire'[k].job, wire'[k].status, wire'[l])
      <4>1. k + 1 < l + 1 BY <1>3, <3>1
      <4>2. Precedes(wire[k + 1].job, wire[k + 1].status, wire[l + 1])
        BY <1>3, <1>t, <4>1 DEF ReportsInOrder
      <4> QED BY <1>3, <4>2
    <3> QED BY <3>1
  <2>3. /\ Precedes(handler'.rep.job, handler'.rep.status, machine)
        /\ \A k \in DOMAIN wire' : Precedes(handler'.rep.job, handler'.rep.status, wire'[k])
    BY <1>3, <1>4, <1>t DEF ReportsInOrder
  <2> QED BY <1>1, <2>1, <2>2, <2>3 DEF ReportsInOrder, Ahead, Precedes
<1>10. StateTells' BY <1>1, <1>4, <1>t DEF StateTells, Tells
<1>11. LinkOK'
  BY <1>1, <1>2, <1>5, <1>t, BambuConstants DEF LinkOK, TypeOK, Listening
<1> QED BY <1>5, <1>7, <1>8, <1>9, <1>10, <1>11 DEF BambuInv, InOrder

(* What the report makes of the state read is a state.                       *)
LEMMA StatusTypes ==
    ASSUME TypeOK PROVE Status \in Machine \cup Bridge /\ File \in Files
<1>1. /\ handler.rep.status \in Machine \cup {"same"} /\ handler.rep.file \in Files
      /\ handler.prev.status \in Machine \cup Bridge /\ handler.prev.file \in Files
  BY DEF TypeOK, Report, State
<1>2. Status \in Machine \cup Bridge BY <1>1 DEF Status
<1>3. File \in Files BY <1>1, BambuConstants DEF File, Files
<1> QED BY <1>2, <1>3

(* The new state is stored.                                                  *)
LEMMA StoreStep ==
    ASSUME BambuInv, Store PROVE BambuInv'
<1>t. TypeOK /\ InOrder /\ StateTells /\ LinkOK /\ PrintsHaveJobs /\ ReportsInOrder
  BY DEF BambuInv, InOrder
<1>1. /\ handler.at = "tracked"
      /\ state' = [status |-> Status, file |-> File]
      /\ handler' = [at |-> "none", rep |-> NoReport, prev |-> NoState]
      /\ UNCHANGED <<machine, link, wire, drops, edits, session, born, history>>
  BY DEF Store
<1>2. TypeOK'
  <2>1. Status \in Machine \cup Bridge /\ File \in Files BY <1>t, StatusTypes
  <2>2. state' \in State BY <1>1, <2>1 DEF State
  <2>3. NoReport \in Report /\ NoState \in State
    BY BambuConstants DEF NoReport, NoState, Report, State, Bridge, Files
  <2>4. handler' \in [at : {"none", "read", "tracked"}, rep : Report, prev : State] BY <1>1, <2>3
  <2> QED BY <1>1, <1>t, <2>2, <2>4 DEF TypeOK
<1>3. \A s : \A j \in Nat : ToCome(j, s) => ToCome(j, s)'
  BY <1>1 DEF ToCome, Ahead, Precedes
<1>4. SessionInOrder' /\ HistoryInOrder' BY <1>1, <1>3, <1>t, OrderKept
<1>5. PrintsHaveJobs' /\ ReportsInOrder'
  BY <1>1, <1>t DEF PrintsHaveJobs, ReportsInOrder, NoReport, InPrint, Precedes
<1>6. StateTells' BY <1>1, <1>t DEF StateTells, Tells
<1>7. LinkOK' BY <1>1, <1>t DEF LinkOK, Listening
<1> QED BY <1>2, <1>4, <1>5, <1>6, <1>7 DEF BambuInv, InOrder

(* The goroutine's other writes, and the time that passes.                   *)
LEMMA LinkStep ==
    ASSUME BambuInv, Subscribe \/ MarkDisconnected \/ GraceRunsOut PROVE BambuInv'
<1>t. TypeOK /\ InOrder /\ StateTells /\ LinkOK /\ PrintsHaveJobs /\ ReportsInOrder
  BY DEF BambuInv, InOrder
<1>1. /\ link \notin Listening
      /\ UNCHANGED <<machine, wire, drops, edits, handler, born, history>>
      /\ link' \in {"subscribed", "waiting"} /\ state' \in {state, NoState}
      /\ link' = "waiting" => state' = NoState \/ (link = "waiting" /\ state' = state)
  BY DEF Subscribe, MarkDisconnected, GraceRunsOut, Listening
<1>2. handler.at = "none" /\ wire = <<>> BY <1>1, <1>t DEF LinkOK
<1>3. session' = session \/ (session # NoSession /\ session' = [session EXCEPT !.late = TRUE])
  BY DEF Subscribe, MarkDisconnected, GraceRunsOut
<1>4. session \in [born : 0 .. born, of : Files, file : Files, late : BOOLEAN] BY <1>t DEF TypeOK
<1>5. /\ session' \in [born : 0 .. born, of : Files, file : Files, late : BOOLEAN]
      /\ session'.born = session.born /\ session'.of = session.of
      /\ session' = NoSession <=> session = NoSession
  <2>1. session.born = 0 => session = NoSession BY <1>t DEF InOrder, SessionInOrder
  <2>2. CASE session' = session BY <1>4, <2>2
  <2>3. CASE session # NoSession /\ session' = [session EXCEPT !.late = TRUE]
    BY <1>4, <2>1, <2>3 DEF NoSession
  <2> QED BY <1>3, <2>2, <2>3
<1>6. TypeOK'
  <2>1. state' \in State /\ link' \in Listening \cup {"stopped", "lost", "waiting"}
    BY <1>1, <1>t, BambuConstants DEF TypeOK, NoState, State, Bridge, Files, Listening
  <2> QED BY <1>1, <1>5, <1>t, <2>1 DEF TypeOK
<1>7. \A s : \A j \in Nat : ToCome(j, s) <=> ToCome(j, s)'
  BY <1>1 DEF ToCome, Ahead, Precedes
<1>8. SessionInOrder' /\ HistoryInOrder'
  <2>1. SessionInOrder /\ HistoryInOrder BY <1>t DEF InOrder
  <2>2. SessionInOrder'
    BY <1>1, <1>5, <2>1 DEF SessionInOrder, ToCome, Ahead, Precedes, NoSession, Jobs
  <2>3. HistoryInOrder'
    BY <1>1, <1>5, <2>1 DEF HistoryInOrder, ToCome, Ahead, Precedes, NoSession
  <2> QED BY <2>2, <2>3
<1>9. PrintsHaveJobs' /\ ReportsInOrder'
  BY <1>1, <1>2, <1>t DEF PrintsHaveJobs, ReportsInOrder
<1>10. StateTells'
  BY <1>1, <1>2, <1>5, <1>t DEF StateTells, Tells, NoState, Between, Over, NoSession
<1>11. LinkOK'
  <2>1. Len(wire') <= MaxWire BY <1>1, <1>2, BambuConstants
  <2> QED BY <1>1, <1>2, <1>t, <2>1 DEF LinkOK, Listening, NoState, Bridge
<1> QED BY <1>6, <1>8, <1>9, <1>10, <1>11 DEF BambuInv, InOrder

(* What Track does with the session, and which report makes it do so: one    *)
(* without a status keeps the session that the state read tells of.          *)
LEMMA TrackCases ==
    ASSUME BambuInv, Track
    PROVE  /\ handler.at = "read" /\ handler' = [handler EXCEPT !.at = "tracked"]
           /\ UNCHANGED <<machine, link, wire, drops, edits, state>>
           /\ \/ /\ handler.rep.status = "printing" /\ Status = "printing"
                 /\ session = NoSession \/ Dropped
                    \/ (handler.prev.status \notin InPrint /\ ~Reconnected)
                 /\ StartSession
              \/ /\ handler.rep.status \in Between /\ Status = handler.rep.status
                 /\ session # NoSession
                 /\ EndSession
              \/ /\ UNCHANGED <<born, history>>
                 /\ session' = NoSession
                 /\ session = NoSession \/ Dropped
                 /\ Status # "printing"
              \/ /\ UNCHANGED <<born, history>>
                 /\ session # NoSession /\ session'.born = session.born /\ session'.of = session.of
                 /\ session' \in [born : 0 .. born, of : Files, file : Files, late : BOOLEAN]
                 /\ session'.file = session.file \/ (session.file = 0 /\ Status = "printing" /\ session'.file = File)
                 /\ Status \notin Between /\ ~Dropped
<1>t. TypeOK /\ SessionInOrder /\ StateTells BY DEF BambuInv, InOrder
<1>1. /\ handler.at = "read" /\ handler' = [handler EXCEPT !.at = "tracked"]
      /\ UNCHANGED <<machine, link, wire, drops, edits, state>>
      /\ StartSession \/ EndSession \/ KeepSession
  BY DEF Track
<1>2. Tells(handler.prev.status) BY <1>1, <1>t DEF StateTells
<1>3. /\ handler.rep.status = "same" => Status = handler.prev.status
      /\ handler.rep.status # "same" => Status = handler.rep.status
  BY DEF Status
<1>4. Status \in Machine \cup Bridge BY <1>t, StatusTypes
<1>5. CASE StartSession
  <2>1. Starts /\ Status = "printing" BY <1>5 DEF StartSession, Starts
  <2>2. session = NoSession \/ Dropped \/ (handler.prev.status \notin InPrint /\ ~Reconnected)
    BY <2>1 DEF Starts, Before
  <2>3. handler.rep.status # "same"
    <3>1. SUFFICES ASSUME handler.rep.status = "same" PROVE FALSE
      OBVIOUS
    <3>2. handler.prev.status = "printing" BY <1>3, <2>1, <3>1
    <3>3. session # NoSession BY <1>2, <3>2 DEF Tells
    <3>4. ~Reconnected /\ handler.prev.status \in InPrint BY <3>2 DEF Reconnected, Bridge, InPrint
    <3> QED BY <2>2, <3>3, <3>4 DEF Dropped
  <2> QED BY <1>1, <1>3, <1>5, <2>1, <2>2, <2>3
<1>6. CASE EndSession
  <2>1. Ends /\ ~Starts /\ Status \notin InPrint \cup Bridge BY <1>6 DEF EndSession, Ends
  <2>2. session # NoSession BY <2>1 DEF Ends, Before
  <2>3. Status \in Between BY <1>4, <2>1 DEF Machine, Between, InPrint
  <2>4. handler.rep.status # "same" BY <1>2, <1>3, <2>2, <2>3 DEF Tells
  <2> QED BY <1>1, <1>3, <1>6, <2>2, <2>3, <2>4
<1>7. CASE KeepSession
  <2>1. UNCHANGED <<born, history>> /\ ~Starts /\ ~Ends BY <1>7 DEF KeepSession
  <2>2. CASE Before = NoSession
    <3>1. session' = NoSession BY <1>7, <2>2 DEF KeepSession
    <3>2. session = NoSession \/ Dropped BY <2>2 DEF Before
    <3>3. Status # "printing" BY <2>1, <2>2 DEF Starts
    <3> QED BY <1>1, <2>1, <3>1, <3>2, <3>3
  <2>3. CASE Before # NoSession
    <3>1. Before = session /\ session # NoSession /\ ~Dropped BY <2>3 DEF Before
    <3>2. Status \notin Between BY <2>1, <2>3 DEF Ends, Between, InPrint, Bridge, Over
    <3>3. session \in [born : 0 .. born, of : Files, file : Files, late : BOOLEAN] BY <1>t DEF TypeOK
    <3>4. File \in Files BY <1>t, StatusTypes
    <3>5. \/ session' = session
          \/ session' = [session EXCEPT !.late = FALSE,
                                        !.file = IF @ = 0 /\ Status = "printing" THEN File ELSE @]
      BY <1>7, <3>1 DEF KeepSession
    <3>6. PICK f \in Files, l \in BOOLEAN :
            /\ session' = [session EXCEPT !.late = l, !.file = f]
            /\ f = session.file \/ (session.file = 0 /\ Status = "printing" /\ f = File)
      <4>1. CASE session' = session
        <5>1. session = [session EXCEPT !.late = session.late, !.file = session.file] BY <3>3
        <5>2. session.file \in Files /\ session.late \in BOOLEAN BY <3>3
        <5> QED BY <4>1, <5>1, <5>2
      <4>2. CASE session' = [session EXCEPT !.late = FALSE,
                                            !.file = IF @ = 0 /\ Status = "printing" THEN File ELSE @]
        <5>1. session.file \in Files BY <3>3
        <5>2. PICK f \in Files : f = IF session.file = 0 /\ Status = "printing" THEN File ELSE session.file
          BY <3>4, <5>1
        <5>3. session' = [session EXCEPT !.late = FALSE, !.file = f] BY <3>3, <4>2, <5>2
        <5> QED BY <5>2, <5>3
      <4> QED BY <3>5, <4>1, <4>2
    <3>7. /\ session'.born = session.born /\ session'.of = session.of /\ session'.file = f
          /\ session' \in [born : 0 .. born, of : Files, file : Files, late : BOOLEAN]
      BY <3>3, <3>6
    <3> QED BY <1>1, <2>1, <3>1, <3>2, <3>6, <3>7
  <2> QED BY <2>2, <2>3
<1> QED BY <1>1, <1>5, <1>6, <1>7

(* The session is brought up to date.                                        *)
LEMMA TrackStep ==
    ASSUME BambuInv, Track PROVE BambuInv'
<1>t. TypeOK /\ InOrder /\ StateTells /\ LinkOK /\ PrintsHaveJobs /\ ReportsInOrder
      /\ SessionInOrder /\ HistoryInOrder
  BY DEF BambuInv, InOrder
<1>1. /\ handler.at = "read" /\ handler' = [handler EXCEPT !.at = "tracked"]
      /\ UNCHANGED <<machine, link, wire, drops, edits, state>>
  BY TrackCases
<1>2. /\ handler' \in [at : {"none", "read", "tracked"}, rep : Report, prev : State]
      /\ handler'.at = "tracked" /\ handler'.rep = handler.rep /\ handler'.prev = handler.prev
  BY <1>1, <1>t DEF TypeOK
<1>3. Status' = Status BY <1>2 DEF Status
<1>w. /\ handler.rep.job \in Nat /\ handler.rep.job \in Files /\ session.of \in Nat
      /\ \A i \in DOMAIN history : history[i].of \in Nat
      /\ session \in [born : 0 .. born, of : Files, file : Files, late : BOOLEAN]
      /\ born \in Nat
  BY <1>t, WireTypes DEF TypeOK, Report
<1>4. Status \in Machine \cup Bridge /\ File \in Files BY <1>t, StatusTypes
<1>5. \A s : \A j \in Nat : ToCome(j, s)' <=> Ahead(j, s)
  BY <1>1, <1>2 DEF ToCome, Ahead, Precedes
<1>6. PrintsHaveJobs' BY <1>1, <1>2, <1>t DEF PrintsHaveJobs
<1>7. ReportsInOrder' BY <1>1, <1>2, <1>t DEF ReportsInOrder, Ahead, Precedes
<1>8. LinkOK' BY <1>1, <1>t DEF LinkOK, Listening
<1>9. ASSUME session' \in [born : 0 .. born', of : Files, file : Files, late : BOOLEAN],
             born' \in Nat,
             history' \in Seq([of : Jobs, born : 1 .. born', result : {"finished", "error", "cancelled"}])
      PROVE  TypeOK'
  BY <1>1, <1>2, <1>9, <1>t DEF TypeOK
<1>10. ASSUME session'.born = 0 => session' = NoSession,
              session' # NoSession => session'.of \in Jobs /\ Ahead(session'.of, "printing")
       PROVE  SessionInOrder'
  <2>1. session' # NoSession => ToCome(session.of, "printing")'
    BY <1>1, <1>2, <1>10 DEF ToCome, Ahead, Precedes
  <2> QED BY <1>10, <2>1 DEF SessionInOrder, NoSession, Jobs
<1>11. ASSUME Tells(Status)' PROVE StateTells'
  BY <1>2, <1>11 DEF StateTells
<1>h. ASSUME history' = history,
             \A i \in DOMAIN history : session' # NoSession => history[i].of < session'.of
      PROVE  HistoryInOrder'
  <2>1. \A i \in DOMAIN history : Ahead(history[i].of, "finished")
    BY <1>t DEF HistoryInOrder, ToCome
  <2>2. \A i \in DOMAIN history' : ToCome(history[i].of, "finished")'
    BY <1>1, <1>2, <1>h, <2>1 DEF ToCome, Ahead, Precedes
  <2>3. \A i, k \in DOMAIN history : i < k => history[i].of < history[k].of BY <1>t DEF HistoryInOrder
  <2> QED BY <1>h, <2>2, <2>3 DEF HistoryInOrder, NoSession
<1>s. ASSUME born' = born, history' = history
      PROVE  born' \in Nat /\ history' \in Seq([of : Jobs, born : 1 .. born', result : {"finished", "error", "cancelled"}])
  BY <1>s, <1>t DEF TypeOK
<1>12. CASE handler.rep.status = "printing" /\ Status = "printing" /\ StartSession
  <2>1. PICK n \in Nat \ {0} : n = born + 1 /\ born' = n BY <1>12, <1>w DEF StartSession
  <2>2. /\ session' = [born |-> n, of |-> handler.rep.job, file |-> File, late |-> FALSE]
        /\ history' = history
    BY <1>12, <2>1 DEF StartSession
  <2>3. handler.rep.job \in Jobs BY <1>12, <1>w, <1>t, BambuConstants DEF PrintsHaveJobs, InPrint, Files, Jobs
  <2>4. /\ session'.born = n /\ session'.of = handler.rep.job /\ n # 0
        /\ session' # NoSession
    BY <2>1, <2>2 DEF NoSession
  <2>5. Ahead(handler.rep.job, "printing") BY <1>1, <1>12, <1>t DEF ReportsInOrder
  <2>6. \A i \in DOMAIN history : history[i].of < handler.rep.job
    <3>1. \A i \in DOMAIN history : Precedes(history[i].of, "finished", handler.rep)
      BY <1>1, <1>t DEF HistoryInOrder, ToCome
    <3> QED BY <1>12, <1>w, <3>1 DEF Precedes, Over, InPrint
  <2>7. history' \in Seq([of : Jobs, born : 1 .. n, result : {"finished", "error", "cancelled"}])
    <3>1. \A S, T : S \subseteq T /\ history \in Seq(S) => history \in Seq(T) OBVIOUS
    <3>2. [of : Jobs, born : 1 .. born, result : {"finished", "error", "cancelled"}]
             \subseteq [of : Jobs, born : 1 .. n, result : {"finished", "error", "cancelled"}]
      <4>1. 1 .. born \subseteq 1 .. n BY <1>w, <2>1
      <4> QED BY <4>1
    <3> QED BY <1>t, <2>2, <3>1, <3>2, ZenonT(60) DEF TypeOK
  <2>8. TypeOK'
    <3>1. session' \in [born : 0 .. n, of : Files, file : Files, late : BOOLEAN]
      BY <1>4, <1>w, <2>1, <2>2
    <3> QED BY <1>9, <2>1, <2>7, <3>1
  <2>9. SessionInOrder' BY <1>10, <2>3, <2>4, <2>5
  <2>10. HistoryInOrder' BY <1>h, <2>2, <2>4, <2>6
  <2>11. Tells(Status)' BY <1>3, <1>12, <2>4 DEF Tells, Between, Over, NoSession
  <2> QED BY <1>6, <1>7, <1>8, <1>11, <2>8, <2>9, <2>10, <2>11 DEF BambuInv, InOrder
<1>13. CASE handler.rep.status \in Between /\ Status = handler.rep.status /\ session # NoSession /\ EndSession
  <2>1. PICK r \in {"finished", "error", "cancelled"} :
          history' = Append(history, [of |-> session.of, born |-> session.born, result |-> r])
    BY <1>13 DEF EndSession
  <2>2. session' = NoSession /\ born' = born BY <1>13 DEF EndSession
  <2>3. session.of \in Jobs /\ ToCome(session.of, "printing") /\ session.born \in 1 .. born
    BY <1>13, <1>t, <1>w DEF SessionInOrder
  <2> DEFINE rec == [of |-> session.of, born |-> session.born, result |-> r]
             Recs == [of : Jobs, born : 1 .. born, result : {"finished", "error", "cancelled"}]
  <2>4. rec \in Recs /\ rec.of = session.of BY <2>1, <2>3
  <2>5. history \in Seq(Recs) BY <1>t DEF TypeOK
  <2>6. history' = Append(history, rec) BY <2>1
  <2> HIDE DEF rec, Recs
  <2>7. history' \in Seq(Recs) BY <2>4, <2>5, <2>6
  <2>8. PICK m \in Nat : /\ DOMAIN history = 1 .. m /\ DOMAIN history' = 1 .. (m + 1)
                         /\ \A i \in 1 .. m : history'[i] = history[i]
                         /\ history'[m + 1] = rec
    BY <2>4, <2>5, <2>6
  <2>9. TypeOK'
    <3>1. NoSession \in [born : 0 .. born, of : Files, file : Files, late : BOOLEAN]
      BY <1>w, BambuConstants DEF NoSession, Files
    <3> QED BY <1>9, <1>w, <2>2, <2>7, <3>1 DEF Recs
  <2>10. SessionInOrder' BY <1>10, <2>2
  <2>11. Tells(Status)' BY <1>3, <1>13, <2>2 DEF Tells, Between, Over, NoSession
  <2>12. Ahead(session.of, "finished")
    <3>1. Precedes(session.of, "printing", handler.rep) /\ Ahead(session.of, "printing")
      BY <1>1, <2>3 DEF ToCome
    <3>2. Ahead(handler.rep.job, handler.rep.status) BY <1>1, <1>t DEF ReportsInOrder
    <3>3. machine.job \in Nat /\ \A k \in DOMAIN wire : wire[k].job \in Nat BY <1>t, WireTypes
    <3>4. CASE session.of = handler.rep.job
      <4>1. handler.rep.status \in Over BY <1>13, <3>1, <3>4 DEF Precedes, Between, InPrint
      <4> QED BY <3>2, <3>4, <4>1 DEF Ahead, Precedes, Over, InPrint
    <3>5. CASE session.of # handler.rep.job
      <4>1. session.of < handler.rep.job BY <1>w, <3>1, <3>5 DEF Precedes
      <4>2. session.of < machine.job /\ \A k \in DOMAIN wire : session.of < wire[k].job
        BY <1>w, <3>2, <3>3, <4>1 DEF Ahead, Precedes
      <4> QED BY <1>w, <3>3, <4>2 DEF Ahead, Precedes
    <3> QED BY <3>4, <3>5
  <2>13. HistoryInOrder'
    <3>1. \A i \in DOMAIN history : Ahead(history[i].of, "finished") /\ history[i].of < session.of
      BY <1>13, <1>t DEF HistoryInOrder, ToCome
    <3>2. \A i \in DOMAIN history' : Ahead(history'[i].of, "finished")
      BY <2>4, <2>8, <2>12, <3>1
    <3>3. \A i \in DOMAIN history' : ToCome(history[i].of, "finished")'
      BY <1>1, <1>2, <3>2 DEF ToCome, Ahead, Precedes
    <3>4. \A i, k \in DOMAIN history' : i < k => history'[i].of < history'[k].of
      <4>1. ASSUME NEW i \in 1 .. (m + 1), NEW k \in 1 .. (m + 1), i < k
            PROVE  history'[i].of < history'[k].of
        <5>1. i \in 1 .. m BY <4>1
        <5>2. CASE k \in 1 .. m BY <1>t, <2>8, <4>1, <5>1, <5>2 DEF HistoryInOrder
        <5>3. CASE k = m + 1 BY <2>4, <2>8, <3>1, <5>1, <5>3
        <5> QED BY <4>1, <5>2, <5>3
      <4> QED BY <2>8, <4>1
    <3> QED BY <2>2, <3>3, <3>4 DEF HistoryInOrder, NoSession
  <2> QED BY <1>6, <1>7, <1>8, <1>11, <2>9, <2>10, <2>11, <2>13 DEF BambuInv, InOrder
<1>14. CASE /\ UNCHANGED <<born, history>> /\ session' = NoSession /\ Status # "printing"
  <2>1. NoSession \in [born : 0 .. born, of : Files, file : Files, late : BOOLEAN]
    BY <1>w, BambuConstants DEF NoSession, Files
  <2>2. TypeOK' BY <1>9, <1>14, <1>s, <2>1
  <2>3. SessionInOrder' /\ HistoryInOrder' BY <1>10, <1>14, <1>h
  <2>4. Tells(Status)' BY <1>3, <1>14 DEF Tells, NoSession, Between, Over
  <2> QED BY <1>6, <1>7, <1>8, <1>11, <2>2, <2>3, <2>4 DEF BambuInv, InOrder
<1>15. CASE /\ UNCHANGED <<born, history>>
            /\ session # NoSession /\ session'.born = session.born /\ session'.of = session.of
            /\ session' \in [born : 0 .. born, of : Files, file : Files, late : BOOLEAN]
            /\ Status \notin Between
  <2>1. session.born # 0 /\ session.of \in Jobs /\ Ahead(session.of, "printing")
    BY <1>15, <1>t DEF SessionInOrder, ToCome
  <2>2. session' # NoSession BY <1>15, <2>1 DEF NoSession
  <2>3. TypeOK' BY <1>9, <1>15, <1>s
  <2>4. SessionInOrder' BY <1>10, <1>15, <2>1
  <2>5. HistoryInOrder' BY <1>15, <1>h, <1>t DEF HistoryInOrder
  <2>6. Tells(Status)' BY <1>3, <1>15, <2>2 DEF Tells, NoSession, Between, Over
  <2> QED BY <1>6, <1>7, <1>8, <1>11, <2>3, <2>4, <2>5, <2>6 DEF BambuInv, InOrder
<1> QED BY <1>12, <1>13, <1>14, <1>15, TrackCases

-----------------------------------------------------------------------------
(* No order of reports, drops, edits and steps of the handler breaks it.     *)
LEMMA BambuStep == BambuInv /\ [Next]_vars => BambuInv'
<1>1. BambuInv /\ UNCHANGED vars => BambuInv'
  BY DEF vars, BambuInv, TypeOK, InOrder, PrintsHaveJobs, ReportsInOrder, SessionInOrder, HistoryInOrder, StateTells,
     Tells, LinkOK, ToCome, Ahead, Precedes, Status, NoSession, Jobs
<1> QED BY <1>1, SendStep, ClearStep, ReceiveStep, TrackStep, StoreStep, LinkStep DEF Next, Connection, Handle

(* The variables of the print sessions keep their types.                     *)
THEOREM BambuTypes == Spec => []TypeOK
<1>1. Spec => []BambuInv BY BambuInit, BambuStep, PTL DEF Spec
<1>2. BambuInv => TypeOK BY DEF BambuInv
<1> QED BY <1>1, <1>2, PTL

(* Every part of the run keeps it too.                                       *)
LEMMA MCBambuInv == MCSpec => []BambuInv
<1>1. MCInit => BambuInv BY BambuInit DEF MCInit
<1>2. SessionStep => Next BY DEF SessionStep
<1>3. StartStep \/ SkipStep \/ CameraStep \/ PaceStep \/ FileStep => UNCHANGED vars
  BY DEF StartStep, SkipStep, CameraStep, PaceStep, FileStep
<1>4. BambuInv /\ [SessionStep \/ StartStep \/ SkipStep \/ CameraStep \/ PaceStep \/ FileStep]_<<
                     part, vars, startVars, skipVars, hubVars, paceVars, transferVars>> => BambuInv'
  BY <1>2, <1>3, BambuStep
<1> QED BY <1>1, <1>4, PTL DEF MCSpec

(* A print is recorded once, whatever the connection, the edits and the      *)
(* order of the handler's steps and the goroutine's do.                      *)
THEOREM BambuPrintsAreRecordedOnce == MCSpec => []RecordedOnce
<1>1. BambuInv => RecordedOnce
  <2> SUFFICES ASSUME BambuInv, NEW j \in Jobs
               PROVE  Cardinality({i \in DOMAIN history : history[i].of = j}) <= 1
    BY DEF RecordedOnce
  <2>1. PICK S : S = {i \in DOMAIN history : history[i].of = j} OBVIOUS
  <2>2. \A i, k \in S : i = k
    <3>1. \A i, k \in DOMAIN history : i < k => history[i].of < history[k].of
      BY DEF BambuInv, InOrder, HistoryInOrder
    <3>2. \A i \in DOMAIN history : i \in Nat BY DEF BambuInv, TypeOK
    <3>3. j \in Nat BY BambuConstants DEF Jobs
    <3> QED BY <2>1, <3>1, <3>2, <3>3
  <2>3. Cardinality(S) <= 1
    <3>1. CASE S = {} BY <3>1, FS_EmptySet
    <3>2. CASE S # {}
      <4>1. PICK i : i \in S BY <3>2
      <4>2. S = {i} BY <2>2, <4>1
      <4>3. Cardinality(S) = 1 BY <4>2, FS_Singleton, Zenon
      <4> QED BY <4>3
    <3> QED BY <3>1, <3>2
  <2> QED BY <2>1, <2>3
<1> QED BY <1>1, MCBambuInv, PTL

-----------------------------------------------------------------------------
(* Where the reports carry the file's name: the session is of the print that *)
(* the reports under way are of.                                             *)
Named ==
    /\ \A k \in DOMAIN wire : wire[k].status # "same" => wire[k].file = wire[k].job
    /\ handler.rep.status # "same" => handler.rep.file = handler.rep.job
    /\ session.file = session.of

(* The print that the machine, and all reports of a print, are at is j.      *)
OfPrint(j) ==
    /\ machine.status \in InPrint => machine.job = j
    /\ \A k \in DOMAIN wire : wire[k].status \in InPrint => wire[k].job = j

PrepareComes == \E m \in DOMAIN wire : wire[m].status = "prepare"

WireOfPrint ==
    \A k \in DOMAIN wire : wire[k].status \in InPrint =>
        /\ OfPrint(wire[k].job)
        /\ machine.status = "prepare" => \E m \in DOMAIN wire : k < m /\ wire[m].status = "prepare"

ReportOfPrint ==
    handler.at # "none" /\ handler.rep.status \in InPrint =>
        OfPrint(handler.rep.job) /\ (machine.status = "prepare" => PrepareComes)

(* The next print's preparation is still to be heard of, or the connection   *)
(* comes to tell.                                                            *)
Carries(j) ==
    OfPrint(j) /\ (machine.status = "prepare" => PrepareComes \/ link \in {"lost", "stopped", "subscribed"})

SessionOfPrint ==
    session # NoSession =>
        /\ handler.at = "none" /\ state.status \in InPrint => Carries(session.of)
        /\ handler.at = "read" /\ handler.prev.status \in InPrint =>
             /\ handler.rep.status \in InPrint => handler.rep.job = session.of
             /\ handler.rep.status \notin Between => Carries(session.of)
        /\ handler.at = "tracked" /\ Status \in InPrint => Carries(session.of)

NameInv == Named /\ WireOfPrint /\ ReportOfPrint /\ SessionOfPrint

LEMMA NameInit == Init => NameInv
BY DEF Init, NameInv, Named, WireOfPrint, ReportOfPrint, SessionOfPrint, NoSession, NoReport

(* What a step of the machine or of the connection sends.                    *)
LEMMA SendKinds ==
    ASSUME BambuInv, MachineStep \/ Pushall \/ MarkConnected
    PROVE  /\ machine'.status \in InPrint =>
                \/ machine.status \in InPrint /\ machine'.job = machine.job
                \/ /\ machine.status = "prepare" /\ link \in {"live", "waiting"}
                   /\ \A k \in DOMAIN wire : wire[k].status # "prepare"
           /\ \E e \in Report :
                /\ e.job = machine'.job /\ (e.status \in InPrint => machine'.status \in InPrint)
                /\ \/ /\ wire' = Append(wire, e)
                      /\ machine'.status = "prepare" =>
                            e.status = "prepare" \/ (machine.status = "prepare" /\ link' = link)
                   \/ /\ wire' = wire /\ link \notin Listening
                      /\ machine'.status = "prepare" => link = "waiting"
           /\ UNCHANGED <<handler, session>>
           /\ (link' = link /\ state' = state) \/ (link' = "live" /\ state'.status = "connected")
<1>t. TypeOK BY DEF BambuInv
<1>0. machine \in [job : Files, status : Machine] /\ MaxJobs \in Nat BY <1>t, BambuConstants DEF TypeOK
<1>1. ASSUME NEW j \in Files, NEW s \in Machine, Become(j, s)
      PROVE  /\ machine'.job = j /\ machine'.status = s
             /\ \E e \in Report : /\ e.job = machine'.job /\ e.status = machine'.status
                                  /\ wire' = Append(wire, e) \/ (wire' = wire /\ link \notin Listening)
             /\ UNCHANGED <<handler, session, link, state>>
  <2>1. PICK f \in {0, j} : Send(s, f) BY <1>1 DEF Become
  <2>2. machine' = [job |-> j, status |-> s] /\ UNCHANGED <<handler, session, link, state>> BY <1>1 DEF Become
  <2>3. machine'.job = j /\ machine'.status = s BY <2>2
  <2>4. PICK e \in Report : e = [status |-> s, file |-> f, job |-> j]
    <3>1. f \in Files BY <1>0, <2>1 DEF Files
    <3> QED BY <3>1 DEF Report
  <2>5. wire' = Append(wire, e) \/ (wire' = wire /\ link \notin Listening) BY <2>1, <2>3, <2>4 DEF Send
  <2> QED BY <2>2, <2>3, <2>4, <2>5
<1>2. CASE PreparePrint
  <2>1. PICK j \in Files : j = machine.job + 1 BY <1>0, <1>2 DEF PreparePrint, Files
  <2>2. Become(j, "prepare") /\ "prepare" \in Machine /\ link \in {"live", "waiting"}
    BY <1>2, <2>1 DEF PreparePrint, Machine
  <2> QED BY <1>1, <2>2 DEF Listening, InPrint
<1>3. CASE StartPrint
  <2>1. /\ Become(machine.job, "printing") /\ "printing" \in Machine /\ link \in {"live", "waiting"}
        /\ machine.status = "prepare" /\ \A k \in DOMAIN wire : wire[k].status # "prepare"
    BY <1>3 DEF StartPrint, Machine, InPrint
  <2> QED BY <1>0, <1>1, <2>1
<1>4. CASE PauseOrResume \/ EndPrint
  <2>1. PICK s \in InPrint \cup Over : Become(machine.job, s) /\ machine.status \in InPrint
    BY <1>4 DEF PauseOrResume, EndPrint, InPrint, Over
  <2>2. s \in Machine /\ s # "prepare" BY <2>1 DEF Machine, InPrint, Over
  <2>3. machine.job \in Files BY <1>0
  <2> QED BY <1>1, <2>1, <2>2, <2>3
<1>5. CASE ReportDelta
  <2>1. /\ UNCHANGED <<machine, link, state, handler, session>> /\ link \in Listening
        /\ Send("same", 0)
    BY <1>5 DEF ReportDelta
  <2>2. PICK e \in Report : e = [status |-> "same", file |-> 0, job |-> machine.job]
    <3>1. 0 \in Files /\ machine.job \in Files BY <1>0 DEF Files
    <3> QED BY <3>1 DEF Report
  <2>3. wire' = Append(wire, e) BY <2>1, <2>2 DEF Send
  <2> QED BY <2>1, <2>2, <2>3 DEF InPrint
<1>6. CASE Pushall \/ MarkConnected
  <2>1. /\ UNCHANGED <<machine, handler, session>> /\ wire' = Append(wire, FullReport)
        /\ (link' = link /\ state' = state) \/ (link' = "live" /\ state'.status = "connected")
    BY <1>6 DEF Pushall, MarkConnected
  <2>2. FullReport \in Report /\ FullReport.job = machine.job /\ FullReport.status = machine.status
    BY <1>0 DEF FullReport, Report
  <2> QED BY <2>1, <2>2
<1> QED BY <1>2, <1>3, <1>4, <1>5, <1>6 DEF MachineStep

LEMMA NameSends ==
    ASSUME BambuInv, NameInv, NamesCome, MachineStep \/ Pushall \/ MarkConnected
    PROVE  NameInv'
<1>t. /\ TypeOK /\ LinkOK /\ Named /\ WireOfPrint /\ ReportOfPrint /\ SessionOfPrint
  BY DEF BambuInv, NameInv
<1>1. /\ machine'.status \in InPrint =>
           \/ machine.status \in InPrint /\ machine'.job = machine.job
           \/ /\ machine.status = "prepare" /\ link \in {"live", "waiting"}
              /\ \A k \in DOMAIN wire : wire[k].status # "prepare"
      /\ UNCHANGED <<handler, session>>
      /\ (link' = link /\ state' = state) \/ (link' = "live" /\ state'.status = "connected")
  BY SendKinds
<1>2. PICK e \in Report :
        /\ e.job = machine'.job /\ (e.status \in InPrint => machine'.status \in InPrint)
        /\ \/ /\ wire' = Append(wire, e)
              /\ machine'.status = "prepare" =>
                    e.status = "prepare" \/ (machine.status = "prepare" /\ link' = link)
           \/ /\ wire' = wire /\ link \notin Listening
              /\ machine'.status = "prepare" => link = "waiting"
  BY SendKinds
<1>w. wire \in Seq(Report) /\ DOMAIN wire = 1 .. Len(wire) /\ Len(wire) \in Nat
  BY <1>t, WireTypes DEF TypeOK
<1>3. /\ \A k \in DOMAIN wire : k \in DOMAIN wire' /\ wire'[k] = wire[k]
      /\ \A k \in DOMAIN wire' : \/ k \in DOMAIN wire
                                 \/ wire' = Append(wire, e) /\ wire'[k] = e
      /\ wire' = Append(wire, e) => \E k \in DOMAIN wire' : wire'[k] = e /\ \A i \in DOMAIN wire : i < k
  <2>1. CASE wire' = wire /\ link \notin Listening
    <3>1. wire = <<>> BY <1>t, <2>1 DEF LinkOK
    <3>2. wire' # Append(wire, e) BY <2>1, <3>1
    <3> QED BY <2>1, <3>2
  <2>2. CASE wire' = Append(wire, e)
    <3>1. /\ DOMAIN wire' = 1 .. Len(wire) + 1 /\ wire'[Len(wire) + 1] = e
          /\ \A k \in 1 .. Len(wire) : wire'[k] = wire[k]
      BY <1>w, <2>2, WireAppends
    <3>2. PICK n \in Nat : n = Len(wire) + 1 BY <1>w
    <3>3. /\ \A k \in 1 .. Len(wire) : k \in 1 .. n /\ k < n
          /\ \A k \in 1 .. n : k \in 1 .. Len(wire) \/ k = n
          /\ n \in 1 .. n
      BY <1>w, <3>2
    <3> QED BY <1>w, <2>2, <3>1, <3>2, <3>3
  <2> QED BY <1>2, <2>1, <2>2
<1>4. PrepareComes => PrepareComes' BY <1>3 DEF PrepareComes
<1>5. machine'.status = "prepare" =>
         PrepareComes' \/ (machine.status = "prepare" /\ link' = link) \/ link = "waiting"
  BY <1>2, <1>3 DEF PrepareComes
<1>6. ASSUME NEW j, OfPrint(j), machine.status = "prepare" => PrepareComes \/ link \in {"lost", "stopped", "subscribed"}
      PROVE  OfPrint(j)'
  <2>1. machine'.status \in InPrint => machine.status \in InPrint /\ machine'.job = machine.job
    BY <1>1, <1>6 DEF PrepareComes
  <2>2. machine'.status \in InPrint => machine'.job = j BY <1>6, <2>1 DEF OfPrint
  <2>3. \A k \in DOMAIN wire' : wire'[k].status \in InPrint => wire'[k].job = j
    BY <1>2, <1>3, <1>6, <2>2 DEF OfPrint
  <2> QED BY <2>2, <2>3 DEF OfPrint
<1>7. ASSUME NEW j, Carries(j), link # "waiting" PROVE Carries(j)'
  <2>1. OfPrint(j)' BY <1>6, <1>7 DEF Carries
  <2>2. machine'.status = "prepare" => PrepareComes' \/ link' \in {"lost", "stopped", "subscribed"}
    BY <1>4, <1>5, <1>7 DEF Carries
  <2> QED BY <2>1, <2>2 DEF Carries, OfPrint
<1>8. Named'
  BY <1>1, <1>t DEF Named, NamesCome
<1>9. WireOfPrint'
  <2>1. ASSUME NEW k \in DOMAIN wire', wire'[k].status \in InPrint
        PROVE  /\ machine'.status \in InPrint => machine'.job = wire'[k].job
               /\ \A l \in DOMAIN wire' : wire'[l].status \in InPrint => wire'[l].job = wire'[k].job
               /\ machine'.status = "prepare" => \E m \in DOMAIN wire' : k < m /\ wire'[m].status = "prepare"
    <3>1. CASE k \in DOMAIN wire
      <4>0. PICK j : j = wire[k].job OBVIOUS
      <4>1. wire'[k] = wire[k] BY <1>3, <3>1
      <4>2. OfPrint(j) /\ (machine.status = "prepare" => \E m \in DOMAIN wire : k < m /\ wire[m].status = "prepare")
        BY <1>t, <2>1, <3>1, <4>0, <4>1 DEF WireOfPrint
      <4>3. OfPrint(j)' BY <1>6, <4>2 DEF PrepareComes
      <4>4. machine'.status = "prepare" => \E m \in DOMAIN wire' : k < m /\ wire'[m].status = "prepare"
        <5>1. link \in Listening BY <1>t, <3>1 DEF LinkOK
        <5> QED BY <1>2, <1>3, <3>1, <4>2, <5>1
      <4> QED BY <4>0, <4>1, <4>3, <4>4 DEF OfPrint
    <3>2. CASE k \notin DOMAIN wire
      <4>1. wire'[k] = e /\ machine'.status \in InPrint /\ e.job = machine'.job BY <1>2, <1>3, <2>1, <3>2
      <4>2. \A l \in DOMAIN wire : wire[l].status \in InPrint => wire[l].job = machine'.job
        BY <1>1, <1>t, <4>1 DEF WireOfPrint, OfPrint
      <4>3. \A l \in DOMAIN wire' : wire'[l].status \in InPrint => wire'[l].job = machine'.job
        BY <1>3, <4>1, <4>2
      <4> QED BY <4>1, <4>3 DEF InPrint
    <3> QED BY <3>1, <3>2
  <2> QED BY <2>1 DEF WireOfPrint, OfPrint
<1>10. ReportOfPrint'
  <2>1. SUFFICES ASSUME handler.at # "none", handler.rep.status \in InPrint
                 PROVE  OfPrint(handler.rep.job)' /\ (machine'.status = "prepare" => PrepareComes')
    BY <1>1 DEF ReportOfPrint, OfPrint
  <2>2. link \in Listening BY <1>t, <2>1 DEF LinkOK
  <2>3. OfPrint(handler.rep.job) /\ (machine.status = "prepare" => PrepareComes) BY <1>t, <2>1 DEF ReportOfPrint
  <2>4. PICK j : j = handler.rep.job OBVIOUS
  <2>5. OfPrint(j)' BY <1>6, <2>3, <2>4
  <2>6. machine'.status = "prepare" => PrepareComes' BY <1>4, <1>5, <2>2, <2>3 DEF Listening
  <2> QED BY <1>1, <2>4, <2>5, <2>6 DEF OfPrint
<1>11. SessionOfPrint'
  <2>1. SUFFICES ASSUME session # NoSession
                 PROVE  /\ handler.at = "none" /\ state'.status \in InPrint => Carries(session.of)'
                        /\ handler.at = "read" /\ handler.prev.status \in InPrint =>
                             /\ handler.rep.status \in InPrint => handler.rep.job = session.of
                             /\ handler.rep.status \notin Between => Carries(session.of)'
                        /\ handler.at = "tracked" /\ Status \in InPrint => Carries(session.of)'
    BY <1>1 DEF SessionOfPrint, Carries, OfPrint, Status, NoSession
  <2>2. PICK j : j = session.of OBVIOUS
  <2>3. Carries(j) /\ link # "waiting" => Carries(session.of)'
    BY <1>1, <1>7, <2>2 DEF Carries, OfPrint
  <2>4. state'.status \in InPrint => state' = state BY <1>1 DEF InPrint
  <2>5. link = "waiting" => handler.at = "none" /\ state.status \notin InPrint
    BY <1>t DEF LinkOK, Listening, Bridge, InPrint
  <2> QED BY <1>t, <2>1, <2>2, <2>3, <2>4, <2>5 DEF SessionOfPrint
<1> QED BY <1>8, <1>9, <1>10, <1>11 DEF NameInv

LEMMA NameClears ==
    ASSUME BambuInv, NameInv, Drop \/ Restart \/ Rename PROVE NameInv'
<1>t. Named /\ SessionOfPrint BY DEF NameInv
<1>1. /\ wire' = <<>> /\ handler.at = "none"
      /\ UNCHANGED <<machine, handler, session>>
      /\ state' \in {state, NoState} /\ link' \in {"lost", "stopped"}
  BY DEF Drop, Restart, Rename, Stop
<1>2. Named' BY <1>1, <1>t DEF Named
<1>3. WireOfPrint' /\ ReportOfPrint' BY <1>1 DEF WireOfPrint, ReportOfPrint
<1>4. SessionOfPrint'
  BY <1>1, <1>t DEF SessionOfPrint, Carries, OfPrint, NoState, InPrint, NoSession
<1> QED BY <1>2, <1>3, <1>4 DEF NameInv

LEMMA NameReceives ==
    ASSUME BambuInv, NameInv, Receive PROVE NameInv'
<1>t. /\ TypeOK /\ Named /\ WireOfPrint /\ SessionOfPrint
  BY DEF BambuInv, NameInv
<1>1. /\ handler.at = "none" /\ wire # <<>>
      /\ handler' = [at |-> "read", rep |-> Head(wire), prev |-> state]
      /\ wire' = Tail(wire)
      /\ UNCHANGED <<machine, link, session>>
  BY DEF Receive
<1>w. wire \in Seq(Report) /\ machine.job \in Nat BY <1>t, WireTypes DEF TypeOK
<1>2. /\ Head(wire) = wire[1] /\ Len(wire) \in Nat \ {0}
      /\ DOMAIN wire = 1 .. Len(wire) /\ DOMAIN Tail(wire) = 1 .. Len(wire) - 1
      /\ \A k \in 1 .. Len(wire) - 1 : Tail(wire)[k] = wire[k + 1]
  BY <1>1, <1>w, WireTails
<1>3. /\ 1 \in DOMAIN wire
      /\ \A k \in DOMAIN wire' : k + 1 \in DOMAIN wire /\ wire'[k] = wire[k + 1]
      /\ \A m \in DOMAIN wire : m # 1 => m - 1 \in DOMAIN wire' /\ wire'[m - 1] = wire[m]
  <2>1. \A m \in 1 .. Len(wire) : m # 1 => m - 1 \in 1 .. Len(wire) - 1 /\ (m - 1) + 1 = m
    BY <1>2
  <2> QED BY <1>1, <1>2, <2>1
<1>4. handler'.rep = wire[1] /\ handler'.at = "read" /\ handler'.prev = state
  BY <1>1, <1>2
<1>5. \A j : OfPrint(j) => OfPrint(j)'
  <2> SUFFICES ASSUME NEW j, OfPrint(j) PROVE OfPrint(j)'
    OBVIOUS
  <2>1. \A k \in DOMAIN wire' : wire'[k].status \in InPrint => wire'[k].job = j BY <1>3 DEF OfPrint
  <2> QED BY <1>1, <2>1 DEF OfPrint
<1>6. Named' BY <1>1, <1>3, <1>4, <1>t DEF Named
<1>7. \A k \in DOMAIN wire : k \in Nat BY <1>2
<1>8. WireOfPrint'
  <2>1. ASSUME NEW k \in DOMAIN wire', wire'[k].status \in InPrint
        PROVE  /\ \E j : j = wire'[k].job /\ OfPrint(j)'
               /\ machine.status = "prepare" => \E m \in DOMAIN wire' : k < m /\ wire'[m].status = "prepare"
    <3>1. PICK j : j = wire[k + 1].job OBVIOUS
    <3>2. /\ OfPrint(j)
          /\ machine.status = "prepare" => \E m \in DOMAIN wire : k + 1 < m /\ wire[m].status = "prepare"
      BY <1>3, <1>t, <2>1, <3>1 DEF WireOfPrint
    <3>3. OfPrint(j)' BY <1>5, <3>2
    <3>4. k \in Nat BY <1>1, <1>2
    <3>5. ASSUME NEW m \in DOMAIN wire, k + 1 < m, wire[m].status = "prepare"
          PROVE  \E i \in DOMAIN wire' : k < i /\ wire'[i].status = "prepare"
      <4>1. m # 1 /\ k < m - 1 BY <1>7, <3>4, <3>5
      <4>2. m - 1 \in DOMAIN wire' /\ wire'[m - 1].status = "prepare" BY <1>3, <3>5, <4>1
      <4> QED BY <4>1, <4>2
    <3> QED BY <1>3, <3>1, <3>2, <3>3, <3>5
  <2> QED BY <1>1, <2>1 DEF WireOfPrint, OfPrint
<1>9. PrepareComes /\ wire[1].status # "prepare" => PrepareComes'
  <2>1. ASSUME NEW m \in DOMAIN wire, wire[m].status = "prepare", m # 1
        PROVE  PrepareComes'
    <3>1. m - 1 \in DOMAIN wire' /\ wire'[m - 1].status = "prepare" BY <1>3, <2>1
    <3> QED BY <3>1 DEF PrepareComes
  <2> QED BY <2>1 DEF PrepareComes
<1>10. ReportOfPrint'
  <2>1. ASSUME wire[1].status \in InPrint
        PROVE  /\ OfPrint(wire[1].job)
               /\ machine.status = "prepare" => PrepareComes'
    <3>1. /\ OfPrint(wire[1].job)
          /\ machine.status = "prepare" => PrepareComes
      BY <1>3, <1>t, <2>1 DEF WireOfPrint, PrepareComes
    <3> QED BY <1>9, <2>1, <3>1 DEF InPrint
  <2>2. PICK j : j = wire[1].job OBVIOUS
  <2>3. wire[1].status \in InPrint => OfPrint(j)' BY <1>5, <2>1, <2>2
  <2> QED BY <1>1, <1>4, <2>1, <2>2, <2>3 DEF ReportOfPrint, OfPrint
<1>11. SessionOfPrint'
  <2>1. SUFFICES ASSUME session # NoSession, state.status \in InPrint
                 PROVE  /\ wire[1].status \in InPrint => wire[1].job = session.of
                        /\ wire[1].status \notin Between => Carries(session.of)'
    BY <1>1, <1>4 DEF SessionOfPrint, NoSession, Carries, OfPrint
  <2>2. Carries(session.of) BY <1>1, <1>t, <2>1 DEF SessionOfPrint
  <2>3. wire[1].status \in InPrint => wire[1].job = session.of BY <1>3, <2>2 DEF Carries, OfPrint
  <2>4. ASSUME wire[1].status \notin Between PROVE Carries(session.of)'
    <3>1. PICK j : j = session.of OBVIOUS
    <3>2. OfPrint(j)' BY <1>5, <2>2, <3>1 DEF Carries
    <3>3. machine.status = "prepare" => PrepareComes' \/ link \in {"lost", "stopped", "subscribed"}
      BY <1>9, <2>2, <2>4 DEF Carries, Between
    <3> QED BY <1>1, <3>1, <3>2, <3>3 DEF Carries, OfPrint
  <2> QED BY <2>3, <2>4
<1> QED BY <1>6, <1>8, <1>10, <1>11 DEF NameInv

(* A session that is kept is the report's print's; one that goes was         *)
(* recorded, is late, or of a print the machine has left.                    *)
LEMMA NameTracks ==
    ASSUME BambuInv, NameInv, Track
    PROVE  /\ Named' /\ SessionOfPrint'
           /\ handler.rep.status \in InPrint => session'.of \in {0, handler.rep.job}
           /\ CarriesOn
<1>t. /\ TypeOK /\ PrintsHaveJobs /\ SessionInOrder /\ StateTells /\ Named /\ ReportOfPrint /\ SessionOfPrint
      /\ ReportsInOrder
  BY DEF BambuInv, InOrder, NameInv
<1>1. /\ handler.at = "read" /\ handler' = [handler EXCEPT !.at = "tracked"]
      /\ UNCHANGED <<machine, link, wire, state>>
  BY TrackCases
<1>2. handler'.at = "tracked" /\ handler'.rep = handler.rep /\ handler'.prev = handler.prev
  BY <1>1, <1>t DEF TypeOK
<1>3. Status' = Status BY <1>2 DEF Status
<1>4. Tells(handler.prev.status) /\ handler.prev.status \in Machine \cup Bridge
  BY <1>1, <1>t DEF StateTells, TypeOK, State
<1>5. /\ handler.rep.status = "same" => Status = handler.prev.status
      /\ handler.rep.status # "same" => Status = handler.rep.status
  BY DEF Status
<1>6. handler.rep.status \in InPrint => /\ handler.rep.file = handler.rep.job /\ handler.rep.job # 0
                                        /\ Status \in InPrint /\ File = handler.rep.job
  <2>1. handler.rep.status \in InPrint => Status = handler.rep.status BY <1>5 DEF InPrint
  <2> QED BY <1>t, <2>1 DEF Named, PrintsHaveJobs, File, InPrint
<1>7. handler.rep.status \in InPrint => Carries(handler.rep.job)
  BY <1>1, <1>t DEF ReportOfPrint, Carries
<1>8. ASSUME session' = NoSession \/ (Status \in InPrint => Carries(session'.of))
      PROVE  SessionOfPrint'
  BY <1>1, <1>2, <1>3, <1>8 DEF SessionOfPrint, Carries, OfPrint, PrepareComes, NoSession
<1>9. ASSUME Dropped, ~session.late
      PROVE  machine.job # session.of
  <2>1. /\ Reconnected /\ Status \in InPrint /\ session # NoSession
        /\ File = 0 \/ session.file # File
    BY <1>9 DEF Dropped, Resumes
  <2>2. handler.rep.status \in InPrint BY <1>5, <2>1 DEF Reconnected, Bridge, InPrint
  <2>3. session.of # handler.rep.job BY <1>6, <1>t, <2>1, <2>2 DEF Named
  <2>4. session.of \in Nat /\ handler.rep.job \in Nat /\ machine.job \in Nat BY <1>t, WireTypes
  <2>5. session.of <= handler.rep.job BY <1>1, <1>t, <2>1 DEF SessionInOrder, ToCome, Precedes
  <2>6. handler.rep.job <= machine.job BY <1>1, <1>t DEF ReportsInOrder, Ahead, Precedes
  <2> QED BY <2>3, <2>4, <2>5, <2>6
<1>10. CASE /\ handler.rep.status = "printing" /\ Status = "printing"
            /\ session = NoSession \/ Dropped \/ (handler.prev.status \notin InPrint /\ ~Reconnected)
            /\ StartSession
  <2>1. session'.of = handler.rep.job /\ session'.file = File BY <1>10 DEF StartSession
  <2>2. handler.rep.status \in InPrint BY <1>10 DEF InPrint
  <2>3. Named' BY <1>1, <1>2, <1>6, <1>t, <2>1, <2>2 DEF Named
  <2>4. SessionOfPrint' BY <1>7, <1>8, <2>1, <2>2
  <2>5. session = NoSession \/ Dropped
    <3>1. CASE handler.prev.status \notin InPrint /\ ~Reconnected
      <4>1. handler.prev.status \in Between BY <1>4, <3>1 DEF Reconnected, Machine, Between
      <4> QED BY <1>4, <4>1 DEF Tells
    <3> QED BY <1>10, <3>1
  <2>6. CarriesOn BY <1>9, <2>5 DEF CarriesOn, Gone
  <2> QED BY <2>1, <2>3, <2>4, <2>6
<1>11. CASE handler.rep.status \in Between /\ Status = handler.rep.status /\ session # NoSession /\ EndSession
  <2>1. session' = NoSession BY <1>11 DEF EndSession
  <2>2. Recorded
    <3>1. PICK r : history' = Append(history, [of |-> session.of, born |-> session.born, result |-> r])
      BY <1>11 DEF EndSession
    <3>2. \A S : \A x, s : s \in Seq(S) => Append(s, x) # s /\ Append(s, x)[Len(Append(s, x))] = x
      <4>1. ASSUME NEW S, NEW s \in Seq(S), NEW x
            PROVE  Len(Append(s, x)) = Len(s) + 1 /\ Len(s) \in Nat /\ Append(s, x)[Len(s) + 1] = x
        OBVIOUS
      <4> QED BY <4>1
    <3>3. PICK x : x = [of |-> session.of, born |-> session.born, result |-> r] OBVIOUS
    <3>4. history' # history /\ history'[Len(history')] = x BY <1>t, <3>1, <3>2, <3>3 DEF TypeOK
    <3> QED BY <3>3, <3>4 DEF Recorded
  <2>3. handler.rep.status \notin InPrint BY <1>11 DEF Between, Over, InPrint
  <2> QED BY <1>1, <1>2, <1>8, <1>t, <2>1, <2>2, <2>3 DEF Named, NoSession, CarriesOn
<1>12. CASE session' = NoSession /\ (session = NoSession \/ Dropped)
  <2>1. CarriesOn BY <1>9, <1>12 DEF CarriesOn, Gone
  <2> QED BY <1>1, <1>2, <1>8, <1>12, <1>t, <2>1 DEF Named, NoSession
<1>13. CASE /\ session # NoSession /\ session'.born = session.born /\ session'.of = session.of
            /\ session'.file = session.file \/ (session.file = 0 /\ Status = "printing" /\ session'.file = File)
            /\ Status \notin Between /\ ~Dropped
  <2>1. session.file # 0 BY <1>13, <1>t, BambuConstants DEF Named, SessionInOrder, Jobs
  <2>2. Named' BY <1>1, <1>2, <1>13, <1>t, <2>1 DEF Named
  <2>3. CarriesOn BY <1>13 DEF CarriesOn, Gone
  <2>4. ASSUME Status \in InPrint
        PROVE  /\ Carries(session.of)
               /\ handler.rep.status \in InPrint => session.of = handler.rep.job
    <3>1. CASE handler.prev.status \in InPrint
      <4>1. handler.rep.status \notin Between BY <1>5, <1>13 DEF Between, Over
      <4> QED BY <1>1, <1>13, <1>t, <3>1, <4>1 DEF SessionOfPrint
    <3>2. CASE handler.prev.status \notin InPrint
      <4>1. handler.prev.status \notin Between BY <1>4, <1>13 DEF Tells
      <4>2. Reconnected BY <1>4, <3>2, <4>1 DEF Reconnected, Machine, Between
      <4>3. handler.rep.status \in InPrint BY <1>5, <2>4, <3>2
      <4>4. session.file = File BY <1>13, <2>4, <4>2 DEF Dropped, Resumes
      <4>5. session.of = handler.rep.job BY <1>6, <1>t, <4>3, <4>4 DEF Named
      <4> QED BY <1>7, <4>3, <4>5
    <3> QED BY <3>1, <3>2
  <2>5. SessionOfPrint' BY <1>8, <1>13, <2>4
  <2> QED BY <1>6, <1>13, <2>2, <2>3, <2>4, <2>5
<1> QED BY <1>10, <1>11, <1>12, <1>13, TrackCases

LEMMA NameStores ==
    ASSUME BambuInv, NameInv, Store PROVE NameInv'
<1>t. Named /\ WireOfPrint /\ SessionOfPrint BY DEF NameInv
<1>1. /\ handler.at = "tracked"
      /\ state' = [status |-> Status, file |-> File]
      /\ handler' = [at |-> "none", rep |-> NoReport, prev |-> NoState]
      /\ UNCHANGED <<machine, link, wire, session>>
  BY DEF Store
<1>2. Named' BY <1>1, <1>t DEF Named, NoReport
<1>3. WireOfPrint' /\ ReportOfPrint' BY <1>1, <1>t DEF WireOfPrint, ReportOfPrint, OfPrint
<1>4. SessionOfPrint' BY <1>1, <1>t DEF SessionOfPrint, Carries, OfPrint, PrepareComes, NoSession
<1> QED BY <1>2, <1>3, <1>4 DEF NameInv

LEMMA NameLinks ==
    ASSUME BambuInv, NameInv, Subscribe \/ MarkDisconnected \/ GraceRunsOut PROVE NameInv'
<1>t. TypeOK /\ Named /\ WireOfPrint /\ SessionOfPrint /\ LinkOK BY DEF NameInv, BambuInv
<1>1. /\ link \notin Listening
      /\ UNCHANGED <<machine, wire, handler>>
      /\ session' = session \/ (session # NoSession /\ session' = [session EXCEPT !.late = TRUE])
      /\ \/ state' = NoState
         \/ state' = state /\ (link' = link \/ (link' = "subscribed" /\ link \in {"stopped", "waiting"}))
  BY DEF Subscribe, MarkDisconnected, GraceRunsOut, Listening
<1>2. handler.at = "none" /\ wire = <<>> BY <1>1, <1>t DEF LinkOK
<1>3. session'.of = session.of /\ session'.file = session.file /\ (session' # NoSession => session # NoSession)
  BY <1>1, <1>t DEF TypeOK
<1>4. Named' BY <1>1, <1>3, <1>t DEF Named
<1>5. WireOfPrint' /\ ReportOfPrint' BY <1>1, <1>2 DEF WireOfPrint, ReportOfPrint
<1>6. SessionOfPrint'
  <2>1. SUFFICES ASSUME session # NoSession, state'.status \in InPrint
                 PROVE  Carries(session.of)'
    BY <1>1, <1>2, <1>3 DEF SessionOfPrint, Carries, OfPrint, NoSession
  <2>2. /\ state' = state /\ link # "waiting"
        /\ link' = link \/ link' = "subscribed"
    BY <1>1, <1>t, <2>1 DEF NoState, InPrint, LinkOK, Bridge
  <2>3. Carries(session.of) BY <1>2, <1>t, <2>1, <2>2 DEF SessionOfPrint
  <2> QED BY <1>1, <1>2, <1>3, <2>2, <2>3 DEF Carries, OfPrint, PrepareComes
<1> QED BY <1>4, <1>5, <1>6 DEF NameInv

LEMMA NameStep ==
    ASSUME BambuInv, NameInv, Next, NamesCome
    PROVE  NameInv' /\ TracksItsPrint /\ CarriesOn
<1>1. CASE MachineStep \/ Pushall \/ MarkConnected
  <2>1. session' = session /\ handler' = handler BY <1>1, SendKinds
  <2> QED BY <1>1, <2>1, NameSends DEF TracksItsPrint, CarriesOn, Gone
<1>2. CASE Drop \/ Restart \/ Rename
  <2>1. session' = session /\ handler' = handler BY <1>2 DEF Drop, Restart, Rename
  <2> QED BY <1>2, <2>1, NameClears DEF TracksItsPrint, CarriesOn, Gone
<1>3. CASE Receive
  <2>1. session' = session /\ handler.at = "none" BY <1>3 DEF Receive
  <2> QED BY <1>3, <2>1, NameReceives DEF TracksItsPrint, CarriesOn, Gone
<1>4. CASE Track
  <2>1. /\ Named' /\ SessionOfPrint' /\ CarriesOn
        /\ handler.rep.status \in InPrint => session'.of \in {0, handler.rep.job}
    BY <1>4, NameTracks
  <2>2. handler.at = "read" /\ handler' = [handler EXCEPT !.at = "tracked"] /\ UNCHANGED <<machine, wire>>
    BY <1>4 DEF Track
  <2>3. handler'.rep = handler.rep BY <2>2 DEF BambuInv, TypeOK
  <2>4. WireOfPrint' /\ ReportOfPrint'
    BY <2>2, <2>3 DEF NameInv, WireOfPrint, ReportOfPrint, OfPrint, PrepareComes
  <2> QED BY <2>1, <2>4 DEF NameInv, TracksItsPrint
<1>5. CASE Store
  <2>1. session' = session /\ handler.at = "tracked" BY <1>5 DEF Store
  <2> QED BY <1>5, <2>1, NameStores DEF TracksItsPrint, CarriesOn, Gone
<1>6. CASE Subscribe \/ MarkDisconnected \/ GraceRunsOut
  <2>1. session'.born = session.born /\ handler' = handler
    BY <1>6 DEF Subscribe, MarkDisconnected, GraceRunsOut, BambuInv, TypeOK
  <2> QED BY <1>6, <2>1, NameLinks DEF TracksItsPrint, CarriesOn, Gone
<1> QED BY <1>1, <1>2, <1>3, <1>4, <1>5, <1>6 DEF Next, Connection, Handle

-----------------------------------------------------------------------------
(* Where a print only starts once the end of the last one was seen, all that *)
(* the Bridge has of a print is of the machine's.                            *)
SeenInv ==
    /\ \A k \in DOMAIN wire : wire[k].job = machine.job
    /\ handler.at # "none" => handler.rep.job = machine.job
    /\ session # NoSession => session.of = machine.job

LEMMA SeenStep ==
    ASSUME BambuInv, SeenInv, Next, EndsAreSeen
    PROVE  SeenInv' /\ EndRecorded
<1>t. TypeOK BY DEF BambuInv
<1>0. EndRecorded BY DEF SeenInv, EndRecorded, Gone
<1>w. wire \in Seq(Report) BY <1>t DEF TypeOK
<1>1. CASE MachineStep \/ Pushall \/ MarkConnected
  <2>1. UNCHANGED <<handler, session>> BY <1>1, SendKinds
  <2>2. PICK e \in Report : e.job = machine'.job /\ (wire' = Append(wire, e) \/ wire' = wire)
    BY <1>1, SendKinds
  <2>3. machine'.job # machine.job => wire = <<>> /\ handler.at = "none" /\ session = NoSession
    <3>1. SUFFICES ASSUME machine'.job # machine.job PROVE wire = <<>> /\ handler.at = "none" /\ session = NoSession
      OBVIOUS
    <3>2. state.status = machine.status /\ wire = <<>> /\ handler.at = "none" BY <3>1 DEF EndsAreSeen
    <3>3. machine.status \in Over
      <4>1. \A s : Become(machine.job, s) => machine'.job = machine.job BY DEF Become
      <4>2. PreparePrint BY <1>1, <3>1, <4>1
        DEF MachineStep, StartPrint, PauseOrResume, EndPrint, ReportDelta, Pushall, MarkConnected
      <4> QED BY <4>2 DEF PreparePrint
    <3> QED BY <3>2, <3>3 DEF BambuInv, StateTells, Tells, Between
  <2>4. \A k \in DOMAIN wire' : wire'[k].job = machine'.job
    <3>1. \A k \in DOMAIN wire : wire[k].job = machine'.job BY <2>3 DEF SeenInv
    <3>2. CASE wire' = wire BY <3>1, <3>2
    <3>3. CASE wire' = Append(wire, e)
      <4>1. \A k \in DOMAIN wire' : \/ k \in DOMAIN wire /\ wire'[k] = wire[k]
                                    \/ wire'[k] = e
        BY <1>w, <3>3
      <4> QED BY <2>2, <3>1, <4>1
    <3> QED BY <2>2, <3>2, <3>3
  <2> QED BY <1>0, <2>1, <2>3, <2>4 DEF SeenInv, NoSession
<1>2. CASE Drop \/ Restart \/ Rename
  <2>1. UNCHANGED <<machine, handler, session>> /\ wire' = <<>> BY <1>2 DEF Drop, Restart, Rename, Stop
  <2> QED BY <1>0, <2>1 DEF SeenInv, NoSession
<1>3. CASE Receive
  <2>1. UNCHANGED <<machine, session>> /\ wire # <<>> /\ wire' = Tail(wire) /\ handler'.rep = Head(wire)
    BY <1>3 DEF Receive
  <2>2. /\ Head(wire) = wire[1] /\ 1 \in DOMAIN wire
        /\ \A k \in DOMAIN wire' : k + 1 \in DOMAIN wire /\ wire'[k] = wire[k + 1]
    BY <1>w, <2>1
  <2> QED BY <1>0, <2>1, <2>2 DEF SeenInv, NoSession
<1>4. CASE Track
  <2>1. /\ handler.at = "read" /\ handler' = [handler EXCEPT !.at = "tracked"] /\ UNCHANGED <<machine, wire>>
        /\ \/ session'.of = handler.rep.job
           \/ session' = NoSession
           \/ session # NoSession /\ session'.of = session.of
    BY <1>4, TrackCases DEF StartSession, EndSession
  <2>2. handler'.rep = handler.rep BY <1>t, <2>1 DEF TypeOK
  <2> QED BY <1>0, <2>1, <2>2 DEF SeenInv, NoSession
<1>5. CASE Store
  <2>1. UNCHANGED <<machine, wire, session>> /\ handler'.at = "none" BY <1>5 DEF Store
  <2> QED BY <1>0, <2>1 DEF SeenInv, NoSession
<1>6. CASE Subscribe \/ MarkDisconnected \/ GraceRunsOut
  <2>1. /\ UNCHANGED <<machine, wire, handler>>
        /\ session'.of = session.of /\ (session' # NoSession => session # NoSession)
    BY <1>6, <1>t DEF Subscribe, MarkDisconnected, GraceRunsOut, TypeOK
  <2> QED BY <1>0, <2>1 DEF SeenInv, NoSession
<1> QED BY <1>1, <1>2, <1>3, <1>4, <1>5, <1>6 DEF Next, Connection, Handle

-----------------------------------------------------------------------------
(* The run's parts: each has the invariants of what it leaves out.           *)
MCBambuNext == SessionStep \/ StartStep \/ SkipStep \/ CameraStep \/ PaceStep \/ FileStep
MCBambuVars == <<part, vars, startVars, skipVars, hubVars, paceVars, transferVars>>

PartInv == BambuInv /\ (part # "unnamed" => NameInv) /\ (part # "resumed" => SeenInv)

LEMMA PartInit == MCInit => PartInv
<1>1. Init => SeenInv BY DEF Init, SeenInv
<1> QED BY <1>1, BambuInit, NameInit DEF MCInit, PartInv

LEMMA PartStep ==
    PartInv /\ [MCBambuNext]_MCBambuVars =>
        /\ PartInv'
        /\ [part # "unnamed" => TracksItsPrint /\ CarriesOn]_vars
        /\ [part # "resumed" => EndRecorded]_vars
<1> SUFFICES ASSUME PartInv, [MCBambuNext]_MCBambuVars
             PROVE  /\ PartInv'
                    /\ [part # "unnamed" => TracksItsPrint /\ CarriesOn]_vars
                    /\ [part # "resumed" => EndRecorded]_vars
  OBVIOUS
<1>t. BambuInv /\ (part # "unnamed" => NameInv) /\ (part # "resumed" => SeenInv) BY DEF PartInv
<1>1. CASE SessionStep
  <2>1. part' = part /\ Next /\ (part # "unnamed" => NamesCome) /\ (part # "resumed" => EndsAreSeen)
    BY <1>1 DEF SessionStep
  <2>2. BambuInv' BY <1>t, <2>1, BambuStep
  <2>3. part # "unnamed" => NameInv' /\ TracksItsPrint /\ CarriesOn BY <1>t, <2>1, NameStep
  <2>4. part # "resumed" => SeenInv' /\ EndRecorded BY <1>t, <2>1, SeenStep
  <2> QED BY <2>1, <2>2, <2>3, <2>4 DEF PartInv
<1>2. CASE UNCHANGED part /\ UNCHANGED vars
  <2>1. BambuInv' BY <1>2, <1>t, BambuStep
  <2>2. NameInv => NameInv'
    BY <1>2 DEF vars, NameInv, Named, WireOfPrint, ReportOfPrint, SessionOfPrint, Carries, OfPrint, PrepareComes, Status, NoSession
  <2>3. SeenInv => SeenInv' BY <1>2 DEF vars, SeenInv, NoSession
  <2> QED BY <1>2, <1>t, <2>1, <2>2, <2>3 DEF PartInv
<1>3. StartStep \/ SkipStep \/ CameraStep \/ PaceStep \/ FileStep \/ UNCHANGED MCBambuVars
        => UNCHANGED part /\ UNCHANGED vars
  BY DEF StartStep, SkipStep, CameraStep, PaceStep, FileStep, MCBambuVars
<1> QED BY <1>1, <1>2, <1>3 DEF MCBambuNext

LEMMA PartsKeep == MCSpec => []PartInv /\ [][MCBambuNext]_MCBambuVars
<1>1. MCSpec => MCInit /\ [][MCBambuNext]_MCBambuVars BY PTL DEF MCSpec, MCBambuNext, MCBambuVars
<1> QED BY <1>1, PartInit, PartStep, PTL

(* A session that is brought up to date is the report's print's, and one     *)
(* seen within the grace carries on over drops, restarts and renames, where  *)
(* every report of a status has the file's name.                             *)
THEOREM BambuSessionIsThePrints == MCSpec => SessionIsThePrints
BY PartsKeep, PartStep, PTL DEF SessionIsThePrints

(* The session of a print that is over only goes with a record, where no     *)
(* print starts before the end of the last one was seen.                     *)
THEOREM BambuSeenEndIsRecorded == MCSpec => SeenEndIsRecorded
BY PartsKeep, PartStep, PTL DEF SeenEndIsRecorded

-----------------------------------------------------------------------------
(* FileTransfer: what a file's transfer says of it.                          *)
Conns == {"control", "data"}

Transfers ==
    [verb : Verbs, length : Nat, fallback : BOOLEAN, clear : BOOLEAN, n : Nat,
     at : {"dial", "add control", "login", "delete", "pasv", "add data", "verb", "copy", "final",
           "size", "asked", "done", "failed", "refused", "not found"},
     end : {"none", "clean", "cut"}, told : {"none", "226", "426"}]
Cards == [there : BOOLEAN, size : Nat, serves : BOOLEAN, reply : {"none", "226", "426"}]

TransferTypes ==
    /\ ctx \in {"live", "cancelled", "closed"}
    /\ open \subseteq Conns /\ conns \subseteq Conns
    /\ xfer \in Transfers /\ card \in Cards

(* Every connection that is open will be closed with the others, but for the *)
(* one that is being added.                                                  *)
ConnsOK ==
    /\ open \subseteq conns \cup (IF xfer.at = "add control" THEN {"control"}
                                  ELSE IF xfer.at = "add data" THEN {"data"} ELSE {})
    /\ CancelIsHonoured

(* The printer says 226 for the whole file only.                             *)
UploadOK == xfer.verb = "STOR" =>
    /\ xfer.at # "asked"
    /\ xfer.n <= xfer.length
    /\ xfer.at \in {"copy", "final", "size", "done"} => card.there
    /\ xfer.at = "copy" => card.reply # "226"
    /\ xfer.at \in {"final", "size", "done"} =>
          xfer.n = xfer.length /\ (card.reply = "226" => card.size = xfer.length)
    /\ xfer.at = "done" => card.size = xfer.length

DownloadOK == xfer.verb # "STOR" =>
    /\ xfer.at \notin {"final", "size"}
    /\ xfer.verb = "RETR" => xfer.n <= MaxBytes
    /\ xfer.at = "asked" => card.reply # "none" /\ (card.reply = "226" => xfer.n = card.size)
    /\ xfer.at = "done" /\ (xfer.end = "cut" \/ (xfer.verb = "RETR" /\ xfer.told # "none")) => xfer.n = card.size

TransferInv == TransferTypes /\ ConnsOK /\ UploadOK /\ DownloadOK

LEMMA TransferInitOK == TransferInit => TransferInv
<1> SUFFICES ASSUME TransferInit PROVE TransferInv
  OBVIOUS
<1>0. MaxBytes \in Nat /\ MaxFile \in Nat BY TransferAssumption
<1>1. PICK verb \in Verbs, length \in 1 .. MaxFile, fallback \in BOOLEAN :
        xfer = [verb |-> verb, length |-> length, fallback |-> fallback, clear |-> FALSE,
                at |-> "dial", n |-> 0, end |-> "none", told |-> "none"]
  BY DEF TransferInit
<1>2. PICK there \in BOOLEAN, size \in 1 .. MaxFile :
        card = [there |-> there, size |-> IF there THEN size ELSE 0, serves |-> FALSE, reply |-> "none"]
  BY DEF TransferInit
<1>3. length \in Nat /\ (IF there THEN size ELSE 0) \in Nat BY <1>0, <1>1, <1>2
<1>4. TransferTypes BY <1>1, <1>2, <1>3 DEF TransferInit, TransferTypes, Transfers, Cards
<1>5. ConnsOK BY <1>1 DEF TransferInit, ConnsOK, CancelIsHonoured
<1>6. UploadOK /\ DownloadOK BY <1>0, <1>1, <1>3 DEF UploadOK, DownloadOK
<1> QED BY <1>4, <1>5, <1>6 DEF TransferInv

LEMMA TransferStepOK == TransferInv /\ [TransferNext]_transferVars => TransferInv'
<1> SUFFICES ASSUME TransferInv, [TransferNext]_transferVars PROVE TransferInv'
  OBVIOUS
<1>t. TransferTypes /\ ConnsOK /\ UploadOK /\ DownloadOK /\ MaxBytes \in Nat
  BY TransferAssumption DEF TransferInv
<1> USE DEF Goes, Returns, OnlyCaller, Running
<1>1. CASE AddControl \/ AddData
  <2>1. TransferTypes' BY <1>1, <1>t DEF AddControl, AddData, Add, TransferTypes, Transfers, Cards, Conns
  <2>2. ConnsOK' BY <1>1, <1>t DEF AddControl, AddData, Add, TransferTypes, Transfers, Cards, ConnsOK, CancelIsHonoured
  <2>3. UploadOK' /\ DownloadOK'
    BY <1>1, <1>t DEF AddControl, AddData, Add, TransferTypes, Transfers, Cards, UploadOK, DownloadOK
  <2> QED BY <2>1, <2>2, <2>3 DEF TransferInv
<1>2. CASE Cancel \/ CloseAll
  <2>1. TransferTypes' BY <1>2, <1>t DEF Cancel, CloseAll, TransferTypes, Transfers, Cards
  <2>2. ConnsOK' BY <1>2, <1>t DEF Cancel, CloseAll, TransferTypes, Transfers, Cards, ConnsOK, CancelIsHonoured
  <2>3. UploadOK' /\ DownloadOK' BY <1>2, <1>t DEF Cancel, CloseAll, UploadOK, DownloadOK
  <2> QED BY <2>1, <2>2, <2>3 DEF TransferInv
<1>3. CASE StepFails \/ Dial \/ Login \/ DialData
  <2>1. TransferTypes' BY <1>3, <1>t DEF StepFails, Dial, Login, DialData, TransferTypes, Transfers, Cards, Conns
  <2>2. ConnsOK'
    BY <1>3, <1>t DEF StepFails, Dial, Login, DialData, TransferTypes, Transfers, Cards, ConnsOK, CancelIsHonoured
  <2>3. UploadOK' /\ DownloadOK'
    BY <1>3, <1>t DEF StepFails, Dial, Login, DialData, TransferTypes, Transfers, Cards, UploadOK, DownloadOK
  <2> QED BY <2>1, <2>2, <2>3 DEF TransferInv
<1>4. CASE Delete \/ SendVerb
  <2>1. PICK at \in {"pasv", "copy", "not found"}, there \in BOOLEAN, size \in Nat, serves \in BOOLEAN,
             reply \in {"none", card.reply} :
          /\ xfer' = [xfer EXCEPT !.at = at]
          /\ card' = [there |-> there, size |-> size, serves |-> serves, reply |-> reply]
          /\ at = "copy" => there /\ reply = "none" /\ open' = open
          /\ at = "pasv" => open' = open
          /\ at = "not found" => open' = open \ conns
    <3>1. /\ card = [there |-> card.there, size |-> card.size, serves |-> card.serves, reply |-> card.reply]
          /\ card.there \in BOOLEAN /\ card.size \in Nat /\ card.serves \in BOOLEAN
      BY <1>t DEF TransferTypes, Transfers, Cards
    <3>2. CASE Delete
      <4>1. card' = [there |-> FALSE, size |-> 0, serves |-> card.serves, reply |-> card.reply]
        BY <3>1, <3>2 DEF Delete
      <4> QED BY <3>1, <3>2, <4>1 DEF Delete
    <3>3. CASE SendVerb /\ xfer.verb = "STOR"
      BY <3>3 DEF SendVerb
    <3>4. CASE SendVerb /\ xfer.verb # "STOR" /\ card.there
      <4>1. card' = [there |-> TRUE, size |-> card.size, serves |-> TRUE, reply |-> "none"]
        BY <1>t, <3>1, <3>4 DEF SendVerb, TransferTypes, Transfers, Cards
      <4> QED BY <3>1, <3>4, <4>1 DEF SendVerb
    <3>5. CASE SendVerb /\ xfer.verb # "STOR" /\ ~card.there
      <4>1. card' = [there |-> FALSE, size |-> card.size, serves |-> card.serves, reply |-> card.reply]
        BY <3>1, <3>5 DEF SendVerb
      <4> QED BY <3>1, <3>5, <4>1 DEF SendVerb
    <3> QED BY <1>4, <3>2, <3>3, <3>4, <3>5
  <2>2. xfer.at \in {"delete", "verb"} /\ UNCHANGED <<ctx, conns>> BY <1>4 DEF Delete, SendVerb
  <2>3. TransferTypes' BY <1>t, <2>1, <2>2 DEF TransferTypes, Transfers, Cards
  <2>4. ConnsOK' BY <1>t, <2>1, <2>2 DEF TransferTypes, Transfers, Cards, ConnsOK, CancelIsHonoured
  <2>5. UploadOK' /\ DownloadOK' BY <1>t, <2>1, <2>2 DEF TransferTypes, Transfers, Cards, UploadOK, DownloadOK
  <2> QED BY <2>3, <2>4, <2>5 DEF TransferInv
<1>5. CASE SendSome
  <2>0. /\ xfer.verb = "STOR" /\ xfer.at = "copy" /\ xfer.n < xfer.length /\ UNCHANGED <<ctx, open, conns, card>>
        /\ xfer.n \in Nat /\ xfer.length \in Nat
    BY <1>5, <1>t DEF SendSome, TransferTypes, Transfers, Cards
  <2>1. PICK n \in Nat : n = xfer.n + 1 /\ n <= xfer.length BY <2>0
  <2>2. xfer' = [xfer EXCEPT !.n = n] BY <1>5, <2>1 DEF SendSome
  <2>3. TransferTypes' BY <1>t, <2>0, <2>2 DEF TransferTypes, Transfers, Cards
  <2>4. ConnsOK' BY <1>t, <2>0, <2>2 DEF TransferTypes, Transfers, Cards, ConnsOK, CancelIsHonoured
  <2>5. UploadOK' /\ DownloadOK' BY <1>t, <2>0, <2>1, <2>2 DEF TransferTypes, Transfers, Cards, UploadOK, DownloadOK
  <2> QED BY <2>3, <2>4, <2>5 DEF TransferInv
<1>e. CASE EndOfFile
  <2>1. TransferTypes' BY <1>e, <1>t DEF EndOfFile, TransferTypes, Transfers, Cards
  <2>2. ConnsOK' BY <1>e, <1>t DEF EndOfFile, TransferTypes, Transfers, Cards, ConnsOK, CancelIsHonoured
  <2>3. UploadOK' BY <1>e, <1>t DEF EndOfFile, TransferTypes, Transfers, Cards, UploadOK
  <2>4. DownloadOK' BY <1>e, <1>t DEF EndOfFile, TransferTypes, Transfers, Cards, DownloadOK
  <2> QED BY <2>1, <2>2, <2>3, <2>4 DEF TransferInv
<1>6. CASE FinalReply
  <2>1. PICK code \in {"none"} \cup IF "control" \in open THEN {card.reply} ELSE {} :
          /\ xfer' = [xfer EXCEPT !.at = NextIf(code), !.told = code]
          /\ card' = IF code = "none" THEN card ELSE [card EXCEPT !.reply = "none"]
          /\ open' = IF NextIf(code) = "size" THEN open ELSE open \ conns
    BY <1>6 DEF FinalReply
  <2>2. xfer.at = "final" /\ UNCHANGED <<ctx, conns>> BY <1>6 DEF FinalReply
  <2>3. PICK at \in {"done", "size", "failed"} :
          /\ at = NextIf(code)
          /\ at = "done" <=> code = "226"
          /\ at = "size" => ctx = "live"
    BY DEF NextIf
  <2>4. code \in {"none", "226", "426"} /\ (code = "226" => card.reply = "226") BY <1>t, <2>1 DEF TransferTypes, Transfers, Cards
  <2>5. /\ xfer' = [xfer EXCEPT !.at = at, !.told = code]
        /\ card' = card \/ card' = [card EXCEPT !.reply = "none"]
        /\ open' = IF at = "size" THEN open ELSE open \ conns
    BY <2>1, <2>3
  <2>6. TransferTypes' BY <1>t, <2>2, <2>4, <2>5 DEF TransferTypes, Transfers, Cards
  <2>7. ConnsOK' BY <1>t, <2>2, <2>3, <2>5 DEF TransferTypes, Transfers, Cards, ConnsOK, CancelIsHonoured
  <2>8. UploadOK' BY <1>t, <2>2, <2>3, <2>4, <2>5 DEF TransferTypes, Transfers, Cards, UploadOK
  <2>9. DownloadOK'
    <3>1. xfer.verb = "STOR" BY <1>t, <2>2 DEF DownloadOK
    <3> QED BY <1>t, <2>5, <3>1 DEF TransferTypes, Transfers, Cards, DownloadOK
  <2> QED BY <2>6, <2>7, <2>8, <2>9 DEF TransferInv
<1>7. CASE AskSize
  <2>1. TransferTypes' BY <1>7, <1>t DEF AskSize, TransferTypes, Transfers, Cards
  <2>2. ConnsOK' BY <1>7, <1>t DEF AskSize, TransferTypes, Transfers, Cards, ConnsOK, CancelIsHonoured
  <2>3. UploadOK' /\ DownloadOK' BY <1>7, <1>t DEF AskSize, TransferTypes, Transfers, Cards, UploadOK, DownloadOK
  <2> QED BY <2>1, <2>2, <2>3 DEF TransferInv
<1>8. CASE ReadSome
  <2>0. xfer.verb # "STOR" /\ xfer.at = "copy" /\ UNCHANGED <<ctx, conns, card>> /\ xfer.n \in Nat
    BY <1>8, <1>t DEF ReadSome, TransferTypes, Transfers, Cards
  <2>1. PICK n \in Nat : n = xfer.n + 1 BY <2>0
  <2>2. \/ xfer' = [xfer EXCEPT !.at = "failed"] /\ open' = open \ conns
        \/ xfer' = [xfer EXCEPT !.n = n] /\ open' = open /\ (xfer.verb = "RETR" => ~(n > MaxBytes))
    BY <1>8, <2>1 DEF ReadSome
  <2>3. TransferTypes' BY <1>t, <2>0, <2>2 DEF TransferTypes, Transfers, Cards
  <2>4. ConnsOK' BY <1>t, <2>0, <2>2 DEF TransferTypes, Transfers, Cards, ConnsOK, CancelIsHonoured
  <2>5. xfer.verb = "RETR" /\ ~(n > MaxBytes) => n <= MaxBytes BY <1>t
  <2>6. UploadOK' /\ DownloadOK' BY <1>t, <2>0, <2>2, <2>5 DEF TransferTypes, Transfers, Cards, UploadOK, DownloadOK
  <2> QED BY <2>3, <2>4, <2>6 DEF TransferInv
<1>9. CASE DataEnds
  <2>1. PICK end \in {"clean", "cut"} : xfer' = [xfer EXCEPT !.at = "asked", !.end = end]
    BY <1>9 DEF DataEnds
  <2>2. PICK reply \in {"226", "426"} :
          /\ card' = [card EXCEPT !.serves = FALSE, !.reply = reply]
          /\ reply = "226" => xfer.n = card.size
    BY <1>9 DEF DataEnds
  <2>3. /\ open' = open \ {"data"} /\ UNCHANGED <<ctx, conns>>
        /\ xfer.verb # "STOR" /\ xfer.at = "copy"
    BY <1>9 DEF DataEnds
  <2>4. TransferTypes' BY <1>t, <2>1, <2>2, <2>3 DEF TransferTypes, Transfers, Cards
  <2>5. ConnsOK' BY <1>t, <2>1, <2>3 DEF TransferTypes, Transfers, Cards, ConnsOK, CancelIsHonoured
  <2>6. UploadOK' /\ DownloadOK' BY <1>t, <2>1, <2>2, <2>3 DEF TransferTypes, Transfers, Cards, UploadOK, DownloadOK
  <2> QED BY <2>4, <2>5, <2>6 DEF TransferInv
<1>10. CASE ReplyAfterData
  <2>1. PICK code \in {"none"} \cup IF "control" \in open THEN {card.reply} ELSE {} :
          xfer' = [xfer EXCEPT !.at = IF Accepts(code) THEN "done" ELSE "failed", !.told = code]
    BY <1>10 DEF ReplyAfterData
  <2>2. xfer.at = "asked" /\ open' = open \ conns /\ UNCHANGED <<conns, ctx, card>>
    BY <1>10 DEF ReplyAfterData
  <2>3. code \in {"none", "226", "426"} /\ (code # "none" => code = card.reply) BY <1>t, <2>1 DEF TransferTypes, Transfers, Cards
  <2>4. PICK at \in {"done", "failed"} :
          /\ at = IF Accepts(code) THEN "done" ELSE "failed"
          /\ at = "done" => /\ xfer.end = "cut" => code = "226"
                            /\ xfer.end # "cut" /\ xfer.verb = "RETR" => code \in {"226", "none"}
    BY DEF Accepts
  <2>5. xfer' = [xfer EXCEPT !.at = at, !.told = code] BY <2>1, <2>4
  <2>6. TransferTypes' BY <1>t, <2>2, <2>3, <2>5 DEF TransferTypes, Transfers, Cards
  <2>7. ConnsOK' BY <1>t, <2>2, <2>5 DEF TransferTypes, Transfers, Cards, ConnsOK, CancelIsHonoured
  <2>8. xfer.verb # "STOR" BY <1>t, <2>2 DEF UploadOK
  <2>9. UploadOK' /\ DownloadOK' BY <1>t, <2>2, <2>3, <2>4, <2>5, <2>8 DEF TransferTypes, Transfers, Cards, UploadOK, DownloadOK
  <2> QED BY <2>6, <2>7, <2>9 DEF TransferInv
<1>11. CASE AgainInClear
  <2>1. TransferTypes' BY <1>11, <1>t DEF AgainInClear, TransferTypes, Transfers, Cards
  <2>2. ConnsOK' BY <1>11, <1>t DEF AgainInClear, TransferTypes, Transfers, Cards, ConnsOK, CancelIsHonoured
  <2>3. xfer'.verb = xfer.verb /\ xfer'.length = xfer.length /\ xfer'.n = 0 /\ xfer'.at = "dial"
    BY <1>11, <1>t DEF AgainInClear, TransferTypes, Transfers, Cards
  <2>4. xfer.length \in Nat BY <1>t DEF TransferTypes, Transfers, Cards
  <2>5. UploadOK' /\ DownloadOK' BY <1>t, <2>3, <2>4 DEF UploadOK, DownloadOK
  <2> QED BY <2>1, <2>2, <2>5 DEF TransferInv
<1>12. CASE Stores
  <2>0. /\ xfer.verb = "STOR" /\ card.size < xfer.n /\ UNCHANGED <<ctx, open, conns, xfer>>
        /\ card.size \in Nat /\ xfer.n \in Nat /\ xfer.length \in Nat
    BY <1>12, <1>t DEF Stores, TransferTypes, Transfers, Cards
  <2>1. PICK n \in Nat : n = card.size + 1 BY <2>0
  <2>2. card' = [card EXCEPT !.size = n] BY <1>12, <2>1 DEF Stores
  <2>3. TransferTypes' BY <1>t, <2>0, <2>2 DEF TransferTypes, Transfers, Cards
  <2>4. ConnsOK' BY <1>t, <2>0 DEF ConnsOK, CancelIsHonoured
  <2>5. card.size # xfer.n BY <2>0
  <2>6. UploadOK' /\ DownloadOK' BY <1>t, <2>0, <2>2, <2>5 DEF TransferTypes, Transfers, Cards, UploadOK, DownloadOK
  <2> QED BY <2>3, <2>4, <2>6 DEF TransferInv
<1>f. CASE StoringEnds
  <2>1. PICK reply \in {"226", "426"} :
          /\ reply = "226" => xfer.at # "copy" /\ card.size = xfer.n
          /\ card' = [card EXCEPT !.serves = FALSE, !.reply = reply]
    BY <1>f DEF StoringEnds
  <2>2. xfer.verb = "STOR" /\ UNCHANGED <<ctx, open, conns, xfer>> BY <1>f DEF StoringEnds
  <2>3. TransferTypes' BY <1>t, <2>1, <2>2, ZenonT(60) DEF TransferTypes, Transfers, Cards
  <2>4. ConnsOK' BY <1>t, <2>2 DEF ConnsOK, CancelIsHonoured
  <2>5. UploadOK' /\ DownloadOK' BY <1>t, <2>1, <2>2 DEF TransferTypes, Transfers, Cards, UploadOK, DownloadOK
  <2> QED BY <2>3, <2>4, <2>5 DEF TransferInv
<1>13. CASE UNCHANGED transferVars
  <2>1. UNCHANGED <<ctx, open, conns, xfer, card>> BY <1>13 DEF transferVars
  <2>2. TransferTypes' BY <1>t, <2>1 DEF TransferTypes
  <2>3. ConnsOK' BY <1>t, <2>1 DEF ConnsOK, CancelIsHonoured
  <2>4. UploadOK' /\ DownloadOK' BY <1>t, <2>1 DEF UploadOK, DownloadOK
  <2> QED BY <2>2, <2>3, <2>4 DEF TransferInv
<1> QED BY <1>1, <1>2, <1>3, <1>4, <1>5, <1>e, <1>6, <1>7, <1>8, <1>9, <1>10, <1>11, <1>12, <1>f, <1>13
        DEF TransferNext

-----------------------------------------------------------------------------
(* SkipObjects: what the requests know of the print.                         *)
AnyFile == PrintNames \cup GcodeFiles \cup {NoFile}
Lists == [of : Nat, plate : GcodeFiles \cup {NoFile}]
SkipJobs == [gcode : GcodeFiles \cup {NoFile}, done : GcodeFiles \cup {NoFile}, idle : BOOLEAN,
             reported : BOOLEAN, sent : BOOLEAN, task : PrintNames \cup {NoFile},
             key : AnyFile \X AnyFile, cached : Lists]
Skips == [at : {"none", "lock", "fetch", "loaded", "sent"}, skips : BOOLEAN,
          key : AnyFile \X AnyFile, bridge : BOOLEAN, list : Lists]

SkipTypes ==
    /\ print \in [n : Nat, name : PrintNames \cup {NoFile}, gcode : GcodeFiles \cup {NoFile}, bridge : BOOLEAN,
                  at : {"sent", "runs", "ended"}, skipped : BOOLEAN]
    /\ files \in [PrintNames \cup {Stored} \cup Archives -> Nat]
    /\ skipSeen \in [runs : BOOLEAN, name : PrintNames \cup {NoFile}]
    /\ skipJob \in SkipJobs
    /\ req \in [SkipRequests -> Skips]

(* The printer has the print's file where the print says it is.              *)
Holder ==
    IF print.bridge THEN Stored ELSE IF print.gcode \in Archives THEN print.gcode ELSE print.name

PrintOK ==
    /\ print.n > 0 => /\ print.name \in PrintNames /\ print.gcode \in GcodeFiles
                      /\ print.bridge /\ print.gcode \in Archives => print.gcode = Stored
                      /\ files[Holder] = print.n
    /\ print.n = 0 => print.at = "ended" /\ print.gcode = NoFile /\ ~print.bridge

(* The reports of a print that runs are its own, those of an earlier one are *)
(* forgotten.                                                                *)
ReportsOK ==
    /\ skipSeen.runs => ~skipJob.idle /\ print.at # "sent" /\ print.n > 0 /\ skipSeen.name = print.name
    /\ skipJob.gcode \in {NoFile, print.gcode}
    /\ print.at = "ended" /\ (skipJob.idle \/ print.n = 0) => skipJob.gcode = NoFile
    /\ print.at = "ended" /\ skipJob.idle => skipJob.done = print.gcode
    /\ skipJob.idle \/ print.n = 0 => skipJob.task = NoFile
    /\ skipJob.task # NoFile => print.bridge /\ skipJob.task = print.name
    /\ skipSeen.runs /\ print.bridge => skipJob.task = print.name
    /\ skipSeen.runs /\ print.gcode \in Archives => skipJob.gcode = print.gcode

RightList == [of |-> print.n, plate |-> print.gcode]

(* So a request q, and the list that is kept, are about this print.          *)
RequestOK(q) ==
    q.at # "none" =>
        /\ print.n > 0 /\ q.key[1] = print.name /\ q.key[2] \in {NoFile, print.gcode}
        /\ print.gcode \in Archives => q.key[2] = print.gcode
        /\ q.bridge <=> print.bridge
        /\ q.at \in {"loaded", "sent"} => q.list = RightList

RequestsOK ==
    /\ skipJob.cached # NoList => skipJob.cached = RightList
    /\ skipJob.key = NoKey => skipJob.cached = NoList
    /\ \A r \in SkipRequests : RequestOK(req[r])

SkipInv == SkipTypes /\ PrintOK /\ ReportsOK /\ RequestsOK

LEMMA SkipInitOK == SkipInit => SkipInv
<1> SUFFICES ASSUME SkipInit PROVE SkipInv
  OBVIOUS
<1>1. NoFile \in AnyFile /\ NoKey \in AnyFile \X AnyFile /\ NoList \in Lists
  BY DEF AnyFile, NoKey, NoList, Lists
<1>2. EmptyJob \in SkipJobs /\ NoSkip \in Skips BY <1>1 DEF EmptyJob, NoSkip, SkipJobs, Skips
<1>3. SkipTypes BY <1>2 DEF SkipInit, SkipTypes
<1>4. PrintOK /\ ReportsOK BY DEF SkipInit, PrintOK, ReportsOK, EmptyJob
<1>5. RequestsOK BY DEF SkipInit, RequestsOK, RequestOK, EmptyJob, NoSkip, NoKey
<1> QED BY <1>3, <1>4, <1>5 DEF SkipInv

(* A step of a request r leaves it as q, and the list it may keep is right.  *)
LEMMA SkipRequestStep ==
    ASSUME SkipInv, NEW r \in SkipRequests, NEW q \in Skips, RequestOK(q),
           req' = [req EXCEPT ![r] = q], UNCHANGED <<files, skipSeen>>,
           NEW skipped \in BOOLEAN, print' = [print EXCEPT !.skipped = skipped],
           NEW sent \in BOOLEAN, NEW key \in AnyFile \X AnyFile, NEW list \in Lists,
           skipJob' = [skipJob EXCEPT !.sent = sent, !.key = key, !.cached = list],
           (key = skipJob.key /\ list = skipJob.cached) \/ (key # NoKey /\ list = RightList)
    PROVE  SkipInv'
<1>t. SkipTypes /\ PrintOK /\ ReportsOK /\ RequestsOK BY DEF SkipInv
<1>1. /\ print'.n = print.n /\ print'.name = print.name /\ print'.gcode = print.gcode
      /\ print'.bridge = print.bridge /\ print'.at = print.at
  BY <1>t DEF SkipTypes
<1>2. /\ skipJob'.gcode = skipJob.gcode /\ skipJob'.done = skipJob.done /\ skipJob'.idle = skipJob.idle
      /\ skipJob'.task = skipJob.task /\ skipJob'.key = key /\ skipJob'.cached = list
      /\ skipJob' \in SkipJobs
  BY <1>t DEF SkipTypes, SkipJobs
<1>3. SkipTypes' BY <1>2, <1>t DEF SkipTypes
<1>4. PrintOK' /\ ReportsOK' BY <1>1, <1>2, <1>t DEF PrintOK, ReportsOK, Holder
<1>5. RightList' = RightList BY <1>1 DEF RightList
<1>6. \A s \in SkipRequests : RequestOK(req'[s])
  <2>1. \A s \in SkipRequests : req'[s] = IF s = r THEN q ELSE req[s] BY <1>t DEF SkipTypes
  <2> QED BY <2>1, <1>t DEF RequestsOK
<1>7. RequestsOK' BY <1>1, <1>2, <1>5, <1>6, <1>t DEF RequestsOK, RequestOK
<1> QED BY <1>3, <1>4, <1>7 DEF SkipInv

LEMMA ZeroOrMore == \A n \in Nat : n = 0 \/ n > 0
  OBVIOUS

(* What a report makes of the job.                                           *)
LEMMA SkipReportOK ==
    ASSUME SkipInv, SkipReport PROVE SkipInv'
<1>t. SkipTypes /\ PrintOK /\ ReportsOK /\ RequestsOK BY DEF SkipInv
<1>1. PICK told \in {"", IF print.at = "runs" THEN "runs" ELSE "idle"},
           g \in {NoFile, print.gcode}, name \in {skipSeen.name, print.name}, sobj \in BOOLEAN :
        /\ told = "runs" => /\ name = print.name
                            /\ print.gcode \in Archives => print.gcode \in {g, skipJob.gcode}
        /\ told = "idle" /\ ~skipJob.idle /\ print.n > 0 => NoFile \notin {g} \cap {skipJob.gcode}
        /\ skipJob' = NoteBridgeJob(Noted(told, g, sobj), told)
        /\ skipSeen' = [runs |-> IF told = "" THEN skipSeen.runs ELSE told = "runs", name |-> name]
        /\ UNCHANGED <<print, files, fetching, req>>
  BY DEF SkipReport
<1>2. /\ g \in GcodeFiles \cup {NoFile} /\ name \in PrintNames \cup {NoFile}
      /\ print.gcode \in GcodeFiles \cup {NoFile} /\ print.name \in PrintNames \cup {NoFile}
      /\ print.skipped \in BOOLEAN /\ print.n \in Nat
      /\ skipJob \in SkipJobs /\ skipSeen.runs \in BOOLEAN
  BY <1>1, <1>t DEF SkipTypes
<1>3. skipSeen' \in [runs : BOOLEAN, name : PrintNames \cup {NoFile}]
  BY <1>1, <1>2
<1>4. NoKey \in AnyFile \X AnyFile /\ NoList \in Lists BY DEF NoKey, NoList, AnyFile, Lists
<1>5. CASE told = "idle"
  <2>1. PICK done \in GcodeFiles \cup {NoFile} :
          done = IF skipJob.idle THEN skipJob.done ELSE IF skipJob.gcode # NoFile THEN skipJob.gcode ELSE g
    BY <1>2 DEF SkipJobs
  <2>2. PICK j \in SkipJobs :
          /\ Forgets(skipJob, g) = j
          /\ j.idle /\ j.gcode = NoFile /\ j.done = done /\ j.reported = FALSE
          /\ j.task = NoFile /\ j.key = NoKey /\ j.cached = NoList
    <3>1. /\ EmptyJob \in SkipJobs /\ EmptyJob.gcode = NoFile /\ EmptyJob.reported = FALSE
          /\ EmptyJob.task = NoFile /\ EmptyJob.key = NoKey /\ EmptyJob.cached = NoList
      BY <1>4 DEF EmptyJob, SkipJobs
    <3>2. PICK j : j = [EmptyJob EXCEPT !.idle = TRUE, !.done = done] OBVIOUS
    <3>3. /\ j \in SkipJobs /\ j.idle /\ j.gcode = NoFile /\ j.done = done /\ j.reported = FALSE
          /\ j.task = NoFile /\ j.key = NoKey /\ j.cached = NoList
      BY <2>1, <3>1, <3>2 DEF SkipJobs
    <3>4. Forgets(skipJob, g) = j BY <2>1, <3>2 DEF Forgets
    <3> QED BY <3>3, <3>4
  <2>3. /\ skipJob' \in SkipJobs /\ skipJob'.idle /\ skipJob'.done = done
        /\ skipJob'.gcode = IF g # NoFile /\ g # done THEN g ELSE NoFile
        /\ skipJob'.task = NoFile /\ skipJob'.key = NoKey /\ skipJob'.cached = NoList
    <3>1. Noted(told, g, sobj) = [j EXCEPT !.gcode = IF g # NoFile /\ (~j.idle \/ g # j.done) THEN g ELSE j.gcode,
                                           !.reported = IF sobj /\ ~j.idle THEN print.skipped ELSE j.reported]
      BY <1>5, <2>2 DEF Noted
    <3>2. PICK h \in GcodeFiles \cup {NoFile} : h = IF g # NoFile /\ g # done THEN g ELSE NoFile BY <1>2
    <3>3. Noted(told, g, sobj) = [j EXCEPT !.gcode = h, !.reported = FALSE] BY <2>2, <3>1, <3>2
    <3>4. skipJob' = [j EXCEPT !.gcode = h, !.reported = FALSE] BY <1>1, <1>5, <3>3 DEF NoteBridgeJob
    <3> QED BY <2>2, <3>2, <3>4 DEF SkipJobs
  <2>4. skipSeen'.runs = FALSE /\ print.at # "runs" BY <1>1, <1>5
  <2>5. print.at = "ended" => done = print.gcode
    <3>1. CASE skipJob.idle BY <1>t, <2>1, <3>1 DEF ReportsOK
    <3>2. CASE ~skipJob.idle /\ print.n > 0
      BY <1>1, <1>5, <1>t, <2>1, <3>2 DEF ReportsOK
    <3>3. CASE ~skipJob.idle /\ print.n = 0
      BY <1>1, <1>t, <2>1, <3>3 DEF ReportsOK, PrintOK
    <3>4. print.n = 0 \/ print.n > 0 BY <1>2, ZeroOrMore
    <3> QED BY <3>1, <3>2, <3>3, <3>4
  <2>6. SkipTypes' BY <1>1, <1>3, <1>t, <2>3 DEF SkipTypes
  <2>7. PrintOK' BY <1>1, <1>t DEF PrintOK, Holder
  <2>8. ReportsOK' BY <1>1, <2>3, <2>4, <2>5 DEF ReportsOK
  <2>9. RequestsOK' BY <1>1, <1>t, <2>3 DEF RequestsOK, RequestOK, RightList
  <2> QED BY <2>6, <2>7, <2>8, <2>9 DEF SkipInv
<1>6. CASE told # "idle"
  <2>1. PICK idle \in BOOLEAN, gcode \in GcodeFiles \cup {NoFile}, reported \in BOOLEAN, task \in PrintNames \cup {NoFile} :
          /\ skipJob' = [skipJob EXCEPT !.idle = idle, !.gcode = gcode, !.reported = reported, !.task = task]
          /\ idle = (skipJob.idle /\ told # "runs")
          /\ gcode = IF g # NoFile /\ (~idle \/ g # skipJob.done) THEN g ELSE skipJob.gcode
          /\ task = IF told = "runs" /\ print.bridge THEN print.name ELSE skipJob.task
    <3>1. PICK idle \in BOOLEAN : idle = (skipJob.idle /\ told # "runs") BY <1>2 DEF SkipJobs
    <3>2. PICK j : j = [skipJob EXCEPT !.idle = idle] OBVIOUS
    <3>3. j.gcode = skipJob.gcode /\ j.done = skipJob.done /\ j.idle = idle /\ j.reported = skipJob.reported
      BY <1>2, <3>2 DEF SkipJobs
    <3>4. Noted(told, g, sobj) = [j EXCEPT !.gcode = IF g # NoFile /\ (~j.idle \/ g # j.done) THEN g ELSE j.gcode,
                                            !.reported = IF sobj /\ ~j.idle THEN print.skipped ELSE j.reported]
      <4>1. CASE told = "runs" BY <3>1, <3>2, <4>1 DEF Noted
      <4>2. CASE told = ""
        <5>1. j = skipJob BY <1>2, <3>1, <3>2, <4>2 DEF SkipJobs
        <5> QED BY <4>2, <5>1 DEF Noted
      <4> QED BY <1>1, <1>6, <4>1, <4>2
    <3>5. PICK gcode \in GcodeFiles \cup {NoFile} :
            gcode = IF g # NoFile /\ (~idle \/ g # skipJob.done) THEN g ELSE skipJob.gcode
      BY <1>2 DEF SkipJobs
    <3>6. PICK reported \in BOOLEAN : reported = IF sobj /\ ~idle THEN print.skipped ELSE skipJob.reported
      BY <1>2 DEF SkipJobs
    <3>7. PICK task \in PrintNames \cup {NoFile} :
            task = IF told = "runs" /\ print.bridge THEN print.name ELSE skipJob.task
      BY <1>2 DEF SkipJobs
    <3>8. Noted(told, g, sobj) = [skipJob EXCEPT !.idle = idle, !.gcode = gcode, !.reported = reported]
      BY <1>2, <3>2, <3>3, <3>4, <3>5, <3>6 DEF SkipJobs
    <3>9. skipJob' = [skipJob EXCEPT !.idle = idle, !.gcode = gcode, !.reported = reported, !.task = task]
      BY <1>1, <1>2, <3>7, <3>8 DEF NoteBridgeJob, SkipJobs
    <3> QED BY <3>1, <3>5, <3>7, <3>9
  <2>2. /\ skipJob' \in SkipJobs /\ skipJob'.idle = idle /\ skipJob'.done = skipJob.done
        /\ skipJob'.gcode = gcode /\ skipJob'.task = task
        /\ skipJob'.key = skipJob.key /\ skipJob'.cached = skipJob.cached
    <3>1. skipJob' = [skipJob EXCEPT !.idle = idle, !.gcode = gcode, !.reported = reported, !.task = task]
      BY <2>1
    <3> QED BY <1>2, <3>1 DEF SkipJobs
  <2>3. gcode \in {NoFile, print.gcode} BY <1>1, <1>t, <2>1 DEF ReportsOK
  <2>4. told = "runs" => print.at = "runs" /\ print.n > 0
    BY <1>1, <1>2, <1>t DEF PrintOK
  <2>5. SkipTypes' BY <1>1, <1>3, <1>t, <2>2 DEF SkipTypes
  <2>6. PrintOK' BY <1>1, <1>t DEF PrintOK, Holder
  <2>7. ReportsOK'
    <3>1. CASE told = "runs"
      <4>1. ~idle /\ skipSeen'.runs /\ skipSeen'.name = print.name BY <1>1, <2>1, <3>1
      <4>2. print.gcode \in Archives => gcode = print.gcode
        <5>1. g # NoFile => gcode = g BY <2>1, <4>1
        <5>2. print.gcode \in Archives => print.gcode # NoFile /\ print.gcode \in {g, skipJob.gcode}
          BY <1>1, <3>1, SkipAssumption
        <5>3. g \in {NoFile, print.gcode} /\ (g = NoFile => gcode = skipJob.gcode) BY <1>1, <2>1
        <5> QED BY <5>1, <5>2, <5>3
      <4> QED BY <1>1, <1>t, <2>1, <2>2, <2>3, <2>4, <3>1, <4>1, <4>2 DEF ReportsOK
    <3>2. CASE told = ""
      <4>1. idle = skipJob.idle /\ task = skipJob.task /\ skipSeen'.runs = skipSeen.runs
        BY <1>1, <1>2, <2>1, <3>2 DEF SkipJobs
      <4>2. print.at = "ended" /\ (idle \/ print.n = 0) => gcode = NoFile
        BY <1>1, <1>t, <2>1, <4>1 DEF ReportsOK, PrintOK
      <4>3. skipSeen'.runs => skipSeen'.name = print.name
        BY <1>1, <1>t, <4>1 DEF ReportsOK
      <4>4. skipSeen'.runs /\ print.gcode \in Archives => gcode = print.gcode
        <5>1. gcode \in {g, skipJob.gcode} /\ (g = NoFile => gcode = skipJob.gcode) BY <2>1
        <5>2. g \in {NoFile, print.gcode} BY <1>1
        <5> QED BY <1>t, <4>1, <5>1, <5>2 DEF ReportsOK
      <4> QED BY <1>1, <1>t, <2>2, <2>3, <4>1, <4>2, <4>3, <4>4 DEF ReportsOK
    <3> QED BY <1>1, <1>6, <3>1, <3>2
  <2>8. RequestsOK' BY <1>1, <1>t, <2>2 DEF RequestsOK, RequestOK, RightList
  <2> QED BY <2>5, <2>6, <2>7, <2>8 DEF SkipInv
<1> QED BY <1>5, <1>6

LEMMA SkipStepOK == SkipInv /\ [SkipNext]_skipVars => SkipInv'
<1> SUFFICES ASSUME SkipInv, [SkipNext]_skipVars PROVE SkipInv'
  OBVIOUS
<1>t. SkipTypes /\ PrintOK /\ ReportsOK /\ RequestsOK BY DEF SkipInv
<1>0. /\ print.n \in Nat /\ print.gcode \in GcodeFiles \cup {NoFile} /\ print.skipped \in BOOLEAN
      /\ print = [print EXCEPT !.skipped = print.skipped]
      /\ skipJob \in SkipJobs /\ skipJob.sent \in BOOLEAN /\ skipJob.key \in AnyFile \X AnyFile /\ skipJob.cached \in Lists
      /\ skipJob = [skipJob EXCEPT !.sent = skipJob.sent, !.key = skipJob.key, !.cached = skipJob.cached]
  BY <1>t DEF SkipTypes, SkipJobs
<1>1. CASE NextPrint
  <2>1. PICK n \in PrintNames, g \in GcodeFiles, b \in BOOLEAN :
          /\ print' = [n |-> print.n + 1, name |-> n, gcode |-> g, bridge |-> b, at |-> "sent", skipped |-> FALSE]
          /\ b /\ g \in Archives => g = Stored
          /\ files' = [files EXCEPT ![IF b THEN Stored ELSE IF g \in Archives THEN g ELSE n] = print.n + 1]
    BY <1>1 DEF NextPrint
  <2>2. /\ print.at = "ended" /\ (skipJob.idle \/ print.n = 0) /\ skipJob.key = NoKey
        /\ \A r \in SkipRequests : req[r].at = "none"
        /\ UNCHANGED <<skipSeen, skipJob, fetching, req>>
    BY <1>1 DEF NextPrint, OnlyPrinter
  <2>3. PICK m \in Nat : m = print.n + 1 /\ m > 0 BY <1>0
  <2>4. ~skipSeen.runs /\ skipJob.gcode = NoFile /\ skipJob.task = NoFile
    BY <1>0, <1>t, <2>2 DEF ReportsOK
  <2>5. SkipTypes'
    <3>1. print' \in [n : Nat, name : PrintNames \cup {NoFile}, gcode : GcodeFiles \cup {NoFile}, bridge : BOOLEAN,
                      at : {"sent", "runs", "ended"}, skipped : BOOLEAN]
      BY <2>1, <2>3
    <3>2. files' \in [PrintNames \cup {Stored} \cup Archives -> Nat] BY <1>t, <2>1, <2>3 DEF SkipTypes
    <3> QED BY <1>t, <2>2, <3>1, <3>2 DEF SkipTypes
  <2>6. PrintOK'
    <3>1. files'[IF b THEN Stored ELSE IF g \in Archives THEN g ELSE n] = m BY <1>t, <2>1, <2>3 DEF SkipTypes
    <3>2. print'.n = m /\ print'.name = n /\ print'.bridge = b /\ print'.gcode = g BY <2>1, <2>3
    <3>3. files'[Holder'] = m BY <3>1, <3>2 DEF Holder
    <3> QED BY <2>1, <2>3, <3>2, <3>3 DEF PrintOK
  <2>7. ReportsOK' BY <2>1, <2>2, <2>4 DEF ReportsOK
  <2>8. RequestsOK' BY <1>t, <2>2 DEF RequestsOK, RequestOK
  <2> QED BY <2>5, <2>6, <2>7, <2>8 DEF SkipInv
<1>2. CASE Advances
  <2>1. PICK at \in {"runs", "ended"} :
          /\ print' = [print EXCEPT !.at = at]
          /\ at = "runs" => print.at = "sent"
          /\ at = "ended" => print.at = "runs" /\ skipSeen.runs
    BY <1>2 DEF Advances
  <2>2. UNCHANGED <<files, skipSeen, skipJob, fetching, req>> BY <1>2 DEF Advances, OnlyPrinter
  <2>3. /\ print'.n = print.n /\ print'.name = print.name /\ print'.gcode = print.gcode
        /\ print'.bridge = print.bridge /\ print'.at = at
    BY <1>t, <2>1 DEF SkipTypes
  <2>4. SkipTypes' BY <1>t, <2>1, <2>2 DEF SkipTypes
  <2>5. PrintOK' BY <1>0, <1>t, <2>1, <2>2, <2>3 DEF PrintOK, Holder
  <2>6. ReportsOK' BY <1>0, <1>t, <2>1, <2>2, <2>3 DEF ReportsOK
  <2>7. RequestsOK' BY <1>t, <2>2, <2>3 DEF RequestsOK, RequestOK, RightList
  <2> QED BY <2>4, <2>5, <2>6, <2>7 DEF SkipInv
<1>3. CASE SkipReport BY <1>3, SkipReportOK
<1>4. ASSUME NEW r \in SkipRequests, SkipRequest(r) PROVE SkipInv'
  <2>0. req[r] \in Skips /\ RequestOK(req[r]) BY <1>t DEF SkipTypes, RequestsOK
  <2>n. NoSkip \in Skips /\ RequestOK(NoSkip)
    <3>1. NoKey \in AnyFile \X AnyFile /\ NoList \in Lists BY DEF NoKey, NoList, AnyFile, Lists
    <3> QED BY <3>1 DEF NoSkip, Skips, RequestOK
  <2>1. ASSUME NEW skips \in BOOLEAN, BeginRequest(r, skips) PROVE SkipInv'
    <3>1. PICK key \in AnyFile \X AnyFile : key = <<skipSeen.name, skipJob.gcode>>
      BY <1>t DEF SkipTypes, SkipJobs, AnyFile
    <3>2. PICK q : q = [at |-> IF CachedList(key) THEN "loaded" ELSE "lock", skips |-> skips, key |-> key,
                        bridge |-> skipSeen.name = skipJob.task,
                        list |-> IF CachedList(key) THEN skipJob.cached ELSE NoList]
      OBVIOUS
    <3>3. req' = [req EXCEPT ![r] = q] /\ UNCHANGED <<print, skipJob, files, skipSeen>> /\ skipSeen.runs
      BY <2>1, <3>1, <3>2 DEF BeginRequest, Rest, SkipPreflight
    <3>4. q \in Skips
      <4>1. NoList \in Lists BY DEF NoList, Lists
      <4>2. (IF CachedList(key) THEN skipJob.cached ELSE NoList) \in Lists BY <1>0, <4>1
      <4>3. (IF CachedList(key) THEN "loaded" ELSE "lock") \in {"none", "lock", "fetch", "loaded", "sent"} OBVIOUS
      <4> QED BY <3>2, <4>2, <4>3 DEF Skips
    <3>5. /\ print.n > 0 /\ key[1] = print.name /\ key[2] \in {NoFile, print.gcode}
          /\ print.gcode \in Archives => key[2] = print.gcode
          /\ (skipSeen.name = skipJob.task) <=> print.bridge
      <4>1. /\ print.n > 0 /\ skipSeen.name = print.name /\ skipJob.gcode \in {NoFile, print.gcode}
            /\ print.bridge => skipJob.task = print.name
            /\ ~print.bridge => skipJob.task = NoFile
            /\ print.name # NoFile
            /\ print.gcode \in Archives => skipJob.gcode = print.gcode
        BY <1>t, <3>3, SkipAssumption DEF ReportsOK, PrintOK
      <4> QED BY <3>1, <4>1
    <3>6. CachedList(key) => skipJob.cached = RightList BY <1>t DEF CachedList, RequestsOK
    <3>7. RequestOK(q) BY <3>2, <3>5, <3>6 DEF RequestOK
    <3>8. /\ print' = [print EXCEPT !.skipped = print.skipped]
          /\ skipJob' = [skipJob EXCEPT !.sent = skipJob.sent, !.key = skipJob.key, !.cached = skipJob.cached]
      BY <1>0, <3>3
    <3>9. /\ print.skipped \in BOOLEAN /\ skipJob.sent \in BOOLEAN
          /\ skipJob.key \in AnyFile \X AnyFile /\ skipJob.cached \in Lists
      BY <1>0
    <3>10. req' = [req EXCEPT ![r] = q] /\ UNCHANGED <<files, skipSeen>> BY <3>3
    <3> QED BY <3>4, <3>7, <3>8, <3>9, <3>10, SkipRequestStep
  <2>2. ASSUME NEW at \in {"fetch", "sent"}, req[r].at # "none", at = "sent" => req[r].at = "loaded",
               req' = [req EXCEPT ![r].at = at], UNCHANGED <<files, skipSeen>>,
               NEW skipped \in BOOLEAN, print' = [print EXCEPT !.skipped = skipped],
               NEW sent \in BOOLEAN, skipJob' = [skipJob EXCEPT !.sent = sent]
        PROVE  SkipInv'
    <3>1. PICK q : q = [req[r] EXCEPT !.at = at] OBVIOUS
    <3>2. q \in Skips /\ q.at = at /\ q.key = req[r].key /\ q.bridge = req[r].bridge /\ q.list = req[r].list
      BY <2>0, <3>1 DEF Skips
    <3>3. RequestOK(q) BY <2>0, <2>2, <3>2 DEF RequestOK
    <3>4. req' = [req EXCEPT ![r] = q] BY <2>2, <3>1
    <3>5. skipJob' = [skipJob EXCEPT !.sent = sent, !.key = skipJob.key, !.cached = skipJob.cached]
      BY <1>0, <2>2 DEF SkipJobs
    <3>6. skipJob.key \in AnyFile \X AnyFile /\ skipJob.cached \in Lists BY <1>0
    <3>7. UNCHANGED <<files, skipSeen>> /\ print' = [print EXCEPT !.skipped = skipped] BY <2>2
    <3> QED BY <3>2, <3>3, <3>4, <3>5, <3>6, <3>7, SkipRequestStep
  <2>3. ASSUME NEW list \in Lists, list = RightList, req[r].at # "none", Loaded(r, list), Rest,
               UNCHANGED skipJob \/ skipJob' = [skipJob EXCEPT !.key = req[r].key, !.cached = list]
        PROVE  SkipInv'
    <3>1. PICK q : q = [req[r] EXCEPT !.at = "loaded", !.list = list] OBVIOUS
    <3>2. q \in Skips /\ q.at = "loaded" /\ q.key = req[r].key /\ q.bridge = req[r].bridge /\ q.list = list
      BY <2>0, <3>1 DEF Skips
    <3>3. RequestOK(q) BY <2>0, <2>3, <3>2 DEF RequestOK
    <3>4. req' = [req EXCEPT ![r] = q] BY <2>3, <3>1, <1>t DEF Loaded, SkipTypes
    <3>7. /\ UNCHANGED <<files, skipSeen>> /\ print' = [print EXCEPT !.skipped = print.skipped]
          /\ print.skipped \in BOOLEAN /\ skipJob.sent \in BOOLEAN
          /\ skipJob.key \in AnyFile \X AnyFile /\ skipJob.cached \in Lists
      BY <1>0, <2>3 DEF Rest
    <3>5. CASE UNCHANGED skipJob
      <4>1. skipJob' = [skipJob EXCEPT !.sent = skipJob.sent, !.key = skipJob.key, !.cached = skipJob.cached]
        BY <1>0, <3>5
      <4> QED BY <3>2, <3>3, <3>4, <3>7, <4>1, SkipRequestStep
    <3>6. CASE skipJob' = [skipJob EXCEPT !.key = req[r].key, !.cached = list]
      <4>1. req[r].key \in AnyFile \X AnyFile /\ req[r].key # NoKey
        BY <1>t, <2>0, <2>3, SkipAssumption DEF Skips, RequestOK, PrintOK, NoKey
      <4>2. skipJob' = [skipJob EXCEPT !.sent = skipJob.sent, !.key = req[r].key, !.cached = list]
        BY <1>0, <3>6 DEF SkipJobs
      <4> QED BY <1>0, <2>3, <3>2, <3>3, <3>4, <4>1, <4>2, SkipRequestStep DEF Rest
    <3> QED BY <2>3, <3>5, <3>6
  <2>4. CASE TakeLock(r)
    <3>1. CASE CachedList(req[r].key) /\ Loaded(r, skipJob.cached)
      <4>1. skipJob.cached = RightList BY <1>t, <3>1 DEF CachedList, RequestsOK
      <4> QED BY <1>0, <2>3, <2>4, <3>1, <4>1 DEF TakeLock
    <3>2. CASE req' = [req EXCEPT ![r].at = "fetch"]
      BY <1>0, <2>2, <2>4, <3>2 DEF TakeLock, Rest, SkipJobs
    <3> QED BY <2>4, <3>1, <3>2 DEF TakeLock
  <2>5. CASE FetchList(r)
    <3>1. PICK list : list = Objects(Picked(r), req[r].key[2]) OBVIOUS
    <3>2. /\ req[r].at = "fetch" /\ list.of # 0 /\ Loaded(r, list) /\ Rest
          /\ skipJob' = [skipJob EXCEPT !.key = req[r].key, !.cached = list]
      BY <2>5, <3>1 DEF FetchList
    <3>3. /\ print.n > 0 /\ req[r].key[1] = print.name /\ req[r].key[2] \in {NoFile, print.gcode}
          /\ print.gcode \in Archives => req[r].key[2] = print.gcode
          /\ req[r].bridge <=> print.bridge
      BY <2>0, <3>2 DEF RequestOK
    <3>4. files[Picked(r)] = print.n
      <4>1. /\ files[Holder] = print.n /\ print.n # 0
            /\ print.bridge /\ print.gcode \in Archives => print.gcode = Stored
        BY <1>0, <1>t, <3>3 DEF PrintOK
      <4>2. req[r].key[2] \in Archives => req[r].key[2] = print.gcode BY <3>3, SkipAssumption
      <4> QED BY <3>3, <4>1, <4>2 DEF Picked, Holder
    <3>5. list = RightList BY <3>1, <3>3, <3>4 DEF Objects, RightList
    <3>6. list \in Lists BY <1>0, <3>5 DEF RightList, Lists
    <3> QED BY <2>3, <3>2, <3>5, <3>6
  <2>6. CASE Finish(r) \/ Confirm(r) \/ Breaks(r)
    <3>1. /\ req' = [req EXCEPT ![r] = NoSkip] /\ UNCHANGED <<print, files, skipSeen>>
          /\ UNCHANGED skipJob \/ skipJob' = [skipJob EXCEPT !.sent = FALSE]
      BY <2>6 DEF Finish, Confirm, Breaks, Leaves, Rest
    <3>2. PICK sent \in BOOLEAN : skipJob' = [skipJob EXCEPT !.sent = sent, !.key = skipJob.key, !.cached = skipJob.cached]
      <4>1. [skipJob EXCEPT !.sent = FALSE] = [skipJob EXCEPT !.sent = FALSE, !.key = skipJob.key, !.cached = skipJob.cached]
        BY <1>0 DEF SkipJobs
      <4> QED BY <1>0, <3>1, <4>1
    <3> QED BY <1>0, <2>n, <3>1, <3>2, SkipRequestStep
  <2>7. CASE SendSkip(r)
    <3>1. PICK takes \in BOOLEAN : print' = [print EXCEPT !.skipped = @ \/ (takes /\ print.at = "runs")]
      BY <2>7 DEF SendSkip
    <3>2. PICK skipped \in BOOLEAN : skipped = (print.skipped \/ (takes /\ print.at = "runs")) OBVIOUS
    <3>3. print' = [print EXCEPT !.skipped = skipped] BY <3>1, <3>2
    <3>4. /\ req[r].at = "loaded" /\ req' = [req EXCEPT ![r].at = "sent"] /\ UNCHANGED <<files, skipSeen>>
          /\ skipJob' = [skipJob EXCEPT !.sent = TRUE]
      BY <2>7 DEF SendSkip
    <3> QED BY <2>2, <3>3, <3>4
  <2> QED BY <1>4, <2>1, <2>4, <2>5, <2>6, <2>7 DEF SkipRequest
<1>5. CASE UNCHANGED skipVars
  <2>1. UNCHANGED <<print, files, skipSeen, skipJob, req>> BY <1>5 DEF skipVars
  <2>2. SkipTypes' BY <1>t, <2>1 DEF SkipTypes
  <2>3. PrintOK' /\ ReportsOK' BY <1>t, <2>1 DEF PrintOK, ReportsOK, Holder
  <2>4. RequestsOK' BY <1>t, <2>1 DEF RequestsOK, RequestOK, RightList
  <2> QED BY <2>2, <2>3, <2>4 DEF SkipInv
<1> QED BY <1>1, <1>2, <1>3, <1>4, <1>5 DEF SkipNext

-----------------------------------------------------------------------------
(* PrintStart: what a call may conclude from the reports.                    *)
Printers == [prints : StartCalls \cup {NoPrint, Screen}, command : StartCalls \cup {NoStart},
             code : Codes \cup {NoCode}, passing : BOOLEAN]
Reports == [status : Statuses, code : Codes \cup {NoCode}]
StartAts == Under \cup {"none", "failed", "refused", "started"}
StartStates == [at : StartAts, base : Codes \cup {NoCode}, seen : Codes \cup {NoCode}, long : BOOLEAN]

StartTypes ==
    /\ printer \in Printers /\ report \in Reports
    /\ storedFile \in [of : StartCalls \cup {NoStart}, whole : BOOLEAN]
    /\ refusal \in BOOLEAN /\ answer \in StartCalls \cup {NoStart}
    /\ start \in [StartCalls -> StartStates]

OneUnder == \A j, k \in StartCalls : start[j].at \in Under /\ start[k].at \in Under => j = k

(* A call that has not sent its command.                                     *)
NotSent(k) ==
    start[k].at \in {"none", "upload", "again", "after"} =>
        /\ k \notin {printer.prints, printer.command, answer}
        /\ start[k].seen = NoCode /\ ~start[k].long

(* Before it is sent, earlier commands are dealt with, and the code that the *)
(* printer shows was reported.                                               *)
MaySend(k) ==
    start[k].at = "after" =>
        /\ printer.command = NoStart /\ answer = NoStart
        /\ storedFile = [of |-> k, whole |-> TRUE]
        /\ report.status = "idle" => report.code = printer.code

(* The command is acted on once: it prints, is refused or is not acted on;   *)
(* while it waits and shows no passing code, there is no news.               *)
WaitsForStart(k) ==
    start[k].at = "wait" =>
        /\ storedFile = [of |-> k, whole |-> TRUE]
        /\ printer.command \in {k, NoStart} /\ answer \in {k, NoStart}
        /\ answer = k \/ refusal => printer.command = NoStart /\ printer.prints # k
        /\ printer.prints = k => printer.command = NoStart
        /\ report.status = "busy" => PrinterBusy
        /\ printer.command = k /\ ~printer.passing =>
              report.code = start[k].base /\ printer.code = start[k].base /\ start[k].seen = NoCode
        /\ start[k].long => printer.command = NoStart /\ (printer.prints = k => report.status # "idle")

(* A print that was seen to start keeps the printer from being idle.         *)
SawStart(k) ==
    start[k].at = "started" =>
        /\ printer.command = k => PrinterBusy
        /\ printer.prints = k =>
             /\ printer.command # k /\ report.status # "idle"
             /\ storedFile = [of |-> k, whole |-> TRUE]
             /\ \A j \in StartCalls : start[j].at \notin Under

WasRefused(k) == start[k].at = "refused" => k \notin {printer.prints, printer.command}

CallOK(k) == NotSent(k) /\ MaySend(k) /\ WaitsForStart(k) /\ SawStart(k) /\ WasRefused(k)

StartInv ==
    /\ StartTypes /\ OneUnder
    /\ printer.passing => printer.command # NoStart
    /\ \A k \in StartCalls : CallOK(k)

LEMMA StartInitOK == StartInit => StartInv
<1> SUFFICES ASSUME StartInit PROVE StartInv
  OBVIOUS
<1>1. StartTypes BY DEF StartInit, StartTypes, Printers, Reports, StartStates, StartAts, Under, Statuses
<1>2. OneUnder BY DEF StartInit, OneUnder, Under
<1>3. ASSUME NEW k \in StartCalls PROVE CallOK(k)
  BY <1>3, StartAssumption DEF StartInit, CallOK, NotSent, MaySend, WaitsForStart, SawStart, WasRefused
<1> QED BY <1>1, <1>2, <1>3 DEF StartInit, StartInv

(* A call goes on, and the others stay where they are.                       *)
LEMMA OneGoes ==
    ASSUME start \in [StartCalls -> StartStates], NEW k \in StartCalls, NEW at \in StartAts, StartGoes(k, at)
    PROVE  /\ start' \in [StartCalls -> StartStates]
           /\ \A j \in StartCalls :
                /\ start'[j].at = IF j = k THEN at ELSE start[j].at
                /\ start'[j].base = start[j].base /\ start'[j].seen = start[j].seen
                /\ start'[j].long = start[j].long
<1>1. start[k] \in StartStates OBVIOUS
<1>2. PICK q : q = [start[k] EXCEPT !.at = at] OBVIOUS
<1>3. q \in StartStates /\ q.at = at /\ q.base = start[k].base /\ q.seen = start[k].seen /\ q.long = start[k].long
  BY <1>1, <1>2 DEF StartStates
<1>4. start' = [start EXCEPT ![k] = q] BY <1>2 DEF StartGoes
<1> QED BY <1>3, <1>4

(* What the printer and the connection do.                                   *)
LEMMA MachineStepOK ==
    ASSUME StartInv,
           \/ StartsPrint \/ Flickers \/ Declines \/ PrintEnds \/ PressScreen
           \/ StartReport \/ AnswerComes \/ LinkBreaks \/ LinkComesBack
    PROVE  StartInv'
<1>t. /\ StartTypes /\ OneUnder /\ (printer.passing => printer.command # NoStart)
      /\ \A k \in StartCalls : CallOK(k)
      /\ NoStart \notin StartCalls /\ NoPrint \notin StartCalls /\ Screen \notin StartCalls
  BY StartAssumption DEF StartInv
<1>u. UNCHANGED <<storedFile, start>>
  BY DEF StartsPrint, Flickers, Declines, PrintEnds, PressScreen, OnlyMachine,
         StartReport, AnswerComes, LinkBreaks, LinkComesBack
<1>o. OneUnder' BY <1>t, <1>u DEF OneUnder
<1> USE DEF CallOK, NotSent, MaySend, WaitsForStart, SawStart, WasRefused, PrinterBusy
<1>1. CASE StartsPrint
  <2>1. PICK k \in StartCalls :
          /\ printer.command = k /\ printer.prints = NoPrint /\ UNCHANGED <<report, refusal, answer>>
          /\ printer' = [prints |-> k, command |-> NoStart, code |-> NoCode, passing |-> FALSE]
    BY <1>1, <1>t DEF StartsPrint, OnlyMachine, StartTypes, Printers
  <2>2. StartTypes' BY <1>t, <1>u, <2>1 DEF StartTypes, Printers
  <2>3. printer'.prints = k /\ printer'.command = NoStart /\ ~printer'.passing BY <2>1
  <2>4. ASSUME NEW j \in StartCalls PROVE CallOK(j)' BY <1>t, <1>u, <2>1, <2>3
  <2> QED BY <1>o, <2>2, <2>3, <2>4 DEF StartInv
<1>2. CASE Flickers
  <2>1. PICK c \in Codes : printer' = [printer EXCEPT !.code = c, !.passing = TRUE]
    BY <1>2 DEF Flickers
  <2>2. printer.command # NoStart /\ UNCHANGED <<report, refusal, answer>> BY <1>2 DEF Flickers, OnlyMachine
  <2>3. /\ printer' \in Printers /\ printer'.prints = printer.prints /\ printer'.command = printer.command
        /\ printer'.passing
    BY <1>t, <2>1 DEF StartTypes, Printers
  <2>4. StartTypes' BY <1>t, <1>u, <2>2, <2>3 DEF StartTypes
  <2>5. ASSUME NEW j \in StartCalls PROVE CallOK(j)' BY <1>t, <1>u, <2>2, <2>3
  <2> QED BY <1>o, <2>2, <2>3, <2>4, <2>5 DEF StartInv
<1>3. CASE Declines
  <2>1. PICK k \in StartCalls, c \in Codes \cup {NoCode} :
          /\ printer.command = k /\ answer' \in {k, answer}
          /\ printer' = [printer EXCEPT !.command = NoStart, !.code = c]
    <3>1. printer \in Printers /\ printer.command \in StartCalls /\ printer.code \in Codes \cup {NoCode}
      BY <1>3, <1>t DEF Declines, StartTypes, Printers
    <3>2. [printer EXCEPT !.command = NoStart] = [printer EXCEPT !.command = NoStart, !.code = printer.code]
      BY <3>1 DEF Printers
    <3> QED BY <1>3, <3>1, <3>2 DEF Declines
  <2>2. ~printer.passing /\ UNCHANGED <<report, refusal>> BY <1>3 DEF Declines, OnlyMachine
  <2>3. /\ printer' \in Printers /\ printer'.prints = printer.prints /\ printer'.command = NoStart
        /\ ~printer'.passing
    BY <1>t, <2>1, <2>2 DEF StartTypes, Printers
  <2>4. StartTypes' BY <1>t, <1>u, <2>1, <2>2, <2>3 DEF StartTypes
  <2>5. ASSUME NEW j \in StartCalls PROVE CallOK(j)' BY <1>t, <1>u, <2>1, <2>2, <2>3
  <2> QED BY <1>o, <2>3, <2>4, <2>5 DEF StartInv
<1>4. CASE PrintEnds
  <2>1. PICK c \in Codes \cup {NoCode} : printer' = [printer EXCEPT !.prints = NoPrint, !.code = c]
    BY <1>4 DEF PrintEnds
  <2>2. /\ report.status # "idle" /\ printer.command = NoStart
        /\ \A k \in StartCalls : start[k].at # "wait"
        /\ UNCHANGED <<report, refusal, answer>>
    BY <1>4 DEF PrintEnds, OnlyMachine
  <2>3. /\ printer' \in Printers /\ printer'.prints = NoPrint /\ printer'.command = NoStart
        /\ printer'.passing = printer.passing
    BY <1>t, <2>1, <2>2 DEF StartTypes, Printers
  <2>4. StartTypes' BY <1>t, <1>u, <2>2, <2>3 DEF StartTypes
  <2>5. ASSUME NEW j \in StartCalls PROVE CallOK(j)' BY <1>t, <1>u, <2>2, <2>3
  <2> QED BY <1>o, <1>t, <2>2, <2>3, <2>4, <2>5 DEF StartInv
<1>5. CASE PressScreen
  <2>1. /\ printer.prints = NoPrint /\ printer.command = NoStart /\ UNCHANGED <<report, refusal, answer>>
        /\ printer' = [printer EXCEPT !.prints = Screen]
    BY <1>5 DEF PressScreen, OnlyMachine
  <2>2. /\ printer' \in Printers /\ printer'.prints = Screen /\ printer'.command = NoStart
        /\ printer'.passing = printer.passing /\ printer'.code = printer.code
    BY <1>t, <2>1 DEF StartTypes, Printers
  <2>3. StartTypes' BY <1>t, <1>u, <2>1, <2>2 DEF StartTypes
  <2>4. ASSUME NEW j \in StartCalls PROVE CallOK(j)' BY <1>t, <1>u, <2>1, <2>2
  <2> QED BY <1>o, <1>t, <2>1, <2>2, <2>3, <2>4 DEF StartInv
<1>6. CASE StartReport
  <2>1. PICK s \in {report.status, IF PrinterBusy THEN "busy" ELSE "idle"}, c \in {report.code, printer.code} :
          /\ s # report.status /\ (s = "idle" \/ report.status = "none") => c = printer.code
          /\ report' = [status |-> s, code |-> c]
          /\ UNCHANGED <<printer, refusal, answer>>
    BY <1>6 DEF StartReport
  <2>2. report'.status = s /\ report'.code = c BY <2>1
  <2>3. StartTypes' BY <1>t, <1>u, <2>1 DEF StartTypes, Reports, Printers, Statuses
  <2>4. ASSUME NEW j \in StartCalls PROVE CallOK(j)' BY <1>t, <1>u, <2>1, <2>2
  <2> QED BY <1>o, <1>t, <2>1, <2>3, <2>4 DEF StartInv
<1>7. CASE AnswerComes
  <2>1. answer # NoStart /\ refusal' = TRUE /\ answer' = NoStart /\ UNCHANGED <<printer, report>>
    BY <1>7 DEF AnswerComes
  <2>2. StartTypes' BY <1>t, <1>u, <2>1 DEF StartTypes
  <2>3. ASSUME NEW j \in StartCalls PROVE CallOK(j)' BY <1>t, <1>u, <2>1
  <2> QED BY <1>o, <1>t, <2>1, <2>2, <2>3 DEF StartInv
<1>8. CASE LinkBreaks \/ LinkComesBack
  <2>1. PICK s \in {"off", "none"} :
          /\ report' = [report EXCEPT !.status = s] /\ answer' \in {answer, NoStart}
          /\ UNCHANGED <<printer, refusal>>
    BY <1>8 DEF LinkBreaks, LinkComesBack
  <2>2. report' \in Reports /\ report'.status = s /\ report'.code = report.code
    BY <1>t, <2>1 DEF StartTypes, Reports, Statuses
  <2>3. StartTypes' BY <1>t, <1>u, <2>1, <2>2 DEF StartTypes
  <2>4. ASSUME NEW j \in StartCalls PROVE CallOK(j)' BY <1>t, <1>u, <2>1, <2>2
  <2> QED BY <1>o, <1>t, <2>1, <2>3, <2>4 DEF StartInv
<1> QED BY <1>1, <1>2, <1>3, <1>4, <1>5, <1>6, <1>7, <1>8

(* What a call does.                                                         *)
LEMMA CallStepOK ==
    ASSUME StartInv, NEW k \in StartCalls, Call(k)
    PROVE  StartInv'
<1>t. /\ StartTypes /\ OneUnder /\ (printer.passing => printer.command # NoStart)
      /\ \A j \in StartCalls : CallOK(j)
      /\ NoStart \notin StartCalls /\ NoPrint \notin StartCalls
  BY StartAssumption DEF StartInv
<1>s. start \in [StartCalls -> StartStates] BY <1>t DEF StartTypes
<1>u. UNCHANGED <<report, answer>>
  BY DEF Call, BeginStart, UploadFails, Uploaded, SendStart, Look, GracePasses, GivesUp, OnlyCall
<1>1. CASE BeginStart(k)
  <2>1. /\ start[k].at = "none" /\ \A j \in StartCalls : start[j].at \notin Under
        /\ UNCHANGED <<printer, refusal>>
    BY <1>1 DEF BeginStart
  <2>2. CASE Preflight
    <3>1. StartGoes(k, "upload") /\ storedFile' = [of |-> k, whole |-> FALSE] /\ report.status = "idle"
      BY <1>1, <2>2 DEF BeginStart, Preflight
    <3>2. start' \in [StartCalls -> StartStates] /\ \A j \in StartCalls :
            /\ start'[j].at = IF j = k THEN "upload" ELSE start[j].at
            /\ start'[j].base = start[j].base /\ start'[j].seen = start[j].seen
            /\ start'[j].long = start[j].long
      BY <1>s, <3>1, OneGoes DEF StartAts, Under
    <3>3. StartTypes' BY <1>t, <1>u, <2>1, <3>1, <3>2 DEF StartTypes
    <3>4. OneUnder' BY <2>1, <3>2 DEF OneUnder
    <3>5. ASSUME NEW j \in StartCalls PROVE CallOK(j)'
      BY <1>t, <1>u, <2>1, <3>1, <3>2 DEF CallOK, NotSent, MaySend, WaitsForStart, SawStart, WasRefused, Under, PrinterBusy
    <3> QED BY <1>t, <2>1, <3>3, <3>4, <3>5 DEF StartInv
  <2>3. CASE ~Preflight
    <3>1. StartGoes(k, "failed") /\ storedFile' = storedFile BY <1>1, <2>3 DEF BeginStart
    <3>2. start' \in [StartCalls -> StartStates] /\ \A j \in StartCalls :
            /\ start'[j].at = IF j = k THEN "failed" ELSE start[j].at
            /\ start'[j].base = start[j].base /\ start'[j].seen = start[j].seen
            /\ start'[j].long = start[j].long
      BY <1>s, <3>1, OneGoes DEF StartAts
    <3>3. StartTypes' BY <1>t, <1>u, <2>1, <3>1, <3>2 DEF StartTypes
    <3>4. OneUnder' BY <1>t, <3>2 DEF OneUnder, Under
    <3>5. ASSUME NEW j \in StartCalls PROVE CallOK(j)'
      BY <1>t, <1>u, <2>1, <3>1, <3>2 DEF CallOK, NotSent, MaySend, WaitsForStart, SawStart, WasRefused, Under, PrinterBusy
    <3> QED BY <1>t, <2>1, <3>3, <3>4, <3>5 DEF StartInv
  <2> QED BY <2>2, <2>3
<1>2. CASE UploadFails(k) \/ GivesUp(k)
  <2>1. PICK at \in {"again", "failed"} :
          /\ StartGoes(k, at) /\ start[k].at \in Under /\ UNCHANGED <<printer, storedFile, refusal>>
          /\ at = "again" => start[k].at = "upload"
    BY <1>2 DEF UploadFails, GivesUp, Under
  <2>2. start' \in [StartCalls -> StartStates] /\ \A j \in StartCalls :
          /\ start'[j].at = IF j = k THEN at ELSE start[j].at
          /\ start'[j].base = start[j].base /\ start'[j].seen = start[j].seen
          /\ start'[j].long = start[j].long
    <3>1. at \in StartAts BY DEF StartAts, Under
    <3> QED BY <1>s, <2>1, <3>1, OneGoes
  <2>3. StartTypes' BY <1>t, <1>u, <2>1, <2>2 DEF StartTypes
  <2>4. OneUnder' BY <1>t, <2>1, <2>2 DEF OneUnder, Under
  <2>5. ASSUME NEW j \in StartCalls PROVE CallOK(j)'
    BY <1>t, <1>u, <2>1, <2>2 DEF CallOK, NotSent, MaySend, WaitsForStart, SawStart, WasRefused, Under, PrinterBusy
  <2> QED BY <1>t, <2>1, <2>3, <2>4, <2>5 DEF StartInv
<1>3. CASE Uploaded(k)
  <2>1. /\ start[k].at \in {"upload", "again"} /\ printer.command = NoStart /\ answer = NoStart
        /\ report.status = "idle" => report.code = printer.code
        /\ StartGoes(k, "after") /\ storedFile' = [of |-> k, whole |-> TRUE]
        /\ UNCHANGED <<printer, refusal>>
    BY <1>3 DEF Uploaded
  <2>2. start' \in [StartCalls -> StartStates] /\ \A j \in StartCalls :
          /\ start'[j].at = IF j = k THEN "after" ELSE start[j].at
          /\ start'[j].base = start[j].base /\ start'[j].seen = start[j].seen
          /\ start'[j].long = start[j].long
    BY <1>s, <2>1, OneGoes DEF StartAts, Under
  <2>3. StartTypes' BY <1>t, <1>u, <2>1, <2>2 DEF StartTypes
  <2>4. OneUnder' BY <1>t, <2>1, <2>2 DEF OneUnder, Under
  <2>5. \A j \in StartCalls : j # k => start[j].at \notin Under BY <1>t, <2>1 DEF OneUnder, Under
  <2>6. ASSUME NEW j \in StartCalls PROVE CallOK(j)'
    BY <1>t, <1>u, <2>1, <2>2, <2>5, ZenonT(60) DEF CallOK, NotSent, MaySend, WaitsForStart, SawStart, WasRefused, Under, PrinterBusy
  <2> QED BY <1>t, <2>1, <2>3, <2>4, <2>6 DEF StartInv
<1>4. CASE SendStart(k)
  <2>1. start[k].at = "after" /\ storedFile' = storedFile BY <1>4 DEF SendStart
  <2>o. \A j \in StartCalls : j # k => start[j].at \notin Under BY <1>t, <2>1 DEF OneUnder, Under
  <2>2. CASE StartGoes(k, "failed") /\ printer' = printer /\ refusal' \in {FALSE, refusal}
    <3>2. start' \in [StartCalls -> StartStates] /\ \A j \in StartCalls :
            /\ start'[j].at = IF j = k THEN "failed" ELSE start[j].at
            /\ start'[j].base = start[j].base /\ start'[j].seen = start[j].seen
            /\ start'[j].long = start[j].long
      BY <1>s, <2>2, OneGoes DEF StartAts
    <3>3. StartTypes' BY <1>t, <1>u, <2>1, <2>2, <3>2 DEF StartTypes
    <3>4. OneUnder' BY <1>t, <3>2 DEF OneUnder, Under
    <3>5. ASSUME NEW j \in StartCalls PROVE CallOK(j)'
      BY <1>t, <1>u, <2>1, <2>o, <2>2, <3>2 DEF CallOK, NotSent, MaySend, WaitsForStart, SawStart, WasRefused, Under, PrinterBusy
    <3> QED BY <1>t, <2>2, <3>3, <3>4, <3>5 DEF StartInv
  <2>3. CASE /\ report.status = "idle" /\ refusal' = FALSE
             /\ start' = [start EXCEPT ![k].at = "wait", ![k].base = report.code]
             /\ printer' = [printer EXCEPT !.command = k]
    <3>1. PICK q : q = [start[k] EXCEPT !.at = "wait", !.base = report.code] OBVIOUS
    <3>2. q \in StartStates /\ q.at = "wait" /\ q.base = report.code /\ q.seen = start[k].seen /\ q.long = start[k].long
      BY <1>s, <1>t, <3>1 DEF StartStates, StartTypes, Reports, StartAts, Under
    <3>3. start' = [start EXCEPT ![k] = q] BY <1>s, <2>3, <3>1
    <3>4. start' \in [StartCalls -> StartStates] /\ \A j \in StartCalls : start'[j] = IF j = k THEN q ELSE start[j]
      BY <1>s, <3>2, <3>3
    <3>5. /\ printer' \in Printers /\ printer'.command = k /\ printer'.prints = printer.prints
          /\ printer'.code = printer.code
      BY <1>t, <2>3 DEF StartTypes, Printers
    <3>6. StartTypes' BY <1>t, <1>u, <2>1, <2>3, <3>4, <3>5 DEF StartTypes
    <3>7. OneUnder' BY <2>o, <3>4 DEF OneUnder
    <3>8. ASSUME NEW j \in StartCalls PROVE CallOK(j)'
      <4>1. CASE j = k
        BY <1>t, <1>u, <2>1, <2>3, <3>2, <3>4, <3>5, <4>1
        DEF CallOK, NotSent, MaySend, WaitsForStart, SawStart, WasRefused, PrinterBusy
      <4>2. CASE j # k
        <5>1. start'[j] = start[j] /\ start[j].at \notin Under /\ (start[j].at = "started" => printer.prints # j)
          BY <1>t, <2>1, <2>o, <3>4, <4>2 DEF CallOK, SawStart, Under
        <5> QED BY <1>t, <1>u, <2>1, <3>5, <4>2, <5>1
                DEF CallOK, NotSent, MaySend, WaitsForStart, SawStart, WasRefused, Under, PrinterBusy
      <4> QED BY <4>1, <4>2
    <3> QED BY <1>t, <3>5, <3>6, <3>7, <3>8 DEF StartInv
  <2> QED BY <1>4, <2>2, <2>3 DEF SendStart, PreflightAfterUpload, Preflight, ClearCommandRefusal
<1>5. CASE Look(k) \/ GracePasses(k)
  <2>1. start[k].at = "wait" /\ UNCHANGED <<printer, storedFile, refusal>>
    BY <1>5 DEF Look, GracePasses
  <2>o. \A j \in StartCalls : j # k => start[j].at \notin Under BY <1>t, <2>1 DEF OneUnder, Under
  <2>2. CASE \E at \in {"refused", "started"} :
               /\ StartGoes(k, at)
               /\ at = "started" => report.status = "busy"
               /\ at = "refused" => refusal \/ (report.status = "idle" /\ start[k].long)
    <3>1. PICK at \in {"refused", "started"} :
            /\ StartGoes(k, at)
            /\ at = "started" => report.status = "busy"
            /\ at = "refused" => refusal \/ (report.status = "idle" /\ start[k].long)
      BY <2>2
    <3>2. start' \in [StartCalls -> StartStates] /\ \A j \in StartCalls :
            /\ start'[j].at = IF j = k THEN at ELSE start[j].at
            /\ start'[j].base = start[j].base /\ start'[j].seen = start[j].seen
            /\ start'[j].long = start[j].long
      <4>1. at \in StartAts BY DEF StartAts
      <4> QED BY <1>s, <3>1, <4>1, OneGoes
    <3>3. StartTypes' BY <1>t, <1>u, <2>1, <3>2 DEF StartTypes
    <3>4. OneUnder' BY <1>t, <3>2 DEF OneUnder, Under
    <3>5. ASSUME NEW j \in StartCalls PROVE CallOK(j)'
      BY <1>t, <1>u, <2>1, <2>o, <3>1, <3>2 DEF CallOK, NotSent, MaySend, WaitsForStart, SawStart, WasRefused, Under, PrinterBusy
    <3> QED BY <1>t, <2>1, <3>3, <3>4, <3>5 DEF StartInv
  <2>3. CASE \E seen \in Codes \cup {NoCode}, long \in BOOLEAN :
               /\ start' = [start EXCEPT ![k].seen = seen, ![k].long = long]
               /\ long => ~printer.passing /\ start[k].seen # NoCode /\ (PrinterBusy <=> report.status = "busy")
               /\ seen # NoCode => seen = start[k].seen \/ report.code # start[k].base
    <3>1. PICK seen \in Codes \cup {NoCode}, long \in BOOLEAN :
               /\ start' = [start EXCEPT ![k].seen = seen, ![k].long = long]
               /\ long => ~printer.passing /\ start[k].seen # NoCode /\ (PrinterBusy <=> report.status = "busy")
               /\ seen # NoCode => seen = start[k].seen \/ report.code # start[k].base
      BY <2>3
    <3>2. PICK q : q = [start[k] EXCEPT !.seen = seen, !.long = long] OBVIOUS
    <3>3. q \in StartStates /\ q.at = "wait" /\ q.base = start[k].base /\ q.seen = seen /\ q.long = long
      BY <1>s, <2>1, <3>1, <3>2 DEF StartStates
    <3>4. start' = [start EXCEPT ![k] = q] BY <1>s, <3>1, <3>2
    <3>5. start' \in [StartCalls -> StartStates] /\ \A j \in StartCalls : start'[j] = IF j = k THEN q ELSE start[j]
      BY <1>s, <3>3, <3>4
    <3>6. StartTypes' BY <1>t, <1>u, <2>1, <3>5 DEF StartTypes
    <3>7. OneUnder' BY <2>o, <3>5 DEF OneUnder
    <3>8. ASSUME NEW j \in StartCalls PROVE CallOK(j)'
      <4>1. CASE j = k
        BY <1>t, <1>u, <2>1, <3>1, <3>3, <3>5, <4>1
        DEF CallOK, NotSent, MaySend, WaitsForStart, SawStart, WasRefused, PrinterBusy
      <4>2. CASE j # k
        <5>1. start'[j] = start[j] /\ start[j].at \notin Under /\ (start[j].at = "started" => printer.prints # j)
          BY <1>t, <2>1, <2>o, <3>5, <4>2 DEF CallOK, SawStart, Under
        <5> QED BY <1>t, <1>u, <2>1, <4>2, <5>1
                DEF CallOK, NotSent, MaySend, WaitsForStart, SawStart, WasRefused, Under, PrinterBusy
      <4> QED BY <4>1, <4>2
    <3> QED BY <1>t, <2>1, <3>6, <3>7, <3>8 DEF StartInv
  <2>4. report.code \in Codes \cup {NoCode} /\ start[k].seen \in Codes \cup {NoCode} /\ start[k] \in StartStates
    BY <1>s, <1>t DEF StartTypes, Reports, StartStates
  <2>5. CASE GracePasses(k)
    <3>1. [start EXCEPT ![k].long = TRUE] = [start EXCEPT ![k].seen = start[k].seen, ![k].long = TRUE]
      BY <1>s, <2>4 DEF StartStates
    <3> QED BY <2>3, <2>4, <2>5, <3>1 DEF GracePasses
  <2>6. CASE Look(k)
    <3>1. CASE refusal BY <2>2, <2>6, <3>1 DEF Look
    <3>2. CASE report.status = "busy" /\ ~refusal BY <2>2, <2>6, <3>2 DEF Look
    <3>3. CASE /\ report.status = "idle" /\ ~News(k)
               /\ start' = [start EXCEPT ![k].seen = NoCode, ![k].long = FALSE]
      BY <2>3, <3>3
    <3>4. CASE /\ report.status = "idle" /\ News(k)
               /\ start' = [start EXCEPT ![k].seen = report.code, ![k].long = FALSE]
      BY <2>3, <2>4, <3>4 DEF News
    <3>5. CASE report.status = "idle" /\ start[k].long /\ StartGoes(k, "refused")
      BY <2>2, <3>5
    <3> QED BY <2>6, <3>1, <3>2, <3>3, <3>4, <3>5 DEF Look
  <2> QED BY <1>5, <2>5, <2>6
<1> QED BY <1>1, <1>2, <1>3, <1>4, <1>5 DEF Call

LEMMA StartStepOK == StartInv /\ [StartNext]_startVars => StartInv'
<1> SUFFICES ASSUME StartInv, [StartNext]_startVars PROVE StartInv'
  OBVIOUS
<1>1. CASE UNCHANGED startVars
  BY <1>1 DEF startVars, StartInv, StartTypes, OneUnder, CallOK, NotSent, MaySend, WaitsForStart,
              SawStart, WasRefused, PrinterBusy
<1>2. CASE \E k \in StartCalls : Call(k) BY <1>2, CallStepOK
<1>3. CASE StartNext /\ ~ \E k \in StartCalls : Call(k) BY <1>3, MachineStepOK DEF StartNext
<1> QED BY <1>1, <1>2, <1>3 DEF StartNext

-----------------------------------------------------------------------------
(* The run's parts keep each of the three.                                   *)
CommandInv == StartInv /\ SkipInv /\ TransferInv

(* No refused start prints, a print runs from its own file, a skip has the   *)
(* objects of the print that runs, and a file that counts as transferred is  *)
(* whole: for any number of calls, requests, prints and files.               *)
THEOREM PrintCommandsStayTrue == MCSpec => []PrintCommandsAreTrue
<1>1. MCInit => CommandInv
  BY StartInitOK, SkipInitOK, TransferInitOK DEF MCInit, CommandInv
<1>2. CommandInv /\ [MCBambuNext]_MCBambuVars => CommandInv'
  <2> SUFFICES ASSUME CommandInv, [MCBambuNext]_MCBambuVars PROVE CommandInv'
    OBVIOUS
  <2>1. [StartNext]_startVars /\ [SkipNext]_skipVars /\ [TransferNext]_transferVars
    BY DEF MCBambuNext, MCBambuVars, SessionStep, StartStep, SkipStep, CameraStep, PaceStep, FileStep
  <2> QED BY <2>1, StartStepOK, SkipStepOK, TransferStepOK DEF CommandInv
<1>3. MCSpec => MCInit /\ [][MCBambuNext]_MCBambuVars BY PTL DEF MCSpec, MCBambuNext, MCBambuVars
<1>4. CommandInv => PrintCommandsAreTrue
  <2> SUFFICES ASSUME CommandInv PROVE PrintCommandsAreTrue
    OBVIOUS
  <2>1. RefusedNeverPrints BY DEF CommandInv, StartInv, CallOK, WasRefused, RefusedNeverPrints
  <2>2. RunsItsOwnFile
    BY DEF CommandInv, StartInv, CallOK, WaitsForStart, SawStart, RunsItsOwnFile
  <2>3. RightObjects
    BY DEF CommandInv, SkipInv, RequestsOK, RequestOK, RightList, RightObjects
  <2>4. TransferIsRight
    BY DEF CommandInv, TransferInv, ConnsOK, UploadOK, DownloadOK, TransferIsRight, UploadedIsWhole,
           DownloadedIsWhole
  <2> QED BY <2>1, <2>2, <2>3, <2>4 DEF PrintCommandsAreTrue
<1> QED BY <1>1, <1>2, <1>3, <1>4, PTL
=============================================================================
