---------------------------- MODULE HomeAssistant ----------------------------
(***************************************************************************)
(* The export to an MQTT broker (mqttexport/, mqttexport_routes.go), as    *)
(* Home Assistant sees it: the retained discovery configs of the printers. *)
(* The exporter learns what is retained from its own subscription, which   *)
(* also brings it back what it published, in the broker's order and late.  *)
(* One broker; a config stands for all of a printer's, and a number for    *)
(* its content.                                                            *)
(***************************************************************************)
EXTENDS Naturals, Sequences, FiniteSets

CONSTANTS
    ExportPrinters,
    MaxExportPosts, MaxPrinterChanges, MaxExportMishaps   \* bounds

Settings == {"off", "plain", "discovery"}   \* Enabled, and with Discovery
Gone == 0                                   \* an empty payload, or none

VARIABLES
    printers,   \* configStore.Printers: what each one's config would be
    setting,    \* the stored block
    posts,      \* POSTs that have saved and not applied
    exporter,   \* Exporter.cur: its settings, "none" without a session
    link,       \* the session's connection: "down", "new" until readyAt, "ready"
    known,      \* syncer.known
    echo,       \* what the subscription has still to deliver
    retained,   \* external: the broker's retained configs
    crossed,    \* two POSTs overlapped
    posted, printerChanges, exportMishaps

exportVars == <<printers, setting, posts, exporter, link, known, echo, retained, crossed,
                posted, printerChanges, exportMishaps>>

Empty == [p \in ExportPrinters |-> Gone]

ExportInit ==
    /\ printers \in [ExportPrinters -> {Gone, 1}] /\ setting = "off" /\ posts = <<>>
    /\ exporter = "none" /\ link = "down" /\ known = Empty /\ echo = <<>> /\ retained = Empty
    /\ crossed = FALSE /\ posted = 0 /\ printerChanges = 0 /\ exportMishaps = 0

Bounded == UNCHANGED <<posted, printerChanges, exportMishaps>>

-----------------------------------------------------------------------------
(* handleMQTTExport saves under the config's lock, and applies after it.     *)
SaveExport ==
    /\ posted < MaxExportPosts /\ posted' = posted + 1
    /\ \E s \in Settings : setting' = s /\ posts' = Append(posts, s)
    /\ crossed' = (crossed \/ posts # <<>>)
    /\ UNCHANGED <<printers, exporter, link, known, echo, retained, printerChanges, exportMishaps>>

(* What close publishes: with discovery over, an empty config for each known.*)
ClosedBy(s) ==
    IF link # "down" /\ exporter = "discovery" /\ s # "discovery"
    THEN [p \in ExportPrinters |-> IF known[p] # Gone THEN Gone ELSE retained[p]]
    ELSE retained

(* Apply, one at a time: the running session ends unless it has these        *)
(* settings, and another begins.                                             *)
ApplyExport ==
    \E i \in DOMAIN posts :
        LET s == posts[i] IN
        /\ posts' = SubSeq(posts, 1, i - 1) \o SubSeq(posts, i + 1, Len(posts))
        /\ IF exporter = s THEN UNCHANGED <<exporter, link, known, echo, retained>>
           ELSE /\ retained' = ClosedBy(s) /\ exporter' = IF s = "off" THEN "none" ELSE s
                /\ link' = "down" /\ known' = Empty /\ echo' = <<>>
        /\ UNCHANGED <<printers, setting, crossed>> /\ Bounded

(* A printer is added, edited or deleted.                                    *)
ChangePrinter(p) ==
    /\ printerChanges < MaxPrinterChanges /\ printerChanges' = printerChanges + 1
    /\ \E c \in {Gone, 1, 2} \ {printers[p]} : printers' = [printers EXCEPT ![p] = c]
    /\ UNCHANGED <<setting, posts, exporter, link, known, echo, retained, crossed, posted, exportMishaps>>

-----------------------------------------------------------------------------
(* The session.                                                              *)

SessionOnly == UNCHANGED <<printers, setting, posts, exporter, crossed>>

(* Mutant: what was known before the connection was lost is still believed.  *)
KnownStill == known

(* newSyncer.                                                                *)
KnownAnew == Empty

(* onConnect; the subscription brings every retained config.                 *)
Connect ==
    /\ exporter # "none" /\ link = "down" /\ link' = "new"
    /\ known' = KnownAnew
    /\ LET there == {p \in ExportPrinters : retained[p] # Gone}
       IN  \E order \in [1..Cardinality(there) -> there] :
             /\ {order[i] : i \in DOMAIN order} = there
             /\ echo' = [i \in DOMAIN order |-> <<order[i], retained[order[i]]>>]
    /\ UNCHANGED retained /\ SessionOnly /\ Bounded

Settle ==
    /\ link = "new" /\ link' = "ready" /\ UNCHANGED <<known, echo, retained>> /\ SessionOnly /\ Bounded

(* onConfig.                                                                 *)
HearConfig ==
    /\ link # "down" /\ echo # <<>>
    /\ known' = [known EXCEPT ![Head(echo)[1]] = Head(echo)[2]] /\ echo' = Tail(echo)
    /\ UNCHANGED <<link, retained>> /\ SessionOnly /\ Bounded

Desired == IF exporter = "discovery" THEN printers ELSE Empty

(* tick and step: what differs is published, and what is known and no longer *)
(* wanted is emptied.                                                        *)
Tick ==
    /\ link = "ready" /\ known # Desired
    /\ LET new == {p \in ExportPrinters : known[p] # Desired[p]}
       IN  /\ known' = Desired
           /\ retained' = [p \in ExportPrinters |-> IF p \in new THEN Desired[p] ELSE retained[p]]
           /\ \E order \in [1..Cardinality(new) -> new] :
                /\ {order[i] : i \in DOMAIN order} = new
                /\ echo' = echo \o [i \in DOMAIN order |-> <<order[i], Desired[order[i]]>>]
    /\ UNCHANGED link /\ SessionOnly /\ Bounded

(* The connection is lost, perhaps with all that the broker retained, or     *)
(* with what a tick was about to publish.                                    *)
LoseBroker ==
    /\ exportMishaps < MaxExportMishaps /\ exportMishaps' = exportMishaps + 1
    /\ link # "down" /\ link' = "down" /\ echo' = <<>>
    /\ \/ retained' = Empty /\ UNCHANGED known
       \/ UNCHANGED <<retained, known>>
       \/ link = "ready" /\ known' = Desired /\ UNCHANGED retained
    /\ SessionOnly /\ UNCHANGED <<posted, printerChanges>>

(* onStartup applies what is stored.                                         *)
RestartExport ==
    /\ exportMishaps < MaxExportMishaps /\ exportMishaps' = exportMishaps + 1
    /\ posts' = <<>> /\ exporter' = IF setting = "off" THEN "none" ELSE setting
    /\ link' = "down" /\ known' = Empty /\ echo' = <<>>
    /\ UNCHANGED <<printers, setting, retained, crossed, posted, printerChanges>>

Session == Connect \/ Settle \/ HearConfig \/ Tick
ExportNext ==
    \/ SaveExport \/ ApplyExport \/ \E p \in ExportPrinters : ChangePrinter(p)
    \/ Session \/ LoseBroker \/ RestartExport

(* The loops of paho, run and the handler.                                   *)
ExportFairness ==
    /\ WF_exportVars(Session) /\ WF_exportVars(ApplyExport)

-----------------------------------------------------------------------------
(* Home Assistant comes to show the printers there are and no others, through*)
(* deleted printers, lost connections, restarts and a broker that forgets,   *)
(* with the settings that are stored if no two POSTs overlapped. A session   *)
(* that is off clears what it can.                                           *)
DiscoverySettles ==
    <>[](/\ ~crossed /\ posts = <<>> => exporter = (IF setting = "off" THEN "none" ELSE setting)
         /\ exporter # "none" => retained = Desired)
=============================================================================
