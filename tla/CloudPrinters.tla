---------------------------- MODULE CloudPrinters ----------------------------
(* The printers on the account's one connection (mqtt/cloud.go): which serial *)
(* goes by which name, the names commands are sent under (printerClients) and *)
(* the names states are kept under (printerStates). A request changes the     *)
(* list under the runner's mutex and removes a state afterwards; the loop     *)
(* drops the connection, and a report is handled, in steps of their own.      *)
(* One request at a time changes one printer, and one printer always stays:   *)
(* SetCloudPrinters ends the whole runner otherwise (CloudRunner).            *)
EXTENDS Naturals, FiniteSets

CONSTANTS Serials, CloudNames,
          NoSerial, NoCloudName,
          MaxListChanges  \* bound on the requests that change the list

ASSUME CloudPrintersAssumption ==
    /\ NoSerial \notin Serials /\ Serials \cap {"none", "off", "on"} = {}
    /\ NoCloudName \notin CloudNames /\ MaxListChanges \in Nat

VARIABLES
    named,    \* cloudRunner.printers: the name of each serial
    link,     \* cloudRunner.client: "up", "down", or "dropping" (dropClient)
    toMark,   \* names dropClient has still to mark as disconnected
    routes,   \* the names whose printerClients is the account's client
    shown,    \* printerStates: none, off, on, or the serial whose report it is
    inHand,   \* the report between handleMessage's lookup and its store
    leaving,  \* the name whose state a request has still to remove
    listChanges

cloudPrinterVars == <<named, link, toMark, routes, shown, inHand, leaving, listChanges>>

NoReport == [serial |-> NoSerial, name |-> NoCloudName]
OnAccount(s) == named[s] # NoCloudName
AccountNames == {named[s] : s \in Serials} \ {NoCloudName}

CloudPrintersInit ==
    /\ named = [s \in Serials |-> NoCloudName]
    /\ link = "down" /\ toMark = {} /\ routes = {}
    /\ shown = [n \in CloudNames |-> "none"]
    /\ inHand = NoReport /\ leaving = NoCloudName /\ listChanges = 0

(* connectAndServe: every printer is subscribed and shown as connected.      *)
LinkUp ==
    /\ link = "down" /\ AccountNames # {}
    /\ link' = "up" /\ routes' = routes \cup AccountNames
    /\ shown' = [n \in CloudNames |-> IF n \in AccountNames THEN "on" ELSE shown[n]]
    /\ UNCHANGED <<named, toMark, inHand, leaving, listChanges>>

(* dropClient takes the names of the moment ...                              *)
LinkLost ==
    /\ link = "up" /\ link' = "dropping" /\ toMark' = AccountNames
    /\ routes' = routes \ AccountNames
    /\ UNCHANGED <<named, shown, inHand, leaving, listChanges>>

(* ... and marks them afterwards.                                            *)
MarkNames ==
    /\ link = "dropping" /\ link' = "down" /\ toMark' = {}
    /\ shown' = [n \in CloudNames |-> IF n \in toMark THEN "off" ELSE shown[n]]
    /\ UNCHANGED <<named, routes, inHand, leaving, listChanges>>

RequestFree ==
    /\ leaving = NoCloudName /\ listChanges < MaxListChanges /\ listChanges' = listChanges + 1

Live(n) == shown[n] \notin {"none", "off"}

AddPrinter(s, n) ==
    /\ RequestFree /\ ~OnAccount(s) /\ n \notin AccountNames
    /\ named' = [named EXCEPT ![s] = n]
    /\ IF link = "up"
       THEN routes' = routes \cup {n} /\ shown' = [shown EXCEPT ![n] = "on"]
       ELSE UNCHANGED <<routes, shown>>
    /\ UNCHANGED <<link, toMark, inHand, leaving>>

(* A renamed printer takes its state along.                                  *)
CarryOver(old, n) ==
    [shown EXCEPT ![n] = IF Live(old) THEN shown[old] ELSE "on", ![old] = "none"]

RenameRoutesNot(old, n) == routes \cup {n}
RenameRoutes(old, n) == (routes \ {old}) \cup {n}

ChangeName(s, n) ==
    /\ RequestFree /\ OnAccount(s) /\ n \notin AccountNames
    /\ named' = [named EXCEPT ![s] = n] /\ leaving' = named[s]
    /\ IF link = "up"
       THEN routes' = RenameRoutes(named[s], n) /\ shown' = CarryOver(named[s], n)
       ELSE UNCHANGED <<routes, shown>>
    /\ UNCHANGED <<link, toMark, inHand>>

RemovePrinter(s) ==
    /\ RequestFree /\ OnAccount(s) /\ Cardinality(AccountNames) > 1
    /\ named' = [named EXCEPT ![s] = NoCloudName] /\ leaving' = named[s]
    /\ routes' = IF link = "up" THEN routes \ {named[s]} ELSE routes
    /\ UNCHANGED <<link, toMark, shown, inHand>>

(* RemovePrinterState, which the handlers call after syncCloud.              *)
RemoveState ==
    /\ leaving # NoCloudName /\ leaving' = NoCloudName
    /\ shown' = [shown EXCEPT ![leaving] = "none"]
    /\ UNCHANGED <<named, link, toMark, routes, inHand, listChanges>>

(* handleMessage looks the serial up ...                                     *)
HearReport(s) ==
    /\ link = "up" /\ inHand = NoReport /\ OnAccount(s)
    /\ inHand' = [serial |-> s, name |-> named[s]]
    /\ UNCHANGED <<named, link, toMark, routes, shown, leaving, listChanges>>

(* ... and stores the report under the name it found.                        *)
StoreReport ==
    /\ inHand # NoReport /\ inHand' = NoReport
    /\ shown' = [shown EXCEPT ![inHand.name] = inHand.serial]
    /\ UNCHANGED <<named, link, toMark, routes, leaving, listChanges>>

CloudPrintersNext ==
    \/ LinkUp \/ LinkLost \/ MarkNames \/ RemoveState \/ StoreReport
    \/ \E s \in Serials : \/ RemovePrinter(s) \/ HearReport(s)
                          \/ \E n \in CloudNames : AddPrinter(s, n) \/ ChangeName(s, n)

(* However requests, reports and lost connections interleave, a command goes *)
(* to a printer of the account while it is connected, and to no other name.  *)
RoutesFollow == routes = IF link = "up" THEN AccountNames ELSE {}

(* "a cloud message arriving after RemovePrinterState but before the         *)
(* unsubscribe would recreate the removed printer's state"                   *)
(* (server.go:1596-1597): at rest, only a printer of the account has a state,*)
(* a report is shown for the printer it came from, and printers are shown as *)
(* connected while the connection is up, and only then.                      *)
StatesFollow ==
    leaving = NoCloudName /\ link # "dropping" => \A n \in CloudNames :
        /\ shown[n] # "none" => n \in AccountNames
        /\ shown[n] \in Serials => named[shown[n]] = n
        /\ n \in AccountNames => (Live(n) <=> link = "up")
=============================================================================
