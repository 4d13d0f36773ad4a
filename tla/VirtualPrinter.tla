--------------------------- MODULE VirtualPrinter ---------------------------
(***************************************************************************)
(* The virtual printer (virtualprinter/server.go, server_wave27.go), to    *)
(* which a slicer sends a file for FoxTrack: Apply starts, moves and stops *)
(* its server after each change of the settings, while requests run; an    *)
(* upload takes a slot and a temporary file. Slicers, FoxTrack and the     *)
(* other programs of the machine are external.                             *)
(***************************************************************************)
EXTENDS Naturals, FiniteSets

CONSTANTS
    SlicerPorts, SlicerKeys, SlicerFiles,
    MaxUploads,
    MaxApplies     \* bound on changes of the settings

ASSUME SlicerAssumption == IsFiniteSet(SlicerFiles) /\ MaxUploads \in Nat

VARIABLES
    wanted,     \* config: [on, port, key, linked]; linked: there is a Bridge token
    applied,    \* Apply has run since the settings changed
    server,     \* Server's srv, port, key and forward
    closing,    \* a server was detached and is not shut down yet
    taken,      \* ports that other programs listen on
    upload,     \* each slicer's request
    uploading,  \* Server.uploading
    temp,       \* files on disk, by request
    foxtrack,   \* files that FoxTrack took
    applies

slicerVars == <<wanted, applied, server, closing, taken, upload, uploading, temp, foxtrack, applies>>

OnlyRequest == UNCHANGED <<wanted, applied, server, closing, taken, applies>>

SlicerInit ==
    /\ wanted \in [on : {FALSE}, port : SlicerPorts, key : SlicerKeys, linked : BOOLEAN]
    /\ applied = FALSE /\ closing = FALSE /\ taken \in SUBSET SlicerPorts
    /\ server = [srv |-> FALSE, port |-> "none", key |-> "none", linked |-> FALSE]
    /\ upload = [u \in SlicerFiles |-> "none"]
    /\ uploading = 0 /\ temp = {} /\ foxtrack = {} /\ applies = 0

-----------------------------------------------------------------------------
(* The settings.                                                             *)

ChangeSlicer ==
    /\ applied /\ applies < MaxApplies /\ applies' = applies + 1
    /\ wanted' \in [on : BOOLEAN, port : SlicerPorts, key : SlicerKeys, linked : BOOLEAN]
    /\ applied' = FALSE
    /\ UNCHANGED <<server, closing, taken, upload, uploading, temp, foxtrack>>

(* The server runs with these settings already.                              *)
IsServed == server.srv /\ server.port = wanted.port /\ server.key = wanted.key

(* syncVirtualPrinter and Apply, in its lock: the old server's port is free  *)
(* at once, and the old server is shut down later. A program that holds the  *)
(* new port leaves the Bridge without a server.                              *)
ApplySlicer ==
    /\ ~applied /\ applied' = TRUE
    /\ IF ~wanted.on THEN /\ server' = [server EXCEPT !.srv = FALSE, !.linked = wanted.linked]
                          /\ closing' = (closing \/ server.srv)
       ELSE IF IsServed THEN /\ server' = [server EXCEPT !.linked = wanted.linked]
                             /\ UNCHANGED closing
       ELSE /\ server' = [srv |-> wanted.port \notin taken, port |-> wanted.port,
                          key |-> wanted.key, linked |-> wanted.linked]
            /\ closing' = (closing \/ server.srv)
    /\ UNCHANGED <<wanted, taken, upload, uploading, temp, foxtrack, applies>>

(* shutdown, out of the lock: it waits for running requests, but not for     *)
(* long.                                                                     *)
Shutdown ==
    /\ closing /\ closing' = FALSE
    /\ UNCHANGED <<wanted, applied, server, taken, upload, uploading, temp, foxtrack, applies>>

(* Between two changes, other programs come and go.                          *)
OtherProgram ==
    /\ ~applied
    /\ \E p \in SlicerPorts :
         /\ ~(server.srv /\ server.port = p)
         /\ taken' = IF p \in taken THEN taken \ {p} ELSE taken \cup {p}
    /\ UNCHANGED <<wanted, applied, server, closing, upload, uploading, temp, foxtrack, applies>>

-----------------------------------------------------------------------------
(* A request. at is its next step, or the answer that the slicer got.        *)

Puts(u, at) == upload' = [upload EXCEPT ![u] = at]

(* A request comes to the server, or to one that is not shut down yet.       *)
ComesIn(u) ==
    /\ upload[u] = "none" /\ (server.srv \/ closing) /\ Puts(u, "handle")
    /\ UNCHANGED <<uploading, temp, foxtrack>> /\ OnlyRequest

(* handle copies the key and the forwarder in the lock.                      *)
Handle(u) ==
    /\ upload[u] = "handle"
    /\ \E key \in SlicerKeys : Puts(u, IF key = server.key /\ server.linked THEN "count" ELSE "refused")
    /\ UNCHANGED <<uploading, temp, foxtrack>> /\ OnlyRequest

(* upload: it counts itself, and looks at the count that this gives.         *)
Count(u) ==
    /\ upload[u] = "count" /\ uploading' = uploading + 1
    /\ Puts(u, IF uploading + 1 > MaxUploads THEN "busy" ELSE "read")
    /\ UNCHANGED <<temp, foxtrack>> /\ OnlyRequest

CountsBack(u) ==
    /\ upload[u] = "busy" /\ uploading' = uploading - 1 /\ Puts(u, "refused")
    /\ UNCHANGED <<temp, foxtrack>> /\ OnlyRequest

(* The file's part is stored, whole or in part, or there is none.            *)
Store(u) ==
    /\ upload[u] = "read"
    /\ \/ temp' = temp \cup {u} /\ Puts(u, "forward") /\ UNCHANGED uploading
       \/ UNCHANGED temp /\ Puts(u, "refused") /\ uploading' = uploading - 1
    /\ UNCHANGED foxtrack /\ OnlyRequest

(* What was stored is refused as too big, empty, without a name or cut short;*)
(* or FoxTrack takes it or not, and its answer may be lost. Then the slot and*)
(* the file are given back.                                                  *)
Forward(u) ==
    /\ upload[u] = "forward" /\ uploading' = uploading - 1 /\ temp' = temp \ {u}
    /\ \/ foxtrack' = foxtrack \cup {u} /\ \E told \in {"created", "refused"} : Puts(u, told)
       \/ UNCHANGED foxtrack /\ Puts(u, "refused")
    /\ OnlyRequest

SlicerNext ==
    \/ ChangeSlicer \/ ApplySlicer \/ Shutdown \/ OtherProgram
    \/ \E u \in SlicerFiles :
         ComesIn(u) \/ Handle(u) \/ Count(u) \/ CountsBack(u) \/ Store(u) \/ Forward(u)

-----------------------------------------------------------------------------
(* Once Apply has run, the server is there with the port, the key and the    *)
(* connection of the settings, or another program held the port; and none is *)
(* there if it is off.                                                       *)
ServerFollows ==
    applied => /\ server.linked = wanted.linked
               /\ server.srv => wanted.on /\ server.port = wanted.port /\ server.key = wanted.key
               /\ wanted.on => server.srv \/ wanted.port \in taken

(* However requests overlap, no more than MaxUploads read and store files,   *)
(* the count never lets a slot be lost or given back twice, and no file is   *)
(* left on disk.                                                             *)
SlotsComeBack ==
    LET In(places) == {u \in SlicerFiles : upload[u] \in places} IN
    /\ Cardinality(In({"read", "forward"})) <= MaxUploads
    /\ uploading = Cardinality(In({"busy", "read", "forward"}))
    /\ temp = In({"forward"})

SlicerIsServed == ServerFollows /\ SlotsComeBack
=============================================================================
