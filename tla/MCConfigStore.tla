--------------------------- MODULE MCConfigStore ---------------------------
(* ConfigStore with small constants, and what else the dashboard's requests  *)
(* change, in parts a behaviour picks from:                                  *)
(*   two      requests at once, over one printer name and one setting        *)
(*   alone    one request at a time, over all names, SoloChanges changes     *)
(*   notices  Notifier                                                       *)
(*   signin   SignIn                                                         *)
(*   update   SelfUpdate                                                     *)
(*   chat     Assistant                                                      *)
(*   slicer   VirtualPrinter                                                 *)
EXTENDS ConfigStore, Notifier, SignIn, SelfUpdate, Assistant, VirtualPrinter, TLC

CONSTANTS n1, s1,      \* the name and the setting of part "two"
          l1, x1,      \* a port and a key
          SoloChanges  \* bound on changes in one life, part "alone"

VARIABLE part

mcVars == <<part, vars, notifierVars, signInVars, updateVars, assistantVars, slicerVars>>

OneName == {list \in Configs : \A n \in Names :
  list[n] # NoPrinter => n = n1 /\ list[n].set = s1}

MCInit ==
  /\ part \in {"two", "alone", "notices", "signin", "update", "chat", "slicer"}
  /\ Init /\ NotifierInit /\ SignInInit /\ UpdateInit
  /\ AssistantInit /\ SlicerInit
  /\ part # "signin" => password = NoPassword   \* one first state for the other
  /\ part # "update" => supervised              \* parts
  /\ part # "chat" => ai = NoAI
  /\ part # "slicer" => taken = {} /\ wanted.port = l1 /\ wanted.key = x1 /\ wanted.linked

ConfigStep ==
  /\ part \in {"two", "alone"} /\ Next
  /\ part = "two" => live'.list \in OneName
  /\ part = "alone" => /\ cloneGen' <= SoloChanges
                       /\ \A h, g \in Handlers : job'[h] # Idle /\ job'[g] # Idle => h = g
  /\ UNCHANGED <<part, notifierVars, signInVars, updateVars, assistantVars, slicerVars>>

NoticeStep ==
  /\ part = "notices" /\ NotifierNext
  /\ UNCHANGED <<part, vars, signInVars, updateVars, assistantVars, slicerVars>>

SignInStep ==
  /\ part = "signin" /\ SignInNext
  /\ UNCHANGED <<part, vars, notifierVars, updateVars, assistantVars, slicerVars>>

UpdateStep ==
  /\ part = "update" /\ UpdateNext
  /\ UNCHANGED <<part, vars, notifierVars, signInVars, assistantVars, slicerVars>>

ChatStep ==
  /\ part = "chat" /\ AssistantNext
  /\ UNCHANGED <<part, vars, notifierVars, signInVars, updateVars, slicerVars>>

SlicerStep ==
  /\ part = "slicer" /\ SlicerNext
  /\ UNCHANGED <<part, vars, notifierVars, signInVars, updateVars, assistantVars>>

MCSpec ==
  /\ MCInit
  /\ [][ConfigStep \/ NoticeStep \/ SignInStep \/ UpdateStep \/ ChatStep \/ SlicerStep]_mcVars

(* Part "update" on its own.                                                 *)
UpdateSpec == MCInit /\ part = "update" /\ [][UpdateStep]_mcVars

(* The handlers are interchangeable.                                         *)
Symmetry == Permutations(Handlers)

(* With one request at a time, the running connections are those of the live *)
(* config whenever no request is at work: across adds, edits, deletes and    *)
(* full saves, failing writes and a restart.                                 *)
ConnectionsFollowIfAlone == part = "alone" => ConnectionsFollowConfig

(* A secret of a channel, or the key of the assistant, goes nowhere but where*)
(* it was given for, whatever is saved meanwhile (or where a body of         *)
(* /api/config put the key: KeysStayHome); a result shown for a channel is   *)
(* one of its own; a chat keeps to the order of calls, results and pictures, *)
(* and takes no picture that was never allowed; and the virtual printer      *)
(* follows its settings and gives its slots back.                            *)
ServicesAreUsedRight ==
  SecretsStayHome /\ ResultsAreOfSaved /\ AssistantIsRight /\ SlicerIsServed

(* A session taken was given to someone who knew the password, and there are *)
(* no more tries than the lock allows.                                       *)
SignInIsSafe == SessionsKnowThePassword /\ TriesAreLimited
=============================================================================
