---------------------------- MODULE MCCloudRunner ----------------------------
(* The Bambu Cloud account, in parts a behaviour picks from:                 *)
(*   overlap  CloudRunner: requests and OnCloudAuthFailed at once            *)
(*   alone    CloudRunner: one of them at a time                             *)
(*   signin   CloudSignIn                                                    *)
(*   list     CloudPrinters                                                  *)
(*   whole    CloudPrinters, where no request or lost connection comes       *)
(*            between the two halves of a report or of dropClient            *)
EXTENDS CloudRunner, CloudSignIn, CloudPrinters

VARIABLE part

MCInit ==
    /\ part \in {"overlap", "alone", "signin", "list", "whole"}
    /\ Init /\ CloudInit /\ CloudPrintersInit

RunnerStep ==
    /\ part \in {"overlap", "alone"} /\ Next
    /\ part = "alone" => \A v, w \in Workers : job'[v] # Idle /\ job'[w] # Idle => v = w
    /\ UNCHANGED <<part, cloudSignInVars, cloudPrinterVars>>

SignInStep == part = "signin" /\ CloudNext /\ UNCHANGED <<part, vars, cloudPrinterVars>>

WholeHalves ==
    /\ named' # named => inHand = NoReport /\ link # "dropping"
    /\ link' = "down" /\ link # "down" => inHand = NoReport

ListStep ==
    /\ part \in {"list", "whole"} /\ CloudPrintersNext
    /\ part = "whole" => WholeHalves
    /\ UNCHANGED <<part, vars, cloudSignInVars>>

MCSpec ==
    /\ MCInit
    /\ [][RunnerStep \/ SignInStep \/ ListStep]_<<vars, part, cloudSignInVars, cloudPrinterVars>>
    /\ Fairness

(* Part "signin" on its own.                                                 *)
SignInSpec == MCInit /\ part = "signin" /\ [][SignInStep]_<<vars, part, cloudSignInVars, cloudPrinterVars>>

(* FollowsAccount, where requests do not overlap.                            *)
FollowsAccountIfAlone == part = "alone" => FollowsAccount

(* CallsArePaced and ListIsOfItsToken, however requests overlap.             *)
SignInIsRight == CallsArePaced /\ []ListIsOfItsToken

(* The names commands go to are always the account's; the states follow it   *)
(* where a report and dropClient are not overtaken half-way.                 *)
PrintersFollow == RoutesFollow /\ (part = "whole" => StatesFollow)
=============================================================================
