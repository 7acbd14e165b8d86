---------------------------- MODULE Surroundings ----------------------------
(***************************************************************************)
(* The services around the match, each as it meets the next: order events  *)
(* and stock between seller-svc and connect-svc, campaigns between ads-svc *)
(* and the coordinator, leases between slice-runtime and resource-svc,     *)
(* disclosures between the coordinator and platform-svc. These share no    *)
(* state and no call, so any behaviour of all of them is an interleaving   *)
(* of one behaviour of each; the one in focus moves and the others rest.   *)
(***************************************************************************)
EXTENDS OrderMirror, StockSync, AdBudget, Leases, SupportDesk

VARIABLE focus

Focus == {"orders", "stock", "ads", "leases", "desk"}

Init ==
  /\ focus \in Focus
  /\ MirrorInit /\ StockInit /\ AdInit /\ LeaseInit /\ DeskInit

Next ==
  /\ UNCHANGED focus
  /\ \/ focus = "orders" /\ MirrorNext /\ UNCHANGED <<stockVars, adVars, leaseVars, deskVars>>
     \/ focus = "stock" /\ StockNext /\ UNCHANGED <<mirrorVars, adVars, leaseVars, deskVars>>
     \/ focus = "ads" /\ AdNext /\ UNCHANGED <<mirrorVars, stockVars, leaseVars, deskVars>>
     \/ focus = "leases" /\ LeaseNext /\ UNCHANGED <<mirrorVars, stockVars, adVars, deskVars>>
     \/ focus = "desk" /\ DeskNext /\ UNCHANGED <<mirrorVars, stockVars, adVars, leaseVars>>

\* Threads that send events go on, when orders are in focus.
Spec ==
  /\ Init
  /\ [][Next]_<<focus, mirrorVars, stockVars, adVars, leaseVars, deskVars>>
  /\ MirrorFairness

TypeOK == MirrorTypeOK /\ StockTypeOK /\ AdTypeOK /\ LeaseTypeOK /\ DeskTypeOK
=============================================================================
