----------------------------- MODULE Provision -----------------------------
(***************************************************************************)
(* The two things setup waits for on a terminal: the downloads behind the  *)
(* dashboard, and the replacement of a NAT64 gateway.  They share no       *)
(* variable.                                                               *)
(***************************************************************************)
EXTENDS Dashboard

CONSTANTS Instance, Attachment, None, First, Budgets

VARIABLES eni, life, gen, run, group, setup, budget

Gateway == INSTANCE Nat64

ASSUME GatewayAssumption == Gateway!Nat64Assumption

\* The interface stays with a serving instance, and setup reports one that serves
\* (nat64.sh.tftpl, nat64.go).
HandoffsSafe == Gateway!HandoffsSafe
=============================================================================
