------------------------------ MODULE MCSetup ------------------------------
(***************************************************************************)
(* Small instances of what setup waits for: the downloads behind the       *)
(* dashboard, and the replacement of a NAT64 gateway.  The two share no    *)
(* variable, so each is explored while the other rests.                    *)
(***************************************************************************)
EXTENDS Provision, TLC

VARIABLE part

\* What may happen to the gateway: an instance in service dies during a setup; two
\* probes fail and the refresh may be abandoned; a call or a heartbeat fails in one of
\* two setups.
Budget(setups, probes, faults, deaths, refusals) ==
  [setups |-> setups, probes |-> probes, faults |-> faults, deaths |-> deaths, refusals |-> refusals]
Losses == Budget(1, 0, 0, 1, 0)
Refusals == Budget(1, 2, 0, 0, 1)
Faults == Budget(2, 0, 1, 0, 1)

MCBudgets == {Losses, Refusals, Faults}

\* A failed call, or a second setup, may keep a rollback from returning the interface.
Recovering == part \in {"losses", "refusals"}

gatewayVars == <<eni, life, gen, run, group, setup, budget>>

MCInit ==
  /\ part \in {"downloads", "losses", "refusals", "faults"}
  /\ Init /\ (part # "downloads" => \A a \in Artifacts : file[a] = "none")
  /\ Gateway!Init
  /\ budget = CASE part = "refusals" -> Refusals [] part = "faults" -> Faults [] OTHER -> Losses

MCNext ==
  /\ \/ part = "downloads" /\ Next /\ UNCHANGED gatewayVars
     \/ part # "downloads" /\ Gateway!Next /\ UNCHANGED vars
  /\ UNCHANGED part

\* The fairness of Dashboard and of Nat64, each while it is explored.
MCSpec ==
  /\ MCInit /\ [][MCNext]_<<part, vars, gatewayVars>>
  /\ \A a \in Artifacts : WF_vars(part = "downloads" /\ ~returned /\ Work(a))
  /\ WF_vars(part = "downloads" /\ ~returned /\ RunEnds)
  /\ WF_vars(part = "downloads" /\ ~returned /\ WaitForEvent)
  /\ \A m \in {"key", "event", "done", "closed", "quit"} :
       WF_vars(part = "downloads" /\ ~returned /\ Update(m))
  /\ WF_gatewayVars(Recovering /\ Gateway!FinishDetach)
  /\ WF_gatewayVars(Recovering /\ Gateway!FinishAttach)
  /\ WF_gatewayVars(Recovering /\ Gateway!Refreshed)
  /\ WF_gatewayVars(Recovering /\ Gateway!StartRefresh)
  /\ \A i \in Instance : /\ WF_gatewayVars(Recovering /\ Gateway!Script(i))
                         /\ WF_gatewayVars(Recovering /\ Gateway!Vanish(i))
                         /\ WF_gatewayVars(Recovering /\ Gateway!Expire(i))
                         /\ WF_gatewayVars(Recovering /\ Gateway!Replace(i))
  /\ WF_gatewayVars(Recovering /\ \E i \in Instance : Gateway!Launch(i))

\* The command behind the dashboard returns (progress.go).
CommandReturns == part = "downloads" => Returns

\* Unless a call of a rollback failed, the gateway comes back (nat64.sh.tftpl).
Recovers == Recovering => Gateway!Recovers
=============================================================================
