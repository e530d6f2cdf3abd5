-------------------------- MODULE MCDashboardState --------------------------
(***************************************************************************)
(* Two machines for TLC that share nothing: the state of one dashboard with *)
(* its panels, and the history file of several dashboards, which are        *)
(* interchangeable.  One of the two runs, the other stays as it began.      *)
(***************************************************************************)
EXTENDS MCAppState, HistoryLog, TLC

VARIABLE
    part            \* the machine that runs

dashVars == <<part, appVars, vars>>

DashInit == part \in {"app", "history"} /\ AppInit /\ Init

DashNext ==
    /\ UNCHANGED part
    /\ \/ part = "app" /\ AppNext /\ UNCHANGED vars
       \/ part = "history" /\ Next /\ UNCHANGED appVars

DashSpec == DashInit /\ [][DashNext]_dashVars

(* Dashboards are interchangeable, and so are the results that DNS gives. *)
RunSymmetry == Permutations(Runs) \cup Permutations(DnsResults)
==============================================================================
