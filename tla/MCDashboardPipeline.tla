------------------------- MODULE MCDashboardPipeline -------------------------
(***************************************************************************)
(* Instances of DashboardPipeline for TLC.                                  *)
(***************************************************************************)
EXTENDS DashboardPipeline

CONSTANTS a, b, d1, d2

TwoShown == <<a, b>>
OneShown == <<a>>
TwoDomains == <<d1, d2>>
NoDomains == <<>>
==============================================================================
