----------------------------- MODULE MCAppState -----------------------------
(***************************************************************************)
(* Instances of AppState and its panels for TLC.                            *)
(***************************************************************************)
EXTENDS Panels

CONSTANTS a, b

(* A host listed twice: `--ping-hosts a,b,a`. *)
ThreeShown == <<a, b, a>>
==============================================================================
