---------------------------- MODULE MCFlowMetrics ----------------------------
(***************************************************************************)
(* Instances of FlowMetrics for TLC.  Two flows of different protocols are *)
(* enough for one to be touched while the other goes stale; the third is a *)
(* second flow of the first one's protocol.                                *)
(***************************************************************************)
EXTENDS FlowMetrics, TLC

CONSTANTS tcp1, tcp2, udp1

MCProtocolOf == [tu \in Tuples |-> IF tu = udp1 THEN "UDP" ELSE "TCP"]

(* The two flows of one protocol are interchangeable. *)
FlowSymmetry == Permutations({tcp1, tcp2})
==============================================================================
