------------------------------ MODULE FlowTable ------------------------------
(***************************************************************************)
(* What the flow map of `TrafficMetrics` promises its readers, without the *)
(* threads, the lock, the counters or the sweep schedule: every step       *)
(* counts one packet for one tuple, touches no other flow's numbers, never *)
(* loses the flow it has just counted, and forgets another flow only when  *)
(* that flow was idle for at least FLOW_IDLE_SECS at the packet's stamp.   *)
(* Times are ticks, TicksPerSec of them to a second.                       *)
(***************************************************************************)
EXTENDS Integers

CONSTANTS
    Tuples,             \* the 5-tuples a frame can carry
    Lens,               \* the frame lengths
    TicksPerSec,        \* resolution of the instants
    FLOW_IDLE_SECS

VARIABLE table          \* the flows: tuple -> packets, bytes, last stamp

Packets(tu) == IF tu \in DOMAIN table THEN table[tu].packet_count ELSE 0
Bytes(tu)   == IF tu \in DOMAIN table THEN table[tu].byte_count ELSE 0

Init == DOMAIN table = {}

Count(tu, len) ==
    /\ tu \in DOMAIN table'
    /\ DOMAIN table' \subseteq DOMAIN table \cup {tu}
    /\ table'[tu].packet_count = Packets(tu) + 1
    /\ table'[tu].byte_count = Bytes(tu) + len
    /\ \A other \in DOMAIN table' \ {tu} : table'[other] = table[other]
    /\ \A gone \in DOMAIN table \ DOMAIN table' :
          table'[tu].last_seen - table[gone].last_seen
             >= TicksPerSec * FLOW_IDLE_SECS

Next == \E tu \in Tuples, len \in Lens : Count(tu, len)

Spec == Init /\ [][Next]_table
==============================================================================
