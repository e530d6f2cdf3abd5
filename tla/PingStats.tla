------------------------------ MODULE PingStats ------------------------------
(***************************************************************************)
(* `PingStats` of src/src/ping.rs: the running statistics that each ping    *)
(* task keeps of its samples, as operators on them, with the u32 cast in    *)
(* the average.  RTTs are whole numbers of some unit; None is a lost packet.*)
(***************************************************************************)
EXTENDS Integers

CONSTANTS
    Rtts,           \* the round-trip times a reply can have
    None,           \* no reply
    CastMod         \* 2^32: what `received as u32` keeps of a u64

ASSUME RttAssumption ==
    /\ Rtts \subseteq Nat
    /\ None \notin Nat
    /\ CastMod \in Nat \ {0}

Samples == Rtts \cup {None}

NoStats == [transmitted |-> 0, received |-> 0, min |-> None, max |-> None, sum |-> 0]

Received(s, rtt) ==
    [transmitted |-> s.transmitted + 1,
     received    |-> s.received + 1,
     min         |-> IF s.min = None \/ rtt < s.min THEN rtt ELSE s.min,
     max         |-> IF s.max = None \/ rtt > s.max THEN rtt ELSE s.max,
     sum         |-> s.sum + rtt]

(* Mutant: a lost packet is not counted as transmitted. *)
RecordedReplies(s, rtt) == IF rtt = None THEN s ELSE Received(s, rtt)

(* PingStats::record *)
Recorded(s, rtt) ==
    IF rtt = None THEN [s EXCEPT !.transmitted = @ + 1] ELSE Received(s, rtt)

(* Mutant: the lost packets are averaged in. *)
AvgOverTransmitted(s) == s.sum \div s.transmitted

(* sum_rtt / (received as u32), when there is a reply. *)
AvgRtt(s) == s.sum \div (s.received % CastMod)

Statistics == [transmitted : Nat, received : Nat, min : Nat \cup {None},
               max : Nat \cup {None}, sum : Nat]

(* What any number of samples leaves consistent: never more replies than    *)
(* packets (`loss_rate` subtracts them in u64), and the sum between as many *)
(* times the minimum and as many times the maximum.                         *)
Consistent(s) ==
    /\ s.transmitted \in Nat /\ s.received \in Nat /\ s.sum \in Nat
    /\ s.received <= s.transmitted
    /\ s.received = 0 => s.min = None /\ s.max = None /\ s.sum = 0
    /\ s.received > 0 =>
          /\ s.min \in Nat /\ s.max \in Nat
          /\ s.received * s.min <= s.sum
          /\ s.sum <= s.received * s.max
==============================================================================
