------------------------------ MODULE Interfaces ------------------------------
(***************************************************************************)
(* What pingenty asks of the machine's interfaces: which one to capture on  *)
(* (src/src/watch.rs) and which one scopes a link-local address             *)
(* (src/src/ping.rs).  The table is a sequence in the system's order; an    *)
(* interface's index is its place, and 0 is none.  Pure operators.          *)
(***************************************************************************)
EXTENDS Integers, Sequences, SequencesExt, FiniteSets

CONSTANTS
    None            \* an argument that was not given

Named(table, name) == SelectInSeq(table, LAMBDA i : i.name = name)

FirstUsable(table) ==
    SelectInSeq(table, LAMBDA i : i.up /\ ~i.loopback /\ i.addressed)

(* PacketWatcher::new: the interface of that name, or the first usable one. *)
Chosen(table, name) == IF name = None THEN FirstUsable(table) ELSE Named(table, name)

(* --interface, as the parts between its commas; "" is a blank one, and the *)
(* others are kept in order.                                                *)
Kept(spec) == IF spec = None THEN {} ELSE {k \in DOMAIN spec : spec[k] # ""}

split_interface_spec(spec) ==
    [j \in 1..Cardinality(Kept(spec)) |->
        spec[CHOOSE k \in Kept(spec) : Cardinality({q \in Kept(spec) : q <= k}) = j]]

(* The watch command tries each in turn, or the default when there is none. *)

Attempts(spec) ==
    IF split_interface_spec(spec) = <<>> THEN <<None>> ELSE split_interface_spec(spec)

------------------------------------------------------------------------------
(* A target, as the parts between its percent signs: the last one is the    *)
(* zone, unless it is empty or the only one.                                *)
split_zone(target) ==
    IF Len(target) > 1 /\ Last(target) # ""
      THEN [host |-> Front(target), zone |-> Last(target)]
      ELSE [host |-> target, zone |-> None]

first_link_local_iface(table) ==
    SelectInSeq(table, LAMBDA i : ~i.loopback /\ i.linkLocal)

(* Mutant: a zone that names no interface is guessed. *)
GuessedIndex(table, zone) ==
    IF zone # None /\ Named(table, zone) # 0 THEN Named(table, zone)
                                             ELSE first_link_local_iface(table)

ZoneIndex(table, zone) ==
    IF zone = None THEN first_link_local_iface(table) ELSE Named(table, zone)

(* A scope for a link-local address that has none, when there is one. *)
with_link_local_scope(table, addr, zone) ==
    IF addr.v6 /\ addr.scope = 0 /\ addr.linkLocal
      THEN [addr EXCEPT !.scope = ZoneIndex(table, zone)] ELSE addr

(* Where ping_once sends for a target that resolved to addr: the ICMP one   *)
(* is built anew of the address alone, SocketAddr::new(ip, 0).              *)
Destinations(table, target, addr) ==
    LET scoped == with_link_local_scope(table, addr, split_zone(target).zone)
    IN  [icmp |-> [scoped EXCEPT !.scope = 0], tcp |-> scoped]
==============================================================================
