------------------------------ MODULE FrameParse ------------------------------
(***************************************************************************)
(* How a captured frame is classified (src/src/watch.rs): its VLAN tags are *)
(* taken off, its IP and transport headers looked for.  A frame is its      *)
(* length in octets, the type fields in it (the one of the Ethernet header, *)
(* then the one that would follow each tag), the protocol named by its IP   *)
(* header and the octets that header says it carries.  Pure operators.      *)
(***************************************************************************)
EXTENDS Integers, Sequences, FiniteSetsExt

VlanTypes == {"8100", "88A8"}

(* The shortest header of each network and transport protocol. *)
IpHeader == [Ipv4 |-> 20, Ipv6 |-> 40]
L4Header == [Tcp |-> 20, Udp |-> 8]

(* Mutant: only 802.1Q is known. *)
StripDot1q(p) ==
    IF p.types[1] = "8100" /\ p.left >= 4
      THEN [types |-> Tail(p.types), left |-> p.left - 4] ELSE p

(* One turn of the loop: a type and what is left of the frame after it. *)
StripTag(p) ==
    IF p.types[1] \in VlanTypes /\ p.left >= 4
      THEN [types |-> Tail(p.types), left |-> p.left - 4] ELSE p

(* At most two tags; a frame cut in a tag keeps the tag's type. *)
strip_vlan_tags(types, left) == StripTag(StripTag([types |-> types, left |-> left]))

(* What a frame adds to: a protocol's counters, and a flow unless it is not *)
(* IP; the ports are those of the packet, or 0.  Nothing: no counter.       *)
Nothing == [proto |-> "none", flow |-> FALSE, ports |-> FALSE]

(* A transport header that is cut short leaves the packet its protocol.     *)
process_l4(next, carried) ==
    [proto |-> CASE next = "Tcp" -> "TCP"
                 [] next = "Udp" -> "UDP"
                 [] next \in {"Icmp", "Icmpv6"} -> "ICMP"
                 [] OTHER -> "OUTRO",
     flow  |-> TRUE,
     ports |-> next \in DOMAIN L4Header /\ carried >= L4Header[next]]

process_frame(f) ==
    LET p == strip_vlan_tags(f.types, f.octets - 14)
        type == p.types[1]
    IN  IF f.octets < 14 THEN Nothing
        ELSE IF type \notin DOMAIN IpHeader
          THEN [proto |-> "OUTRO", flow |-> FALSE, ports |-> FALSE]
        ELSE IF p.left < IpHeader[type] THEN Nothing
        ELSE process_l4(f.next, Min({f.carried, p.left - IpHeader[type]}))

(* The same frame behind one more tag, as it is seen on a trunk port. *)
Behind(tag, f) == [f EXCEPT !.types = <<tag>> \o @, !.octets = @ + 4]

(* The frame as a capture of n octets keeps it. *)
CutTo(n, f) == [f EXCEPT !.octets = Min({n, @})]
==============================================================================
