------------------------------ MODULE IcmpCodec ------------------------------
(***************************************************************************)
(* The octets of an echo request and what is taken for its reply            *)
(* (src/src/ping.rs).  Words have 16 bits, packets are sequences of octets  *)
(* and an offset counts the octets before it.  Pure operators.              *)
(***************************************************************************)
EXTENDS Integers, Sequences, Functions

Octet == 256            \* how many octets there are, and how many words
Word == Octet * Octet

High(word) == word \div Octet
Low(word) == word % Octet
WordAt(data, off) == Octet * data[off + 1] + data[off + 2]

(* The carries are added back until there are none. *)
Folded[sum \in Nat] == IF sum < Word THEN sum ELSE Folded[(sum % Word) + sum \div Word]

(* The words, an odd octet at the end being the high one of its word.       *)
icmp_checksum(data) ==
    Word - 1 - Folded[SumFunction([i \in DOMAIN data |-> IF i % 2 = 1 THEN Octet * data[i]
                                                                      ELSE data[i]])]

Echo(type, ident, num) ==
    <<type, 0, 0, 0, High(ident), Low(ident), High(num), Low(num)>> \o <<78, 69, 84, 77>>

Checked(buf) == [buf EXCEPT ![3] = High(icmp_checksum(buf)), ![4] = Low(icmp_checksum(buf))]

build_echo_request_v4(ident, num) == Checked(Echo(8, ident, num))

(* The kernel fills in the checksum. *)
build_echo_request_v6(ident, num) == Echo(128, ident, num)

------------------------------------------------------------------------------
(* Mutant: an IP header without options. *)
FixedHeader(data) == IF Len(data) > 20 /\ data[1] \div 16 = 4 THEN {20} ELSE {}

(* Where the message may begin after an IP header: of IHL words, or of 40   *)
(* octets.                                                                  *)
AfterIpv4(data) ==
    LET ihl == 4 * (data[1] % 16)
    IN  IF Len(data) > 20 /\ data[1] \div 16 = 4 /\ ihl >= 20 /\ Len(data) >= ihl + 8
          THEN {ihl} ELSE {}

AfterIpv6(data) == IF Len(data) > 40 /\ data[1] \div 16 = 6 THEN {40} ELSE {}

(* Mutant: the type is not looked at. *)
AnyEcho(data, off, type, ident, num) ==
    /\ Len(data) >= off + 8
    /\ WordAt(data, off + 4) = ident /\ WordAt(data, off + 6) = num

ReplyAt(data, off, type, ident, num) ==
    /\ Len(data) >= off + 8
    /\ data[off + 1] = type /\ data[off + 2] = 0
    /\ WordAt(data, off + 4) = ident /\ WordAt(data, off + 6) = num

is_valid_echo_reply_v4(data, ident, num) ==
    \E off \in {0} \cup AfterIpv4(data) : ReplyAt(data, off, 0, ident, num)

is_valid_echo_reply_v6(data, ident, num) ==
    \E off \in {0} \cup AfterIpv6(data) : ReplyAt(data, off, 129, ident, num)

------------------------------------------------------------------------------
(* What arrives. *)

Zeros(n) == [i \in 1..n |-> 0]

(* What a raw socket has before the message; a datagram socket has nothing. *)
Ipv4Header(ihl) == <<64 + ihl>> \o Zeros(4 * ihl - 1)
Ipv6Header == <<96>> \o Zeros(39)
Ipv4Headers == {<<>>} \cup {Ipv4Header(ihl) : ihl \in 5..15}
Ipv6Headers == {<<>>, Ipv6Header}

(* The same message with another type: a reply to it. *)
OfType(type, packet) == [packet EXCEPT ![1] = type]

(* "Destination unreachable", with the packet that it is about.             *)
Unreachable(type, header, packet) == <<type>> \o Zeros(7) \o header \o packet
==============================================================================
