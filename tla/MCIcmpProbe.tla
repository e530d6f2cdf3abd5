----------------------------- MODULE MCIcmpProbe -----------------------------
(***************************************************************************)
(* Instances of IcmpProbe for TLC: the hosts are interchangeable.  Its      *)
(* sequence numbers are spread over the 16 bits that the packets carry.     *)
(***************************************************************************)
EXTENDS IcmpProbe, IcmpCodec, TLC

HostSymmetry == Permutations(Hosts)

Spread(n) == n * ((Word - 1) \div (SeqMod - 1))

(* 0 and 65535 sum alike; the others differ in one octet or in both.        *)
Idents == {0, Octet - 1, Octet, Word - 1}

(* The verdicts on the reply to the request numbered `reply`, with any      *)
(* header, by the probe numbered `own`.                                     *)
Verdicts(own, reply) ==
    LET v4(ident) == OfType(0, build_echo_request_v4(ident, Spread(reply)))
        v6(ident) == OfType(129, build_echo_request_v6(ident, Spread(reply)))
    IN  {is_valid_echo_reply_v4(ip \o v4(ident), ident, Spread(own)) :
            ip \in Ipv4Headers, ident \in Idents}
        \cup {is_valid_echo_reply_v6(ip \o v6(ident), ident, Spread(own)) :
                 ip \in Ipv6Headers, ident \in Idents}

Taken == [own \in Seqs |-> {reply \in Seqs : Verdicts(own, reply) = {TRUE}}]
Refused == [own \in Seqs |-> {reply \in Seqs : Verdicts(own, reply) = {FALSE}}]

(* What a probe must refuse, by its number: another process's reply, its    *)
(* own request seen on the machine, an error about it, a reply cut short.   *)
Foreign(own) ==
    LET req4(ident) == build_echo_request_v4(ident, Spread(own))
        req6(ident) == build_echo_request_v6(ident, Spread(own))
    IN  \/ \E ident, mine \in Idents, ip \in Ipv4Headers :
              LET takes(data) == is_valid_echo_reply_v4(ip \o data, mine, Spread(own))
              IN  \/ ident # mine /\ takes(OfType(0, req4(ident)))
                  \/ takes(req4(mine))
                  \/ takes(Unreachable(3, Ipv4Header(5), req4(mine)))
                  \/ takes(SubSeq(OfType(0, req4(mine)), 1, 7))
        \/ \E ident, mine \in Idents, ip \in Ipv6Headers :
              LET takes(data) == is_valid_echo_reply_v6(ip \o data, mine, Spread(own))
              IN  \/ ident # mine /\ takes(OfType(129, req6(ident)))
                  \/ takes(req6(mine))
                  \/ takes(Unreachable(1, Ipv6Header, req6(mine)))
                  \/ takes(SubSeq(OfType(129, req6(mine)), 1, 7))

AcceptsForeign == {own \in Seqs : Foreign(own)}

Checks == {own \in Seqs : \A ident \in Idents :
              icmp_checksum(build_echo_request_v4(ident, Spread(own))) = 0}

(* On a socket of either kind, for either IP version and with any options   *)
(* in the IP header, the validators take of all that arrives what IsValid   *)
(* takes and nothing else, and what Send sends has a correct checksum       *)
(* (ping.rs:125).                                                           *)
CodecAgrees ==
    \A h \in Hosts : pc[h] \in {"send", "recv"} =>
        /\ probe[h].seq \in Checks
        /\ probe[h].seq \notin AcceptsForeign
        /\ \A r \in inbox[h] :
              IF IsValid(r, probe[h]) THEN r.seq \in Taken[probe[h].seq]
                                      ELSE r.seq \in Refused[probe[h].seq]
==============================================================================
