------------------------------ MODULE IcmpProbe ------------------------------
(***************************************************************************)
(* Continuous ping (src/src/ping.rs): one `run_continuous` task per host,  *)
(* each probing by ICMP with a fallback to a TCP connect, all drawing      *)
(* sequence numbers from the one 16-bit SEQ.  Every probe opens a socket   *)
(* of its own; a raw socket receives every ICMP packet that reaches the    *)
(* machine while it is open, so a probe sees the replies to other hosts'   *)
(* probes, late replies to old ones, duplicates and unrelated packets.     *)
(* Times are ticks, and only durations are kept.                           *)
(***************************************************************************)
EXTENDS Integers, FiniteSets

CONSTANTS
    Hosts,
    SeqMod,         \* 2^16: SEQ wraps
    Timeout,        \* --timeout, for the TCP connect; nothing forbids 0
    IcmpCap,        \* the 500 ms that cap it for ICMP
    Interval,       \* --interval
    ReplyLife,      \* bound: how long the network keeps a reply
    MaxProbes       \* bound: no probe begins once so many numbers were drawn

ASSUME ConstantsAssumption ==
    /\ SeqMod \in Nat /\ SeqMod > 1
    /\ Timeout \in Nat
    /\ IcmpCap \in Nat \ {0}
    /\ Interval \in Nat
    /\ ReplyLife \in Nat
    /\ MaxProbes \in Nat

VARIABLES
    seq,        \* SEQ
    issued,     \* history: how many numbers SEQ has given out
    pc,         \* where each task is in its loop
    probe,      \* the locals of its current probe
    inbox,      \* the receive buffer of its socket
    wire,       \* the replies in the network, with their ages
    slept,      \* how long it has slept between probes
    sample      \* its last PingSample

vars == <<seq, issued, pc, probe, inbox, wire, slept, sample>>

(* let timeout = self.timeout.min(500 ms) *)
RecvTimeout == IF Timeout < IcmpCap THEN Timeout ELSE IcmpCap

(* n, the count of numbers drawn before it, identifies a probe; `spent` is  *)
(* all the time it has waited, `elapsed` the time since `start` or          *)
(* `tcp_start`, `waited` the time in the present recv_from.                 *)
NoProbe  == [n |-> 0, seq |-> 0, elapsed |-> 0, waited |-> 0, spent |-> 0]
NoSample == [via |-> "none", rtt |-> 0, reply |-> 0]

Init ==
    /\ seq = 1
    /\ issued = 0
    /\ pc = [h \in Hosts |-> "resolve"]
    /\ probe = [h \in Hosts |-> NoProbe]
    /\ inbox = [h \in Hosts |-> {}]
    /\ wire = {}
    /\ slept = [h \in Hosts |-> 0]
    /\ sample = [h \in Hosts |-> NoSample]

Goto(h, where) == pc' = [pc EXCEPT ![h] = where]

(* The sample of a probe that failed without a reply. *)
Fail(h) == sample' = [sample EXCEPT ![h] = NoSample]

Receiving(h) == pc[h] \in {"draw", "send", "recv"}

------------------------------------------------------------------------------
(* ping_once: the name is resolved, or the sample is an error. *)
Resolve(h) ==
    /\ pc[h] = "resolve"
    /\ issued < MaxProbes
    /\ probe' = [probe EXCEPT ![h] = NoProbe]
    /\ \/ Goto(h, "open") /\ UNCHANGED sample
       \/ Goto(h, "report") /\ Fail(h)
    /\ UNCHANGED <<seq, issued, inbox, wire, slept>>

(* Socket::new (DGRAM, then RAW) and set_read_timeout. *)
OpenSocket(h) ==
    /\ pc[h] = "open"
    /\ \/ Goto(h, "draw")
       \/ Goto(h, "connect")
    /\ UNCHANGED <<seq, issued, probe, inbox, wire, slept, sample>>

(* Mutant: the counter saturates instead of wrapping. *)
SaturatingSeq == IF seq = SeqMod - 1 THEN seq ELSE seq + 1

NextSeq == IF seq = SeqMod - 1 THEN 0 ELSE seq + 1

(* SEQ.fetch_add(1): wraps at 2^16. *)
DrawSeq(h) ==
    /\ pc[h] = "draw"
    /\ probe' = [probe EXCEPT ![h].n = issued, ![h].seq = seq]
    /\ seq' = NextSeq
    /\ issued' = issued + 1
    /\ Goto(h, "send")
    /\ UNCHANGED <<inbox, wire, slept, sample>>

Close(h) == inbox' = [inbox EXCEPT ![h] = {}]

(* send_to: the request is answered or lost on its way; or the call fails. *)
Send(h) ==
    /\ pc[h] = "send"
    /\ \/ /\ Goto(h, "recv")
          /\ UNCHANGED <<inbox, wire>>
       \/ /\ Goto(h, "recv")
          /\ wire' = wire \cup {[n |-> probe[h].n, seq |-> probe[h].seq, age |-> 0]}
          /\ UNCHANGED inbox
       \/ /\ Goto(h, "connect")
          /\ Close(h)
          /\ UNCHANGED wire
    /\ UNCHANGED <<seq, issued, probe, slept, sample>>

(* Mutant: only the identifier is compared. *)
AnyReply(r, p) == TRUE

(* is_valid_echo_reply: an echo reply with this process's identifier (all  *)
(* replies of `wire` are) and the probe's sequence number.                 *)
IsValid(r, p) == r.seq = p.seq

(* recv_from returns the reply: Ok(start.elapsed()). *)
AcceptReply(h, r) ==
    /\ pc[h] = "recv"
    /\ r \in inbox[h]
    /\ IsValid(r, probe[h])
    /\ sample' = [sample EXCEPT ![h] =
                     [via |-> "icmp", rtt |-> probe[h].elapsed, reply |-> r.n]]
    /\ Goto(h, "report")
    /\ Close(h)
    /\ UNCHANGED <<seq, issued, probe, wire, slept>>

(* Mutant: no deadline beside the read timeout. *)
NoDeadline(p) == FALSE

PastDeadline(p) == p.elapsed >= RecvTimeout

(* A packet that is not the reply is dropped, and only then is the deadline *)
(* looked at; before it, recv_from starts anew with its whole timeout.      *)
Dropped(h, rest) ==
    /\ pc[h] = "recv"
    /\ IF PastDeadline(probe[h])
         THEN Goto(h, "connect") /\ Close(h) /\ UNCHANGED probe
         ELSE /\ inbox' = [inbox EXCEPT ![h] = rest]
              /\ probe' = [probe EXCEPT ![h].waited = 0]
              /\ UNCHANGED pc
    /\ UNCHANGED <<seq, issued, wire, slept, sample>>

(* recv_from returns a reply to another probe. *)
DropReply(h, r) == ~IsValid(r, probe[h]) /\ Dropped(h, inbox[h] \ {r})

(* recv_from returns anything else: an error message, another process's     *)
(* reply, the machine's own traffic.  Nothing says that one ever comes.     *)
DropStray(h) == Dropped(h, inbox[h])

(* Mutant: the socket has no read timeout. *)
NeverExpires(p) == FALSE

(* SO_RCVTIMEO: a timeout of zero means that there is none. *)
ReadExpired(p) == RecvTimeout > 0 /\ p.waited >= RecvTimeout

(* recv_from gives up: WouldBlock, and the fallback. *)
RecvTimedOut(h) ==
    /\ pc[h] = "recv"
    /\ ReadExpired(probe[h])
    /\ Goto(h, "connect")
    /\ Close(h)
    /\ UNCHANGED <<seq, issued, probe, wire, slept, sample>>

(* tcp_fallback starts its own clock. *)
StartTcp(h) ==
    /\ pc[h] = "connect"
    /\ Goto(h, "tcp")
    /\ probe' = [probe EXCEPT ![h].elapsed = 0]
    /\ UNCHANGED <<seq, issued, inbox, wire, slept, sample>>

(* The connect succeeds or is refused within the timeout, or is given up. *)
TcpDone(h) ==
    /\ pc[h] = "tcp"
    /\ \/ sample' = [sample EXCEPT ![h] =
                        [via |-> "tcp", rtt |-> probe[h].elapsed, reply |-> 0]]
       \/ Fail(h)
    /\ Goto(h, "report")
    /\ UNCHANGED <<seq, issued, probe, inbox, wire, slept>>

(* stats.record(..) (module PingStats) and on_sample(..); the sleep begins. *)
Report(h) ==
    /\ pc[h] = "report"
    /\ Goto(h, "sleep")
    /\ slept' = [slept EXCEPT ![h] = 0]
    /\ UNCHANGED <<seq, issued, probe, inbox, wire, sample>>

Wake(h) ==
    /\ pc[h] = "sleep"
    /\ slept[h] >= Interval
    /\ Goto(h, "resolve")
    /\ UNCHANGED <<seq, issued, probe, inbox, wire, slept, sample>>

------------------------------------------------------------------------------
(* The network. *)

(* A reply reaches every open socket; it may arrive again. *)
Arrive(r) ==
    /\ inbox' = [h \in Hosts |->
                    IF Receiving(h) THEN inbox[h] \cup {[n |-> r.n, seq |-> r.seq]}
                    ELSE inbox[h]]
    /\ \/ wire' = wire \ {r}
       \/ UNCHANGED wire
    /\ UNCHANGED <<seq, issued, pc, probe, slept, sample>>

Aged(r) == [r EXCEPT !.age = @ + 1]

(* Bound: the durations stop here, past every limit stated below. *)
Later(t) == IF t < 2 * RecvTimeout + Timeout THEN t + 1 ELSE t

Waited(h) ==
    IF pc[h] = "recv"
      THEN [probe[h] EXCEPT !.elapsed = Later(@), !.waited = Later(@), !.spent = Later(@)]
    ELSE IF pc[h] = "tcp"
      THEN [probe[h] EXCEPT !.elapsed = Later(@), !.spent = Later(@)]
    ELSE probe[h]

(* Time passes, but not past a timeout that is due (recv_from and connect   *)
(* are given up on time), nor between the opening of a socket and the send, *)
(* where nothing waits.  Replies older than ReplyLife are gone.             *)
Tick ==
    /\ \A h \in Hosts :
         /\ pc[h] \notin {"draw", "send"}
         /\ pc[h] = "recv" => ~ReadExpired(probe[h])
         /\ pc[h] = "tcp" => probe[h].elapsed < Timeout
    /\ probe' = [h \in Hosts |-> Waited(h)]
    /\ slept' = [h \in Hosts |->
                    IF pc[h] = "sleep" /\ slept[h] < Interval THEN slept[h] + 1
                    ELSE slept[h]]
    /\ wire' = {Aged(r) : r \in {r \in wire : r.age < ReplyLife}}
    /\ UNCHANGED <<seq, issued, pc, inbox, sample>>

Task(h) ==
    \/ Resolve(h) \/ OpenSocket(h) \/ DrawSeq(h) \/ Send(h)
    \/ (\E r \in inbox[h] : AcceptReply(h, r) \/ DropReply(h, r))
    \/ RecvTimedOut(h)
    \/ StartTcp(h) \/ TcpDone(h) \/ Report(h) \/ Wake(h)

Next ==
    \/ \E h \in Hosts : Task(h) \/ DropStray(h)
    \/ \E r \in wire : Arrive(r)
    \/ Tick

Spec == Init /\ [][Next]_vars

(* Every task is scheduled and time passes; the network owes nothing. *)
FairSpec == Spec /\ (\A h \in Hosts : WF_vars(Task(h))) /\ WF_vars(Tick)

------------------------------------------------------------------------------
(* Properties. *)

Seqs == 0..(SeqMod - 1)
Durations == 0..(2 * RecvTimeout + Timeout)
Probes == [n : Nat, seq : Seqs, elapsed : Durations, waited : Durations, spent : Durations]
Replies == [n : Nat, seq : Seqs]
Carried == [n : Nat, seq : Seqs, age : 0..ReplyLife]
Samples == [via : {"none", "icmp", "tcp"}, rtt : Durations, reply : Nat]
Places == {"resolve", "open", "draw", "send", "recv", "connect", "tcp", "report", "sleep"}

(* Every variable keeps its type; a sequence number fits its 16 bits. *)
TypeOK ==
    /\ seq \in Seqs
    /\ issued \in Nat
    /\ pc \in [Hosts -> Places]
    /\ probe \in [Hosts -> Probes]
    /\ inbox \in [Hosts -> SUBSET Replies]
    /\ wire \subseteq Carried
    /\ slept \in [Hosts -> 0..Interval]
    /\ sample \in [Hosts -> Samples]

(* No SeqMod numbers are drawn in the life of a reply, nor in the wait for  *)
(* one, when every task sleeps between its probes and is not kept for ever. *)
NumbersOutlast ==
    /\ IsFiniteSet(Hosts) /\ Interval > 0 /\ Timeout > 0
    /\ Cardinality(Hosts) * (ReplyLife + 1) <= SeqMod
    /\ Cardinality(Hosts) * (2 * RecvTimeout) <= SeqMod

(* A latency reported as ICMP is that of this probe's own request: of all   *)
(* the replies a socket may see (other hosts', earlier probes', duplicates) *)
(* none is taken for it, as long as NumbersOutlast.                         *)
OwnReply ==
    \A h \in Hosts :
        pc[h] = "report" /\ sample[h].via = "icmp" => sample[h].reply = probe[h].n

(* However long replies live and threads stall, the validators can only     *)
(* confuse a probe with one SeqMod or more numbers away from it.            *)
OwnReplyWithinWrap ==
    \A h \in Hosts : \A r \in inbox[h] :
        /\ pc[h] = "recv"
        /\ IsValid(r, probe[h])
        /\ r.n - probe[h].n < SeqMod /\ probe[h].n - r.n < SeqMod
        => r.n = probe[h].n

(* The read timeout starts anew with every packet and the deadline is only  *)
(* looked at when one arrives, and yet the two together keep the wait for a *)
(* reply under twice the timeout, however many stray packets come, and the  *)
(* whole probe under that and the timeout of the connect.                   *)
WaitBounded ==
    Timeout > 0 =>
        \A h \in Hosts :
            /\ pc[h] = "recv" => probe[h].elapsed < 2 * RecvTimeout
            /\ probe[h].spent < 2 * RecvTimeout + Timeout

(* Every probe ends in a sample (`ping_once`: "tudo vira PingSample").      *)
EveryProbeReported ==
    \A h \in Hosts : pc[h] = "open" ~> pc[h] = "report"
==============================================================================
