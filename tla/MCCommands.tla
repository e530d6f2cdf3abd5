------------------------------ MODULE MCCommands ------------------------------
(***************************************************************************)
(* Instances of the commands' machines for TLC.  They share nothing, so one *)
(* of them runs and the others stay at rest.                                *)
(***************************************************************************)
EXTENDS WatchCommand, DnsLookup, Shutdown, LiveExport

VARIABLE
    command         \* the machine that runs

Iface(name, up, loopback, linkLocal) ==
    [name |-> name, up |-> up, loopback |-> loopback, addressed |-> TRUE,
     linkLocal |-> linkLocal]

MCTables ==
    {<<Iface("lo", TRUE, TRUE, TRUE), Iface("eth0", FALSE, FALSE, FALSE),
       Iface("eth1", TRUE, FALSE, TRUE)>>,
     <<Iface("lo", TRUE, TRUE, FALSE)>>}

MCSpecs == {None, <<"">>, <<"eth0", "", "gone">>, <<"lo", "eth1">>, <<"lo", "lo">>}

Captured(octets, type, next, carried) ==
    [octets |-> octets, types |-> <<type, "Ipv6", "Ipv4">>, next |-> next,
     carried |-> carried]

MCFrames ==
    {Captured(60, "Ipv4", "Tcp", 26), Captured(42, "88A8", "Udp", 4), Captured(64, "8100", "Icmpv6", 6),
     Captured(13, "Ipv4", "Udp", 0), Captured(60, "Arp", "Udp", 0)}

MCNumeral == <<"0", "1">>

(* A host that looks like a field, with all that is escaped. *)
Tricky == <<Quote, "t", Quote, ":", Newline, ",", "}", Backslash, "n", Backslash>>

Ping(t, host, rtt) ==
    [kind |-> "ping", t |-> t,
     entry |-> [host |-> host, rtt |-> rtt, loss |-> "0.0", modo |-> "icmp"]]

Dns(t, domain) ==
    [kind |-> "dns", t |-> t,
     entry |-> [domain |-> domain, status |-> "ok", latency |-> "1.000"]]

MCArrivals ==
    {<<Ping(0, Tricky, <<"1.000">>), Dns(1, Tricky), Ping(1, <<"a">>, <<>>)>>,
     <<Ping(1, <<"a">>, <<"1.000">>), Ping(0, <<"b">>, <<"2.000">>), Ping(1, Tricky, <<>>)>>,
     <<Dns(1, <<"b">>), Ping(0, Tricky, <<>>), Ping(0, Tricky, <<>>)>>}

------------------------------------------------------------------------------
WatchAtRest ==
    /\ table = <<>> /\ attempts = <<>> /\ outcome = <<>> /\ watchers = <<>>
    /\ status = None /\ watch = "failed"
    /\ reading = NoReading /\ printed = NoReading
    /\ atTick = [sum |-> Zero, n |-> 0] /\ captured = [n |-> 0, frame |-> None]

DnsAtRest ==
    /\ dns = [pc |-> "ask", domain |-> 1, done |-> MaxLookups]
    /\ lookup = NewLookup /\ results = <<>> /\ shown = <<>>
    /\ dnsMain = "ended" /\ handler = TRUE /\ ctrlC = "none"

DownAtRest ==
    /\ ui = "gone" /\ failed = FALSE /\ terminal = {}
    /\ pinger = [i \in Pingers |-> [pc |-> "sleep", left |-> 0]]
    /\ queued = 0 /\ waited = 0

LiveAtRest ==
    /\ csv = <<>> /\ ndjson = <<>> /\ arrivals = <<>>
    /\ exporter = [d \in Dashboards |-> Ended]
    /\ logged = <<>> /\ torn = 0 /\ unlogged = 0 /\ together = FALSE

Init ==
    \/ command = "watch"    /\ WatchInit   /\ DnsAtRest /\ DownAtRest /\ LiveAtRest
    \/ command = "dns"      /\ WatchAtRest /\ DnsInit   /\ DownAtRest /\ LiveAtRest
    \/ command = "shutdown" /\ WatchAtRest /\ DnsAtRest /\ DownInit   /\ LiveAtRest
    \/ command = "export"   /\ WatchAtRest /\ DnsAtRest /\ DownAtRest /\ LiveInit

Next ==
    /\ UNCHANGED command
    /\ \/ command = "watch"    /\ WatchNext /\ UNCHANGED <<dnsVars, downVars, liveVars>>
       \/ command = "dns"      /\ DnsNext   /\ UNCHANGED <<watchVars, downVars, liveVars>>
       \/ command = "shutdown" /\ DownNext  /\ UNCHANGED <<watchVars, dnsVars, liveVars>>
       \/ command = "export"   /\ LiveNext  /\ UNCHANGED <<watchVars, dnsVars, downVars>>

vars == <<command, watchVars, dnsVars, downVars, liveVars>>

Spec == Init /\ [][Next]_vars

(* At rest nothing is enabled: fairness asks nothing of the others.         *)
FairSpec == Spec /\ DnsFairness /\ DownFairness

------------------------------------------------------------------------------
(* Every machine's variables keep their types.                              *)
CommandsTypeOK == WatchTypeOK /\ DnsTypeOK /\ DownTypeOK

(* Nothing that a command waits for keeps it for ever: a lookup and a Ctrl-C*)
(* in `dns`, the relay behind blocked workers and the way out of the        *)
(* dashboard (dns.rs:78, main.rs:85, ping.rs:201).                          *)
CommandsEnd == LookupEnds /\ CtrlCEnds /\ RelayRuns /\ ExitCompletes
==============================================================================
