-------------------------- MODULE DashboardPipeline --------------------------
(***************************************************************************)
(* The dashboard's tasks and channels (src/src/main.rs, src/src/tui/mod.rs  *)
(* and the engines' loops): one ping task per listed host, whose callback   *)
(* writes to the shared exporter and then to an unbounded channel; the DNS  *)
(* engine and the relay that exports its results; and the TUI loop, which   *)
(* drains both channels into AppState until the user quits.                 *)
(***************************************************************************)
EXTENDS AppState

CONSTANTS
    Domains         \* --dns-domains, after the split; may be empty

ASSUME DomainsAssumption == Domains \in Seq(DnsResults)

VARIABLES
    task,           \* each ping task: its place, sample and PingStats
    lock,           \* who holds the exporter's Mutex
    file, dnsFile,  \* the exporter's lines
    pingCh,         \* the channel of ping samples
    dnsIn, dnsOut,  \* the channels before and after the relay
    relay, engine,  \* the relay and the DNS engine
    tui,            \* where the TUI loop is
    consumed,       \* history: the samples the TUI has taken
    resolved        \* history: the DNS results while the TUI is up

pipeVars == <<task, lock, file, dnsFile, pingCh, dnsIn, dnsOut, relay, engine, tui,
              consumed, resolved>>
vars == <<appVars, pipeVars>>

(* A host listed twice has two tasks. *)
Tasks == DOMAIN Shown

(* Who holds the Mutex: nobody, the relay, or a task by its number. *)
Free == 0
RelayGuard == -1

Init ==
    /\ AppInit
    /\ task = [i \in Tasks |-> [pc |-> "measure", rtt |-> None, stats |-> NoStats]]
    /\ lock = Free
    /\ file = <<>> /\ dnsFile = <<>>
    /\ pingCh = <<>> /\ dnsIn = <<>> /\ dnsOut = <<>>
    /\ relay = [pc |-> "recv", held |-> <<>>]
    /\ engine = [pc |-> "domain", next |-> 1, held |-> <<>>]
    /\ tui = "ping"
    /\ consumed = <<>> /\ resolved = <<>>

Up == tui # "gone"

------------------------------------------------------------------------------
(* The ping tasks.  run_continuous: a sample, and stats.record(). *)
Sent(i) == task[i].stats.transmitted
Measured == SumFunction([i \in Tasks |-> Sent(i)])

Measure(i) ==
    /\ task[i].pc = "measure"
    /\ Measured < MaxSamples
    /\ \E rtt \in Samples :
          task' = [task EXCEPT ![i] = [pc |-> "lock", rtt |-> rtt,
                                       stats |-> Recorded(@.stats, rtt)]]
    /\ UNCHANGED <<appVars, lock, file, dnsFile, pingCh, dnsIn, dnsOut, relay, engine,
                   tui, consumed, resolved>>

(* Mutant: try_lock; a busy exporter is skipped. *)
TryLockExporter(i) ==
    /\ task[i].pc = "lock"
    /\ IF lock = Free THEN lock' = i /\ task' = [task EXCEPT ![i].pc = "export"]
                        ELSE UNCHANGED lock /\ task' = [task EXCEPT ![i].pc = "send"]
    /\ UNCHANGED <<appVars, file, dnsFile, pingCh, dnsIn, dnsOut, relay, engine, tui,
                   consumed, resolved>>

(* exp.lock() *)
LockExporter(i) ==
    /\ task[i].pc = "lock"
    /\ lock = Free
    /\ lock' = i
    /\ task' = [task EXCEPT ![i].pc = "export"]
    /\ UNCHANGED <<appVars, file, dnsFile, pingCh, dnsIn, dnsOut, relay, engine, tui,
                   consumed, resolved>>

(* e.ping(&sample, stats.loss_rate()), flushed, and the guard is dropped. *)
Export(i) ==
    /\ task[i].pc = "export"
    /\ file' = Append(file, [task |-> i, n |-> Sent(i), rx |-> task[i].stats.received])
    /\ lock' = Free
    /\ task' = [task EXCEPT ![i].pc = "send"]
    /\ UNCHANGED <<appVars, dnsFile, pingCh, dnsIn, dnsOut, relay, engine, tui, consumed,
                   resolved>>

(* Mutant: try_send into a channel of one place. *)
OfferedBounded(ch, v) == IF ch = <<>> THEN <<v>> ELSE ch

Offered(ch, v) == Append(ch, v)

(* let _ = tx.send(sample): an error, when the TUI is gone, is ignored. *)
SendSample(i) ==
    /\ task[i].pc = "send"
    /\ pingCh' = IF Up THEN Offered(pingCh, [task |-> i, n |-> Sent(i),
                                             rtt |-> task[i].rtt])
                       ELSE pingCh
    /\ task' = [task EXCEPT ![i].pc = "measure"]
    /\ UNCHANGED <<appVars, lock, file, dnsFile, dnsIn, dnsOut, relay, engine, tui,
                   consumed, resolved>>

------------------------------------------------------------------------------
(* The DNS engine.  At the end of the list it sleeps; the bound on results  *)
(* gives way to one on their queue once the TUI is gone.                    *)
Resolve ==
    /\ engine.pc = "domain" /\ engine.next \in DOMAIN Domains
    /\ IF Up THEN Len(resolved) < MaxDns ELSE Len(dnsIn) < MaxDns
    /\ engine' = [engine EXCEPT !.pc = "send", !.held = <<Domains[engine.next]>>]
    /\ resolved' = IF Up THEN Append(resolved, Domains[engine.next]) ELSE resolved
    /\ UNCHANGED <<appVars, task, lock, file, dnsFile, pingCh, dnsIn, dnsOut, relay, tui,
                   consumed>>

(* Mutant: a send error is ignored, as it is for ping. *)
RelayNeverClosed == FALSE

(* The relay's task has ended, and with it dns_in_rx. *)
RelayClosed == relay.pc = "done"

(* tx.send(result); the engine returns when the receiver is gone. *)
SendDns ==
    /\ engine.pc = "send"
    /\ IF RelayClosed
         THEN engine' = [engine EXCEPT !.pc = "done", !.held = <<>>] /\ UNCHANGED dnsIn
         ELSE /\ engine' = [pc |-> "domain", next |-> engine.next + 1, held |-> <<>>]
              /\ dnsIn' = Offered(dnsIn, Head(engine.held))
    /\ UNCHANGED <<appVars, task, lock, file, dnsFile, pingCh, dnsOut, relay, tui,
                   consumed, resolved>>

(* sleep(interval) after the last domain, and the next round. *)
NextRound ==
    /\ engine.pc = "domain" /\ engine.next \notin DOMAIN Domains
    /\ engine' = [engine EXCEPT !.next = 1]
    /\ UNCHANGED <<appVars, task, lock, file, dnsFile, pingCh, dnsIn, dnsOut, relay, tui,
                   consumed, resolved>>

------------------------------------------------------------------------------
(* The relay. *)
RelayRecv ==
    /\ relay.pc = "recv"
    /\ dnsIn # <<>>
    /\ relay' = [pc |-> "lock", held |-> <<Head(dnsIn)>>]
    /\ dnsIn' = Tail(dnsIn)
    /\ UNCHANGED <<appVars, task, lock, file, dnsFile, pingCh, dnsOut, engine, tui,
                   consumed, resolved>>

RelayLock ==
    /\ relay.pc = "lock"
    /\ lock = Free
    /\ lock' = RelayGuard
    /\ relay' = [relay EXCEPT !.pc = "export"]
    /\ UNCHANGED <<appVars, task, file, dnsFile, pingCh, dnsIn, dnsOut, engine, tui,
                   consumed, resolved>>

(* Mutant: the guard lives on to the next result. *)
GuardKept == lock

GuardDropped == Free

RelayExport ==
    /\ relay.pc = "export"
    /\ dnsFile' = dnsFile \o relay.held
    /\ lock' = GuardDropped
    /\ relay' = [relay EXCEPT !.pc = "send"]
    /\ UNCHANGED <<appVars, task, file, pingCh, dnsIn, dnsOut, engine, tui, consumed,
                   resolved>>

(* dns_tx.send(res); the relay ends, and drops what is queued, on an error. *)
RelaySend ==
    /\ relay.pc = "send"
    /\ IF Up
         THEN /\ relay' = [pc |-> "recv", held |-> <<>>]
              /\ dnsOut' = Offered(dnsOut, Head(relay.held))
              /\ UNCHANGED dnsIn
         ELSE /\ relay' = [pc |-> "done", held |-> <<>>]
              /\ dnsIn' = <<>>
              /\ UNCHANGED dnsOut
    /\ UNCHANGED <<appVars, task, lock, file, dnsFile, pingCh, engine, tui, consumed,
                   resolved>>

------------------------------------------------------------------------------
(* The TUI loop. *)

(* while let Ok(sample) = ping_rx.try_recv() *)
DrainPing ==
    /\ tui = "ping"
    /\ IF pingCh = <<>>
         THEN tui' = "dns" /\ UNCHANGED <<appVars, pingCh, consumed>>
         ELSE /\ OnPingSample(Shown[Head(pingCh).task], Head(pingCh).rtt)
              /\ consumed' = Append(consumed, Head(pingCh))
              /\ pingCh' = Tail(pingCh)
              /\ UNCHANGED tui
    /\ UNCHANGED <<task, lock, file, dnsFile, dnsIn, dnsOut, relay, engine, resolved>>

(* while let Ok(sample) = dns_rx.try_recv() *)
DrainDns ==
    /\ tui = "dns"
    /\ IF dnsOut = <<>>
         THEN tui' = "draw" /\ UNCHANGED <<appVars, dnsOut>>
         ELSE /\ OnDnsResult(Head(dnsOut))
              /\ dnsOut' = Tail(dnsOut)
              /\ UNCHANGED tui
    /\ UNCHANGED <<task, lock, file, dnsFile, pingCh, dnsIn, relay, engine, consumed,
                   resolved>>

(* draw and poll: another tick, or `q` (or an I/O error) ends the loop and  *)
(* drops both receivers with what is queued in them.                        *)
DrawAndPoll ==
    /\ tui = "draw"
    /\ \/ tui' = "ping" /\ UNCHANGED <<pingCh, dnsOut>>
       \/ tui' = "gone" /\ pingCh' = <<>> /\ dnsOut' = <<>>
    /\ UNCHANGED <<appVars, task, lock, file, dnsFile, dnsIn, relay, engine, consumed,
                   resolved>>

PingTask(i) == Measure(i) \/ LockExporter(i) \/ Export(i) \/ SendSample(i)
Engine == Resolve \/ SendDns \/ NextRound
Relay == RelayRecv \/ RelayLock \/ RelayExport \/ RelaySend
Tui == DrainPing \/ DrainDns \/ DrawAndPoll

Next == (\E i \in Tasks : PingTask(i)) \/ Engine \/ Relay \/ Tui

Spec == Init /\ [][Next]_vars

(* The runtime schedules every task and the TUI loop runs on. *)
FairSpec ==
    /\ Spec
    /\ \A i \in Tasks : WF_vars(PingTask(i))
    /\ WF_vars(Engine) /\ WF_vars(Relay) /\ WF_vars(Tui)

------------------------------------------------------------------------------
(* Properties. *)

TaskStates == [pc : {"measure", "lock", "export", "send"}, rtt : Samples,
               stats : {s \in Statistics : Consistent(s)}]

Lines == [task : Tasks, n : Nat, rx : Nat]
Queued == [task : Tasks, n : Nat, rtt : Samples]
Hands == {<<>>} \cup {<<r>> : r \in DnsResults}

(* Every variable keeps its type, the statistics are consistent, the holder *)
(* of the Mutex is in its section, and a result is in hand from its receipt *)
(* to its send.                                                             *)
TypeOK ==
    /\ AppTypeOK
    /\ task \in [Tasks -> TaskStates]
    /\ lock \in Tasks \cup {Free, RelayGuard}
    /\ \A i \in Tasks : task[i].pc = "export" <=> lock = i
    /\ relay.pc = "export" <=> lock = RelayGuard
    /\ file \in Seq(Lines)
    /\ pingCh \in Seq(Queued) /\ consumed \in Seq(Queued)
    /\ dnsFile \in Seq(DnsResults) /\ resolved \in Seq(DnsResults)
    /\ dnsIn \in Seq(DnsResults) /\ dnsOut \in Seq(DnsResults)
    /\ relay \in [pc : {"recv", "lock", "export", "send", "done"}, held : Hands]
    /\ engine \in [pc : {"domain", "send", "done"}, next : 1..(Len(Domains) + 1),
                   held : Hands]
    /\ engine.held # <<>> <=> engine.pc = "send"
    /\ engine.pc = "send" => engine.next \in DOMAIN Domains
    /\ relay.held # <<>> <=> relay.pc \in {"lock", "export", "send"}
    /\ tui \in {"ping", "dns", "draw", "gone"}

(* The samples of task i in s are its first n, in order and once each. *)
InOrder(s, i, n) ==
    LET mine == {k \in DOMAIN s : s[k].task = i}
    IN  /\ {s[k].n : k \in mine} = 1..n
        /\ \A k, l \in mine : k < l => s[k].n < s[l].n

(* While the dashboard is up, no sample is lost, doubled or out of order    *)
(* between its task and the screen (main.rs:202: why the channel is not     *)
(* bounded), however tasks, relay and drain interleave.                     *)
Lossless ==
    Up => \A i \in Tasks :
             InOrder(consumed \o pingCh, i,
                     IF task[i].pc = "measure" THEN Sent(i) ELSE Sent(i) - 1)

(* Every sample is in the file before it can be on the screen, and the file *)
(* keeps each task's order, even after the dashboard is gone.               *)
Exported ==
    \A i \in Tasks :
        InOrder(file, i, IF task[i].pc \in {"lock", "export"} THEN Sent(i) - 1 ELSE Sent(i))

(* The loss rate of a host is the same in the file, where the task's own    *)
(* statistics give it, and on the screen, where the tracker counts again.   *)
LossAgrees ==
    \A i \in Tasks : \A k \in DOMAIN file :
        /\ Cardinality({j \in Tasks : Shown[j] = Shown[i]}) = 1
        /\ file[k].task = i
        /\ file[k].n = trackers[i].transmitted
        => file[k].rx = trackers[i].received

(* Statistics that are those of the samples of task i in s.                 *)
StatsOf(stats, s, i) ==
    LET mine == {k \in DOMAIN s : s[k].task = i}
        got == {k \in mine : s[k].rtt # None}
    IN  /\ stats.transmitted = Cardinality(mine)
        /\ stats.received = Cardinality(got)
        /\ stats.sum = SumFunctionOnSet([k \in got |-> s[k].rtt], got)
        /\ IF got = {} THEN stats.min = None /\ stats.max = None
           ELSE /\ {stats.min, stats.max} \subseteq {s[k].rtt : k \in got}
                /\ \A k \in got : stats.min <= s[k].rtt /\ s[k].rtt <= stats.max

(* The sample that task i has measured and not yet sent. *)
InHand(i) == IF task[i].pc = "measure" THEN <<>>
             ELSE <<[task |-> i, n |-> Sent(i), rtt |-> task[i].rtt]>>

(* The statistics that a task updates in place are those of exactly the     *)
(* samples that reach the dashboard, its extremes among them.               *)
StatsMatch ==
    Up => \A i \in Tasks : StatsOf(task[i].stats, consumed \o pingCh \o InHand(i), i)

(* Task, file and screen count the same samples of a host, and alike.       *)
StatsAgree == LossAgrees /\ StatsMatch

(* The average printed beside the minimum and the maximum (main.rs:45) lies *)
(* between them, as long as the number of replies fits the u32 it is cast   *)
(* to.                                                                      *)
MeanBetweenExtremes ==
    \A i \in Tasks :
        LET stats == task[i].stats
        IN  stats.received \in 1..(CastMod - 1) =>
               stats.min <= AvgRtt(stats) /\ AvgRtt(stats) <= stats.max

(* DNS results reach the screen through two channels and the relay, in      *)
(* order and without loss, and the file before that.                        *)
DnsLossless ==
    /\ Up => resolved = dnsLog \o dnsOut \o relay.held \o dnsIn \o engine.held
    /\ Up => dnsFile = dnsLog \o dnsOut \o (IF relay.pc = "send" THEN relay.held ELSE <<>>)

(* Neither producer loses anything on its way to the file and the screen.   *)
NothingLost == Lossless /\ DnsLossless

(* What is measured is shown, unless the user quits first. *)
EverySampleShown ==
    \A i \in Tasks : \A k \in 1..MaxSamples :
        Sent(i) >= k ~> (~Up \/ \E e \in Range(consumed) : e.task = i /\ e.n = k)

(* dns.rs:133: "Termina quando o receptor é descartado": when the user      *)
(* quits, the relay and then the engine find their receivers gone and end.  *)
DnsEnds == ~Up ~> (relay.pc = "done" /\ engine.pc = "done")
==============================================================================
