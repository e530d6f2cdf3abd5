------------------------------ MODULE AppState ------------------------------
(***************************************************************************)
(* `AppState` of the dashboard (src/src/tui/app.rs): one tracker per host   *)
(* with a sliding window of latencies, the edge-triggered alert, and the    *)
(* latest DNS results.  Round-trip times are counted in PerMs-ths of a      *)
(* millisecond, so that as_millis truncates here as it does in the code.    *)
(***************************************************************************)
EXTENDS Integers, Sequences, FiniteSets, Functions, PingStats

CONSTANTS
    Shown,          \* the hosts of the dashboard, in order; one may come twice
    PerMs,          \* units of Rtts in a millisecond
    Window,         \* 40: latencies kept per host
    LossUnit,       \* the parts of a percent in which the loss limit is given
    LossLimit,      \* --alert-loss, in those; 0 or less turns it off
    LossEpsilon,    \* 10^9: a percent over the least excess that counts
    RttLimit,       \* --alert-rtt, in milliseconds; 0 turns it off
    DnsResults,     \* what a lookup may return
    DnsKept,        \* 20: DNS results kept
    MaxSamples,     \* bound: ping samples in all
    MaxDns          \* bound: DNS results in all

ASSUME AppAssumption ==
    /\ Shown \in Seq(Range(Shown))
    /\ PerMs \in Nat \ {0}
    /\ Window \in Nat \ {0} /\ DnsKept \in Nat \ {0}
    /\ LossUnit \in Nat \ {0} /\ LossLimit \in Int /\ LossEpsilon \in Nat
    /\ RttLimit \in Nat
    /\ MaxSamples \in Nat /\ MaxDns \in Nat

Hosts == Range(Shown)

VARIABLES
    trackers,       \* ping_trackers
    dns_results,    \* dns_results
    log, dnsLog,    \* history: all samples of each host; all DNS results
    events          \* the alert lines of each host: TRUE on entry, FALSE on exit

appVars == <<trackers, dns_results, log, dnsLog, events>>

(* rtt.map_or(0, as_millis) *)
Ms(rtt) == IF rtt = None THEN 0 ELSE rtt \div PerMs

NewTracker ==
    [history |-> [i \in 1..Window |-> 0], last |-> None,
     transmitted |-> 0, received |-> 0, alerting |-> FALSE]

AppInit ==
    /\ trackers = [i \in DOMAIN Shown |-> NewTracker]
    /\ dns_results = <<>>
    /\ log = [h \in Hosts |-> <<>>]
    /\ dnsLog = <<>>
    /\ events = [h \in Hosts |-> <<>>]

(* pop_front when full, then push_back. *)
Pushed(s, v, max) == Append(IF Len(s) >= max THEN Tail(s) ELSE s, v)

(* find: the first tracker of the host. *)
First(i) == \A j \in DOMAIN Shown : Shown[j] = Shown[i] => i <= j

(* Mutants: a lost sample is kept as it is; it leaves the window alone. *)
CountedRaw(t, rtt) ==
    [history     |-> Pushed(t.history, rtt, Window),
     last        |-> rtt,
     transmitted |-> t.transmitted + 1,
     received    |-> IF rtt = None THEN t.received ELSE t.received + 1,
     alerting    |-> t.alerting]

CountedReplies(t, rtt) ==
    [history     |-> IF rtt = None THEN t.history ELSE Pushed(t.history, Ms(rtt), Window),
     last        |-> IF rtt = None THEN None ELSE Ms(rtt),
     transmitted |-> t.transmitted + 1,
     received    |-> IF rtt = None THEN t.received ELSE t.received + 1,
     alerting    |-> t.alerting]

Counted(t, rtt) ==
    [history     |-> Pushed(t.history, Ms(rtt), Window),
     last        |-> IF rtt = None THEN None ELSE Ms(rtt),
     transmitted |-> t.transmitted + 1,
     received    |-> IF rtt = None THEN t.received ELSE t.received + 1,
     alerting    |-> t.alerting]

(* loss_pct() - limit > 1e-9, with both sides times everything below them.  *)
LossExceeded(t) ==
    /\ LossLimit > 0
    /\ LossEpsilon * (100 * (t.transmitted - t.received) * LossUnit
                          - LossLimit * t.transmitted) > LossUnit * t.transmitted

(* avg_rtt_ms(): over the non-zero entries of the window, if there are any. *)
NonZero(t) == {i \in DOMAIN t.history : t.history[i] > 0}
AvgRttMs(t) == SumFunctionOnSet(t.history, NonZero(t)) \div Cardinality(NonZero(t))

RttExceeded(t) ==
    /\ RttLimit > 0
    /\ NonZero(t) # {}
    /\ AvgRttMs(t) > RttLimit

(* Mutant: a loss of exactly the limit raises the alert. *)
AlertAtLimit(t) ==
    \/ /\ LossLimit > 0
       /\ 100 * (t.transmitted - t.received) * LossUnit >= LossLimit * t.transmitted
    \/ RttExceeded(t)

Alert(t) == t.transmitted > 0 /\ (LossExceeded(t) \/ RttExceeded(t))

(* Mutant: an event for every sample over the limit. *)
EventPerTick(before, alert) == IF alert \/ before THEN <<alert>> ELSE <<>>

(* An event only when the state changes. *)
Event(before, alert) == IF alert = before THEN <<>> ELSE <<alert>>

OnPingSample(h, rtt) ==
    \E i \in DOMAIN Shown :
        /\ Shown[i] = h /\ First(i)
        /\ LET t == Counted(trackers[i], rtt)
           IN  /\ trackers' = [trackers EXCEPT ![i] = [t EXCEPT !.alerting = Alert(t)]]
               /\ events' = [events EXCEPT
                                ![h] = @ \o Event(trackers[i].alerting, Alert(t))]
        /\ log' = [log EXCEPT ![h] = Append(@, rtt)]
        /\ UNCHANGED <<dns_results, dnsLog>>

OnDnsResult(r) ==
    /\ dns_results' = Pushed(dns_results, r, DnsKept)
    /\ dnsLog' = Append(dnsLog, r)
    /\ UNCHANGED <<trackers, log, events>>

Logged == SumFunction([h \in Hosts |-> Len(log[h])])

AppNext ==
    \/ Logged < MaxSamples /\ \E h \in Hosts, rtt \in Samples : OnPingSample(h, rtt)
    \/ Len(dnsLog) < MaxDns /\ \E r \in DnsResults : OnDnsResult(r)

AppSpec == AppInit /\ [][AppNext]_appVars

------------------------------------------------------------------------------
(* Properties. *)

Trackers == [history : Seq(Nat), last : Nat \cup {None}, transmitted : Nat,
             received : Nat, alerting : BOOLEAN]

(* Every variable keeps its type. *)
AppTypeOK ==
    /\ trackers \in [DOMAIN Shown -> Trackers]
    /\ dns_results \in Seq(DnsResults)
    /\ log \in [Hosts -> Seq(Samples)]
    /\ dnsLog \in Seq(DnsResults)
    /\ events \in [Hosts -> Seq(BOOLEAN)]

(* The last Window latencies of s, after as many zeros as it takes. *)
LastMs(s) == [k \in 1..Window |-> IF k + Len(s) <= Window THEN 0
                                  ELSE Ms(s[k + Len(s) - Window])]

(* The sparkline is the host's last Window samples in order, a lost one as  *)
(* 0, and the counters under it count all of them; a tracker that repeats a *)
(* host stays as it was.                                                    *)
WindowIsLast ==
    \A i \in DOMAIN Shown :
        LET s == IF First(i) THEN log[Shown[i]] ELSE <<>>
        IN  trackers[i].history = LastMs(s) /\ trackers[i].transmitted = Len(s)

(* The panel holds the last DnsKept results in order. *)
DnsIsLast ==
    LET n == Len(dnsLog)
        m == IF n <= DnsKept THEN n ELSE DnsKept
    IN  dns_results = [k \in 1..m |-> dnsLog[n - m + k]]

(* What the panels keep, samples and results, is the last that came.        *)
KeepsTheLast == WindowIsLast /\ DnsIsLast

Alternating(e, on) ==
    /\ \A k \in DOMAIN e : e[k] = (k % 2 = 1)
    /\ on = (Len(e) % 2 = 1)

(* The alert lines of a host alternate, an entry first, and the last one    *)
(* says what the panel shows (ROADMAP-v0.2.0.md:10: one per transition).    *)
EventsAlternate ==
    \A i \in DOMAIN Shown :
        First(i) => Alternating(events[Shown[i]], trackers[i].alerting)

Lost(s) == {k \in DOMAIN s : s[k] = None}

(* The share of lost samples is over the limit, however little. *)
LossOver(s) == LossLimit > 0 /\ 100 * Cardinality(Lost(s)) * LossUnit > LossLimit * Len(s)

(* The samples the mean counts: those of the window of a millisecond or more.*)
Slow(s) == {k \in DOMAIN s : k > Len(s) - Window /\ Ms(s[k]) >= 1}

(* Their mean is at least `more` milliseconds over the limit: that of the   *)
(* round-trip times themselves, or of their whole milliseconds.             *)
MeanOver(s, more) ==
    /\ RttLimit > 0 /\ Slow(s) # {}
    /\ SumFunctionOnSet(s, Slow(s)) >= (RttLimit + more) * PerMs * Cardinality(Slow(s))

MsMeanOver(s, more) ==
    /\ RttLimit > 0 /\ Slow(s) # {}
    /\ SumFunctionOnSet([k \in DOMAIN s |-> Ms(s[k])], Slow(s))
          >= (RttLimit + more) * Cardinality(Slow(s))

(* A host is in alert exactly when the loss of its whole log is over the    *)
(* limit, however near (the epsilon of app.rs:119 hides no excess before    *)
(* LossEpsilon \div LossUnit samples), or the mean of its window is over,    *)
(* cut to whole milliseconds: each sample first and then the mean itself    *)
(* (app.rs:40, 109), so that at --alert-rtt 200 a mean of 200.5 ms is none. *)
(* Of the true mean that leaves: no alert before it is a millisecond over   *)
(* the limit, always one at two, and in between as the fractions fall.      *)
AlertExact ==
    \A i \in DOMAIN Shown :
        LET s == log[Shown[i]]
        IN  First(i) /\ LossUnit * Len(s) < LossEpsilon =>
               /\ trackers[i].alerting = (LossOver(s) \/ MsMeanOver(s, 1))
               /\ LossOver(s) \/ MeanOver(s, 2) => trackers[i].alerting
               /\ trackers[i].alerting => LossOver(s) \/ MeanOver(s, 1)

(* app.rs:33: "Média só sobre amostras recebidas (0 = timeout, excluído)":  *)
(* the mean is over the received samples of the window.                     *)
MeanOfReceived ==
    \A i \in DOMAIN Shown :
        LET s == log[Shown[i]]
            n == Len(s)
            got == {k \in 1..n : k > n - Window /\ s[k] # None}
        IN  First(i) /\ NonZero(trackers[i]) # {} =>
               AvgRttMs(trackers[i]) =
                  SumFunctionOnSet([k \in 1..n |-> Ms(s[k])], got) \div Cardinality(got)
==============================================================================
