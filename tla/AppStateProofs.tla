---------------------------- MODULE AppStateProofs ----------------------------
(***************************************************************************)
(* Theorems about AppState and Panels, for every list of hosts, window,     *)
(* limits, number of samples and height of the terminal, and what PingStats *)
(* promises of its operators, for every set of round-trip times and every   *)
(* width of the cast.                                                       *)
(***************************************************************************)
EXTENDS Panels, FiniteSums, SequenceTheorems, TLAPS

(* The statistics of a ping task. *)
LEMMA TimesMonotone ==
    ASSUME NEW n \in Nat, NEW a \in Nat, NEW b \in Nat, a <= b
    PROVE  n * a <= n * b
OBVIOUS

LEMMA TimesSuccessor ==
    ASSUME NEW n \in Nat, NEW a \in Nat
    PROVE  (n + 1) * a = n * a + a
OBVIOUS

LEMMA ModSmall ==
    ASSUME NEW m \in Nat, NEW x \in Nat, x < m
    PROVE  x % m = x
OBVIOUS

(* Integer division stays between bounds that hold of the product. *)
LEMMA DivBetween ==
    ASSUME NEW n \in Nat, n > 0, NEW s \in Nat, NEW a \in Nat, NEW b \in Nat,
           n * a <= s, s <= n * b
    PROVE  a <= s \div n /\ s \div n <= b
<1> DEFINE q == s \div n
<1>1. q \in Nat /\ n * q <= s /\ s < n * q + n
  OBVIOUS
<1> HIDE DEF q
<1>2. a <= q
  <2> SUFFICES ASSUME q + 1 <= a PROVE FALSE
    BY <1>1
  <2>1. n * (q + 1) <= n * a
    BY <1>1, TimesMonotone
  <2>2. n * (q + 1) = n * q + n
    BY <1>1
  <2> QED
    BY <1>1, <2>1, <2>2
<1>3. q <= b
  <2> SUFFICES ASSUME b + 1 <= q PROVE FALSE
    BY <1>1
  <2>1. n * (b + 1) <= n * q
    BY <1>1, TimesMonotone
  <2>2. n * (b + 1) = n * b + n
    OBVIOUS
  <2> QED
    BY <1>1, <2>1, <2>2
<1> QED
  BY <1>2, <1>3 DEF q

(* A sample leaves the counters, the sum and the extremes in agreement. *)
LEMMA ReceivedConsistent ==
    ASSUME NEW s, Consistent(s), NEW rtt \in Nat
    PROVE  Consistent(Received(s, rtt))
<1> DEFINE n == s.received
           lo == IF s.min = None \/ rtt < s.min THEN rtt ELSE s.min
           hi == IF s.max = None \/ rtt > s.max THEN rtt ELSE s.max
<1>1. /\ n \in Nat /\ lo \in Nat /\ hi \in Nat /\ lo <= rtt /\ rtt <= hi
      /\ n > 0 => lo <= s.min /\ s.max <= hi
  BY RttAssumption DEF Consistent
<1>2. n * lo <= s.sum /\ s.sum <= n * hi
  <2>1. CASE n = 0
    BY <1>1, <2>1 DEF Consistent
  <2>2. CASE n > 0
    <3>1. n * lo <= n * s.min /\ n * s.max <= n * hi
      BY <1>1, <2>2, TimesMonotone DEF Consistent
    <3> QED
      BY <1>1, <2>2, <3>1 DEF Consistent
  <2> QED
    BY <1>1, <2>1, <2>2
<1>3. (n + 1) * lo <= s.sum + rtt /\ s.sum + rtt <= (n + 1) * hi
  <2>1. s.sum \in Nat
    BY DEF Consistent
  <2> HIDE DEF n, lo, hi
  <2>2. (n + 1) * lo = n * lo + lo /\ (n + 1) * hi = n * hi + hi
    BY <1>1, TimesSuccessor
  <2>3. n * lo \in Int /\ n * hi \in Int
    BY <1>1
  <2> QED
    BY <1>1, <1>2, <2>1, <2>2, <2>3
<1>4. Received(s, rtt) = [transmitted |-> s.transmitted + 1, received |-> n + 1,
                          min |-> lo, max |-> hi, sum |-> s.sum + rtt]
  BY DEF Received
<1> HIDE DEF lo, hi
<1> QED
  BY <1>1, <1>3, <1>4 DEF Consistent

LEMMA RecordedConsistent ==
    ASSUME NEW s \in Statistics, Consistent(s), NEW rtt \in Samples
    PROVE  Recorded(s, rtt) \in Statistics /\ Consistent(Recorded(s, rtt))
<1>1. CASE rtt = None
  <2>1. Recorded(s, rtt) = [transmitted |-> s.transmitted + 1, received |-> s.received,
                            min |-> s.min, max |-> s.max, sum |-> s.sum]
    BY <1>1 DEF Recorded, Statistics
  <2> QED
    BY <2>1 DEF Consistent, Statistics
<1>2. CASE rtt # None
  <2>1. rtt \in Nat /\ Recorded(s, rtt) = Received(s, rtt)
    BY <1>2, RttAssumption DEF Recorded, Samples
  <2>2. Received(s, rtt) \in Statistics
    BY <2>1 DEF Received, Statistics
  <2> QED
    BY <2>1, <2>2, ReceivedConsistent
<1> QED
  BY <1>1, <1>2

LEMMA NoStatsConsistent == NoStats \in Statistics /\ Consistent(NoStats)
BY RttAssumption DEF NoStats, Statistics, Consistent

(* As long as the cast keeps the number of replies, min <= avg <= max. *)
LEMMA AvgBetween ==
    ASSUME NEW s, Consistent(s), s.received \in 1..(CastMod - 1)
    PROVE  s.min <= AvgRtt(s) /\ AvgRtt(s) <= s.max
<1>1. s.received % CastMod = s.received
  BY RttAssumption, ModSmall DEF Consistent
<1> QED
  BY <1>1, DivBetween DEF AvgRtt, Consistent

------------------------------------------------------------------------------
(* The state of the dashboard. *)
LEMMA HostType == \A i \in DOMAIN Shown : Shown[i] \in Hosts
BY DEF Hosts, Range

LEMMA MsType == ASSUME NEW rtt \in Samples PROVE Ms(rtt) \in Nat
BY RttAssumption, AppAssumption DEF Ms, Samples

LEMMA AppendAt ==
    ASSUME NEW S, NEW s \in Seq(S), NEW v \in S
    PROVE  /\ Append(s, v) \in Seq(S)
           /\ Len(Append(s, v)) = Len(s) + 1
           /\ Append(s, v)[Len(s) + 1] = v
           /\ \A k \in 1..Len(s) : Append(s, v)[k] = s[k]
OBVIOUS

LEMMA TailAt ==
    ASSUME NEW S, NEW s \in Seq(S), Len(s) > 0
    PROVE  /\ Tail(s) \in Seq(S)
           /\ Len(Tail(s)) = Len(s) - 1
           /\ \A k \in 1..(Len(s) - 1) : Tail(s)[k] = s[k + 1]
<1>1. s # <<>>
  OBVIOUS
<1> QED
  BY <1>1

(* Pushing keeps the newest elements in order and adds one. *)
LEMMA PushedAt ==
    ASSUME NEW S, NEW s \in Seq(S), NEW v \in S, NEW max \in Nat \ {0}, Len(s) <= max
    PROVE  /\ Pushed(s, v, max) \in Seq(S)
           /\ Len(Pushed(s, v, max)) = IF Len(s) < max THEN Len(s) + 1 ELSE max
           /\ Pushed(s, v, max)[Len(Pushed(s, v, max))] = v
           /\ \A k \in 1..(Len(Pushed(s, v, max)) - 1) :
                 Pushed(s, v, max)[k] = s[k + (Len(s) + 1 - Len(Pushed(s, v, max)))]
<1> DEFINE p == Pushed(s, v, max)
<1>1. Len(s) \in Nat
  OBVIOUS
<1>2. CASE Len(s) < max
  <2>1. p = Append(s, v)
    BY <1>1, <1>2 DEF Pushed
  <2>2. /\ p \in Seq(S) /\ Len(p) = Len(s) + 1 /\ p[Len(p)] = v
        /\ \A k \in 1..Len(s) : p[k] = s[k]
    BY <2>1, AppendAt
  <2> HIDE DEF p
  <2>3. \A k \in 1..(Len(p) - 1) : k \in 1..Len(s) /\ k + (Len(s) + 1 - Len(p)) = k
    BY <1>1, <2>2
  <2> QED
    BY <1>1, <1>2, <2>2, <2>3 DEF p
<1>3. CASE Len(s) = max
  <2>1. p = Append(Tail(s), v)
    BY <1>1, <1>3 DEF Pushed
  <2>2. /\ Tail(s) \in Seq(S) /\ Len(Tail(s)) = max - 1
        /\ \A k \in 1..(max - 1) : Tail(s)[k] = s[k + 1]
    BY <1>1, <1>3, TailAt
  <2>3. /\ p \in Seq(S) /\ Len(p) = (max - 1) + 1 /\ p[(max - 1) + 1] = v
        /\ \A k \in 1..(max - 1) : p[k] = Tail(s)[k]
    BY <2>1, <2>2, AppendAt
  <2>4. (max - 1) + 1 = max
    OBVIOUS
  <2> HIDE DEF p
  <2>5. Len(p) = max /\ p[Len(p)] = v
    BY <2>3, <2>4
  <2>6. \A k \in 1..(Len(p) - 1) : k \in 1..(max - 1) /\ k + (Len(s) + 1 - Len(p)) = k + 1
    BY <1>1, <1>3, <2>5
  <2> QED
    BY <1>1, <1>3, <2>2, <2>3, <2>5, <2>6 DEF p
<1> QED
  BY <1>1, <1>2, <1>3

LEMMA PushedLen ==
    ASSUME NEW S, NEW s \in Seq(S), NEW v \in S, NEW max \in Nat \ {0}, Len(s) <= max
    PROVE  Len(Pushed(s, v, max)) = IF Len(s) < max THEN Len(s) + 1 ELSE max
BY PushedAt

LEMMA PushedNewest ==
    ASSUME NEW S, NEW s \in Seq(S), NEW v \in S, NEW max \in Nat \ {0}, Len(s) <= max
    PROVE  Pushed(s, v, max)[Len(Pushed(s, v, max))] = v
BY PushedAt

LEMMA PushedRest ==
    ASSUME NEW S, NEW s \in Seq(S), NEW v \in S, NEW max \in Nat \ {0}, Len(s) <= max
    PROVE  \A k \in 1..(Len(Pushed(s, v, max)) - 1) :
              Pushed(s, v, max)[k] = s[k + (Len(s) + 1 - Len(Pushed(s, v, max)))]
BY PushedAt

LEMMA PushedType ==
    ASSUME NEW S, NEW s \in Seq(S), NEW v \in S, NEW max \in Nat \ {0}
    PROVE  Pushed(s, v, max) \in Seq(S)
<1>1. CASE Len(s) >= max
  <2>1. s # <<>>
    BY <1>1
  <2>2. Tail(s) \in Seq(S)
    BY <2>1
  <2> QED
    BY <1>1, <2>2 DEF Pushed
<1>2. CASE ~(Len(s) >= max)
  BY <1>2 DEF Pushed
<1> QED
  BY <1>1, <1>2

LEMMA EventType ==
    ASSUME NEW before \in BOOLEAN, NEW alert \in BOOLEAN
    PROVE  Event(before, alert) \in Seq(BOOLEAN)
<1>1. <<>> \in Seq(BOOLEAN) /\ <<alert>> \in Seq(BOOLEAN)
  OBVIOUS
<1> QED
  BY <1>1, Zenon DEF Event

LEMMA NewTrackerType == NewTracker \in Trackers
BY RttAssumption, AppAssumption DEF NewTracker, Trackers

LEMMA CountedType ==
    ASSUME NEW t \in Trackers, NEW rtt \in Samples, NEW alert \in BOOLEAN
    PROVE  [Counted(t, rtt) EXCEPT !.alerting = alert] \in Trackers
<1>1. t.history \in Seq(Nat) /\ t.transmitted \in Nat /\ t.received \in Nat
  BY DEF Trackers
<1>2. Pushed(t.history, Ms(rtt), Window) \in Seq(Nat)
  BY <1>1, MsType, PushedType, AppAssumption
<1>3. [Counted(t, rtt) EXCEPT !.alerting = alert] =
         [history |-> Pushed(t.history, Ms(rtt), Window),
          last |-> IF rtt = None THEN None ELSE Ms(rtt),
          transmitted |-> t.transmitted + 1,
          received |-> IF rtt = None THEN t.received ELSE t.received + 1,
          alerting |-> alert]
  BY DEF Counted
<1> QED
  BY <1>1, <1>2, <1>3, MsType DEF Trackers

(* What a sample changes. *)
LEMMA SampleStep ==
    ASSUME AppTypeOK, NEW h \in Hosts, NEW rtt \in Samples, OnPingSample(h, rtt)
    PROVE  \E i \in DOMAIN Shown :
             LET t == Counted(trackers[i], rtt)
             IN  /\ Shown[i] = h /\ First(i)
                 /\ \A j \in DOMAIN Shown : First(j) /\ Shown[j] = h => j = i
                 /\ trackers' = [trackers EXCEPT ![i] = [t EXCEPT !.alerting = Alert(t)]]
                 /\ events' = [events EXCEPT
                                  ![h] = @ \o Event(trackers[i].alerting, Alert(t))]
                 /\ log' = [log EXCEPT ![h] = Append(@, rtt)]
                 /\ dns_results' = dns_results /\ dnsLog' = dnsLog
<1>1. \A i, j \in DOMAIN Shown : First(i) /\ First(j) /\ Shown[i] = Shown[j] => i = j
  <2>1. DOMAIN Shown \subseteq Nat
    BY AppAssumption
  <2> QED
    BY <2>1 DEF First
<1> QED
  BY <1>1 DEF OnPingSample

------------------------------------------------------------------------------
(* Neither handler leaves the types. *)
LEMMA SampleTypes ==
    ASSUME AppTypeOK, NEW h \in Hosts, NEW rtt \in Samples, OnPingSample(h, rtt)
    PROVE  AppTypeOK'
<1>1. PICK i \in DOMAIN Shown :
         LET t == Counted(trackers[i], rtt)
         IN  /\ trackers' = [trackers EXCEPT ![i] = [t EXCEPT !.alerting = Alert(t)]]
             /\ events' = [events EXCEPT
                              ![h] = @ \o Event(trackers[i].alerting, Alert(t))]
             /\ log' = [log EXCEPT ![h] = Append(@, rtt)]
             /\ dns_results' = dns_results /\ dnsLog' = dnsLog
  BY SampleStep
<1> DEFINE t == Counted(trackers[i], rtt)
<1>2. Alert(t) \in BOOLEAN /\ trackers[i] \in Trackers
  BY DEF Alert, AppTypeOK
<1>3. [t EXCEPT !.alerting = Alert(t)] \in Trackers
  BY <1>2, CountedType
<1>4. Event(trackers[i].alerting, Alert(t)) \in Seq(BOOLEAN)
  BY <1>2, EventType DEF Trackers
<1> HIDE DEF t
<1>5. events[h] \o Event(trackers[i].alerting, Alert(t)) \in Seq(BOOLEAN)
  BY <1>4 DEF AppTypeOK
<1> QED
  BY <1>1, <1>3, <1>5 DEF AppTypeOK, t

LEMMA DnsResultTypes ==
    ASSUME AppTypeOK, NEW r \in DnsResults, OnDnsResult(r)
    PROVE  AppTypeOK'
<1>1. Pushed(dns_results, r, DnsKept) \in Seq(DnsResults)
  BY PushedType, AppAssumption DEF AppTypeOK
<1>2. Append(dnsLog, r) \in Seq(DnsResults)
  BY DEF AppTypeOK
<1> QED
  BY <1>1, <1>2 DEF AppTypeOK, OnDnsResult

LEMMA AppInitTypes == AppInit => AppTypeOK
BY NewTrackerType DEF AppInit, AppTypeOK

(* Every variable keeps its type. *)
THEOREM AppTypeCorrect == AppSpec => []AppTypeOK
<1>1. AppTypeOK /\ [AppNext]_appVars => AppTypeOK'
  <2> SUFFICES ASSUME AppTypeOK, AppNext PROVE AppTypeOK'
    BY DEF AppTypeOK, appVars
  <2> QED
    BY SampleTypes, DnsResultTypes DEF AppNext
<1> QED
  BY <1>1, AppInitTypes, PTL DEF AppSpec

------------------------------------------------------------------------------
(* Pushing a latency onto the last Window ones gives the last Window ones. *)
LEMMA LastMsPushed ==
    ASSUME NEW s \in Seq(Samples), NEW rtt \in Samples
    PROVE  Pushed(LastMs(s), Ms(rtt), Window) = LastMs(Append(s, rtt))
<1> DEFINE n == Len(s)
           old == LastMs(s)
           new == LastMs(Append(s, rtt))
<1>1. Window \in Nat /\ Window > 0 /\ n \in Nat /\ Len(Append(s, rtt)) = n + 1
  BY AppAssumption
<1>2. \A k \in 1..Window :
         /\ old[k] = IF k + n <= Window THEN 0 ELSE Ms(s[k + n - Window])
         /\ new[k] = IF k + (n + 1) <= Window THEN 0
                     ELSE Ms(Append(s, rtt)[k + (n + 1) - Window])
  BY <1>1 DEF LastMs
<1>3. old \in Seq(Nat) /\ Len(old) = Window /\ DOMAIN old = 1..Window
  <2>1. \A k \in 1..Window : old[k] \in Nat
    <3> SUFFICES ASSUME NEW k \in 1..Window, k + n > Window PROVE Ms(s[k + n - Window]) \in Nat
      BY <1>1, <1>2
    <3>1. k + n - Window \in 1..n
      BY <1>1
    <3>2. s[k + n - Window] \in Samples
      BY <3>1
    <3> QED
      BY <3>2, MsType
  <2>2. old = [k \in 1..Window |-> old[k]] /\ DOMAIN old = 1..Window
    BY DEF LastMs
  <2> HIDE DEF old
  <2>3. old \in [1..Window -> Nat]
    BY <2>1, <2>2
  <2> QED
    BY <1>1, <2>3
<1>4. new = [k \in 1..Window |-> new[k]]
  BY DEF LastMs
<1> HIDE DEF old, new
<1> DEFINE pushed == Pushed(old, Ms(rtt), Window)
<1>5. /\ pushed \in Seq(Nat) /\ Len(pushed) = Window /\ pushed[Window] = Ms(rtt)
      /\ \A k \in 1..(Window - 1) : pushed[k] = old[k + 1]
  <2>1. /\ pushed \in Seq(Nat) /\ Len(pushed) = Window /\ pushed[Len(pushed)] = Ms(rtt)
        /\ \A k \in 1..(Len(pushed) - 1) : pushed[k] = old[k + (Len(old) + 1 - Len(pushed))]
    <3>1. Ms(rtt) \in Nat /\ Len(old) <= Window /\ Window \in Nat \ {0} /\ ~(Len(old) < Window)
      BY <1>1, <1>3, MsType
    <3>2. pushed \in Seq(Nat)
      BY <1>3, <3>1, PushedType
    <3>3. Len(pushed) = IF Len(old) < Window THEN Len(old) + 1 ELSE Window
      BY <1>3, <3>1, PushedLen
    <3>4. pushed[Len(pushed)] = Ms(rtt)
      BY <1>3, <3>1, PushedNewest
    <3>5. \A k \in 1..(Len(pushed) - 1) : pushed[k] = old[k + (Len(old) + 1 - Len(pushed))]
      BY <1>3, <3>1, PushedRest, ZenonT(30)
    <3> HIDE DEF pushed
    <3> QED
      BY <3>1, <3>2, <3>3, <3>4, <3>5
  <2> HIDE DEF pushed
  <2>2. \A k \in 1..(Window - 1) : k + (Window + 1 - Window) = k + 1
    BY <1>1
  <2> QED
    BY <1>3, <2>1, <2>2
<1> HIDE DEF pushed
<1>6. /\ Append(s, rtt)[n + 1] = rtt
      /\ \A k \in 1..n : Append(s, rtt)[k] = s[k]
  BY AppendAt
<1>7. ASSUME NEW k \in 1..(Window - 1) PROVE pushed[k] = new[k]
  <2>1. k \in 1..Window /\ k + 1 \in 1..Window
    BY <1>1
  <2>2. /\ old[k + 1] = IF (k + 1) + n <= Window THEN 0 ELSE Ms(s[(k + 1) + n - Window])
        /\ new[k] = IF k + (n + 1) <= Window THEN 0
                    ELSE Ms(Append(s, rtt)[k + (n + 1) - Window])
    BY <1>2, <2>1
  <2>3. /\ (k + 1) + n <= Window <=> k + (n + 1) <= Window
        /\ (k + 1) + n - Window = k + (n + 1) - Window
        /\ ~(k + (n + 1) <= Window) => k + (n + 1) - Window \in 1..n
    BY <1>1
  <2> QED
    BY <1>5, <1>6, <2>2, <2>3
<1>8. new[Window] = Ms(rtt)
  <2>1. Window \in 1..Window
    BY <1>1
  <2>2. new[Window] = IF Window + (n + 1) <= Window THEN 0
                      ELSE Ms(Append(s, rtt)[Window + (n + 1) - Window])
    BY <1>2, <2>1
  <2>3. Window + (n + 1) - Window = n + 1 /\ ~(Window + (n + 1) <= Window)
    BY <1>1
  <2> QED
    BY <1>6, <2>2, <2>3
<1>9. pushed = [k \in 1..Window |-> pushed[k]]
  BY <1>1, <1>5
<1>10. \A k \in 1..Window : pushed[k] = new[k]
  <2>1. \A k \in 1..Window : k \in 1..(Window - 1) \/ k = Window
    BY <1>1
  <2> QED
    BY <1>5, <1>7, <1>8, <2>1
<1>11. pushed = new
  BY <1>4, <1>9, <1>10
<1> QED
  BY <1>11 DEF pushed, old, new

(* The sparkline is the last Window samples of the first tracker's host. *)
THEOREM WindowsAreLast == AppSpec => []WindowIsLast
<1>1. AppInit => WindowIsLast
  <2>1. LastMs(<<>>) = [i \in 1..Window |-> 0] /\ Len(<<>>) = 0
    BY AppAssumption DEF LastMs
  <2> SUFFICES ASSUME AppInit, NEW i \in DOMAIN Shown
               PROVE  LET s == IF First(i) THEN log[Shown[i]] ELSE <<>>
                      IN  trackers[i].history = LastMs(s) /\ trackers[i].transmitted = Len(s)
    BY DEF WindowIsLast
  <2>2. log[Shown[i]] = <<>>
    BY HostType DEF AppInit
  <2>3. trackers[i].history = [k \in 1..Window |-> 0] /\ trackers[i].transmitted = 0
    BY DEF AppInit, NewTracker
  <2> QED
    BY <2>1, <2>2, <2>3
<1>2. AppTypeOK /\ WindowIsLast /\ [AppNext]_appVars => WindowIsLast'
  <2> SUFFICES ASSUME AppTypeOK, WindowIsLast, AppNext PROVE WindowIsLast'
    BY DEF WindowIsLast, appVars, First
  <2>1. ASSUME NEW h \in Hosts, NEW rtt \in Samples, OnPingSample(h, rtt)
        PROVE  WindowIsLast'
    <3>1. PICK i \in DOMAIN Shown :
             LET t == Counted(trackers[i], rtt)
             IN  /\ Shown[i] = h /\ First(i)
                 /\ \A j \in DOMAIN Shown : First(j) /\ Shown[j] = h => j = i
                 /\ trackers' = [trackers EXCEPT ![i] = [t EXCEPT !.alerting = Alert(t)]]
                 /\ log' = [log EXCEPT ![h] = Append(@, rtt)]
      BY <2>1, SampleStep
    <3>2. ASSUME NEW j \in DOMAIN Shown, j # i
          PROVE  LET s == IF First(j) THEN log'[Shown[j]] ELSE <<>>
                 IN  trackers'[j].history = LastMs(s) /\ trackers'[j].transmitted = Len(s)
      <4>1. trackers'[j] = trackers[j]
        BY <3>1, <3>2 DEF AppTypeOK
      <4>2. First(j) => log'[Shown[j]] = log[Shown[j]]
        BY <3>1, <3>2, HostType DEF AppTypeOK
      <4> QED
        BY <4>1, <4>2 DEF WindowIsLast
    <3>3. trackers'[i].history = LastMs(log'[h]) /\ trackers'[i].transmitted = Len(log'[h])
      <4> DEFINE t == trackers[i]
      <4>1. /\ t \in Trackers /\ log[h] \in Seq(Samples)
            /\ t.history = LastMs(log[h]) /\ t.transmitted = Len(log[h])
        BY <3>1 DEF AppTypeOK, WindowIsLast
      <4>2. /\ trackers'[i].history = Pushed(t.history, Ms(rtt), Window)
            /\ trackers'[i].transmitted = t.transmitted + 1
        BY <3>1, <4>1 DEF AppTypeOK, Counted, Trackers
      <4>3. log'[h] = Append(log[h], rtt)
        BY <3>1 DEF AppTypeOK
      <4> QED
        BY <4>1, <4>2, <4>3, LastMsPushed
    <3> QED
      BY <3>1, <3>2, <3>3 DEF WindowIsLast, First
  <2>2. ASSUME NEW r \in DnsResults, OnDnsResult(r) PROVE WindowIsLast'
    BY <2>2 DEF OnDnsResult, WindowIsLast, First
  <2> QED
    BY <2>1, <2>2 DEF AppNext
<1> QED
  BY <1>1, <1>2, AppTypeCorrect, PTL DEF AppSpec

------------------------------------------------------------------------------
(* An event on every change, and on no other sample, keeps them alternating. *)
LEMMA AlternatingStep ==
    ASSUME NEW e \in Seq(BOOLEAN), NEW before \in BOOLEAN, NEW alert \in BOOLEAN,
           Alternating(e, before)
    PROVE  Alternating(e \o Event(before, alert), alert)
<1>1. CASE alert = before
  <2>1. e \o Event(before, alert) = e
    <3>1. Event(before, alert) = <<>>
      BY <1>1, Zenon DEF Event
    <3> QED
      BY <3>1
  <2> QED
    BY <1>1, <2>1
<1>2. CASE alert # before
  <2>1. e \o Event(before, alert) = Append(e, alert)
    <3>1. Event(before, alert) = <<alert>>
      BY <1>2, Zenon DEF Event
    <3> QED
      BY <3>1
  <2>2. /\ Len(e) \in Nat /\ DOMAIN e = 1..Len(e)
        /\ DOMAIN Append(e, alert) = 1..(Len(e) + 1)
        /\ Len(Append(e, alert)) = Len(e) + 1
        /\ Append(e, alert)[Len(e) + 1] = alert
        /\ \A k \in 1..Len(e) : Append(e, alert)[k] = e[k]
    OBVIOUS
  <2>3. (Len(e) + 1) % 2 = 1 <=> ~(Len(e) % 2 = 1)
    BY <2>2
  <2>4. alert = ((Len(e) + 1) % 2 = 1)
    BY <1>2, <2>3, Zenon DEF Alternating
  <2>5. \A k \in 1..(Len(e) + 1) : k \in 1..Len(e) \/ k = Len(e) + 1
    BY <2>2
  <2>6. \A k \in DOMAIN Append(e, alert) : Append(e, alert)[k] = (k % 2 = 1)
    BY <2>2, <2>4, <2>5, Zenon DEF Alternating
  <2>7. alert = (Len(Append(e, alert)) % 2 = 1)
    BY <2>2, <2>4, Zenon
  <2>8. Alternating(Append(e, alert), alert)
    BY <2>6, <2>7, Zenon DEF Alternating
  <2> QED
    BY <2>1, <2>8, Zenon
<1> QED
  BY <1>1, <1>2

(* Entries and exits alternate, and the last is what the panel shows. *)
THEOREM EventsAreAlternating == AppSpec => []EventsAlternate
<1>1. AppInit => EventsAlternate
  <2>1. Alternating(<<>>, FALSE)
    BY DEF Alternating
  <2>2. ASSUME AppInit, NEW i \in DOMAIN Shown
        PROVE  events[Shown[i]] = <<>> /\ trackers[i].alerting = FALSE
    BY <2>2, HostType DEF AppInit, NewTracker
  <2> QED
    BY <2>1, <2>2 DEF EventsAlternate
<1>2. AppTypeOK /\ EventsAlternate /\ [AppNext]_appVars => EventsAlternate'
  <2> SUFFICES ASSUME AppTypeOK, EventsAlternate, AppNext PROVE EventsAlternate'
    BY DEF EventsAlternate, appVars, First
  <2>1. ASSUME NEW h \in Hosts, NEW rtt \in Samples, OnPingSample(h, rtt)
        PROVE  EventsAlternate'
    <3>1. PICK i \in DOMAIN Shown :
             LET t == Counted(trackers[i], rtt)
             IN  /\ Shown[i] = h /\ First(i)
                 /\ \A j \in DOMAIN Shown : First(j) /\ Shown[j] = h => j = i
                 /\ trackers' = [trackers EXCEPT ![i] = [t EXCEPT !.alerting = Alert(t)]]
                 /\ events' = [events EXCEPT
                                  ![h] = @ \o Event(trackers[i].alerting, Alert(t))]
      BY <2>1, SampleStep
    <3>2. ASSUME NEW j \in DOMAIN Shown, First(j), j # i
          PROVE  trackers'[j] = trackers[j] /\ events'[Shown[j]] = events[Shown[j]]
      BY <3>1, <3>2, HostType DEF AppTypeOK
    <3> DEFINE before == trackers[i].alerting
               alert == Alert(Counted(trackers[i], rtt))
               e == events[h]
    <3>3. before \in BOOLEAN /\ alert \in BOOLEAN /\ e \in Seq(BOOLEAN)
      BY DEF AppTypeOK, Trackers, Alert
    <3>4. Alternating(e, before)
      BY <3>1 DEF EventsAlternate
    <3>5. trackers'[i].alerting = alert
      BY <3>1 DEF AppTypeOK, Counted, Trackers
    <3>6. events'[h] = e \o Event(before, alert)
      BY <3>1 DEF AppTypeOK
    <3> HIDE DEF before, alert, e
    <3>7. Alternating(events'[h], trackers'[i].alerting)
      BY <3>3, <3>4, <3>5, <3>6, AlternatingStep
    <3> QED
      BY <3>1, <3>2, <3>7 DEF EventsAlternate, First
  <2>2. ASSUME NEW r \in DnsResults, OnDnsResult(r) PROVE EventsAlternate'
    BY <2>2 DEF OnDnsResult, EventsAlternate, First
  <2> QED
    BY <2>1, <2>2 DEF AppNext
<1> QED
  BY <1>1, <1>2, AppTypeCorrect, PTL DEF AppSpec

------------------------------------------------------------------------------
(* The DNS panel holds the last results in order. *)
THEOREM DnsPanelIsLast == AppSpec => []DnsIsLast
<1>1. AppInit => DnsIsLast
  BY AppAssumption DEF AppInit, DnsIsLast
<1>2. AppTypeOK /\ DnsIsLast /\ [AppNext]_appVars => DnsIsLast'
  <2> SUFFICES ASSUME AppTypeOK, DnsIsLast, AppNext PROVE DnsIsLast'
    BY DEF DnsIsLast, appVars
  <2>1. ASSUME NEW r \in DnsResults, OnDnsResult(r) PROVE DnsIsLast'
    <3> DEFINE n == Len(dnsLog)
               m == IF n <= DnsKept THEN n ELSE DnsKept
               p == IF n + 1 <= DnsKept THEN n + 1 ELSE DnsKept
               d == dns_results
    <3>1. /\ n \in Nat /\ m \in Nat /\ p \in Nat \ {0} /\ DnsKept \in Nat \ {0}
          /\ d \in Seq(DnsResults) /\ dnsLog \in Seq(DnsResults)
          /\ m <= n /\ m <= DnsKept /\ p <= m + 1 /\ p <= n + 1
          /\ p = IF m < DnsKept THEN m + 1 ELSE DnsKept
      BY AppAssumption DEF AppTypeOK
    <3>2. d = [k \in 1..m |-> dnsLog[n - m + k]]
      BY DEF DnsIsLast
    <3>0. n = Len(dnsLog) /\ p = IF n + 1 <= DnsKept THEN n + 1 ELSE DnsKept
      OBVIOUS
    <3> HIDE DEF n, m, p, d
    <3>3. Len(d) = m /\ \A k \in 1..m : d[k] = dnsLog[n - m + k]
      BY <3>1, <3>2
    <3>4. d' = Pushed(d, r, DnsKept) /\ dnsLog' = Append(dnsLog, r)
      BY <2>1 DEF OnDnsResult, d
    <3>5. /\ Len(dnsLog') = n + 1 /\ dnsLog'[n + 1] = r
          /\ \A k \in 1..n : dnsLog'[k] = dnsLog[k]
      BY <3>0, <3>1, <3>4, AppendAt
    <3>6. /\ d' \in Seq(DnsResults) /\ Len(d') = p
          /\ \A k \in 1..p : d'[k] = dnsLog'[(n + 1) - p + k]
      <4>1. Len(d) <= DnsKept
        BY <3>1, <3>3
      <4>2. /\ d' \in Seq(DnsResults) /\ Len(d') = p /\ d'[p] = r
            /\ \A k \in 1..(p - 1) : d'[k] = d[k + (m + 1 - p)]
        <5>1. r \in DnsResults
          OBVIOUS
        <5>2. d' \in Seq(DnsResults)
          BY <3>1, <3>4, <5>1, PushedType
        <5>3. Len(d') = IF Len(d) < DnsKept THEN Len(d) + 1 ELSE DnsKept
          BY <3>1, <3>4, <4>1, <5>1, PushedLen
        <5>4. d'[Len(d')] = r
          BY <3>1, <3>4, <4>1, <5>1, PushedNewest
        <5>5. \A k \in 1..(Len(d') - 1) : d'[k] = d[k + (Len(d) + 1 - Len(d'))]
          BY <3>1, <3>4, <4>1, <5>1, PushedRest
        <5> QED
          BY <3>1, <3>3, <5>2, <5>3, <5>4, <5>5
      <4>3. (n + 1) - p + p = n + 1
        BY <3>1
      <4>4. ASSUME NEW k \in 1..(p - 1) PROVE d'[k] = dnsLog'[(n + 1) - p + k]
        <5>1. /\ k + (m + 1 - p) \in 1..m
              /\ n - m + (k + (m + 1 - p)) = (n + 1) - p + k
              /\ (n + 1) - p + k \in 1..n
          BY <3>1
        <5>2. d[k + (m + 1 - p)] = dnsLog[(n + 1) - p + k]
          BY <3>3, <5>1
        <5> QED
          BY <3>5, <4>2, <5>1, <5>2
      <4>5. \A k \in 1..p : k \in 1..(p - 1) \/ k = p
        BY <3>1
      <4> QED
        BY <3>5, <4>2, <4>3, <4>4, <4>5
    <3>7. d' = [k \in 1..p |-> dnsLog'[(n + 1) - p + k]]
      BY <3>1, <3>6
    <3> QED
      BY <3>0, <3>5, <3>7 DEF DnsIsLast, d
  <2>2. ASSUME NEW h \in Hosts, NEW rtt \in Samples, OnPingSample(h, rtt) PROVE DnsIsLast'
    BY <2>2 DEF OnPingSample, DnsIsLast
  <2> QED
    BY <2>1, <2>2 DEF AppNext
<1> QED
  BY <1>1, <1>2, AppTypeCorrect, PTL DEF AppSpec

(* The sparkline and the DNS panel together.                                *)
THEOREM LastIsKept == AppSpec => []KeepsTheLast
BY WindowsAreLast, DnsPanelIsLast, PTL DEF KeepsTheLast

------------------------------------------------------------------------------
(* The alert says what the log says. *)

MsOf(s) == [k \in DOMAIN s |-> Ms(s[k])]

LEMMA LostType ==
    ASSUME NEW s \in Seq(Samples)
    PROVE  Len(s) \in Nat /\ Cardinality(Lost(s)) \in Nat
<1>1. IsFiniteSet(1..Len(s)) /\ Lost(s) \in SUBSET (1..Len(s)) /\ Len(s) \in Nat
  BY FS_Interval DEF Lost
<1> QED
  BY <1>1, FS_Subset, FS_CardinalityType

(* A lost sample is one more. *)
LEMMA LostAppend ==
    ASSUME NEW s \in Seq(Samples), NEW rtt \in Samples
    PROVE  /\ Cardinality(Lost(s)) \in Nat
           /\ Cardinality(Lost(Append(s, rtt))) =
                 Cardinality(Lost(s)) + (IF rtt = None THEN 1 ELSE 0)
<1> DEFINE n == Len(s)
<1>1. /\ n \in Nat /\ Len(Append(s, rtt)) = n + 1 /\ Append(s, rtt)[n + 1] = rtt
      /\ \A k \in 1..n : Append(s, rtt)[k] = s[k]
  BY AppendAt
<1>2. IsFiniteSet(Lost(s)) /\ Cardinality(Lost(s)) \in Nat
  <2>1. IsFiniteSet(1..n)
    BY <1>1, FS_Interval
  <2>2. IsFiniteSet(Lost(s))
    BY <2>1, FS_Subset DEF Lost
  <2> QED
    BY <2>2, FS_CardinalityType
<1>3. 1..(n + 1) = (1..n) \cup {n + 1} /\ n + 1 \notin 1..n
  BY <1>1
<1>4. CASE rtt = None
  <2>1. Lost(Append(s, rtt)) = Lost(s) \cup {n + 1} /\ n + 1 \notin Lost(s)
    BY <1>1, <1>3, <1>4 DEF Lost
  <2> HIDE DEF n
  <2>2. Cardinality(Lost(s) \cup {n + 1}) = Cardinality(Lost(s)) + 1
    BY <1>2, <2>1, FS_AddElement
  <2> QED
    BY <1>2, <1>4, <2>1, <2>2
<1>5. CASE rtt # None
  <2>1. Lost(Append(s, rtt)) = Lost(s)
    BY <1>1, <1>3, <1>5 DEF Lost
  <2> QED
    BY <1>2, <1>5, <2>1
<1> QED
  BY <1>2, <1>4, <1>5

(* The latencies the mean counts, and their sum, are those of the log. *)
LEMMA SlowInWindow ==
    ASSUME NEW s \in Seq(Samples), NEW t, t.history = LastMs(s)
    PROVE  /\ IsFiniteSet(NonZero(t))
           /\ NonZero(t) = {} <=> Slow(s) = {}
           /\ Cardinality(Slow(s)) = Cardinality(NonZero(t))
           /\ SumFunctionOnSet(MsOf(s), Slow(s)) = SumFunctionOnSet(t.history, NonZero(t))
           /\ SumFunctionOnSet(t.history, NonZero(t)) \in Int
<1> DEFINE n == Len(s)
           f == t.history
           g == MsOf(s)
           h == [k \in 1..Window |-> k + n - Window]
           N == NonZero(t)
<1>1. n \in Nat /\ Window \in Nat /\ Window > 0
  BY AppAssumption
<1>2. \A k \in 1..n : Ms(s[k]) \in Nat
  <2>1. \A k \in 1..n : s[k] \in Samples
    OBVIOUS
  <2> QED
    BY <2>1, MsType
<1>3. DOMAIN f = 1..Window /\ \A k \in 1..Window :
         f[k] = IF k + n <= Window THEN 0 ELSE Ms(s[k + n - Window])
  BY DEF LastMs
<1>4. N \subseteq 1..Window /\ IsFiniteSet(N)
  <2>1. IsFiniteSet(1..Window) /\ N \in SUBSET (1..Window)
    BY <1>1, <1>3, FS_Interval DEF NonZero
  <2> QED
    BY <2>1, FS_Subset
<1>5. ASSUME NEW k \in N
      PROVE  /\ h[k] \in 1..n /\ h[k] > n - Window /\ Ms(s[h[k]]) >= 1
             /\ f[k] \in Int /\ g[h[k]] = f[k]
  <2>1. k \in 1..Window /\ f[k] > 0
    BY <1>4, <1>3 DEF NonZero
  <2>2. ~(k + n <= Window)
    BY <1>3, <2>1
  <2>3. h[k] = k + n - Window /\ h[k] \in 1..n /\ h[k] > n - Window
    BY <1>1, <2>1, <2>2
  <2>4. f[k] = Ms(s[h[k]]) /\ f[k] \in Nat
    BY <1>2, <1>3, <2>1, <2>2, <2>3
  <2> QED
    BY <2>1, <2>3, <2>4 DEF MsOf
<1>6. ASSUME NEW j \in Slow(s) PROVE \E k \in N : h[k] = j
  <2>1. j \in 1..n /\ j > n - Window /\ Ms(s[j]) >= 1
    BY DEF Slow
  <2>2. /\ j - n + Window \in 1..Window /\ (j - n + Window) + n - Window = j
        /\ ~((j - n + Window) + n <= Window)
    BY <1>1, <2>1
  <2>3. f[j - n + Window] = Ms(s[j]) /\ h[j - n + Window] = j
    BY <1>3, <2>2
  <2>4. Ms(s[j]) \in Nat
    BY <1>2, <2>1
  <2> QED
    BY <1>3, <2>1, <2>2, <2>3, <2>4 DEF NonZero
<1>7. \A k \in N : h[k] \in Slow(s)
  <2>1. DOMAIN s = 1..n
    BY <1>1
  <2> HIDE DEF N, f, g, h
  <2>2. \A k \in N : h[k] \in 1..n /\ h[k] > n - Window /\ Ms(s[h[k]]) >= 1
    BY <1>5
  <2> QED
    BY <2>1, <2>2, Zenon DEF Slow
<1>8. \A j, k \in N : h[j] = h[k] => j = k
  BY <1>1, <1>4
<1>9. \A k \in N : f[k] \in Int /\ g[h[k]] = f[k]
  BY <1>5
<1> HIDE DEF f, g, h, N
<1>10. /\ Cardinality(Slow(s)) = Cardinality(N)
       /\ SumFunctionOnSet(g, Slow(s)) = SumFunctionOnSet(f, N)
  <2> DEFINE T == Slow(s)
  <2>1. Renames(h, f, N, g, T)
    BY <1>6, <1>7, <1>8, <1>9 DEF Renames
  <2>2. Cardinality(T) = Cardinality(N) /\ SumFunctionOnSet(g, T) = SumFunctionOnSet(f, N)
    <3> HIDE DEF T
    <3> QED
      BY <1>4, <2>1, SumImage
  <2> QED
    BY <2>2
<1>11. SumFunctionOnSet(f, N) \in Int
  BY <1>4, <1>9, SumType
<1>12. N = {} <=> Slow(s) = {}
  BY <1>6, <1>7
<1> QED
  BY <1>4, <1>10, <1>11, <1>12 DEF f, g, N

(* A whole excess is over the epsilon. *)
LEMMA ExcessCounts ==
    ASSUME NEW d \in Int, NEW e \in Nat, NEW n \in Nat, n < e
    PROVE  e * d > n <=> d > 0
<1>1. CASE d > 0
  <2>1. e * 1 <= e * d
    BY <1>1, TimesMonotone
  <2> QED
    BY <1>1, <2>1
<1>2. CASE d <= 0
  <2>1. e * d <= 0
    BY <1>2
  <2> QED
    BY <1>2, <2>1
<1> QED
  BY <1>1, <1>2

(* The alert of a tracker that holds the window of s and its counters. *)
LEMMA AlertOfLog ==
    ASSUME NEW s \in Seq(Samples), NEW t, t.history = LastMs(s),
           t.transmitted = Len(s), t.received = Len(s) - Cardinality(Lost(s)),
           Cardinality(Lost(s)) \in Nat, LossUnit * Len(s) < LossEpsilon
    PROVE  Alert(t) <=>
              LossOver(s) \/ MsMeanOver(s, 1)
<1>1. LossLimit \in Int /\ RttLimit \in Nat /\ Len(s) \in Nat
  BY AppAssumption
<1>2. LossExceeded(t) <=> LossOver(s)
  <2> DEFINE lost == Cardinality(Lost(s))
             d == 100 * lost * LossUnit - LossLimit * Len(s)
  <2>1. t.transmitted - t.received = lost /\ t.transmitted = Len(s)
    BY <1>1
  <2>2. LossEpsilon * d > LossUnit * Len(s) <=> 100 * lost * LossUnit > LossLimit * Len(s)
    <3>1. /\ d \in Int /\ LossUnit * Len(s) \in Nat /\ LossEpsilon \in Nat
          /\ LossUnit * Len(s) < LossEpsilon
          /\ d > 0 <=> 100 * lost * LossUnit > LossLimit * Len(s)
      BY <1>1, AppAssumption
    <3> HIDE DEF d, lost
    <3> QED
      BY <3>1, ExcessCounts
  <2> QED
    BY <2>1, <2>2 DEF LossExceeded, LossOver
<1>3. RttExceeded(t) <=> MsMeanOver(s, 1)
  <2> DEFINE sum == SumFunctionOnSet(t.history, NonZero(t))
             c == Cardinality(NonZero(t))
  <2>1. /\ NonZero(t) = {} <=> Slow(s) = {}
        /\ Cardinality(Slow(s)) = c
        /\ SumFunctionOnSet(MsOf(s), Slow(s)) = sum
        /\ sum \in Int /\ IsFiniteSet(NonZero(t))
    BY SlowInWindow
  <2>2. CASE NonZero(t) = {}
    BY <2>1, <2>2 DEF RttExceeded, MsMeanOver
  <2>3. CASE NonZero(t) # {}
    <3>1. c \in Nat \ {0}
      BY <2>1, <2>3, FS_CardinalityType, FS_EmptySet
    <3>2. sum \div c > RttLimit <=> sum >= (RttLimit + 1) * c
      <4> HIDE DEF sum, c
      <4>1. sum \in Int /\ RttLimit \in Int
        BY <1>1, <2>1
      <4> QED
        BY <3>1, <4>1, MeanAbove, Zenon
    <3>3. RttExceeded(t) <=> RttLimit > 0 /\ sum \div c > RttLimit
      BY <2>3 DEF RttExceeded, AvgRttMs
    <3> HIDE DEF sum, c
    <3> QED
      BY <2>1, <2>3, <3>2, <3>3 DEF MsMeanOver, MsOf
  <2> QED
    BY <2>2, <2>3
<1>4. Len(s) = 0 => Lost(s) = {} /\ Slow(s) = {} /\ Cardinality(Lost(s)) = 0
  BY FS_EmptySet DEF Lost, Slow
<1>5. CASE Len(s) = 0
  <2>1. ~LossOver(s)
    BY <1>1, <1>4, <1>5, AppAssumption DEF LossOver
  <2> QED
    BY <1>4, <1>5, <2>1 DEF Alert, MsMeanOver
<1>6. CASE Len(s) # 0
  BY <1>1, <1>2, <1>3, <1>6 DEF Alert
<1> QED
  BY <1>5, <1>6

(* Why: a host's tracker counts the samples that were not lost, and every  *)
(* tracker's alert is that of its counters and window.                     *)
ReceivedCounted ==
    \A i \in DOMAIN Shown :
        First(i) => trackers[i].received = Len(log[Shown[i]]) - Cardinality(Lost(log[Shown[i]]))

AlertIsCurrent ==
    \A i \in DOMAIN Shown : trackers[i].alerting = Alert(trackers[i])

AlertInv == ReceivedCounted /\ AlertIsCurrent

LEMMA AlertSampleStep ==
    ASSUME AppTypeOK, AlertInv, NEW h \in Hosts, NEW rtt \in Samples, OnPingSample(h, rtt)
    PROVE  AlertInv'
<1>1. PICK i \in DOMAIN Shown :
         LET t == Counted(trackers[i], rtt)
         IN  /\ Shown[i] = h /\ First(i)
             /\ \A j \in DOMAIN Shown : First(j) /\ Shown[j] = h => j = i
             /\ trackers' = [trackers EXCEPT ![i] = [t EXCEPT !.alerting = Alert(t)]]
             /\ log' = [log EXCEPT ![h] = Append(@, rtt)]
  BY SampleStep
<1> DEFINE t == Counted(trackers[i], rtt)
           new == [t EXCEPT !.alerting = Alert(t)]
<1>2. /\ trackers[i] \in Trackers /\ log[h] \in Seq(Samples)
      /\ trackers'[i] = new /\ log'[h] = Append(log[h], rtt)
      /\ \A j \in DOMAIN Shown : j # i => trackers'[j] = trackers[j]
      /\ \A g \in Hosts : g # h => log'[g] = log[g]
  BY <1>1 DEF AppTypeOK
<1>3. /\ new.alerting = Alert(t) /\ new.history = t.history
      /\ new.transmitted = t.transmitted /\ new.received = t.received
      /\ t.received = IF rtt = None THEN trackers[i].received ELSE trackers[i].received + 1
      /\ trackers[i].received \in Nat
  BY <1>2 DEF Counted, Trackers
<1>4. Alert(new) = Alert(t)
  <2> HIDE DEF new, t
  <2> QED
    BY <1>3 DEF Alert, LossExceeded, RttExceeded, AvgRttMs, NonZero
<1>5. ASSUME NEW j \in DOMAIN Shown, First(j)
      PROVE  trackers'[j].received =
                Len(log'[Shown[j]]) - Cardinality(Lost(log'[Shown[j]]))
  <2>1. trackers[j].received = Len(log[Shown[j]]) - Cardinality(Lost(log[Shown[j]]))
    BY <1>5 DEF AlertInv, ReceivedCounted
  <2>2. CASE j = i
    <3>1. Len(Append(log[h], rtt)) = Len(log[h]) + 1 /\ Len(log[h]) \in Nat
      BY <1>2, AppendAt
    <3>2. /\ Cardinality(Lost(log[h])) \in Nat
          /\ Cardinality(Lost(Append(log[h], rtt))) =
                Cardinality(Lost(log[h])) + (IF rtt = None THEN 1 ELSE 0)
      BY <1>2, LostAppend
    <3>3. trackers'[i].received = t.received
      BY <1>2, <1>3
    <3> HIDE DEF new, t
    <3> QED
      BY <1>1, <1>2, <1>3, <2>1, <2>2, <3>1, <3>2, <3>3
  <2>3. CASE j # i
    BY <1>1, <1>2, <1>5, <2>1, <2>3, HostType
  <2> QED
    BY <2>2, <2>3
<1>6. ReceivedCounted'
  BY <1>5 DEF ReceivedCounted, First
<1>7. ASSUME NEW j \in DOMAIN Shown
      PROVE  trackers'[j].alerting = Alert(trackers'[j])
  <2> HIDE DEF new, t
  <2> QED
    BY <1>2, <1>3, <1>4 DEF AlertInv, AlertIsCurrent
<1>8. AlertIsCurrent'
  BY <1>7 DEF AlertIsCurrent, Alert, LossExceeded, RttExceeded, AvgRttMs, NonZero
<1> QED
  BY <1>6, <1>8 DEF AlertInv

LEMMA AlertInit == AppInit => AlertInv
<1> SUFFICES ASSUME AppInit PROVE AlertInv
  OBVIOUS
<1>1. \A i \in DOMAIN Shown : trackers[i] = NewTracker /\ log[Shown[i]] = <<>>
  BY HostType DEF AppInit
<1>2. Lost(<<>>) = {} /\ Cardinality({}) = 0 /\ Len(<<>>) = 0
  BY FS_EmptySet DEF Lost
<1>3. NewTracker.received = 0 /\ NewTracker.alerting = FALSE /\ NewTracker.transmitted = 0
  BY DEF NewTracker
<1>4. Alert(NewTracker) = FALSE
  BY <1>3 DEF Alert
<1>5. ReceivedCounted
  <2>1. 0 = 0 - 0
    OBVIOUS
  <2> HIDE DEF Lost
  <2> QED
    BY <1>1, <1>2, <1>3, <2>1 DEF ReceivedCounted
<1>6. AlertIsCurrent
  BY <1>1, <1>3, <1>4 DEF AlertIsCurrent
<1> QED
  BY <1>5, <1>6 DEF AlertInv

LEMMA AlertStep == AppTypeOK /\ AlertInv /\ [AppNext]_appVars => AlertInv'
<1> SUFFICES ASSUME AppTypeOK, AlertInv, [AppNext]_appVars PROVE AlertInv'
  OBVIOUS
<1>1. ASSUME NEW h \in Hosts, NEW rtt \in Samples, OnPingSample(h, rtt) PROVE AlertInv'
  BY <1>1, AlertSampleStep
<1>2. CASE UNCHANGED <<trackers, log>>
  BY <1>2 DEF AlertInv, ReceivedCounted, AlertIsCurrent, First, Alert, LossExceeded,
              RttExceeded, AvgRttMs, NonZero, Lost
<1> QED
  BY <1>1, <1>2 DEF AppNext, OnDnsResult, appVars

(* A mean of whole milliseconds over the limit is a true mean as far over,  *)
(* and a true mean is at most a millisecond more.                           *)
LEMMA MeanOfWhole ==
    ASSUME NEW s \in Seq(Samples)
    PROVE  (MsMeanOver(s, 1) => MeanOver(s, 1)) /\ (MeanOver(s, 2) => MsMeanOver(s, 1))
<1> DEFINE S == Slow(s)
           g == MsOf(s)
<1>1. /\ IsFiniteSet(S) /\ PerMs \in Nat \ {0} /\ RttLimit \in Nat
      /\ S \subseteq DOMAIN s
  <2>1. IsFiniteSet(1..Len(s)) /\ S \in SUBSET (1..Len(s))
    BY FS_Interval DEF Slow
  <2> QED
    BY <2>1, FS_Subset, AppAssumption
<1>2. ASSUME NEW k \in S
      PROVE  /\ s[k] \in Int /\ g[k] \in Int
             /\ PerMs * g[k] <= s[k] /\ s[k] <= PerMs * g[k] + PerMs
  <2>1. s[k] \in Samples /\ Ms(s[k]) >= 1 /\ g[k] = Ms(s[k])
    BY DEF Slow, MsOf
  <2>2. s[k] # None
    BY <2>1 DEF Ms
  <2>3. s[k] \in Nat /\ g[k] = s[k] \div PerMs
    BY <2>1, <2>2, RttAssumption DEF Ms, Samples
  <2>4. \A r \in Nat : /\ r \div PerMs \in Int
                      /\ PerMs * (r \div PerMs) <= r
                      /\ r <= PerMs * (r \div PerMs) + PerMs
    BY <1>1
  <2> QED
    BY <2>3, <2>4
<1> HIDE DEF S, g
<1> DEFINE sum == SumFunctionOnSet(s, S)
           whole == SumFunctionOnSet(g, S)
           n == Cardinality(S)
<1>3. /\ sum \in Int /\ whole \in Int /\ n \in Nat
      /\ PerMs * whole <= sum /\ sum <= PerMs * whole + PerMs * n
  BY <1>1, <1>2, SumScaled
<1>4. /\ MsMeanOver(s, 1) <=> RttLimit > 0 /\ S # {} /\ whole >= (RttLimit + 1) * n
      /\ \A m \in {1, 2} :
            MeanOver(s, m) <=> RttLimit > 0 /\ S # {} /\ sum >= (RttLimit + m) * PerMs * n
  BY DEF MsMeanOver, MeanOver, MsOf, S, g
<1> HIDE DEF sum, whole, n
<1>5. /\ whole >= (RttLimit + 1) * n => sum >= (RttLimit + 1) * PerMs * n
      /\ sum >= (RttLimit + 2) * PerMs * n => whole >= (RttLimit + 1) * n
  BY <1>1, <1>3, ScaledMean
<1> QED
  BY <1>4, <1>5, Zenon

(* A host is in alert exactly when the loss of its whole log, or the mean   *)
(* of its window in whole milliseconds, is over the limit; the true mean is *)
(* then a millisecond over it, and two always raise the alert.              *)
THEOREM AlertsAreExact == AppSpec => []AlertExact
<1>1. AppTypeOK /\ WindowIsLast /\ AlertInv => AlertExact
  <2> SUFFICES ASSUME AppTypeOK, WindowIsLast, AlertInv, NEW i \in DOMAIN Shown, First(i),
                      LossUnit * Len(log[Shown[i]]) < LossEpsilon
               PROVE  LET s == log[Shown[i]]
                      IN  /\ trackers[i].alerting = (LossOver(s) \/ MsMeanOver(s, 1))
                          /\ LossOver(s) \/ MeanOver(s, 2) => trackers[i].alerting
                          /\ trackers[i].alerting => LossOver(s) \/ MeanOver(s, 1)
    BY Zenon DEF AlertExact
  <2> DEFINE s == log[Shown[i]]
             t == trackers[i]
  <2>1. /\ s \in Seq(Samples) /\ t.history = LastMs(s) /\ t.transmitted = Len(s)
        /\ t.received = Len(s) - Cardinality(Lost(s))
        /\ t.alerting = Alert(t) /\ t.alerting \in BOOLEAN
    BY HostType DEF AppTypeOK, Trackers, WindowIsLast, AlertInv, ReceivedCounted, AlertIsCurrent
  <2>2. Cardinality(Lost(s)) \in Nat
    <3> HIDE DEF s
    <3> QED
      BY <2>1, LostType
  <2>3. Alert(t) <=> LossOver(s) \/ MsMeanOver(s, 1)
    <3> HIDE DEF s, t
    <3> QED
      BY <2>1, <2>2, AlertOfLog DEF s
  <2>4. t.alerting = (LossOver(s) \/ MsMeanOver(s, 1))
    <3>1. (LossOver(s) \/ MsMeanOver(s, 1)) \in BOOLEAN
      OBVIOUS
    <3> HIDE DEF s, t
    <3> QED
      BY <2>1, <2>3, <3>1, Zenon
  <2>5. (MsMeanOver(s, 1) => MeanOver(s, 1)) /\ (MeanOver(s, 2) => MsMeanOver(s, 1))
    BY <2>1, MeanOfWhole
  <2> QED
    BY <2>1, <2>3, <2>4, <2>5, Zenon
<1> QED
  BY <1>1, AlertInit, AlertStep, AppTypeCorrect, WindowsAreLast, PTL DEF AppSpec

------------------------------------------------------------------------------
(* The panels. *)

(* `last_rtt` after the samples s. *)
LastRtt(s) == IF s = <<>> \/ s[Len(s)] = None THEN None ELSE Ms(s[Len(s)])

(* Why: the first tracker of a host keeps its last sample, the others stay  *)
(* as they were, and only a host that has a tracker has alert lines.        *)
PanelInv ==
    /\ \A i \in DOMAIN Shown :
          IF First(i) THEN trackers[i].last = LastRtt(log[Shown[i]])
                      ELSE trackers[i] = NewTracker
    /\ \A h \in Hosts :
          events[h] # <<>> => \E i \in DOMAIN Shown : First(i) /\ Shown[i] = h

LEMMA PanelInit == AppInit => PanelInv
<1> SUFFICES ASSUME AppInit PROVE PanelInv
  OBVIOUS
<1>1. /\ \A i \in DOMAIN Shown : trackers[i] = NewTracker /\ log[Shown[i]] = <<>>
      /\ \A h \in Hosts : events[h] = <<>>
  BY HostType DEF AppInit
<1>2. NewTracker.last = None
  BY DEF NewTracker
<1> QED
  BY <1>1, <1>2 DEF PanelInv, LastRtt

LEMMA PanelSampleStep ==
    ASSUME AppTypeOK, PanelInv, NEW h \in Hosts, NEW rtt \in Samples, OnPingSample(h, rtt)
    PROVE  PanelInv'
<1>1. PICK i \in DOMAIN Shown :
         LET t == Counted(trackers[i], rtt)
         IN  /\ Shown[i] = h /\ First(i)
             /\ \A j \in DOMAIN Shown : First(j) /\ Shown[j] = h => j = i
             /\ trackers' = [trackers EXCEPT ![i] = [t EXCEPT !.alerting = Alert(t)]]
             /\ events' = [events EXCEPT
                              ![h] = @ \o Event(trackers[i].alerting, Alert(t))]
             /\ log' = [log EXCEPT ![h] = Append(@, rtt)]
  BY SampleStep
<1> DEFINE t == Counted(trackers[i], rtt)
           new == [t EXCEPT !.alerting = Alert(t)]
<1>2. /\ log[h] \in Seq(Samples)
      /\ trackers'[i] = new /\ log'[h] = Append(log[h], rtt)
      /\ \A j \in DOMAIN Shown : j # i => trackers'[j] = trackers[j]
      /\ \A g \in Hosts : g # h => log'[g] = log[g] /\ events'[g] = events[g]
  BY <1>1 DEF AppTypeOK
<1>3. new.last = LastRtt(Append(log[h], rtt))
  <2>1. new.last = IF rtt = None THEN None ELSE Ms(rtt)
    BY DEF Counted
  <2>2. /\ Append(log[h], rtt) # <<>>
        /\ Append(log[h], rtt)[Len(Append(log[h], rtt))] = rtt
    BY <1>2, AppendAt
  <2> HIDE DEF new, t
  <2> QED
    BY <2>1, <2>2 DEF LastRtt
<1> HIDE DEF new, t
<1>4. ASSUME NEW j \in DOMAIN Shown
      PROVE  IF First(j) THEN trackers'[j].last = LastRtt(log'[Shown[j]])
                         ELSE trackers'[j] = NewTracker
  <2>1. CASE j = i
    BY <1>1, <1>2, <1>3, <2>1
  <2>2. CASE j # i
    BY <1>1, <1>2, <2>2, HostType DEF PanelInv
  <2> QED
    BY <2>1, <2>2
<1>5. ASSUME NEW g \in Hosts, events'[g] # <<>>
      PROVE  \E j \in DOMAIN Shown : First(j) /\ Shown[j] = g
  BY <1>1, <1>2, <1>5 DEF PanelInv
<1> QED
  BY <1>4, <1>5 DEF PanelInv, First, LastRtt, Ms, NewTracker

LEMMA PanelStep == AppTypeOK /\ PanelInv /\ [AppNext]_appVars => PanelInv'
<1> SUFFICES ASSUME AppTypeOK, PanelInv, [AppNext]_appVars PROVE PanelInv'
  OBVIOUS
<1>1. ASSUME NEW h \in Hosts, NEW rtt \in Samples, OnPingSample(h, rtt) PROVE PanelInv'
  BY <1>1, PanelSampleStep
<1>2. CASE UNCHANGED <<trackers, log, events>>
  BY <1>2 DEF PanelInv, First, LastRtt, Ms, NewTracker
<1> QED
  BY <1>1, <1>2 DEF AppNext, OnDnsResult, appVars

(* The last alert line of a host is an entry exactly while it is in alert. *)
LEMMA LastLine ==
    ASSUME NEW e \in Seq(BOOLEAN), NEW on \in BOOLEAN, Alternating(e, on)
    PROVE  on <=> e # <<>> /\ Last(e)
<1>1. CASE e = <<>>
  <2>1. ~(Len(e) % 2 = 1)
    BY <1>1
  <2>2. on = (Len(e) % 2 = 1)
    BY DEF Alternating
  <2> QED
    BY <1>1, <2>1, <2>2, Zenon
<1>2. CASE e # <<>>
  <2>1. Len(e) \in DOMAIN e
    BY <1>2
  <2>2. e[Len(e)] = (Len(e) % 2 = 1)
    BY <2>1 DEF Alternating
  <2>3. on = (Len(e) % 2 = 1)
    BY DEF Alternating
  <2>4. Last(e) = on
    BY <2>2, <2>3, Zenon DEF Last
  <2> QED
    BY <1>2, <2>4
<1> QED
  BY <1>1, <1>2

LEMMA VisibleType ==
    ASSUME AppTypeOK, NEW height \in Heights
    PROVE  Visible(height) \in Int /\ Visible(height) <= Len(Shown)
<1>1. Len(Shown) \in Nat /\ DOMAIN Shown = 1..Len(Shown)
  BY AppAssumption
<1>2. trackers \in Seq(Trackers) /\ Len(trackers) = Len(Shown)
  <2>1. trackers \in [1..Len(Shown) -> Trackers]
    BY <1>1, Zenon DEF AppTypeOK
  <2> QED
    BY <1>1, <2>1
<1>3. height \in Int /\ (height - 2) \div 3 \in Int
  BY PanelsAssumption
<1> QED
  BY <1>1, <1>2, <1>3 DEF Visible, AtMost

LEMMA RowTells ==
    ASSUME AppTypeOK, WindowIsLast, AlertInv, EventsAlternate, PanelInv,
           NEW i \in DOMAIN Shown
    PROVE  LET on == events[Shown[i]] # <<>> /\ Last(events[Shown[i]])
           IN  PingRow(i) = IF First(i) THEN Told(Shown[i], log[Shown[i]], on)
                                        ELSE Told(Shown[i], <<>>, FALSE)
<1> DEFINE h == Shown[i]
           t == trackers[i]
           on == events[h] # <<>> /\ Last(events[h])
<1>1. /\ h \in Hosts /\ log[h] \in Seq(Samples) /\ events[h] \in Seq(BOOLEAN)
      /\ t.alerting \in BOOLEAN
  BY HostType DEF AppTypeOK, Trackers
<1>2. PingRow(i) = [host |-> h, rtt |-> t.last, lost |-> t.transmitted - t.received,
                    of |-> t.transmitted, alert |-> t.alerting]
  BY DEF PingRow
<1>3. \A s \in Seq(Samples) :
         Told(h, s, on) = [host |-> h, rtt |-> LastRtt(s), lost |-> Cardinality(Lost(s)),
                           of |-> Len(s), alert |-> on]
  <2> SUFFICES ASSUME NEW s \in Seq(Samples)
               PROVE  Told(h, s, on) =
                         [host |-> h, rtt |-> LastRtt(s), lost |-> Cardinality(Lost(s)),
                          of |-> Len(s), alert |-> on]
    OBVIOUS
  <2>1. {k \in DOMAIN s : s[k] = None} = Lost(s)
    BY DEF Lost
  <2> HIDE DEF on
  <2> QED
    BY <2>1, Zenon DEF Told, LastRtt, Last
<1>4. CASE First(i)
  <2>1. /\ t.last = LastRtt(log[h]) /\ t.transmitted = Len(log[h])
        /\ t.received = Len(log[h]) - Cardinality(Lost(log[h]))
    BY <1>4 DEF PanelInv, WindowIsLast, AlertInv, ReceivedCounted
  <2>2. Cardinality(Lost(log[h])) \in Nat /\ Len(log[h]) \in Nat
    BY <1>1, LostType
  <2>3. t.transmitted - t.received = Cardinality(Lost(log[h]))
    BY <2>1, <2>2
  <2>4. t.alerting = on
    BY <1>1, <1>4, LastLine DEF EventsAlternate
  <2> QED
    BY <1>1, <1>2, <1>3, <1>4, <2>1, <2>3, <2>4
<1>5. CASE ~First(i)
  <2>1. /\ t.last = None /\ t.transmitted = 0 /\ t.received = 0 /\ t.alerting = FALSE
    BY <1>5 DEF PanelInv, NewTracker
  <2>2. Told(h, <<>>, FALSE) = [host |-> h, rtt |-> None, lost |-> 0,
                                of |-> 0, alert |-> FALSE]
    <3>1. {k \in DOMAIN <<>> : <<>>[k] = None} = {}
      OBVIOUS
    <3> QED
      BY <3>1, FS_EmptySet DEF Told
  <2>3. t.transmitted - t.received = 0
    BY <2>1
  <2> HIDE DEF t, h
  <2>4. PingRow(i) = [host |-> h, rtt |-> None, lost |-> 0, of |-> 0, alert |-> FALSE]
    BY <1>2, <2>1, <2>3, Zenon
  <2> QED
    BY <1>5, <2>2, <2>4, Zenon DEF h
<1> QED
  BY <1>4, <1>5

------------------------------------------------------------------------------
LEMMA PingPanelIsTrue ==
    ASSUME AppTypeOK, WindowIsLast, AlertInv, EventsAlternate, PanelInv
    PROVE  PingPanelTells
<1> SUFFICES ASSUME NEW height \in Heights, NEW i \in DOMAIN PingPanel(height)
             PROVE  LET h == Shown[i]
                        on == events[h] # <<>> /\ Last(events[h])
                    IN  PingPanel(height)[i] =
                            IF First(i) THEN Told(h, log[h], on) ELSE Told(h, <<>>, FALSE)
  BY Zenon DEF PingPanelTells
<1>1. DOMAIN Shown = 1..Len(Shown) /\ Len(Shown) \in Nat
  BY AppAssumption
<1>2. i \in 1..Visible(height) /\ PingPanel(height)[i] = PingRow(i)
  BY Zenon DEF PingPanel
<1>3. i \in DOMAIN Shown
  <2>1. Visible(height) \in Int /\ Visible(height) <= Len(Shown)
    BY VisibleType
  <2> QED
    BY <1>1, <1>2, <2>1
<1> QED
  BY <1>2, <1>3, RowTells

(* What a terminal of any size shows of the count. *)
LEMMA FooterOf ==
    ASSUME NEW height \in Heights, NEW width \in Widths, NEW count \in Footer(height, width),
           NEW n \in Nat, AlertCount = n
    PROVE  /\ count \in {n, None} \/ width < FooterText + Digits(n)
           /\ n > 0 /\ height >= 14 /\ width >= FooterText + Digits(n) => count = n
           /\ n = 0 \/ height <= 10 \/ width <= FooterText => count = None
<1>1. height \in Nat /\ width \in Nat
  BY PanelsAssumption
<1>2. Digits(n) \in Nat /\ Digits(n) > 0
  <2> DEFINE D == {d \in 1..n : Base^d <= n}
  <2>1. IsFiniteSet(1..n) /\ D \in SUBSET (1..n)
    BY FS_Interval
  <2>2. Cardinality(D) \in Nat
    BY <2>1, FS_Subset, FS_CardinalityType
  <2> QED
    BY <2>2 DEF Digits
<1>3. PICK rows \in FooterRows(height) :
         count = IF rows = 0 \/ n = 0 \/ width <= FooterText
                   THEN None ELSE Fitting(n, width - FooterText)
  BY DEF Footer
<1>4. /\ rows \in 0..2
      /\ height >= 14 => rows # 0
      /\ height <= 10 => rows = 0
  BY <1>1, <1>3 DEF FooterRows, AtMost
<1>5. width >= FooterText + Digits(n) <=> width - FooterText >= Digits(n)
  BY <1>1, <1>2 DEF FooterText
<1>6. width >= FooterText + Digits(n) => Fitting(n, width - FooterText) = n
  BY <1>5 DEF Fitting
<1>7. FooterText \in Nat
  BY DEF FooterText
<1>8. n > 0 /\ width >= FooterText + Digits(n) => ~(width <= FooterText)
  BY <1>1, <1>2, <1>7
<1>9. ~(width >= FooterText + Digits(n)) <=> width < FooterText + Digits(n)
  BY <1>1, <1>2, <1>7
<1> QED
  BY <1>1, <1>3, <1>4, <1>6, <1>8, <1>9

(* The alerting rows and the hosts whose last line was an entry correspond. *)
LEMMA FooterIsTrue ==
    ASSUME AppTypeOK, AlertInv, EventsAlternate, PanelInv
    PROVE  FooterCountsAll
<1> DEFINE Alerting == {i \in DOMAIN trackers : trackers[i].alerting}
           Entered == {h \in Hosts : events[h] # <<>> /\ Last(events[h])}
<1>1. DOMAIN trackers = DOMAIN Shown /\ DOMAIN Shown = 1..Len(Shown) /\ Len(Shown) \in Nat
  BY AppAssumption DEF AppTypeOK
<1>2. IsFiniteSet(Alerting)
  <2>1. IsFiniteSet(1..Len(Shown)) /\ Alerting \in SUBSET (1..Len(Shown))
    BY <1>1, FS_Interval
  <2> QED
    BY <2>1, FS_Subset
<1>3. ASSUME NEW i \in DOMAIN Shown, First(i)
      PROVE  /\ Shown[i] \in Hosts
             /\ trackers[i].alerting <=> Shown[i] \in Entered
  <2>1. /\ Shown[i] \in Hosts /\ events[Shown[i]] \in Seq(BOOLEAN)
        /\ trackers[i].alerting \in BOOLEAN
    BY HostType DEF AppTypeOK, Trackers
  <2>2. Alternating(events[Shown[i]], trackers[i].alerting)
    BY <1>3 DEF EventsAlternate
  <2> QED
    BY <2>1, <2>2, LastLine
<1>4. ASSUME NEW i \in Alerting PROVE i \in DOMAIN Shown /\ First(i)
  <2>1. i \in DOMAIN Shown /\ trackers[i].alerting
    BY <1>1
  <2>2. NewTracker.alerting = FALSE
    BY DEF NewTracker
  <2> QED
    BY <2>1, <2>2 DEF PanelInv
<1>5. \A i, j \in DOMAIN Shown : First(i) /\ First(j) /\ Shown[i] = Shown[j] => i = j
  BY <1>1 DEF First
<1>6. ASSUME NEW h \in Entered PROVE \E i \in Alerting : Shown[i] = h
  <2>1. PICK i \in DOMAIN Shown : First(i) /\ Shown[i] = h
    BY DEF PanelInv
  <2> QED
    BY <1>1, <1>3, <2>1
<1>7. Cardinality(Entered) = Cardinality(Alerting)
  <2> DEFINE f == [i \in Alerting |-> Shown[i]]
  <2>1. f \in Bijection(Alerting, Entered)
    <3>1. f \in [Alerting -> Entered]
      BY <1>3, <1>4
    <3>2. \A i, j \in Alerting : f[i] = f[j] => i = j
      BY <1>4, <1>5
    <3>3. \A h \in Entered : \E i \in Alerting : f[i] = h
      BY <1>6
    <3> HIDE DEF Alerting, Entered, f
    <3> QED
      BY <3>1, <3>2, <3>3 DEF Bijection, Injection, IsInjective, Surjection
  <2>2. ExistsBijection(Alerting, Entered)
    BY <2>1, Zenon DEF ExistsBijection
  <2> HIDE DEF Alerting, Entered
  <2> QED
    BY <1>2, <2>2, FS_Bijection
<1>8. AlertCount = Cardinality(Entered) /\ Cardinality(Entered) \in Nat
  <2>1. Cardinality(Alerting) \in Nat
    BY <1>2, FS_CardinalityType
  <2> QED
    BY <1>7, <2>1 DEF AlertCount
<1> DEFINE n == Cardinality(Entered)
<1>9. ASSUME NEW height \in Heights, NEW width \in Widths, NEW count \in Footer(height, width)
      PROVE  /\ count \in {n, None} \/ width < FooterText + Digits(n)
             /\ n > 0 /\ height >= 14 /\ width >= FooterText + Digits(n) => count = n
             /\ n = 0 \/ height <= 10 \/ width <= FooterText => count = None
  BY <1>8, <1>9, FooterOf
<1> QED
  BY <1>9, Zenon DEF FooterCountsAll

LEMMA SubSeqAt ==
    ASSUME NEW S, NEW s \in Seq(S), NEW n \in Int, n <= Len(s), NEW k \in 1..n
    PROVE  SubSeq(s, 1, n) \in Seq(S) /\ SubSeq(s, 1, n)[k] = s[k]
OBVIOUS

LEMMA DnsPanelIsTrue ==
    ASSUME AppTypeOK, DnsIsLast
    PROVE  DnsPanelNewest
<1> DEFINE n == Len(dnsLog)
           m == IF n <= DnsKept THEN n ELSE DnsKept
           r == Reverse(dns_results)
<1>1. n \in Nat /\ DnsKept \in Nat /\ m \in Nat /\ m <= n
  BY AppAssumption DEF AppTypeOK
<1>2. dns_results = [k \in 1..m |-> dnsLog[n - m + k]]
  BY DEF DnsIsLast
<1> HIDE DEF n, m
<1>3. dns_results \in Seq(DnsResults) /\ Len(dns_results) = m
  BY <1>1, <1>2 DEF AppTypeOK
<1>4. /\ r \in Seq(DnsResults) /\ Len(r) = m
      /\ \A k \in 1..m : r[k] = dnsLog[n + 1 - k]
  <2>1. r = [k \in 1..m |-> dns_results[(m - k) + 1]]
    BY <1>3 DEF Reverse
  <2>2. ASSUME NEW k \in 1..m
        PROVE  r[k] \in DnsResults /\ r[k] = dnsLog[n + 1 - k]
    <3>1. (m - k) + 1 \in 1..m /\ n - m + ((m - k) + 1) = n + 1 - k
      BY <1>1
    <3>2. r[k] = dns_results[(m - k) + 1]
      BY <2>1
    <3>3. dns_results[(m - k) + 1] = dnsLog[n + 1 - k]
      BY <1>2, <3>1
    <3>4. dns_results[(m - k) + 1] \in DnsResults
      BY <1>3, <3>1
    <3> QED
      BY <3>2, <3>3, <3>4
  <2>3. r \in [1..m -> DnsResults]
    BY <2>1, <2>2
  <2> HIDE DEF r
  <2>4. r \in Seq(DnsResults) /\ Len(r) = m
    BY <1>1, <2>3
  <2> QED
    BY <2>2, <2>4
<1> HIDE DEF r
<1>5. /\ NewestFirst \in Seq(DnsResults) /\ Len(NewestFirst) <= m
      /\ \A k \in 1..Len(NewestFirst) : NewestFirst[k] = r[k]
  <2>1. PICK c \in Nat : c = AtMost(DnsRows, m) /\ c <= m
    BY <1>1, PanelsAssumption DEF AtMost
  <2>2. NewestFirst = SubSeq(r, 1, c)
    BY <1>3, <2>1 DEF NewestFirst, r
  <2>3. SubSeq(r, 1, c) \in Seq(DnsResults) /\ Len(SubSeq(r, 1, c)) = c
    BY <1>4, <2>1
  <2> QED
    BY <1>4, <2>1, <2>2, <2>3, SubSeqAt
<1>6. ASSUME NEW height \in Heights, NEW k \in DOMAIN DnsPanel(height)
      PROVE  DnsPanel(height)[k] = dnsLog[n + 1 - k]
  <2>1. PICK l \in Nat : l = Len(NewestFirst)
    BY <1>5
  <2>2. height \in Int
    BY PanelsAssumption
  <2>3. PICK c \in Nat : /\ c = AtMost(IF height < 3 THEN 0 ELSE height - 3, l)
                         /\ c <= l
    BY <2>1, <2>2 DEF AtMost
  <2>4. DnsPanel(height) = SubSeq(NewestFirst, 1, c)
    BY <2>1, <2>3 DEF DnsPanel
  <2>5. DOMAIN SubSeq(NewestFirst, 1, c) = 1..c
    BY <1>5, <2>1, <2>3
  <2>6. k \in 1..c
    BY <2>4, <2>5
  <2>7. DnsPanel(height)[k] = NewestFirst[k]
    BY <1>5, <2>1, <2>3, <2>4, <2>6, SubSeqAt
  <2>8. k \in 1..l /\ k \in 1..m
    BY <1>1, <1>5, <2>1, <2>3, <2>6
  <2>9. NewestFirst[k] = r[k] /\ r[k] = dnsLog[n + 1 - k]
    BY <1>4, <1>5, <2>1, <2>8
  <2> QED
    BY <2>7, <2>9
<1> QED
  BY <1>6 DEF DnsPanelNewest, n

(* What is drawn is what was measured, at any size of the terminal: the     *)
(* count has its place from 14 rows and 84 columns on, and where it has not *)
(* nothing is shown, or the digits before the edge.                         *)
THEOREM PanelsAreTrue == AppSpec => []PanelsTell
<1>1. /\ AppTypeOK /\ WindowIsLast /\ AlertInv /\ EventsAlternate /\ DnsIsLast /\ PanelInv
      => PanelsTell
  BY PingPanelIsTrue, FooterIsTrue, DnsPanelIsTrue DEF PanelsTell
<1> QED
  BY <1>1, PanelInit, PanelStep, AlertInit, AlertStep, AppTypeCorrect, WindowsAreLast,
     EventsAreAlternating, DnsPanelIsLast, PTL DEF AppSpec
==============================================================================
