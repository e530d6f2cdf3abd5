--------------------------- MODULE IcmpProbeProofs ---------------------------
(***************************************************************************)
(* Theorems about IcmpProbe, for every number of hosts and probes, every    *)
(* width of SEQ and every choice of the times.                              *)
(***************************************************************************)
EXTENDS MCIcmpProbe, FiniteSums, SequenceTheorems, TLAPS

LEMMA RecvTimeoutType == RecvTimeout \in Nat /\ (Timeout > 0 => RecvTimeout > 0)
BY ConstantsAssumption DEF RecvTimeout

LEMMA LaterType == ASSUME NEW t \in Durations PROVE Later(t) \in Durations
BY RecvTimeoutType, ConstantsAssumption DEF Later, Durations

LEMMA ZeroDuration == 0 \in Durations
BY RecvTimeoutType, ConstantsAssumption DEF Durations

LEMMA NextCases ==
    ASSUME Next
    PROVE  \/ \E h \in Hosts : \/ Resolve(h) \/ OpenSocket(h) \/ DrawSeq(h) \/ Send(h)
                               \/ RecvTimedOut(h) \/ StartTcp(h) \/ TcpDone(h)
                               \/ Report(h) \/ Wake(h)
                               \/ \E r \in inbox[h] : AcceptReply(h, r)
                               \/ \E rest \in SUBSET inbox[h] : Dropped(h, rest)
           \/ \E r \in wire : Arrive(r)
           \/ Tick
BY DEF Next, Task, DropReply, DropStray

(* Each assignment of an action keeps the type of what it assigns to. *)
LEMMA NothingType == NoProbe \in Probes /\ NoSample \in Samples
BY ZeroDuration, ConstantsAssumption DEF NoProbe, NoSample, Probes, Samples, Seqs

LEMMA DrawnType ==
    ASSUME NEW p \in Probes, NEW n \in Nat, NEW q \in Seqs
    PROVE  [p EXCEPT !.n = n, !.seq = q] \in Probes
BY DEF Probes

LEMMA RestartType ==
    ASSUME NEW p \in Probes
    PROVE  [p EXCEPT !.waited = 0] \in Probes /\ [p EXCEPT !.elapsed = 0] \in Probes
BY ZeroDuration DEF Probes

LEMMA WaitedType ==
    ASSUME NEW p \in Probes
    PROVE  /\ [p EXCEPT !.elapsed = Later(@), !.waited = Later(@), !.spent = Later(@)] \in Probes
           /\ [p EXCEPT !.elapsed = Later(@), !.spent = Later(@)] \in Probes
<1>1. /\ Later(p.elapsed) \in Durations
      /\ Later(p.waited) \in Durations
      /\ Later(p.spent) \in Durations
  BY LaterType DEF Probes
<1> QED
  BY <1>1 DEF Probes

LEMMA SampleType ==
    ASSUME NEW p \in Probes, NEW n \in Nat, NEW via \in {"icmp", "tcp"}
    PROVE  [via |-> via, rtt |-> p.elapsed, reply |-> n] \in Samples
BY DEF Probes, Samples

LEMMA CarriedType ==
    ASSUME NEW p \in Probes PROVE [n |-> p.n, seq |-> p.seq, age |-> 0] \in Carried
BY ConstantsAssumption DEF Probes, Carried

LEMMA AgedType ==
    ASSUME NEW r \in Carried, r.age < ReplyLife PROVE Aged(r) \in Carried
<1>1. Aged(r) = [n |-> r.n, seq |-> r.seq, age |-> r.age + 1]
  BY DEF Aged, Carried
<1> QED
  BY <1>1, ConstantsAssumption DEF Carried

LEMMA DeliveredType ==
    ASSUME NEW r \in Carried PROVE [n |-> r.n, seq |-> r.seq] \in Replies
BY DEF Carried, Replies

------------------------------------------------------------------------------
(* Every variable keeps its type. *)
THEOREM TypeCorrect == Spec => []TypeOK
<1>1. Init => TypeOK
  <2>1. 1 \in Seqs /\ 0 \in 0..Interval /\ "resolve" \in Places
    BY ConstantsAssumption DEF Seqs, Places
  <2> QED
    BY <2>1, NothingType DEF Init, TypeOK
<1>2. TypeOK /\ [Next]_vars => TypeOK'
  <2> SUFFICES ASSUME TypeOK, Next PROVE TypeOK'
    BY DEF TypeOK, vars
  <2>1. ASSUME NEW h \in Hosts, Resolve(h) PROVE TypeOK'
    BY <2>1, NothingType DEF TypeOK, Resolve, Goto, Fail, Places
  <2>2. ASSUME NEW h \in Hosts, OpenSocket(h) PROVE TypeOK'
    BY <2>2 DEF TypeOK, OpenSocket, Goto, Places
  <2>3. ASSUME NEW h \in Hosts, DrawSeq(h) PROVE TypeOK'
    <3>1. probe' = [probe EXCEPT ![h] = [probe[h] EXCEPT !.n = issued, !.seq = seq]]
      BY <2>3 DEF TypeOK, DrawSeq, Probes
    <3>2. seq' \in Seqs
      BY <2>3, ConstantsAssumption DEF TypeOK, DrawSeq, NextSeq, Seqs
    <3>3. probe' \in [Hosts -> Probes]
      BY <3>1, DrawnType DEF TypeOK
    <3> QED
      BY <2>3, <3>2, <3>3 DEF TypeOK, DrawSeq, Goto, Places
  <2>4. ASSUME NEW h \in Hosts, Send(h) PROVE TypeOK'
    BY <2>4, CarriedType DEF TypeOK, Send, Goto, Close, Places
  <2>5. ASSUME NEW h \in Hosts, NEW r \in inbox[h], AcceptReply(h, r) PROVE TypeOK'
    <3>1. r.n \in Nat
      <4>1. r \in Replies
        BY DEF TypeOK
      <4> QED
        BY <4>1 DEF Replies
    <3> QED
      BY <2>5, <3>1, SampleType DEF TypeOK, AcceptReply, Goto, Close, Places
  <2>6. ASSUME NEW h \in Hosts, NEW rest \in SUBSET inbox[h], Dropped(h, rest) PROVE TypeOK'
    <3>1. probe' \in [Hosts -> Probes]
      <4>1. CASE probe' = [probe EXCEPT ![h].waited = 0]
        <5>1. probe' = [probe EXCEPT ![h] = [probe[h] EXCEPT !.waited = 0]]
          BY <4>1 DEF TypeOK, Probes
        <5> QED
          BY <5>1, RestartType DEF TypeOK
      <4> QED
        BY <2>6, <4>1 DEF TypeOK, Dropped
    <3>2. inbox' \in [Hosts -> SUBSET Replies] /\ pc' \in [Hosts -> Places]
      BY <2>6 DEF TypeOK, Dropped, Goto, Close, Places
    <3> QED
      BY <2>6, <3>1, <3>2 DEF TypeOK, Dropped
  <2>7. ASSUME NEW h \in Hosts, RecvTimedOut(h) PROVE TypeOK'
    BY <2>7 DEF TypeOK, RecvTimedOut, Goto, Close, Places
  <2>8. ASSUME NEW h \in Hosts, StartTcp(h) PROVE TypeOK'
    <3>1. probe' = [probe EXCEPT ![h] = [probe[h] EXCEPT !.elapsed = 0]]
      BY <2>8 DEF TypeOK, StartTcp, Probes
    <3>2. probe' \in [Hosts -> Probes]
      BY <3>1, RestartType DEF TypeOK
    <3> QED
      BY <2>8, <3>2 DEF TypeOK, StartTcp, Goto, Places
  <2>9. ASSUME NEW h \in Hosts, TcpDone(h) PROVE TypeOK'
    <3>1. [via |-> "tcp", rtt |-> probe[h].elapsed, reply |-> 0] \in Samples
      BY SampleType DEF TypeOK
    <3> QED
      BY <2>9, <3>1, NothingType DEF TypeOK, TcpDone, Goto, Fail, Places
  <2>10. ASSUME NEW h \in Hosts, Report(h) PROVE TypeOK'
    BY <2>10, ConstantsAssumption DEF TypeOK, Report, Goto, Places
  <2>11. ASSUME NEW h \in Hosts, Wake(h) PROVE TypeOK'
    BY <2>11 DEF TypeOK, Wake, Goto, Places
  <2>12. ASSUME NEW r \in wire, Arrive(r) PROVE TypeOK'
    BY <2>12, DeliveredType DEF TypeOK, Arrive
  <2>13. CASE Tick
    <3>1. probe' \in [Hosts -> Probes]
      BY <2>13, WaitedType DEF TypeOK, Tick, Waited
    <3>2. wire' \subseteq Carried
      BY <2>13, AgedType DEF TypeOK, Tick
    <3>3. slept' \in [Hosts -> 0..Interval]
      BY <2>13, ConstantsAssumption DEF TypeOK, Tick
    <3> QED
      BY <2>13, <3>1, <3>2, <3>3 DEF TypeOK, Tick
  <2> QED
    BY NextCases, <2>1, <2>2, <2>3, <2>4, <2>5, <2>6, <2>7, <2>8, <2>9, <2>10, <2>11,
       <2>12, <2>13
<1> QED
  BY <1>1, <1>2, PTL DEF Spec

------------------------------------------------------------------------------
(* The sequence number of the probe that drew its number after n others. *)
SeqOf(n) == (n + 1) % SeqMod

LEMMA FactorUnique ==
    ASSUME NEW m \in Nat, NEW k \in Int, NEW l \in Int, k < l
    PROVE  m * k + m <= m * l
<1>1. PICK d \in Nat : l = k + 1 + d
  <2>1. l - k - 1 \in Nat /\ l = k + 1 + (l - k - 1)
    OBVIOUS
  <2> QED
    BY <2>1
<1>2. m * l = m * k + m + m * d
  BY <1>1
<1>3. m * d >= 0
  OBVIOUS
<1> QED
  BY <1>2, <1>3

(* A quotient and a remainder are those of the division. *)
LEMMA ModUnique ==
    ASSUME NEW m \in Nat, m > 1, NEW q \in Int, NEW r \in 0..(m - 1)
    PROVE  (m * q + r) % m = r
<1> DEFINE y == m * q + r
           p == y \div m
           s == y % m
<1>1. p \in Int /\ s \in 0..(m - 1) /\ y = m * p + s
  OBVIOUS
<1>2. ~(p < q) /\ ~(q < p)
  <2> HIDE DEF p, s
  <2>1. m * q + r = m * p + s
    BY <1>1
  <2> QED
    BY <1>1, <2>1, FactorUnique
<1> HIDE DEF p, s, y
<1>3. p = q
  BY <1>1, <1>2
<1>4. m * p + s = m * q + r
  BY <1>1 DEF y
<1>5. s = r
  BY <1>1, <1>3, <1>4
<1> QED
  BY <1>5 DEF s, y

LEMMA ModNext ==
    ASSUME NEW m \in Nat, m > 1, NEW x \in Nat
    PROVE  (x + 1) % m = IF x % m = m - 1 THEN 0 ELSE (x % m) + 1
<1> DEFINE p == x \div m
           s == x % m
<1>1. p \in Int /\ s \in 0..(m - 1) /\ x = m * p + s
  OBVIOUS
<1> HIDE DEF p, s
<1>2. CASE s = m - 1
  <2>1. x + 1 = m * (p + 1) + 0
    BY <1>1, <1>2
  <2>2. (m * (p + 1) + 0) % m = 0
    BY <1>1, ModUnique
  <2> QED
    BY <1>2, <2>1, <2>2 DEF s
<1>3. CASE s # m - 1
  <2>1. x + 1 = m * p + (s + 1) /\ s + 1 \in 0..(m - 1)
    BY <1>1, <1>3
  <2> QED
    BY <1>1, <1>3, <2>1, ModUnique DEF s
<1> QED
  BY <1>2, <1>3

LEMMA ModApart ==
    ASSUME NEW m \in Nat, m > 1, NEW x \in Nat, NEW y \in Nat,
           x % m = y % m, x - y < m, y - x < m
    PROVE  x = y
<1> DEFINE p == x \div m
           q == y \div m
           s == x % m
<1>1. /\ p \in Int /\ q \in Int /\ s \in Int
      /\ x = m * p + s /\ y = m * q + s
  OBVIOUS
<1> HIDE DEF p, q, s
<1>2. ~(p < q) /\ ~(q < p)
  BY <1>1, FactorUnique
<1> QED
  BY <1>1, <1>2

(* Every sequence number in the system is the one its count stands for. *)
Numbered ==
    /\ seq = SeqOf(issued)
    /\ \A h \in Hosts : pc[h] \in {"send", "recv"} => probe[h].seq = SeqOf(probe[h].n)
    /\ \A h \in Hosts : \A r \in inbox[h] : r.seq = SeqOf(r.n)
    /\ \A r \in wire : r.seq = SeqOf(r.n)

LEMMA NumberedStep == TypeOK /\ Numbered /\ [Next]_vars => Numbered'
<1> SUFFICES ASSUME TypeOK, Numbered, Next PROVE Numbered'
  BY DEF Numbered, vars
<1>1. ASSUME NEW h \in Hosts, Resolve(h) PROVE Numbered'
  BY <1>1 DEF TypeOK, Numbered, Resolve, Goto
<1>2. ASSUME NEW h \in Hosts, OpenSocket(h) PROVE Numbered'
  BY <1>2 DEF TypeOK, Numbered, OpenSocket, Goto
<1>3. ASSUME NEW h \in Hosts, DrawSeq(h) PROVE Numbered'
  <2>1. seq' = SeqOf(issued')
    <3>1. issued + 1 \in Nat
      BY DEF TypeOK
    <3> QED
      BY <1>3, <3>1, ModNext, ConstantsAssumption DEF Numbered, DrawSeq, NextSeq, SeqOf
  <2>2. ASSUME NEW g \in Hosts, pc'[g] \in {"send", "recv"}
        PROVE  probe'[g].seq = SeqOf(probe'[g].n)
    BY <1>3, <2>2 DEF TypeOK, Numbered, DrawSeq, Goto, Probes
  <2> QED
    BY <1>3, <2>1, <2>2 DEF Numbered, DrawSeq
<1>4. ASSUME NEW h \in Hosts, Send(h) PROVE Numbered'
  BY <1>4 DEF TypeOK, Numbered, Send, Goto, Close
<1>5. ASSUME NEW h \in Hosts, NEW r \in inbox[h], AcceptReply(h, r) PROVE Numbered'
  BY <1>5 DEF TypeOK, Numbered, AcceptReply, Goto, Close
<1>6. ASSUME NEW h \in Hosts, NEW rest \in SUBSET inbox[h], Dropped(h, rest) PROVE Numbered'
  <2>1. \A g \in Hosts : probe'[g].seq = probe[g].seq /\ probe'[g].n = probe[g].n
    BY <1>6 DEF TypeOK, Dropped, Probes
  <2>2. \A g \in Hosts : inbox'[g] \subseteq inbox[g] /\ (pc'[g] # "connect" => pc'[g] = pc[g])
    BY <1>6 DEF TypeOK, Dropped, Goto, Close
  <2> QED
    BY <1>6, <2>1, <2>2 DEF Numbered, Dropped
<1>7. ASSUME NEW h \in Hosts, RecvTimedOut(h) PROVE Numbered'
  BY <1>7 DEF TypeOK, Numbered, RecvTimedOut, Goto, Close
<1>8. ASSUME NEW h \in Hosts, StartTcp(h) PROVE Numbered'
  BY <1>8 DEF TypeOK, Numbered, StartTcp, Goto
<1>9. ASSUME NEW h \in Hosts, TcpDone(h) \/ Report(h) \/ Wake(h) PROVE Numbered'
  BY <1>9 DEF TypeOK, Numbered, TcpDone, Report, Wake, Goto
<1>10. ASSUME NEW r \in wire, Arrive(r) PROVE Numbered'
  BY <1>10 DEF TypeOK, Numbered, Arrive
<1>11. CASE Tick
  <2>1. \A h \in Hosts : probe'[h].seq = probe[h].seq /\ probe'[h].n = probe[h].n
    BY <1>11 DEF TypeOK, Tick, Waited, Probes
  <2>2. \A r \in wire' : r.seq = SeqOf(r.n)
    <3>1. \A r \in wire : Aged(r).seq = r.seq /\ Aged(r).n = r.n
      BY DEF TypeOK, Carried, Aged
    <3> QED
      BY <1>11, <3>1 DEF Numbered, Tick
  <2> QED
    BY <1>11, <2>1, <2>2 DEF Numbered, Tick
<1> QED
  BY NextCases, <1>1, <1>2, <1>3, <1>4, <1>5, <1>6, <1>7, <1>8, <1>9, <1>10, <1>11

LEMMA NumberedInit == Init => Numbered
BY ConstantsAssumption DEF Init, Numbered, SeqOf

LEMMA NumberedIsOwn == TypeOK /\ Numbered => OwnReplyWithinWrap
<1> SUFFICES ASSUME TypeOK, Numbered,
                    NEW h \in Hosts, NEW r \in inbox[h], pc[h] = "recv",
                    IsValid(r, probe[h]),
                    r.n - probe[h].n < SeqMod, probe[h].n - r.n < SeqMod
             PROVE  r.n = probe[h].n
  BY DEF OwnReplyWithinWrap
<1>1. r.n \in Nat /\ probe[h].n \in Nat
  <2>1. r \in Replies /\ probe[h] \in Probes
    BY DEF TypeOK
  <2> QED
    BY <2>1 DEF Replies, Probes
<1>2. (r.n + 1) % SeqMod = (probe[h].n + 1) % SeqMod
  BY DEF Numbered, IsValid, SeqOf
<1> QED
  BY <1>1, <1>2, ModApart, ConstantsAssumption

(* A probe can only be confused with one SeqMod or more numbers away. *)
THEOREM RepliesAreOwnWithinWrap == Spec => []OwnReplyWithinWrap
BY NumberedInit, NumberedStep, NumberedIsOwn, TypeCorrect, PTL DEF Spec
------------------------------------------------------------------------------
(* How long a probe has waited, place by place.  In "recv" the present      *)
(* recv_from began before the deadline; on the way to the connect and in it *)
(* what was waited for ICMP is under twice its timeout.                     *)
Fresh(p) == p.elapsed = 0 /\ p.waited = 0 /\ p.spent = 0

Clocked(where, p) ==
    /\ where \in {"open", "draw", "send"} => Fresh(p)
    /\ where = "recv" => /\ p.spent = p.elapsed
                         /\ p.waited <= RecvTimeout
                         /\ p.waited <= p.elapsed
                         /\ p.elapsed - p.waited < RecvTimeout
    /\ where = "connect" => p.spent < 2 * RecvTimeout
    /\ where = "tcp" => p.elapsed <= Timeout /\ p.spent - p.elapsed < 2 * RecvTimeout
    /\ where \in {"report", "sleep", "resolve"} => p.spent < 2 * RecvTimeout + Timeout

AllClocked == \A h \in Hosts : Clocked(pc[h], probe[h])

(* In every place the probe's time is within the bounds of WaitBounded. *)
LEMMA ClockedIsBounded ==
    ASSUME Timeout > 0, TypeOK, AllClocked
    PROVE  WaitBounded /\ \A h \in Hosts : probe[h].spent < 2 * RecvTimeout + Timeout
<1>1. ASSUME NEW h \in Hosts
      PROVE  /\ pc[h] = "recv" => probe[h].elapsed < 2 * RecvTimeout
             /\ probe[h].spent < 2 * RecvTimeout + Timeout
  <2>1. pc[h] \in Places /\ probe[h] \in Probes /\ Clocked(pc[h], probe[h])
    BY DEF TypeOK, AllClocked
  <2> QED
    BY <2>1, RecvTimeoutType, ConstantsAssumption
       DEF Clocked, Fresh, Places, Probes, Durations
<1> QED
  BY <1>1 DEF WaitBounded

(* A step that moves one host keeps the others' clocks. *)
LEMMA OneMoves ==
    ASSUME TypeOK, TypeOK', AllClocked, NEW h \in Hosts,
           \A g \in Hosts \ {h} : pc'[g] = pc[g] /\ probe'[g] = probe[g],
           Clocked(pc'[h], probe'[h])
    PROVE  AllClocked'
BY DEF AllClocked

(* A second of waiting keeps Clocked where Tick may happen. *)
LEMMA TickKeepsClocked ==
    ASSUME Timeout > 0, TypeOK, Tick, NEW h \in Hosts, Clocked(pc[h], probe[h])
    PROVE  Clocked(pc[h], Waited(h))
<1>1. /\ probe[h] \in Probes
      /\ RecvTimeout \in Nat /\ RecvTimeout > 0
      /\ Timeout \in Nat
  BY RecvTimeoutType, ConstantsAssumption DEF TypeOK
<1>2. CASE pc[h] = "recv"
  <2>1. probe[h].waited < RecvTimeout
    BY <1>1, <1>2 DEF Tick, ReadExpired, Probes, Durations
  <2>2. /\ Waited(h).elapsed = probe[h].elapsed + 1
        /\ Waited(h).waited = probe[h].waited + 1
        /\ Waited(h).spent = probe[h].spent + 1
    <3>1. \A t \in Durations : t < 2 * RecvTimeout => Later(t) = t + 1
      BY <1>1 DEF Later, Durations
    <3>2. /\ probe[h].elapsed < 2 * RecvTimeout
          /\ probe[h].waited < 2 * RecvTimeout
          /\ probe[h].spent < 2 * RecvTimeout
      BY <1>1, <1>2, <2>1 DEF Clocked, Probes, Durations
    <3>3. Waited(h) = [probe[h] EXCEPT !.elapsed = Later(@), !.waited = Later(@),
                                       !.spent = Later(@)]
      BY <1>2 DEF Waited
    <3> QED
      BY <1>1, <3>1, <3>2, <3>3 DEF Probes
  <2> QED
    BY <1>1, <1>2, <2>1, <2>2 DEF Clocked, Probes, Durations
<1>3. CASE pc[h] = "tcp"
  <2>1. probe[h].elapsed < Timeout
    BY <1>3 DEF Tick
  <2>2. /\ Waited(h).elapsed = probe[h].elapsed + 1
        /\ Waited(h).spent <= probe[h].spent + 1
        /\ Waited(h).spent \in Nat
    <3>1. /\ Later(probe[h].elapsed) = probe[h].elapsed + 1
          /\ Later(probe[h].spent) <= probe[h].spent + 1
          /\ Later(probe[h].spent) \in Nat
      BY <1>1, <2>1 DEF Later, Probes, Durations
    <3>2. Waited(h) = [probe[h] EXCEPT !.elapsed = Later(@), !.spent = Later(@)]
      BY <1>3 DEF Waited
    <3> QED
      BY <1>1, <3>1, <3>2 DEF Probes
  <2> QED
    BY <1>1, <1>3, <2>1, <2>2 DEF Clocked, Probes, Durations
<1>4. CASE pc[h] \notin {"recv", "tcp"}
  BY <1>4 DEF Waited
<1> QED
  BY <1>2, <1>3, <1>4

LEMMA ClockedStep ==
    ASSUME Timeout > 0, TypeOK, TypeOK', AllClocked, [Next]_vars
    PROVE  AllClocked'
<1> SUFFICES ASSUME Next PROVE AllClocked'
  BY DEF AllClocked, vars
<1> USE RecvTimeoutType, ConstantsAssumption
<1>1. ASSUME NEW h \in Hosts,
             \/ Resolve(h) \/ OpenSocket(h) \/ DrawSeq(h) \/ Send(h) \/ RecvTimedOut(h)
             \/ StartTcp(h) \/ TcpDone(h) \/ Report(h) \/ Wake(h)
             \/ \E r \in inbox[h] : AcceptReply(h, r)
             \/ \E rest \in SUBSET inbox[h] : Dropped(h, rest)
      PROVE  AllClocked'
  <2>1. /\ probe[h] \in Probes /\ probe'[h] \in Probes
        /\ Clocked(pc[h], probe[h])
        /\ probe[h].spent < 2 * RecvTimeout + Timeout
    BY ClockedIsBounded DEF TypeOK, AllClocked
  <2>2. \A g \in Hosts \ {h} : pc'[g] = pc[g] /\ probe'[g] = probe[g]
    BY <1>1 DEF TypeOK, Resolve, OpenSocket, DrawSeq, Send, RecvTimedOut, StartTcp, TcpDone,
                Report, Wake, AcceptReply, Dropped, Goto
  <2>3. CASE Resolve(h)
    BY <2>1, <2>2, <2>3, OneMoves DEF TypeOK, Resolve, Goto, NoProbe, Clocked, Fresh
  <2>4. CASE OpenSocket(h)
    BY <2>1, <2>2, <2>4, OneMoves DEF TypeOK, OpenSocket, Goto, Clocked, Fresh
  <2>5. CASE DrawSeq(h)
    <3>1. /\ pc[h] = "draw" /\ pc'[h] = "send"
          /\ probe'[h].elapsed = probe[h].elapsed
          /\ probe'[h].waited = probe[h].waited
          /\ probe'[h].spent = probe[h].spent
      BY <2>1, <2>5 DEF TypeOK, DrawSeq, Goto, Probes
    <3> QED
      BY <2>1, <2>2, <3>1, OneMoves DEF Clocked, Fresh
  <2>6. CASE Send(h)
    BY <2>1, <2>2, <2>6, OneMoves DEF TypeOK, Send, Goto, Clocked, Fresh
  <2>7. CASE RecvTimedOut(h)
    <3>1. pc[h] = "recv" /\ pc'[h] = "connect" /\ probe'[h] = probe[h]
      BY <2>7 DEF TypeOK, RecvTimedOut, Goto
    <3>2. probe[h].spent < 2 * RecvTimeout
      BY <2>1, <3>1 DEF Clocked, Probes, Durations
    <3> QED
      BY <2>2, <3>1, <3>2, OneMoves DEF Clocked
  <2>8. CASE \E rest \in SUBSET inbox[h] : Dropped(h, rest)
    <3>1. CASE PastDeadline(probe[h])
      <4>1. pc[h] = "recv" /\ pc'[h] = "connect" /\ probe'[h] = probe[h]
        BY <2>8, <3>1 DEF TypeOK, Dropped, Goto
      <4>2. probe[h].spent < 2 * RecvTimeout
        BY <2>1, <4>1 DEF Clocked, Probes, Durations
      <4> QED
        BY <2>2, <4>1, <4>2, OneMoves DEF Clocked
    <3>2. CASE ~PastDeadline(probe[h])
      <4>1. /\ pc[h] = "recv" /\ pc'[h] = "recv"
            /\ probe'[h].elapsed = probe[h].elapsed
            /\ probe'[h].waited = 0
            /\ probe'[h].spent = probe[h].spent
        BY <2>1, <2>8, <3>2 DEF TypeOK, Dropped, Probes
      <4>2. probe[h].elapsed < RecvTimeout
        BY <2>1, <3>2 DEF PastDeadline, Probes, Durations
      <4>3. Clocked(pc'[h], probe'[h])
        BY <2>1, <4>1, <4>2 DEF Clocked, Probes, Durations
      <4> QED
        BY <2>2, <4>3, OneMoves
    <3> QED
      BY <3>1, <3>2
  <2>9. CASE StartTcp(h)
    <3>1. /\ pc[h] = "connect" /\ pc'[h] = "tcp"
          /\ probe'[h].elapsed = 0
          /\ probe'[h].spent = probe[h].spent
      BY <2>1, <2>9 DEF TypeOK, StartTcp, Goto, Probes
    <3>2. Clocked(pc'[h], probe'[h])
      BY <2>1, <3>1 DEF Clocked, Probes, Durations
    <3> QED
      BY <2>2, <3>2, OneMoves
  <2>10. CASE TcpDone(h) \/ Report(h) \/ Wake(h) \/ \E r \in inbox[h] : AcceptReply(h, r)
    <3>1. pc'[h] \in {"report", "sleep", "resolve"} /\ probe'[h] = probe[h]
      BY <2>10 DEF TypeOK, TcpDone, Report, Wake, AcceptReply, Goto
    <3>2. Clocked(pc'[h], probe'[h])
      BY <2>1, <3>1 DEF Clocked
    <3> QED
      BY <2>2, <3>2, OneMoves
  <2> QED
    BY <1>1, <2>3, <2>4, <2>5, <2>6, <2>7, <2>8, <2>9, <2>10
<1>2. ASSUME NEW r \in wire, Arrive(r) PROVE AllClocked'
  BY <1>2 DEF Arrive, AllClocked
<1>3. CASE Tick
  <2>1. \A h \in Hosts : pc'[h] = pc[h] /\ probe'[h] = Waited(h)
    BY <1>3 DEF Tick
  <2> QED
    BY <1>3, <2>1, TickKeepsClocked DEF AllClocked
<1> QED
  BY NextCases, <1>1, <1>2, <1>3

(* A restarting read timeout and a deadline seen only on arrivals bound the *)
(* wait by twice the timeout.                                               *)
THEOREM WaitsAreBounded == Spec => []WaitBounded
<1>1. CASE Timeout > 0
  <2>1. Init => AllClocked
    BY <1>1, RecvTimeoutType, ConstantsAssumption DEF Init, AllClocked, Clocked, NoProbe
  <2>2. TypeOK /\ TypeOK' /\ AllClocked /\ [Next]_vars => AllClocked'
    BY <1>1, ClockedStep
  <2>3. TypeOK /\ AllClocked => WaitBounded
    BY <1>1, ClockedIsBounded
  <2> QED
    BY <2>1, <2>2, <2>3, TypeCorrect, PTL DEF Spec
<1>2. CASE ~(Timeout > 0)
  <2>1. WaitBounded
    BY <1>2 DEF WaitBounded
  <2> QED
    BY <2>1, PTL
<1> QED
  BY <1>1, <1>2
------------------------------------------------------------------------------
(* Between two ticks a task draws at most one number, for it then sleeps:   *)
(* the hosts of Done draw none before the next tick.  So at most K numbers  *)
(* are drawn in a tick, and Slack is the count of those still to come less  *)
(* K and less the numbers drawn.                                            *)
K == Cardinality(Hosts)

HasDrawn(where, time) ==
    \/ where \in {"send", "recv", "connect", "tcp", "report"}
    \/ where = "sleep" /\ time < Interval

Done == {h \in Hosts : HasDrawn(pc[h], slept[h])}
Slack == Cardinality(Done) - issued

(* The number n was drawn at most `age` full ticks ago. *)
Young(n, age, slack) == n + K * age + slack >= 0

(* What a task knows of the replies in its box when n numbers are drawn:    *)
(* none is from the future, none that it may look at is K * (ReplyLife + 1) *)
(* numbers older than its own.                                              *)
Known(where, p, box, n, slack) ==
    /\ where \notin {"draw", "send", "recv"} => box = {}
    /\ \A r \in box : r.n < n
    /\ where = "draw" => \A r \in box : Young(r.n, ReplyLife, slack)
    /\ where \in {"send", "recv"} =>
          /\ p.n < n
          /\ Young(p.n, p.elapsed, slack)
          /\ \A r \in box : p.n - r.n < K * ReplyLife + K

Own(where, s, p) == where = "report" /\ s.via = "icmp" => s.reply = p.n

Recent ==
    /\ \A r \in wire : r.n < issued /\ Young(r.n, r.age, Slack)
    /\ \A h \in Hosts : /\ Known(pc[h], probe[h], inbox[h], issued, Slack)
                        /\ Own(pc[h], sample[h], probe[h])

LEMMA RecentTypes ==
    ASSUME TypeOK, IsFiniteSet(Hosts)
    PROVE  /\ K \in Nat /\ issued \in Nat /\ Slack \in Int
           /\ 0 <= Slack + issued /\ Slack + issued <= K
           /\ IsFiniteSet(Done)
<1>1. IsFiniteSet(Done) /\ Cardinality(Done) <= Cardinality(Hosts)
  BY FS_Subset DEF Done
<1>2. Cardinality(Done) \in Nat /\ Cardinality(Hosts) \in Nat
  BY <1>1, FS_CardinalityType
<1> QED
  BY <1>1, <1>2 DEF TypeOK, K, Slack

LEMMA ProbeTypes ==
    ASSUME NEW p \in Probes
    PROVE  p.n \in Nat /\ p.elapsed \in Nat
BY RecvTimeoutType, ConstantsAssumption DEF Probes, Durations

(* More numbers drawn, or fewer to come: what was known stays known. *)
LEMMA KnownLater ==
    ASSUME K \in Nat, NEW where, NEW p \in Probes, NEW box \in SUBSET Replies,
           NEW m \in Nat, NEW n \in Nat, m <= n,
           NEW s \in Int, NEW t \in Int, s <= t,
           Known(where, p, box, m, s)
    PROVE  Known(where, p, box, n, t)
<1>1. \A a \in Nat, e \in Nat : Young(a, e, s) => Young(a, e, t)
  <2> SUFFICES ASSUME NEW a \in Nat, NEW e \in Nat, Young(a, e, s) PROVE Young(a, e, t)
    OBVIOUS
  <2>1. K * e \in Int
    OBVIOUS
  <2> QED
    BY <2>1 DEF Young
<1>2. \A r \in box : r.n \in Nat
  BY DEF Replies
<1>3. p.n \in Nat /\ p.elapsed \in Nat /\ ReplyLife \in Nat
  BY ProbeTypes, ConstantsAssumption
<1> QED
  BY <1>1, <1>2, <1>3 DEF Known

LEMMA SlackGrows ==
    ASSUME TypeOK, TypeOK', IsFiniteSet(Hosts), issued' = issued, Done \subseteq Done'
    PROVE  Slack <= Slack' /\ Slack' \in Int
<1>1. Done' \subseteq Hosts
  BY DEF Done
<1>2. IsFiniteSet(Done') /\ Cardinality(Done) <= Cardinality(Done')
  BY <1>1, FS_Subset
<1>3. Cardinality(Done) \in Nat /\ Cardinality(Done') \in Nat /\ issued \in Nat
  BY <1>2, FS_Subset, FS_CardinalityType DEF TypeOK
<1> QED
  BY <1>2, <1>3 DEF Slack

(* A step of one task that draws no number. *)
LEMMA TaskKeepsRecent ==
    ASSUME TypeOK, TypeOK', IsFiniteSet(Hosts), Recent, NEW h \in Hosts,
           issued' = issued,
           HasDrawn(pc[h], slept[h]) => HasDrawn(pc'[h], slept'[h]),
           \A g \in Hosts \ {h} : /\ pc'[g] = pc[g] /\ probe'[g] = probe[g]
                                  /\ inbox'[g] = inbox[g] /\ slept'[g] = slept[g]
                                  /\ sample'[g] = sample[g],
           \A r \in wire' : r \in wire \/ (r.n < issued /\ Young(r.n, r.age, Slack)),
           Known(pc'[h], probe'[h], inbox'[h], issued, Slack),
           Own(pc'[h], sample'[h], probe'[h])
    PROVE  Recent'
<1>1. Done \subseteq Done'
  BY DEF Done
<1>2. /\ K \in Nat /\ issued \in Nat /\ Slack \in Int
      /\ Slack' \in Int /\ Slack <= Slack'
  BY <1>1, RecentTypes, SlackGrows
<1>3. ASSUME NEW r \in wire' PROVE r.n < issued /\ Young(r.n, r.age, Slack')
  <2>1. r.n < issued /\ Young(r.n, r.age, Slack)
    BY DEF Recent
  <2>2. r.n \in Nat /\ r.age \in Nat
    <3>1. r \in Carried
      BY DEF TypeOK
    <3> QED
      BY <3>1, ConstantsAssumption DEF Carried
  <2>3. K * r.age \in Int
    BY <1>2, <2>2
  <2> QED
    BY <1>2, <2>1, <2>2, <2>3 DEF Young
<1>4. ASSUME NEW g \in Hosts
      PROVE  /\ Known(pc'[g], probe'[g], inbox'[g], issued, Slack')
             /\ Own(pc'[g], sample'[g], probe'[g])
  <2>1. /\ Known(pc'[g], probe'[g], inbox'[g], issued, Slack)
        /\ Own(pc'[g], sample'[g], probe'[g])
    <3>1. CASE g = h
      BY <3>1
    <3>2. CASE g # h
      BY <3>2 DEF Recent
    <3> QED
      BY <3>1, <3>2
  <2>2. probe'[g] \in Probes /\ inbox'[g] \in SUBSET Replies
    BY DEF TypeOK
  <2>3. Known(pc'[g], probe'[g], inbox'[g], issued, Slack')
    BY <1>2, <2>1, <2>2, KnownLater
  <2> QED
    BY <2>1, <2>3
<1> QED
  BY <1>3, <1>4 DEF Recent
(* DrawSeq: one number more is drawn, one fewer is still to come. *)
LEMMA DrawKeepsRecent ==
    ASSUME TypeOK, TypeOK', IsFiniteSet(Hosts), AllClocked, Recent,
           NEW h \in Hosts, DrawSeq(h)
    PROVE  Recent'
<1>1. /\ h \notin Done
      /\ Done' = Done \cup {h}
  BY DEF TypeOK, DrawSeq, Goto, Done, HasDrawn
<1>2. /\ K \in Nat /\ issued \in Nat /\ Slack \in Int
      /\ Slack' = Slack /\ issued' = issued + 1
      /\ Slack + issued <= K - 1
  <2>1. Cardinality(Done') = Cardinality(Done) + 1
    BY <1>1, RecentTypes, FS_AddElement
  <2>2. /\ Cardinality(Done) \in Nat
        /\ Cardinality(Done') <= Cardinality(Hosts)
    <3>1. Done' \subseteq Hosts
      BY DEF Done
    <3> QED
      BY <3>1, RecentTypes, FS_Subset, FS_CardinalityType
  <2>3. K \in Nat /\ issued \in Nat /\ issued' = issued + 1
    BY RecentTypes DEF DrawSeq
  <2> QED
    BY <2>1, <2>2, <2>3 DEF Slack, K
<1>3. ASSUME NEW r \in wire' PROVE r.n < issued' /\ Young(r.n, r.age, Slack')
  <2>1. r \in Carried /\ r.n < issued /\ Young(r.n, r.age, Slack)
    BY DEF TypeOK, Recent, DrawSeq
  <2> QED
    BY <1>2, <2>1 DEF Carried
<1>4. ASSUME NEW g \in Hosts \ {h}
      PROVE  /\ Known(pc'[g], probe'[g], inbox'[g], issued', Slack')
             /\ Own(pc'[g], sample'[g], probe'[g])
  <2>1. /\ pc'[g] = pc[g] /\ probe'[g] = probe[g]
        /\ inbox'[g] = inbox[g] /\ sample'[g] = sample[g]
    BY DEF TypeOK, DrawSeq, Goto
  <2>2. /\ Known(pc[g], probe[g], inbox[g], issued, Slack)
        /\ Own(pc[g], sample[g], probe[g])
    BY DEF Recent
  <2>3. /\ probe[g] \in Probes /\ inbox[g] \in SUBSET Replies
        /\ issued + 1 \in Nat /\ issued <= issued + 1 /\ Slack <= Slack
    BY <1>2 DEF TypeOK
  <2>4. Known(pc[g], probe[g], inbox[g], issued + 1, Slack)
    BY <1>2, <2>2, <2>3, KnownLater
  <2> QED
    BY <1>2, <2>1, <2>2, <2>4
<1>5. /\ Known(pc'[h], probe'[h], inbox'[h], issued', Slack')
      /\ Own(pc'[h], sample'[h], probe'[h])
  <2>1. /\ pc[h] = "draw" /\ pc'[h] = "send"
        /\ probe'[h].n = issued /\ probe'[h].elapsed = 0
        /\ inbox'[h] = inbox[h]
    <3>1. /\ pc[h] = "draw" /\ pc'[h] = "send" /\ inbox'[h] = inbox[h]
          /\ probe'[h] = [probe[h] EXCEPT !.n = issued, !.seq = seq]
      BY DEF TypeOK, DrawSeq, Goto
    <3>2. probe[h] \in Probes /\ probe[h].elapsed = 0
      BY <3>1 DEF TypeOK, AllClocked, Clocked, Fresh
    <3> QED
      BY <3>1, <3>2 DEF Probes
  <2>2. Young(issued, 0, Slack)
    BY <1>2, RecentTypes DEF Young
  <2>3. ASSUME NEW r \in inbox[h]
        PROVE  r.n < issued + 1 /\ issued - r.n < K * ReplyLife + K
    <3>1. r.n \in Nat
      <4>1. r \in Replies
        BY DEF TypeOK
      <4> QED
        BY <4>1 DEF Replies
    <3>2. r.n < issued /\ Young(r.n, ReplyLife, Slack)
      BY <2>1 DEF Recent, Known
    <3>3. K * ReplyLife \in Int
      BY <1>2, ConstantsAssumption
    <3> QED
      BY <1>2, <3>1, <3>2, <3>3 DEF Young
  <2> QED
    BY <1>2, <2>1, <2>2, <2>3 DEF Known, Own
<1> QED
  BY <1>3, <1>4, <1>5 DEF Recent

(* A reply that arrives is no older than ReplyLife. *)
LEMMA ArriveKeepsRecent ==
    ASSUME TypeOK, IsFiniteSet(Hosts), Recent, NEW r \in wire, Arrive(r)
    PROVE  Recent'
<1>1. /\ K \in Nat /\ issued \in Nat /\ Slack \in Int /\ Slack + issued <= K
      /\ issued' = issued /\ Slack' = Slack /\ wire' \subseteq wire
      /\ pc' = pc /\ probe' = probe /\ sample' = sample
  <2>1. Done' = Done
    BY DEF Arrive, Done
  <2> QED
    BY <2>1, RecentTypes DEF Arrive, Slack
<1>2. /\ r.n \in Nat /\ r.n < issued
      /\ K * ReplyLife \in Int /\ Young(r.n, ReplyLife, Slack)
  <2>1. /\ r.n \in Nat /\ r.age \in Nat /\ ReplyLife \in Nat /\ r.age <= ReplyLife
        /\ r.n < issued /\ Young(r.n, r.age, Slack)
    <3>1. r \in Carried
      BY DEF TypeOK
    <3> QED
      BY <3>1, ConstantsAssumption DEF Carried, Recent
  <2>2. PICK d \in Nat : ReplyLife = r.age + d
    <3>1. ReplyLife - r.age \in Nat /\ ReplyLife = r.age + (ReplyLife - r.age)
      BY <2>1
    <3> QED
      BY <3>1
  <2>3. /\ K * ReplyLife = K * r.age + K * d
        /\ K * r.age \in Int /\ K * d \in Nat
    BY <1>1, <2>1, <2>2
  <2> QED
    BY <1>1, <2>1, <2>3 DEF Young
<1>3. ASSUME NEW h \in Hosts
      PROVE  Known(pc[h], probe[h], inbox'[h], issued, Slack)
  <2>1. Known(pc[h], probe[h], inbox[h], issued, Slack) /\ probe[h].n \in Nat
    BY ProbeTypes DEF Recent, TypeOK
  <2>2. CASE ~Receiving(h)
    <3>1. inbox'[h] = inbox[h]
      BY <2>2 DEF Arrive
    <3> QED
      BY <2>1, <3>1
  <2>3. CASE Receiving(h)
    <3>1. \A x \in inbox'[h] : x \in inbox[h] \/ x.n = r.n
      BY <2>3 DEF Arrive
    <3>2. probe[h].n < issued => probe[h].n - r.n < K * ReplyLife + K
      BY <1>1, <1>2, <2>1 DEF Young
    <3> QED
      BY <1>2, <2>1, <2>3, <3>1, <3>2 DEF Known, Receiving
  <2> QED
    BY <2>2, <2>3
<1> QED
  BY <1>1, <1>3 DEF Recent

(* A tick makes all that waits one older, and lets K more numbers be drawn. *)
LEMMA TickKeepsRecent ==
    ASSUME Timeout > 0, TypeOK, TypeOK', IsFiniteSet(Hosts), AllClocked, Recent, Tick
    PROVE  Recent'
<1>1. /\ K \in Nat /\ issued \in Nat /\ Slack \in Int
      /\ issued' = issued /\ Slack' \in Int /\ Slack <= Slack' + K
  <2>1. /\ Slack + issued <= K
        /\ K \in Nat /\ issued \in Nat /\ Slack \in Int /\ issued' = issued
    BY RecentTypes DEF Tick
  <2>2. Slack' \in Int /\ 0 <= Slack' + issued'
    <3>1. IsFiniteSet(Done')
      <4>1. Done' \subseteq Hosts
        BY DEF Done
      <4> QED
        BY <4>1, FS_Subset
    <3>2. Cardinality(Done') \in Nat
      BY <3>1, FS_CardinalityType
    <3> QED
      BY <2>1, <3>2 DEF Slack
  <2>3. PICK a \in Int, b \in Int : a = Slack /\ b = Slack'
    BY <2>1, <2>2
  <2>4. a <= b + K
    <3>1. a + issued <= K /\ 0 <= b + issued
      BY <2>1, <2>2, <2>3
    <3> QED
      BY <2>1, <3>1
  <2> QED
    BY <2>1, <2>2, <2>3, <2>4
<1>2. ASSUME NEW n \in Nat, NEW t \in Nat, Young(n, t, Slack)
      PROVE  Young(n, t + 1, Slack')
  <2>1. PICK kt \in Int : kt = K * t
    BY <1>1
  <2>2. K * (t + 1) = kt + K
    BY <1>1, <2>1
  <2>3. PICK a \in Int, b \in Int : a = Slack /\ b = Slack'
    BY <1>1
  <2>4. n + kt + a >= 0 /\ a <= b + K
    BY <1>1, <1>2, <2>1, <2>3 DEF Young
  <2>5. n + (kt + K) + b >= 0
    BY <1>1, <2>4
  <2> QED
    BY <2>2, <2>3, <2>5 DEF Young
<1>3. ASSUME NEW r \in wire' PROVE r.n < issued /\ Young(r.n, r.age, Slack')
  <2>1. PICK x \in wire : r = Aged(x)
    BY DEF Tick
  <2>2. /\ x.n \in Nat /\ x.age \in Nat
        /\ r.n = x.n /\ r.age = x.age + 1
    <3>1. x \in Carried
      BY DEF TypeOK
    <3> QED
      BY <2>1, <3>1, ConstantsAssumption DEF Carried, Aged
  <2>3. x.n < issued /\ Young(x.n, x.age, Slack)
    BY DEF Recent
  <2> QED
    BY <1>2, <2>2, <2>3
<1>4. ASSUME NEW h \in Hosts
      PROVE  /\ Known(pc[h], probe'[h], inbox[h], issued, Slack')
             /\ Own(pc[h], sample[h], probe'[h])
  <2>1. /\ Known(pc[h], probe[h], inbox[h], issued, Slack)
        /\ Own(pc[h], sample[h], probe[h])
        /\ pc[h] \notin {"draw", "send"}
    BY DEF Recent, Tick
  <2>2. probe[h] \in Probes /\ probe[h].n \in Nat /\ probe[h].elapsed \in Nat
    BY ProbeTypes DEF TypeOK
  <2>3. probe'[h].n = probe[h].n
    BY <2>2 DEF Tick, Waited, Probes
  <2>4. pc[h] = "recv" => probe'[h].elapsed = probe[h].elapsed + 1
    <3> SUFFICES ASSUME pc[h] = "recv" PROVE probe'[h].elapsed = probe[h].elapsed + 1
      OBVIOUS
    <3>1. probe[h].elapsed < 2 * RecvTimeout
      BY ClockedIsBounded DEF WaitBounded
    <3>2. Later(probe[h].elapsed) = probe[h].elapsed + 1
      BY <2>2, <3>1, RecvTimeoutType, ConstantsAssumption DEF Later
    <3>3. probe'[h] = [probe[h] EXCEPT !.elapsed = Later(@), !.waited = Later(@),
                                       !.spent = Later(@)]
      BY DEF Tick, Waited
    <3> QED
      BY <2>2, <3>2, <3>3 DEF Probes
  <2>5. Known(pc[h], probe'[h], inbox[h], issued, Slack')
    <3>1. CASE pc[h] = "recv"
      <4>1. /\ probe[h].n < issued
            /\ Young(probe[h].n, probe[h].elapsed, Slack)
            /\ \A r \in inbox[h] : r.n < issued /\ probe[h].n - r.n < K * ReplyLife + K
        BY <2>1, <3>1 DEF Known
      <4>2. Young(probe[h].n, probe[h].elapsed + 1, Slack')
        BY <1>2, <2>2, <4>1
      <4> QED
        BY <2>3, <2>4, <3>1, <4>1, <4>2 DEF Known
    <3>2. CASE pc[h] # "recv"
      BY <2>1, <3>2 DEF Known
    <3> QED
      BY <3>1, <3>2
  <2>6. Own(pc[h], sample[h], probe'[h])
    BY <2>1, <2>3 DEF Own
  <2> QED
    BY <2>5, <2>6
<1>5. pc' = pc /\ inbox' = inbox /\ sample' = sample
  BY DEF Tick
<1> QED
  BY <1>1, <1>3, <1>4, <1>5 DEF Recent
LEMMA RecentInit == Init => Recent
BY DEF Init, Recent, Known, Own

(* 2 * RecvTimeout ticks of waiting and ReplyLife ticks in the network see  *)
(* fewer than SeqMod numbers drawn, so an accepted reply is the probe's own. *)
LEMMA AcceptedIsOwn ==
    ASSUME NumbersOutlast, TypeOK, AllClocked, Numbered, Recent,
           NEW h \in Hosts, NEW r \in inbox[h], AcceptReply(h, r)
    PROVE  r.n = probe[h].n
<1>1. /\ K \in Nat /\ issued \in Nat /\ Slack \in Int /\ Slack + issued <= K
      /\ K * (ReplyLife + 1) <= SeqMod /\ K * (2 * RecvTimeout) <= SeqMod
      /\ ReplyLife \in Nat /\ RecvTimeout \in Nat /\ SeqMod \in Nat
  BY RecentTypes, RecvTimeoutType, ConstantsAssumption DEF NumbersOutlast, K
<1>2. /\ r.n \in Nat /\ probe[h].n \in Nat /\ probe[h].elapsed \in Nat
      /\ pc[h] = "recv" /\ IsValid(r, probe[h])
  <2>1. r \in Replies /\ probe[h] \in Probes
    BY DEF TypeOK
  <2> QED
    BY <2>1, ProbeTypes DEF Replies, AcceptReply
<1>3. /\ r.n < issued
      /\ Young(probe[h].n, probe[h].elapsed, Slack)
      /\ probe[h].n - r.n < K * ReplyLife + K
  BY <1>2 DEF Recent, Known
<1>4. probe[h].n - r.n < SeqMod
  <2>1. K * ReplyLife + K = K * (ReplyLife + 1) /\ K * ReplyLife \in Int
    BY <1>1
  <2> QED
    BY <1>1, <1>2, <1>3, <2>1
<1>5. r.n - probe[h].n < SeqMod
  <2>1. probe[h].elapsed < 2 * RecvTimeout
    BY <1>2, ClockedIsBounded DEF WaitBounded, NumbersOutlast
  <2>2. PICK d \in Nat : 2 * RecvTimeout = probe[h].elapsed + 1 + d
    <3>1. 2 * RecvTimeout - (probe[h].elapsed + 1) \in Nat
      BY <1>1, <1>2, <2>1
    <3> QED
      BY <1>1, <1>2, <3>1
  <2>3. PICK ke \in Int, kd \in Nat : ke = K * probe[h].elapsed /\ kd = K * d
    BY <1>1, <1>2, <2>2
  <2>4. K * (2 * RecvTimeout) = ke + K + kd
    <3>1. K * (probe[h].elapsed + 1 + d) = K * probe[h].elapsed + K + K * d
      BY <1>1, <1>2
    <3> QED
      BY <2>2, <2>3, <3>1
  <2>5. probe[h].n + ke + Slack >= 0
    BY <1>3, <2>3 DEF Young
  <2> QED
    BY <1>1, <1>2, <1>3, <2>3, <2>4, <2>5
<1> QED
  BY <1>2, <1>4, <1>5, NumberedIsOwn DEF OwnReplyWithinWrap

LEMMA RecentStep ==
    ASSUME NumbersOutlast, TypeOK, TypeOK', AllClocked, Numbered, Recent, [Next]_vars
    PROVE  Recent'
<1> SUFFICES ASSUME Next PROVE Recent'
  BY DEF Recent, Slack, Done, vars
<1>0. IsFiniteSet(Hosts) /\ Interval \in Nat /\ Interval > 0 /\ Timeout > 0
  BY ConstantsAssumption DEF NumbersOutlast
<1>1. ASSUME NEW h \in Hosts,
             \/ Resolve(h) \/ OpenSocket(h) \/ Send(h) \/ RecvTimedOut(h)
             \/ StartTcp(h) \/ TcpDone(h) \/ Report(h) \/ Wake(h)
             \/ \E r \in inbox[h] : AcceptReply(h, r)
             \/ \E rest \in SUBSET inbox[h] : Dropped(h, rest)
      PROVE  Recent'
  <2>1. /\ probe[h] \in Probes
        /\ Known(pc[h], probe[h], inbox[h], issued, Slack)
        /\ Own(pc[h], sample[h], probe[h])
        /\ pc[h] \in Places
    BY DEF TypeOK, Recent
  <2>2. /\ issued' = issued
        /\ \A g \in Hosts \ {h} : /\ pc'[g] = pc[g] /\ probe'[g] = probe[g]
                                  /\ inbox'[g] = inbox[g] /\ slept'[g] = slept[g]
                                  /\ sample'[g] = sample[g]
    BY <1>1 DEF TypeOK, Resolve, OpenSocket, Send, RecvTimedOut, StartTcp, TcpDone,
                Report, Wake, AcceptReply, Dropped, Goto, Close, Fail
  <2>3. CASE Resolve(h)
    <3>1. /\ pc[h] = "resolve" /\ pc'[h] \in {"open", "report"} /\ inbox'[h] = inbox[h]
          /\ pc'[h] = "report" => sample'[h].via = "none"
          /\ wire' = wire
      BY <2>3 DEF TypeOK, Resolve, Goto, Fail, NoSample
    <3> QED
      BY <1>0, <2>1, <2>2, <3>1, TaskKeepsRecent DEF HasDrawn, Known, Own
  <2>4. CASE OpenSocket(h)
    <3>1. /\ pc[h] = "open" /\ pc'[h] \in {"draw", "connect"} /\ inbox'[h] = {}
          /\ wire' = wire
      BY <2>1, <2>4 DEF TypeOK, OpenSocket, Goto, Known
    <3> QED
      BY <1>0, <2>2, <3>1, TaskKeepsRecent DEF HasDrawn, Known, Own
  <2>5. CASE Send(h)
    <3>1. /\ pc[h] = "send" /\ pc'[h] \in {"recv", "connect"}
          /\ probe'[h] = probe[h]
          /\ pc'[h] = "recv" => inbox'[h] = inbox[h]
          /\ pc'[h] = "connect" => inbox'[h] = {}
      BY <2>5 DEF TypeOK, Send, Goto, Close
    <3>2. \A r \in wire' : r \in wire \/ (r.n < issued /\ Young(r.n, r.age, Slack))
      <4>1. probe[h].elapsed = 0
        BY <3>1 DEF AllClocked, Clocked, Fresh
      <4>2. probe[h].n < issued /\ Young(probe[h].n, 0, Slack)
        BY <2>1, <3>1, <4>1 DEF Known
      <4> QED
        BY <2>5, <4>2 DEF Send
    <3>3. Known(pc'[h], probe'[h], inbox'[h], issued, Slack)
      BY <2>1, <3>1 DEF Known
    <3>4. Own(pc'[h], sample'[h], probe'[h]) /\ HasDrawn(pc'[h], slept'[h])
      BY <3>1 DEF Own, HasDrawn
    <3> QED
      BY <1>0, <2>2, <3>2, <3>3, <3>4, TaskKeepsRecent
  <2>6. CASE RecvTimedOut(h)
    <3>1. pc'[h] = "connect" /\ inbox'[h] = {} /\ wire' = wire
      BY <2>6 DEF TypeOK, RecvTimedOut, Goto, Close
    <3> QED
      BY <1>0, <2>2, <3>1, TaskKeepsRecent DEF HasDrawn, Known, Own
  <2>7. CASE StartTcp(h) \/ TcpDone(h)
    <3>1. /\ pc[h] \in {"connect", "tcp"} /\ pc'[h] \in {"tcp", "report"}
          /\ inbox'[h] = {} /\ wire' = wire
          /\ pc'[h] = "report" => sample'[h].via # "icmp"
      <4>1. /\ pc[h] \in {"connect", "tcp"} /\ pc'[h] \in {"tcp", "report"}
            /\ inbox' = inbox /\ wire' = wire
            /\ pc'[h] = "report" => sample'[h].via # "icmp"
        BY <2>7 DEF TypeOK, StartTcp, TcpDone, Goto, Fail, NoSample
      <4> QED
        BY <2>1, <4>1 DEF Known
    <3> QED
      BY <1>0, <2>2, <3>1, TaskKeepsRecent DEF HasDrawn, Known, Own
  <2>8. CASE Report(h)
    <3>1. pc[h] = "report" /\ pc'[h] = "sleep" /\ slept'[h] = 0 /\ inbox' = inbox /\ wire' = wire
      BY <2>8 DEF TypeOK, Report, Goto
    <3>2. inbox'[h] = {}
      BY <2>1, <3>1 DEF Known
    <3> QED
      BY <1>0, <2>2, <3>1, <3>2, TaskKeepsRecent DEF HasDrawn, Known, Own
  <2>9. CASE Wake(h)
    <3>1. /\ pc[h] = "sleep" /\ slept[h] \in Nat /\ slept[h] >= Interval
          /\ pc'[h] = "resolve" /\ inbox' = inbox /\ wire' = wire
      BY <1>0, <2>9 DEF TypeOK, Wake, Goto
    <3>2. inbox'[h] = {} /\ ~HasDrawn(pc[h], slept[h])
      BY <1>0, <2>1, <3>1 DEF Known, HasDrawn
    <3> QED
      BY <1>0, <2>2, <3>1, <3>2, TaskKeepsRecent DEF Known, Own
  <2>10. ASSUME NEW r \in inbox[h], AcceptReply(h, r) PROVE Recent'
    <3>1. /\ pc'[h] = "report" /\ inbox'[h] = {} /\ wire' = wire
          /\ probe'[h] = probe[h] /\ sample'[h].reply = r.n
      BY <2>10 DEF TypeOK, AcceptReply, Goto, Close
    <3>2. r.n = probe[h].n
      BY <2>10, AcceptedIsOwn
    <3> QED
      BY <1>0, <2>2, <3>1, <3>2, TaskKeepsRecent DEF HasDrawn, Known, Own
  <2>11. ASSUME NEW rest \in SUBSET inbox[h], Dropped(h, rest) PROVE Recent'
    <3>1. pc[h] = "recv" /\ wire' = wire /\ sample' = sample
      BY <2>11 DEF Dropped
    <3>2. CASE PastDeadline(probe[h])
      <4>1. pc'[h] = "connect" /\ inbox'[h] = {}
        BY <2>11, <3>2 DEF TypeOK, Dropped, Goto, Close
      <4> QED
        BY <1>0, <2>2, <3>1, <4>1, TaskKeepsRecent DEF HasDrawn, Known, Own
    <3>3. CASE ~PastDeadline(probe[h])
      <4>1. /\ pc'[h] = "recv" /\ inbox'[h] \subseteq inbox[h]
            /\ probe'[h].n = probe[h].n /\ probe'[h].elapsed = probe[h].elapsed
        <5>1. pc' = pc /\ inbox'[h] = rest
              /\ probe' = [probe EXCEPT ![h].waited = 0]
          BY <2>11, <3>3 DEF TypeOK, Dropped
        <5> QED
          BY <2>1, <3>1, <5>1 DEF TypeOK, Probes
      <4>2. Known(pc'[h], probe'[h], inbox'[h], issued, Slack)
        BY <2>1, <3>1, <4>1 DEF Known
      <4>3. Own(pc'[h], sample'[h], probe'[h]) /\ HasDrawn(pc'[h], slept'[h])
        BY <4>1 DEF Own, HasDrawn
      <4> QED
        BY <1>0, <2>2, <3>1, <4>2, <4>3, TaskKeepsRecent
    <3> QED
      BY <3>2, <3>3
  <2> QED
    BY <1>1, <2>3, <2>4, <2>5, <2>6, <2>7, <2>8, <2>9, <2>10, <2>11
<1>2. ASSUME NEW h \in Hosts, DrawSeq(h) PROVE Recent'
  BY <1>0, <1>2, DrawKeepsRecent
<1>3. ASSUME NEW r \in wire, Arrive(r) PROVE Recent'
  BY <1>0, <1>3, ArriveKeepsRecent
<1>4. CASE Tick
  BY <1>0, <1>4, TickKeepsRecent
<1> QED
  BY NextCases, <1>1, <1>2, <1>3, <1>4

(* While the numbers outlast the replies and the wait, a latency reported   *)
(* as ICMP is that of the probe's own request.                              *)
THEOREM RepliesAreOwn ==
    ASSUME NumbersOutlast
    PROVE  Spec => []OwnReply
<1>1. Init => AllClocked
  BY RecvTimeoutType, ConstantsAssumption
     DEF Init, AllClocked, Clocked, Fresh, NoProbe, NumbersOutlast
<1>2. TypeOK /\ TypeOK' /\ AllClocked /\ [Next]_vars => AllClocked'
  BY ClockedStep DEF NumbersOutlast
<1>3. TypeOK /\ TypeOK' /\ AllClocked /\ Numbered /\ Recent /\ [Next]_vars => Recent'
  BY RecentStep
<1>4. Recent => OwnReply
  BY DEF Recent, Own, OwnReply
<1> QED
  BY <1>1, <1>2, <1>3, <1>4, NumberedInit, NumberedStep, RecentInit, TypeCorrect, PTL DEF Spec

------------------------------------------------------------------------------
(* The packets.  Arithmetic is done on any modulus and not on 2^16, which   *)
(* the provers would count up to.                                           *)
LEMMA Division ==
    ASSUME NEW m \in Nat, m > 0, NEW x \in Nat
    PROVE  \E q \in Nat, r \in 0..(m - 1) : q = x \div m /\ r = x % m /\ x = m * q + r
<1> DEFINE q == x \div m
           r == x % m
<1>1. q \in Int /\ r \in 0..(m - 1) /\ x = m * q + r
  OBVIOUS
<1> HIDE DEF q, r
<1>2. q \in Nat
  <2> SUFFICES ASSUME q < 0 PROVE FALSE
    BY <1>1
  <2>1. m * q + m <= m * 0
    BY <1>1, FactorUnique
  <2> QED
    BY <1>1, <2>1
<1> QED
  BY <1>1, <1>2 DEF q, r

LEMMA ModAdd ==
    ASSUME NEW m \in Nat, m > 1, NEW x \in Nat, NEW k \in Nat
    PROVE  (x + m * k) % m = x % m
<1>1. PICK q \in Nat, r \in 0..(m - 1) : q = x \div m /\ r = x % m /\ x = m * q + r
  BY Division
<1>2. x + m * k = m * (q + k) + r
  BY <1>1
<1>3. (m * (q + k) + r) % m = r
  BY ModUnique
<1> QED
  BY <1>1, <1>2, <1>3

LEMMA WordType == Word \in Nat /\ Word > 2 /\ Octet \in Nat /\ Octet > 1
BY DEF Word, Octet

(* The code folds the carries back until the sum fits in 16 bits; what is   *)
(* left is the sum modulo 2^16 - 1, with 2^16 - 1 for 0 unless all was 0.   *)
Remainder(sum) == IF sum = 0 THEN 0 ELSE 1 + ((sum - 1) % (Word - 1))

Carry(sum) == (sum % Word) + sum \div Word

LEMMA CarryKeeps ==
    ASSUME NEW sum \in Nat, sum >= Word
    PROVE  Carry(sum) \in Nat \ {0} /\ Carry(sum) < sum /\ Remainder(Carry(sum)) = Remainder(sum)
<1> USE WordType
<1>1. PICK q \in Nat, r \in 0..(Word - 1) :
         q = sum \div Word /\ r = sum % Word /\ sum = Word * q + r
  BY Division
<1>2. q > 0 /\ Carry(sum) = r + q
  BY <1>1 DEF Carry
<1>3. PICK a \in Nat : a = q + r - 1
  BY <1>2
<1>4. PICK m \in Nat : m = Word - 1 /\ m > 1
  OBVIOUS
<1>5. (a + m * q) % m = a % m
  BY <1>4, ModAdd
<1>6. Carry(sum) - 1 = a /\ sum - 1 = a + m * q /\ Carry(sum) # 0
  BY <1>1, <1>2, <1>3, <1>4
<1>7. Remainder(Carry(sum)) = 1 + (a % m) /\ Remainder(sum) = 1 + ((a + m * q) % m)
  BY <1>4, <1>6 DEF Remainder
<1> QED
  BY <1>1, <1>2, <1>4, <1>5, <1>7

LEMMA RemainderSmall ==
    ASSUME NEW sum \in Nat, sum < Word PROVE Remainder(sum) = sum
<1>1. CASE sum = 0
  BY <1>1 DEF Remainder
<1>2. CASE sum # 0
  <2>1. PICK m \in Nat : m = Word - 1 /\ m > 1
    BY WordType
  <2>2. PICK a \in 0..(m - 1) : a = sum - 1
    BY <1>2, <2>1, WordType
  <2>3. PICK z \in Int : z = 0
    OBVIOUS
  <2>4. (m * z + a) % m = a
    BY <2>1, <2>2, ModUnique
  <2>5. m * z + a = sum - 1
    BY <2>1, <2>2, <2>3
  <2> QED
    BY <1>2, <2>1, <2>2, <2>4, <2>5 DEF Remainder
<1> QED
  BY <1>1, <1>2

Folding(f) == f = [sum \in Nat |-> IF sum < Word THEN sum ELSE f[(sum % Word) + sum \div Word]]

LEMMA FoldedExists == Folding([sum \in Nat |-> Remainder(sum)])
<1> DEFINE f == [sum \in Nat |-> Remainder(sum)]
           g == [sum \in Nat |-> IF sum < Word THEN sum ELSE f[(sum % Word) + sum \div Word]]
<1>1. ASSUME NEW sum \in Nat PROVE g[sum] = f[sum]
  <2>1. CASE sum < Word
    BY <2>1, RemainderSmall
  <2>2. CASE sum >= Word
    BY <2>2, CarryKeeps, WordType DEF Carry
  <2> QED
    BY <2>1, <2>2, WordType
<1>2. f = [sum \in Nat |-> f[sum]] /\ g = [sum \in Nat |-> g[sum]]
  OBVIOUS
<1>3. f = g
  <2> HIDE DEF f, g
  <2> QED
    BY <1>1, <1>2
<1> QED
  BY <1>3 DEF Folding

LEMMA FoldedIsRemainder == \A sum \in Nat : Folded[sum] = Remainder(sum)
<1>1. Folding(Folded)
  <2>1. \E f : Folding(f)
    BY FoldedExists
  <2>2. Folded = CHOOSE f : Folding(f)
    BY DEF Folded, Folding
  <2> QED
    BY <2>1, <2>2
<1>2. \A sum \in Nat : Folded[sum] = IF sum < Word THEN sum ELSE Folded[Carry(sum)]
  BY <1>1 DEF Folding, Carry
<1> DEFINE Bad == {sum \in Nat : Folded[sum] # Remainder(sum)}
<1> SUFFICES ASSUME Bad # {} PROVE FALSE
  OBVIOUS
<1>3. PICK m \in Bad : \A n \in Bad : ~(<<n, m>> \in OpToRel(<, Nat))
  <2>1. Bad \subseteq Nat
    OBVIOUS
  <2> HIDE DEF Bad
  <2> QED
    BY <2>1, NatLessThanWellFounded, WFMin
<1>4. \A n \in Bad : ~(n < m)
  BY <1>3 DEF OpToRel
<1>5. m >= Word /\ m \in Nat
  BY <1>2, RemainderSmall, WordType
<1>6. Carry(m) \in Nat /\ Carry(m) \notin Bad
  <2> HIDE DEF Bad
  <2> QED
    BY <1>4, <1>5, CarryKeeps
<1> QED
  BY <1>2, <1>5, <1>6, CarryKeeps, WordType

(* A sum and what it lacks to a multiple of 2^16 - 1 leave 2^16 - 1. *)
LEMMA Complement ==
    ASSUME NEW sum \in Nat
    PROVE  /\ Remainder(sum) \in 0..(Word - 1)
           /\ Remainder(sum + (Word - 1 - Remainder(sum))) = Word - 1
<1>1. PICK m \in Nat : m = Word - 1 /\ m > 1
  BY WordType
<1>2. CASE sum = 0
  <2>1. Remainder(sum) = 0 /\ Remainder(m) = m
    BY <1>1, <1>2, RemainderSmall, WordType DEF Remainder
  <2>2. sum + (Word - 1 - 0) = m
    BY <1>1, <1>2, WordType
  <2> QED
    BY <1>1, <2>1, <2>2
<1>3. CASE sum # 0
  <2>1. PICK x \in Nat : x = sum - 1
    BY <1>3
  <2>2. PICK q \in Nat, r \in 0..(m - 1) : q = x \div m /\ r = x % m /\ x = m * q + r
    BY <1>1, Division
  <2>3. Remainder(sum) = 1 + r
    BY <1>1, <1>3, <2>1, <2>2 DEF Remainder
  <2>4. PICK y \in Nat : y = sum + (m - (1 + r))
    BY <1>1, <2>1, <2>2
  <2>5. PICK l \in 0..(m - 1) : l = m - 1
    BY <1>1
  <2>6. y # 0 /\ y - 1 = m * q + l
    <3>1. PICK p \in Nat : p = m * q
      BY <1>1
    <3>2. y = p + m
      BY <1>1, <2>1, <2>2, <2>4, <3>1
    <3> QED
      BY <1>1, <2>5, <3>1, <3>2
  <2>7. (m * q + l) % m = l
    BY <1>1, ModUnique
  <2>8. Remainder(y) = 1 + l
    BY <1>1, <2>6, <2>7 DEF Remainder
  <2>9. y = sum + (Word - 1 - Remainder(sum))
    BY <1>1, <2>3, <2>4, WordType
  <2>10. Remainder(y) = Word - 1
    BY <1>1, <2>5, <2>8
  <2>11. Remainder(sum) \in 0..(Word - 1)
    BY <1>1, <2>2, <2>3, WordType
  <2> QED
    BY <2>9, <2>10, <2>11
<1> QED
  BY <1>2, <1>3

Octets == 0..(Octet - 1)
Words == 0..(Word - 1)

LEMMA WordParts ==
    ASSUME NEW w \in Words
    PROVE  High(w) \in Octets /\ Low(w) \in Octets /\ Octet * High(w) + Low(w) = w
<1>1. PICK m \in Nat : m = Octet /\ m > 1 /\ Word = m * m
  BY WordType DEF Word
<1>2. w \in Nat /\ w < m * m
  BY <1>1, WordType DEF Words
<1>3. PICK q \in Nat, r \in 0..(m - 1) : q = w \div m /\ r = w % m /\ w = m * q + r
  BY <1>1, <1>2, Division
<1>4. q < m
  <2> SUFFICES ASSUME m <= q PROVE FALSE
    BY <1>1
  <2>1. m * m <= m * q
    <3>1. CASE m = q
      BY <3>1
    <3>2. CASE m < q
      <4>1. m * m + m <= m * q
        BY <3>2, FactorUnique
      <4> QED
        BY <4>1
    <3> QED
      BY <3>1, <3>2
  <2> QED
    BY <1>2, <1>3, <2>1
<1>5. High(w) = q /\ Low(w) = r
  BY <1>1, <1>3 DEF High, Low
<1> QED
  BY <1>1, <1>3, <1>4, <1>5 DEF Octets

(* What icmp_checksum sums. *)
Weighted(data) == [i \in DOMAIN data |-> IF i % 2 = 1 THEN Octet * data[i] ELSE data[i]]

LEMMA WeightedTypes ==
    ASSUME NEW data \in Seq(Octets)
    PROVE  /\ IsFiniteSet(DOMAIN data) /\ \A i \in DOMAIN data : Weighted(data)[i] \in Nat
           /\ SumFunctionOnSet(Weighted(data), DOMAIN data) \in Nat
<1>1. DOMAIN data = 1..Len(data) /\ Len(data) \in Nat
  OBVIOUS
<1>2. IsFiniteSet(DOMAIN data)
  BY <1>1, FS_Interval
<1>3. \A i \in DOMAIN data : Weighted(data)[i] \in Nat
  <2> SUFFICES ASSUME NEW i \in DOMAIN data PROVE Weighted(data)[i] \in Nat
    OBVIOUS
  <2>1. PICK x \in Nat : x = data[i]
    BY WordType DEF Octets
  <2>2. Octet * x \in Nat
    BY WordType
  <2> QED
    BY <2>1, <2>2 DEF Weighted
<1> QED
  BY <1>2, <1>3, SumNat

LEMMA ChecksumType ==
    ASSUME NEW data \in Seq(Octets)
    PROVE  LET sum == SumFunctionOnSet(Weighted(data), DOMAIN data)
           IN  /\ icmp_checksum(data) = Word - 1 - Remainder(sum)
               /\ icmp_checksum(data) \in Words
<1>1. PICK sum \in Nat : sum = SumFunctionOnSet(Weighted(data), DOMAIN data)
  BY WeightedTypes
<1>2. icmp_checksum(data) = Word - 1 - Folded[sum]
  BY <1>1 DEF icmp_checksum, SumFunction, Weighted
<1>3. Folded[sum] = Remainder(sum) /\ Remainder(sum) \in 0..(Word - 1)
  BY FoldedIsRemainder, Complement
<1>4. Word - 1 - Remainder(sum) \in Words
  BY <1>3, WordType DEF Words
<1> QED
  BY <1>1, <1>2, <1>3, <1>4

(* The checksum of a packet that carries its checksum is 0. *)
LEMMA ChecksumVerifies ==
    ASSUME NEW buf \in Seq(Octets), Len(buf) >= 4, buf[3] = 0, buf[4] = 0
    PROVE  Checked(buf) \in Seq(Octets) /\ icmp_checksum(Checked(buf)) = 0
<1>1. PICK c \in Words : c = icmp_checksum(buf)
  BY ChecksumType
<1>2. PICK h \in Octets, l \in Octets : h = High(c) /\ l = Low(c) /\ Octet * h + l = c
  BY WordParts
<1> DEFINE out == [buf EXCEPT ![3] = h, ![4] = l]
           mid == [buf EXCEPT ![3] = h]
<1>3. out = Checked(buf)
  BY <1>1, <1>2 DEF Checked
<1>4. /\ out \in Seq(Octets) /\ mid \in Seq(Octets)
      /\ DOMAIN out = DOMAIN buf /\ DOMAIN mid = DOMAIN buf
      /\ 3 \in DOMAIN buf /\ 4 \in DOMAIN buf
      /\ out[3] = h /\ out[4] = l /\ mid[3] = h /\ mid[4] = 0
      /\ \A i \in DOMAIN buf : i # 3 => mid[i] = buf[i]
      /\ \A i \in DOMAIN buf : i # 4 => out[i] = mid[i]
  OBVIOUS
<1> HIDE DEF out, mid
<1> DEFINE D == DOMAIN buf
           f == Weighted(buf)
           g == Weighted(mid)
           k == Weighted(out)
<1>5. /\ IsFiniteSet(D)
      /\ \A i \in D : f[i] \in Nat /\ g[i] \in Nat /\ k[i] \in Nat
      /\ SumFunctionOnSet(f, D) \in Nat
  BY <1>4, WeightedTypes
<1>6. 3 % 2 = 1 /\ 4 % 2 = 0
  OBVIOUS
<1>7. Octet * 0 = 0
  BY WordType
<1>8. f[3] = 0 /\ g[3] = Octet * h /\ g[4] = 0 /\ k[4] = l
  BY <1>4, <1>6, <1>7 DEF Weighted
<1>9. \A i \in D : (i # 3 => f[i] = g[i]) /\ (i # 4 => g[i] = k[i])
  BY <1>4 DEF Weighted
<1> HIDE DEF f, g, k, D
<1>10. 3 \in D /\ 4 \in D
  BY <1>4 DEF D
<1>11. SumFunctionOnSet(g, D) = SumFunctionOnSet(f, D) - f[3] + g[3]
  BY <1>5, <1>9, <1>10, SumChange
<1>12. SumFunctionOnSet(k, D) = SumFunctionOnSet(g, D) - g[4] + k[4]
  <2>1. /\ \A i \in D : g[i] \in Int /\ k[i] \in Int
        /\ \A i \in D : i # 4 => g[i] = k[i]
    BY <1>5, <1>9
  <2>2. ASSUME NEW a \in D, \A i \in D : i # a => g[i] = k[i]
        PROVE  SumFunctionOnSet(k, D) = SumFunctionOnSet(g, D) - g[a] + k[a]
    <3>1. IsFiniteSet(D) /\ \A i \in D : g[i] \in Int /\ k[i] \in Int
      BY <1>5
    <3> QED
      BY <2>2, <3>1, SumChange
  <2> QED
    BY <1>10, <2>1, <2>2
<1>13. PICK sum \in Nat : sum = SumFunctionOnSet(f, D)
  BY <1>5
<1>14. SumFunctionOnSet(k, D) = sum + c
  <2>1. Octet * h \in Nat /\ l \in Nat
    BY WordType DEF Octets
  <2> QED
    BY <1>2, <1>8, <1>11, <1>12, <1>13, <2>1
<1>15. c = Word - 1 - Remainder(sum)
  BY <1>1, <1>13, ChecksumType DEF f, D
<1>16. icmp_checksum(out) = Word - 1 - Remainder(sum + c)
  BY <1>4, <1>14, ChecksumType DEF k, D
<1>17. Remainder(sum + c) = Word - 1
  BY <1>15, Complement
<1>18. icmp_checksum(out) = 0
  BY <1>16, <1>17, WordType
<1> QED
  BY <1>3, <1>4, <1>18

------------------------------------------------------------------------------
(* What is in a packet, and where. *)
Packet == Seq(Octets)

LEMMA OctetsAreNat == Octets \subseteq Nat /\ 0 \in Octets
BY WordType DEF Octets

LEMMA ZerosType ==
    ASSUME NEW n \in Nat PROVE Zeros(n) \in Packet /\ Len(Zeros(n)) = n
<1>1. Zeros(n) \in [1..n -> Octets]
  BY OctetsAreNat DEF Zeros
<1> QED
  BY <1>1, LenProperties, ElementOfSeq DEF Packet

(* A message, as Echo lays it out. *)
Carries(m, type, ident, num) ==
    /\ m \in Packet /\ Len(m) = 12
    /\ m[1] = type /\ m[2] = 0
    /\ m[5] = High(ident) /\ m[6] = Low(ident)
    /\ m[7] = High(num) /\ m[8] = Low(num)

LEMMA EchoCarries ==
    ASSUME NEW type \in Octets, NEW ident \in Words, NEW num \in Words
    PROVE  LET m == Echo(type, ident, num)
           IN  Carries(m, type, ident, num) /\ m[3] = 0 /\ m[4] = 0
<1>1. PICK a \in Octets, b \in Octets, c \in Octets, d \in Octets :
         a = High(ident) /\ b = Low(ident) /\ c = High(num) /\ d = Low(num)
  BY WordParts
<1> DEFINE s == <<type, 0, 0, 0, a, b, c, d>>
           t == <<78, 69, 84, 77>>
<1>2. s \in Packet /\ Len(s) = 8
  BY OctetsAreNat DEF Packet
<1>3. t \in Packet /\ Len(t) = 4
  <2>1. {78, 69, 84, 77} \subseteq Octets
    BY DEF Octets, Octet
  <2> QED
    BY <2>1 DEF Packet
<1>4. /\ s[1] = type /\ s[2] = 0 /\ s[3] = 0 /\ s[4] = 0
      /\ s[5] = a /\ s[6] = b /\ s[7] = c /\ s[8] = d
  OBVIOUS
<1>5. Echo(type, ident, num) = s \o t
  BY <1>1 DEF Echo
<1> HIDE DEF s, t
<1>6. PICK e : e = s \o t
  OBVIOUS
<1>7. /\ e \in Packet /\ Len(e) = Len(s) + Len(t)
      /\ \A i \in 1..(Len(s) + Len(t)) : e[i] = IF i <= Len(s) THEN s[i] ELSE t[i - Len(s)]
  BY <1>2, <1>3, <1>6, ConcatProperties DEF Packet
<1>8. Len(e) = 12 /\ \A i \in 1..8 : e[i] = s[i]
  <2>1. Len(s) + Len(t) = 12
    BY <1>2, <1>3
  <2>2. \A i \in 1..8 : i \in 1..(Len(s) + Len(t)) /\ i <= Len(s)
    BY <1>2, <2>1
  <2> QED
    BY <1>7, <2>1, <2>2
<1>9. 1..8 = {1, 2, 3, 4, 5, 6, 7, 8}
  OBVIOUS
<1>10. /\ e[1] = type /\ e[2] = 0 /\ e[3] = 0 /\ e[4] = 0
       /\ e[5] = a /\ e[6] = b /\ e[7] = c /\ e[8] = d
  BY <1>4, <1>8, <1>9
<1>11. Carries(e, type, ident, num)
  BY <1>1, <1>7, <1>8, <1>10, Zenon DEF Carries
<1> QED
  BY <1>5, <1>6, <1>10, <1>11

LEMMA CheckedCarries ==
    ASSUME NEW m, NEW type \in Octets, NEW ident \in Words, NEW num \in Words,
           Carries(m, type, ident, num)
    PROVE  Carries(Checked(m), type, ident, num)
<1>1. PICK c \in Words : c = icmp_checksum(m)
  BY ChecksumType DEF Carries, Packet
<1>2. PICK h \in Octets, l \in Octets : h = High(c) /\ l = Low(c)
  BY WordParts
<1>3. Checked(m) = [m EXCEPT ![3] = h, ![4] = l]
  BY <1>1, <1>2 DEF Checked
<1> QED
  BY <1>3 DEF Carries, Packet

LEMMA OfTypeCarries ==
    ASSUME NEW m, NEW type \in Octets, NEW ident \in Words, NEW num \in Words,
           Carries(m, type, ident, num), NEW other \in Octets
    PROVE  Carries(OfType(other, m), other, ident, num)
<1>1. m \in Seq(Octets) /\ 1 \in 1..Len(m)
  BY DEF Carries, Packet
<1>2. /\ OfType(other, m) \in Packet /\ Len(OfType(other, m)) = 12
      /\ \A j \in 1..12 : OfType(other, m)[j] = IF j = 1 THEN other ELSE m[j]
  <2>1. PICK o : o = OfType(other, m) /\ o = [m EXCEPT ![1] = other]
    BY DEF OfType
  <2>2. /\ o \in Seq(Octets) /\ Len(o) = Len(m)
        /\ \A j \in 1..Len(m) : o[j] = IF j = 1 THEN other ELSE m[j]
    BY <1>1, <2>1, ExceptSeq
  <2> QED
    BY <2>1, <2>2 DEF Carries, Packet
<1>3. {1, 2, 5, 6, 7, 8} \subseteq 1..12
  OBVIOUS
<1> QED
  BY <1>2, <1>3 DEF Carries

(* A message that carries a number is the reply to that one only. *)
LEMMA CarriesOne ==
    ASSUME NEW m, NEW type \in Octets, NEW ident \in Words, NEW num \in Words,
           Carries(m, type, ident, num),
           NEW other \in Octets, NEW mine \in Words, NEW own \in Words
    PROVE  ReplyAt(m, 0, other, mine, own) <=> type = other /\ ident = mine /\ num = own
<1>1. WordAt(m, 4) = ident /\ WordAt(m, 6) = num
  <2>1. WordAt(m, 4) = Octet * m[5] + m[6] /\ WordAt(m, 6) = Octet * m[7] + m[8]
    BY DEF WordAt
  <2> QED
    BY <2>1, WordParts DEF Carries
<1>2. Len(m) >= 0 + 8 /\ m[0 + 1] = type /\ m[0 + 2] = 0
  BY DEF Carries
<1>3. 0 + 4 = 4 /\ 0 + 6 = 6
  OBVIOUS
<1> QED
  BY <1>1, <1>2, <1>3 DEF ReplyAt

LEMMA ReplyShift ==
    ASSUME NEW ip \in Packet, NEW m \in Packet, NEW type, NEW ident, NEW num
    PROVE  ReplyAt(ip \o m, Len(ip), type, ident, num) <=> ReplyAt(m, 0, type, ident, num)
<1>1. PICK n \in Nat, l \in Nat : n = Len(ip) /\ l = Len(m)
  BY DEF Packet
<1>2. Len(ip \o m) = n + l
  BY <1>1 DEF Packet
<1>3. CASE l >= 8
  <2>1. \A j \in 1..8 : (ip \o m)[n + j] = m[j]
    BY <1>1, <1>3 DEF Packet
  <2>2. /\ (ip \o m)[n + 1] = m[1] /\ (ip \o m)[n + 2] = m[2]
        /\ (ip \o m)[(n + 4) + 1] = m[5] /\ (ip \o m)[(n + 4) + 2] = m[6]
        /\ (ip \o m)[(n + 6) + 1] = m[7] /\ (ip \o m)[(n + 6) + 2] = m[8]
    <3>1. /\ (n + 4) + 1 = n + 5 /\ (n + 4) + 2 = n + 6
          /\ (n + 6) + 1 = n + 7 /\ (n + 6) + 2 = n + 8
      OBVIOUS
    <3>2. {1, 2, 5, 6, 7, 8} \subseteq 1..8
      OBVIOUS
    <3>3. PICK x : x = ip \o m
      OBVIOUS
    <3>4. /\ x[n + 1] = m[1] /\ x[n + 2] = m[2] /\ x[n + 5] = m[5]
          /\ x[n + 6] = m[6] /\ x[n + 7] = m[7] /\ x[n + 8] = m[8]
      BY <2>1, <3>2, <3>3
    <3> QED
      BY <3>1, <3>3, <3>4
  <2>3. WordAt(ip \o m, n + 4) = WordAt(m, 0 + 4) /\ WordAt(ip \o m, n + 6) = WordAt(m, 0 + 6)
    BY <2>2 DEF WordAt
  <2>4. m[0 + 1] = m[1] /\ m[0 + 2] = m[2] /\ n + l >= n + 8 /\ l >= 0 + 8
    BY <1>3
  <2> QED
    BY <1>1, <1>2, <2>2, <2>3, <2>4 DEF ReplyAt
<1>4. CASE l < 8
  BY <1>1, <1>2, <1>4 DEF ReplyAt
<1> QED
  BY <1>1, <1>3, <1>4

LEMMA FirstAndZeros ==
    ASSUME NEW a \in Octets, NEW n \in Nat
    PROVE  LET p == <<a>> \o Zeros(n)
           IN  p \in Packet /\ Len(p) = n + 1 /\ p[1] = a
<1>1. PICK s, t : s = <<a>> /\ t = Zeros(n)
  OBVIOUS
<1>2. s \in Seq(Octets) /\ Len(s) = 1 /\ s[1] = a
  BY <1>1
<1>3. t \in Seq(Octets) /\ Len(t) = n
  BY <1>1, ZerosType DEF Packet
<1>4. /\ s \o t \in Seq(Octets) /\ Len(s \o t) = Len(s) + Len(t)
      /\ \A i \in 1..(Len(s) + Len(t)) :
            (s \o t)[i] = IF i <= Len(s) THEN s[i] ELSE t[i - Len(s)]
  BY <1>2, <1>3, ConcatProperties
<1>5. 1 \in 1..(Len(s) + Len(t)) /\ 1 <= Len(s)
  BY <1>2, <1>3
<1> QED
  BY <1>1, <1>2, <1>3, <1>4, <1>5 DEF Packet

(* Behind any header, the message is what is looked at. *)
LEMMA V4Header ==
    ASSUME NEW k \in 5..15
    PROVE  LET ip == Ipv4Header(k)
           IN  ip \in Packet /\ Len(ip) = 4 * k /\ ip[1] = 64 + k
<1>1. PICK n \in Nat, a \in Octets : n = 4 * k - 1 /\ a = 64 + k
  BY DEF Octets, Octet
<1>2. Ipv4Header(k) = <<a>> \o Zeros(n)
  BY <1>1 DEF Ipv4Header
<1> QED
  BY <1>1, <1>2, FirstAndZeros

LEMMA V6Header == Ipv6Header \in Packet /\ Len(Ipv6Header) = 40 /\ Ipv6Header[1] = 96
<1>1. PICK n \in Nat, a \in Octets : n = 39 /\ a = 96
  BY DEF Octets, Octet
<1>2. Ipv6Header = <<a>> \o Zeros(n)
  BY <1>1 DEF Ipv6Header
<1> QED
  BY <1>1, <1>2, FirstAndZeros

LEMMA BehindHeader ==
    ASSUME NEW ip \in Packet, NEW m \in Packet, Len(ip) > 0
    PROVE  /\ Len(ip \o m) = Len(ip) + Len(m) /\ ip \o m \in Packet
           /\ (ip \o m)[1] = ip[1]
BY ConcatProperties DEF Packet

LEMMA V4Validator ==
    ASSUME NEW ip \in Ipv4Headers, NEW m \in Packet, Len(m) > 0, m[1] \div 16 # 4,
           NEW ident, NEW num
    PROVE  is_valid_echo_reply_v4(ip \o m, ident, num) <=> ReplyAt(m, 0, 0, ident, num)
<1>1. CASE ip = <<>>
  <2>1. ip \o m = m
    BY <1>1, ConcatEmptySeq DEF Packet
  <2>2. AfterIpv4(m) = {}
    BY DEF AfterIpv4
  <2> QED
    BY <2>1, <2>2 DEF is_valid_echo_reply_v4
<1>2. CASE ip # <<>>
  <2>1. PICK k \in 5..15 : ip = Ipv4Header(k)
    BY <1>2 DEF Ipv4Headers
  <2>2. ip \in Packet /\ Len(ip) = 4 * k /\ ip[1] = 64 + k
    BY <2>1, V4Header
  <2>3. PICK l \in Nat : l = Len(m)
    BY DEF Packet
  <2>4. PICK data : data = ip \o m
    OBVIOUS
  <2>5. Len(data) = 4 * k + l /\ data[1] = 64 + k
    BY <2>3, <2>2, <2>4, BehindHeader
  <2>6. (64 + k) \div 16 = 4 /\ (64 + k) % 16 = k
    OBVIOUS
  <2>7. AfterIpv4(data) = IF l >= 8 THEN {4 * k} ELSE {}
    <3>1. Len(data) > 20 /\ 4 * k >= 20 /\ (Len(data) >= 4 * k + 8 <=> l >= 8)
      BY <2>3, <2>5
    <3> QED
      BY <2>5, <2>6, <3>1 DEF AfterIpv4
  <2>8. ~ReplyAt(data, 0, 0, ident, num)
    <3>1. data[0 + 1] # 0
      BY <2>5
    <3> QED
      BY <3>1 DEF ReplyAt
  <2>9. ReplyAt(data, 4 * k, 0, ident, num) <=> ReplyAt(m, 0, 0, ident, num)
    BY <2>2, <2>4, ReplyShift
  <2>10. l < 8 => ~ReplyAt(m, 0, 0, ident, num)
    BY <2>3 DEF ReplyAt
  <2>11. is_valid_echo_reply_v4(data, ident, num) <=> ReplyAt(m, 0, 0, ident, num)
    <3>1. CASE l >= 8
      BY <2>7, <2>8, <2>9, <3>1 DEF is_valid_echo_reply_v4
    <3>2. CASE ~(l >= 8)
      BY <2>7, <2>8, <2>10, <3>2 DEF is_valid_echo_reply_v4
    <3> QED
      BY <3>1, <3>2
  <2> QED
    BY <2>4, <2>11
<1> QED
  BY <1>1, <1>2

LEMMA V6Validator ==
    ASSUME NEW ip \in Ipv6Headers, NEW m \in Packet, Len(m) > 0, m[1] \div 16 # 6,
           NEW ident, NEW num
    PROVE  is_valid_echo_reply_v6(ip \o m, ident, num) <=> ReplyAt(m, 0, 129, ident, num)
<1>1. CASE ip = <<>>
  <2>1. ip \o m = m
    BY <1>1, ConcatEmptySeq DEF Packet
  <2>2. AfterIpv6(m) = {}
    BY DEF AfterIpv6
  <2> QED
    BY <2>1, <2>2 DEF is_valid_echo_reply_v6
<1>2. CASE ip # <<>>
  <2>1. ip \in Packet /\ Len(ip) = 40 /\ ip[1] = 96
    BY <1>2, V6Header DEF Ipv6Headers
  <2>2. ip \in Packet /\ Len(ip) > 0
    BY <2>1
  <2>3. PICK l \in Nat : l = Len(m)
    BY DEF Packet
  <2>4. PICK data : data = ip \o m
    OBVIOUS
  <2>5. Len(data) = 40 + l /\ l > 0 /\ data[1] = 96
    <3>1. Len(ip \o m) = Len(ip) + Len(m) /\ (ip \o m)[1] = ip[1]
      BY <2>2, BehindHeader
    <3> QED
      BY <2>3, <2>1, <2>4, <3>1
  <2>6. 96 \div 16 = 6
    OBVIOUS
  <2>7. AfterIpv6(data) = {40}
    BY <2>5, <2>6 DEF AfterIpv6
  <2>8. ~ReplyAt(data, 0, 129, ident, num)
    <3>1. data[0 + 1] # 129
      BY <2>5
    <3> QED
      BY <3>1 DEF ReplyAt
  <2>9. ReplyAt(data, 40, 129, ident, num) <=> ReplyAt(m, 0, 129, ident, num)
    <3>1. ReplyAt(ip \o m, Len(ip), 129, ident, num) <=> ReplyAt(m, 0, 129, ident, num)
      BY <2>2, ReplyShift
    <3> QED
      BY <2>1, <2>4, <3>1
  <2>10. is_valid_echo_reply_v6(data, ident, num) <=> ReplyAt(m, 0, 129, ident, num)
    BY <2>7, <2>8, <2>9 DEF is_valid_echo_reply_v6
  <2> QED
    BY <2>4, <2>10
<1> QED
  BY <1>1, <1>2

(* The requests, and the replies to them. *)
LEMMA TypesAreOctets == {0, 1, 3, 8, 128, 129} \subseteq Octets
BY DEF Octets, Octet

LEMMA RequestsCarry ==
    ASSUME NEW ident \in Words, NEW num \in Words
    PROVE  /\ Carries(build_echo_request_v4(ident, num), 8, ident, num)
           /\ Carries(build_echo_request_v6(ident, num), 128, ident, num)
           /\ Carries(OfType(0, build_echo_request_v4(ident, num)), 0, ident, num)
           /\ Carries(OfType(129, build_echo_request_v6(ident, num)), 129, ident, num)
<1>1. PICK a \in Octets, b \in Octets, c \in Octets, d \in Octets :
         a = 8 /\ b = 128 /\ c = 0 /\ d = 129
  BY TypesAreOctets
<1>2. Carries(Checked(Echo(a, ident, num)), a, ident, num) /\ Carries(Echo(b, ident, num), b, ident, num)
  BY EchoCarries, CheckedCarries
<1>3. /\ Carries(build_echo_request_v4(ident, num), a, ident, num)
      /\ Carries(build_echo_request_v6(ident, num), b, ident, num)
  BY <1>1, <1>2 DEF build_echo_request_v4, build_echo_request_v6
<1>4. /\ Carries(OfType(c, build_echo_request_v4(ident, num)), c, ident, num)
      /\ Carries(OfType(d, build_echo_request_v6(ident, num)), d, ident, num)
  BY <1>3, OfTypeCarries
<1> QED
  BY <1>1, <1>3, <1>4

LEMMA V4Takes ==
    ASSUME NEW ip \in Ipv4Headers, NEW m, NEW type \in {0, 8},
           NEW ident \in Words, NEW num \in Words, Carries(m, type, ident, num),
           NEW mine \in Words, NEW own \in Words
    PROVE  is_valid_echo_reply_v4(ip \o m, mine, own) <=> type = 0 /\ ident = mine /\ num = own
<1>1. m \in Packet /\ Len(m) > 0 /\ m[1] = type /\ type \div 16 # 4
  BY DEF Carries
<1>2. type \in Octets /\ 0 \in Octets
  BY TypesAreOctets
<1>3. is_valid_echo_reply_v4(ip \o m, mine, own) <=> ReplyAt(m, 0, 0, mine, own)
  BY <1>1, V4Validator
<1>4. ReplyAt(m, 0, 0, mine, own) <=> type = 0 /\ ident = mine /\ num = own
  BY <1>2, CarriesOne
<1> QED
  BY <1>3, <1>4

LEMMA V6Takes ==
    ASSUME NEW ip \in Ipv6Headers, NEW m, NEW type \in {128, 129},
           NEW ident \in Words, NEW num \in Words, Carries(m, type, ident, num),
           NEW mine \in Words, NEW own \in Words
    PROVE  is_valid_echo_reply_v6(ip \o m, mine, own) <=> type = 129 /\ ident = mine /\ num = own
<1>1. m \in Packet /\ Len(m) > 0 /\ m[1] = type /\ type \div 16 # 6
  BY DEF Carries
<1>2. type \in Octets /\ 129 \in Octets
  BY TypesAreOctets
<1>3. is_valid_echo_reply_v6(ip \o m, mine, own) <=> ReplyAt(m, 0, 129, mine, own)
  BY <1>1, V6Validator
<1>4. ReplyAt(m, 0, 129, mine, own) <=> type = 129 /\ ident = mine /\ num = own
  BY <1>2, CarriesOne
<1> QED
  BY <1>3, <1>4

(* Neither an error about a request nor a reply cut short is taken. *)
LEMMA UnreachableType ==
    ASSUME NEW type \in Octets, NEW header \in Packet, NEW m \in Packet
    PROVE  LET p == Unreachable(type, header, m)
           IN  p \in Packet /\ Len(p) > 0 /\ p[1] = type
<1>1. PICK e : e = <<type>> \o Zeros(7)
  OBVIOUS
<1>2. e \in Packet /\ Len(e) > 0 /\ e[1] = type
  <2>1. PICK n \in Nat : n = 7
    OBVIOUS
  <2>2. e = <<type>> \o Zeros(n)
    BY <1>1, <2>1
  <2> QED
    BY <2>2, FirstAndZeros
<1>3. e \o header \in Packet /\ Len(e \o header) > 0 /\ (e \o header)[1] = type
  <2>1. Len(header) \in Nat /\ Len(e) \in Nat
    BY <1>2 DEF Packet
  <2> QED
    BY <1>2, <2>1, BehindHeader
<1>4. PICK f \in Packet : f = e \o header
  BY <1>3
<1>5. f \o m \in Packet /\ Len(f \o m) > 0 /\ (f \o m)[1] = type
  <2>1. Len(m) \in Nat /\ Len(f) > 0 /\ f[1] = type /\ Len(f) \in Nat
    BY <1>3, <1>4 DEF Packet
  <2> QED
    BY <2>1, BehindHeader
<1> QED
  BY <1>1, <1>4, <1>5 DEF Unreachable

LEMMA CutShort ==
    ASSUME NEW m \in Packet, Len(m) = 12
    PROVE  LET p == SubSeq(m, 1, 7)
           IN  p \in Packet /\ Len(p) = 7 /\ p[1] = m[1]
<1>1. PICK p : p = SubSeq(m, 1, 7)
  OBVIOUS
<1>2. ASSUME NEW i \in 1..7 PROVE m[i] \in Octets
  <2>1. i \in 1..Len(m)
    OBVIOUS
  <2> QED
    BY <2>1, ElementOfSeq DEF Packet
<1>3. /\ p \in Seq(Octets) /\ Len(p) = (IF 1 <= 7 THEN 7 - 1 + 1 ELSE 0)
      /\ \A i \in 1..(7 - 1 + 1) : p[i] = m[1 + i - 1]
  BY <1>1, <1>2, SubSeqProperties
<1>4. 1 \in 1..(7 - 1 + 1) /\ 1 + 1 - 1 = 1
  OBVIOUS
<1> QED
  BY <1>1, <1>3, <1>4 DEF Packet

LEMMA V4Refuses ==
    ASSUME NEW ip \in Ipv4Headers, NEW ident \in Words, NEW num \in Words,
           NEW mine \in Words, NEW own \in Words
    PROVE  LET req == build_echo_request_v4(ident, num)
               takes(data) == is_valid_echo_reply_v4(ip \o data, mine, own)
           IN  /\ ident # mine => ~takes(OfType(0, req))
               /\ ~takes(req)
               /\ ~takes(Unreachable(3, Ipv4Header(5), req))
               /\ ~takes(SubSeq(OfType(0, req), 1, 7))
<1> DEFINE req == build_echo_request_v4(ident, num)
           takes(data) == is_valid_echo_reply_v4(ip \o data, mine, own)
<1>1. Carries(req, 8, ident, num) /\ Carries(OfType(0, req), 0, ident, num)
  BY RequestsCarry
<1> HIDE DEF req
<1>2. ident # mine => ~takes(OfType(0, req))
  BY <1>1, V4Takes
<1>3. ~takes(req)
  BY <1>1, V4Takes
<1>4. ~takes(Unreachable(3, Ipv4Header(5), req))
  <2>1. PICK t \in Octets, k \in 5..15 : t = 3 /\ k = 5
    BY TypesAreOctets
  <2>2. Ipv4Header(k) \in Packet /\ req \in Packet
    BY <1>1, V4Header DEF Carries
  <2>3. PICK p : p = Unreachable(t, Ipv4Header(k), req)
    OBVIOUS
  <2>4. p \in Packet /\ Len(p) > 0 /\ p[1] = t
    BY <2>2, <2>3, UnreachableType
  <2>5. p[1] \div 16 # 4 /\ ~ReplyAt(p, 0, 0, mine, own)
    <3>1. p[0 + 1] # 0
      BY <2>1, <2>4
    <3> QED
      BY <2>1, <2>4, <3>1 DEF ReplyAt
  <2>6. ~takes(p)
    BY <2>4, <2>5, V4Validator
  <2> QED
    BY <2>1, <2>3, <2>6
<1>5. ~takes(SubSeq(OfType(0, req), 1, 7))
  <2>1. PICK p : p = SubSeq(OfType(0, req), 1, 7)
    OBVIOUS
  <2>2. p \in Packet /\ Len(p) = 7 /\ p[1] = 0
    <3>1. OfType(0, req) \in Packet /\ Len(OfType(0, req)) = 12 /\ OfType(0, req)[1] = 0
      BY <1>1 DEF Carries
    <3> QED
      BY <2>1, <3>1, CutShort
  <2>3. p \in Packet /\ Len(p) > 0 /\ p[1] \div 16 # 4
    BY <2>2
  <2>4. ~ReplyAt(p, 0, 0, mine, own)
    BY <2>2 DEF ReplyAt
  <2>5. ~takes(p)
    BY <2>3, <2>4, V4Validator
  <2> QED
    BY <2>1, <2>5
<1> QED
  BY <1>2, <1>3, <1>4, <1>5 DEF req

LEMMA V6Refuses ==
    ASSUME NEW ip \in Ipv6Headers, NEW ident \in Words, NEW num \in Words,
           NEW mine \in Words, NEW own \in Words
    PROVE  LET req == build_echo_request_v6(ident, num)
               takes(data) == is_valid_echo_reply_v6(ip \o data, mine, own)
           IN  /\ ident # mine => ~takes(OfType(129, req))
               /\ ~takes(req)
               /\ ~takes(Unreachable(1, Ipv6Header, req))
               /\ ~takes(SubSeq(OfType(129, req), 1, 7))
<1> DEFINE req == build_echo_request_v6(ident, num)
           takes(data) == is_valid_echo_reply_v6(ip \o data, mine, own)
<1>1. Carries(req, 128, ident, num) /\ Carries(OfType(129, req), 129, ident, num)
  BY RequestsCarry
<1> HIDE DEF req
<1>2. ident # mine => ~takes(OfType(129, req))
  BY <1>1, V6Takes
<1>3. ~takes(req)
  BY <1>1, V6Takes
<1>4. ~takes(Unreachable(1, Ipv6Header, req))
  <2>1. PICK t \in Octets : t = 1
    BY TypesAreOctets
  <2>2. Ipv6Header \in Packet /\ req \in Packet
    BY <1>1, V6Header DEF Carries
  <2>3. PICK p : p = Unreachable(t, Ipv6Header, req)
    OBVIOUS
  <2>4. p \in Packet /\ Len(p) > 0 /\ p[1] = t
    BY <2>2, <2>3, UnreachableType
  <2>5. p[1] \div 16 # 6 /\ ~ReplyAt(p, 0, 129, mine, own)
    <3>1. p[0 + 1] # 129
      BY <2>1, <2>4
    <3> QED
      BY <2>1, <2>4, <3>1 DEF ReplyAt
  <2>6. ~takes(p)
    BY <2>4, <2>5, V6Validator
  <2> QED
    BY <2>1, <2>3, <2>6
<1>5. ~takes(SubSeq(OfType(129, req), 1, 7))
  <2>1. PICK p : p = SubSeq(OfType(129, req), 1, 7)
    OBVIOUS
  <2>2. p \in Packet /\ Len(p) = 7 /\ p[1] = 129
    <3>1. OfType(129, req) \in Packet /\ Len(OfType(129, req)) = 12 /\ OfType(129, req)[1] = 129
      BY <1>1 DEF Carries
    <3> QED
      BY <2>1, <3>1, CutShort
  <2>3. p \in Packet /\ Len(p) > 0 /\ p[1] \div 16 # 6
    BY <2>2
  <2>4. ~ReplyAt(p, 0, 129, mine, own)
    BY <2>2 DEF ReplyAt
  <2>5. ~takes(p)
    BY <2>3, <2>4, V6Validator
  <2> QED
    BY <2>1, <2>5
<1> QED
  BY <1>2, <1>3, <1>4, <1>5 DEF req

------------------------------------------------------------------------------
(* The numbers, as the packets carry them, stay apart as long as there are  *)
(* no more of them than words.                                              *)
LEMMA SpreadApart ==
    ASSUME SeqMod <= Word, NEW a \in Seqs, NEW b \in Seqs
    PROVE  Spread(a) \in Words /\ (Spread(a) = Spread(b) => a = b)
<1>1. PICK d \in Nat, w \in Nat : d = SeqMod - 1 /\ w = Word - 1 /\ d > 0 /\ d <= w
  BY ConstantsAssumption, WordType
<1>2. PICK q \in Nat, r \in 0..(d - 1) : q = w \div d /\ r = w % d /\ w = d * q + r
  BY <1>1, Division
<1>3. q > 0
  <2> SUFFICES ASSUME q = 0 PROVE FALSE
    OBVIOUS
  <2>1. d * q = 0
    BY <1>1
  <2> QED
    BY <1>1, <1>2, <2>1
<1>4. Spread(a) = a * q /\ Spread(b) = b * q
  BY <1>1, <1>2 DEF Spread
<1>5. a \in 0..d /\ b \in 0..d
  BY <1>1, ConstantsAssumption DEF Seqs
<1>6. a * q \in Words
  <2>1. PICK e \in Nat : d = a + e
    <3>1. d - a \in Nat /\ d = a + (d - a)
      BY <1>5
    <3> QED
      BY <3>1
  <2>2. d * q = a * q + e * q /\ e * q >= 0 /\ a * q >= 0
    BY <1>5, <2>1
  <2>3. a * q \in Nat /\ a * q <= w
    BY <1>2, <1>5, <2>2
  <2> QED
    BY <1>1, <2>3, WordType DEF Words
<1>7. a * q = b * q => a = b
  <2>1. a \in Int /\ b \in Int
    BY <1>5
  <2>2. a < b => q * a + q <= q * b
    BY <2>1, FactorUnique
  <2>3. b < a => q * b + q <= q * a
    BY <2>1, FactorUnique
  <2>4. q * a = a * q /\ q * b = b * q /\ q * a \in Int /\ q * b \in Int
    BY <2>1
  <2> QED
    BY <1>3, <2>1, <2>2, <2>3, <2>4
<1> QED
  BY <1>4, <1>6, <1>7

LEMMA IdentsAreWords == Idents \subseteq Words /\ 0 \in Idents
BY WordType DEF Idents, Words, Word

LEMMA VerdictsAgree ==
    ASSUME SeqMod <= Word, NEW own \in Seqs, NEW reply \in Seqs
    PROVE  Verdicts(own, reply) = {reply = own}
<1> DEFINE V4(ip, ident) == is_valid_echo_reply_v4(
                                ip \o OfType(0, build_echo_request_v4(ident, Spread(reply))),
                                ident, Spread(own))
           V6(ip, ident) == is_valid_echo_reply_v6(
                                ip \o OfType(129, build_echo_request_v6(ident, Spread(reply))),
                                ident, Spread(own))
<1>1. Spread(own) \in Words /\ Spread(reply) \in Words /\ (Spread(reply) = Spread(own) <=> reply = own)
  BY SpreadApart
<1>2. ASSUME NEW ip \in Ipv4Headers, NEW ident \in Idents PROVE V4(ip, ident) = (reply = own)
  <2>1. V4(ip, ident) <=> 0 = 0 /\ ident = ident /\ Spread(reply) = Spread(own)
    BY <1>1, IdentsAreWords, RequestsCarry, V4Takes
  <2>2. V4(ip, ident) \in BOOLEAN
    BY DEF is_valid_echo_reply_v4
  <2> QED
    BY <1>1, <2>1, <2>2
<1>3. ASSUME NEW ip \in Ipv6Headers, NEW ident \in Idents PROVE V6(ip, ident) = (reply = own)
  <2>1. V6(ip, ident) <=> 129 = 129 /\ ident = ident /\ Spread(reply) = Spread(own)
    BY <1>1, IdentsAreWords, RequestsCarry, V6Takes
  <2>2. V6(ip, ident) \in BOOLEAN
    BY DEF is_valid_echo_reply_v6
  <2> QED
    BY <1>1, <2>1, <2>2
<1>4. Verdicts(own, reply) = {V4(ip, ident) : ip \in Ipv4Headers, ident \in Idents}
                             \cup {V6(ip, ident) : ip \in Ipv6Headers, ident \in Idents}
  BY DEF Verdicts
<1>5. <<>> \in Ipv4Headers /\ 0 \in Idents
  BY IdentsAreWords DEF Ipv4Headers
<1> HIDE DEF V4, V6
<1> QED
  BY <1>2, <1>3, <1>4, <1>5

(* The packets do what IsValid says of them, for every two probes. *)
LEMMA ProbeIsSound ==
    ASSUME SeqMod <= Word, NEW own \in Seqs
    PROVE  /\ own \in Checks
           /\ own \notin AcceptsForeign
           /\ own \in Taken[own]
           /\ \A reply \in Seqs : reply # own => reply \in Refused[own]
<1>1. Spread(own) \in Words
  BY SpreadApart
<1>2. own \in Checks
  <2>1. ASSUME NEW ident \in Idents
        PROVE  icmp_checksum(build_echo_request_v4(ident, Spread(own))) = 0
    <3>1. PICK e : e = Echo(8, ident, Spread(own))
      OBVIOUS
    <3>2. Carries(e, 8, ident, Spread(own)) /\ e[3] = 0 /\ e[4] = 0
      BY <1>1, <3>1, IdentsAreWords, TypesAreOctets, EchoCarries
    <3>3. e \in Seq(Octets) /\ Len(e) >= 4
      BY <3>2 DEF Carries, Packet
    <3>4. icmp_checksum(Checked(e)) = 0
      BY <3>2, <3>3, ChecksumVerifies
    <3> QED
      BY <3>1, <3>4 DEF build_echo_request_v4
  <2> QED
    BY <2>1 DEF Checks
<1>3. own \notin AcceptsForeign
  <2>1. ~Foreign(own)
    BY <1>1, IdentsAreWords, V4Refuses, V6Refuses DEF Foreign
  <2> QED
    BY <2>1 DEF AcceptsForeign
<1>4. own \in Taken[own]
  BY VerdictsAgree DEF Taken
<1>5. \A reply \in Seqs : reply # own => reply \in Refused[own]
  BY VerdictsAgree DEF Refused
<1> QED
  BY <1>2, <1>3, <1>4, <1>5

(* As long as SEQ has no more numbers than the packets' 16 bits can carry,  *)
(* every request that is sent has a correct checksum, and the validators    *)
(* take of all that arrives, behind any IP header, what IsValid takes.      *)
THEOREM PacketsAgree ==
    ASSUME SeqMod <= Word
    PROVE  Spec => []CodecAgrees
<1>1. TypeOK => CodecAgrees
  <2> SUFFICES ASSUME TypeOK, NEW h \in Hosts, pc[h] \in {"send", "recv"}
               PROVE  /\ probe[h].seq \in Checks
                      /\ probe[h].seq \notin AcceptsForeign
                      /\ \A r \in inbox[h] :
                            IF IsValid(r, probe[h]) THEN r.seq \in Taken[probe[h].seq]
                                                    ELSE r.seq \in Refused[probe[h].seq]
    BY DEF CodecAgrees
  <2>1. probe[h].seq \in Seqs /\ \A r \in inbox[h] : r.seq \in Seqs
    BY DEF TypeOK, Probes, Replies
  <2> QED
    BY <2>1, ProbeIsSound DEF IsValid
<1> QED
  BY <1>1, TypeCorrect, PTL
==============================================================================
