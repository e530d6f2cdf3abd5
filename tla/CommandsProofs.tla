---------------------------- MODULE CommandsProofs ----------------------------
(***************************************************************************)
(* Theorems about the machines of the commands, each for every value of its *)
(* constants.                                                               *)
(***************************************************************************)
EXTENDS MCCommands, FiniteSums, SequenceTheorems, TLAPS

LEMMA AppendMember ==
    ASSUME NEW S, NEW s \in Seq(S), NEW e \in S
    PROVE  Append(s, e) \in Seq(S)
OBVIOUS

------------------------------------------------------------------------------
(* DnsLookup *)

Lookups == [attempt : 1..MaxAttempts, elapsed : Nat, tried : Nat, due : 0..Late,
            reply : Answers \cup {Nil}, fast : BOOLEAN]

Results == [status : {"Success", "NotFound", "Error"}, kind : Final \cup {"gaveup", "timeout"},
            domain : 1..DnsDomains, latency : Nat, attempt : 1..MaxAttempts, fast : BOOLEAN]

(* What LookupClassified says of one result. *)
Classified(r) ==
    /\ r.attempt > 1 /\ r.kind # "timeout" => r.fast
    /\ r.latency <= DnsTimeout + Late
    /\ r.kind \in {"nodata", "gaveup", "timeout"} => r.status = "Error"

GoodResults == {r \in Results : Classified(r)}

(* A lookup lasts longer than its timeout only while its poll is due, and   *)
(* an attempt no longer than the lookup; while the lookup goes on, another  *)
(* attempt was begun only after one that failed before its timeout.         *)
LookupOk(l) ==
    /\ l \in Lookups
    /\ l.tried <= l.elapsed
    /\ l.elapsed <= DnsTimeout + l.due
    /\ l.attempt > 1 => l.fast

(* tokio's handler is there before the first result only while the loop     *)
(* waits, and then a Ctrl-C is heard.                                       *)
LoopOk ==
    /\ dnsMain \in {"turn", "wait", "printing", "ended"}
    /\ handler \in BOOLEAN /\ ctrlC \in {"none", "heard", "lost"}
    /\ handler /\ dnsMain \in {"turn", "printing"} => shown # <<>>
    /\ ctrlC = "lost" => shown # <<>>

DnsInv ==
    /\ dns \in [pc : {"ask", "lookup", "returned"}, domain : 1..DnsDomains, done : Nat]
    /\ LookupOk(lookup)
    /\ results \in Seq(GoodResults) /\ shown \in Seq(GoodResults)
    /\ LoopOk

LEMMA NewLookupOk == LookupOk(NewLookup)
BY DnsAssumption DEF LookupOk, NewLookup, Lookups, Answers, Final, Nil

(* The resolver's future, polled: it is done, and then on the attempt on    *)
(* which it was; or it goes on, with another attempt after a failure.       *)
LEMMA ResolverOk ==
    ASSUME NEW l, LookupOk(l), l = lookup
    PROVE  LET n == Resolver(l)
           IN  /\ n.elapsed = l.elapsed /\ n.due = l.due /\ n.tried \in 0..l.tried
               /\ n \in [attempt : 1..MaxAttempts, elapsed : Nat, tried : Nat, due : 0..Late,
                         reply : Answers \cup {Nil, "gaveup"}, fast : BOOLEAN]
               /\ n.reply \in Final \cup {"gaveup"} => (n.attempt > 1 => n.fast)
               /\ n.reply \notin Final \cup {"gaveup"} =>
                     /\ n.reply \in Answers \cup {Nil}
                     /\ n.elapsed < DnsTimeout => (n.attempt > 1 => n.fast)
<1> DEFINE n == Resolver(l)
<1>1. /\ l.attempt \in 1..MaxAttempts /\ l.elapsed \in Nat /\ l.tried \in Nat /\ l.due \in 0..Late
      /\ l.reply \in Answers \cup {Nil} /\ l.fast \in BOOLEAN
      /\ l.tried <= l.elapsed /\ (l.attempt > 1 => l.fast)
      /\ l \in Lookups
  BY DEF LookupOk, Lookups
<1>2. CASE l.reply \in Final \/ ~AttemptOver(l)
  <2>1. n = l
    BY <1>2 DEF Resolver
  <2> QED
    BY <1>1, <2>1 DEF Lookups, Answers, Final
<1>3. CASE ~(l.reply \in Final \/ ~AttemptOver(l)) /\ LastAttempt(l)
  <2>1. n = [l EXCEPT !.reply = "gaveup"]
    BY <1>3 DEF Resolver
  <2> QED
    BY <1>1, <2>1 DEF Lookups
<1>4. CASE ~(l.reply \in Final \/ ~AttemptOver(l)) /\ ~LastAttempt(l)
  <2>1. n = [l EXCEPT !.attempt = @ + 1, !.tried = 0, !.reply = Nil,
                      !.fast = l.tried < DnsTimeout]
    BY <1>4 DEF Resolver
  <2>2. PICK a \in 1..MaxAttempts, b \in BOOLEAN :
           n = [l EXCEPT !.attempt = a, !.tried = 0, !.reply = Nil, !.fast = b]
           /\ (l.tried < DnsTimeout => b)
    <3>1. l.attempt + 1 \in 1..MaxAttempts /\ (l.tried < DnsTimeout) \in BOOLEAN
      BY <1>1, <1>4, DnsAssumption DEF LastAttempt
    <3> QED
      BY <2>1, <3>1, Zenon
  <2>3. /\ n.elapsed = l.elapsed /\ n.tried = 0
        /\ n.due = l.due /\ n.reply = Nil /\ n.fast = b
        /\ n \in Lookups
    <3> HIDE DEF n
    <3>1. 0 \in Nat /\ l \in Lookups
      BY <1>1
    <3>2. n.elapsed = l.elapsed /\ n.tried = 0 /\ n.due = l.due /\ n.reply = Nil
      BY <2>2, <3>1 DEF Lookups
    <3>3. n.fast = b
      BY <2>2, <3>1 DEF Lookups
    <3>4. n \in Lookups
      BY <2>2, <3>1 DEF Lookups
    <3> QED
      BY <3>2, <3>3, <3>4
  <2> HIDE DEF n
  <2>4. n.reply \notin Final \cup {"gaveup"}
    BY <2>3 DEF Nil, Final
  <2>5. n.elapsed < DnsTimeout => n.fast
    BY <1>1, <2>2, <2>3, DnsAssumption
  <2>6. n.reply \in Answers \cup {Nil} /\ Lookups \subseteq
           [attempt : 1..MaxAttempts, elapsed : Nat, tried : Nat, due : 0..Late,
            reply : Answers \cup {Nil, "gaveup"}, fast : BOOLEAN]
    BY <2>3 DEF Lookups
  <2>7. n.tried \in 0..l.tried
    BY <1>1, <2>3
  <2> QED
    BY <2>3, <2>4, <2>5, <2>6, <2>7 DEF n
<1> QED
  BY <1>2, <1>3, <1>4

LEMMA PollOk ==
    ASSUME DnsInv, Poll
    PROVE  DnsInv'
<1> DEFINE n == Resolver(lookup)
           over == n.reply \in Final \cup {"gaveup"}
           kind == IF over THEN n.reply ELSE "timeout"
<1>1. LookupOk(lookup) /\ lookup.elapsed \in Nat /\ lookup.elapsed <= DnsTimeout + Late
  BY DnsAssumption DEF DnsInv, LookupOk, Lookups
<1>2. /\ n.elapsed = lookup.elapsed /\ n.due = lookup.due /\ n.tried \in 0..lookup.tried
      /\ n \in [attempt : 1..MaxAttempts, elapsed : Nat, tried : Nat, due : 0..Late,
                reply : Answers \cup {Nil, "gaveup"}, fast : BOOLEAN]
      /\ over => (n.attempt > 1 => n.fast)
      /\ ~over => /\ n.reply \in Answers \cup {Nil}
                  /\ n.elapsed < DnsTimeout => (n.attempt > 1 => n.fast)
  BY <1>1, ResolverOk
<1> HIDE DEF n
<1>3. CASE over \/ OuterExpired(n)
  <2>1. Result(n, kind) \in GoodResults
    <3>1. kind \in Final \cup {"gaveup", "timeout"} /\ (kind # "timeout" => over)
      BY DEF Final
    <3>2. /\ Status(kind) \in {"Success", "NotFound", "Error"}
          /\ kind \in {"nodata", "gaveup", "timeout"} => Status(kind) = "Error"
      BY DEF Status
    <3>3. Result(n, kind) \in Results
      BY <1>2, <3>1, <3>2 DEF Result, Results, DnsInv
    <3>4. Classified(Result(n, kind))
      BY <1>1, <1>2, <3>1, <3>2 DEF Result, Classified
    <3> QED
      BY <3>3, <3>4 DEF GoodResults
  <2>2. /\ results' = IF dnsMain = "ended" THEN results ELSE Append(results, Result(n, kind))
        /\ dns' = [pc     |-> IF dnsMain = "ended" THEN "returned" ELSE "ask",
                   domain |-> IF dns.domain = DnsDomains THEN 1 ELSE dns.domain + 1,
                   done   |-> dns.done + 1]
        /\ lookup' = lookup /\ UNCHANGED <<dnsMain, handler, ctrlC, shown>>
    BY <1>3 DEF Poll, n
  <2>3. results' \in Seq(GoodResults)
    BY <2>1, <2>2, AppendMember DEF DnsInv
  <2>4. dns' \in [pc : {"ask", "lookup", "returned"}, domain : 1..DnsDomains, done : Nat]
    BY <2>2, DnsAssumption DEF DnsInv
  <2> QED
    BY <2>2, <2>3, <2>4 DEF DnsInv, LoopOk
<1>4. CASE ~(over \/ OuterExpired(n))
  <2>1. /\ lookup' = [n EXCEPT !.due = 0]
        /\ UNCHANGED <<results, dns, dnsMain, handler, ctrlC, shown>>
    BY <1>4 DEF Poll, n
  <2>2. n.elapsed < DnsTimeout
    BY <1>2, <1>4, DnsAssumption DEF OuterExpired
  <2>3. LookupOk(lookup')
    BY <1>1, <1>2, <1>4, <2>1, <2>2, DnsAssumption DEF LookupOk, Lookups
  <2> QED
    BY <2>1, <2>3 DEF DnsInv, LoopOk
<1> QED
  BY <1>3, <1>4

LEMMA DnsTickOk ==
    ASSUME DnsInv, DnsTick
    PROVE  DnsInv'
<1>1. /\ lookup \in Lookups /\ lookup.elapsed \in Nat /\ lookup.due \in 0..Late
      /\ lookup.tried \in Nat /\ LookupOk(lookup)
  BY DEF DnsInv, LookupOk, Lookups
<1>2. PICK due : /\ lookup' = [lookup EXCEPT !.elapsed = @ + 1, !.tried = @ + 1, !.due = due]
                 /\ due = IF PollDue(lookup) THEN lookup.due + 1 ELSE 0
  BY DEF DnsTick
<1>3. due \in 0..Late /\ lookup.elapsed + 1 <= DnsTimeout + due
  <2>1. CASE PollDue(lookup)
    BY <1>1, <1>2, <2>1, DnsAssumption DEF DnsTick, LookupOk
  <2>2. CASE ~PollDue(lookup)
    BY <1>1, <1>2, <2>2, DnsAssumption DEF PollDue, OuterExpired
  <2> QED
    BY <2>1, <2>2
<1>4. /\ lookup'.elapsed = lookup.elapsed + 1 /\ lookup'.tried = lookup.tried + 1
      /\ lookup'.due = due /\ lookup'.attempt = lookup.attempt /\ lookup'.fast = lookup.fast
      /\ lookup' \in Lookups
  <2>1. PICK e \in Nat, t \in Nat : e = lookup.elapsed + 1 /\ t = lookup.tried + 1
    BY <1>1
  <2>2. lookup' = [lookup EXCEPT !.elapsed = e, !.tried = t, !.due = due]
    BY <1>2, <2>1
  <2> QED
    BY <1>1, <1>3, <2>1, <2>2 DEF Lookups
<1>5. LookupOk(lookup')
  BY <1>1, <1>3, <1>4 DEF LookupOk
<1> QED
  BY <1>5 DEF DnsInv, DnsTick, LoopOk

LEMMA DnsInvInit == ASSUME DnsInit PROVE DnsInv
<1>1. <<>> \in Seq(GoodResults)
  OBVIOUS
<1>2. LoopOk
  BY DEF DnsInit, HandlerAtStart, LoopOk
<1>3. dns \in [pc : {"ask", "lookup", "returned"}, domain : 1..DnsDomains, done : Nat]
  BY DnsAssumption DEF DnsInit
<1> QED
  BY <1>1, <1>2, <1>3, NewLookupOk DEF DnsInit, DnsInv

LEMMA DnsInvStep == ASSUME DnsInv, [DnsNext]_dnsVars PROVE DnsInv'
<1>1. CASE UNCHANGED dnsVars
  BY <1>1 DEF dnsVars, DnsInv, LoopOk
<1>2. CASE Ask
  BY <1>2, NewLookupOk DEF Ask, DnsInv, LoopOk
<1>3. CASE Answered
  <2>1. PICK a \in Answers : lookup' = [lookup EXCEPT !.reply = a]
    BY <1>3 DEF Answered
  <2>2. LookupOk(lookup')
    BY <2>1 DEF DnsInv, LookupOk, Lookups
  <2> QED
    BY <1>3, <2>2 DEF Answered, DnsInv, LoopOk
<1>4. ASSUME results # <<>>, TakeResult, handler' \in BOOLEAN, ctrlC' \in {"none", "heard", "lost"},
             UNCHANGED <<dns, lookup>>
      PROVE  DnsInv'
  <2>1. /\ Head(results) \in GoodResults /\ Tail(results) \in Seq(GoodResults)
        /\ shown \in Seq(GoodResults)
    BY <1>4 DEF DnsInv
  <2>2. /\ shown' \in Seq(GoodResults) /\ shown' # <<>>
        /\ results' \in Seq(GoodResults) /\ dnsMain' = "printing"
    BY <1>4, <2>1, AppendMember DEF TakeResult
  <2> QED
    BY <1>4, <2>2 DEF DnsInv, LoopOk
<1>5. CASE Turn
  <2>1. CASE results # <<>> /\ TakeResult /\ handler' \in {handler, TRUE}
    BY <1>4, <1>5, <2>1 DEF Turn, DnsInv, LoopOk
  <2>2. CASE results = <<>> /\ dnsMain' = "wait" /\ handler' = TRUE /\ UNCHANGED <<results, shown>>
    BY <1>5, <2>2 DEF Turn, DnsInv, LoopOk
  <2> QED
    BY <1>5, <2>1, <2>2 DEF Turn
<1>6. CASE Show
  BY <1>4, <1>6 DEF Show, DnsInv, LoopOk
<1>7. CASE Printed
  BY <1>7 DEF Printed, DnsInv, LoopOk
<1>8. CASE Break
  <2>1. <<>> \in Seq(GoodResults)
    OBVIOUS
  <2> QED
    BY <1>8, <2>1 DEF Break, DnsInv, LoopOk
<1>9. CASE Interrupt
  <2>1. <<>> \in Seq(GoodResults)
    OBVIOUS
  <2> QED
    BY <1>9, <2>1 DEF Interrupt, DnsInv, LoopOk
<1> QED
  BY <1>1, <1>2, <1>3, <1>5, <1>6, <1>7, <1>8, <1>9, PollOk, DnsTickOk DEF DnsNext, Loop

LEMMA DnsGiven == ASSUME DnsInv PROVE \A r \in Given : r \in GoodResults
BY DEF DnsInv, Given

LEMMA LookupClassifiedHolds == DnsInv => LookupClassified
<1> SUFFICES ASSUME DnsInv PROVE LookupClassified
  OBVIOUS
<1>1. \A r \in Given : Classified(r)
  BY DnsGiven DEF GoodResults
<1> QED
  BY <1>1 DEF LookupClassified, RetryOnlyAfterFailure, LookupBounded,
              FailureIsNotMissing, Classified

(* However many attempts there are and however the two timers race, a       *)
(* lookup ends in time, and in an error when it failed.                     *)
THEOREM LookupsClassified == DnsSpec => []LookupClassified
BY LookupClassifiedHolds, DnsInvInit, DnsInvStep, PTL DEF DnsSpec

LEMMA LostOnlyToResultsHolds == DnsInv => LostOnlyToResults
BY DEF DnsInv, LoopOk, LostOnlyToResults

(* A Ctrl-C in `dns` is lost only once a result was taken: until then every *)
(* press ends the command, however signal and results race.                 *)
THEOREM CtrlCLostToResults == DnsSpec => []LostOnlyToResults
BY LostOnlyToResultsHolds, DnsInvInit, DnsInvStep, PTL DEF DnsSpec

------------------------------------------------------------------------------
(* Shutdown *)

Longest == IF ResolveTime > ProbeTime THEN ResolveTime ELSE ProbeTime

Pings == [pc : {"sleep", "resolve", "probe"}, left : 0..Longest]

(* What the terminal is switched to, at each place of the main thread. *)
TerminalAt ==
    [enable_raw_mode |-> {}, EnterAlternateScreen |-> {"raw"},
     Terminal |-> {"raw", "alternate"}, draw |-> {"raw", "alternate"},
     poll |-> {"raw", "alternate"}, disable_raw_mode |-> {"raw", "alternate"},
     LeaveAlternateScreen |-> {"alternate"}, show_cursor |-> {}, select |-> {}]

(* The calls that block when the runtime is dropped are the only ones that  *)
(* it waits for, and what is left of each grows shorter as it waits.        *)
DownInv ==
    /\ ui \in DOMAIN TerminalAt \cup {"returned", "closing", "gone"}
    /\ failed \in BOOLEAN
    /\ terminal \subseteq {"raw", "alternate"}
    /\ IF ui \in DOMAIN TerminalAt THEN terminal = TerminalAt[ui] ELSE ~failed => terminal = {}
    /\ pinger \in [Pingers -> Pings]
    /\ waited \in 0..Longest /\ (~Closed => waited = 0)
    /\ Closed => \A i \in Busy : pinger[i].left + waited <= Longest

LEMMA LongestType == /\ Longest \in Nat /\ ResolveTime \in 0..Longest
                     /\ ProbeTime \in 0..Longest /\ 0 \in 0..Longest
BY DownAssumption DEF Longest

LEMMA DownInvInit == ASSUME DownInit PROVE DownInv
<1>1. ui \in DOMAIN TerminalAt /\ terminal = {} /\ TerminalAt[ui] = {}
  BY DEF DownInit, TerminalAt
<1>2. ~Closed
  BY DEF DownInit, Closed
<1>3. pinger \in [Pingers -> Pings]
  BY LongestType DEF DownInit, Pings
<1>4. failed = FALSE /\ waited = 0
  BY DEF DownInit
<1> QED
  BY <1>1, <1>2, <1>3, <1>4, LongestType DEF DownInv

LEMMA TerminalCallDown == ASSUME DownInv, TerminalCall PROVE DownInv'
<1>1. UNCHANGED <<failed, pinger, queued, waited>>
  BY DEF TerminalCall
<1>2. /\ ui' \in DOMAIN TerminalAt \cup {"returned"}
      /\ terminal' \subseteq {"raw", "alternate"}
      /\ IF ui' \in DOMAIN TerminalAt THEN terminal' = TerminalAt[ui'] ELSE terminal' = {}
  <2>1. CASE ui = "enable_raw_mode"
    BY <2>1 DEF TerminalCall, Steps, TerminalAt, DownInv
  <2>2. CASE ui = "EnterAlternateScreen"
    BY <2>2 DEF TerminalCall, Steps, TerminalAt, DownInv
  <2>3. CASE ui = "Terminal"
    BY <2>3 DEF TerminalCall, Steps, TerminalAt, DownInv
  <2>4. CASE ui = "disable_raw_mode"
    BY <2>4 DEF TerminalCall, Steps, TerminalAt, DownInv
  <2>5. CASE ui = "LeaveAlternateScreen"
    BY <2>5 DEF TerminalCall, Steps, TerminalAt, DownInv
  <2>6. CASE ui = "show_cursor"
    BY <2>6 DEF TerminalCall, Steps, TerminalAt, DownInv
  <2> QED
    BY <2>1, <2>2, <2>3, <2>4, <2>5, <2>6 DEF TerminalCall, Steps
<1>3. ~Closed /\ ~Closed'
  BY <1>2 DEF TerminalCall, Steps, TerminalAt, Closed
<1> QED
  BY <1>1, <1>2, <1>3 DEF DownInv

LEMMA MainDown ==
    ASSUME DownInv, TerminalFails \/ Draw \/ PollKeys \/ CtrlCInPing
    PROVE  DownInv'
<1>1. UNCHANGED <<terminal, pinger, waited>> /\ ~Closed /\ ~Closed'
  BY DEF TerminalFails, Draw, PollKeys, CtrlCInPing, Closed, Steps, AfterQuit
<1>2. /\ ui' \in DOMAIN TerminalAt \cup {"returned", "closing", "gone"} /\ failed' \in BOOLEAN
      /\ IF ui' \in DOMAIN TerminalAt THEN terminal' = TerminalAt[ui'] ELSE ~failed' => terminal' = {}
  <2>1. CASE TerminalFails
    BY <2>1 DEF TerminalFails, DownInv, TerminalAt
  <2>2. CASE Draw
    BY <2>2 DEF Draw, DownInv, TerminalAt
  <2>3. CASE PollKeys
    <3>1. ui = "poll" /\ ui' \in {"draw", "disable_raw_mode"} /\ UNCHANGED <<failed, terminal>>
      BY <2>3 DEF PollKeys, AfterQuit
    <3>2. /\ "poll" \in DOMAIN TerminalAt /\ ui' \in DOMAIN TerminalAt
          /\ TerminalAt[ui'] = TerminalAt["poll"]
      BY <3>1 DEF TerminalAt
    <3> QED
      BY <3>1, <3>2 DEF DownInv
  <2>4. CASE CtrlCInPing
    BY <2>4 DEF CtrlCInPing, DownInv, TerminalAt
  <2> QED
    BY <2>1, <2>2, <2>3, <2>4
<1> QED
  BY <1>1, <1>2 DEF DownInv

LEMMA ClosingDown == ASSUME DownInv, CloseRuntime \/ Exit PROVE DownInv'
<1>1. UNCHANGED <<failed, terminal, pinger, queued, waited>> /\ Busy' = Busy
      /\ ui \in {"returned", "closing"} /\ ui' \in {"closing", "gone"} /\ Closed'
  BY DEF CloseRuntime, Exit, Busy, Closed
<1>2. \A i \in Busy : pinger[i].left + waited <= Longest
  <2>1. CASE CloseRuntime
    <3>1. waited = 0
      BY <2>1 DEF CloseRuntime, Closed, DownInv
    <3> QED
      BY <3>1, LongestType DEF DownInv, Busy, Pings
  <2>2. CASE Exit
    BY <2>2 DEF Exit
  <2> QED
    BY <2>1, <2>2
<1>3. ui \notin DOMAIN TerminalAt /\ ui' \notin DOMAIN TerminalAt
  BY <1>1 DEF TerminalAt
<1> QED
  BY <1>1, <1>2, <1>3 DEF DownInv

(* A task that enters a call does so only before the runtime is dropped.    *)
LEMMA TaskDown ==
    ASSUME DownInv, NEW i \in Pingers, StartResolve(i) \/ EndResolve(i) \/ EndProbe(i)
    PROVE  DownInv'
<1>1. UNCHANGED <<ui, failed, terminal, queued, waited>> /\ Closed' = Closed
  BY DEF StartResolve, EndResolve, EndProbe, Closed
<1>2. PICK where \in {"sleep", "resolve", "probe"}, time \in 0..Longest :
         Enter(i, where, time) /\ (Closed => where = "sleep")
  BY LongestType DEF StartResolve, EndResolve, EndProbe, Polls, Resolved
<1>3. pinger' = [pinger EXCEPT ![i] = [pc |-> where, left |-> time]] /\ pinger \in [Pingers -> Pings]
  BY <1>2 DEF Enter, DownInv
<1>4. pinger' \in [Pingers -> Pings]
  BY <1>3 DEF Pings
<1>5. Closed => \A j \in Busy' : j \in Busy /\ pinger'[j] = pinger[j]
  BY <1>2, <1>3 DEF Busy
<1> QED
  BY <1>1, <1>4, <1>5 DEF DownInv

LEMMA TimeDown == ASSUME DownInv, TimePasses PROVE DownInv'
<1>1. UNCHANGED <<ui, failed, terminal, queued>> /\ Closed' = Closed
      /\ pinger \in [Pingers -> Pings] /\ waited \in Nat
  BY DEF TimePasses, Closed, DownInv
<1>2. ASSUME NEW i \in Pingers
      PROVE  /\ pinger'[i] \in Pings
             /\ i \in Busy' => i \in Busy /\ pinger'[i].left + 1 = pinger[i].left
  <2>1. pinger[i] \in Pings /\ pinger'[i] = Passed(i)
    BY <1>1 DEF TimePasses
  <2>2. CASE i \in Busy
    <3>1. pinger[i].left > 0 /\ pinger[i].left \in 0..Longest
      BY <2>1, <2>2 DEF TimePasses, Pings
    <3>2. PICK n \in 0..Longest : n + 1 = pinger[i].left /\ n = pinger[i].left - 1
      BY <3>1, LongestType
    <3>3. pinger'[i] = [pinger[i] EXCEPT !.left = n]
      BY <2>1, <2>2, <3>2 DEF Passed
    <3>4. pinger'[i] \in Pings /\ pinger'[i].left = n
      BY <2>1, <3>3 DEF Pings
    <3> QED
      BY <2>2, <3>2, <3>4
  <2>3. CASE i \notin Busy
    <3>1. pinger'[i] = pinger[i]
      BY <2>1, <2>3 DEF Passed
    <3> QED
      BY <2>1, <2>3, <3>1 DEF Busy
  <2> QED
    BY <2>2, <2>3
<1>3. pinger' \in [Pingers -> Pings] /\ Busy' \subseteq Busy
  <2>1. pinger' = [i \in Pingers |-> Passed(i)]
    BY DEF TimePasses
  <2> QED
    BY <1>2, <2>1 DEF Busy
<1>4. /\ waited' \in 0..Longest /\ (~Closed' => waited' = 0)
      /\ Closed' => \A i \in Busy' : pinger'[i].left + waited' <= Longest
  <2>1. CASE ui = "closing"
    <3>1. PICK b \in Busy : pinger[b].left > 0
      BY <2>1 DEF TimePasses
    <3>2. waited' = waited + 1 /\ Closed
      BY <2>1 DEF TimePasses, Closed
    <3>3. \A i \in Busy : pinger[i].left \in Nat /\ pinger[i].left + waited <= Longest
      BY <1>1, <3>2 DEF DownInv, Busy, Pings
    <3>4. waited' \in 0..Longest
      BY <1>1, <3>1, <3>2, <3>3, LongestType
    <3>5. ASSUME NEW i \in Busy' PROVE pinger'[i].left + waited' <= Longest
      <4>1. i \in Pingers /\ i \in Busy
        BY <1>3 DEF Busy
      <4>2. pinger'[i].left + 1 = pinger[i].left /\ pinger'[i].left \in Nat
        BY <1>2, <1>3, <4>1 DEF Pings
      <4> QED
        BY <1>1, <3>2, <3>3, <4>1, <4>2, LongestType
    <3> QED
      BY <1>1, <3>2, <3>4, <3>5
  <2>2. CASE ui # "closing"
    <3>1. waited' = waited /\ ui # "gone"
      BY <2>2 DEF TimePasses
    <3> QED
      BY <1>1, <2>2, <3>1 DEF DownInv, Closed
  <2> QED
    BY <2>1, <2>2
<1> QED
  BY <1>1, <1>3, <1>4 DEF DownInv

LEMMA DownInvStep == ASSUME DownInv, [DownNext]_downVars PROVE DownInv'
<1>1. CASE UNCHANGED downVars
  BY <1>1 DEF downVars, DownInv, Closed, Busy
<1>2. CASE EngineSends \/ RelayTakes
  BY <1>2 DEF EngineSends, RelayTakes, DownInv, Closed, Busy
<1> QED
  BY <1>1, <1>2, TerminalCallDown, MainDown, ClosingDown, TaskDown, TimeDown DEF DownNext, Main

LEMMA LeavesInOrderHolds == DownInv => LeavesInOrder
<1> SUFFICES ASSUME DownInv PROVE LeavesInOrder
  OBVIOUS
<1>1. ExitBounded
  BY LongestType DEF DownInv, ExitBounded, Longest
<1>2. TerminalRestored
  BY DEF DownInv, TerminalRestored, TerminalAt
<1> QED
  BY <1>1, <1>2 DEF LeavesInOrder

(* The process is gone within the longest of its blocking calls after main  *)
(* returns, and leaves the terminal as it was unless main failed.           *)
THEOREM LeavingInOrder == DownSpec => []LeavesInOrder
BY LeavesInOrderHolds, DownInvInit, DownInvStep, PTL DEF DownSpec

------------------------------------------------------------------------------
(* LiveExport *)

(* All tokens.  (No prover knows that a literal is in STRING.) *)
Words == STRING \cup {",", "timestamp", "host", "rtt_ms", "loss_pct", "modo"}

LEMMA WordsTexts ==
    ASSUME NEW s \in Seq(STRING)
    PROVE  s \in Seq(Words)
<1>1. s \in [1..Len(s) -> STRING] /\ Len(s) \in Nat
  OBVIOUS
<1>2. s \in [1..Len(s) -> Words]
  BY <1>1 DEF Words
<1> QED
  BY <1>1, <1>2

LEMMA ShortTexts ==
    ASSUME NEW S, NEW a \in S, NEW b \in S, NEW c \in S, NEW d \in S
    PROVE  /\ <<a>> \in Seq(S) /\ Len(<<a>>) = 1
           /\ <<a, b>> \in Seq(S) /\ Len(<<a, b>>) = 2
           /\ <<a, b, c, d>> \in Seq(S) /\ Len(<<a, b, c, d>>) = 4
OBVIOUS

LEMMA HeaderText == CSV_HEADER \in Seq(Words)
<1>1. ASSUME NEW S, NEW a \in S, NEW b \in S, NEW c \in S, NEW d \in S, NEW e \in S, NEW f \in S
      PROVE  <<a, b, c, b, d, b, e, b, f>> \in Seq(S)
  OBVIOUS
<1>2. /\ "timestamp" \in Words /\ "," \in Words /\ "host" \in Words
      /\ "rtt_ms" \in Words /\ "loss_pct" \in Words /\ "modo" \in Words
  BY DEF Words
<1> QED
  BY <1>1, <1>2 DEF CSV_HEADER

LEMMA FirstStays ==
    ASSUME NEW S, NEW s \in Seq(S), NEW t \in Seq(S), Len(s) > 0
    PROVE  s \o t \in Seq(S) /\ Len(s \o t) > 0 /\ (s \o t)[1] = s[1]
OBVIOUS

LEMMA JoinedRows ==
    ASSUME NEW S, NEW s \in Seq(S), NEW t \in Seq(S)
    PROVE  /\ s \o t \in Seq(S) /\ Len(s \o t) = Len(s) + Len(t)
           /\ \A i \in 1..Len(s) : (s \o t)[i] = s[i]
           /\ \A i \in 1..Len(t) : (s \o t)[Len(s) + i] = t[i]
OBVIOUS

(* A row begins with a number, and so is no header. *)
LEMMA RowIsNoHeader ==
    ASSUME NEW t \in Seconds, NEW s \in Samples
    PROVE  csv_row(t, s) \in Seq(Words) /\ csv_row(t, s) # CSV_HEADER
<1>1. ToText(t) \in Words /\ ToText(t) # "timestamp"
  <2>1. Len(Numeral) \in Nat /\ t + 1 \in 1..Len(Numeral) /\ Numeral \in Seq(STRING)
    <3>1. Numeral \in Seq(STRING)
      BY CodecAssumption
    <3> QED
      BY <3>1 DEF Seconds
  <2>2. Numeral[t + 1] \in STRING /\ Numeral[t + 1] # "timestamp"
    BY <2>1, LiveAssumption
  <2> QED
    BY <2>2 DEF ToText, Words
<1>2. /\ s.host \in Seq(Words) /\ s.rtt \in Seq(Words) /\ s.loss \in Words /\ s.modo \in Words
      /\ "," \in Words
  BY WordsTexts DEF Samples, Words
<1> DEFINE a == <<ToText(t), ",">>
           b == a \o s.host
           c == b \o <<",">>
           d == c \o s.rtt
<1>3. a \in Seq(Words) /\ Len(a) > 0 /\ a[1] = ToText(t)
  <2>1. a \in Seq(Words) /\ Len(a) = 2
    BY <1>1, <1>2, ShortTexts
  <2>2. a[1] = ToText(t)
    OBVIOUS
  <2> HIDE DEF a
  <2> QED
    BY <2>1, <2>2
<1> HIDE DEF a
<1>4. b \in Seq(Words) /\ Len(b) > 0 /\ b[1] = ToText(t)
  BY <1>2, <1>3, FirstStays
<1> HIDE DEF b
<1>5. c \in Seq(Words) /\ Len(c) > 0 /\ c[1] = ToText(t)
  <2>1. <<",">> \in Seq(Words)
    BY <1>2, ShortTexts
  <2> QED
    BY <1>4, <2>1, FirstStays
<1> HIDE DEF c
<1>6. d \in Seq(Words) /\ Len(d) > 0 /\ d[1] = ToText(t)
  BY <1>2, <1>5, FirstStays
<1> HIDE DEF d
<1> DEFINE z == <<",", s.loss, ",", s.modo>>
<1>7. z \in Seq(Words)
  BY <1>2, ShortTexts
<1>8. csv_row(t, s) = d \o z
  BY DEF csv_row, a, b, c, d
<1> HIDE DEF z
<1>9. csv_row(t, s) \in Seq(Words) /\ csv_row(t, s)[1] = ToText(t)
  BY <1>6, <1>7, <1>8, FirstStays
<1>10. CSV_HEADER[1] = "timestamp"
  BY DEF CSV_HEADER
<1> QED
  BY <1>1, <1>9, <1>10

Exporters == [pc : {"off", "idle", "ping", "ended"}, fresh : BOOLEAN, arrival : Seq(Brought)]

LiveTypes ==
    /\ csv \in Seq(Seq(Words))
    /\ arrivals \in Seq(Brought)
    /\ exporter \in [Dashboards -> Exporters]
    /\ \A d \in Dashboards : exporter[d].pc = "ping" =>
          /\ Len(exporter[d].arrival) = 1
          /\ exporter[d].arrival[1].kind = "ping"
    /\ together \in BOOLEAN

(* A header is due to a dashboard only until its first sample; an empty     *)
(* file owes one to everybody that runs; and unless two found it empty at   *)
(* once, it is due to one at most, and to none when it has been written.    *)
HeaderInv ==
    /\ csv # <<>> => csv[1] = CSV_HEADER
    /\ \A d \in Dashboards : exporter[d].fresh => exporter[d].pc = "idle"
    /\ csv = <<>> => \A d \in Dashboards : /\ exporter[d].pc # "ping"
                                           /\ exporter[d].pc = "idle" => exporter[d].fresh
    /\ ~together =>
          /\ \A k \in 2..Len(csv) : csv[k] # CSV_HEADER
          /\ \A d, e \in Dashboards : exporter[d].fresh /\ exporter[e].fresh => d = e
          /\ csv # <<>> => \A d \in Dashboards : ~exporter[d].fresh

LiveInv == LiveTypes /\ HeaderInv

LEMMA LiveInvInit == ASSUME LiveInit PROVE LiveInv
<1>1. csv = <<>> /\ together = FALSE /\ arrivals \in Seq(Brought)
      /\ exporter = [d \in Dashboards |-> Nobody]
  BY LiveAssumption DEF LiveInit
<1>2. Nobody \in Exporters /\ Nobody.pc = "off" /\ ~Nobody.fresh
  BY DEF Nobody, Exporters
<1>3. <<>> \in Seq(Seq(Words)) /\ Len(<<>>) = 0
  OBVIOUS
<1>4. LiveTypes
  BY <1>1, <1>2, <1>3 DEF LiveTypes
<1>5. HeaderInv
  BY <1>1, <1>2, <1>3 DEF HeaderInv
<1> QED
  BY <1>4, <1>5 DEF LiveInv

LEMMA StatCsvLive == ASSUME LiveInv, NEW d \in Dashboards, StatCsv(d) PROVE LiveInv'
<1>1. /\ UNCHANGED <<csv, arrivals>> /\ exporter \in [Dashboards -> Exporters]
      /\ exporter[d] \in Exporters /\ exporter[d].pc = "off"
  BY DEF StatCsv, LiveInv, LiveTypes
<1>2. PICK b \in BOOLEAN : b = (csv = <<>>)
  OBVIOUS
<1>3. exporter' = [exporter EXCEPT ![d] = [exporter[d] EXCEPT !.pc = "idle", !.fresh = b]]
  BY <1>1, <1>2 DEF StatCsv, Fresh
<1>4. /\ exporter'[d].pc = "idle" /\ exporter'[d].fresh = b /\ exporter'[d] \in Exporters
      /\ \A q \in Dashboards : q # d => exporter'[q] = exporter[q]
      /\ exporter' \in [Dashboards -> Exporters]
  BY <1>1, <1>3 DEF Exporters
<1>5. /\ together' \in BOOLEAN
      /\ ~together' => ~together /\ \A q \in Dashboards : ~exporter[q].fresh
  BY DEF StatCsv, LiveInv, LiveTypes, HeaderInv
<1>6. LiveTypes'
  BY <1>1, <1>4, <1>5 DEF LiveInv, LiveTypes
<1>7. HeaderInv'
  <2>1. /\ csv' # <<>> => csv'[1] = CSV_HEADER
        /\ \A q \in Dashboards : exporter'[q].fresh => exporter'[q].pc = "idle"
    BY <1>1, <1>4 DEF LiveInv, HeaderInv
  <2>2. csv' = <<>> => \A q \in Dashboards : /\ exporter'[q].pc # "ping"
                                             /\ exporter'[q].pc = "idle" => exporter'[q].fresh
    BY <1>1, <1>2, <1>4 DEF LiveInv, HeaderInv
  <2>3. ~together' => /\ \A k \in 2..Len(csv') : csv'[k] # CSV_HEADER
                      /\ \A q, p \in Dashboards : exporter'[q].fresh /\ exporter'[p].fresh => q = p
                      /\ csv' # <<>> => \A q \in Dashboards : ~exporter'[q].fresh
    BY <1>1, <1>2, <1>4, <1>5 DEF LiveInv, HeaderInv
  <2> QED
    BY <2>1, <2>2, <2>3 DEF HeaderInv
<1> QED
  BY <1>6, <1>7 DEF LiveInv

(* A write to the CSV: the header, if it is due, and rows.                  *)
LEMMA WriteCsvLive ==
    ASSUME LiveInv, NEW d \in Dashboards, exporter[d].pc = "idle",
           NEW rows \in Seq(Seq(Words)), \A k \in 1..Len(rows) : rows[k] # CSV_HEADER,
           csv' = csv \o Header(d) \o rows,
           NEW e \in Exporters, exporter' = [exporter EXCEPT ![d] = e],
           e.pc # "idle", ~e.fresh, e.pc = "ping" => rows # <<>>, together' = together
    PROVE  csv' \in Seq(Seq(Words)) /\ HeaderInv'
<1>1. CSV_HEADER \in Seq(Words) /\ csv \in Seq(Seq(Words)) /\ exporter \in [Dashboards -> Exporters]
  BY HeaderText DEF LiveInv, LiveTypes
<1>2. exporter'[d] = e /\ \A q \in Dashboards : q # d => exporter'[q] = exporter[q]
  BY <1>1
<1>3. CASE exporter[d].fresh
  <2>1. PICK h \in Seq(Seq(Words)) : h = <<CSV_HEADER>>
    BY <1>1, ShortTexts
  <2>2. Len(h) = 1 /\ h[1] = CSV_HEADER
    BY <2>1
  <2>3. csv' = (csv \o h) \o rows
    BY <1>3, <2>1 DEF Header
  <2> DEFINE g == csv \o h
  <2>4. /\ g \in Seq(Seq(Words)) /\ Len(g) = Len(csv) + 1
        /\ \A k \in 1..Len(csv) : g[k] = csv[k]
        /\ g[Len(csv) + 1] = CSV_HEADER
    <3>1. /\ g \in Seq(Seq(Words)) /\ Len(g) = Len(csv) + Len(h)
          /\ \A k \in 1..Len(csv) : g[k] = csv[k]
          /\ \A k \in 1..Len(h) : g[Len(csv) + k] = h[k]
      BY <1>1, JoinedRows
    <3> HIDE DEF g
    <3>2. 1 \in 1..Len(h)
      BY <2>2
    <3> QED
      BY <2>2, <3>1, <3>2
  <2>5. /\ csv' \in Seq(Seq(Words)) /\ Len(csv') = Len(g) + Len(rows)
        /\ \A k \in 1..Len(g) : csv'[k] = g[k]
        /\ \A k \in 1..Len(rows) : csv'[Len(g) + k] = rows[k]
    <3> HIDE DEF g
    <3>1. csv' = g \o rows
      BY <2>3 DEF g
    <3>2. g \in Seq(Seq(Words))
      BY <2>4
    <3>3. /\ g \o rows \in Seq(Seq(Words)) /\ Len(g \o rows) = Len(g) + Len(rows)
          /\ \A k \in 1..Len(g) : (g \o rows)[k] = g[k]
          /\ \A k \in 1..Len(rows) : (g \o rows)[Len(g) + k] = rows[k]
      BY <3>2, JoinedRows
    <3> QED
      BY <3>1, <3>3, Zenon
  <2> HIDE DEF g
  <2>6. csv' # <<>> /\ csv'[1] = CSV_HEADER
    <3>1. Len(csv) \in Nat /\ Len(rows) \in Nat
      BY <1>1
    <3>2. 1 \in 1..Len(g) /\ g[1] = CSV_HEADER
      <4>1. CASE csv = <<>>
        BY <2>4, <4>1
      <4>2. CASE csv # <<>>
        <5>1. 1 \in 1..Len(csv)
          BY <1>1, <4>2
        <5> QED
          BY <2>4, <3>1, <4>2, <5>1 DEF LiveInv, HeaderInv
      <4> QED
        BY <4>1, <4>2
    <3>3. 1 \in 1..Len(csv') /\ csv'[1] = g[1]
      <4>1. PICK x \in Nat, y \in Nat : x = Len(csv) + 1 /\ y = Len(rows)
        BY <3>1
      <4>2. Len(csv') = x + y /\ x > 0
        BY <2>4, <2>5, <3>1, <4>1
      <4>3. 1 \in 1..Len(csv')
        BY <4>1, <4>2
      <4>4. csv'[1] = g[1]
        BY <2>5, <3>2
      <4> QED
        BY <4>3, <4>4
    <3> QED
      BY <3>2, <3>3
  <2>7. ~together => /\ \A k \in 2..Len(csv') : csv'[k] # CSV_HEADER
                     /\ \A q \in Dashboards : ~exporter'[q].fresh
    <3> SUFFICES ASSUME ~together
                 PROVE  /\ \A k \in 2..Len(csv') : csv'[k] # CSV_HEADER
                        /\ \A q \in Dashboards : ~exporter'[q].fresh
      OBVIOUS
    <3>1. csv = <<>> /\ \A q \in Dashboards : q # d => ~exporter[q].fresh
      BY <1>3 DEF LiveInv, HeaderInv
    <3>2. Len(g) = 1 /\ Len(rows) \in Nat
      BY <2>4, <3>1 DEF g
    <3>3. \A k \in 2..Len(csv') : k - 1 \in 1..Len(rows) /\ k = Len(g) + (k - 1)
      BY <2>5, <3>2
    <3>4. \A k \in 2..Len(csv') : csv'[k] # CSV_HEADER
      BY <2>5, <3>3
    <3>5. \A q \in Dashboards : ~exporter'[q].fresh
      BY <1>2, <3>1
    <3> QED
      BY <3>4, <3>5
  <2>8. \A q \in Dashboards : exporter'[q].fresh => exporter'[q].pc = "idle"
    BY <1>2 DEF LiveInv, HeaderInv
  <2> QED
    BY <2>5, <2>6, <2>7, <2>8 DEF HeaderInv
<1>4. CASE ~exporter[d].fresh
  <2>1. csv # <<>>
    BY <1>4 DEF LiveInv, HeaderInv
  <2>2. csv' = csv \o rows
    <3>1. csv \o <<>> = csv
      BY <1>1
    <3> QED
      BY <1>4, <3>1 DEF Header
  <2>3. /\ csv' \in Seq(Seq(Words)) /\ Len(csv') = Len(csv) + Len(rows)
        /\ \A k \in 1..Len(csv) : csv'[k] = csv[k]
        /\ \A k \in 1..Len(rows) : csv'[Len(csv) + k] = rows[k]
    BY <1>1, <2>2, JoinedRows
  <2>4. Len(csv) \in Nat \ {0} /\ Len(rows) \in Nat
    BY <1>1, <2>1
  <2>5. csv' # <<>> /\ csv'[1] = CSV_HEADER
    BY <2>1, <2>3, <2>4 DEF LiveInv, HeaderInv
  <2>6. ~together => \A k \in 2..Len(csv') : csv'[k] # CSV_HEADER
    <3>1. \A k \in 2..Len(csv') : k \in 2..Len(csv) \/ (k - Len(csv) \in 1..Len(rows)
                                                       /\ k = Len(csv) + (k - Len(csv)))
      BY <2>3, <2>4
    <3>2. ~together => \A k \in 2..Len(csv) : k \in 1..Len(csv) /\ csv[k] # CSV_HEADER
      BY <2>4 DEF LiveInv, HeaderInv
    <3> SUFFICES ASSUME ~together, NEW k \in 2..Len(csv') PROVE csv'[k] # CSV_HEADER
      OBVIOUS
    <3>3. CASE k \in 2..Len(csv)
      BY <2>3, <3>2, <3>3
    <3>4. CASE k - Len(csv) \in 1..Len(rows) /\ k = Len(csv) + (k - Len(csv))
      BY <2>3, <3>4
    <3> QED
      BY <3>1, <3>3, <3>4
  <2>7. \A q \in Dashboards : exporter'[q].fresh => exporter[q].fresh /\ exporter'[q] = exporter[q]
    BY <1>2
  <2>8. /\ \A q \in Dashboards : exporter'[q].fresh => exporter'[q].pc = "idle"
        /\ ~together' => \A q \in Dashboards : ~exporter'[q].fresh
    BY <2>1, <2>7 DEF LiveInv, HeaderInv
  <2> QED
    BY <2>3, <2>5, <2>6, <2>8 DEF HeaderInv
<1> QED
  BY <1>3, <1>4

LEMMA PingCsvLive == ASSUME LiveInv, NEW d \in Dashboards, PingCsv(d) PROVE LiveInv'
<1> DEFINE a == arrivals[1]
           e == [pc |-> "ping", fresh |-> FALSE, arrival |-> <<a>>]
           row == csv_row(a.t, a.entry)
<1>1. /\ arrivals \in Seq(Brought) /\ arrivals # <<>> /\ a.kind = "ping"
      /\ exporter[d].pc = "idle" /\ exporter \in [Dashboards -> Exporters]
  BY DEF PingCsv, Comes, LiveInv, LiveTypes
<1>2. a \in Brought /\ Tail(arrivals) \in Seq(Brought)
  BY <1>1
<1>3. a.t \in Seconds /\ a.entry \in Samples
  BY <1>1, <1>2 DEF Brought
<1>4. row \in Seq(Words) /\ row # CSV_HEADER
  BY <1>3, RowIsNoHeader
<1>5. e \in Exporters /\ e.pc = "ping" /\ ~e.fresh /\ Len(e.arrival) = 1 /\ e.arrival[1].kind = "ping"
  BY <1>1, <1>2 DEF Exporters
<1>6. /\ arrivals' = Tail(arrivals) /\ csv' = csv \o Header(d) \o <<row>>
      /\ exporter' = [exporter EXCEPT ![d] = e] /\ together' = together
  BY DEF PingCsv
<1> HIDE DEF e, row, a
<1>7. PICK rows \in Seq(Seq(Words)) : rows = <<row>> /\ rows # <<>>
  <2>1. <<row>> \in Seq(Seq(Words)) /\ Len(<<row>>) = 1
    BY <1>4, ShortTexts
  <2> QED
    BY <2>1
<1>8. \A k \in 1..Len(rows) : rows[k] # CSV_HEADER
  BY <1>4, <1>7
<1>9. csv' \in Seq(Seq(Words)) /\ HeaderInv'
  BY <1>1, <1>5, <1>6, <1>7, <1>8, WriteCsvLive
<1>10. LiveTypes'
  BY <1>1, <1>2, <1>5, <1>6, <1>9 DEF LiveInv, LiveTypes
<1> QED
  BY <1>9, <1>10 DEF LiveInv

LEMMA EndedExporter == Ended \in Exporters /\ Ended.pc = "ended" /\ ~Ended.fresh
<1>1. <<>> \in Seq(Brought)
  OBVIOUS
<1> QED
  BY <1>1 DEF Ended, Exporters

LEMMA QuitLive == ASSUME LiveInv, NEW d \in Dashboards, QuitExporter(d) PROVE LiveInv'
<1> DEFINE e == Ended
<1>1. /\ exporter[d].pc = "idle" /\ exporter \in [Dashboards -> Exporters]
      /\ csv \in Seq(Seq(Words)) /\ Header(d) \in Seq(Seq(Words))
  <2>1. <<CSV_HEADER>> \in Seq(Seq(Words)) /\ <<>> \in Seq(Seq(Words))
    BY HeaderText, ShortTexts
  <2> QED
    BY <2>1 DEF QuitExporter, LiveInv, LiveTypes, Header
<1>2. e \in Exporters /\ e.pc = "ended" /\ ~e.fresh
  BY EndedExporter
<1>3. UNCHANGED arrivals /\ exporter' = [exporter EXCEPT ![d] = e] /\ together' = together
  BY DEF QuitExporter
<1>4. csv' = csv \o Header(d) \o <<>>
  <2>1. csv \o Header(d) \in Seq(Seq(Words))
    BY <1>1, JoinedRows
  <2>2. csv' = csv \o Header(d)
    BY DEF QuitExporter
  <2> QED
    BY <2>1, <2>2
<1>5. <<>> \in Seq(Seq(Words)) /\ \A k \in 1..Len(<<>>) : <<>>[k] # CSV_HEADER
  OBVIOUS
<1> HIDE DEF e
<1>6. csv' \in Seq(Seq(Words)) /\ HeaderInv'
  BY <1>1, <1>2, <1>3, <1>4, <1>5, WriteCsvLive
<1>7. LiveTypes'
  BY <1>1, <1>2, <1>3, <1>6 DEF LiveInv, LiveTypes
<1> QED
  BY <1>6, <1>7 DEF LiveInv

(* What writes no CSV lets a dashboard go on with a line, or ends it.       *)
LEMMA LineLive ==
    ASSUME LiveInv, NEW d \in Dashboards, WriteLine(d) \/ TearLine(d) \/ KillExporter(d)
    PROVE  LiveInv'
<1>1. /\ UNCHANGED <<csv, together>> /\ exporter \in [Dashboards -> Exporters]
      /\ exporter[d] \in Exporters
  BY DEF WriteLine, TearLine, KillExporter, LiveInv, LiveTypes
<1>2. arrivals' \in Seq(Brought)
  <2>1. arrivals \in Seq(Brought)
    BY DEF LiveInv, LiveTypes
  <2>2. UNCHANGED arrivals \/ (arrivals # <<>> /\ arrivals' = Tail(arrivals))
    BY DEF WriteLine, TearLine, KillExporter, LineDue, Comes
  <2> QED
    BY <2>1, <2>2
<1>3. PICK e \in Exporters :
         /\ exporter' = [exporter EXCEPT ![d] = e]
         /\ \/ e.pc = "ended" /\ ~e.fresh
            \/ e.pc = "idle" /\ e.fresh = exporter[d].fresh /\ exporter[d].pc \in {"idle", "ping"}
  <2>1. CASE WriteLine(d)
    <3>1. exporter[d].pc \in {"idle", "ping"}
      BY <2>1 DEF WriteLine, LineDue, Comes
    <3>2. <<>> \in Seq(Brought)
      OBVIOUS
    <3>3. exporter' = [exporter EXCEPT ![d] = [exporter[d] EXCEPT !.pc = "idle", !.arrival = <<>>]]
      BY <1>1, <2>1 DEF WriteLine
    <3>4. PICK e \in Exporters : e = [exporter[d] EXCEPT !.pc = "idle", !.arrival = <<>>]
      BY <1>1, <3>2 DEF Exporters
    <3>5. e.pc = "idle" /\ e.fresh = exporter[d].fresh
      BY <1>1, <3>4 DEF Exporters
    <3> QED
      BY <3>1, <3>3, <3>4, <3>5
  <2>2. CASE TearLine(d) \/ KillExporter(d)
    <3>1. exporter' = [exporter EXCEPT ![d] = Ended]
      BY <2>2 DEF TearLine, KillExporter
    <3> QED
      BY <3>1, EndedExporter
  <2> QED
    BY <2>1, <2>2
<1>4. exporter'[d] = e /\ \A q \in Dashboards : q # d => exporter'[q] = exporter[q]
  BY <1>1, <1>3
<1>5. exporter' \in [Dashboards -> Exporters]
  BY <1>1, <1>3
<1>6. LiveTypes'
  BY <1>1, <1>2, <1>3, <1>4, <1>5 DEF LiveInv, LiveTypes
<1>7. HeaderInv'
  <2>1. \A q \in Dashboards : exporter'[q].fresh => exporter[q].fresh /\ exporter'[q].pc = "idle"
    BY <1>3, <1>4 DEF LiveInv, HeaderInv
  <2>2. csv = <<>> => \A q \in Dashboards : /\ exporter'[q].pc # "ping"
                                            /\ exporter'[q].pc = "idle" => exporter'[q].fresh
    BY <1>3, <1>4 DEF LiveInv, HeaderInv
  <2> QED
    BY <1>1, <2>1, <2>2 DEF LiveInv, HeaderInv
<1> QED
  BY <1>6, <1>7 DEF LiveInv

LEMMA LiveInvStep == ASSUME LiveInv, [LiveNext]_liveVars PROVE LiveInv'
<1>1. CASE UNCHANGED liveVars
  BY <1>1 DEF liveVars, LiveInv, LiveTypes, HeaderInv
<1> QED
  BY <1>1, StatCsvLive, PingCsvLive, QuitLive, LineLive DEF LiveNext

LEMMA HeaderOnceHolds == LiveInv => HeaderOnce
<1> SUFFICES ASSUME LiveInv, csv # <<>>
             PROVE  LET headers == {k \in DOMAIN csv : csv[k] = CSV_HEADER}
                    IN  1 \in headers /\ (~together => headers = {1})
  BY DEF HeaderOnce
<1>1. DOMAIN csv = 1..Len(csv) /\ Len(csv) \in Nat \ {0}
  BY DEF LiveInv, LiveTypes
<1>2. csv[1] = CSV_HEADER /\ (~together => \A k \in 2..Len(csv) : csv[k] # CSV_HEADER)
  BY DEF LiveInv, HeaderInv
<1>3. \A k \in DOMAIN csv : k = 1 \/ k \in 2..Len(csv)
  BY <1>1
<1> QED
  BY <1>1, <1>2, <1>3

(* The CSV begins with its header, whatever dashboards start, write, quit   *)
(* and die, and has it once unless two of them found the file empty.        *)
THEOREM CsvHeaderOnce == LiveSpec => []HeaderOnce
BY HeaderOnceHolds, LiveInvInit, LiveInvStep, PTL DEF LiveSpec

------------------------------------------------------------------------------
(* WatchCommand *)

FlowMaps == UNION {[D -> Nat] : D \in SUBSET Flows}
Watchers == [iface : Nat, alive : BOOLEAN, counters : [Protos -> Nat], flows : FlowMaps]

(* What a frame may be classified as. *)
Classes == Flows \cup {[proto |-> "OUTRO", flow |-> FALSE, ports |-> FALSE], Nothing}

WatchTypes ==
    /\ table \in Tables \cup {<<>>}
    /\ Len(attempts) \in Nat /\ DOMAIN attempts = 1..Len(attempts)
    /\ outcome \in Seq({"missing", "refused", "capturing"})
    /\ watchers \in Seq(Watchers)
    /\ watch \in {"open", "failed", "dashboard", "select", "sum", "merge", "ended"}
    /\ reading \in [at : Nat \ {0}, sum : [Protos -> Nat], flows : FlowMaps]
    /\ atTick \in [sum : [Protos -> Nat], n : Nat]
    /\ captured \in [n : Nat, frame : Frames \cup {None}]
    /\ captured.n > 0 => captured.frame \in Frames

(* The smallest of a set of numbers is one of them. *)
LEMMA MinIsLeast ==
    ASSUME NEW S \in SUBSET Nat, S # {}
    PROVE  Min(S) \in S /\ \A y \in S : Min(S) <= y
<1> DEFINE R == OpToRel(<, Nat)
<1>1. IsWellFoundedOn(R, Nat)
  BY NatLessThanWellFounded
<1>2. \A y, x \in Nat : y < x => <<y, x>> \in R
  BY DEF OpToRel
<1> HIDE DEF R
<1>3. PICK x \in S : \A y \in S : ~(<<y, x>> \in R)
  BY <1>1, WFMin
<1>4. \A y \in S : x <= y
  <2> SUFFICES ASSUME NEW y \in S PROVE x <= y
    OBVIOUS
  <2>1. x \in Nat /\ y \in Nat /\ ~(y < x)
    BY <1>2, <1>3
  <2> QED
    BY <2>1
<1> QED
  BY <1>4 DEF Min

LEMMA NamedIsFirst ==
    ASSUME NEW t, Len(t) \in Nat, NEW name
    PROVE  \/ Named(t, name) = 0
           \/ Named(t, name) \in 1..Len(t) /\ t[Named(t, name)].name = name
<1> DEFINE I == {i \in 1..Len(t) : t[i].name = name}
<1>1. Named(t, name) = IF I # {} THEN Min(I) ELSE 0
  BY DEF Named, SelectInSeq
<1>2. I \in SUBSET Nat /\ \A i \in I : i \in 1..Len(t) /\ t[i].name = name
  OBVIOUS
<1> HIDE DEF I
<1> QED
  BY <1>1, <1>2, MinIsLeast

LEMMA UsableIsFirst ==
    ASSUME NEW t, Len(t) \in Nat
    PROVE  FirstUsable(t) \in 0..Len(t)
<1> DEFINE I == {i \in 1..Len(t) : t[i].up /\ ~t[i].loopback /\ t[i].addressed}
<1>1. FirstUsable(t) = IF I # {} THEN Min(I) ELSE 0
  BY DEF FirstUsable, SelectInSeq
<1>2. I \in SUBSET Nat /\ \A i \in I : i \in 0..Len(t)
  OBVIOUS
<1>3. 0 \in 0..Len(t)
  OBVIOUS
<1> HIDE DEF I
<1> QED
  BY <1>1, <1>2, <1>3, MinIsLeast

LEMMA LinkLocalIsFirst ==
    ASSUME NEW t, Len(t) \in Nat
    PROVE  LET i == first_link_local_iface(t)
           IN  i = 0 \/ (i \in 1..Len(t) /\ t[i].linkLocal /\ ~t[i].loopback)
<1> DEFINE I == {i \in 1..Len(t) : ~t[i].loopback /\ t[i].linkLocal}
<1>1. first_link_local_iface(t) = IF I # {} THEN Min(I) ELSE 0
  BY DEF first_link_local_iface, SelectInSeq
<1>2. I \in SUBSET Nat /\ \A i \in I : i \in 1..Len(t) /\ t[i].linkLocal /\ ~t[i].loopback
  OBVIOUS
<1> HIDE DEF I
<1> QED
  BY <1>1, <1>2, MinIsLeast

(* What is chosen is in the table. *)
LEMMA ChosenInTable ==
    ASSUME NEW t, Len(t) \in Nat, NEW name
    PROVE  Chosen(t, name) \in 0..Len(t)
BY NamedIsFirst, UsableIsFirst DEF Chosen

(* What is attempted is a sequence. *)
LEMMA AttemptsTyped ==
    ASSUME NEW spec \in Specs
    PROVE  LET a == Attempts(spec) IN Len(a) \in Nat /\ DOMAIN a = 1..Len(a)
<1> DEFINE s == split_interface_spec(spec)
           n == Cardinality(Kept(spec))
<1>1. IsFiniteSet(Kept(spec))
  <2>1. CASE spec = None
    BY <2>1, FS_EmptySet DEF Kept
  <2>2. CASE spec \in Seq(STRING)
    <3>1. DOMAIN spec = 1..Len(spec) /\ Len(spec) \in Nat
      BY <2>2
    <3>2. IsFiniteSet(1..Len(spec))
      BY <3>1, FS_Interval
    <3>3. Kept(spec) \subseteq 1..Len(spec)
      BY <3>1 DEF Kept
    <3> QED
      BY <3>2, <3>3, FS_Subset
  <2> QED
    BY <2>1, <2>2, WatchAssumption
<1>2. n \in Nat
  BY <1>1, FS_CardinalityType
<1>3. PICK f : s = [j \in 1..n |-> f[j]]
  <2>1. PICK f : f = [j \in 1..n |->
                       spec[CHOOSE k \in Kept(spec) : Cardinality({q \in Kept(spec) : q <= k}) = j]]
    OBVIOUS
  <2>2. f = s
    BY <2>1 DEF split_interface_spec
  <2>3. f = [j \in 1..n |-> f[j]]
    BY <2>1
  <2> QED
    BY <2>2, <2>3
<1> HIDE DEF n
<1>4. s \in Seq({f[j] : j \in 1..n})
  <2> HIDE DEF s
  <2> QED
    BY <1>2, <1>3
<1>5. Len(s) \in Nat /\ DOMAIN s = 1..Len(s)
  <2> HIDE DEF s
  <2> QED
    BY <1>4
<1>6. Attempts(spec) = <<None>> \/ Attempts(spec) = s
  BY DEF Attempts
<1>7. Len(<<None>>) \in Nat /\ DOMAIN <<None>> = 1..Len(<<None>>)
  OBVIOUS
<1> HIDE DEF s
<1> QED
  BY <1>5, <1>6, <1>7

------------------------------------------------------------------------------
(* Starting: what became of each name tried so far, and which opened have   *)
(* their threads in order; the dashboard makes one attempt.                 *)
StatusOk ==
    /\ status.warning <=> watchers = <<>>
    /\ IF watchers = <<>> THEN status.interface = None
                          ELSE status.interface = table[watchers[1].iface].name

StartInv ==
    /\ Len(outcome) <= Len(attempts)
    /\ \A k \in DOMAIN outcome : outcome[k] = "missing" <=> Chosen(table, attempts[k]) = 0
    /\ Len(watchers) = Cardinality(Capturing)
    /\ \A k \in Capturing : /\ Place(k) \in 1..Len(watchers)
                            /\ watchers[Place(k)].iface = Chosen(table, attempts[k])
    /\ \A k \in 1..Len(watchers) : watchers[k].iface \in DOMAIN table
    /\ watch # "open" => /\ Len(outcome) = Len(attempts)
                         /\ watch = "failed" <=> (status = None /\ watchers = <<>>)
    /\ status # None => Len(attempts) = 1 /\ (outcome # <<>> => StatusOk)
    /\ watch = "dashboard" => status # None /\ outcome # <<>>

WatchInv == WatchTypes /\ StartInv

LEMMA TableTyped == ASSUME WatchTypes PROVE table \in Seq(Interface)
<1>1. table \in Tables \/ table = <<>>
  BY DEF WatchTypes
<1>2. <<>> \in Seq(Interface)
  OBVIOUS
<1> QED
  BY <1>1, <1>2, WatchAssumption

LEMMA WatchInvInit == WatchInit => WatchInv
<1> SUFFICES ASSUME WatchInit PROVE WatchInv
  OBVIOUS
<1>1. Len(attempts) \in Nat /\ DOMAIN attempts = 1..Len(attempts)
  <2>1. CASE \E spec \in Specs : attempts = Attempts(spec)
    BY <2>1, AttemptsTyped
  <2>2. CASE \E spec \in Specs : attempts = <<OneName(spec)>>
    <3>1. PICK n : attempts = <<n>>
      BY <2>2
    <3> QED
      BY <3>1
  <2> QED
    BY <2>1, <2>2 DEF WatchInit
<1>2. status # None => Len(attempts) = 1
  <2>1. SUFFICES ASSUME status # None PROVE Len(attempts) = 1
    OBVIOUS
  <2>2. PICK n : attempts = <<n>>
    BY <2>1 DEF WatchInit
  <2> QED
    BY <2>2
<1>3. Zero \in [Protos -> Nat] /\ NoFlows \in FlowMaps
  <2>1. NoFlows \in [{} -> Nat] /\ {} \in SUBSET Flows
    BY DEF NoFlows
  <2> QED
    BY <2>1 DEF Zero, FlowMaps
<1>4. Capturing = {} /\ outcome = <<>> /\ watchers = <<>> /\ watch = "open"
  BY DEF WatchInit, Capturing
<1>5. Cardinality(Capturing) = 0
  BY <1>4, FS_EmptySet
<1>6. WatchTypes
  BY <1>1, <1>3 DEF WatchInit, WatchTypes, NoReading
<1>7. StartInv
  BY <1>1, <1>2, <1>4, <1>5 DEF StartInv
<1> QED
  BY <1>6, <1>7 DEF WatchInv

(* One more attempt is concluded, and it is the dashboard's only one.       *)
LEMMA ConcludedTypes ==
    ASSUME WatchInv, watch = "open", Pending,
           NEW r \in {"missing", "refused", "capturing"}, Concluded(r)
    PROVE  /\ outcome' \in Seq({"missing", "refused", "capturing"})
           /\ Len(outcome') = Len(outcome) + 1 /\ Len(outcome) \in Nat
           /\ Len(outcome') <= Len(attempts)
           /\ DOMAIN outcome = 1..Len(outcome)
           /\ DOMAIN outcome' = DOMAIN outcome \cup {Len(outcome) + 1}
           /\ \A k \in DOMAIN outcome : outcome'[k] = outcome[k]
           /\ outcome'[Len(outcome) + 1] = r
           /\ outcome' # <<>>
           /\ status # None => Len(outcome) = 0 /\ watchers = <<>>
<1>1. outcome \in Seq({"missing", "refused", "capturing"}) /\ Len(outcome) \in Nat
  BY DEF WatchInv, WatchTypes
<1>2. outcome' = Append(outcome, r)
  BY DEF Concluded
<1>3. Len(outcome) < Len(attempts) /\ Len(attempts) \in Nat
  BY DEF Pending, WatchInv, WatchTypes
<1>4. ASSUME status # None PROVE Len(outcome) = 0 /\ watchers = <<>>
  <2>1. Len(outcome) = 0
    <3>1. Len(attempts) = 1
      BY <1>4 DEF WatchInv, StartInv
    <3> QED
      BY <1>1, <1>3, <3>1
  <2>2. Capturing = {}
    BY <1>1, <2>1 DEF Capturing
  <2>3. Len(watchers) = 0
    BY <2>2, FS_EmptySet DEF WatchInv, StartInv
  <2> QED
    BY <2>1, <2>3 DEF WatchInv, WatchTypes
<1>5. outcome' \in Seq({"missing", "refused", "capturing"})
  BY <1>1, <1>2
<1>6. Len(outcome') = Len(outcome) + 1 /\ DOMAIN outcome = 1..Len(outcome)
  BY <1>1, <1>2
<1>7. \A k \in DOMAIN outcome : outcome'[k] = outcome[k]
  BY <1>1, <1>2
<1>8. outcome'[Len(outcome) + 1] = r
  BY <1>1, <1>2
<1>9. DOMAIN outcome' = 1..Len(outcome')
  BY <1>5
<1>10. DOMAIN outcome' = DOMAIN outcome \cup {Len(outcome) + 1}
  BY <1>1, <1>6, <1>9
<1> QED
  BY <1>1, <1>3, <1>4, <1>5, <1>6, <1>7, <1>8, <1>10

LEMMA FailedAttempt ==
    ASSUME WatchInv, NotFound \/ NotOpened
    PROVE  WatchInv'
<1>1. PICK r \in {"missing", "refused"} :
         /\ Concluded(r) /\ (r = "missing" <=> Choice = 0)
         /\ watchers' = watchers /\ status' = Disabled /\ watch = "open" /\ Pending
  BY DEF NotFound, NotOpened
<1> DEFINE n == Len(outcome)
<1>2. /\ outcome' \in Seq({"missing", "refused", "capturing"})
      /\ Len(outcome') = n + 1 /\ n \in Nat
      /\ Len(outcome') <= Len(attempts)
      /\ DOMAIN outcome = 1..n
      /\ DOMAIN outcome' = DOMAIN outcome \cup {n + 1}
      /\ \A k \in DOMAIN outcome : outcome'[k] = outcome[k]
      /\ outcome'[n + 1] = r
      /\ outcome' # <<>>
      /\ status # None => n = 0 /\ watchers = <<>>
  BY <1>1, ConcludedTypes
<1> HIDE DEF n
<1>3. UNCHANGED <<table, attempts, watchers, watch, reading, printed, atTick, captured>>
  BY <1>1 DEF Concluded
<1>4. WatchTypes'
  BY <1>2, <1>3 DEF WatchInv, WatchTypes
<1>5. Capturing' = Capturing
  BY <1>1, <1>2 DEF Capturing
<1>6. \A k \in DOMAIN outcome' :
         outcome'[k] = "missing" <=> Chosen(table', attempts'[k]) = 0
  BY <1>1, <1>2, <1>3 DEF WatchInv, StartInv, Choice, n
<1>7. \A k \in Capturing' : /\ Place(k)' \in 1..Len(watchers')
                            /\ watchers'[Place(k)'].iface = Chosen(table', attempts'[k])
  BY <1>3, <1>5 DEF WatchInv, StartInv, Place
<1>8. status' # None => Len(attempts') = 1 /\ StatusOk'
  BY <1>1, <1>2, <1>3 DEF WatchInv, StartInv, StatusOk, Disabled
<1>9. /\ Len(watchers') = Cardinality(Capturing') /\ Len(outcome') <= Len(attempts')
      /\ \A k \in 1..Len(watchers') : watchers'[k].iface \in DOMAIN table'
      /\ watch' = "open"
  BY <1>1, <1>2, <1>3, <1>5 DEF WatchInv, StartInv
<1>10. StartInv'
  BY <1>2, <1>6, <1>7, <1>8, <1>9 DEF StartInv
<1> QED
  BY <1>4, <1>10 DEF WatchInv

LEMMA OpenedAttempt == ASSUME WatchInv, Opened PROVE WatchInv'
<1> DEFINE n == Len(outcome)
           w == NewWatcher(Choice)
<1>1. /\ Concluded("capturing") /\ Choice # 0 /\ watch = "open" /\ Pending
      /\ watchers' = Append(watchers, w)
      /\ status' = IF status = None THEN None
                   ELSE [interface |-> table[Choice].name, warning |-> FALSE]
  BY DEF Opened
<1>2. /\ outcome' \in Seq({"missing", "refused", "capturing"})
      /\ Len(outcome') = n + 1 /\ n \in Nat
      /\ Len(outcome') <= Len(attempts)
      /\ DOMAIN outcome = 1..n
      /\ DOMAIN outcome' = DOMAIN outcome \cup {n + 1}
      /\ \A k \in DOMAIN outcome : outcome'[k] = outcome[k]
      /\ outcome'[n + 1] = "capturing"
      /\ outcome' # <<>>
      /\ status # None => n = 0 /\ watchers = <<>>
  BY <1>1, ConcludedTypes
<1>3. UNCHANGED <<table, attempts, watch, reading, printed, atTick, captured>>
  BY <1>1 DEF Concluded
<1>4. Choice \in 1..Len(table) /\ DOMAIN table = 1..Len(table)
  <2>1. table \in Seq(Interface)
    BY TableTyped DEF WatchInv
  <2>2. Len(table) \in Nat /\ DOMAIN table = 1..Len(table)
    BY <2>1
  <2>3. Choice \in 0..Len(table)
    BY <2>2, ChosenInTable DEF Choice
  <2> QED
    BY <1>1, <2>2, <2>3
<1>5. w \in Watchers /\ w.iface = Choice
  <2>1. NoFlows \in [{} -> Nat] /\ {} \in SUBSET Flows
    BY DEF NoFlows
  <2>2. Zero \in [Protos -> Nat] /\ NoFlows \in FlowMaps
    BY <2>1 DEF Zero, FlowMaps
  <2>3. Choice \in Nat
    BY <1>4
  <2> HIDE DEF Choice
  <2> QED
    BY <2>2, <2>3 DEF NewWatcher, Watchers
<1> HIDE DEF n, w
<1>6. /\ watchers \in Seq(Watchers) /\ watchers' \in Seq(Watchers)
      /\ Len(watchers) \in Nat /\ Len(watchers') = Len(watchers) + 1
      /\ \A k \in 1..Len(watchers) : watchers'[k] = watchers[k]
      /\ watchers'[Len(watchers) + 1] = w
  <2>1. watchers \in Seq(Watchers)
    BY DEF WatchInv, WatchTypes
  <2> QED
    BY <1>1, <1>5, <2>1
<1>7. WatchTypes'
  BY <1>2, <1>3, <1>6 DEF WatchInv, WatchTypes
<1>8. Capturing' = Capturing \cup {n + 1} /\ n + 1 \notin Capturing /\ Capturing \subseteq 1..n
  BY <1>1, <1>2 DEF Capturing
<1>9. IsFiniteSet(Capturing)
  <2>1. IsFiniteSet(1..n)
    BY <1>2, FS_Interval
  <2> QED
    BY <1>8, <2>1, FS_Subset
<1>10. Len(watchers) = Cardinality(Capturing) /\ Len(watchers') = Cardinality(Capturing')
  <2>1. Cardinality(Capturing \cup {n + 1}) = Cardinality(Capturing) + 1
    BY <1>8, <1>9, FS_AddElement
  <2>2. Len(watchers) = Cardinality(Capturing)
    BY DEF WatchInv, StartInv
  <2>3. Capturing' = Capturing \cup {n + 1}
    BY <1>8
  <2> QED
    BY <1>6, <2>1, <2>2, <2>3
<1>11. \A k \in Capturing : Place(k)' = Place(k)
  <2> SUFFICES ASSUME NEW k \in Capturing PROVE Place(k)' = Place(k)
    OBVIOUS
  <2>1. {q \in Capturing' : q <= k} = {q \in Capturing : q <= k}
    BY <1>2, <1>8
  <2> QED
    BY <2>1 DEF Place
<1>12. Cardinality({q \in Capturing' : q <= n + 1}) = Cardinality(Capturing')
  <2>1. \A q \in Capturing' : q <= n + 1
    BY <1>2, <1>8
  <2>2. {q \in Capturing' : q <= n + 1} = Capturing'
    BY <2>1
  <2> QED
    BY <2>2
<1>13. \A k \in Capturing' : /\ Place(k)' \in 1..Len(watchers')
                             /\ watchers'[Place(k)'].iface = Chosen(table', attempts'[k])
  <2> SUFFICES ASSUME NEW k \in Capturing'
               PROVE  /\ Place(k)' \in 1..Len(watchers')
                      /\ watchers'[Place(k)'].iface = Chosen(table', attempts'[k])
    OBVIOUS
  <2>1. CASE k \in Capturing
    <3>1. /\ Place(k) \in 1..Len(watchers)
          /\ watchers[Place(k)].iface = Chosen(table, attempts[k])
      BY <2>1 DEF WatchInv, StartInv
    <3>2. Place(k)' = Place(k)
      BY <2>1, <1>11
    <3> QED
      BY <1>3, <1>6, <3>1, <3>2
  <2>2. CASE k = n + 1
    <3>1. Place(k)' = Len(watchers) + 1
      BY <1>6, <1>10, <1>12, <2>2 DEF Place
    <3>2. Choice = Chosen(table, attempts[k])
      BY <2>2 DEF Choice, n
    <3> QED
      BY <1>3, <1>5, <1>6, <3>1, <3>2
  <2> QED
    BY <1>8, <2>1, <2>2
<1>14. \A k \in DOMAIN outcome' :
          outcome'[k] = "missing" <=> Chosen(table', attempts'[k]) = 0
  BY <1>1, <1>2, <1>3 DEF WatchInv, StartInv, Choice, n
<1>15. status' # None => Len(attempts') = 1 /\ StatusOk'
  <2> SUFFICES ASSUME status' # None PROVE Len(attempts') = 1 /\ StatusOk'
    OBVIOUS
  <2>1. /\ status # None /\ watchers = <<>>
        /\ status' = [interface |-> table[Choice].name, warning |-> FALSE]
    BY <1>1, <1>2
  <2>2. Len(watchers') = 1 /\ watchers'[1] = w /\ watchers' # <<>>
    BY <1>6, <2>1
  <2>3. table'[watchers'[1].iface].name = table[Choice].name
    BY <1>3, <1>5, <2>2
  <2>4. StatusOk'
    BY <2>1, <2>2, <2>3 DEF StatusOk
  <2> QED
    BY <1>3, <2>1, <2>4 DEF WatchInv, StartInv
<1>16. \A k \in 1..Len(watchers') : watchers'[k].iface \in DOMAIN table'
  <2> SUFFICES ASSUME NEW k \in 1..Len(watchers') PROVE watchers'[k].iface \in DOMAIN table
    BY <1>3
  <2>1. k \in 1..Len(watchers) \/ k = Len(watchers) + 1
    BY <1>6
  <2> QED
    BY <1>4, <1>5, <1>6, <2>1 DEF WatchInv, StartInv
<1>17. StartInv'
  BY <1>1, <1>2, <1>3, <1>10, <1>13, <1>14, <1>15, <1>16 DEF StartInv
<1> QED
  BY <1>7, <1>17 DEF WatchInv

LEMMA StartedWatch == ASSUME WatchInv, Started PROVE WatchInv'
<1>1. /\ ~Pending
      /\ watch' = IF status # None THEN "dashboard"
                  ELSE IF watchers = <<>> THEN "failed" ELSE "select"
      /\ UNCHANGED <<table, attempts, outcome, watchers, status, reading, printed, atTick,
                     captured>>
  BY DEF Started
<1>2. Len(outcome) = Len(attempts)
  BY <1>1 DEF Pending, WatchInv, WatchTypes, StartInv
<1>3. WatchTypes'
  BY <1>1 DEF WatchInv, WatchTypes
<1>4. status # None => outcome # <<>>
  <2> SUFFICES ASSUME outcome = <<>> PROVE status = None
    OBVIOUS
  <2>1. Len(attempts) = 0
    BY <1>2
  <2> QED
    BY <2>1 DEF WatchInv, StartInv
<1>5. Capturing' = Capturing /\ \A k : Place(k)' = Place(k)
  BY <1>1 DEF Capturing, Place
<1>6. StatusOk => StatusOk'
  BY <1>1 DEF StatusOk
<1>7. StartInv'
  BY <1>1, <1>2, <1>4, <1>5, <1>6 DEF WatchInv, StartInv
<1> QED
  BY <1>3, <1>7 DEF WatchInv

------------------------------------------------------------------------------
(* Capturing. *)

LEMMA ClassTyped == \A f : process_frame(f) \in Classes
<1> SUFFICES ASSUME NEW f PROVE process_frame(f) \in Classes
  OBVIOUS
<1>1. \A next, carried : process_l4(next, carried) \in Flows
  <2> SUFFICES ASSUME NEW next, NEW carried PROVE process_l4(next, carried) \in Flows
    OBVIOUS
  <2>1. PICK b \in BOOLEAN : b = (next \in DOMAIN L4Header /\ carried >= L4Header[next])
    OBVIOUS
  <2>2. PICK p \in Protos : process_l4(next, carried) = [proto |-> p, flow |-> TRUE, ports |-> b]
    BY <2>1 DEF process_l4, Protos
  <2> QED
    BY <2>2 DEF Flows
<1>2. \/ process_frame(f) = Nothing
      \/ process_frame(f) = [proto |-> "OUTRO", flow |-> FALSE, ports |-> FALSE]
      \/ \E next, carried : process_frame(f) = process_l4(next, carried)
  BY DEF process_frame
<1> QED
  BY <1>1, <1>2 DEF Classes

LEMMA PlusTyped ==
    ASSUME NEW f \in FlowMaps, NEW g \in FlowMaps
    PROVE  Plus(f, g) \in FlowMaps
<1>1. PICK D \in SUBSET Flows, E \in SUBSET Flows : f \in [D -> Nat] /\ g \in [E -> Nat]
  BY DEF FlowMaps
<1>2. Plus(f, g) \in [D \cup E -> Nat] /\ D \cup E \in SUBSET Flows
  BY <1>1 DEF Plus
<1> QED
  BY <1>2 DEF FlowMaps

LEMMA AddedTyped ==
    ASSUME NEW f \in FlowMaps, NEW c \in Flows
    PROVE  Added(f, c) \in FlowMaps
<1>1. [x \in {c} |-> 1] \in [{c} -> Nat] /\ {c} \in SUBSET Flows
  OBVIOUS
<1>2. [x \in {c} |-> 1] \in FlowMaps
  BY <1>1 DEF FlowMaps
<1> QED
  BY <1>2, PlusTyped DEF Added

(* A frame adds at most one to the counters of its interface and touches    *)
(* nothing else of it but the flows.                                        *)
LEMMA RecordedTyped ==
    ASSUME NEW w \in Watchers, NEW c \in Classes
    PROVE  /\ Recorded(w, c) \in Watchers
           /\ Recorded(w, c).iface = w.iface
           /\ \A p \in Protos : w.counters[p] <= Recorded(w, c).counters[p]
<1>1. w.counters \in [Protos -> Nat] /\ w.flows \in FlowMaps
  BY DEF Watchers
<1>2. CASE c = Nothing
  BY <1>1, <1>2 DEF Recorded
<1>3. CASE c # Nothing
  <2>1. c.proto \in Protos /\ (HasFlow(c) => c \in Flows)
    <3>1. CASE c \in Flows
      BY <3>1 DEF Flows
    <3>2. CASE c = [proto |-> "OUTRO", flow |-> FALSE, ports |-> FALSE]
      BY <3>2 DEF HasFlow, Protos
    <3> QED
      BY <1>3, <3>1, <3>2 DEF Classes
  <2> DEFINE n == [w.counters EXCEPT ![c.proto] = @ + 1]
  <2>2. n \in [Protos -> Nat] /\ n = [w.counters EXCEPT ![c.proto] = @ + 1]
    BY <1>1, <2>1
  <2> HIDE DEF n
  <2>3. PICK m \in FlowMaps : m = IF HasFlow(c) THEN Added(w.flows, c) ELSE w.flows
    BY <1>1, <2>1, AddedTyped
  <2>4. Recorded(w, c) = [w EXCEPT !.counters = n, !.flows = m]
    BY <1>3, <2>2, <2>3 DEF Recorded, Watchers
  <2>5. Recorded(w, c) \in Watchers /\ Recorded(w, c).iface = w.iface /\ Recorded(w, c).counters = n
    <3>1. PICK r : r = Recorded(w, c)
      OBVIOUS
    <3>2. r = [w EXCEPT !.counters = n, !.flows = m]
      BY <2>4, <3>1
    <3>3. r \in Watchers /\ r.iface = w.iface /\ r.counters = n
      BY <2>2, <3>2 DEF Watchers
    <3> QED
      BY <3>1, <3>3
  <2>6. \A p \in Protos : w.counters[p] <= n[p]
    BY <1>1, <2>1, <2>2
  <2> QED
    BY <2>5, <2>6
<1> QED
  BY <1>2, <1>3

(* The step of a capture thread, as the other threads see it. *)
Counted(k, w) ==
    /\ k \in DOMAIN watchers /\ w \in Watchers
    /\ w.iface = watchers[k].iface
    /\ \A p \in Protos : watchers[k].counters[p] <= w.counters[p]
    /\ watchers' = [watchers EXCEPT ![k] = w]

LEMMA CaptureCounts ==
    ASSUME WatchInv, NEW k \in DOMAIN watchers, Capture(k)
    PROVE  /\ \E w : Counted(k, w)
           /\ captured' \in [n : Nat, frame : Frames] /\ captured'.n = captured.n + 1
<1>1. watchers[k] \in Watchers
  BY DEF WatchInv, WatchTypes
<1>2. PICK f \in Frames : /\ watchers' = [watchers EXCEPT ![k] = Recorded(@, process_frame(f))]
                          /\ captured' = [n |-> captured.n + 1, frame |-> f]
  BY DEF Capture
<1>3. Counted(k, Recorded(watchers[k], process_frame(f)))
  <2> DEFINE w == Recorded(watchers[k], process_frame(f))
  <2>1. /\ w \in Watchers /\ w.iface = watchers[k].iface
        /\ \A p \in Protos : watchers[k].counters[p] <= w.counters[p]
    BY <1>1, ClassTyped, RecordedTyped
  <2>2. watchers' = [watchers EXCEPT ![k] = w]
    BY <1>2, Zenon
  <2> QED
    BY <2>1, <2>2 DEF Counted
<1>4. captured.n \in Nat
  BY DEF WatchInv, WatchTypes
<1> QED
  BY <1>2, <1>3, <1>4

LEMMA BreakCounts ==
    ASSUME WatchInv, NEW k \in DOMAIN watchers, CaptureBreaks(k)
    PROVE  \E w : /\ Counted(k, w)
                  /\ w.counters = watchers[k].counters /\ w.flows = watchers[k].flows
<1>1. watchers[k] \in Watchers
  BY DEF WatchInv, WatchTypes
<1> DEFINE w == [watchers[k] EXCEPT !.alive = FALSE]
<1>2. watchers' = [watchers EXCEPT ![k] = w]
  BY <1>1 DEF CaptureBreaks
<1>3. w \in Watchers /\ w.iface = watchers[k].iface
      /\ w.counters = watchers[k].counters /\ w.flows = watchers[k].flows
  BY <1>1 DEF Watchers
<1> HIDE DEF w
<1>4. \A p \in Protos : watchers[k].counters[p] \in Nat
  BY <1>1 DEF Watchers
<1>5. Counted(k, w)
  BY <1>2, <1>3, <1>4 DEF Counted
<1> QED
  BY <1>3, <1>5

LEMMA CaptureWatch ==
    ASSUME WatchInv, NEW k \in DOMAIN watchers, Capture(k) \/ CaptureBreaks(k)
    PROVE  WatchInv'
<1>1. PICK w : Counted(k, w)
  BY CaptureCounts, BreakCounts
<1>2. UNCHANGED <<table, attempts, outcome, status, watch, reading, printed, atTick>>
  BY DEF Capture, CaptureBreaks
<1>3. /\ watchers \in Seq(Watchers) /\ watchers' \in Seq(Watchers)
      /\ Len(watchers') = Len(watchers)
      /\ \A q \in 1..Len(watchers) : watchers'[q].iface = watchers[q].iface
  <2>1. watchers \in Seq(Watchers)
    BY DEF WatchInv, WatchTypes
  <2> QED
    BY <1>1, <2>1 DEF Counted
<1>4. captured' \in [n : Nat, frame : Frames \cup {None}]
      /\ (captured'.n > 0 => captured'.frame \in Frames)
  <2>1. CASE Capture(k)
    BY <2>1, CaptureCounts
  <2>2. CASE CaptureBreaks(k)
    <3>1. captured' = captured
      BY <2>2 DEF CaptureBreaks
    <3> QED
      BY <3>1 DEF WatchInv, WatchTypes
  <2> QED
    BY <2>1, <2>2
<1>5. WatchTypes'
  BY <1>2, <1>3, <1>4 DEF WatchInv, WatchTypes
<1>6. Capturing' = Capturing /\ \A q : Place(q)' = Place(q)
  BY <1>2 DEF Capturing, Place
<1>7. watchers' = <<>> <=> watchers = <<>>
  BY <1>3
<1>8. StatusOk => StatusOk'
  <2>1. watchers # <<>> => 1 \in 1..Len(watchers)
    BY <1>3
  <2> QED
    BY <1>2, <1>3, <1>7, <2>1 DEF StatusOk
<1>9. StartInv'
  BY <1>2, <1>3, <1>6, <1>7, <1>8 DEF WatchInv, StartInv
<1> QED
  BY <1>5, <1>9 DEF WatchInv

------------------------------------------------------------------------------
(* The main task. *)

Readings == [at : Nat \ {0}, sum : [Protos -> Nat], flows : FlowMaps]

LEMMA NoReadingTyped == NoReading \in Readings
<1>1. NoFlows \in [{} -> Nat] /\ {} \in SUBSET Flows
  BY DEF NoFlows
<1>2. NoFlows \in FlowMaps /\ Zero \in [Protos -> Nat]
  BY <1>1 DEF FlowMaps, Zero
<1> QED
  BY <1>2 DEF NoReading, Readings

LEMMA PlusCounters ==
    ASSUME NEW f \in [Protos -> Nat], NEW g \in [Protos -> Nat]
    PROVE  /\ Plus(f, g) \in [Protos -> Nat]
           /\ \A p \in Protos : Plus(f, g)[p] = f[p] + g[p]
BY DEF Plus

(* The counters of protocol p, by interface, and their sum. *)
Counts(p) == [k \in DOMAIN watchers |-> watchers[k].counters[p]]

LEMMA CountsTyped ==
    ASSUME WatchTypes
    PROVE  /\ DOMAIN watchers = 1..Len(watchers) /\ Len(watchers) \in Nat
           /\ IsFiniteSet(DOMAIN watchers)
           /\ \A p \in Protos : Counts(p) \in [DOMAIN watchers -> Nat]
           /\ \A p \in Protos : TrueSum[p] = SumFunctionOnSet(Counts(p), DOMAIN watchers)
           /\ TrueSum = [p \in Protos |-> TrueSum[p]]
<1>1. watchers \in Seq(Watchers)
  BY DEF WatchTypes
<1>2. DOMAIN watchers = 1..Len(watchers) /\ Len(watchers) \in Nat
  BY <1>1
<1>3. IsFiniteSet(DOMAIN watchers)
  BY <1>2, FS_Interval
<1>4. \A p \in Protos : Counts(p) \in [DOMAIN watchers -> Nat]
  <2> SUFFICES ASSUME NEW p \in Protos, NEW k \in DOMAIN watchers
               PROVE  watchers[k].counters[p] \in Nat
    BY DEF Counts
  <2>1. watchers[k] \in Watchers
    BY <1>1
  <2> QED
    BY <2>1 DEF Watchers
<1>5. \A p \in Protos : TrueSum[p] = SumFunctionOnSet(Counts(p), DOMAIN watchers)
  BY DEF TrueSum, Counts, SumFunction
<1> QED
  BY <1>2, <1>3, <1>4, <1>5 DEF TrueSum

LEMMA TrueSumTyped == ASSUME WatchTypes PROVE TrueSum \in [Protos -> Nat]
<1>1. \A p \in Protos : TrueSum[p] \in Nat
  <2> SUFFICES ASSUME NEW p \in Protos PROVE TrueSum[p] \in Nat
    OBVIOUS
  <2>1. \A k \in DOMAIN watchers : Counts(p)[k] \in Nat
    BY CountsTyped
  <2>2. SumFunctionOnSet(Counts(p), DOMAIN watchers) \in Nat
    BY <2>1, CountsTyped, SumNat
  <2> QED
    BY <2>2, CountsTyped
<1> QED
  BY <1>1, CountsTyped

(* The sum's next step, and the merge's. *)
LEMMA Summed ==
    ASSUME WatchTypes, SumNext, reading.at \in DOMAIN watchers
    PROVE  /\ reading' \in Readings /\ watch' = "sum"
           /\ reading'.at = reading.at + 1 /\ reading'.flows = reading.flows
           /\ \A p \in Protos : reading'.sum[p] =
                                 reading.sum[p] + watchers[reading.at].counters[p]
<1>1. reading \in Readings /\ watchers[reading.at] \in Watchers
  BY DEF WatchTypes, Readings
<1>2. reading.sum \in [Protos -> Nat] /\ watchers[reading.at].counters \in [Protos -> Nat]
      /\ reading.at \in Nat \ {0}
  BY <1>1 DEF Readings, Watchers
<1>3. PICK s \in [Protos -> Nat] :
         /\ s = Plus(reading.sum, watchers[reading.at].counters)
         /\ \A p \in Protos : s[p] = reading.sum[p] + watchers[reading.at].counters[p]
  BY <1>2, PlusCounters
<1>4. PICK n \in Nat \ {0} : n = reading.at + 1
  BY <1>2
<1>5. reading' = [reading EXCEPT !.at = n, !.sum = s] /\ watch' = "sum"
  BY <1>1, <1>3, <1>4 DEF SumNext, Counters, Readings
<1>6. reading' \in Readings /\ reading'.at = n /\ reading'.flows = reading.flows /\ reading'.sum = s
  BY <1>1, <1>5 DEF Readings
<1> QED
  BY <1>3, <1>4, <1>5, <1>6

LEMMA MergedNext ==
    ASSUME WatchTypes, MergeNext, reading.at \in DOMAIN watchers
    PROVE  /\ reading' \in Readings /\ watch' = "merge"
           /\ reading'.at = reading.at + 1 /\ reading'.sum = reading.sum
           /\ reading'.flows = Plus(reading.flows, watchers[reading.at].flows)
<1>1. reading \in Readings /\ watchers[reading.at] \in Watchers
  BY DEF WatchTypes, Readings
<1>2. reading.flows \in FlowMaps /\ watchers[reading.at].flows \in FlowMaps
      /\ reading.at \in Nat \ {0}
  BY <1>1 DEF Readings, Watchers
<1>3. PICK f \in FlowMaps : f = Plus(reading.flows, watchers[reading.at].flows)
  BY <1>2, PlusTyped
<1>4. PICK n \in Nat \ {0} : n = reading.at + 1
  BY <1>2
<1>5. reading' = [reading EXCEPT !.at = n, !.flows = f] /\ watch' = "merge"
  BY <1>1, <1>3, <1>4 DEF MergeNext, Merged, Readings
<1>6. reading' \in Readings /\ reading'.at = n /\ reading'.sum = reading.sum /\ reading'.flows = f
  BY <1>1, <1>5 DEF Readings
<1> QED
  BY <1>3, <1>4, <1>5, <1>6

LEMMA ReadingTyped ==
    ASSUME WatchTypes, SumNext \/ MergeNext
    PROVE  reading' \in Readings /\ watch' \in {"sum", "merge", "select"}
<1>1. CASE SumNext /\ reading.at \in DOMAIN watchers
  BY <1>1, Summed
<1>2. CASE MergeNext /\ reading.at \in DOMAIN watchers
  BY <1>2, MergedNext
<1>3. CASE reading.at \notin DOMAIN watchers
  <2>1. reading' = reading \/ reading' = [reading EXCEPT !.at = 1]
    BY <1>3 DEF SumNext, MergeNext
  <2>2. watch' \in {"merge", "select"}
    BY <1>3 DEF SumNext, MergeNext
  <2>3. reading \in Readings
    BY DEF WatchTypes, Readings
  <2>4. [reading EXCEPT !.at = 1] \in Readings
    BY <2>3 DEF Readings
  <2> QED
    BY <2>1, <2>2, <2>3, <2>4
<1> QED
  BY <1>1, <1>2, <1>3

(* Only the start and the threads change what StartInv is about. *)
LEMMA MainWatch ==
    ASSUME WatchInv, TimerTick \/ SumNext \/ MergeNext \/ CtrlC
    PROVE  WatchInv'
<1>1. UNCHANGED <<table, attempts, outcome, watchers, status, captured>>
  BY DEF TimerTick, SumNext, MergeNext, CtrlC
<1>2. watch \in {"select", "sum", "merge"} /\ watch' \in {"select", "sum", "merge", "ended"}
  BY ReadingTyped DEF WatchInv, TimerTick, SumNext, MergeNext, CtrlC
<1>3. reading' \in Readings
  <2>1. CASE TimerTick
    BY <2>1, NoReadingTyped DEF TimerTick, FreshReading
  <2>2. CASE SumNext \/ MergeNext
    BY <2>2, ReadingTyped DEF WatchInv
  <2>3. CASE CtrlC
    BY <2>3 DEF CtrlC, WatchInv, WatchTypes, Readings
  <2> QED
    BY <2>1, <2>2, <2>3
<1>4. atTick' \in [sum : [Protos -> Nat], n : Nat]
  <2>1. CASE TimerTick
    <3>1. TrueSum \in [Protos -> Nat]
      BY TrueSumTyped DEF WatchInv
    <3>2. captured.n \in Nat /\ atTick' = [sum |-> TrueSum, n |-> captured.n]
      BY <2>1 DEF TimerTick, WatchInv, WatchTypes
    <3> QED
      BY <3>1, <3>2
  <2>2. CASE SumNext \/ MergeNext \/ CtrlC
    BY <2>2 DEF SumNext, MergeNext, CtrlC, WatchInv, WatchTypes
  <2> QED
    BY <2>1, <2>2
<1>5. WatchTypes'
  BY <1>1, <1>2, <1>3, <1>4 DEF WatchInv, WatchTypes, Readings
<1>6. Capturing' = Capturing /\ \A q : Place(q)' = Place(q)
  BY <1>1 DEF Capturing, Place
<1>7. StatusOk => StatusOk'
  BY <1>1 DEF StatusOk
<1>8. StartInv'
  BY <1>1, <1>2, <1>6, <1>7 DEF WatchInv, StartInv
<1> QED
  BY <1>5, <1>8 DEF WatchInv

LEMMA WatchInvStep == ASSUME WatchInv, [WatchNext]_watchVars PROVE WatchInv'
<1>1. CASE UNCHANGED watchVars
  <2>1. Capturing' = Capturing /\ \A q : Place(q)' = Place(q)
    BY <1>1 DEF Capturing, Place, watchVars
  <2> QED
    BY <1>1, <2>1 DEF watchVars, WatchInv, WatchTypes, StartInv, StatusOk
<1> QED
  BY <1>1, FailedAttempt, OpenedAttempt, StartedWatch, CaptureWatch, MainWatch DEF WatchNext

LEMMA StartsApartHolds == WatchInv => StartsApart
<1> SUFFICES ASSUME WatchInv PROVE OneFailureIsAlone /\ StatusTellsStart
  BY DEF StartsApart
<1>1. OneFailureIsAlone
  BY DEF WatchInv, StartInv, OneFailureIsAlone
<1>2. StatusTellsStart
  BY DEF WatchInv, StartInv, StatusOk, StatusTellsStart
<1> QED
  BY <1>1, <1>2

(* One interface that is missing or refused keeps no other from its thread, *)
(* and the command fails, or the dashboard warns, only when none opened.    *)
THEOREM StartingApart == WatchSpec => []StartsApart
BY StartsApartHolds, WatchInvInit, WatchInvStep, PTL DEF WatchSpec

------------------------------------------------------------------------------
(* The report: what has been read of a protocol and what has not, and of    *)
(* the interfaces up to n those that saw a flow, with their packets.        *)
Read(p) == SumFunctionOnSet(Counts(p), 1..(reading.at - 1))
Unread(p) == SumFunctionOnSet(Counts(p), reading.at..Len(watchers))

SawFlow(x, n) == {k \in 1..n : x \in DOMAIN watchers[k].flows}
Packets(x, n) == SumFunction([k \in SawFlow(x, n) |-> watchers[k].flows[x]])

FlowsRead ==
    /\ DOMAIN reading.flows = UNION {DOMAIN watchers[k].flows : k \in 1..(reading.at - 1)}
    /\ \A x \in DOMAIN reading.flows : reading.flows[x] = Packets(x, reading.at - 1)

Quiet == captured.n = atTick.n

SumInv ==
    watch = "sum" =>
        /\ reading.flows = NoFlows
        /\ \A p \in Protos : /\ reading.sum[p] <= Read(p)
                             /\ atTick.sum[p] <= reading.sum[p] + Unread(p)
                             /\ Quiet => reading.sum[p] = Read(p)

MergeInv ==
    watch = "merge" =>
        /\ \A p \in Protos : /\ reading.sum[p] <= TrueSum[p]
                             /\ atTick.sum[p] <= reading.sum[p]
                             /\ Quiet => reading.sum[p] = TrueSum[p]
        /\ Quiet => FlowsRead

ReportInv ==
    /\ captured.n >= atTick.n
    /\ reading.at <= Len(watchers) + 1
    /\ SumInv /\ MergeInv

LEMMA ReportInvInit == WatchInit => ReportInv
<1> SUFFICES ASSUME WatchInit PROVE ReportInv
  OBVIOUS
<1>1. Len(watchers) = 0
  BY DEF WatchInit
<1> QED
  BY <1>1 DEF WatchInit, ReportInv, SumInv, MergeInv, NoReading

(* The places before the one to be read next, and the others.               *)
LEMMA Places ==
    ASSUME WatchTypes, reading.at <= Len(watchers) + 1
    PROVE  /\ 1..(reading.at - 1) \in SUBSET (DOMAIN watchers)
           /\ reading.at..Len(watchers) = DOMAIN watchers \ (1..(reading.at - 1))
           /\ IsFiniteSet(1..(reading.at - 1)) /\ IsFiniteSet(reading.at..Len(watchers))
           /\ reading.at \in Nat \ {0}
<1>1. /\ DOMAIN watchers = 1..Len(watchers) /\ Len(watchers) \in Nat
      /\ reading.at \in Nat \ {0}
  BY CountsTyped DEF WatchTypes
<1>2. IsFiniteSet(1..(reading.at - 1))
  <2>1. PICK a \in Int : a = reading.at - 1
    BY <1>1
  <2> QED
    BY <2>1, FS_Interval
<1>3. IsFiniteSet(reading.at..Len(watchers))
  <2>1. reading.at \in Int /\ Len(watchers) \in Int
    BY <1>1
  <2> QED
    BY <2>1, FS_Interval
<1> QED
  BY <1>1, <1>2, <1>3

LEMMA ReadTyped ==
    ASSUME WatchTypes, reading.at <= Len(watchers) + 1, NEW p \in Protos
    PROVE  Read(p) \in Nat /\ Unread(p) \in Nat /\ TrueSum[p] = Read(p) + Unread(p)
<1> DEFINE A == 1..(reading.at - 1)
           B == reading.at..Len(watchers)
           D == DOMAIN watchers
<1>1. /\ A \in SUBSET D /\ B = D \ A /\ IsFiniteSet(A) /\ IsFiniteSet(B) /\ IsFiniteSet(D)
      /\ \A k \in D : Counts(p)[k] \in Nat
      /\ TrueSum[p] = SumFunctionOnSet(Counts(p), D)
  BY Places, CountsTyped
<1> HIDE DEF A, B, D
<1>2. SumFunctionOnSet(Counts(p), A) \in Nat /\ SumFunctionOnSet(Counts(p), B) \in Nat
  BY <1>1, SumNat
<1>3. SumFunctionOnSet(Counts(p), D) = SumFunctionOnSet(Counts(p), A) + SumFunctionOnSet(Counts(p), B)
  BY <1>1, SumDisjoint
<1> QED
  BY <1>1, <1>2, <1>3 DEF Read, Unread, A, B

(* While an interface's thread runs or ends, every count stays or grows.    *)
LEMMA CountsGrow ==
    ASSUME WatchInv, ReportInv, NEW k, NEW w, Counted(k, w), UNCHANGED reading,
           NEW p \in Protos
    PROVE  /\ Read(p) <= Read(p)' /\ Unread(p) <= Unread(p)' /\ TrueSum[p] <= TrueSum'[p]
           /\ w.counters = watchers[k].counters =>
                 Read(p)' = Read(p) /\ TrueSum'[p] = TrueSum[p]
           /\ Read(p)' \in Nat /\ Unread(p)' \in Nat /\ TrueSum'[p] \in Nat
           /\ Len(watchers') = Len(watchers)
<1> DEFINE f == Counts(p)
           g == Counts(p)'
           D == DOMAIN watchers
           A == 1..(reading.at - 1)
           B == reading.at..Len(watchers)
<1>1. WatchTypes /\ reading.at <= Len(watchers) + 1
  BY DEF WatchInv, ReportInv
<1>2. /\ f \in [D -> Nat] /\ IsFiniteSet(D) /\ IsFiniteSet(A) /\ IsFiniteSet(B)
      /\ A \subseteq D /\ B \subseteq D
      /\ TrueSum[p] = SumFunctionOnSet(f, D)
  BY <1>1, CountsTyped, Places
<1>3. DOMAIN watchers' = D /\ Len(watchers') = Len(watchers)
  <2>1. watchers \in Seq(Watchers)
    BY <1>1 DEF WatchTypes
  <2> QED
    BY <2>1 DEF Counted
<1>4. \A q \in D : g[q] = IF q = k THEN w.counters[p] ELSE f[q]
  <2>1. \A q \in D : watchers'[q] = IF q = k THEN w ELSE watchers[q]
    BY DEF Counted
  <2> QED
    BY <1>3, <2>1 DEF Counts
<1>5. k \in D /\ f[k] <= w.counters[p] /\ w.counters[p] \in Nat
  <2>1. k \in D /\ w \in Watchers /\ watchers[k].counters[p] <= w.counters[p]
    BY DEF Counted
  <2> QED
    BY <2>1 DEF Counts, Watchers
<1>6. TrueSum'[p] = SumFunctionOnSet(g, D)
  BY <1>3 DEF TrueSum, Counts, SumFunction
<1>7. Read(p) = SumFunctionOnSet(f, A) /\ Read(p)' = SumFunctionOnSet(g, A)
  BY DEF Read
<1>8. Unread(p) = SumFunctionOnSet(f, B) /\ Unread(p)' = SumFunctionOnSet(g, B)
  BY <1>3 DEF Unread
<1>9. w.counters = watchers[k].counters => \A q \in D : f[q] = g[q]
  BY <1>4, <1>5 DEF Counts
<1> HIDE DEF f, g, A, B, D
<1>10. \A q \in D : f[q] \in Int /\ g[q] \in Nat /\ f[q] <= g[q]
  BY <1>2, <1>4, <1>5
<1>11. \A S \in SUBSET D : IsFiniteSet(S) =>
          /\ SumFunctionOnSet(f, S) <= SumFunctionOnSet(g, S)
          /\ (\A q \in D : f[q] = g[q]) => SumFunctionOnSet(f, S) = SumFunctionOnSet(g, S)
  <2> SUFFICES ASSUME NEW S \in SUBSET D, IsFiniteSet(S)
               PROVE  /\ SumFunctionOnSet(f, S) <= SumFunctionOnSet(g, S)
                      /\ (\A q \in D : f[q] = g[q]) => SumFunctionOnSet(f, S) = SumFunctionOnSet(g, S)
    OBVIOUS
  <2>1. SumFunctionOnSet(f, S) <= SumFunctionOnSet(g, S)
    BY <1>10, SumMonotone
  <2>2. ASSUME \A q \in D : f[q] = g[q] PROVE SumFunctionOnSet(f, S) = SumFunctionOnSet(g, S)
    BY <2>2, SumSame
  <2> QED
    BY <2>1, <2>2
<1>12. SumFunctionOnSet(f, A) <= SumFunctionOnSet(g, A) /\ SumFunctionOnSet(f, B) <= SumFunctionOnSet(g, B)
       /\ SumFunctionOnSet(f, D) <= SumFunctionOnSet(g, D)
  BY <1>2, <1>11
<1>13. w.counters = watchers[k].counters =>
          /\ SumFunctionOnSet(f, A) = SumFunctionOnSet(g, A)
          /\ SumFunctionOnSet(f, D) = SumFunctionOnSet(g, D)
  BY <1>2, <1>9, <1>11
<1>14. /\ SumFunctionOnSet(g, A) \in Nat /\ SumFunctionOnSet(g, B) \in Nat
       /\ SumFunctionOnSet(g, D) \in Nat
  BY <1>2, <1>10, SumNat
<1> QED
  BY <1>2, <1>3, <1>6, <1>7, <1>8, <1>12, <1>13, <1>14

(* A thread that ends leaves what has been read of the flows right.         *)
LEMMA FlowsStay ==
    ASSUME WatchInv, ReportInv, NEW k, NEW w, Counted(k, w), UNCHANGED reading,
           w.flows = watchers[k].flows
    PROVE  FlowsRead => FlowsRead'
<1>1. WatchTypes /\ reading.at <= Len(watchers) + 1
  BY DEF WatchInv, ReportInv
<1>2. \A q \in DOMAIN watchers : watchers'[q].flows = watchers[q].flows
  BY DEF Counted
<1>3. 1..(reading.at - 1) \subseteq DOMAIN watchers
  BY <1>1, Places
<1>4. \A q \in 1..(reading.at - 1) : watchers'[q].flows = watchers[q].flows
  BY <1>2, <1>3
<1>5. \A x : SawFlow(x, reading.at - 1)' = SawFlow(x, reading.at - 1)
  BY <1>4 DEF SawFlow
<1>6. \A x : Packets(x, reading.at - 1)' = Packets(x, reading.at - 1)
  <2> SUFFICES ASSUME NEW x PROVE Packets(x, reading.at - 1)' = Packets(x, reading.at - 1)
    OBVIOUS
  <2> DEFINE f == [q \in SawFlow(x, reading.at - 1) |-> watchers[q].flows[x]]
             g == [q \in SawFlow(x, reading.at - 1) |-> watchers'[q].flows[x]]
  <2>1. \A q \in SawFlow(x, reading.at - 1) : watchers'[q].flows = watchers[q].flows
    BY <1>4 DEF SawFlow
  <2>2. f = g
    BY <2>1
  <2>3. Packets(x, reading.at - 1)' = SumFunction(g)
    BY <1>5 DEF Packets
  <2> QED
    BY <2>2, <2>3 DEF Packets
<1>7. UNION {DOMAIN watchers'[q].flows : q \in 1..(reading.at - 1)} =
         UNION {DOMAIN watchers[q].flows : q \in 1..(reading.at - 1)}
  BY <1>4
<1> QED
  BY <1>6, <1>7 DEF FlowsRead

LEMMA CaptureReport ==
    ASSUME WatchInv, ReportInv, NEW k \in DOMAIN watchers, Capture(k) \/ CaptureBreaks(k)
    PROVE  ReportInv'
<1>1. UNCHANGED <<watch, reading, atTick>>
  BY DEF Capture, CaptureBreaks
<1>2. captured.n \in Nat /\ atTick.n \in Nat /\ captured.n >= atTick.n
  BY DEF WatchInv, WatchTypes, ReportInv
<1>3. \A p \in Protos : /\ reading.sum[p] \in Nat /\ atTick.sum[p] \in Nat
                        /\ Read(p) \in Nat /\ Unread(p) \in Nat /\ TrueSum[p] \in Nat
  <2>1. \A p \in Protos : reading.sum[p] \in Nat /\ atTick.sum[p] \in Nat
    BY DEF WatchInv, WatchTypes
  <2>2. \A p \in Protos : Read(p) \in Nat /\ Unread(p) \in Nat
    BY ReadTyped DEF WatchInv, ReportInv
  <2>3. TrueSum \in [Protos -> Nat]
    BY TrueSumTyped DEF WatchInv
  <2> QED
    BY <2>1, <2>2, <2>3
<1>4. CASE Capture(k)
  <2>1. PICK w : Counted(k, w)
    BY <1>4, CaptureCounts
  <2>2. captured'.n = captured.n + 1
    BY <1>4, CaptureCounts
  <2>3. ~Quiet' /\ captured'.n >= atTick'.n
    BY <1>1, <1>2, <2>2 DEF Quiet
  <2>4. \A p \in Protos :
            /\ Read(p) <= Read(p)' /\ Unread(p) <= Unread(p)' /\ TrueSum[p] <= TrueSum'[p]
            /\ Read(p)' \in Nat /\ Unread(p)' \in Nat /\ TrueSum'[p] \in Nat
    BY <1>1, <2>1, CountsGrow
  <2>5. Len(watchers') = Len(watchers)
    <3>1. "TCP" \in Protos
      BY DEF Protos
    <3> QED
      BY <1>1, <2>1, <3>1, CountsGrow
  <2>6. SumInv'
    <3>1. CASE watch # "sum"
      BY <1>1, <3>1 DEF SumInv
    <3>2. CASE watch = "sum"
      <4>1. /\ reading.flows = NoFlows
            /\ \A p \in Protos : /\ reading.sum[p] <= Read(p)
                                 /\ atTick.sum[p] <= reading.sum[p] + Unread(p)
                                 /\ Quiet => reading.sum[p] = Read(p)
        BY <3>2 DEF ReportInv, SumInv
      <4>2. \A p \in Protos : /\ reading.sum[p] <= Read(p)'
                              /\ atTick.sum[p] <= reading.sum[p] + Unread(p)'
        <5> SUFFICES ASSUME NEW p \in Protos
                     PROVE  /\ reading.sum[p] <= Read(p)'
                            /\ atTick.sum[p] <= reading.sum[p] + Unread(p)'
          OBVIOUS
        <5>1. /\ reading.sum[p] \in Nat /\ atTick.sum[p] \in Nat
              /\ Read(p) \in Nat /\ Unread(p) \in Nat
          BY <1>3
        <5>2. /\ Unread(p) <= Unread(p)' /\ Unread(p)' \in Nat
              /\ Read(p) <= Read(p)' /\ Read(p)' \in Nat
          BY <2>4
        <5>3. /\ reading.sum[p] <= Read(p) /\ atTick.sum[p] <= reading.sum[p] + Unread(p)
              /\ Quiet => reading.sum[p] = Read(p)
          BY <4>1, Zenon
        <5> QED
          BY <5>1, <5>2, <5>3
      <4> QED
        BY <1>1, <2>3, <4>1, <4>2 DEF SumInv
    <3> QED
      BY <3>1, <3>2
  <2>7. MergeInv'
    <3>1. CASE watch # "merge"
      BY <1>1, <3>1 DEF MergeInv
    <3>2. CASE watch = "merge"
      <4>1. \A p \in Protos : /\ reading.sum[p] <= TrueSum[p]
                              /\ atTick.sum[p] <= reading.sum[p]
                              /\ Quiet => reading.sum[p] = TrueSum[p]
        BY <3>2, Zenon DEF ReportInv, MergeInv
      <4>2. \A p \in Protos : reading.sum[p] <= TrueSum'[p]
        BY <1>3, <2>4, <4>1
      <4> QED
        BY <1>1, <2>3, <4>1, <4>2 DEF MergeInv
    <3> QED
      BY <3>1, <3>2
  <2> QED
    BY <1>1, <2>3, <2>5, <2>6, <2>7 DEF ReportInv
<1>5. CASE CaptureBreaks(k)
  <2>1. PICK w : Counted(k, w) /\ w.counters = watchers[k].counters /\ w.flows = watchers[k].flows
    BY <1>5, BreakCounts
  <2>2. captured' = captured
    BY <1>5 DEF CaptureBreaks
  <2>3. Quiet' = Quiet
    BY <1>1, <2>2 DEF Quiet
  <2>4. \A p \in Protos :
            /\ Read(p)' = Read(p) /\ Unread(p) <= Unread(p)' /\ TrueSum'[p] = TrueSum[p]
            /\ Unread(p)' \in Nat
    BY <1>1, <2>1, CountsGrow
  <2>5. Len(watchers') = Len(watchers)
    <3>1. "TCP" \in Protos
      BY DEF Protos
    <3> QED
      BY <1>1, <2>1, <3>1, CountsGrow
  <2>6. SumInv'
    <3>1. CASE watch # "sum"
      BY <1>1, <3>1 DEF SumInv
    <3>2. CASE watch = "sum"
      <4>1. /\ reading.flows = NoFlows
            /\ \A p \in Protos : /\ reading.sum[p] <= Read(p)
                                 /\ atTick.sum[p] <= reading.sum[p] + Unread(p)
                                 /\ Quiet => reading.sum[p] = Read(p)
        BY <3>2 DEF ReportInv, SumInv
      <4>2. \A p \in Protos : /\ reading.sum[p] <= Read(p)'
                              /\ atTick.sum[p] <= reading.sum[p] + Unread(p)'
                              /\ Quiet' => reading.sum[p] = Read(p)'
        <5> SUFFICES ASSUME NEW p \in Protos
                     PROVE  /\ reading.sum[p] <= Read(p)'
                            /\ atTick.sum[p] <= reading.sum[p] + Unread(p)'
                            /\ Quiet' => reading.sum[p] = Read(p)'
          OBVIOUS
        <5>1. /\ reading.sum[p] \in Nat /\ atTick.sum[p] \in Nat
              /\ Read(p) \in Nat /\ Unread(p) \in Nat
          BY <1>3
        <5>2. /\ Unread(p) <= Unread(p)' /\ Unread(p)' \in Nat
              /\ Read(p)' = Read(p)
          BY <2>4
        <5>3. /\ reading.sum[p] <= Read(p) /\ atTick.sum[p] <= reading.sum[p] + Unread(p)
              /\ Quiet => reading.sum[p] = Read(p)
          BY <4>1, Zenon
        <5> QED
          BY <2>3, <5>1, <5>2, <5>3
      <4> QED
        BY <1>1, <4>1, <4>2 DEF SumInv
    <3> QED
      BY <3>1, <3>2
  <2>7. FlowsRead => FlowsRead'
    BY <1>1, <2>1, FlowsStay
  <2>8. MergeInv'
    BY <1>1, <2>3, <2>4, <2>7 DEF ReportInv, MergeInv
  <2> QED
    BY <1>1, <1>2, <2>2, <2>5, <2>6, <2>8 DEF ReportInv
<1> QED
  BY <1>4, <1>5

(* Only an opened watch has a reading under way. *)
LEMMA StartReport ==
    ASSUME WatchInv, ReportInv, NotFound \/ NotOpened \/ Opened \/ Started \/ CtrlC
    PROVE  ReportInv'
<1>1. UNCHANGED <<reading, atTick, captured>> /\ watch' \notin {"sum", "merge"}
  BY DEF NotFound, NotOpened, Opened, Started, CtrlC, Concluded
<1>2. Len(watchers) \in Nat /\ Len(watchers') \in Nat /\ Len(watchers) <= Len(watchers')
  <2>1. watchers \in Seq(Watchers)
    BY DEF WatchInv, WatchTypes
  <2>2. watchers' = watchers \/ \E w : watchers' = Append(watchers, w)
    BY DEF NotFound, NotOpened, Opened, Started, CtrlC
  <2> QED
    BY <2>1, <2>2
<1>3. reading.at \in Nat
  BY DEF WatchInv, WatchTypes
<1> QED
  BY <1>1, <1>2, <1>3 DEF ReportInv, SumInv, MergeInv

LEMMA TickReport == ASSUME WatchInv, ReportInv, TimerTick PROVE ReportInv'
<1>1. /\ watch' = "sum" /\ reading' = NoReading /\ watchers' = watchers /\ captured' = captured
      /\ atTick' = [sum |-> TrueSum, n |-> captured.n]
  BY DEF TimerTick, FreshReading
<1>2. reading'.at = 1 /\ reading'.sum = Zero /\ reading'.flows = NoFlows
  BY <1>1 DEF NoReading
<1>3. captured.n \in Nat /\ atTick'.n = captured.n /\ atTick'.sum = TrueSum
  BY <1>1 DEF WatchInv, WatchTypes
<1>4. \A p \in Protos : Read(p)' = 0 /\ Unread(p)' = TrueSum[p] /\ TrueSum[p] \in Nat
  <2> SUFFICES ASSUME NEW p \in Protos
               PROVE  Read(p)' = 0 /\ Unread(p)' = TrueSum[p] /\ TrueSum[p] \in Nat
    OBVIOUS
  <2>1. Counts(p)' = Counts(p)
    BY <1>1 DEF Counts
  <2>2. 1..(reading'.at - 1) = {} /\ reading'.at..Len(watchers') = DOMAIN watchers
    BY <1>1, <1>2, CountsTyped DEF WatchInv
  <2>3. Read(p)' = 0
    BY <2>1, <2>2, SumEmpty DEF Read
  <2>4. Unread(p)' = TrueSum[p]
    BY <2>1, <2>2, CountsTyped DEF Unread, WatchInv
  <2> QED
    BY <2>3, <2>4, TrueSumTyped DEF WatchInv
<1>5. SumInv'
  BY <1>2, <1>3, <1>4 DEF SumInv, Zero
<1>6. Len(watchers') \in Nat
  BY <1>1, CountsTyped DEF WatchInv
<1> QED
  BY <1>1, <1>2, <1>3, <1>5, <1>6 DEF ReportInv, MergeInv

(* What one more interface adds to what has been read. *)
LEMMA OneMoreRead ==
    ASSUME WatchInv, ReportInv, reading.at \in DOMAIN watchers, UNCHANGED watchers,
           reading'.at = reading.at + 1, NEW p \in Protos
    PROVE  /\ Read(p)' = Read(p) + watchers[reading.at].counters[p]
           /\ Unread(p) = Unread(p)' + watchers[reading.at].counters[p]
           /\ watchers[reading.at].counters[p] \in Nat
           /\ Read(p)' \in Nat /\ Unread(p)' \in Nat
<1> DEFINE f == Counts(p)
           n == reading.at
           A == 1..(n - 1)
           B == (n + 1)..Len(watchers)
<1>1. /\ n \in 1..Len(watchers) /\ Len(watchers) \in Nat /\ DOMAIN watchers = 1..Len(watchers)
      /\ \A k \in 1..Len(watchers) : f[k] \in Nat
  BY CountsTyped DEF WatchInv
<1>2. f[n] = watchers[n].counters[p] /\ Counts(p)' = f
  BY DEF Counts
<1>3. 1..(reading'.at - 1) = A \cup {n} /\ n \notin A /\ A \subseteq 1..Len(watchers)
  BY <1>1
<1>4. /\ reading.at..Len(watchers) = B \cup {n} /\ n \notin B /\ B \subseteq 1..Len(watchers)
      /\ reading'.at..Len(watchers) = B
  BY <1>1
<1>5. IsFiniteSet(A) /\ IsFiniteSet(B)
  <2>1. IsFiniteSet(1..Len(watchers))
    BY <1>1, FS_Interval
  <2> QED
    BY <1>3, <1>4, <2>1, FS_Subset
<1>6. Read(p) = SumFunctionOnSet(f, A) /\ Read(p)' = SumFunctionOnSet(f, A \cup {n})
  BY <1>2, <1>3 DEF Read
<1>7. Unread(p) = SumFunctionOnSet(f, B \cup {n}) /\ Unread(p)' = SumFunctionOnSet(f, B)
  BY <1>2, <1>4 DEF Unread
<1> HIDE DEF f, n, A, B
<1>8. f[n] \in Nat /\ (\A k \in A \cup {n} : f[k] \in Nat) /\ (\A k \in B \cup {n} : f[k] \in Nat)
  BY <1>1, <1>3, <1>4
<1>9. SumFunctionOnSet(f, A \cup {n}) = f[n] + SumFunctionOnSet(f, A)
  BY <1>3, <1>5, <1>8, SumAdd
<1>10. SumFunctionOnSet(f, B \cup {n}) = f[n] + SumFunctionOnSet(f, B)
  BY <1>4, <1>5, <1>8, SumAdd
<1>11. SumFunctionOnSet(f, A) \in Nat /\ SumFunctionOnSet(f, B) \in Nat
  BY <1>5, <1>8, SumNat
<1>12. watchers[reading.at].counters[p] = f[n]
  BY <1>2 DEF n
<1> QED
  BY <1>6, <1>7, <1>8, <1>9, <1>10, <1>11, <1>12

LEMMA SumReport == ASSUME WatchInv, ReportInv, SumNext PROVE ReportInv'
<1>1. watch = "sum" /\ UNCHANGED <<watchers, atTick, captured>>
  BY DEF SumNext
<1>2. /\ reading.flows = NoFlows
      /\ \A p \in Protos : /\ reading.sum[p] <= Read(p)
                           /\ atTick.sum[p] <= reading.sum[p] + Unread(p)
                           /\ Quiet => reading.sum[p] = Read(p)
      /\ reading.at <= Len(watchers) + 1 /\ captured.n >= atTick.n
  BY <1>1 DEF ReportInv, SumInv
<1>3. /\ \A p \in Protos : reading.sum[p] \in Nat /\ atTick.sum[p] \in Nat
      /\ reading.at \in Nat \ {0} /\ Len(watchers) \in Nat /\ DOMAIN watchers = 1..Len(watchers)
  BY CountsTyped DEF WatchInv, WatchTypes
<1>4. Quiet' = Quiet
  BY <1>1 DEF Quiet
<1>5. CASE reading.at \in DOMAIN watchers
  <2>1. /\ watch' = "sum" /\ reading'.at = reading.at + 1 /\ reading'.flows = reading.flows
        /\ \A p \in Protos : reading'.sum[p] = reading.sum[p] + watchers[reading.at].counters[p]
    BY <1>5, Summed DEF WatchInv
  <2>2. \A p \in Protos : /\ reading'.sum[p] <= Read(p)'
                          /\ atTick'.sum[p] <= reading'.sum[p] + Unread(p)'
                          /\ Quiet' => reading'.sum[p] = Read(p)'
    <3> SUFFICES ASSUME NEW p \in Protos
                 PROVE  /\ reading'.sum[p] <= Read(p)'
                        /\ atTick'.sum[p] <= reading'.sum[p] + Unread(p)'
                        /\ Quiet' => reading'.sum[p] = Read(p)'
      OBVIOUS
    <3>1. /\ Read(p)' = Read(p) + watchers[reading.at].counters[p]
          /\ Unread(p) = Unread(p)' + watchers[reading.at].counters[p]
          /\ watchers[reading.at].counters[p] \in Nat
          /\ Read(p)' \in Nat /\ Unread(p)' \in Nat
      BY <1>1, <1>5, <2>1, OneMoreRead
    <3>2. Read(p) \in Nat /\ Unread(p) \in Nat
      BY <1>2, ReadTyped DEF WatchInv
    <3>3. /\ reading.sum[p] <= Read(p) /\ atTick.sum[p] <= reading.sum[p] + Unread(p)
          /\ Quiet => reading.sum[p] = Read(p)
          /\ reading.sum[p] \in Nat /\ atTick.sum[p] \in Nat
      BY <1>2, <1>3
    <3>4. reading'.sum[p] = reading.sum[p] + watchers[reading.at].counters[p]
      BY <2>1
    <3> QED
      BY <1>1, <1>4, <3>1, <3>2, <3>3, <3>4
  <2>3. SumInv' /\ MergeInv'
    BY <1>2, <2>1, <2>2 DEF SumInv, MergeInv
  <2> QED
    BY <1>1, <1>2, <1>3, <1>5, <2>1, <2>3 DEF ReportInv
<1>6. CASE reading.at \notin DOMAIN watchers
  <2>1. reading.at = Len(watchers) + 1
    BY <1>2, <1>3, <1>6
  <2>2. watch' = "merge" /\ reading' = [reading EXCEPT !.at = 1]
    BY <1>6 DEF SumNext
  <2>3. reading'.at = 1 /\ reading'.sum = reading.sum /\ reading'.flows = NoFlows
    BY <1>2, <2>2 DEF WatchInv, WatchTypes
  <2>4. TrueSum' = TrueSum
    BY <1>1 DEF TrueSum
  <2>5. \A p \in Protos : /\ reading.sum[p] <= TrueSum[p] /\ atTick.sum[p] <= reading.sum[p]
                          /\ Quiet => reading.sum[p] = TrueSum[p]
    <3> SUFFICES ASSUME NEW p \in Protos
                 PROVE  /\ reading.sum[p] <= TrueSum[p] /\ atTick.sum[p] <= reading.sum[p]
                        /\ Quiet => reading.sum[p] = TrueSum[p]
      OBVIOUS
    <3>1. Read(p) \in Nat /\ Unread(p) \in Nat /\ TrueSum[p] = Read(p) + Unread(p)
      BY <1>2, ReadTyped DEF WatchInv
    <3>2. Unread(p) = 0
      <4>1. reading.at..Len(watchers) = {}
        BY <1>3, <2>1
      <4> QED
        BY <4>1, SumEmpty DEF Unread
    <3> QED
      BY <1>2, <1>3, <3>1, <3>2
  <2>6. FlowsRead'
    <3>1. 1..(reading'.at - 1) = {} /\ DOMAIN reading'.flows = {}
      BY <2>3 DEF NoFlows
    <3> QED
      BY <3>1 DEF FlowsRead
  <2>7. SumInv' /\ MergeInv'
    BY <1>1, <1>4, <2>2, <2>3, <2>4, <2>5, <2>6 DEF SumInv, MergeInv
  <2> QED
    BY <1>1, <1>2, <1>3, <2>3, <2>7 DEF ReportInv
<1> QED
  BY <1>5, <1>6

(* A flow's packets with one more interface, and those of one not yet seen. *)
LEMMA OneMorePackets ==
    ASSUME WatchTypes, NEW n \in DOMAIN watchers, NEW x
    PROVE  LET w == watchers[n].flows
           IN  /\ Packets(x, n) = Packets(x, n - 1) + IF x \in DOMAIN w THEN w[x] ELSE 0
               /\ x \notin UNION {DOMAIN watchers[k].flows : k \in 1..(n - 1)} =>
                      Packets(x, n - 1) = 0
<1> DEFINE S == SawFlow(x, n - 1)
           f == [k \in S \cup {n} |-> watchers[k].flows[x]]
           g == [k \in S |-> watchers[k].flows[x]]
<1>1. n \in 1..Len(watchers) /\ Len(watchers) \in Nat /\ DOMAIN watchers = 1..Len(watchers)
  BY CountsTyped
<1>2. 1..n = 1..(n - 1) \cup {n} /\ n \notin 1..(n - 1) /\ 1..(n - 1) \subseteq 1..Len(watchers)
  BY <1>1
<1>3. IsFiniteSet(S) /\ S \subseteq 1..(n - 1)
  <2>1. PICK a \in Int : a = n - 1
    BY <1>1
  <2>2. IsFiniteSet(1..(n - 1))
    BY <2>1, FS_Interval
  <2>3. S \subseteq 1..(n - 1)
    BY DEF SawFlow
  <2> QED
    BY <2>2, <2>3, FS_Subset
<1>4. \A k \in 1..Len(watchers) : x \in DOMAIN watchers[k].flows => watchers[k].flows[x] \in Nat
  <2> SUFFICES ASSUME NEW k \in 1..Len(watchers), x \in DOMAIN watchers[k].flows
               PROVE  watchers[k].flows[x] \in Nat
    OBVIOUS
  <2>1. watchers[k] \in Watchers
    BY <1>1 DEF WatchTypes
  <2>2. watchers[k].flows \in FlowMaps
    BY <2>1 DEF Watchers
  <2> QED
    BY <2>2 DEF FlowMaps
<1>5. \A k \in S : g[k] \in Nat
  BY <1>2, <1>3, <1>4 DEF SawFlow
<1>6. Packets(x, n - 1) = SumFunctionOnSet(g, S) /\ SumFunctionOnSet(g, S) \in Nat
  <2>1. Packets(x, n - 1) = SumFunctionOnSet(g, S)
    BY DEF Packets, SumFunction
  <2>2. SumFunctionOnSet(g, S) \in Nat
    <3> HIDE DEF g, S
    <3> QED
      BY <1>3, <1>5, SumNat
  <2> QED
    BY <2>1, <2>2
<1>7. x \notin UNION {DOMAIN watchers[k].flows : k \in 1..(n - 1)} => Packets(x, n - 1) = 0
  <2> SUFFICES ASSUME x \notin UNION {DOMAIN watchers[k].flows : k \in 1..(n - 1)}
               PROVE  Packets(x, n - 1) = 0
    OBVIOUS
  <2>1. S = {}
    BY DEF SawFlow
  <2> QED
    BY <1>6, <2>1, SumEmpty
<1>8. CASE x \in DOMAIN watchers[n].flows
  <2>1. SawFlow(x, n) = S \cup {n}
    BY <1>2, <1>8 DEF SawFlow
  <2>2. Packets(x, n) = SumFunctionOnSet(f, S \cup {n})
    BY <2>1 DEF Packets, SumFunction
  <2>3. /\ n \notin S /\ f[n] = watchers[n].flows[x] /\ f[n] \in Nat
        /\ \A k \in S : f[k] = g[k]
    <3>1. n \notin S
      BY <1>2, <1>3
    <3>2. watchers[n].flows[x] \in Nat
      BY <1>1, <1>4, <1>8
    <3>3. f[n] = watchers[n].flows[x] /\ \A k \in S : f[k] = g[k]
      <4> HIDE DEF S
      <4> QED
        OBVIOUS
    <3> QED
      BY <3>1, <3>2, <3>3
  <2>4. \A k \in S \cup {n} : f[k] \in Int
    BY <1>5, <2>3
  <2> HIDE DEF f, g, S
  <2>5. SumFunctionOnSet(f, S \cup {n}) = f[n] + SumFunctionOnSet(f, S)
    BY <1>3, <2>3, <2>4, SumAdd
  <2>6. SumFunctionOnSet(f, S) = SumFunctionOnSet(g, S)
    BY <1>3, <2>3, SumSame
  <2>7. Packets(x, n) = Packets(x, n - 1) + watchers[n].flows[x]
    BY <1>6, <2>2, <2>3, <2>5, <2>6
  <2> QED
    BY <1>8, <1>7, <2>7
<1>9. CASE x \notin DOMAIN watchers[n].flows
  <2>1. SawFlow(x, n) = S
    BY <1>2, <1>9 DEF SawFlow
  <2>2. Packets(x, n) = SumFunctionOnSet(g, S)
    BY <2>1 DEF Packets, SumFunction
  <2> QED
    BY <1>6, <1>7, <1>9, <2>2
<1> QED
  BY <1>8, <1>9

LEMMA FlowsReadStep ==
    ASSUME WatchTypes, FlowsRead, reading.at \in DOMAIN watchers, UNCHANGED watchers,
           reading'.at = reading.at + 1,
           reading'.flows = Plus(reading.flows, watchers[reading.at].flows)
    PROVE  FlowsRead'
<1> DEFINE n == reading.at
           w == watchers[n].flows
           U == UNION {DOMAIN watchers[k].flows : k \in 1..(n - 1)}
<1>1. /\ reading'.at - 1 = n /\ 1..n = 1..(n - 1) \cup {n}
  BY CountsTyped
<1>2. DOMAIN reading.flows = U /\ \A x \in U : reading.flows[x] = Packets(x, n - 1)
  BY DEF FlowsRead
<1>3. UNION {DOMAIN watchers[k].flows : k \in 1..n} = U \cup DOMAIN w
  BY <1>1
<1>4. \A x : Packets(x, reading.at - 1)' = Packets(x, n)
  <2> SUFFICES ASSUME NEW x PROVE Packets(x, reading.at - 1)' = Packets(x, n)
    OBVIOUS
  <2>1. SawFlow(x, reading.at - 1)' = SawFlow(x, n)
    BY <1>1 DEF SawFlow
  <2> QED
    BY <2>1 DEF Packets
<1>5. DOMAIN w \in SUBSET Flows /\ w \in [DOMAIN w -> Nat] /\ reading.flows \in [U -> Nat]
  <2>1. watchers[n] \in Watchers
    BY DEF WatchTypes
  <2>2. w \in FlowMaps /\ reading.flows \in FlowMaps
    BY <2>1 DEF Watchers, WatchTypes
  <2> QED
    BY <1>2, <2>2 DEF FlowMaps
<1>6. reading'.flows = Plus(reading.flows, w)
  OBVIOUS
<1>7. DOMAIN reading'.flows = UNION {DOMAIN watchers'[k].flows : k \in 1..(reading'.at - 1)}
  <2>1. DOMAIN reading'.flows = U \cup DOMAIN w
    BY <1>2, <1>6 DEF Plus
  <2> QED
    BY <1>1, <1>3, <2>1
<1>8. \A x \in DOMAIN reading'.flows : reading'.flows[x] = Packets(x, reading.at - 1)'
  <2>0. DOMAIN reading'.flows = U \cup DOMAIN w
    BY <1>2, <1>6 DEF Plus
  <2> SUFFICES ASSUME NEW x \in U \cup DOMAIN w
               PROVE  reading'.flows[x] = Packets(x, n)
    <3> HIDE DEF U, w
    <3> QED
      BY <1>4, <2>0
  <2>1. reading'.flows[x] = (IF x \in U THEN reading.flows[x] ELSE 0)
                             + (IF x \in DOMAIN w THEN w[x] ELSE 0)
    BY <1>2, <1>6 DEF Plus
  <2>2. /\ x \in U => reading.flows[x] = Packets(x, n - 1) /\ reading.flows[x] \in Nat
        /\ x \in DOMAIN w => w[x] \in Nat
    BY <1>2, <1>5
  <2>3. /\ Packets(x, n) = Packets(x, n - 1) + IF x \in DOMAIN w THEN w[x] ELSE 0
        /\ x \notin U => Packets(x, n - 1) = 0
    BY OneMorePackets
  <2> HIDE DEF U, w, n
  <2> QED
    BY <2>1, <2>2, <2>3
<1> QED
  BY <1>7, <1>8 DEF FlowsRead

LEMMA MergeReport == ASSUME WatchInv, ReportInv, MergeNext PROVE ReportInv'
<1>1. watch = "merge" /\ UNCHANGED <<watchers, atTick, captured>>
  BY DEF MergeNext
<1>2. /\ \A p \in Protos : /\ reading.sum[p] <= TrueSum[p]
                           /\ atTick.sum[p] <= reading.sum[p]
                           /\ Quiet => reading.sum[p] = TrueSum[p]
      /\ Quiet => FlowsRead
      /\ reading.at <= Len(watchers) + 1 /\ captured.n >= atTick.n
  BY <1>1 DEF ReportInv, MergeInv
<1>3. reading.at \in Nat \ {0} /\ Len(watchers) \in Nat /\ DOMAIN watchers = 1..Len(watchers)
  BY CountsTyped DEF WatchInv, WatchTypes
<1>4. Quiet' = Quiet /\ TrueSum' = TrueSum
  BY <1>1 DEF Quiet, TrueSum
<1>5. CASE reading.at \in DOMAIN watchers
  <2>1. /\ watch' = "merge" /\ reading'.at = reading.at + 1 /\ reading'.sum = reading.sum
        /\ reading'.flows = Plus(reading.flows, watchers[reading.at].flows)
    BY <1>5, MergedNext DEF WatchInv
  <2>2. FlowsRead => FlowsRead'
    BY <1>1, <1>5, <2>1, FlowsReadStep DEF WatchInv
  <2>3. SumInv' /\ MergeInv'
    BY <1>1, <1>2, <1>4, <2>1, <2>2 DEF SumInv, MergeInv
  <2> QED
    BY <1>1, <1>2, <1>3, <1>5, <2>1, <2>3 DEF ReportInv
<1>6. CASE reading.at \notin DOMAIN watchers
  <2>1. watch' = "select" /\ reading' = reading
    BY <1>6 DEF MergeNext
  <2> QED
    BY <1>1, <1>2, <2>1 DEF ReportInv, SumInv, MergeInv
<1> QED
  BY <1>5, <1>6

LEMMA ReportInvStep ==
    ASSUME WatchInv, ReportInv, [WatchNext]_watchVars
    PROVE  ReportInv'
<1>1. CASE UNCHANGED watchVars
  <2>1. /\ TrueSum' = TrueSum /\ Quiet' = Quiet /\ FlowsRead' = FlowsRead
        /\ \A p : Read(p)' = Read(p) /\ Unread(p)' = Unread(p)
    BY <1>1 DEF watchVars, TrueSum, Quiet, FlowsRead, Packets, SawFlow, Read, Unread, Counts
  <2> QED
    BY <1>1, <2>1 DEF watchVars, ReportInv, SumInv, MergeInv
<1> QED
  BY <1>1, StartReport, CaptureReport, TickReport, SumReport, MergeReport DEF WatchNext

LEMMA ReportTrueHolds == WatchInv /\ ReportInv => ReportTrue
<1> SUFFICES ASSUME WatchInv, ReportInv PROVE SumBetween /\ QuietReportIsExact
  BY DEF ReportTrue
<1>1. SumBetween
  BY DEF ReportInv, MergeInv, SumBetween
<1>2. QuietReportIsExact
  <2> SUFFICES ASSUME watch = "merge", reading.at > Len(watchers), captured.n = atTick.n
               PROVE  /\ reading.sum = TrueSum
                      /\ DOMAIN reading.flows =
                            UNION {DOMAIN watchers[k].flows : k \in DOMAIN watchers}
                      /\ \A x \in DOMAIN reading.flows :
                            LET seen == {k \in DOMAIN watchers : x \in DOMAIN watchers[k].flows}
                            IN  reading.flows[x] =
                                   SumFunction([k \in seen |-> watchers[k].flows[x]])
    BY DEF QuietReportIsExact
  <2>1. FlowsRead /\ \A p \in Protos : reading.sum[p] = TrueSum[p]
    BY DEF ReportInv, MergeInv, Quiet
  <2>2. reading.sum = TrueSum
    <3>1. reading.sum \in [Protos -> Nat] /\ TrueSum \in [Protos -> Nat]
      BY TrueSumTyped DEF WatchInv, WatchTypes
    <3> QED
      BY <2>1, <3>1
  <2>3. 1..(reading.at - 1) = DOMAIN watchers
    <3>1. /\ reading.at \in Nat /\ reading.at <= Len(watchers) + 1 /\ Len(watchers) \in Nat
          /\ DOMAIN watchers = 1..Len(watchers)
      BY CountsTyped DEF WatchInv, WatchTypes, ReportInv
    <3>2. reading.at = Len(watchers) + 1
      BY <3>1
    <3> QED
      BY <3>1, <3>2
  <2> QED
    BY <2>1, <2>2, <2>3 DEF FlowsRead, Packets, SawFlow
<1> QED
  BY <1>1, <1>2

(* However the threads go on, and end, while they are read, what is printed *)
(* lies between the truth at the tick and now, and is the truth, flow by    *)
(* flow, when nothing was captured meanwhile.                               *)
THEOREM ReportsAreTrue == WatchSpec => []ReportTrue
BY ReportTrueHolds, WatchInvInit, WatchInvStep, ReportInvInit, ReportInvStep, PTL DEF WatchSpec

------------------------------------------------------------------------------
(* Frames and addresses: what holds of every frame and of every address.    *)

Types == STRING \cup VlanTypes

LEMMA TailOfJoin ==
    ASSUME NEW t \in Types, NEW s \in Seq(Types)
    PROVE  <<t>> \o s \in Seq(Types) /\ (<<t>> \o s)[1] = t /\ Tail(<<t>> \o s) = s
<1>1. <<t>> \o s \in Seq(Types) /\ Len(<<t>> \o s) = Len(s) + 1 /\ Len(s) \in Nat
  <2>1. <<t>> \in Seq(Types) /\ Len(<<t>>) = 1
    OBVIOUS
  <2> QED
    BY <2>1
<1>2. \A k \in 1..Len(s) : (<<t>> \o s)[k + 1] = s[k]
  OBVIOUS
<1>3. (<<t>> \o s)[1] = t
  OBVIOUS
<1> DEFINE j == <<t>> \o s
<1> HIDE DEF j
<1>4. j \in Seq(Types) /\ Len(j) = Len(s) + 1 /\ \A k \in 1..Len(s) : j[k + 1] = s[k]
  BY <1>1, <1>2 DEF j
<1>5. Tail(j) \in Seq(Types) /\ Len(Tail(j)) = Len(s)
  BY <1>1, <1>4
<1>6. \A k \in 1..Len(s) : Tail(j)[k] = s[k]
  BY <1>1, <1>4, <1>5
<1>7. Tail(j) = s
  BY <1>5, <1>6, SeqEqual
<1> QED
  BY <1>1, <1>3, <1>7 DEF j

(* One turn of strip_vlan_tags takes a tag off, or is over.                 *)
LEMMA OneTag ==
    ASSUME NEW t \in VlanTypes, NEW s \in Seq(Types), NEW left \in Int
    PROVE  /\ left >= 0 => StripTag([types |-> <<t>> \o s, left |-> left + 4]) =
                              [types |-> s, left |-> left]
           /\ s[1] \notin VlanTypes => StripTag([types |-> s, left |-> left]) =
                                          [types |-> s, left |-> left]
<1>1. PICK j : j = <<t>> \o s
  OBVIOUS
<1>2. j[1] \in VlanTypes /\ Tail(j) = s
  BY <1>1, TailOfJoin DEF Types
<1>3. PICK m \in Int : m = left + 4 /\ m - 4 = left /\ (left >= 0 => m >= 4)
  OBVIOUS
<1>4. left >= 0 => StripTag([types |-> j, left |-> m]) = [types |-> s, left |-> left]
  <2> DEFINE p == [types |-> j, left |-> m]
  <2>1. p.types = j /\ p.left = m
    OBVIOUS
  <2> HIDE DEF p
  <2>2. left >= 0 => StripTag(p) = [types |-> s, left |-> left]
    BY <1>2, <1>3, <2>1 DEF StripTag
  <2> QED
    BY <2>2 DEF p
<1>5. s[1] \notin VlanTypes =>
         StripTag([types |-> s, left |-> left]) = [types |-> s, left |-> left]
  BY DEF StripTag
<1> QED
  BY <1>1, <1>3, <1>4, <1>5

LEMMA TagUnseen ==
    ASSUME NEW f \in Frame, f.octets >= 14, f.types[1] \notin VlanTypes,
           NEW t1 \in VlanTypes, NEW t2 \in VlanTypes
    PROVE  /\ process_frame(Behind(t1, f)) = process_frame(f)
           /\ process_frame(Behind(t1, Behind(t2, f))) = process_frame(f)
<1> DEFINE s == f.types
           n == f.octets
           one == Behind(t1, f)
           two == Behind(t1, Behind(t2, f))
           bare == [types |-> s, left |-> n - 14]
<1>1. s \in Seq(Types) /\ n \in Nat /\ n >= 14 /\ n - 14 \in Int /\ n - 14 >= 0
  <2>1. s \in Seq(STRING) /\ n \in Nat
    BY DEF Frame
  <2> QED
    BY <2>1 DEF Types
<1>2. /\ one.types = <<t1>> \o s /\ one.octets = n + 4
      /\ one.next = f.next /\ one.carried = f.carried
  BY DEF Behind, Frame
<1>3. /\ two.types = <<t1>> \o (<<t2>> \o s) /\ two.octets = n + 4 + 4
      /\ two.next = f.next /\ two.carried = f.carried
  BY DEF Behind, Frame
<1> HIDE DEF one, two
<1>4. strip_vlan_tags(s, n - 14) = bare
  BY <1>1, OneTag DEF strip_vlan_tags
<1>5. strip_vlan_tags(one.types, one.octets - 14) = bare
  <2>1. one.octets - 14 = (n - 14) + 4
    BY <1>1, <1>2
  <2>2. StripTag([types |-> <<t1>> \o s, left |-> (n - 14) + 4]) = bare
    BY <1>1, OneTag
  <2>3. StripTag(bare) = bare
    BY <1>1, OneTag
  <2> QED
    BY <1>2, <2>1, <2>2, <2>3 DEF strip_vlan_tags
<1>6. strip_vlan_tags(two.types, two.octets - 14) = bare
  <2>1. two.octets - 14 = (n - 14 + 4) + 4 /\ n - 14 + 4 \in Int /\ n - 14 + 4 >= 0
    <3>1. n \in Nat /\ two.octets = n + 4 + 4
      BY <1>1, <1>3
    <3> HIDE DEF n
    <3> QED
      BY <1>1, <3>1
  <2>2. <<t2>> \o s \in Seq(Types)
    BY <1>1, TailOfJoin DEF Types
  <2>3. StripTag([types |-> <<t1>> \o (<<t2>> \o s), left |-> (n - 14 + 4) + 4]) =
           [types |-> <<t2>> \o s, left |-> n - 14 + 4]
    BY <2>1, <2>2, OneTag
  <2>4. StripTag([types |-> <<t2>> \o s, left |-> n - 14 + 4]) = bare
    BY <1>1, OneTag
  <2> QED
    BY <1>3, <2>1, <2>3, <2>4 DEF strip_vlan_tags
<1>7. ~(f.octets < 14) /\ ~(one.octets < 14) /\ ~(two.octets < 14)
  <2>1. n \in Nat /\ n >= 14 /\ one.octets = n + 4 /\ two.octets = n + 4 + 4
    BY <1>1, <1>2, <1>3
  <2>2. f.octets = n
    OBVIOUS
  <2> HIDE DEF n
  <2> QED
    BY <2>1, <2>2
<1>8. process_frame(one) = process_frame(f)
  BY <1>2, <1>4, <1>5, <1>7 DEF process_frame
<1>9. process_frame(two) = process_frame(f)
  BY <1>3, <1>4, <1>6, <1>7 DEF process_frame
<1> QED
  BY <1>8, <1>9 DEF one, two

LEMMA CutTyped ==
    ASSUME NEW f \in Frame, NEW n \in Nat, n <= f.octets
    PROVE  CutTo(n, f) \in Frame /\ CutTo(n, f).octets = n /\ CutTo(n, f).types = f.types
<1>1. f.octets \in Nat
  BY DEF Frame
<1>2. {n, f.octets} \in SUBSET Nat /\ {n, f.octets} # {}
  BY <1>1
<1>3. Min({n, f.octets}) \in {n, f.octets} /\ \A y \in {n, f.octets} : Min({n, f.octets}) <= y
  BY <1>2, MinIsLeast
<1>4. Min({n, f.octets}) = n
  <2>1. PICK m \in Nat : m = Min({n, f.octets})
    BY <1>2, <1>3
  <2>2. m <= n /\ (m = n \/ m = f.octets)
    BY <1>3, <2>1
  <2> QED
    BY <1>1, <2>1, <2>2
<1>5. CutTo(n, f) = [f EXCEPT !.octets = n]
  BY <1>4 DEF CutTo, Frame
<1> QED
  BY <1>5 DEF Frame

LEMMA TagsInvisibleHold == WatchInv => TagsInvisible
<1> SUFFICES ASSUME WatchInv, captured.n > 0, captured.frame.types[1] \notin VlanTypes,
                    NEW n \in {n \in Cuts : n <= captured.frame.octets},
                    NEW t1 \in VlanTypes, NEW t2 \in VlanTypes
             PROVE  LET f == CutTo(n, captured.frame)
                    IN  /\ process_frame(Behind(t1, f)) = process_frame(f)
                        /\ process_frame(Behind(t1, Behind(t2, f))) = process_frame(f)
  BY DEF TagsInvisible
<1>1. captured.frame \in Frame /\ n \in Nat /\ n >= 14 /\ n <= captured.frame.octets
  BY WatchAssumption DEF WatchInv, WatchTypes
<1> QED
  BY <1>1, CutTyped, TagUnseen

(* A frame is counted the same behind one tag or two, wherever it is cut.   *)
THEOREM TagsAreInvisible == WatchSpec => []TagsInvisible
BY TagsInvisibleHold, WatchInvInit, WatchInvStep, PTL DEF WatchSpec

LEMMA ZoneRespectedHolds == WatchInv => ZoneRespected
<1> SUFFICES ASSUME WatchInv,
                    NEW zone \in {table[i].name : i \in DOMAIN table} \cup {"gone", None},
                    NEW linkLocal \in BOOLEAN, NEW scope \in 0..1
             PROVE  LET target == IF zone = None THEN <<"fe80::1">> ELSE <<"fe80::1", zone>>
                        addr   == [v6 |-> TRUE, linkLocal |-> linkLocal, scope |-> scope]
                        to     == Destinations(table, target, addr)
                    IN  /\ to.tcp # addr =>
                              /\ linkLocal /\ scope = 0
                              /\ IF zone = None
                                    THEN table[to.tcp.scope].linkLocal
                                            /\ ~table[to.tcp.scope].loopback
                                    ELSE table[to.tcp.scope].name = zone
                        /\ to.icmp = [addr EXCEPT !.scope = 0]
  BY DEF ZoneRespected
<1> DEFINE target == IF zone = None THEN <<"fe80::1">> ELSE <<"fe80::1", zone>>
           addr   == [v6 |-> TRUE, linkLocal |-> linkLocal, scope |-> scope]
           after  == with_link_local_scope(table, addr, split_zone(target).zone)
<1>1. table \in Seq(Interface) /\ Len(table) \in Nat /\ DOMAIN table = 1..Len(table)
  BY TableTyped DEF WatchInv
<1>2. zone # None => zone # ""
  <2>1. \A i \in DOMAIN table : table[i].name # ""
    <3> SUFFICES ASSUME NEW i \in DOMAIN table PROVE table[i].name # ""
      OBVIOUS
    <3>1. table[i] \in Interface
      BY <1>1
    <3> QED
      BY <3>1 DEF Interface
  <2> QED
    BY <2>1
<1>3. split_zone(target).zone = zone
  <2>1. CASE zone = None
    <3>1. target = <<"fe80::1">> /\ Len(<<"fe80::1">>) = 1
      BY <2>1
    <3> QED
      BY <2>1, <3>1 DEF split_zone
  <2>2. CASE zone # None
    <3>1. /\ target = <<"fe80::1", zone>> /\ Len(<<"fe80::1", zone>>) = 2
          /\ <<"fe80::1", zone>>[2] = zone
      BY <2>2
    <3> HIDE DEF target
    <3>2. Len(target) > 1 /\ Last(target) = zone
      BY <3>1 DEF Last
    <3> QED
      BY <1>2, <2>2, <3>2 DEF split_zone
  <2> QED
    BY <2>1, <2>2
<1>4. after = IF scope = 0 /\ linkLocal THEN [addr EXCEPT !.scope = ZoneIndex(table, zone)] ELSE addr
  BY <1>3 DEF with_link_local_scope
<1>9. /\ Destinations(table, target, addr).tcp = after
      /\ Destinations(table, target, addr).icmp = [addr EXCEPT !.scope = 0]
  <2>1. [after EXCEPT !.scope = 0] = [addr EXCEPT !.scope = 0]
    BY <1>4
  <2> QED
    BY <2>1 DEF Destinations
<1> SUFFICES ASSUME after # addr
             PROVE  /\ linkLocal /\ scope = 0
                    /\ IF zone = None
                          THEN table[after.scope].linkLocal /\ ~table[after.scope].loopback
                          ELSE table[after.scope].name = zone
  BY <1>9, Zenon
<1>5. linkLocal /\ scope = 0 /\ after = [addr EXCEPT !.scope = ZoneIndex(table, zone)]
  BY <1>4
<1>6. after.scope = ZoneIndex(table, zone) /\ ZoneIndex(table, zone) # 0
  BY <1>5
<1> HIDE DEF after
<1>7. CASE zone = None
  BY <1>1, <1>5, <1>6, <1>7, LinkLocalIsFirst DEF ZoneIndex
<1>8. CASE zone # None
  BY <1>1, <1>5, <1>6, <1>8, NamedIsFirst DEF ZoneIndex
<1> QED
  BY <1>7, <1>8

(* An address to connect to that gets a scope is link-local and had none;   *)
(* the scope is the zone's interface, or without a zone one that has such   *)
(* an address; and the echo request's address has none.                     *)
THEOREM ZonesAreRespected == WatchSpec => []ZoneRespected
BY ZoneRespectedHolds, WatchInvInit, WatchInvStep, PTL DEF WatchSpec

------------------------------------------------------------------------------
(* All the commands.  A machine at rest is in no state in which it starts,  *)
(* but in one in which its invariant holds; so whichever command runs keeps *)
(* the invariants of them all.                                              *)

Resolving == {i \in Pingers : pinger[i].pc = "resolve"}

WorkersInv == queued \in 0..MaxQueued /\ Cardinality(Resolving) <= Workers

LEMMA WorkersInvInit == ASSUME DownInit \/ DownAtRest PROVE WorkersInv
<1>1. queued = 0 /\ Resolving = {}
  BY DEF DownInit, DownAtRest, Resolving
<1> QED
  BY <1>1, FS_EmptySet, DownAssumption DEF WorkersInv

LEMMA WorkersInvStep == ASSUME DownInv, WorkersInv, [DownNext]_downVars PROVE WorkersInv'
<1>1. queued' \in 0..MaxQueued
  BY DownAssumption DEF WorkersInv, DownNext, downVars, Main, TerminalCall, TerminalFails, Draw,
     PollKeys, CloseRuntime, Exit, CtrlCInPing, TimePasses, EngineSends, RelayTakes,
     StartResolve, EndResolve, EndProbe
<1>2. IsFiniteSet(Resolving)
  BY DownAssumption, FS_Subset DEF Resolving
<1>3. \A i \in Pingers : pinger[i] \in Pings
  BY DEF DownInv
<1>4. CASE \E i \in Pingers : StartResolve(i)
  <2>1. PICK i \in Pingers : StartResolve(i)
    BY <1>4
  <2>2. Resolving' \subseteq Resolving \cup {i}
    BY <2>1 DEF StartResolve, Enter, Resolving, DownInv
  <2>3. Cardinality(Resolving) < Workers
    BY <2>1 DEF StartResolve, Polls, Free, Resolving
  <2>4. Cardinality(Resolving \cup {i}) <= Cardinality(Resolving) + 1
    <3>1. Cardinality(Resolving) \in Nat
      BY <1>2, FS_CardinalityType
    <3>2. CASE i \in Resolving
      <4>1. Resolving \cup {i} = Resolving
        BY <3>2
      <4>2. Cardinality(Resolving \cup {i}) = Cardinality(Resolving)
        BY <4>1, Zenon
      <4> QED BY <3>1, <4>2
    <3>3. CASE i \notin Resolving
      <4>1. Cardinality(Resolving \cup {i}) = Cardinality(Resolving) + 1
        BY <1>2, <3>3, FS_AddElement
      <4> QED BY <3>1, <4>1
    <3> QED BY <3>2, <3>3
  <2>5. IsFiniteSet(Resolving \cup {i})
    BY <1>2, FS_AddElement
  <2>6. Cardinality(Resolving') <= Cardinality(Resolving \cup {i})
    BY <2>2, <2>5, FS_Subset
  <2>7. Cardinality(Resolving') \in Nat /\ Cardinality(Resolving) \in Nat
        /\ Cardinality(Resolving \cup {i}) \in Nat
    BY <1>2, <2>2, <2>5, FS_Subset, FS_CardinalityType
  <2> QED
    BY <1>1, <2>3, <2>4, <2>6, <2>7, DownAssumption DEF WorkersInv
<1>5. CASE ~\E i \in Pingers : StartResolve(i)
  <2>1. Resolving' \subseteq Resolving
    <3>1. CASE TimePasses
      <4>1. \A i \in Pingers : Passed(i).pc = pinger[i].pc
        BY <1>3 DEF Passed, Pings
      <4> QED
        BY <3>1, <4>1 DEF TimePasses, Resolving
    <3>2. CASE \E i \in Pingers : EndResolve(i) \/ EndProbe(i)
      BY <3>2 DEF EndResolve, EndProbe, Enter, Resolving, DownInv, Resolved
    <3>3. CASE UNCHANGED pinger
      BY <3>3 DEF Resolving
    <3> QED
      BY <1>5, <3>1, <3>2, <3>3 DEF DownNext, downVars, Main, TerminalCall, TerminalFails, Draw,
         PollKeys, CloseRuntime, Exit, CtrlCInPing, EngineSends, RelayTakes
  <2>2. Cardinality(Resolving') <= Cardinality(Resolving)
    BY <1>2, <2>1, FS_Subset
  <2>3. Cardinality(Resolving') \in Nat /\ Cardinality(Resolving) \in Nat
    BY <1>2, <2>1, FS_Subset, FS_CardinalityType
  <2> QED
    BY <1>1, <2>2, <2>3, DownAssumption DEF WorkersInv
<1> QED
  BY <1>4, <1>5

LEMMA RestOk ==
    /\ WatchAtRest => WatchInv /\ ReportInv
    /\ DnsAtRest => DnsInv
    /\ DownAtRest => DownInv
    /\ LiveAtRest => LiveInv
<1>1. ASSUME WatchAtRest PROVE WatchInv /\ ReportInv
  <2>1. Capturing = {} /\ outcome = <<>> /\ watchers = <<>> /\ attempts = <<>> /\ status = None
    BY <1>1 DEF WatchAtRest, Capturing
  <2>2. Cardinality(Capturing) = 0
    BY <2>1, FS_EmptySet
  <2>3. Len(attempts) = 0 /\ Len(watchers) = 0 /\ DOMAIN attempts = 1..Len(attempts)
    BY <2>1
  <2>4. NoReading \in Readings /\ NoReading.at = 1
    BY NoReadingTyped DEF NoReading
  <2>5. Zero \in [Protos -> Nat]
    BY DEF Zero
  <2>6. WatchTypes
    BY <1>1, <2>1, <2>3, <2>4, <2>5 DEF WatchAtRest, WatchTypes, Readings
  <2>7. StartInv
    BY <1>1, <2>1, <2>2, <2>3 DEF WatchAtRest, StartInv
  <2>8. ReportInv
    BY <1>1, <2>3, <2>4 DEF WatchAtRest, ReportInv, SumInv, MergeInv
  <2> QED
    BY <2>6, <2>7, <2>8 DEF WatchInv
<1>2. ASSUME DnsAtRest PROVE DnsInv
  BY <1>2, NewLookupOk, DnsAssumption DEF DnsAtRest, DnsInv, LoopOk
<1>3. ASSUME DownAtRest PROVE DownInv
  <2>1. pinger \in [Pingers -> Pings]
    BY <1>3, LongestType DEF DownAtRest, Pings
  <2>2. Busy = {}
    BY <1>3 DEF DownAtRest, Busy
  <2> QED
    BY <1>3, <2>1, <2>2, LongestType DEF DownAtRest, DownInv, TerminalAt, Closed
<1>4. ASSUME LiveAtRest PROVE LiveInv
  <2>1. csv = <<>> /\ arrivals = <<>> /\ together = FALSE
        /\ exporter = [d \in Dashboards |-> Ended]
    BY <1>4 DEF LiveAtRest
  <2>2. <<>> \in Seq(Seq(Words)) /\ <<>> \in Seq(Brought) /\ Len(<<>>) = 0
    OBVIOUS
  <2>3. LiveTypes
    BY <2>1, <2>2, EndedExporter DEF LiveTypes
  <2>4. HeaderInv
    BY <2>1, <2>2, EndedExporter DEF HeaderInv
  <2> QED
    BY <2>3, <2>4 DEF LiveInv
<1> QED
  BY <1>1, <1>2, <1>3, <1>4

CommandsInv == WatchInv /\ ReportInv /\ DnsInv /\ DownInv /\ WorkersInv /\ LiveInv

LEMMA CommandsInvInit == Init => CommandsInv
BY RestOk, WatchInvInit, ReportInvInit, DnsInvInit, DownInvInit, WorkersInvInit, LiveInvInit
   DEF Init, CommandsInv

LEMMA CommandsInvStep == CommandsInv /\ [Next]_vars => CommandsInv'
<1> SUFFICES ASSUME CommandsInv, [Next]_vars PROVE CommandsInv'
  OBVIOUS
<1>1. [WatchNext]_watchVars /\ [DnsNext]_dnsVars /\ [DownNext]_downVars /\ [LiveNext]_liveVars
  BY DEF Next, vars
<1> QED
  BY <1>1, WatchInvStep, ReportInvStep, DnsInvStep, DownInvStep, WorkersInvStep, LiveInvStep
     DEF CommandsInv

(* Every variable of every command keeps its type, whichever command runs.  *)
THEOREM CommandsTyped == Spec => []CommandsTypeOK
<1>1. CommandsInv => CommandsTypeOK
  <2> SUFFICES ASSUME CommandsInv PROVE WatchTypeOK /\ DnsTypeOK /\ DownTypeOK
    BY DEF CommandsTypeOK
  <2>1. WatchTypeOK
    <3>1. /\ watchers \in Seq(Watchers) /\ DOMAIN watchers = 1..Len(watchers) /\ Len(watchers) \in Nat
          /\ reading.at \in Nat \ {0} /\ reading.at <= Len(watchers) + 1
      BY CountsTyped DEF CommandsInv, WatchInv, WatchTypes, ReportInv
    <3>2. \A k \in DOMAIN watchers : /\ watchers[k].iface \in DOMAIN table
                                     /\ watchers[k].counters \in [Protos -> Nat]
                                     /\ DOMAIN watchers[k].flows \subseteq Flows
      <4> SUFFICES ASSUME NEW k \in DOMAIN watchers
                   PROVE  /\ watchers[k].iface \in DOMAIN table
                          /\ watchers[k].counters \in [Protos -> Nat]
                          /\ DOMAIN watchers[k].flows \subseteq Flows
        OBVIOUS
      <4>1. watchers[k] \in Watchers
        BY <3>1
      <4>2. watchers[k].counters \in [Protos -> Nat] /\ watchers[k].flows \in FlowMaps
        BY <4>1 DEF Watchers
      <4>3. DOMAIN watchers[k].flows \subseteq Flows
        BY <4>2 DEF FlowMaps
      <4>4. watchers[k].iface \in DOMAIN table
        BY <3>1 DEF CommandsInv, WatchInv, StartInv
      <4> QED
        BY <4>2, <4>3, <4>4
    <3>3. reading.at \in 1..(Len(watchers) + 1)
      BY <3>1
    <3> QED
      BY <3>2, <3>3 DEF CommandsInv, WatchInv, WatchTypes, StartInv, WatchTypeOK
  <2>2. DnsTypeOK
    <3>1. \A r \in Given : r.status \in {"Success", "NotFound", "Error"}
      BY DnsGiven DEF CommandsInv, GoodResults, Results
    <3> QED
      BY <3>1 DEF CommandsInv, DnsInv, DnsTypeOK, LookupOk, Lookups, LoopOk
  <2>3. DownTypeOK
    <3>1. pinger \in [Pingers -> [pc : {"sleep", "resolve", "probe"}, left : Nat]]
      <4>1. Pings \subseteq [pc : {"sleep", "resolve", "probe"}, left : Nat]
        BY LongestType DEF Pings
      <4> QED
        BY <4>1 DEF CommandsInv, DownInv
    <3>2. ui \in DOMAIN Steps \cup {"draw", "poll", "select", "returned", "closing", "gone"}
      BY DEF CommandsInv, DownInv, TerminalAt, Steps
    <3> QED
      BY <3>1, <3>2 DEF CommandsInv, DownInv, WorkersInv, Resolving, DownTypeOK
  <2> QED
    BY <2>1, <2>2, <2>3
<1> QED
  BY <1>1, CommandsInvInit, CommandsInvStep, PTL DEF Spec

(* Whichever command runs, each keeps what is asked of it, and those at     *)
(* rest break nothing: an interface that fails to open fails alone, and the *)
(* report is true; tags hide no frame, and TCP respects a zone; a lookup    *)
(* that failed ends as an error, and a Ctrl-C is lost to results only; the  *)
(* dashboard leaves in order; and the CSV has its header first, and once.   *)
THEOREM CommandsAreSafe ==
    Spec => [](/\ StartsApart /\ ReportTrue /\ TagsInvisible /\ ZoneRespected
               /\ LookupClassified /\ LostOnlyToResults /\ LeavesInOrder /\ HeaderOnce)
<1>1. CommandsInv => /\ StartsApart /\ ReportTrue /\ TagsInvisible /\ ZoneRespected
                     /\ LookupClassified /\ LostOnlyToResults /\ LeavesInOrder /\ HeaderOnce
  BY StartsApartHolds, ReportTrueHolds, TagsInvisibleHold, ZoneRespectedHolds,
     LookupClassifiedHolds, LostOnlyToResultsHolds, LeavesInOrderHolds, HeaderOnceHolds
     DEF CommandsInv
<1> QED
  BY <1>1, CommandsInvInit, CommandsInvStep, PTL DEF Spec
==============================================================================
