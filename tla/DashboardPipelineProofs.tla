----------------------- MODULE DashboardPipelineProofs -----------------------
(***************************************************************************)
(* Theorems about DashboardPipeline, for any hosts, domains, windows and    *)
(* bounds.                                                                  *)
(***************************************************************************)
EXTENDS DashboardPipeline, AppStateProofs, SequenceTheorems

LEMMA TasksAreNumbers == Tasks \subseteq Nat \ {0}
BY AppAssumption DEF Tasks

LEMMA AppUnchangedTypes == AppTypeOK /\ UNCHANGED appVars => AppTypeOK'
BY DEF AppTypeOK, appVars

(* What the ping task's steps make of its record. *)
LEMMA MeasuredType ==
    ASSUME NEW t \in TaskStates, NEW rtt \in Samples
    PROVE  [pc |-> "lock", rtt |-> rtt, stats |-> Recorded(t.stats, rtt)] \in TaskStates
BY RecordedConsistent DEF TaskStates

LEMMA PlaceType ==
    ASSUME NEW t \in TaskStates, NEW p \in {"measure", "lock", "export", "send"}
    PROVE  /\ [t EXCEPT !.pc = p] \in TaskStates
           /\ [t EXCEPT !.pc = p].pc = p
BY DEF TaskStates

LEMMA SentType ==
    ASSUME TypeOK, NEW i \in Tasks
    PROVE  /\ task[i] \in TaskStates
           /\ Sent(i) \in Nat /\ task[i].stats.received \in Nat /\ task[i].rtt \in Samples
BY DEF TypeOK, TaskStates, Consistent, Sent

(* A channel keeps its type when an element is taken from it. *)
LEMMA TakenType ==
    ASSUME NEW S, NEW s \in Seq(S), s # <<>>
    PROVE  Head(s) \in S /\ Tail(s) \in Seq(S)
OBVIOUS

LEMMA AppendType ==
    ASSUME NEW S, NEW s \in Seq(S), NEW e \in S
    PROVE  Append(s, e) \in Seq(S)
OBVIOUS

LEMMA HandType ==
    ASSUME NEW held \in Hands
    PROVE  held \in Seq(DnsResults) /\ (held # <<>> => Head(held) \in DnsResults)
<1>1. CASE held = <<>>
  BY <1>1
<1>2. CASE \E r \in DnsResults : held = <<r>>
  <2>1. PICK r \in DnsResults : held = <<r>>
    BY <1>2
  <2> QED
    BY <2>1
<1> QED
  BY <1>1, <1>2 DEF Hands

------------------------------------------------------------------------------
LEMMA InitType == Init => TypeOK
<1> SUFFICES ASSUME Init PROVE TypeOK
  OBVIOUS
<1>1. AppTypeOK
  BY AppInitTypes DEF Init
<1>2. [pc |-> "measure", rtt |-> None, stats |-> NoStats] \in TaskStates
  BY NoStatsConsistent DEF TaskStates, Samples
<1>3. <<>> \in Hands /\ 1 \in 1..(Len(Domains) + 1)
  BY DomainsAssumption DEF Hands
<1>4. task \in [Tasks -> TaskStates] /\ \A i \in Tasks : task[i].pc = "measure"
  BY <1>2 DEF Init
<1>5. \A i \in Tasks : task[i].pc = "export" <=> lock = i
  BY <1>4, TasksAreNumbers DEF Init, Free
<1>6. relay.pc = "export" <=> lock = RelayGuard
  BY DEF Init, Free, RelayGuard
<1>7. /\ relay \in [pc : {"recv", "lock", "export", "send", "done"}, held : Hands]
      /\ engine \in [pc : {"domain", "send", "done"}, next : 1..(Len(Domains) + 1),
                     held : Hands]
  BY <1>3 DEF Init
<1>8. \A S : <<>> \in Seq(S)
  OBVIOUS
<1> QED
  BY <1>1, <1>4, <1>5, <1>6, <1>7, <1>8 DEF Init, TypeOK

LEMMA PingTaskType ==
    ASSUME TypeOK, NEW i \in Tasks, PingTask(i)
    PROVE  TypeOK'
<1>1. AppTypeOK'
  BY AppUnchangedTypes DEF TypeOK, PingTask, Measure, LockExporter, Export, SendSample
<1>2. CASE Measure(i)
  <2>1. PICK rtt \in Samples :
           task' = [task EXCEPT ![i] = [pc |-> "lock", rtt |-> rtt,
                                        stats |-> Recorded(@.stats, rtt)]]
    BY <1>2 DEF Measure
  <2>2. [pc |-> "lock", rtt |-> rtt, stats |-> Recorded(task[i].stats, rtt)] \in TaskStates
    BY SentType, MeasuredType
  <2>3. task' \in [Tasks -> TaskStates]
    BY <2>1, <2>2 DEF TypeOK
  <2>4. \A j \in Tasks : task'[j].pc = "export" <=> lock' = j
    BY <1>2, <2>1 DEF Measure, TypeOK
  <2> QED
    BY <1>1, <1>2, <2>3, <2>4 DEF Measure, TypeOK
<1>3. CASE LockExporter(i)
  <2>1. task' \in [Tasks -> TaskStates]
    BY <1>3, SentType, PlaceType DEF LockExporter, TypeOK
  <2>2. \A j \in Tasks : task'[j].pc = "export" <=> lock' = j
    BY <1>3, SentType, PlaceType, TasksAreNumbers DEF LockExporter, TypeOK, Free
  <2>3. relay'.pc = "export" <=> lock' = RelayGuard
    BY <1>3, TasksAreNumbers DEF LockExporter, TypeOK, Free, RelayGuard
  <2> QED
    BY <1>1, <1>3, <2>1, <2>2, <2>3 DEF LockExporter, TypeOK
<1>4. CASE Export(i)
  <2>1. task' \in [Tasks -> TaskStates]
    BY <1>4, SentType, PlaceType DEF Export, TypeOK
  <2>2. \A j \in Tasks : task'[j].pc = "export" <=> lock' = j
    BY <1>4, SentType, PlaceType, TasksAreNumbers DEF Export, TypeOK, Free
  <2>3. relay'.pc = "export" <=> lock' = RelayGuard
    BY <1>4, TasksAreNumbers DEF Export, TypeOK, Free, RelayGuard
  <2>4. [task |-> i, n |-> Sent(i), rx |-> task[i].stats.received] \in Lines
    BY SentType DEF Lines
  <2>5. file' \in Seq(Lines)
    BY <1>4, <2>4, AppendType DEF Export, TypeOK
  <2> QED
    BY <1>1, <1>4, <2>1, <2>2, <2>3, <2>5 DEF Export, TypeOK
<1>5. CASE SendSample(i)
  <2>1. task' \in [Tasks -> TaskStates]
    BY <1>5, SentType, PlaceType DEF SendSample, TypeOK
  <2>2. \A j \in Tasks : task'[j].pc = "export" <=> lock' = j
    BY <1>5, SentType, PlaceType DEF SendSample, TypeOK
  <2>3. [task |-> i, n |-> Sent(i), rtt |-> task[i].rtt] \in Queued
    BY SentType DEF Queued
  <2>4. pingCh' \in Seq(Queued)
    BY <1>5, <2>3, AppendType DEF SendSample, Offered, TypeOK
  <2> QED
    BY <1>1, <1>5, <2>1, <2>2, <2>4 DEF SendSample, TypeOK
<1> QED
  BY <1>2, <1>3, <1>4, <1>5 DEF PingTask

LEMMA EngineType ==
    ASSUME TypeOK, Engine
    PROVE  TypeOK'
<1>1. AppTypeOK'
  BY AppUnchangedTypes DEF TypeOK, Engine, Resolve, SendDns, NextRound
<1>2. CASE Resolve
  <2>1. engine.next \in DOMAIN Domains /\ Domains[engine.next] \in DnsResults
    BY <1>2, DomainsAssumption DEF Resolve
  <2>2. <<Domains[engine.next]>> \in Hands /\ <<Domains[engine.next]>> # <<>>
    BY <2>1 DEF Hands
  <2>3. engine' = [pc |-> "send", next |-> engine.next, held |-> <<Domains[engine.next]>>]
    BY <1>2 DEF Resolve, TypeOK
  <2>4. resolved' \in Seq(DnsResults)
    BY <1>2, <2>1, AppendType DEF Resolve, TypeOK
  <2> QED
    BY <1>1, <1>2, <2>1, <2>2, <2>3, <2>4 DEF Resolve, TypeOK
<1>3. CASE SendDns
  <2>1. /\ <<>> \in Hands
        /\ engine.held \in Hands /\ engine.held # <<>> /\ engine.next \in DOMAIN Domains
    BY <1>3 DEF Hands, SendDns, TypeOK
  <2>2. CASE RelayClosed
    <3>1. engine' = [pc |-> "done", next |-> engine.next, held |-> <<>>]
      BY <1>3, <2>2 DEF SendDns, TypeOK
    <3> QED
      BY <1>1, <1>3, <2>1, <2>2, <3>1 DEF SendDns, TypeOK
  <2>3. CASE ~RelayClosed
    <3>1. engine' = [pc |-> "domain", next |-> engine.next + 1, held |-> <<>>]
      BY <1>3, <2>3 DEF SendDns
    <3>2. engine.next + 1 \in 1..(Len(Domains) + 1)
      BY <2>1, DomainsAssumption
    <3>3. Head(engine.held) \in DnsResults
      BY <2>1, HandType
    <3>4. dnsIn' \in Seq(DnsResults)
      <4>1. Append(dnsIn, Head(engine.held)) \in Seq(DnsResults)
        BY <3>3, AppendType DEF TypeOK
      <4> QED
        BY <1>3, <2>3, <4>1 DEF SendDns, Offered
    <3> QED
      BY <1>1, <1>3, <2>1, <2>3, <3>1, <3>2, <3>4 DEF SendDns, TypeOK
  <2> QED
    BY <2>2, <2>3
<1>4. CASE NextRound
  <2>1. engine' = [pc |-> engine.pc, next |-> 1, held |-> engine.held]
    BY <1>4 DEF NextRound, TypeOK
  <2>2. 1 \in 1..(Len(Domains) + 1)
    BY DomainsAssumption
  <2> QED
    BY <1>1, <1>4, <2>1, <2>2 DEF NextRound, TypeOK
<1> QED
  BY <1>2, <1>3, <1>4 DEF Engine

LEMMA RelayType ==
    ASSUME TypeOK, Relay
    PROVE  TypeOK'
<1>1. AppTypeOK'
  BY AppUnchangedTypes DEF TypeOK, Relay, RelayRecv, RelayLock, RelayExport, RelaySend
<1>2. CASE RelayRecv
  <2>1. Head(dnsIn) \in DnsResults /\ Tail(dnsIn) \in Seq(DnsResults)
    BY <1>2, TakenType DEF RelayRecv, TypeOK
  <2>2. <<Head(dnsIn)>> \in Hands /\ <<Head(dnsIn)>> # <<>>
    BY <2>1 DEF Hands
  <2> QED
    BY <1>1, <1>2, <2>1, <2>2 DEF RelayRecv, TypeOK
<1>3. CASE RelayLock
  <2>1. relay' = [pc |-> "export", held |-> relay.held]
    BY <1>3 DEF RelayLock, TypeOK
  <2>2. \A i \in Tasks : task'[i].pc = "export" <=> lock' = i
    BY <1>3, TasksAreNumbers DEF RelayLock, TypeOK, Free, RelayGuard
  <2> QED
    BY <1>1, <1>3, <2>1, <2>2 DEF RelayLock, TypeOK
<1>4. CASE RelayExport
  <2>1. relay' = [pc |-> "send", held |-> relay.held]
    BY <1>4 DEF RelayExport, TypeOK
  <2>2. \A i \in Tasks : task'[i].pc = "export" <=> lock' = i
    BY <1>4, TasksAreNumbers DEF RelayExport, GuardDropped, TypeOK, Free, RelayGuard
  <2>3. lock' # RelayGuard
    BY <1>4 DEF RelayExport, GuardDropped, Free, RelayGuard
  <2>4. dnsFile' \in Seq(DnsResults)
    BY <1>4, HandType DEF RelayExport, TypeOK
  <2> QED
    BY <1>1, <1>4, <2>1, <2>2, <2>3, <2>4 DEF RelayExport, GuardDropped, TypeOK
<1>5. CASE RelaySend
  <2>1. <<>> \in Hands /\ <<>> \in Seq(DnsResults)
    BY DEF Hands
  <2>2. Head(relay.held) \in DnsResults
    BY <1>5, HandType DEF RelaySend, TypeOK
  <2>3. Append(dnsOut, Head(relay.held)) \in Seq(DnsResults)
    BY <2>2, AppendType DEF TypeOK
  <2>4. CASE Up
    <3>1. dnsOut' = Append(dnsOut, Head(relay.held)) /\ dnsIn' = dnsIn
      BY <1>5, <2>4 DEF RelaySend, Offered
    <3>2. relay' = [pc |-> "recv", held |-> <<>>] /\ lock' = lock
      BY <1>5, <2>4 DEF RelaySend
    <3>3. relay'.pc = "export" <=> lock' = RelayGuard
      BY <1>5, <3>2 DEF RelaySend, TypeOK
    <3> QED
      BY <1>1, <1>5, <2>1, <2>3, <3>1, <3>2, <3>3 DEF RelaySend, TypeOK
  <2>5. CASE ~Up
    BY <1>1, <1>5, <2>1, <2>5 DEF RelaySend, TypeOK
  <2> QED
    BY <2>4, <2>5
<1> QED
  BY <1>2, <1>3, <1>4, <1>5 DEF Relay

LEMMA TuiType ==
    ASSUME TypeOK, Tui
    PROVE  TypeOK'
<1>1. CASE DrainPing
  <2>1. CASE pingCh = <<>>
    BY <1>1, <2>1, AppUnchangedTypes DEF DrainPing, TypeOK
  <2>2. CASE pingCh # <<>>
    <3>1. Head(pingCh) \in Queued /\ Tail(pingCh) \in Seq(Queued)
      BY <2>2, TakenType DEF TypeOK
    <3>2. Shown[Head(pingCh).task] \in Hosts /\ Head(pingCh).rtt \in Samples
      BY <3>1, HostType DEF Queued, Tasks
    <3>3. OnPingSample(Shown[Head(pingCh).task], Head(pingCh).rtt)
      BY <1>1, <2>2 DEF DrainPing
    <3>4. AppTypeOK'
      BY <3>2, <3>3, SampleTypes DEF TypeOK
    <3>5. consumed' \in Seq(Queued)
      <4>1. Append(consumed, Head(pingCh)) \in Seq(Queued)
        BY <3>1, AppendType DEF TypeOK
      <4> QED
        BY <1>1, <2>2, <4>1 DEF DrainPing
    <3> QED
      BY <1>1, <2>2, <3>1, <3>4, <3>5 DEF DrainPing, TypeOK
  <2> QED
    BY <2>1, <2>2
<1>2. CASE DrainDns
  <2>1. CASE dnsOut = <<>>
    BY <1>2, <2>1, AppUnchangedTypes DEF DrainDns, TypeOK
  <2>2. CASE dnsOut # <<>>
    <3>1. Head(dnsOut) \in DnsResults /\ Tail(dnsOut) \in Seq(DnsResults)
      BY <2>2, TakenType DEF TypeOK
    <3>2. OnDnsResult(Head(dnsOut))
      BY <1>2, <2>2 DEF DrainDns
    <3>3. AppTypeOK'
      BY <3>1, <3>2, DnsResultTypes DEF TypeOK
    <3> QED
      BY <1>2, <2>2, <3>1, <3>3 DEF DrainDns, TypeOK
  <2> QED
    BY <2>1, <2>2
<1>3. CASE DrawAndPoll
  <2>1. AppTypeOK'
    BY <1>3, AppUnchangedTypes DEF DrawAndPoll, TypeOK
  <2>2. <<>> \in Seq(Queued) /\ <<>> \in Seq(DnsResults)
    OBVIOUS
  <2> QED
    BY <1>3, <2>1, <2>2 DEF DrawAndPoll, TypeOK
<1> QED
  BY <1>1, <1>2, <1>3 DEF Tui

(* Every variable keeps its type, whatever tasks, relay and drain do, and   *)
(* the exporter's Mutex keeps them apart.                                   *)
THEOREM TypeCorrect == Spec => []TypeOK
<1>1. TypeOK /\ [Next]_vars => TypeOK'
  <2> SUFFICES ASSUME TypeOK, [Next]_vars PROVE TypeOK'
    OBVIOUS
  <2>1. CASE UNCHANGED vars
    BY <2>1, AppUnchangedTypes DEF vars, pipeVars, TypeOK
  <2> QED
    BY <2>1, PingTaskType, EngineType, RelayType, TuiType DEF Next
<1> QED
  BY <1>1, InitType, PTL DEF Spec

------------------------------------------------------------------------------
(* The element between two channels is the last of one and the first of the *)
(* other.                                                                   *)
LEMMA HandedOn ==
    ASSUME NEW S, NEW a \in Seq(S), NEW e \in S, NEW b \in Seq(S)
    PROVE  Append(a, e) \o b = (a \o <<e>>) \o b
BY AppendIsConcat

LEMMA TakenFrom ==
    ASSUME NEW S, NEW a \in Seq(S), NEW b \in Seq(S), b # <<>>
    PROVE  /\ Append(a, Head(b)) \o Tail(b) = a \o b
           /\ (a \o <<Head(b)>>) \o Tail(b) = a \o b
<1>1. Head(b) \in S /\ Tail(b) \in Seq(S) /\ <<Head(b)>> \in Seq(S)
  BY TakenType
<1>2. Append(a, Head(b)) = a \o <<Head(b)>>
  BY <1>1, AppendIsConcat
<1>3. (a \o <<Head(b)>>) \o Tail(b) = a \o (<<Head(b)>> \o Tail(b))
  BY <1>1, ConcatAssociative
<1>4. <<Head(b)>> \o Tail(b) = b
  BY <1>1
<1> QED
  BY <1>2, <1>3, <1>4

LEMMA PutInto ==
    ASSUME NEW S, NEW a \in Seq(S), NEW b \in Seq(S), NEW e \in S
    PROVE  a \o Append(b, e) = Append(a \o b, e)
<1>1. a \o b \in Seq(S) /\ <<e>> \in Seq(S)
  BY ConcatProperties
<1>2. a \o (b \o <<e>>) = (a \o b) \o <<e>>
  BY <1>1, ConcatAssociative
<1> QED
  BY <1>1, <1>2, AppendIsConcat

(* What is between the screen and the engine, seen from the first channel.  *)
Passed == dnsLog \o dnsOut \o relay.held

DnsInv ==
    /\ Up => relay.pc # "done"
    /\ Up => resolved = dnsLog \o dnsOut \o relay.held \o dnsIn \o engine.held
    /\ Up => dnsFile = dnsLog \o dnsOut \o (IF relay.pc = "send" THEN relay.held ELSE <<>>)

LEMMA DnsTypes ==
    ASSUME TypeOK
    PROVE  /\ dnsLog \in Seq(DnsResults) /\ dnsOut \in Seq(DnsResults)
           /\ relay.held \in Seq(DnsResults) /\ engine.held \in Seq(DnsResults)
           /\ dnsIn \in Seq(DnsResults)
           /\ dnsLog \o dnsOut \in Seq(DnsResults) /\ Passed \in Seq(DnsResults)
           /\ Passed \o dnsIn \in Seq(DnsResults)
<1>1. /\ dnsLog \in Seq(DnsResults) /\ dnsOut \in Seq(DnsResults) /\ dnsIn \in Seq(DnsResults)
      /\ relay.held \in Hands /\ engine.held \in Hands
  BY DEF TypeOK, AppTypeOK
<1>2. relay.held \in Seq(DnsResults) /\ engine.held \in Seq(DnsResults)
  BY <1>1, HandType
<1>3. dnsLog \o dnsOut \in Seq(DnsResults)
  BY <1>1, ConcatProperties
<1>4. Passed \in Seq(DnsResults)
  BY <1>2, <1>3, ConcatProperties DEF Passed
<1>5. Passed \o dnsIn \in Seq(DnsResults)
  BY <1>1, <1>4, ConcatProperties
<1> QED
  BY <1>1, <1>2, <1>3, <1>4, <1>5

LEMMA OneInHand ==
    ASSUME NEW held \in Hands, held # <<>>
    PROVE  held = <<Head(held)>> /\ Head(held) \in DnsResults
<1>1. PICK r \in DnsResults : held = <<r>>
  BY DEF Hands
<1> QED
  BY <1>1

(* The engine and the relay. *)
LEMMA EngineDns ==
    ASSUME TypeOK, DnsInv, Engine, Up
    PROVE  DnsInv'
<1>1. relay' = relay /\ dnsLog' = dnsLog /\ dnsOut' = dnsOut /\ dnsFile' = dnsFile /\ Up'
  BY DEF Engine, Resolve, SendDns, NextRound, appVars, Up
<1>2. Passed' = Passed
  BY <1>1 DEF Passed
<1>3. resolved = (Passed \o dnsIn) \o engine.held
  BY DEF DnsInv, Passed
<1>4. resolved' = (Passed \o dnsIn') \o engine'.held
  <2>1. CASE Resolve
    <3>1. engine.held = <<>>
      BY <2>1 DEF Resolve, TypeOK
    <3>2. Domains[engine.next] \in DnsResults
      BY <2>1, DomainsAssumption DEF Resolve
    <3>3. resolved = Passed \o dnsIn
      BY <1>3, <3>1, DnsTypes, ConcatEmptySeq
    <3>4. /\ resolved' = Append(resolved, Domains[engine.next])
          /\ engine'.held = <<Domains[engine.next]>> /\ dnsIn' = dnsIn
      BY <2>1 DEF Resolve, TypeOK
    <3> QED
      BY <3>2, <3>3, <3>4, DnsTypes, AppendIsConcat
  <2>2. CASE SendDns
    <3>1. ~RelayClosed /\ engine.held \in Hands /\ engine.held # <<>>
      BY <2>2 DEF SendDns, TypeOK, DnsInv, RelayClosed
    <3>2. /\ dnsIn' = Append(dnsIn, Head(engine.held)) /\ engine'.held = <<>>
          /\ resolved' = resolved
      BY <2>2, <3>1 DEF SendDns, Offered
    <3>3. engine.held = <<Head(engine.held)>> /\ Head(engine.held) \in DnsResults
      BY <3>1, OneInHand
    <3>4. Passed \o dnsIn' = Append(Passed \o dnsIn, Head(engine.held))
      BY <3>2, <3>3, DnsTypes, PutInto
    <3>5. Passed \o dnsIn' = (Passed \o dnsIn) \o engine.held
      BY <3>3, <3>4, DnsTypes, AppendIsConcat
    <3>6. (Passed \o dnsIn) \o engine.held \in Seq(DnsResults)
      BY DnsTypes, ConcatProperties
    <3> QED
      BY <1>3, <3>2, <3>5, <3>6, ConcatEmptySeq
  <2>3. CASE NextRound
    BY <1>3, <2>3 DEF NextRound, TypeOK
  <2> QED
    BY <2>1, <2>2, <2>3 DEF Engine
<1> QED
  BY <1>1, <1>2, <1>4 DEF DnsInv, Passed

LEMMA RelayDns ==
    ASSUME TypeOK, DnsInv, Relay, Up
    PROVE  DnsInv'
<1> DEFINE L == dnsLog \o dnsOut
<1>1. /\ engine' = engine /\ resolved' = resolved /\ dnsLog' = dnsLog /\ Up'
  BY DEF Relay, RelayRecv, RelayLock, RelayExport, RelaySend, appVars, Up
<1>2. /\ resolved = ((L \o relay.held) \o dnsIn) \o engine.held
      /\ dnsFile = L \o (IF relay.pc = "send" THEN relay.held ELSE <<>>)
      /\ L \in Seq(DnsResults)
  BY DnsTypes DEF DnsInv
<1>3. CASE RelayRecv
  <2>1. /\ relay.held = <<>> /\ relay' = [pc |-> "lock", held |-> <<Head(dnsIn)>>]
        /\ dnsIn # <<>> /\ dnsIn' = Tail(dnsIn) /\ dnsOut' = dnsOut /\ dnsFile' = dnsFile
        /\ relay.pc = "recv"
    BY <1>3 DEF RelayRecv, TypeOK
  <2>2. L \o relay.held = L
    BY <1>2, <2>1, ConcatEmptySeq
  <2>3. (L \o <<Head(dnsIn)>>) \o Tail(dnsIn) = L \o dnsIn
    BY <1>2, <2>1, DnsTypes, TakenFrom
  <2> QED
    BY <1>1, <1>2, <2>1, <2>2, <2>3 DEF DnsInv
<1>4. CASE RelayLock
  <2>1. /\ relay' = [pc |-> "export", held |-> relay.held] /\ relay.pc = "lock"
        /\ dnsIn' = dnsIn /\ dnsOut' = dnsOut /\ dnsFile' = dnsFile
    BY <1>4 DEF RelayLock, TypeOK
  <2> QED
    BY <1>1, <1>2, <2>1 DEF DnsInv
<1>5. CASE RelayExport
  <2>1. /\ relay' = [pc |-> "send", held |-> relay.held] /\ relay.pc = "export"
        /\ dnsIn' = dnsIn /\ dnsOut' = dnsOut /\ dnsFile' = dnsFile \o relay.held
    BY <1>5 DEF RelayExport, TypeOK
  <2>2. dnsFile = L
    BY <1>2, <2>1, ConcatEmptySeq
  <2> QED
    BY <1>1, <1>2, <2>1, <2>2 DEF DnsInv
<1>6. CASE RelaySend
  <2>1. /\ relay' = [pc |-> "recv", held |-> <<>>] /\ relay.pc = "send"
        /\ dnsIn' = dnsIn /\ dnsOut' = Append(dnsOut, Head(relay.held))
        /\ dnsFile' = dnsFile
        /\ relay.held \in Hands /\ relay.held # <<>>
    BY <1>6 DEF RelaySend, Offered, TypeOK
  <2>2. relay.held = <<Head(relay.held)>> /\ Head(relay.held) \in DnsResults
    BY <2>1, OneInHand
  <2>3. dnsLog \o dnsOut' = Append(L, Head(relay.held))
    <3>1. PICK e \in DnsResults : e = Head(relay.held)
      BY <2>2
    <3>2. dnsLog \o Append(dnsOut, e) = Append(L, e)
      BY DnsTypes, PutInto
    <3> QED
      BY <2>1, <3>1, <3>2
  <2>4. dnsLog \o dnsOut' = L \o relay.held
    <3>1. Append(L, Head(relay.held)) = L \o <<Head(relay.held)>>
      BY <1>2, <2>2, AppendIsConcat
    <3> QED
      BY <2>2, <2>3, <3>1
  <2>5. L \o relay.held \in Seq(DnsResults)
    BY <1>2, DnsTypes, ConcatProperties
  <2>6. (dnsLog \o dnsOut') \o <<>> = L \o relay.held
    BY <2>4, <2>5, ConcatEmptySeq
  <2> QED
    BY <1>1, <1>2, <2>1, <2>6 DEF DnsInv
<1> QED
  BY <1>3, <1>4, <1>5, <1>6 DEF Relay

(* The TUI takes results in order, and nothing is promised once it is gone. *)
LEMMA TuiDns ==
    ASSUME TypeOK, DnsInv, Tui, Up
    PROVE  DnsInv'
<1>1. /\ engine' = engine /\ resolved' = resolved /\ relay' = relay /\ dnsIn' = dnsIn
      /\ dnsFile' = dnsFile
  BY DEF Tui, DrainPing, DrainDns, DrawAndPoll
<1>2. CASE DrainPing
  <2>1. dnsLog' = dnsLog /\ dnsOut' = dnsOut
    BY <1>2 DEF DrainPing, OnPingSample, appVars
  <2> QED
    BY <1>1, <2>1 DEF DnsInv, Up
<1>3. CASE DrainDns
  <2>1. CASE dnsOut = <<>>
    BY <1>1, <1>3, <2>1 DEF DrainDns, appVars, DnsInv, Up
  <2>2. CASE dnsOut # <<>>
    <3>1. dnsLog' = Append(dnsLog, Head(dnsOut)) /\ dnsOut' = Tail(dnsOut) /\ tui' = tui
      BY <1>3, <2>2 DEF DrainDns, OnDnsResult
    <3>2. dnsLog' \o dnsOut' = dnsLog \o dnsOut
      BY <2>2, <3>1, DnsTypes, TakenFrom
    <3> QED
      BY <1>1, <3>1, <3>2 DEF DnsInv, Up
  <2> QED
    BY <2>1, <2>2
<1>4. CASE DrawAndPoll
  BY <1>1, <1>4 DEF DrawAndPoll, appVars, DnsInv, Up
<1> QED
  BY <1>2, <1>3, <1>4 DEF Tui

(* DNS results reach the screen and the file in order and without loss,     *)
(* for any number of domains, results and ways to interleave.               *)
THEOREM DnsIsLossless == Spec => []DnsLossless
<1>1. Init => DnsInv
  BY DomainsAssumption DEF Init, AppInit, DnsInv
<1>2. TypeOK /\ DnsInv /\ [Next]_vars => DnsInv'
  <2> SUFFICES ASSUME TypeOK, DnsInv, [Next]_vars PROVE DnsInv'
    OBVIOUS
  <2>1. CASE UNCHANGED vars
    BY <2>1 DEF vars, appVars, pipeVars, DnsInv, Up
  <2>2. CASE ~Up /\ Next
    <3>1. ~Up'
      BY <2>2 DEF Next, PingTask, Measure, LockExporter, Export, SendSample, Engine, Resolve,
                  SendDns, NextRound, Relay, RelayRecv, RelayLock, RelayExport, RelaySend,
                  Tui, DrainPing, DrainDns, DrawAndPoll, Up
    <3> QED
      BY <3>1 DEF DnsInv
  <2>3. ASSUME Up, NEW i \in Tasks, PingTask(i) PROVE DnsInv'
    BY <2>3 DEF PingTask, Measure, LockExporter, Export, SendSample, appVars, DnsInv, Up
  <2> QED
    BY <2>1, <2>2, <2>3, EngineDns, RelayDns, TuiDns DEF Next
<1>3. DnsInv => DnsLossless
  BY DEF DnsInv, DnsLossless
<1> QED
  BY <1>1, <1>2, <1>3, TypeCorrect, PTL DEF Spec

------------------------------------------------------------------------------
(* The average of a task's replies lies between its extremes, after any     *)
(* number of samples that the cast keeps.                                   *)
THEOREM MeanIsBetweenExtremes == Spec => []MeanBetweenExtremes
<1>1. TypeOK => MeanBetweenExtremes
  <2> SUFFICES ASSUME TypeOK, NEW i \in Tasks, task[i].stats.received \in 1..(CastMod - 1)
               PROVE  /\ task[i].stats.min <= AvgRtt(task[i].stats)
                      /\ AvgRtt(task[i].stats) <= task[i].stats.max
    BY DEF MeanBetweenExtremes
  <2>1. Consistent(task[i].stats)
    BY DEF TypeOK, TaskStates
  <2> QED
    BY <2>1, AvgBetween
<1> QED
  BY <1>1, TypeCorrect, PTL

------------------------------------------------------------------------------
(* What one more element does to the samples in order.                      *)
LEMMA NextInOrder ==
    ASSUME NEW S, NEW s \in Seq(S), NEW e \in S, NEW i, NEW n \in Nat,
           InOrder(s, i, n), e.task = i, e.n = n + 1
    PROVE  InOrder(Append(s, e), i, n + 1)
<1> DEFINE t == Append(s, e)
           mine == {k \in DOMAIN s : s[k].task = i}
           more == {k \in DOMAIN t : t[k].task = i}
<1>1. /\ DOMAIN t = DOMAIN s \cup {Len(s) + 1} /\ Len(s) + 1 \notin DOMAIN s
      /\ \A k \in DOMAIN s : t[k] = s[k] /\ k < Len(s) + 1
      /\ t[Len(s) + 1] = e /\ Len(s) \in Nat /\ DOMAIN s \subseteq Nat
  OBVIOUS
<1>2. /\ {s[k].n : k \in mine} = 1..n
      /\ \A k, l \in mine : k < l => s[k].n < s[l].n
  BY DEF InOrder
<1> HIDE DEF t
<1>3. more = mine \cup {Len(s) + 1}
  BY <1>1
<1>4. {t[k].n : k \in more} = 1..(n + 1)
  <2>1. {t[k].n : k \in more} = {s[k].n : k \in mine} \cup {n + 1}
    BY <1>1, <1>3
  <2>2. 1..(n + 1) = (1..n) \cup {n + 1}
    OBVIOUS
  <2> QED
    BY <1>2, <2>1, <2>2
<1>5. ASSUME NEW k \in more, NEW l \in more, k < l PROVE t[k].n < t[l].n
  <2>1. k \in mine
    BY <1>1, <1>3, <1>5
  <2>2. t[k].n = s[k].n /\ s[k].n \in 1..n
    BY <1>1, <1>2, <2>1
  <2>3. CASE l \in mine
    BY <1>1, <1>2, <1>5, <2>1, <2>3
  <2>4. CASE l = Len(s) + 1
    BY <1>1, <2>2, <2>4
  <2> QED
    BY <1>3, <2>3, <2>4
<1> HIDE DEF more
<1>6. InOrder(t, i, n + 1)
  BY <1>4, <1>5 DEF InOrder, more
<1> QED
  BY <1>6 DEF t

LEMMA OthersInOrder ==
    ASSUME NEW S, NEW s \in Seq(S), NEW e \in S, NEW i, NEW n,
           InOrder(s, i, n), e.task # i
    PROVE  InOrder(Append(s, e), i, n)
<1> DEFINE t == Append(s, e)
           mine == {k \in DOMAIN s : s[k].task = i}
           more == {k \in DOMAIN t : t[k].task = i}
<1>1. /\ DOMAIN t = DOMAIN s \cup {Len(s) + 1}
      /\ \A k \in DOMAIN s : t[k] = s[k]
      /\ t[Len(s) + 1] = e
  OBVIOUS
<1>2. /\ {s[k].n : k \in mine} = 1..n
      /\ \A k, l \in mine : k < l => s[k].n < s[l].n
  BY DEF InOrder
<1> HIDE DEF t
<1>3. more = mine
  BY <1>1
<1>4. \A k \in mine : t[k] = s[k]
  BY <1>1
<1>5. {t[k].n : k \in more} = 1..n
  BY <1>2, <1>3, <1>4
<1>6. \A k, l \in more : k < l => t[k].n < t[l].n
  BY <1>2, <1>3, <1>4
<1>7. InOrder(t, i, n)
  BY <1>5, <1>6 DEF InOrder
<1> QED
  BY <1>7 DEF t

LEMMA NothingInOrder ==
    ASSUME NEW i
    PROVE  InOrder(<<>>, i, 0)
BY DEF InOrder

(* How many of its samples a task has sent, and how many are in the file. *)
Shipped(i) == IF task[i].pc = "measure" THEN Sent(i) ELSE Sent(i) - 1
Filed(i) == IF task[i].pc \in {"lock", "export"} THEN Sent(i) - 1 ELSE Sent(i)

(* A task past its measurement has measured something; with that, the order *)
(* of the samples on their way is inductive.                                *)
OrderInv ==
    /\ \A i \in Tasks : task[i].pc # "measure" => Sent(i) > 0
    /\ Up => \A i \in Tasks : InOrder(consumed \o pingCh, i, Shipped(i))
    /\ \A i \in Tasks : InOrder(file, i, Filed(i))

(* A step that leaves the channel's two ends and the file together keeps    *)
(* the order.                                                               *)
LEMMA OrderUnchanged ==
    ASSUME OrderInv, UNCHANGED <<task, file>>,
           Up' => Up /\ consumed' \o pingCh' = consumed \o pingCh
    PROVE  OrderInv'
<1>1. \A i \in Tasks : Shipped(i)' = Shipped(i) /\ Filed(i)' = Filed(i) /\ Sent(i)' = Sent(i)
  BY DEF Shipped, Filed, Sent
<1>2. \A i \in Tasks : task'[i] = task[i] /\ InOrder(file', i, Filed(i)')
  BY <1>1 DEF OrderInv
<1>3. Up' => \A i \in Tasks : InOrder(consumed' \o pingCh', i, Shipped(i)')
  BY <1>1 DEF OrderInv
<1>4. \A i \in Tasks : task'[i].pc # "measure" => Sent(i)' > 0
  BY <1>1, <1>2 DEF OrderInv
<1> QED
  BY <1>2, <1>3, <1>4 DEF OrderInv, InOrder

(* A step of a ping task that touches neither the channel nor the file, and *)
(* leaves the numbers of what is in them.                                   *)
LEMMA PlaceOrder ==
    ASSUME OrderInv, UNCHANGED <<file, pingCh, consumed, tui>>,
           \A i \in Tasks : /\ Shipped(i)' = Shipped(i) /\ Filed(i)' = Filed(i)
                            /\ task'[i].pc # "measure" => Sent(i)' > 0
    PROVE  OrderInv'
BY DEF OrderInv, InOrder, Up

LEMMA PingTaskOrder ==
    ASSUME TypeOK, OrderInv, NEW i \in Tasks, PingTask(i)
    PROVE  OrderInv'
<1>1. \A j \in Tasks : /\ task[j] \in TaskStates /\ Sent(j) \in Nat
                       /\ task[j].pc # "measure" => Sent(j) > 0
  BY SentType DEF OrderInv
<1>2. /\ \A j \in Tasks \ {i} : task'[j] = task[j]
      /\ consumed' = consumed /\ tui' = tui
  BY DEF PingTask, Measure, LockExporter, Export, SendSample, TypeOK
<1>3. \A j \in Tasks \ {i} : /\ Shipped(j)' = Shipped(j) /\ Filed(j)' = Filed(j)
                             /\ task'[j].pc # "measure" => Sent(j)' > 0
  BY <1>1, <1>2 DEF Shipped, Filed, Sent
<1>4. CASE Measure(i)
  <2>1. PICK rtt \in Samples :
           task' = [task EXCEPT ![i] = [pc |-> "lock", rtt |-> rtt,
                                        stats |-> Recorded(@.stats, rtt)]]
    BY <1>4 DEF Measure
  <2>2. task'[i].pc = "lock" /\ Sent(i)' = Sent(i) + 1
    <3>1. task'[i] = [pc |-> "lock", rtt |-> rtt, stats |-> Recorded(task[i].stats, rtt)]
      BY <2>1 DEF TypeOK
    <3>2. task[i].stats \in Statistics
      BY <1>1 DEF TaskStates
    <3>3. Recorded(task[i].stats, rtt).transmitted = task[i].stats.transmitted + 1
      BY <3>2 DEF Recorded, Received, Statistics
    <3> QED
      BY <3>1, <3>3 DEF Sent
  <2>3. task[i].pc = "measure"
    BY <1>4 DEF Measure
  <2>4. Shipped(i)' = Shipped(i) /\ Filed(i)' = Filed(i) /\ Sent(i)' > 0
    BY <1>1, <2>2, <2>3 DEF Shipped, Filed
  <2> QED
    BY <1>3, <1>4, <2>4, PlaceOrder DEF Measure
<1>5. CASE LockExporter(i)
  <2>1. task[i].pc = "lock" /\ task'[i].pc = "export" /\ task'[i].stats = task[i].stats
    BY <1>1, <1>5 DEF LockExporter, TypeOK, TaskStates
  <2>2. Shipped(i)' = Shipped(i) /\ Filed(i)' = Filed(i) /\ Sent(i)' > 0
    BY <1>1, <2>1 DEF Shipped, Filed, Sent
  <2> QED
    BY <1>3, <1>5, <2>2, PlaceOrder DEF LockExporter
<1>6. CASE Export(i)
  <2>1. task[i].pc = "export" /\ task'[i].pc = "send" /\ task'[i].stats = task[i].stats
    BY <1>1, <1>6 DEF Export, TypeOK, TaskStates
  <2>2. Sent(i)' = Sent(i) /\ Shipped(i)' = Shipped(i) /\ Filed(i) = Sent(i) - 1
        /\ Filed(i)' = Sent(i)
    BY <2>1 DEF Shipped, Filed, Sent
  <2> DEFINE e == [task |-> i, n |-> Sent(i), rx |-> task[i].stats.received]
  <2>3. e \in Lines /\ file \in Seq(Lines) /\ file' = Append(file, e)
    BY <1>6, SentType DEF Export, Lines, TypeOK
  <2>4. e.task = i /\ e.n = Filed(i) + 1 /\ Filed(i) \in Nat
    BY <1>1, <2>1, <2>2
  <2> HIDE DEF e
  <2>5. InOrder(file', i, Filed(i)')
    <3>1. InOrder(file, i, Filed(i)) /\ Filed(i)' = Filed(i) + 1
      BY <1>1, <2>2 DEF OrderInv
    <3>2. InOrder(Append(file, e), i, Filed(i) + 1)
      BY <2>3, <2>4, <3>1, NextInOrder
    <3> QED
      BY <2>3, <3>1, <3>2
  <2>6. \A j \in Tasks \ {i} : InOrder(file', j, Filed(j)')
    <3> TAKE j \in Tasks \ {i}
    <3>1. InOrder(file, j, Filed(j)) /\ Filed(j)' = Filed(j)
      BY <1>3 DEF OrderInv
    <3>2. InOrder(Append(file, e), j, Filed(j))
      BY <2>3, <2>4, <3>1, OthersInOrder
    <3> QED
      BY <2>3, <3>1, <3>2
  <2>7. Up' => \A j \in Tasks : InOrder(consumed' \o pingCh', j, Shipped(j)')
    BY <1>2, <1>3, <1>6, <2>2 DEF Export, OrderInv, Up
  <2>8. \A j \in Tasks : InOrder(file', j, Filed(j)') /\ (task'[j].pc # "measure" => Sent(j)' > 0)
    BY <1>1, <1>3, <2>1, <2>2, <2>5, <2>6
  <2> QED
    BY <2>7, <2>8 DEF OrderInv, InOrder
<1>7. CASE SendSample(i)
  <2>1. task[i].pc = "send" /\ task'[i].pc = "measure" /\ task'[i].stats = task[i].stats
    BY <1>1, <1>7 DEF SendSample, TypeOK, TaskStates
  <2>2. Sent(i)' = Sent(i) /\ Filed(i)' = Filed(i) /\ Shipped(i) = Sent(i) - 1
        /\ Shipped(i)' = Sent(i)
    BY <2>1 DEF Shipped, Filed, Sent
  <2> DEFINE e == [task |-> i, n |-> Sent(i), rtt |-> task[i].rtt]
             onWay == consumed \o pingCh
  <2>3. e \in Queued /\ onWay \in Seq(Queued)
    BY SentType DEF Queued, TypeOK
  <2>4. e.task = i /\ e.n = Shipped(i) + 1 /\ Shipped(i) \in Nat
    BY <1>1, <2>1, <2>2
  <2>5. Up' => Up /\ consumed' \o pingCh' = Append(onWay, e)
    <3>1. Up' => Up /\ consumed' = consumed /\ pingCh' = Append(pingCh, e)
      BY <1>7 DEF SendSample, Up, Offered
    <3>2. consumed \o Append(pingCh, e) = Append(onWay, e)
      <4>1. consumed \in Seq(Queued) /\ pingCh \in Seq(Queued)
        BY DEF TypeOK
      <4> HIDE DEF e
      <4> QED
        BY <2>3, <4>1, PutInto
    <3> QED
      BY <3>1, <3>2
  <2> HIDE DEF e, onWay
  <2>6. ASSUME Up' PROVE \A j \in Tasks : InOrder(consumed' \o pingCh', j, Shipped(j)')
    <3> TAKE j \in Tasks
    <3>1. InOrder(onWay, j, Shipped(j))
      BY <2>5, <2>6 DEF OrderInv, onWay
    <3>2. CASE j = i
      <4>1. InOrder(Append(onWay, e), i, Shipped(i) + 1)
        BY <2>3, <2>4, <3>1, <3>2, NextInOrder
      <4>2. Shipped(i)' = Shipped(i) + 1
        BY <1>1, <2>2
      <4> QED
        BY <2>5, <2>6, <3>2, <4>1, <4>2
    <3>3. CASE j # i
      <4>1. InOrder(Append(onWay, e), j, Shipped(j))
        BY <2>3, <2>4, <3>1, <3>3, OthersInOrder
      <4>2. Shipped(j)' = Shipped(j)
        BY <1>3, <3>3
      <4> QED
        BY <2>5, <2>6, <4>1, <4>2
    <3> QED
      BY <3>2, <3>3
  <2>7. \A j \in Tasks : InOrder(file', j, Filed(j)') /\ (task'[j].pc # "measure" => Sent(j)' > 0)
    BY <1>3, <1>7, <2>1, <2>2 DEF SendSample, OrderInv
  <2> QED
    BY <2>6, <2>7 DEF OrderInv, InOrder
<1> QED
  BY <1>4, <1>5, <1>6, <1>7 DEF PingTask

(* The TUI moves samples from the channel to the screen in order; the DNS   *)
(* side does not touch them.                                                *)
LEMMA OthersOrder ==
    ASSUME TypeOK, OrderInv, Engine \/ Relay \/ Tui
    PROVE  OrderInv'
<1>1. UNCHANGED <<task, file>>
  BY DEF Engine, Resolve, SendDns, NextRound, Relay, RelayRecv, RelayLock, RelayExport,
         RelaySend, Tui, DrainPing, DrainDns, DrawAndPoll
<1>2. Up' => Up
  BY DEF Engine, Resolve, SendDns, NextRound, Relay, RelayRecv, RelayLock, RelayExport,
         RelaySend, Tui, DrainPing, DrainDns, DrawAndPoll, Up
<1>3. CASE Engine \/ Relay
  <2>1. consumed' = consumed /\ pingCh' = pingCh
    BY <1>3 DEF Engine, Resolve, SendDns, NextRound, Relay, RelayRecv, RelayLock,
                RelayExport, RelaySend
  <2> QED
    BY <1>1, <1>2, <2>1, OrderUnchanged
<1>4. CASE DrainPing /\ pingCh # <<>>
  <2>1. consumed' = Append(consumed, Head(pingCh)) /\ pingCh' = Tail(pingCh)
    BY <1>4 DEF DrainPing
  <2>2. consumed \in Seq(Queued) /\ pingCh \in Seq(Queued)
    BY DEF TypeOK
  <2>3. consumed' \o pingCh' = consumed \o pingCh
    BY <1>4, <2>1, <2>2, TakenFrom
  <2> QED
    BY <1>1, <1>2, <2>3, OrderUnchanged
<1>5. CASE (DrainPing /\ pingCh = <<>>) \/ DrainDns
  <2>1. consumed' = consumed /\ pingCh' = pingCh
    BY <1>5 DEF DrainPing, DrainDns
  <2> QED
    BY <1>1, <1>2, <2>1, OrderUnchanged
<1>6. CASE DrawAndPoll
  <2>1. Up' => consumed' = consumed /\ pingCh' = pingCh
    BY <1>6 DEF DrawAndPoll, Up
  <2> QED
    BY <1>1, <1>2, <2>1, OrderUnchanged
<1> QED
  BY <1>3, <1>4, <1>5, <1>6 DEF Tui

LEMMA OrderHolds == Spec => []OrderInv
<1>1. Init => OrderInv
  <2> SUFFICES ASSUME Init PROVE OrderInv
    OBVIOUS
  <2>1. \A i \in Tasks : task[i].pc = "measure" /\ Sent(i) = 0
    BY DEF Init, Sent, NoStats
  <2>2. \A i \in Tasks : Shipped(i) = 0 /\ Filed(i) = 0
    BY <2>1 DEF Shipped, Filed
  <2>3. consumed \o pingCh = <<>> /\ file = <<>>
    BY DEF Init
  <2> QED
    BY <2>1, <2>2, <2>3, NothingInOrder DEF OrderInv
<1>2. TypeOK /\ OrderInv /\ [Next]_vars => OrderInv'
  <2> SUFFICES ASSUME TypeOK, OrderInv, [Next]_vars PROVE OrderInv'
    OBVIOUS
  <2>1. CASE UNCHANGED vars
    BY <2>1, OrderUnchanged DEF vars, pipeVars, Up
  <2> QED
    BY <2>1, PingTaskOrder, OthersOrder DEF Next
<1> QED
  BY <1>1, <1>2, TypeCorrect, PTL DEF Spec

(* No sample is lost, doubled or out of order between its task and the      *)
(* screen, for any number of hosts and samples.                             *)
THEOREM PingIsLossless == Spec => []Lossless
<1>1. OrderInv => Lossless
  BY DEF OrderInv, Lossless, Shipped
<1> QED
  BY <1>1, OrderHolds, PTL

(* Both producers' promises together.                                       *)
THEOREM NothingIsLost == Spec => []NothingLost
BY PingIsLossless, DnsIsLossless, PTL DEF NothingLost

(* Every sample is in the file, once and in its task's order, before it is  *)
(* sent to the screen, whoever else contends for the Mutex.                 *)
THEOREM ExportIsLossless == Spec => []Exported
<1>1. OrderInv => Exported
  BY DEF OrderInv, Exported, Filed
<1> QED
  BY <1>1, OrderHolds, PTL

------------------------------------------------------------------------------
(* Statistics, file and screen count the same samples.                      *)

Mine(s, i) == {k \in DOMAIN s : s[k].task = i}
Replies(s, i) == {k \in Mine(s, i) : s[k].rtt # None}
RepliesUpTo(s, i, n) == {k \in Replies(s, i) : s[k].n <= n}
RttsAt(s, got) == [k \in got |-> s[k].rtt]

LEMMA StatsOfDef ==
    ASSUME NEW stats, NEW s, NEW i
    PROVE  StatsOf(stats, s, i) <=>
             /\ stats.transmitted = Cardinality(Mine(s, i))
             /\ stats.received = Cardinality(Replies(s, i))
             /\ stats.sum = SumFunctionOnSet(RttsAt(s, Replies(s, i)), Replies(s, i))
             /\ IF Replies(s, i) = {} THEN stats.min = None /\ stats.max = None
                ELSE /\ {stats.min, stats.max} \subseteq {s[k].rtt : k \in Replies(s, i)}
                     /\ \A k \in Replies(s, i) :
                           stats.min <= s[k].rtt /\ s[k].rtt <= stats.max
BY DEF StatsOf, Mine, Replies, RttsAt

(* The sets of a sequence's elements that are counted are finite, and an    *)
(* element more adds its place to those it belongs to.                      *)
LEMMA CountedFinite ==
    ASSUME NEW S, NEW s \in Seq(S), NEW i, NEW n
    PROVE  /\ IsFiniteSet(Mine(s, i)) /\ Cardinality(Mine(s, i)) \in Nat
           /\ IsFiniteSet(Replies(s, i)) /\ Cardinality(Replies(s, i)) \in Nat
           /\ IsFiniteSet(RepliesUpTo(s, i, n)) /\ Cardinality(RepliesUpTo(s, i, n)) \in Nat
<1>1. IsFiniteSet(DOMAIN s)
  <2>1. DOMAIN s = 1..Len(s) /\ Len(s) \in Nat
    OBVIOUS
  <2> QED
    BY <2>1, FS_Interval
<1>2. /\ Mine(s, i) \in SUBSET DOMAIN s /\ Replies(s, i) \in SUBSET DOMAIN s
      /\ RepliesUpTo(s, i, n) \in SUBSET DOMAIN s
  BY DEF Mine, Replies, RepliesUpTo
<1>3. IsFiniteSet(Mine(s, i)) /\ IsFiniteSet(Replies(s, i)) /\ IsFiniteSet(RepliesUpTo(s, i, n))
  BY <1>1, <1>2, FS_Subset
<1> QED
  BY <1>3, FS_CardinalityType

(* t is s and a sample more, seen from task i. *)
Extended(s, e, t, i) == s \in Seq(Queued) /\ e \in Queued /\ i \in Tasks /\ t = Append(s, e)

LEMMA CountedAppend ==
    ASSUME NEW s, NEW e, NEW t, NEW i, Extended(s, e, t, i)
    PROVE  /\ Len(s) + 1 \notin Mine(s, i) /\ Len(s) + 1 \notin Replies(s, i)
           /\ t[Len(s) + 1] = e
           /\ \A k \in Mine(s, i) : t[k] = s[k]
           /\ e.task = i => Mine(t, i) = Mine(s, i) \cup {Len(s) + 1}
           /\ e.task # i => Mine(t, i) = Mine(s, i)
           /\ e.task = i /\ e.rtt # None => Replies(t, i) = Replies(s, i) \cup {Len(s) + 1}
           /\ e.task # i \/ e.rtt = None => Replies(t, i) = Replies(s, i)
<1> DEFINE m == Len(s) + 1
<1>1. /\ DOMAIN t = DOMAIN s \cup {m} /\ m \notin DOMAIN s
      /\ \A k \in DOMAIN s : t[k] = s[k]
      /\ t[m] = e
  BY DEF Extended
<1>2. /\ m \notin Mine(s, i) /\ m \notin Replies(s, i)
      /\ \A k \in Mine(s, i) : t[k] = s[k]
  BY <1>1 DEF Mine, Replies
<1> HIDE DEF m
<1>3. /\ e.task = i => Mine(t, i) = Mine(s, i) \cup {m}
      /\ e.task # i => Mine(t, i) = Mine(s, i)
  BY <1>1 DEF Mine
<1>4. /\ e.task = i /\ e.rtt # None => Replies(t, i) = Replies(s, i) \cup {m}
      /\ e.task # i \/ e.rtt = None => Replies(t, i) = Replies(s, i)
  BY <1>1, <1>2, <1>3 DEF Replies
<1>5. t[m] = e
  BY <1>1
<1> QED
  BY <1>2, <1>3, <1>4, <1>5 DEF m

(* Recording a sample gives the statistics with that sample.                *)
LEMMA StatsOfMine ==
    ASSUME NEW s \in Seq(Queued), NEW e \in Queued, NEW stats \in Statistics,
           NEW i \in Tasks, e.task = i, StatsOf(stats, s, i)
    PROVE  StatsOf(Recorded(stats, e.rtt), Append(s, e), i)
<1> DEFINE t == Append(s, e)
           m == Len(s) + 1
           M == Mine(s, i)
           R == Replies(s, i)
           f == RttsAt(s, R)
           new == Recorded(stats, e.rtt)
<1>1. /\ stats.transmitted = Cardinality(M)
      /\ stats.received = Cardinality(R)
      /\ stats.sum = SumFunctionOnSet(f, R)
      /\ IF R = {} THEN stats.min = None /\ stats.max = None
         ELSE /\ {stats.min, stats.max} \subseteq {s[k].rtt : k \in R}
              /\ \A k \in R : stats.min <= s[k].rtt /\ s[k].rtt <= stats.max
  BY StatsOfDef
<1>2. IsFiniteSet(M) /\ IsFiniteSet(R)
  BY CountedFinite
<1>3. /\ m \notin M /\ m \notin R /\ t[m] = e
      /\ \A k \in M : t[k] = s[k]
      /\ Mine(t, i) = M \cup {m}
      /\ e.rtt # None => Replies(t, i) = R \cup {m}
      /\ e.rtt = None => Replies(t, i) = R
  <2>1. Extended(s, e, t, i)
    BY DEF Extended
  <2> HIDE DEF t
  <2> QED
    BY <2>1, CountedAppend
<1>4. R \subseteq M /\ \A k \in R : s[k].rtt \in Nat /\ t[k] = s[k]
  <2>0. \A k \in DOMAIN s : s[k] \in Queued
    OBVIOUS
  <2>1. \A k \in DOMAIN s : s[k].rtt \in Samples
    BY <2>0 DEF Queued
  <2>2. R \subseteq M /\ \A k \in R : s[k].rtt \in Nat
    BY <2>1, RttAssumption DEF Replies, Mine, Samples
  <2> QED
    BY <1>3, <2>2
<1>5. Cardinality(Mine(t, i)) = Cardinality(M) + 1
  <2> HIDE DEF t, m, M
  <2> QED
    BY <1>2, <1>3, FS_AddElement
<1>6. new.transmitted = stats.transmitted + 1
  BY DEF Recorded, Received, Statistics
<1>7. CASE e.rtt = None
  <2>1. /\ new.received = stats.received /\ new.sum = stats.sum
        /\ new.min = stats.min /\ new.max = stats.max
    BY <1>7 DEF Recorded, Statistics
  <2>2. Replies(t, i) = R
    BY <1>3, <1>7
  <2>3. RttsAt(t, R) = f
    BY <1>4 DEF RttsAt
  <2>4. {t[k].rtt : k \in R} = {s[k].rtt : k \in R}
    BY <1>4
  <2> HIDE DEF t, m, M, R, f, new
  <2>5. /\ new.transmitted = Cardinality(Mine(t, i))
        /\ new.received = Cardinality(R)
        /\ new.sum = SumFunctionOnSet(RttsAt(t, R), R)
        /\ IF R = {} THEN new.min = None /\ new.max = None
           ELSE /\ {new.min, new.max} \subseteq {t[k].rtt : k \in R}
                /\ \A k \in R : new.min <= t[k].rtt /\ t[k].rtt <= new.max
    BY <1>1, <1>4, <1>5, <1>6, <2>1, <2>3, <2>4
  <2>6. StatsOf(new, t, i)
    BY <2>2, <2>5, StatsOfDef
  <2> QED
    BY <2>6 DEF t, new
<1>8. CASE e.rtt # None
  <2>1. e.rtt \in Nat
    BY <1>8, RttAssumption DEF Queued, Samples
  <2>2. /\ new.received = stats.received + 1 /\ new.sum = stats.sum + e.rtt
        /\ new.min = IF stats.min = None \/ e.rtt < stats.min THEN e.rtt ELSE stats.min
        /\ new.max = IF stats.max = None \/ e.rtt > stats.max THEN e.rtt ELSE stats.max
    BY <1>8 DEF Recorded, Received
  <2>3. Replies(t, i) = R \cup {m}
    BY <1>3, <1>8
  <2> DEFINE all == R \cup {m}
             g == RttsAt(t, all)
  <2>4. Cardinality(all) = Cardinality(R) + 1
    <3> HIDE DEF m, R
    <3> QED
      BY <1>2, <1>3, FS_AddElement
  <2>5. SumFunctionOnSet(g, all) = SumFunctionOnSet(f, R) + e.rtt
    <3> HIDE DEF R, m, t
    <3>1. /\ g[m] = e.rtt /\ \A k \in R : g[k] = f[k]
          /\ \A k \in R \cup {m} : g[k] \in Int
      BY <1>3, <1>4, <2>1 DEF RttsAt
    <3> HIDE DEF g, f
    <3>2. SumFunctionOnSet(g, R) = SumFunctionOnSet(f, R)
      BY <3>1, <1>2, SumSame
    <3>3. SumFunctionOnSet(g, R) \in Int
      BY <3>1, <1>2, SumType
    <3>4. SumFunctionOnSet(g, R \cup {m}) = g[m] + SumFunctionOnSet(g, R)
      BY <3>1, <1>2, <1>3, SumAdd
    <3> QED
      BY <2>1, <3>1, <3>2, <3>3, <3>4
  <2>6. /\ {new.min, new.max} \subseteq {t[k].rtt : k \in all}
        /\ \A k \in all : new.min <= t[k].rtt /\ t[k].rtt <= new.max
    <3>1. t[m].rtt = e.rtt /\ \A k \in R : t[k].rtt = s[k].rtt /\ s[k].rtt \in Nat
      BY <1>3, <1>4
    <3>2. CASE R = {}
      <4>1. new.min = e.rtt /\ new.max = e.rtt
        BY <1>1, <2>2, <3>2
      <4> HIDE DEF t, m, R, new
      <4> QED
        BY <2>1, <3>1, <3>2, <4>1
    <3>3. CASE R # {}
      <4>1. PICK lo \in R, hi \in R : stats.min = s[lo].rtt /\ stats.max = s[hi].rtt
        BY <1>1, <3>3
      <4>2. /\ stats.min # None /\ stats.max # None
            /\ stats.min \in Nat /\ stats.max \in Nat
        BY <3>1, <4>1, RttAssumption
      <4> HIDE DEF t, m, R, new
      <4>3. /\ new.min = e.rtt \/ new.min = s[lo].rtt
            /\ new.max = e.rtt \/ new.max = s[hi].rtt
            /\ new.min <= e.rtt /\ new.min <= stats.min
            /\ e.rtt <= new.max /\ stats.max <= new.max
            /\ new.min \in Nat /\ new.max \in Nat
        BY <2>1, <2>2, <4>1, <4>2
      <4>4. {new.min, new.max} \subseteq {t[k].rtt : k \in all}
        BY <3>1, <4>1, <4>3
      <4>5. \A k \in R : new.min <= s[k].rtt /\ s[k].rtt <= new.max
        BY <1>1, <3>1, <3>3, <4>2, <4>3
      <4>6. \A k \in all : new.min <= t[k].rtt /\ t[k].rtt <= new.max
        BY <3>1, <4>3, <4>5
      <4> QED
        BY <4>4, <4>6
    <3> QED
      BY <3>2, <3>3
  <2>7. all # {}
    OBVIOUS
  <2> HIDE DEF t, m, M, R, f, g, all, new
  <2>8. /\ new.transmitted = Cardinality(Mine(t, i))
        /\ new.received = Cardinality(all)
        /\ new.sum = SumFunctionOnSet(RttsAt(t, all), all)
    BY <1>1, <1>5, <1>6, <2>2, <2>4, <2>5 DEF g
  <2>9. Replies(t, i) = all
    BY <2>3 DEF all
  <2>10. StatsOf(new, t, i)
    BY <2>6, <2>7, <2>8, <2>9, StatsOfDef
  <2> QED
    BY <2>10 DEF t, new
<1> QED
  BY <1>7, <1>8

(* Another task's sample changes nothing.                                   *)
LEMMA StatsOfOther ==
    ASSUME NEW s \in Seq(Queued), NEW e \in Queued, NEW stats, NEW i \in Tasks, e.task # i,
           StatsOf(stats, s, i)
    PROVE  StatsOf(stats, Append(s, e), i)
<1> DEFINE t == Append(s, e)
           R == Replies(s, i)
<1>1. Mine(t, i) = Mine(s, i) /\ Replies(t, i) = R /\ \A k \in Mine(s, i) : t[k] = s[k]
  <2>1. Extended(s, e, t, i)
    BY DEF Extended
  <2> HIDE DEF t
  <2> QED
    BY <2>1, CountedAppend
<1>2. \A k \in R : t[k] = s[k]
  BY <1>1 DEF Replies
<1>3. RttsAt(t, R) = RttsAt(s, R) /\ {t[k].rtt : k \in R} = {s[k].rtt : k \in R}
  BY <1>2 DEF RttsAt
<1> HIDE DEF t, R
<1>4. /\ stats.transmitted = Cardinality(Mine(s, i))
      /\ stats.received = Cardinality(R)
      /\ stats.sum = SumFunctionOnSet(RttsAt(s, R), R)
      /\ IF R = {} THEN stats.min = None /\ stats.max = None
         ELSE /\ {stats.min, stats.max} \subseteq {s[k].rtt : k \in R}
              /\ \A k \in R : stats.min <= s[k].rtt /\ s[k].rtt <= stats.max
  BY StatsOfDef DEF R
<1>5. StatsOf(stats, t, i)
  BY <1>1, <1>2, <1>3, <1>4, StatsOfDef
<1> QED
  BY <1>5 DEF t

(* What a task and the samples it has sent say of each other: without the   *)
(* sample in its hand, its statistics are those of what it sent.            *)
Explained(t, s, i) ==
    \E old \in Statistics :
        /\ StatsOf(old, s, i)
        /\ t.stats = IF t.pc = "measure" THEN old ELSE Recorded(old, t.rtt)

OnWay == consumed \o pingCh

StatsInv == Up => \A i \in Tasks : Explained(task[i], OnWay, i)

LEMMA OnWayType ==
    ASSUME TypeOK
    PROVE  consumed \in Seq(Queued) /\ pingCh \in Seq(Queued) /\ OnWay \in Seq(Queued)
BY ConcatProperties DEF TypeOK, OnWay

(* A step that keeps the channel's two ends together and every task.        *)
LEMMA StatsUnchanged ==
    ASSUME StatsInv, task' = task, Up' => Up /\ OnWay' = OnWay
    PROVE  StatsInv'
BY DEF StatsInv

LEMMA PingTaskStats ==
    ASSUME TypeOK, StatsInv, NEW i \in Tasks, PingTask(i)
    PROVE  StatsInv'
<1>1. task[i] \in TaskStates /\ task[i].stats \in Statistics
  BY SentType DEF TaskStates
<1>2. /\ \A j \in Tasks \ {i} : task'[j] = task[j]
      /\ consumed' = consumed /\ tui' = tui
  BY DEF PingTask, Measure, LockExporter, Export, SendSample, TypeOK
<1>3. SUFFICES ASSUME Up PROVE \A j \in Tasks : Explained(task'[j], OnWay', j)
  BY <1>2 DEF StatsInv, Up
<1>4. \A j \in Tasks : Explained(task[j], OnWay, j)
  BY <1>3 DEF StatsInv
<1>5. PICK old \in Statistics :
         /\ StatsOf(old, OnWay, i)
         /\ task[i].stats = IF task[i].pc = "measure" THEN old ELSE Recorded(old, task[i].rtt)
  BY <1>4 DEF Explained
<1>6. CASE Measure(i)
  <2>1. PICK rtt \in Samples :
           task' = [task EXCEPT ![i] = [pc |-> "lock", rtt |-> rtt,
                                        stats |-> Recorded(@.stats, rtt)]]
    BY <1>6 DEF Measure
  <2>2. task'[i] = [pc |-> "lock", rtt |-> rtt, stats |-> Recorded(task[i].stats, rtt)]
    BY <2>1 DEF TypeOK
  <2>3. OnWay' = OnWay /\ task[i].stats = old
    BY <1>5, <1>6 DEF Measure, OnWay
  <2>4. Explained(task'[i], OnWay', i)
    BY <1>5, <2>2, <2>3 DEF Explained
  <2> QED
    BY <1>2, <1>4, <2>3, <2>4
<1>7. CASE LockExporter(i) \/ Export(i)
  <2>1. OnWay' = OnWay
    BY <1>7 DEF LockExporter, Export, OnWay
  <2>2. /\ task[i].pc # "measure" /\ task'[i].pc # "measure"
        /\ task'[i].stats = task[i].stats /\ task'[i].rtt = task[i].rtt
    BY <1>1, <1>7 DEF LockExporter, Export, TypeOK, TaskStates
  <2>3. Explained(task'[i], OnWay', i)
    BY <1>5, <2>1, <2>2 DEF Explained
  <2> QED
    BY <1>2, <1>4, <2>1, <2>3
<1>8. CASE SendSample(i)
  <2> DEFINE e == [task |-> i, n |-> Sent(i), rtt |-> task[i].rtt]
  <2>1. e \in Queued /\ e.task = i /\ e.rtt = task[i].rtt
    BY SentType DEF Queued
  <2>2. pingCh' = Append(pingCh, e)
    BY <1>3, <1>8 DEF SendSample, Offered
  <2>3. task[i].pc = "send" /\ task'[i].pc = "measure" /\ task'[i].stats = task[i].stats
    BY <1>1, <1>8 DEF SendSample, TypeOK, TaskStates
  <2> HIDE DEF e
  <2>4. OnWay' = Append(OnWay, e)
    BY <1>2, <2>1, <2>2, OnWayType, PutInto DEF OnWay
  <2>5. StatsOf(Recorded(old, e.rtt), Append(OnWay, e), i)
    BY <1>5, <2>1, OnWayType, StatsOfMine
  <2>6. task'[i].stats = Recorded(old, e.rtt)
    BY <1>5, <2>1, <2>3
  <2>7. Explained(task'[i], OnWay', i)
    BY <1>1, <2>3, <2>4, <2>5, <2>6 DEF Explained
  <2>8. ASSUME NEW j \in Tasks \ {i} PROVE Explained(task'[j], OnWay', j)
    <3>1. PICK was \in Statistics :
             /\ StatsOf(was, OnWay, j)
             /\ task[j].stats = IF task[j].pc = "measure" THEN was
                                ELSE Recorded(was, task[j].rtt)
      BY <1>4 DEF Explained
    <3>2. StatsOf(was, Append(OnWay, e), j)
      BY <2>1, <3>1, OnWayType, StatsOfOther
    <3> QED
      BY <1>2, <2>4, <3>1, <3>2 DEF Explained
  <2> QED
    BY <2>7, <2>8
<1> QED
  BY <1>6, <1>7, <1>8 DEF PingTask

(* The channel and the screen hold together what was sent, whatever the     *)
(* other actors do.                                                         *)
LEMMA OthersOnWay ==
    ASSUME TypeOK, Engine \/ Relay \/ Tui
    PROVE  task' = task /\ file' = file /\ (Up' => Up /\ OnWay' = OnWay)
<1>1. task' = task /\ file' = file /\ (Up' => Up)
  BY DEF Engine, Resolve, SendDns, NextRound, Relay, RelayRecv, RelayLock, RelayExport,
         RelaySend, Tui, DrainPing, DrainDns, DrawAndPoll, Up
<1>2. CASE DrainPing /\ pingCh # <<>>
  <2>1. consumed' = Append(consumed, Head(pingCh)) /\ pingCh' = Tail(pingCh)
    BY <1>2 DEF DrainPing
  <2> QED
    BY <1>1, <1>2, <2>1, OnWayType, TakenFrom DEF OnWay
<1>3. CASE ~(DrainPing /\ pingCh # <<>>)
  <2>1. Up' => consumed' = consumed /\ pingCh' = pingCh
    BY <1>3 DEF Engine, Resolve, SendDns, NextRound, Relay, RelayRecv, RelayLock,
                RelayExport, RelaySend, Tui, DrainPing, DrainDns, DrawAndPoll, Up
  <2> QED
    BY <1>1, <2>1 DEF OnWay
<1> QED
  BY <1>2, <1>3

LEMMA NoSamples ==
    ASSUME NEW i
    PROVE  /\ Mine(<<>>, i) = {} /\ Replies(<<>>, i) = {} /\ Cardinality({}) = 0
           /\ StatsOf(NoStats, <<>>, i)
<1>1. Mine(<<>>, i) = {} /\ Replies(<<>>, i) = {} /\ Cardinality({}) = 0
  BY FS_EmptySet DEF Mine, Replies
<1> QED
  BY <1>1, SumEmpty, StatsOfDef DEF NoStats

LEMMA StatsHold == Spec => []StatsInv
<1>1. Init => StatsInv
  <2> SUFFICES ASSUME Init, NEW i \in Tasks PROVE Explained(task[i], OnWay, i)
    BY DEF StatsInv
  <2>1. /\ OnWay = <<>> /\ task[i].pc = "measure" /\ task[i].stats = NoStats
        /\ NoStats \in Statistics
    BY DEF Init, OnWay, NoStats, Statistics
  <2> QED
    BY <2>1, NoSamples DEF Explained
<1>2. TypeOK /\ StatsInv /\ [Next]_vars => StatsInv'
  <2> SUFFICES ASSUME TypeOK, StatsInv, [Next]_vars PROVE StatsInv'
    OBVIOUS
  <2>1. CASE UNCHANGED vars
    BY <2>1, StatsUnchanged DEF vars, pipeVars, Up, OnWay
  <2> QED
    BY <2>1, PingTaskStats, OthersOnWay, StatsUnchanged DEF Next
<1> QED
  BY <1>1, <1>2, TypeCorrect, PTL DEF Spec

(* The statistics are those of the samples on the screen, in the channel    *)
(* and in hand.                                                             *)
LEMMA StatsAreMatched == Spec => []StatsMatch
<1>1. TypeOK /\ StatsInv => StatsMatch
  <2> SUFFICES ASSUME TypeOK, StatsInv, Up, NEW i \in Tasks
               PROVE  StatsOf(task[i].stats, OnWay \o InHand(i), i)
    BY DEF StatsMatch, OnWay
  <2>1. PICK old \in Statistics :
           /\ StatsOf(old, OnWay, i)
           /\ task[i].stats = IF task[i].pc = "measure" THEN old
                              ELSE Recorded(old, task[i].rtt)
    BY DEF StatsInv, Explained
  <2>2. CASE task[i].pc = "measure"
    <3>1. OnWay \o InHand(i) = OnWay
      BY <2>2, OnWayType, ConcatEmptySeq DEF InHand
    <3> QED
      BY <2>1, <2>2, <3>1
  <2>3. CASE task[i].pc # "measure"
    <3> DEFINE e == [task |-> i, n |-> Sent(i), rtt |-> task[i].rtt]
    <3>1. e \in Queued /\ e.task = i /\ e.rtt = task[i].rtt
      BY SentType DEF Queued
    <3>2. InHand(i) = <<e>>
      BY <2>3 DEF InHand
    <3> HIDE DEF e
    <3>3. OnWay \o InHand(i) = Append(OnWay, e)
      BY <3>1, <3>2, OnWayType, AppendIsConcat
    <3>4. StatsOf(Recorded(old, e.rtt), Append(OnWay, e), i)
      BY <2>1, <3>1, OnWayType, StatsOfMine
    <3> QED
      BY <2>1, <2>3, <3>1, <3>3, <3>4
  <2> QED
    BY <2>2, <2>3
<1> QED
  BY <1>1, StatsHold, TypeCorrect, PTL

------------------------------------------------------------------------------
(* The file's loss and the screen's. *)

LEMMA ConcatAt ==
    ASSUME NEW S, NEW a \in Seq(S), NEW b \in Seq(S)
    PROVE  /\ Len(a) \in Nat /\ DOMAIN a = 1..Len(a)
           /\ DOMAIN a \subseteq DOMAIN (a \o b) /\ DOMAIN (a \o b) \subseteq Nat \ {0}
           /\ \A k \in DOMAIN a : (a \o b)[k] = a[k]
           /\ b # <<>> => /\ Len(a) + 1 \in DOMAIN (a \o b)
                          /\ (a \o b)[Len(a) + 1] = Head(b)
<1>1. /\ Len(a) \in Nat /\ Len(b) \in Nat /\ DOMAIN a = 1..Len(a)
      /\ DOMAIN (a \o b) = 1..(Len(a) + Len(b))
      /\ \A k \in 1..(Len(a) + Len(b)) :
            (a \o b)[k] = IF k <= Len(a) THEN a[k] ELSE b[k - Len(a)]
  OBVIOUS
<1>2. b # <<>> => Len(b) >= 1 /\ Head(b) = b[1]
  OBVIOUS
<1> QED
  BY <1>1, <1>2

(* s is what has come through of all, the samples of task i in order.       *)
Through(s, all, i, c, n) ==
    /\ DOMAIN s = 1..Len(s) /\ Len(s) \in Nat
    /\ DOMAIN s \subseteq DOMAIN all /\ DOMAIN all \subseteq Nat \ {0}
    /\ \A k \in DOMAIN s : all[k] = s[k]
    /\ c \in Nat /\ n \in Nat
    /\ InOrder(s, i, c) /\ InOrder(all, i, n)

LEMMA ThroughConcat ==
    ASSUME NEW a \in Seq(Queued), NEW b \in Seq(Queued), NEW i, NEW c \in Nat, NEW n \in Nat,
           InOrder(a, i, c), InOrder(a \o b, i, n)
    PROVE  Through(a, a \o b, i, c, n)
BY ConcatAt DEF Through

(* What is still to come through has higher numbers than what has.          *)
LEMMA RestIsLater ==
    ASSUME NEW s, NEW all, NEW i, NEW c, NEW n, Through(s, all, i, c, n)
    PROVE  /\ Mine(s, i) \subseteq Mine(all, i)
           /\ \A k \in Mine(s, i) : all[k] = s[k] /\ s[k].n \in 1..c
           /\ \A k \in Mine(all, i) : all[k].n \in 1..n
           /\ \A k \in Mine(all, i) : k \notin DOMAIN s => all[k].n > c
<1>1. /\ {s[k].n : k \in Mine(s, i)} = 1..c
      /\ {all[k].n : k \in Mine(all, i)} = 1..n
      /\ \A k, l \in Mine(all, i) : k < l => all[k].n < all[l].n
      /\ c \in Nat /\ n \in Nat
  BY DEF Through, InOrder, Mine
<1>2. /\ Mine(s, i) \subseteq Mine(all, i)
      /\ \A k \in Mine(s, i) : all[k] = s[k]
  BY DEF Through, Mine
<1>3. \A k \in Mine(s, i) : s[k].n \in 1..c
  BY <1>1
<1>4. \A k \in Mine(all, i) : all[k].n \in 1..n
  BY <1>1
<1>5. ASSUME NEW k \in Mine(all, i), k \notin DOMAIN s PROVE all[k].n > c
  <2> SUFFICES ASSUME all[k].n \in 1..c PROVE FALSE
    BY <1>1, <1>4, <1>5
  <2>1. PICK l \in Mine(s, i) : s[l].n = all[k].n
    BY <1>1
  <2>2. l \in Mine(all, i) /\ all[l].n = all[k].n
    BY <1>2, <2>1
  <2>3. l < k
    BY <1>5, <2>1 DEF Through, Mine
  <2>4. all[l].n < all[k].n
    BY <1>1, <1>5, <2>2, <2>3
  <2> QED
    BY <1>1, <1>4, <1>5, <2>2, <2>4
<1> QED
  BY <1>2, <1>3, <1>4, <1>5

LEMMA RepliesThrough ==
    ASSUME NEW s, NEW all, NEW i, NEW c, NEW n, Through(s, all, i, c, n)
    PROVE  RepliesUpTo(all, i, c) = Replies(s, i)
<1>1. c \in Nat /\ n \in Nat
  BY DEF Through
<1>2. ASSUME NEW k \in Replies(s, i) PROVE k \in RepliesUpTo(all, i, c)
  BY <1>1, <1>2, RestIsLater DEF Replies, RepliesUpTo
<1>3. ASSUME NEW k \in RepliesUpTo(all, i, c) PROVE k \in Replies(s, i)
  <2>1. k \in Mine(all, i) /\ all[k].rtt # None /\ all[k].n <= c
    BY <1>3 DEF RepliesUpTo, Replies
  <2>2. all[k].n \in 1..n
    BY <2>1, RestIsLater
  <2>3. k \in DOMAIN s
    <3> SUFFICES ASSUME k \notin DOMAIN s PROVE FALSE
      OBVIOUS
    <3>1. all[k].n > c
      BY <2>1, RestIsLater
    <3> QED
      BY <1>1, <2>1, <2>2, <3>1
  <2>4. all[k] = s[k]
    BY <2>3 DEF Through
  <2> QED
    BY <2>1, <2>3, <2>4 DEF Mine, Replies
<1> QED
  BY <1>2, <1>3

(* The next to come through is the next number.                             *)
LEMMA NextThrough ==
    ASSUME NEW s, NEW all, NEW i, NEW c, NEW n, Through(s, all, i, c, n),
           Len(s) + 1 \in Mine(all, i)
    PROVE  all[Len(s) + 1].n = c + 1 /\ c + 1 <= n
<1> DEFINE p == Len(s) + 1
<1>1. /\ c \in Nat /\ n \in Nat /\ Len(s) \in Nat /\ DOMAIN s = 1..Len(s)
      /\ Mine(all, i) \subseteq Nat \ {0}
  BY DEF Through, Mine
<1>2. p \notin DOMAIN s
  BY <1>1
<1>3. all[p].n > c /\ all[p].n \in 1..n
  BY <1>2, RestIsLater
<1>4. /\ {all[k].n : k \in Mine(all, i)} = 1..n
      /\ \A k, l \in Mine(all, i) : k < l => all[k].n < all[l].n
  BY DEF Through, InOrder, Mine
<1>5. c + 1 \in 1..n
  BY <1>1, <1>3
<1>6. PICK k \in Mine(all, i) : all[k].n = c + 1
  BY <1>4, <1>5
<1>7. k \notin DOMAIN s
  <2> SUFFICES ASSUME k \in DOMAIN s PROVE FALSE
    OBVIOUS
  <2>1. k \in Mine(s, i)
    BY <1>6 DEF Through, Mine
  <2>2. all[k].n \in 1..c
    BY <2>1, RestIsLater
  <2> QED
    BY <1>1, <1>6, <2>2
<1>8. k = p \/ p < k
  BY <1>1, <1>6, <1>7
<1>9. p < k => all[p].n < c + 1
  BY <1>4, <1>6
<1> QED
  BY <1>1, <1>3, <1>5, <1>6, <1>8, <1>9

Seen(i) == Cardinality(Mine(consumed, i))

(* The screen has a task's first samples, and no more than were sent.       *)
SeenInv == \A i \in Tasks : InOrder(consumed, i, Seen(i)) /\ Seen(i) <= Shipped(i)

LEMMA ShippedType ==
    ASSUME TypeOK, OrderInv, NEW i \in Tasks
    PROVE  /\ Shipped(i) \in Nat /\ Filed(i) \in Nat /\ Sent(i) \in Nat
           /\ Shipped(i) <= Filed(i)
           /\ Seen(i) \in Nat
<1>1. Sent(i) \in Nat /\ (task[i].pc # "measure" => Sent(i) > 0)
      /\ task[i].pc \in {"measure", "lock", "export", "send"}
  BY SentType DEF OrderInv, TaskStates
<1>2. Seen(i) \in Nat
  BY OnWayType, CountedFinite DEF Seen
<1>3. Shipped(i) \in Nat /\ Filed(i) \in Nat /\ Shipped(i) <= Filed(i)
  BY <1>1 DEF Shipped, Filed
<1> QED
  BY <1>1, <1>2, <1>3

(* What a step of a ping task makes of its numbers.                         *)
LEMMA TaskNumbers ==
    ASSUME TypeOK, OrderInv, NEW i \in Tasks, PingTask(i)
    PROVE  /\ consumed' = consumed /\ tui' = tui
           /\ \A j \in Tasks \ {i} : task'[j] = task[j] /\ Shipped(j)' = Shipped(j)
           /\ Shipped(i) <= Shipped(i)'
           /\ Measure(i) => Shipped(i)' = Shipped(i) /\ Filed(i) = Shipped(i)
           /\ LockExporter(i) => Shipped(i)' = Shipped(i) /\ task'[i].stats = task[i].stats
           /\ Export(i) => /\ Shipped(i)' = Shipped(i) /\ Sent(i) = Shipped(i) + 1
                           /\ task'[i].stats = task[i].stats
           /\ SendSample(i) => /\ Shipped(i)' = Shipped(i) + 1 /\ Sent(i) = Shipped(i) + 1
                               /\ Filed(i) = Sent(i)
                               /\ task'[i].stats = task[i].stats
<1>1. /\ task[i] \in TaskStates /\ Sent(i) \in Nat
      /\ task[i].pc # "measure" => Sent(i) > 0
  BY SentType DEF OrderInv
<1>2. /\ \A j \in Tasks \ {i} : task'[j] = task[j]
      /\ consumed' = consumed /\ tui' = tui
  BY DEF PingTask, Measure, LockExporter, Export, SendSample, TypeOK
<1>3. \A j \in Tasks \ {i} : Shipped(j)' = Shipped(j)
  BY <1>2 DEF Shipped, Sent
<1>4. ASSUME Measure(i) PROVE Shipped(i)' = Shipped(i) /\ Filed(i) = Shipped(i)
  <2>1. PICK rtt \in Samples :
           task' = [task EXCEPT ![i] = [pc |-> "lock", rtt |-> rtt,
                                        stats |-> Recorded(@.stats, rtt)]]
    BY <1>4 DEF Measure
  <2>2. task'[i] = [pc |-> "lock", rtt |-> rtt, stats |-> Recorded(task[i].stats, rtt)]
    BY <2>1 DEF TypeOK
  <2>3. Recorded(task[i].stats, rtt).transmitted = task[i].stats.transmitted + 1
    BY <1>1 DEF TaskStates, Recorded, Received, Statistics
  <2>4. Sent(i)' = Sent(i) + 1 /\ task'[i].pc = "lock" /\ task[i].pc = "measure"
    BY <1>4, <2>2, <2>3 DEF Sent, Measure
  <2> QED
    BY <1>1, <2>4 DEF Shipped, Filed
<1>5. /\ LockExporter(i) => task[i].pc = "lock" /\ task'[i].pc = "export"
      /\ Export(i) => task[i].pc = "export" /\ task'[i].pc = "send"
      /\ SendSample(i) => task[i].pc = "send" /\ task'[i].pc = "measure"
      /\ LockExporter(i) \/ Export(i) \/ SendSample(i) => task'[i].stats = task[i].stats
  BY <1>1 DEF LockExporter, Export, SendSample, TypeOK, TaskStates
<1>6. /\ LockExporter(i) => Shipped(i)' = Shipped(i) /\ task'[i].stats = task[i].stats
      /\ Export(i) => /\ Shipped(i)' = Shipped(i) /\ Sent(i) = Shipped(i) + 1
                      /\ task'[i].stats = task[i].stats
      /\ SendSample(i) => /\ Shipped(i)' = Shipped(i) + 1 /\ Sent(i) = Shipped(i) + 1
                          /\ Filed(i) = Sent(i)
                          /\ task'[i].stats = task[i].stats
  BY <1>1, <1>5 DEF Shipped, Filed, Sent
<1>7. Shipped(i) <= Shipped(i)'
  <2>1. Shipped(i) \in Nat
    BY ShippedType
  <2> QED
    BY <1>4, <1>6, <2>1 DEF PingTask
<1> QED
  BY <1>2, <1>3, <1>4, <1>6, <1>7

LEMMA DrainSeen ==
    ASSUME TypeOK, OrderInv, SeenInv, DrainPing, pingCh # <<>>
    PROVE  SeenInv'
<1> DEFINE e == Head(pingCh)
<1>1. /\ consumed' = Append(consumed, e) /\ task' = task /\ Up
      /\ e \in Queued /\ e.task \in Tasks
  <2>1. e \in Queued
    BY OnWayType, TakenType
  <2>2. e.task \in Tasks
    BY <2>1 DEF Queued
  <2> QED
    BY <2>1, <2>2 DEF DrainPing, Up
<1>2. Len(consumed) + 1 \in DOMAIN OnWay /\ OnWay[Len(consumed) + 1] = e
  BY OnWayType, ConcatAt DEF OnWay
<1> HIDE DEF e
<1>3. SUFFICES ASSUME NEW i \in Tasks
               PROVE  InOrder(consumed', i, Seen(i)') /\ Seen(i)' <= Shipped(i)'
  BY DEF SeenInv
<1>4. Shipped(i)' = Shipped(i) /\ Shipped(i) \in Nat /\ Seen(i) \in Nat
  BY <1>1, ShippedType DEF Shipped, Sent
<1>5. Through(consumed, OnWay, i, Seen(i), Shipped(i))
  BY <1>1, <1>4, OnWayType, ThroughConcat DEF OnWay, OrderInv, SeenInv
<1>6. InOrder(consumed, i, Seen(i)) /\ Seen(i) <= Shipped(i)
  BY DEF SeenInv
<1>7. Extended(consumed, e, consumed', i)
  BY <1>1, OnWayType DEF Extended
<1>8. CASE e.task = i
  <2>1. Len(consumed) + 1 \in Mine(OnWay, i)
    BY <1>2, <1>8 DEF Mine
  <2>2. e.n = Seen(i) + 1 /\ Seen(i) + 1 <= Shipped(i)
    BY <1>2, <1>5, <2>1, NextThrough
  <2>3. InOrder(Append(consumed, e), i, Seen(i) + 1)
    BY <1>1, <1>4, <1>6, <1>8, <2>2, OnWayType, NextInOrder
  <2>4. Seen(i)' = Seen(i) + 1
    <3>1. /\ Mine(consumed', i) = Mine(consumed, i) \cup {Len(consumed) + 1}
          /\ Len(consumed) + 1 \notin Mine(consumed, i)
      BY <1>7, <1>8, CountedAppend
    <3>2. IsFiniteSet(Mine(consumed, i))
      BY OnWayType, CountedFinite
    <3> QED
      BY <3>1, <3>2, FS_AddElement DEF Seen
  <2> QED
    BY <1>1, <1>4, <2>2, <2>3, <2>4
<1>9. CASE e.task # i
  <2>1. InOrder(Append(consumed, e), i, Seen(i))
    BY <1>1, <1>6, <1>9, OnWayType, OthersInOrder
  <2>2. Seen(i)' = Seen(i)
    BY <1>7, <1>9, CountedAppend DEF Seen
  <2> QED
    BY <1>1, <1>4, <1>6, <2>1, <2>2
<1> QED
  BY <1>8, <1>9

LEMMA SeenUnchanged ==
    ASSUME TypeOK, OrderInv, SeenInv, consumed' = consumed,
           \A i \in Tasks : Shipped(i)' \in Nat /\ Shipped(i) <= Shipped(i)'
    PROVE  SeenInv'
<1>1. \A i \in Tasks : Seen(i)' = Seen(i) /\ Seen(i) \in Nat /\ Shipped(i) \in Nat
  BY ShippedType DEF Seen
<1> QED
  BY <1>1 DEF SeenInv, InOrder

ShippedNat == \A i \in Tasks : Shipped(i) \in Nat

LEMMA SeenHolds == Spec => []SeenInv
<1>1. Init => SeenInv
  <2> SUFFICES ASSUME Init, NEW i \in Tasks
               PROVE  InOrder(consumed, i, Seen(i)) /\ Seen(i) <= Shipped(i)
    BY DEF SeenInv
  <2>1. consumed = <<>> /\ Seen(i) = 0 /\ Shipped(i) = 0
    BY NoSamples DEF Init, Seen, Shipped, Sent, NoStats
  <2> QED
    BY <2>1, NothingInOrder
<1>2. TypeOK /\ OrderInv => ShippedNat
  BY ShippedType DEF ShippedNat
<1>3. TypeOK /\ OrderInv /\ SeenInv /\ [Next]_vars /\ ShippedNat /\ ShippedNat' => SeenInv'
  <2> SUFFICES ASSUME TypeOK, OrderInv, SeenInv, [Next]_vars, ShippedNat, ShippedNat'
               PROVE  SeenInv'
    OBVIOUS
  <2>1. \A i \in Tasks : Shipped(i) \in Nat /\ Shipped(i)' \in Nat
    BY DEF ShippedNat
  <2>2. CASE DrainPing /\ pingCh # <<>>
    BY <2>2, DrainSeen
  <2>3. ASSUME NEW i \in Tasks, PingTask(i) PROVE SeenInv'
    <3>1. \A j \in Tasks : Shipped(j) <= Shipped(j)'
      BY <2>1, <2>3, TaskNumbers
    <3> QED
      BY <2>1, <2>3, <3>1, TaskNumbers, SeenUnchanged
  <2>4. CASE task' = task /\ consumed' = consumed
    <3>1. \A j \in Tasks : Shipped(j)' = Shipped(j)
      BY <2>4 DEF Shipped, Sent
    <3> QED
      BY <2>1, <2>4, <3>1, SeenUnchanged
  <2>5. UNCHANGED vars \/ Engine \/ Relay \/ (Tui /\ ~(DrainPing /\ pingCh # <<>>))
           => task' = task /\ consumed' = consumed
    BY DEF vars, pipeVars, Engine, Resolve, SendDns, NextRound, Relay, RelayRecv, RelayLock,
           RelayExport, RelaySend, Tui, DrainPing, DrainDns, DrawAndPoll
  <2> QED
    BY <2>2, <2>3, <2>4, <2>5 DEF Next
<1> QED
  BY <1>1, <1>2, <1>3, TypeCorrect, OrderHolds, PTL DEF Spec

(* A line counts the replies among its task's samples up to its own; that   *)
(* of the sample in hand counts those of the task's statistics.             *)
ShippedOf(t) == IF t.pc = "measure" THEN t.stats.transmitted ELSE t.stats.transmitted - 1

LineCounts(l, t, s) ==
    /\ l.n <= ShippedOf(t) => l.rx = Cardinality(RepliesUpTo(s, l.task, l.n))
    /\ l.n > ShippedOf(t) => l.rx = t.stats.received

LinesInv ==
    Up => \A k \in DOMAIN file : LineCounts(file[k], task[file[k].task], OnWay)

LEMMA LineTypes ==
    ASSUME TypeOK, OrderInv, NEW k \in DOMAIN file
    PROVE  /\ file[k] \in Lines /\ file[k].task \in Tasks /\ file[k].n \in Nat
           /\ file[k].n \in 1..Filed(file[k].task)
<1>1. file[k] \in Lines
  BY DEF TypeOK
<1>2. file[k].task \in Tasks /\ file[k].n \in Nat
  BY <1>1 DEF Lines
<1> DEFINE i == file[k].task
<1>3. {file[l].n : l \in {m \in DOMAIN file : file[m].task = i}} = 1..Filed(i)
  BY <1>2 DEF OrderInv, InOrder
<1>4. file[k].n \in 1..Filed(i)
  BY <1>3
<1> QED
  BY <1>1, <1>2, <1>4

(* A sample that is not among those counted changes no count.               *)
LEMMA UpToUnchanged ==
    ASSUME NEW s, NEW e, NEW t, NEW i, NEW n, Extended(s, e, t, i),
           e.task # i \/ ~(e.n <= n)
    PROVE  RepliesUpTo(t, i, n) = RepliesUpTo(s, i, n)
<1> DEFINE m == Len(s) + 1
<1>1. /\ DOMAIN t = DOMAIN s \cup {m} /\ m \notin DOMAIN s
      /\ \A k \in DOMAIN s : t[k] = s[k]
      /\ t[m] = e
  BY DEF Extended
<1> HIDE DEF m
<1>2. ASSUME NEW k \in RepliesUpTo(t, i, n) PROVE k \in RepliesUpTo(s, i, n)
  <2>1. k # m
    BY <1>1, <1>2 DEF RepliesUpTo, Replies, Mine
  <2> QED
    BY <1>1, <1>2, <2>1 DEF RepliesUpTo, Replies, Mine
<1>3. ASSUME NEW k \in RepliesUpTo(s, i, n) PROVE k \in RepliesUpTo(t, i, n)
  BY <1>1, <1>3 DEF RepliesUpTo, Replies, Mine
<1> QED
  BY <1>2, <1>3

LEMMA AllUpToLast ==
    ASSUME NEW s, NEW i, NEW n \in Nat, InOrder(s, i, n)
    PROVE  RepliesUpTo(s, i, n) = Replies(s, i)
<1>1. \A k \in Mine(s, i) : s[k].n \in 1..n
  BY DEF InOrder, Mine
<1> QED
  BY <1>1 DEF RepliesUpTo, Replies

LEMMA PingTaskLines ==
    ASSUME TypeOK, OrderInv, StatsInv, StatsInv', OrderInv', LinesInv, NEW i \in Tasks,
           PingTask(i)
    PROVE  LinesInv'
<1>1. /\ consumed' = consumed /\ tui' = tui /\ Shipped(i) \in Nat /\ Sent(i) \in Nat
      /\ \A j \in Tasks \ {i} : task'[j] = task[j] /\ Shipped(j)' = Shipped(j)
  BY TaskNumbers, ShippedType
<1>0. ShippedOf(task[i]) = Shipped(i) /\ ShippedOf(task'[i]) = Shipped(i)'
  BY DEF ShippedOf, Shipped, Sent
<1>2. SUFFICES ASSUME Up
               PROVE  \A k \in DOMAIN file' :
                         LineCounts(file'[k], task'[file'[k].task], OnWay')
  BY <1>1 DEF LinesInv, Up
<1>3. \A k \in DOMAIN file :
         /\ LineCounts(file[k], task[file[k].task], OnWay)
         /\ file[k].task \in Tasks /\ file[k].n \in Nat
         /\ file[k].n \in 1..Filed(file[k].task)
  BY <1>2, LineTypes DEF LinesInv
<1>4. CASE Measure(i) \/ LockExporter(i)
  <2>1. file' = file /\ OnWay' = OnWay /\ Shipped(i)' = Shipped(i)
    BY <1>4, TaskNumbers DEF Measure, LockExporter, OnWay
  <2>2. ASSUME NEW k \in DOMAIN file, file[k].task = i
        PROVE  LineCounts(file[k], task'[i], OnWay)
    <3>1. LineCounts(file[k], task[i], OnWay)
      BY <1>3, <2>2
    <3>2. CASE Measure(i)
      <4>1. file[k].n <= Shipped(i)
        BY <1>1, <1>3, <2>2, <3>2, TaskNumbers
      <4> QED
        BY <1>0, <1>1, <1>3, <2>1, <2>2, <3>1, <4>1 DEF LineCounts
    <3>3. CASE LockExporter(i)
      <4>1. task'[i].stats = task[i].stats
        BY <3>3, TaskNumbers
      <4> QED
        BY <1>0, <2>1, <3>1, <4>1 DEF LineCounts
    <3> QED
      BY <1>4, <3>2, <3>3
  <2> QED
    BY <1>1, <1>3, <2>1, <2>2
<1>5. CASE Export(i)
  <2> DEFINE e == [task |-> i, n |-> Sent(i), rx |-> task[i].stats.received]
  <2>1. e \in Lines /\ file \in Seq(Lines) /\ file' = Append(file, e)
    BY <1>5, SentType DEF Export, Lines, TypeOK
  <2>2. e.task = i /\ e.n = Sent(i) /\ e.rx = task[i].stats.received
    OBVIOUS
  <2> HIDE DEF e
  <2>3. /\ DOMAIN file' = DOMAIN file \cup {Len(file) + 1}
        /\ \A k \in DOMAIN file : file'[k] = file[k]
        /\ file'[Len(file) + 1] = e
    BY <2>1
  <2>4. OnWay' = OnWay
    BY <1>5 DEF Export, OnWay
  <2>5. /\ Shipped(i)' = Shipped(i) /\ Sent(i) = Shipped(i) + 1
        /\ task'[i].stats = task[i].stats
    BY <1>5, TaskNumbers
  <2>6. LineCounts(e, task'[i], OnWay')
    BY <1>0, <1>1, <2>2, <2>5 DEF LineCounts
  <2>7. ASSUME NEW k \in DOMAIN file PROVE LineCounts(file[k], task'[file[k].task], OnWay')
    <3>1. LineCounts(file[k], task[file[k].task], OnWay) /\ file[k].task \in Tasks
      BY <1>3
    <3>2. CASE file[k].task = i
      BY <1>0, <2>4, <2>5, <3>1, <3>2 DEF LineCounts
    <3>3. CASE file[k].task # i
      BY <1>1, <2>4, <3>1, <3>3
    <3> QED
      BY <3>2, <3>3
  <2> QED
    BY <2>2, <2>3, <2>6, <2>7
<1>6. CASE SendSample(i)
  <2> DEFINE e == [task |-> i, n |-> Sent(i), rtt |-> task[i].rtt]
  <2>1. e \in Queued /\ e.task = i /\ e.n = Sent(i)
    BY SentType DEF Queued
  <2>2. pingCh' = Append(pingCh, e) /\ file' = file
    BY <1>2, <1>6 DEF SendSample, Offered
  <2> HIDE DEF e
  <2>3. OnWay' = Append(OnWay, e)
    BY <1>1, <2>1, <2>2, OnWayType, PutInto DEF OnWay
  <2>4. /\ Shipped(i)' = Shipped(i) + 1 /\ Sent(i) = Shipped(i) + 1 /\ Filed(i) = Sent(i)
        /\ task'[i].stats = task[i].stats
    BY <1>6, TaskNumbers
  <2>9. task'[i].pc = "measure"
    BY <1>6, SentType DEF SendSample, TypeOK, TaskStates
  <2>5. \A j \in Tasks : Extended(OnWay, e, OnWay', j)
    BY <2>1, <2>3, OnWayType DEF Extended
  <2> SUFFICES ASSUME NEW k \in DOMAIN file
               PROVE  LineCounts(file[k], task'[file[k].task], OnWay')
    BY <2>2
  <2>6. CASE file[k].task # i
    <3>1. RepliesUpTo(OnWay', file[k].task, file[k].n) =
             RepliesUpTo(OnWay, file[k].task, file[k].n)
      BY <1>3, <2>1, <2>5, <2>6, UpToUnchanged
    <3>2. task'[file[k].task] = task[file[k].task]
      BY <1>1, <1>3, <2>6
    <3> QED
      BY <1>3, <3>1, <3>2 DEF LineCounts
  <2>7. CASE file[k].task = i /\ file[k].n <= Shipped(i)
    <3>1. file[k].n \in Nat /\ ~(e.n <= file[k].n)
      BY <1>1, <1>3, <2>1, <2>4, <2>7
    <3>2. RepliesUpTo(OnWay', i, file[k].n) = RepliesUpTo(OnWay, i, file[k].n)
      BY <2>5, <3>1, UpToUnchanged
    <3>3. file[k].rx = Cardinality(RepliesUpTo(OnWay, i, file[k].n))
      BY <1>0, <1>3, <2>7 DEF LineCounts
    <3> QED
      BY <1>0, <1>1, <2>4, <2>7, <3>1, <3>2, <3>3 DEF LineCounts
  <2>8. CASE file[k].task = i /\ ~(file[k].n <= Shipped(i))
    <3>1. file[k].n = Sent(i) /\ file[k].n = Shipped(i)'
      BY <1>1, <1>3, <2>4, <2>8
    <3>2. file[k].rx = task[i].stats.received
      BY <1>0, <1>1, <1>3, <2>4, <2>8, <3>1 DEF LineCounts
    <3>3. Up'
      BY <1>1, <1>2 DEF Up
    <3>4. InOrder(OnWay', i, Shipped(i)')
      BY <3>3 DEF OrderInv, OnWay
    <3>5. RepliesUpTo(OnWay', i, file[k].n) = Replies(OnWay', i)
      BY <1>1, <2>4, <3>1, <3>4, AllUpToLast
    <3>6. StatsOf(task'[i].stats, OnWay', i)
      BY <2>9, <3>3 DEF StatsInv, Explained
    <3>7. task'[i].stats.received = Cardinality(Replies(OnWay', i))
      BY <3>6, StatsOfDef
    <3> QED
      BY <1>0, <1>1, <2>4, <2>8, <3>1, <3>2, <3>5, <3>7 DEF LineCounts
  <2> QED
    BY <2>6, <2>7, <2>8
<1> QED
  BY <1>4, <1>5, <1>6 DEF PingTask

LEMMA LinesUnchanged ==
    ASSUME LinesInv, task' = task, file' = file, Up' => Up /\ OnWay' = OnWay
    PROVE  LinesInv'
BY DEF LinesInv

LEMMA LinesHold == Spec => []LinesInv
<1>1. Init => LinesInv
  BY DEF Init, LinesInv
<1>2. /\ TypeOK /\ OrderInv /\ StatsInv /\ LinesInv /\ [Next]_vars
      /\ OrderInv' /\ StatsInv'
      => LinesInv'
  <2> SUFFICES ASSUME TypeOK, OrderInv, StatsInv, LinesInv, [Next]_vars,
                      OrderInv', StatsInv'
               PROVE  LinesInv'
    OBVIOUS
  <2>1. CASE UNCHANGED vars
    BY <2>1, LinesUnchanged DEF vars, pipeVars, Up, OnWay
  <2> QED
    BY <2>1, PingTaskLines, OthersOnWay, LinesUnchanged DEF Next
<1> QED
  BY <1>1, <1>2, TypeCorrect, OrderHolds, StatsHold, PTL DEF Spec

(* The line of the last sample on the screen counts the replies there, even *)
(* when the channel has gone.                                               *)
ShownInv ==
    \A k \in DOMAIN file :
        file[k].n = Cardinality(Mine(consumed, file[k].task)) =>
            file[k].rx = Cardinality(Replies(consumed, file[k].task))

LEMMA ShownWhileUp ==
    ASSUME TypeOK, OrderInv, SeenInv, LinesInv, Up
    PROVE  ShownInv
<1> SUFFICES ASSUME NEW k \in DOMAIN file, file[k].n = Seen(file[k].task)
             PROVE  file[k].rx = Cardinality(Replies(consumed, file[k].task))
  BY DEF ShownInv, Seen
<1>1. PICK i \in Tasks : file[k].task = i
  BY LineTypes
<1>2. Shipped(i) \in Nat /\ Seen(i) \in Nat
  BY ShippedType
<1>3. Through(consumed, OnWay, i, Seen(i), Shipped(i))
  BY <1>2, OnWayType, ThroughConcat DEF OnWay, OrderInv, SeenInv
<1>4. RepliesUpTo(OnWay, i, file[k].n) = Replies(consumed, i)
  BY <1>1, <1>3, RepliesThrough
<1>5. file[k].n <= ShippedOf(task[i])
  BY <1>1 DEF SeenInv, ShippedOf, Shipped, Sent
<1> QED
  BY <1>1, <1>4, <1>5 DEF LinesInv, LineCounts

(* A line that is written when nobody reads is past what is on the screen.  *)
LEMMA ShownWhenGone ==
    ASSUME TypeOK, OrderInv, SeenInv, ShownInv, Next, ~Up'
    PROVE  ShownInv'
<1>1. consumed' = consumed
  BY DEF Next, PingTask, Measure, LockExporter, Export, SendSample, Engine, Resolve, SendDns,
         NextRound, Relay, RelayRecv, RelayLock, RelayExport, RelaySend, Tui, DrainPing,
         DrainDns, DrawAndPoll, Up
<1>2. ASSUME NEW i \in Tasks, Export(i) PROVE ShownInv'
  <2> DEFINE e == [task |-> i, n |-> Sent(i), rx |-> task[i].stats.received]
  <2>1. e \in Lines /\ file \in Seq(Lines) /\ file' = Append(file, e)
    BY <1>2, SentType DEF Export, Lines, TypeOK
  <2>2. e.task = i /\ e.n = Sent(i)
    OBVIOUS
  <2> HIDE DEF e
  <2>3. /\ DOMAIN file' = DOMAIN file \cup {Len(file) + 1}
        /\ \A k \in DOMAIN file : file'[k] = file[k]
        /\ file'[Len(file) + 1] = e
    BY <2>1
  <2>4. e.n # Cardinality(Mine(consumed, e.task))
    <3>1. PingTask(i)
      BY <1>2 DEF PingTask
    <3>2. Sent(i) = Shipped(i) + 1
      BY <1>2, <3>1, TaskNumbers
    <3>3. Shipped(i) \in Nat /\ Seen(i) \in Nat /\ Seen(i) <= Shipped(i)
      BY ShippedType DEF SeenInv
    <3>4. Sent(i) # Seen(i)
      BY <3>2, <3>3
    <3> QED
      BY <2>2, <3>4 DEF Seen
  <2> QED
    BY <1>1, <2>3, <2>4 DEF ShownInv
<1>3. CASE file' = file
  BY <1>1, <1>3 DEF ShownInv
<1>4. file' = file \/ \E i \in Tasks : Export(i)
  BY DEF Next, PingTask, Measure, LockExporter, Export, SendSample, Engine, Resolve, SendDns,
         NextRound, Relay, RelayRecv, RelayLock, RelayExport, RelaySend, Tui, DrainPing,
         DrainDns, DrawAndPoll
<1> QED
  BY <1>2, <1>3, <1>4

LEMMA ShownHolds == Spec => []ShownInv
<1>1. Init => ShownInv
  BY DEF Init, ShownInv
<1>2. TypeOK /\ OrderInv /\ SeenInv /\ LinesInv /\ Up => ShownInv
  BY ShownWhileUp
<1>3. TypeOK /\ OrderInv /\ SeenInv /\ ShownInv /\ [Next]_vars /\ ~Up' => ShownInv'
  <2> SUFFICES ASSUME TypeOK, OrderInv, SeenInv, ShownInv, [Next]_vars, ~Up'
               PROVE  ShownInv'
    OBVIOUS
  <2>1. CASE UNCHANGED vars
    BY <2>1 DEF vars, pipeVars, ShownInv
  <2> QED
    BY <2>1, ShownWhenGone
<1> QED
  BY <1>1, <1>2, <1>3, TypeCorrect, OrderHolds, SeenHolds, LinesHold, PTL DEF Spec

(* The tracker of a host that is listed once has counted what the screen    *)
(* has taken.                                                               *)
Only(i) == \A j \in Tasks : Shown[j] = Shown[i] => j = i

TrackerInv ==
    \A i \in Tasks :
        Only(i) => /\ trackers[i].transmitted = Cardinality(Mine(consumed, i))
                   /\ trackers[i].received = Cardinality(Replies(consumed, i))

LEMMA DrainTrackers ==
    ASSUME TypeOK, TrackerInv, DrainPing, pingCh # <<>>
    PROVE  TrackerInv'
<1> DEFINE e == Head(pingCh)
<1>1. e \in Queued
  BY OnWayType, TakenType
<1>2. e.task \in Tasks /\ e.rtt \in Samples
  BY <1>1 DEF Queued
<1>3. consumed' = Append(consumed, e) /\ OnPingSample(Shown[e.task], e.rtt)
  BY DEF DrainPing
<1> HIDE DEF e
<1>4. PICK h \in Hosts : h = Shown[e.task]
  BY <1>2, HostType DEF Tasks
<1>5. PICK q \in DOMAIN Shown :
         LET t == Counted(trackers[q], e.rtt)
         IN  /\ Shown[q] = h /\ First(q)
             /\ trackers' = [trackers EXCEPT ![q] = [t EXCEPT !.alerting = Alert(t)]]
  <2>1. OnPingSample(h, e.rtt)
    BY <1>3, <1>4
  <2> QED
    BY <2>1 DEF OnPingSample
<1>6. SUFFICES ASSUME NEW i \in Tasks, Only(i)
               PROVE  /\ trackers'[i].transmitted = Cardinality(Mine(consumed', i))
                      /\ trackers'[i].received = Cardinality(Replies(consumed', i))
  BY DEF TrackerInv, Only
<1>7. /\ trackers[i].transmitted = Cardinality(Mine(consumed, i))
      /\ trackers[i].received = Cardinality(Replies(consumed, i))
      /\ trackers \in [DOMAIN Shown -> Trackers] /\ i \in DOMAIN Shown
  BY <1>6 DEF TrackerInv, TypeOK, AppTypeOK, Tasks
<1>8. Extended(consumed, e, consumed', i)
  BY <1>1, <1>3, OnWayType DEF Extended
<1>9. /\ IsFiniteSet(Mine(consumed, i)) /\ Cardinality(Mine(consumed, i)) \in Nat
      /\ IsFiniteSet(Replies(consumed, i)) /\ Cardinality(Replies(consumed, i)) \in Nat
  BY OnWayType, CountedFinite
<1>10. CASE e.task = i
  <2>1. q = i
    BY <1>4, <1>5, <1>6, <1>10 DEF Only, Tasks
  <2>2. /\ trackers'[i].transmitted = trackers[i].transmitted + 1
        /\ trackers'[i].received = IF e.rtt = None THEN trackers[i].received
                                   ELSE trackers[i].received + 1
    BY <1>5, <1>7, <2>1 DEF Counted
  <2>3. Cardinality(Mine(consumed', i)) = Cardinality(Mine(consumed, i)) + 1
    <3>1. /\ Mine(consumed', i) = Mine(consumed, i) \cup {Len(consumed) + 1}
          /\ Len(consumed) + 1 \notin Mine(consumed, i)
      BY <1>8, <1>10, CountedAppend
    <3> QED
      BY <1>9, <3>1, FS_AddElement
  <2>4. Cardinality(Replies(consumed', i)) =
           IF e.rtt = None THEN Cardinality(Replies(consumed, i))
           ELSE Cardinality(Replies(consumed, i)) + 1
    <3>1. /\ e.rtt # None => Replies(consumed', i) =
                                Replies(consumed, i) \cup {Len(consumed) + 1}
          /\ e.rtt = None => Replies(consumed', i) = Replies(consumed, i)
          /\ Len(consumed) + 1 \notin Replies(consumed, i)
      BY <1>8, <1>10, CountedAppend
    <3> QED
      BY <1>9, <3>1, FS_AddElement
  <2> QED
    BY <1>7, <2>2, <2>3, <2>4
<1>11. CASE e.task # i
  <2>1. q # i
    BY <1>2, <1>4, <1>5, <1>6, <1>11 DEF Only
  <2>2. trackers'[i] = trackers[i]
    BY <1>5, <1>7, <2>1
  <2>3. Mine(consumed', i) = Mine(consumed, i) /\ Replies(consumed', i) = Replies(consumed, i)
    BY <1>8, <1>11, CountedAppend
  <2> QED
    BY <1>7, <2>2, <2>3
<1> QED
  BY <1>10, <1>11

LEMMA TrackersHold == Spec => []TrackerInv
<1>1. Init => TrackerInv
  <2> SUFFICES ASSUME Init, NEW i \in Tasks
               PROVE  /\ trackers[i].transmitted = Cardinality(Mine(consumed, i))
                      /\ trackers[i].received = Cardinality(Replies(consumed, i))
    BY DEF TrackerInv
  <2>1. consumed = <<>> /\ trackers[i] = NewTracker
    BY DEF Init, AppInit, Tasks
  <2>2. Mine(<<>>, i) = {} /\ Replies(<<>>, i) = {} /\ Cardinality({}) = 0
    BY NoSamples
  <2>3. Mine(consumed, i) = {} /\ Replies(consumed, i) = {}
    BY <2>1, <2>2
  <2>4. NewTracker.transmitted = 0 /\ NewTracker.received = 0
    BY DEF NewTracker
  <2> QED
    BY <2>1, <2>2, <2>3, <2>4
<1>2. TypeOK /\ TrackerInv /\ [Next]_vars => TrackerInv'
  <2> SUFFICES ASSUME TypeOK, TrackerInv, [Next]_vars PROVE TrackerInv'
    OBVIOUS
  <2>1. CASE DrainPing /\ pingCh # <<>>
    BY <2>1, DrainTrackers
  <2>2. CASE ~(DrainPing /\ pingCh # <<>>)
    <3>1. consumed' = consumed /\ trackers' = trackers
      BY <2>2 DEF vars, appVars, pipeVars, Next, PingTask, Measure, LockExporter, Export,
                  SendSample, Engine, Resolve, SendDns, NextRound, Relay, RelayRecv,
                  RelayLock, RelayExport, RelaySend, Tui, DrainPing, DrainDns, DrawAndPoll,
                  OnDnsResult
    <3> QED
      BY <3>1 DEF TrackerInv, Only
  <2> QED
    BY <2>1, <2>2
<1> QED
  BY <1>1, <1>2, TypeCorrect, PTL DEF Spec

LEMMA OnceIsOnly ==
    ASSUME NEW i \in Tasks, Cardinality({j \in Tasks : Shown[j] = Shown[i]}) = 1
    PROVE  Only(i)
<1> DEFINE same == {j \in Tasks : Shown[j] = Shown[i]}
<1>1. Tasks = 1..Len(Shown) /\ Len(Shown) \in Nat
  BY AppAssumption DEF Tasks
<1>2. IsFiniteSet(Tasks)
  BY <1>1, FS_Interval
<1>3. IsFiniteSet(same)
  BY <1>2, FS_Subset
<1>4. \E x : same = {x}
  BY <1>3, FS_Singleton
<1> QED
  BY <1>4 DEF Only

(* Task, file and screen count the same samples of a host and the same      *)
(* replies, for any number of hosts and samples: the lines are true of what *)
(* was sent, what was sent comes through in order, and the tracker counts   *)
(* what came through.                                                       *)
THEOREM CountsAgree == Spec => []StatsAgree
<1>1. ShownInv /\ TrackerInv => LossAgrees
  <2> SUFFICES ASSUME ShownInv, TrackerInv, NEW i \in Tasks, NEW k \in DOMAIN file,
                      Cardinality({j \in Tasks : Shown[j] = Shown[i]}) = 1,
                      file[k].task = i, file[k].n = trackers[i].transmitted
               PROVE  file[k].rx = trackers[i].received
    BY DEF LossAgrees
  <2>1. Only(i)
    BY OnceIsOnly
  <2> QED
    BY <2>1 DEF ShownInv, TrackerInv
<1> QED
  BY <1>1, ShownHolds, TrackersHold, StatsAreMatched, PTL DEF StatsAgree
==============================================================================
