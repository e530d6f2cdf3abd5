-------------------------- MODULE FlowMetricsProofs --------------------------
(***************************************************************************)
(* Theorems about FlowMetrics, for every number of recorders, readers and  *)
(* tuples, every clock and every value of the three FLOW_ constants.       *)
(***************************************************************************)
EXTENDS FlowMetrics, FiniteSums, TLAPS

(* duration_since(..).as_secs() is a number of whole seconds, and between  *)
(* ordered instants it is off by less than one second.                     *)
LEMMA SecsBounds ==
    ASSUME NEW later \in Int, NEW earlier \in Int
    PROVE  /\ Secs(later, earlier) \in Nat
           /\ later >= earlier =>
                /\ 2 * Secs(later, earlier) <= later - earlier
                /\ later - earlier < 2 * Secs(later, earlier) + 2
           /\ later < earlier => Secs(later, earlier) = 0
BY DEF Secs, TicksPerSec

(* The protocol of any frame has counters. *)
LEMMA ProtocolType ==
    ASSUME NEW tu PROVE Protocol(tu) \in Protocols
BY ConstantsAssumption DEF Protocol, Protocols

Counter == [bytes : Nat, packets : Nat]

(* Adding to one field of one protocol's counters keeps them counters. *)
LEMMA CountersType ==
    ASSUME NEW f \in [Protocols -> Counter], NEW p \in Protocols, NEW n \in Nat
    PROVE  /\ [f EXCEPT ![p].bytes = @ + n] \in [Protocols -> Counter]
           /\ [f EXCEPT ![p].packets = @ + n] \in [Protocols -> Counter]
           /\ [f EXCEPT ![p]["bytes"] = n] \in [Protocols -> Counter]
           /\ [f EXCEPT ![p]["packets"] = n] \in [Protocols -> Counter]
<1>1. f[p] \in Counter /\ f[p].bytes \in Nat /\ f[p].packets \in Nat
  BY DEF Counter
<1>2. [f[p] EXCEPT !.bytes = @ + n] \in Counter
  BY <1>1 DEF Counter
<1>3. [f[p] EXCEPT !.packets = @ + n] \in Counter
  BY <1>1 DEF Counter
<1>4. [f[p] EXCEPT !.bytes = n] \in Counter
  BY <1>1 DEF Counter
<1>5. [f[p] EXCEPT !.packets = n] \in Counter
  BY <1>1 DEF Counter
<1> QED
  BY <1>2, <1>3, <1>4, <1>5

(* The assignments to the locals of a call keep their types. *)
LEMMA CallType ==
    ASSUME NEW f \in [Recorders -> Call], NEW t \in Recorders,
           NEW n \in Nat, NEW b \in BOOLEAN
    PROVE  /\ f[t] \in Call
           /\ [f EXCEPT ![t] = NoCall] \in [Recorders -> Call]
           /\ [f EXCEPT ![t].now = n] \in [Recorders -> Call]
           /\ [f EXCEPT ![t].last = n] \in [Recorders -> Call]
           /\ [f EXCEPT ![t].due = b] \in [Recorders -> Call]
<1>1. f[t] \in Call
  OBVIOUS
<1>2. NoCall \in Call
  BY DEF NoCall, Call
<1>3. [f[t] EXCEPT !.now = n] \in Call
  BY <1>1 DEF Call
<1>4. [f[t] EXCEPT !.last = n] \in Call
  BY <1>1 DEF Call
<1>5. [f[t] EXCEPT !.due = b] \in Call
  BY <1>1 DEF Call
<1> QED
  BY <1>1, <1>2, <1>3, <1>4, <1>5

(* Counting a packet in the map gives a map of flows with stamps. *)
LEMMA UpdatedType ==
    ASSUME TypeOK, NEW c \in Call, c.tuple \in Tuples
    PROVE  /\ DOMAIN Updated(c) \subseteq Tuples
           /\ Updated(c) \in [DOMAIN Updated(c) -> Flow]
<1>1. Counted(c) \in Flow
  BY DEF TypeOK, Call, Flow, Counted, Entry
<1>2. /\ DOMAIN Touched(c) = DOMAIN flows \cup {c.tuple}
      /\ \A tu \in DOMAIN Touched(c) : Touched(c)[tu] \in Flow
  BY <1>1 DEF TypeOK, Touched
<1>3. Kept(c) \subseteq DOMAIN flows \cup {c.tuple}
  BY <1>2 DEF Kept
<1> QED
  BY <1>2, <1>3 DEF TypeOK, Updated

(* Every variable keeps its type, and no flow is ever without a stamp. *)
THEOREM TypeCorrect == Spec => []TypeOK
<1>1. Init => TypeOK
  BY DEF Init, TypeOK, Zeroes, NoCall, Call, Flow
<1>2. TypeOK /\ [Next]_vars => TypeOK'
  <2> SUFFICES ASSUME TypeOK, [Next]_vars PROVE TypeOK'
    OBVIOUS
  <2> USE ConstantsAssumption
  <2>1. ASSUME NEW t \in Recorders, NEW tu \in Tuples \cup {None}, NEW len \in Lens,
               Frame(t, tu, len)
        PROVE  TypeOK'
    <3>1. Protocol(tu) \in Protocols
      BY ProtocolType
    <3>2. counters' \in [Protocols -> Counter]
      BY <2>1, <3>1, CountersType DEF Frame, TypeOK, Counter
    <3>3. call' \in [Recorders -> Call]
      BY <2>1 DEF Frame, TypeOK, NoCall, Call
    <3> QED
      BY <2>1, <3>2, <3>3 DEF Frame, TypeOK, Counter, sweepVars, lockVars, readerVars
  <2>2. ASSUME NEW t \in Recorders, CountPacket(t) PROVE TypeOK'
    <3>1. Protocol(call[t].tuple) \in Protocols
      BY ProtocolType
    <3>2. counters' \in [Protocols -> Counter]
      BY <2>2, <3>1, CountersType DEF CountPacket, TypeOK, Counter
    <3>3. call' \in [Recorders -> Call]
      BY <2>2, CallType DEF CountPacket, TypeOK
    <3>4. call[t].tuple \in Tuples \cup {None}
      BY CallType DEF TypeOK, Call
    <3>5. CASE call[t].tuple = None
      <4>1. /\ pc' = [pc EXCEPT ![t] = "idle"]
            /\ \A u \in Recorders \ {t} : call'[u] = call[u]
        BY <2>2, <3>5 DEF CountPacket, TypeOK
      <4>2. UNCHANGED <<clock, flows, last_sweep, epoch, writer, holding, at, snap,
                        frames, arrived, evicted>>
        BY <2>2 DEF CountPacket, sweepVars, lockVars, readerVars, history
      <4> QED
        BY <3>2, <3>3, <4>1, <4>2 DEF TypeOK, Counter
    <3>6. CASE call[t].tuple # None
      BY <2>2, <3>2, <3>3, <3>4, <3>6
      DEF CountPacket, TypeOK, Counter, sweepVars, lockVars, readerVars, history
    <3> QED
      BY <3>5, <3>6
  <2>3. ASSUME NEW t \in Recorders, Stamp(t) PROVE TypeOK'
    <3>1. call' \in [Recorders -> Call]
      BY <2>3, CallType DEF Stamp, TypeOK
    <3> QED
      BY <2>3, <3>1 DEF Stamp, TypeOK, sweepVars, lockVars, readerVars, history
  <2>4. ASSUME NEW t \in Recorders, SetEpoch(t) PROVE TypeOK'
    BY <2>4 DEF SetEpoch, TypeOK, Call, lockVars, readerVars, history
  <2>5. ASSUME NEW t \in Recorders, LoadSweep(t) PROVE TypeOK'
    <3>1. call' \in [Recorders -> Call]
      BY <2>5, CallType DEF LoadSweep, TypeOK
    <3> QED
      BY <2>5, <3>1 DEF LoadSweep, TypeOK, sweepVars, lockVars, readerVars, history
  <2>6. ASSUME NEW t \in Recorders, ClaimSweep(t) PROVE TypeOK'
    <3>1. Secs(call[t].now, epoch) \in Nat
      BY <2>6, SecsBounds DEF ClaimSweep, TypeOK, Call
    <3>2. call' \in [Recorders -> Call]
      BY <2>6, CallType DEF ClaimSweep, Unclaimed, TypeOK
    <3> QED
      BY <2>6, <3>1, <3>2 DEF ClaimSweep, TypeOK, lockVars, readerVars, history
  <2>7. ASSUME NEW t \in Recorders, LockFlows(t) PROVE TypeOK'
    BY <2>7 DEF LockFlows, TypeOK, sweepVars, readerVars, history
  <2>8. ASSUME NEW t \in Recorders, QueueWriter(t) PROVE TypeOK'
    BY <2>8 DEF QueueWriter, TypeOK, sweepVars, lockVars, readerVars, history
  <2>9. ASSUME NEW t \in Recorders, UpdateFlows(t) PROVE TypeOK'
    <3>1. /\ DOMAIN flows' \subseteq Tuples
          /\ flows' \in [DOMAIN flows' -> Flow]
      BY <2>9, UpdatedType DEF UpdateFlows, TypeOK
    <3>2. call' \in [Recorders -> Call]
      BY <2>9 DEF UpdateFlows, TypeOK, NoCall, Call
    <3>3. DOMAIN evicted' = Protocols
      BY <2>9 DEF UpdateFlows
    <3> QED
      BY <2>9, <3>1, <3>2, <3>3 DEF UpdateFlows, TypeOK, sweepVars, readerVars
  <2>10. ASSUME NEW r \in Readers, LoadCounter(r) PROVE TypeOK'
    <3> DEFINE p == LoadOrder[at[r]][1]
               f == LoadOrder[at[r]][2]
    <3> Len(LoadOrder) = 8
      BY DEF LoadOrder
    <3>0. at[r] <= 8 /\ at' = [at EXCEPT ![r] = at[r] + 1]
      BY <2>10 DEF LoadCounter
    <3>a. at[r] \in 1..10
      BY DEF TypeOK
    <3>1. at[r] \in 1..8
      BY <3>0, <3>a
    <3>2. /\ p \in Protocols
          /\ f = "bytes" \/ f = "packets"
      BY <3>1 DEF LoadOrder, Protocols
    <3>3. counters[p][f] \in Nat
      BY <3>2 DEF TypeOK
    <3>4. [snap[r] EXCEPT ![p][f] = counters[p][f]] \in [Protocols -> Counter]
      BY <3>2, <3>3, CountersType DEF TypeOK, Counter
    <3>5. snap' \in [Readers -> [Protocols -> Counter]]
      BY <2>10, <3>4 DEF LoadCounter, TypeOK, Counter
    <3>6. at' \in [Readers -> 1..10]
      BY <3>0, <3>1 DEF TypeOK
    <3> QED
      BY <2>10, <3>5, <3>6 DEF LoadCounter, TypeOK, Counter, sweepVars, lockVars, history
  <2>11. ASSUME NEW r \in Readers, ReadFlows(r) PROVE TypeOK'
    BY <2>11 DEF ReadFlows, TypeOK, sweepVars, history
  <2>12. ASSUME NEW r \in Readers, SkipFlows(r) PROVE TypeOK'
    BY <2>12 DEF SkipFlows, TypeOK, Zeroes, sweepVars, lockVars, history
  <2>13. ASSUME NEW r \in Readers, ShowFlows(r) PROVE TypeOK'
    BY <2>13 DEF ShowFlows, Released, TypeOK, Zeroes, sweepVars, history
  <2>14. CASE Tick
    BY <2>14 DEF Tick, TypeOK, sweepVars, lockVars, readerVars, history
  <2>15. CASE UNCHANGED vars
    BY <2>15 DEF vars, TypeOK
  <2> QED
    BY <2>1, <2>2, <2>3, <2>4, <2>5, <2>6, <2>7, <2>8, <2>9, <2>10, <2>11, <2>12,
       <2>13, <2>14, <2>15 DEF Next, Proceed, Render
<1> QED
  BY <1>1, <1>2, PTL DEF Spec
------------------------------------------------------------------------------
(* Two sweeps are claimed an interval apart, whatever the recorders: the   *)
(* loaded value is at most the current one plus the interval, or the       *)
(* compare_exchange fails.                                                 *)
ClaimInv ==
    \A t \in Recorders :
       pc[t] = "cas" => IntervalOver(Secs(call[t].now, epoch), call[t].last)

LEMMA ClaimInvStep == TypeOK /\ ClaimInv /\ [Next]_vars => ClaimInv'
<1> SUFFICES ASSUME TypeOK, ClaimInv, [Next]_vars, NEW u \in Recorders, pc'[u] = "cas"
             PROVE  IntervalOver(Secs(call'[u].now, epoch'), call'[u].last)
  BY DEF ClaimInv, IntervalOver, Secs
<1>1. CASE pc[u] = "cas" /\ call'[u] = call[u] /\ epoch' = epoch
  BY <1>1 DEF ClaimInv
<1>2. ASSUME NEW t \in Recorders, Proceed(t) \/ LockFlows(t)
      PROVE  IntervalOver(Secs(call'[u].now, epoch'), call'[u].last)
  <2>1. CASE LoadSweep(t)
    <3>1. CASE u = t
      BY <2>1, <3>1 DEF LoadSweep, TypeOK, Call, sweepVars
    <3>2. CASE u # t
      BY <1>1, <2>1, <3>2 DEF LoadSweep, TypeOK, sweepVars
    <3> QED
      BY <3>1, <3>2
  <2>2. CASE SetEpoch(t)
    BY <1>1, <2>2 DEF SetEpoch, TypeOK
  <2> QED
    BY <1>1, <1>2, <2>1, <2>2
    DEF Proceed, CountPacket, Stamp, ClaimSweep, LockFlows, QueueWriter, UpdateFlows,
        TypeOK, sweepVars
<1>3. ASSUME NEW t \in Recorders, NEW tu \in Tuples \cup {None}, NEW len \in Lens,
             Frame(t, tu, len)
      PROVE  IntervalOver(Secs(call'[u].now, epoch'), call'[u].last)
  BY <1>1, <1>3 DEF Frame, TypeOK, sweepVars
<1>4. ASSUME NEW r \in Readers, Render(r)
      PROVE  IntervalOver(Secs(call'[u].now, epoch'), call'[u].last)
  BY <1>1, <1>4 DEF Render, LoadCounter, ReadFlows, SkipFlows, ShowFlows, sweepVars
<1>5. CASE Tick \/ UNCHANGED vars
  BY <1>1, <1>5 DEF Tick, vars, sweepVars
<1> QED
  BY <1>2, <1>3, <1>4, <1>5 DEF Next

THEOREM SweepsAreApart == Spec => SweepsApart
<1>1. Init => ClaimInv
  BY DEF Init, ClaimInv
<1>2. TypeOK /\ ClaimInv /\ [Next]_vars =>
        [last_sweep' # last_sweep =>
           last_sweep' >= last_sweep + FLOW_SWEEP_INTERVAL_SECS]_vars
  <2> SUFFICES ASSUME TypeOK, ClaimInv, [Next]_vars, last_sweep' # last_sweep
               PROVE  last_sweep' >= last_sweep + FLOW_SWEEP_INTERVAL_SECS
    OBVIOUS
  <2>1. PICK t \in Recorders : ClaimSweep(t)
    BY DEF Next, Frame, Proceed, CountPacket, Stamp, SetEpoch, LoadSweep, LockFlows,
           QueueWriter, UpdateFlows, Render, LoadCounter, ReadFlows, SkipFlows,
           ShowFlows, Tick, vars, sweepVars
  <2>2. last_sweep = call[t].last /\ last_sweep' = Secs(call[t].now, epoch)
    BY <2>1 DEF ClaimSweep, Unclaimed
  <2> QED
    BY <2>1, <2>2 DEF ClaimInv, ClaimSweep, IntervalOver
<1> QED
  BY <1>1, <1>2, ClaimInvStep, TypeCorrect, PTL DEF Spec, SweepsApart

------------------------------------------------------------------------------
(* The map does what FlowTable says. *)

(* What one call leaves of each flow: the flow it counts, the others as    *)
(* they were; after a sweep nothing stale.                                 *)
LEMMA UpdatedFlows ==
    ASSUME NEW c, NEW m, m = Updated(c)
    PROVE  /\ DOMAIN m = Kept(c)
           /\ Kept(c) \subseteq DOMAIN flows \cup {c.tuple}
           /\ \A tu \in Kept(c) :
                 m[tu] = IF tu = c.tuple THEN Counted(c) ELSE flows[tu]
           /\ SweepNow(c) =>
                 /\ \A tu \in Kept(c) : ~IsStale(m[tu], c.now)
                 /\ \A tu \in DOMAIN flows \ (Kept(c) \cup {c.tuple}) :
                       IsStale(flows[tu], c.now)
                 /\ c.tuple \notin Kept(c) => IsStale(Counted(c), c.now)
           /\ ~SweepNow(c) =>
                 /\ Kept(c) = DOMAIN flows \cup {c.tuple}
                 /\ ~(Cardinality(Kept(c)) > FLOW_MAX_ENTRIES)
<1>1. /\ DOMAIN Touched(c) = DOMAIN flows \cup {c.tuple}
      /\ \A tu \in DOMAIN Touched(c) :
            Touched(c)[tu] = IF tu = c.tuple THEN Counted(c) ELSE flows[tu]
  BY DEF Touched
<1>2. ~SweepNow(c) => /\ Kept(c) = DOMAIN Touched(c)
                      /\ ~(Cardinality(Kept(c)) > FLOW_MAX_ENTRIES)
  BY DEF Kept, SweepNow
<1> QED
  BY <1>1, <1>2 DEF Updated, Kept

(* A flow just counted is never stale. *)
LEMMA CountedIsFresh ==
    ASSUME NEW c \in Call PROVE ~IsStale(Counted(c), c.now)
<1>1. c.now \in Int /\ Counted(c).last_seen = c.now
  BY DEF Call, Counted
<1>2. Secs(c.now, c.now) = 0
  BY <1>1, SecsBounds DEF Secs, TicksPerSec
<1> QED
  BY <1>1, <1>2, ConstantsAssumption DEF IsStale

(* What `is_stale` says of two instants. *)
LEMMA StaleMeansIdle ==
    ASSUME NEW flow, NEW now \in Int, flow.last_seen \in Int
    PROVE  IsStale(flow, now) <=>
              now - flow.last_seen >= TicksPerSec * FLOW_IDLE_SECS
<1>1. FLOW_IDLE_SECS \in Nat /\ FLOW_IDLE_SECS > 0
  BY ConstantsAssumption
<1> DEFINE seen == flow.last_seen
           s == Secs(now, seen)
<1>2. /\ s \in Nat
      /\ now >= seen => 2 * s <= now - seen /\ now - seen < 2 * s + 2
      /\ now < seen => s = 0
  BY SecsBounds
<1>3. s >= FLOW_IDLE_SECS <=> now - seen >= 2 * FLOW_IDLE_SECS
  <2> HIDE DEF s, seen
  <2>1. seen \in Int
    BY DEF seen
  <2> QED
    BY <1>1, <1>2, <2>1
<1> QED
  BY <1>3 DEF IsStale, TicksPerSec

(* Every step of the program counts one packet in the abstract table, or   *)
(* leaves it alone.                                                        *)
THEOREM ImplementsTable == Spec => TableSpec
<1>1. Init => Table!Init
  BY DEF Init, Table!Init
<1>2. TypeOK /\ [Next]_vars => [Table!Next]_flows
  <2> SUFFICES ASSUME TypeOK, [Next]_vars, flows' # flows PROVE Table!Next
    OBVIOUS
  <2>1. PICK t \in Recorders : UpdateFlows(t)
    BY DEF Next, Frame, Proceed, CountPacket, Stamp, SetEpoch, LoadSweep, ClaimSweep,
           LockFlows, QueueWriter, Render, LoadCounter, ReadFlows, SkipFlows,
           ShowFlows, Tick, vars
  <2> DEFINE c == call[t]
  <2>2. /\ c \in Call
        /\ c.tuple \in Tuples
        /\ c.len \in Lens
        /\ flows' = Updated(c)
    BY <2>1 DEF UpdateFlows, TypeOK
  <2>3. /\ c.tuple \in Kept(c)
        /\ DOMAIN flows' = Kept(c)
        /\ flows'[c.tuple] = Counted(c)
    BY <2>2, UpdatedFlows, CountedIsFresh
  <2>4. /\ flows'[c.tuple].packet_count = Table!Packets(c.tuple) + 1
        /\ flows'[c.tuple].byte_count = Table!Bytes(c.tuple) + c.len
    BY <2>3 DEF Counted, Entry, Table!Packets, Table!Bytes
  <2>5. \A other \in DOMAIN flows' \ {c.tuple} : flows'[other] = flows[other]
    BY <2>2, <2>3, UpdatedFlows
  <2>6. ASSUME NEW gone \in DOMAIN flows \ DOMAIN flows'
        PROVE  flows'[c.tuple].last_seen - flows[gone].last_seen
                  >= TicksPerSec * FLOW_IDLE_SECS
    <3>1. IsStale(flows[gone], c.now)
      BY <2>2, <2>3, UpdatedFlows
    <3>2. /\ c.now \in Int
          /\ flows[gone].last_seen \in Int
          /\ flows'[c.tuple].last_seen = c.now
      BY <2>2, <2>3 DEF Call, Counted, TypeOK, Flow
    <3> QED
      BY <3>1, <3>2, StaleMeansIdle
  <2> QED
    <3>1. DOMAIN flows' \subseteq DOMAIN flows \cup {c.tuple}
      BY <2>2, <2>3, UpdatedFlows
    <3>2. Table!Count(c.tuple, c.len)
      BY <2>3, <2>4, <2>5, <2>6, <3>1 DEF Table!Count
    <3> QED
      BY <2>2, <3>2 DEF Table!Next
<1> QED
  BY <1>1, <1>2, TypeCorrect, PTL DEF Spec, TableSpec, Table!Spec
------------------------------------------------------------------------------
(* One capture thread: Schedule is inductive. *)

Spread ==
    \A tu, newer \in DOMAIN flows :
       flows[newer].last_seen - flows[tu].last_seen
          < TicksPerSec * (FLOW_IDLE_SECS + FLOW_SWEEP_INTERVAL_SECS)

FreshWhenOverfull ==
    Cardinality(DOMAIN flows) > FLOW_MAX_ENTRIES =>
       \A tu, newer \in DOMAIN flows :
          flows[newer].last_seen - flows[tu].last_seen < TicksPerSec * FLOW_IDLE_SECS

ScheduleInv(t) == ScheduleOf(t) /\ Spread /\ FreshWhenOverfull

LEMMA UpdateStep ==
    ASSUME TypeOK, NEW t \in Recorders, ScheduleInv(t), UpdateFlows(t)
    PROVE  ScheduleInv(t)'
<1> DEFINE c == call[t]
           base == epoch + 2 * last_sweep
           Seen(map, tu) == map[tu].last_seen
<1>1. /\ c \in Call /\ c.tuple \in Tuples /\ c.now \in Nat /\ c.due \in BOOLEAN
      /\ epoch \in Nat /\ last_sweep \in Nat /\ clock \in Nat /\ base \in Nat
      /\ arrived \in [Tuples -> Nat] /\ DOMAIN flows \subseteq Tuples
      /\ \A tu \in DOMAIN flows : Seen(flows, tu) \in Int
      /\ FLOW_IDLE_SECS \in Nat /\ FLOW_IDLE_SECS > 0
      /\ FLOW_SWEEP_INTERVAL_SECS \in Nat /\ FLOW_SWEEP_INTERVAL_SECS > 0
  BY ConstantsAssumption DEF UpdateFlows, TypeOK, Call, Flow
<1>2. /\ flows' = Updated(c)
      /\ DOMAIN flows' = Kept(c)
      /\ Kept(c) \subseteq DOMAIN flows \cup {c.tuple}
      /\ pc'[t] = "idle" /\ call'[t] = NoCall
      /\ UNCHANGED <<epoch, last_sweep, clock, arrived>>
  BY UpdatedFlows DEF UpdateFlows, TypeOK, sweepVars
<1>3. \A tu \in Kept(c) :
         Seen(flows', tu) = IF tu = c.tuple THEN c.now ELSE Seen(flows, tu)
  <2>1. \A tu \in Kept(c) :
           flows'[tu] = IF tu = c.tuple THEN Counted(c) ELSE flows[tu]
    BY <1>2, UpdatedFlows
  <2>2. Counted(c).last_seen = c.now
    BY DEF Counted
  <2> QED
    BY <2>1, <2>2
<1>4. /\ base <= c.now /\ c.now <= clock
      /\ arrived[c.tuple] <= c.now
      /\ c.now < base + 2 * (IF c.due THEN 1 ELSE FLOW_SWEEP_INTERVAL_SECS)
      /\ \A tu \in DOMAIN flows :
            /\ epoch <= Seen(flows, tu)
            /\ Seen(flows, tu) <= c.now
            /\ tu # c.tuple => arrived[tu] <= Seen(flows, tu)
      /\ \A tu \in Tuples : arrived[tu] <= clock
      /\ ~c.due => \A tu \in DOMAIN flows :
                      /\ Seen(flows, tu) > base - 2 * FLOW_IDLE_SECS
                      /\ Seen(flows, tu) < base + 2 * FLOW_SWEEP_INTERVAL_SECS
  <2>1. pc[t] = "update" /\ Stamped(t) /\ Decided(t) /\ epoch # None
    BY DEF UpdateFlows, Stamped, Decided, TypeOK
  <2>2. ScheduleOf(t)
    BY DEF ScheduleInv
  <2>3. /\ At(last_sweep) <= c.now /\ c.now <= clock
        /\ arrived[c.tuple] <= c.now
        /\ \A tu \in DOMAIN flows : Seen(flows, tu) <= c.now
    BY <2>1, <2>2 DEF ScheduleOf,
           SweepInPast, StampsOrdered, NowIsNewest, ClaimIsCurrent, WindowHeld
  <2>4. c.now < At(last_sweep + (IF c.due THEN 1 ELSE FLOW_SWEEP_INTERVAL_SECS))
    BY <2>1, <2>2 DEF ScheduleOf,
           SweepInPast, StampsOrdered, NowIsNewest, ClaimIsCurrent, WindowHeld
  <2>5. \A tu \in DOMAIN flows :
           /\ epoch <= Seen(flows, tu)
           /\ tu # c.tuple => arrived[tu] <= Seen(flows, tu)
    BY <2>2 DEF ScheduleOf,
           SweepInPast, StampsOrdered, NowIsNewest, ClaimIsCurrent, WindowHeld
  <2>6. \A tu \in Tuples : arrived[tu] <= clock
    BY <2>2 DEF ScheduleOf,
           SweepInPast, StampsOrdered, NowIsNewest, ClaimIsCurrent, WindowHeld
  <2>7. ~c.due => \A tu \in DOMAIN flows :
                    /\ Seen(flows, tu) > At(last_sweep - FLOW_IDLE_SECS)
                    /\ Seen(flows, tu) < At(last_sweep + FLOW_SWEEP_INTERVAL_SECS)
    BY <2>2 DEF ScheduleOf,
           SweepInPast, StampsOrdered, NowIsNewest, ClaimIsCurrent, WindowHeld
  <2> QED
    BY <1>1, <2>3, <2>4, <2>5, <2>6, <2>7 DEF At, TicksPerSec
<1>5. \A tu \in Kept(c) :
         /\ Seen(flows', tu) \in Int
         /\ epoch <= Seen(flows', tu)
         /\ Seen(flows', tu) <= c.now
         /\ arrived[tu] <= Seen(flows', tu)
  BY <1>1, <1>2, <1>3, <1>4
<1>6. SweepNow(c) => \A tu \in Kept(c) : c.now - Seen(flows', tu) < 2 * FLOW_IDLE_SECS
  <2> SUFFICES ASSUME SweepNow(c), NEW tu \in Kept(c)
               PROVE  c.now - Seen(flows', tu) < 2 * FLOW_IDLE_SECS
    OBVIOUS
  <2>1. ~IsStale(flows'[tu], c.now)
    BY <1>2, UpdatedFlows
  <2> QED
    BY <1>1, <1>5, <2>1, StaleMeansIdle DEF TicksPerSec
<1>7. \A tu \in Kept(c) : /\ Seen(flows', tu) > base - 2 * FLOW_IDLE_SECS
                         /\ Seen(flows', tu) < base + 2 * FLOW_SWEEP_INTERVAL_SECS
  <2>1. CASE c.due
    BY <1>1, <1>4, <1>5, <1>6, <2>1 DEF SweepNow
  <2>2. CASE ~c.due
    BY <1>1, <1>2, <1>3, <1>4, <2>2
  <2> QED
    BY <2>1, <2>2
<1>8. Spread'
  BY <1>1, <1>2, <1>5, <1>7 DEF Spread, TicksPerSec
<1>9. FreshWhenOverfull'
  <2>1. CASE SweepNow(c)
    BY <1>1, <1>2, <1>5, <1>6, <2>1 DEF FreshWhenOverfull, TicksPerSec
  <2>2. CASE ~SweepNow(c)
    BY <1>2, <2>2, UpdatedFlows DEF FreshWhenOverfull
  <2> QED
    BY <2>1, <2>2
<1>10. ScheduleOf(t)'
  <2>1. /\ epoch' = epoch /\ epoch # None
        /\ At(last_sweep)' <= clock'
    BY <1>1, <1>2, <1>4, ConstantsAssumption DEF At, TicksPerSec
  <2>2. ~Stamped(t)' /\ ~Decided(t)' /\ pc'[t] # "cas" /\ ~call'[t].due
    BY <1>2 DEF Stamped, Decided, NoCall
  <2>3. \A tu \in DOMAIN flows' :
           /\ epoch' <= Seen(flows', tu)
           /\ Seen(flows', tu) <= clock'
           /\ arrived'[tu] <= Seen(flows', tu)
    BY <1>1, <1>2, <1>4, <1>5
  <2>4. \A tu \in DOMAIN flows' :
           /\ Seen(flows', tu) > At(last_sweep - FLOW_IDLE_SECS)'
           /\ Seen(flows', tu) < At(last_sweep + FLOW_SWEEP_INTERVAL_SECS)'
    BY <1>1, <1>2, <1>7 DEF At, TicksPerSec
  <2>5. \A tu \in Tuples : arrived'[tu] <= clock'
    BY <1>2, <1>4
  <2> QED
    BY <2>1, <2>2, <2>3, <2>4, <2>5 DEF ScheduleOf,
           SweepInPast, StampsOrdered, NowIsNewest, ClaimIsCurrent, WindowHeld
<1> QED
  BY <1>8, <1>9, <1>10 DEF ScheduleInv
(* The steps of `record` before it reaches the map. *)
LEMMA RecordStep ==
    ASSUME TypeOK, NEW t \in Recorders, ScheduleInv(t), TypeOK',
           \/ CountPacket(t) \/ Stamp(t) \/ SetEpoch(t) \/ LoadSweep(t)
           \/ ClaimSweep(t) \/ LockFlows(t) \/ QueueWriter(t)
           \/ \E tu \in Tuples \cup {None}, len \in Lens : Frame(t, tu, len)
    PROVE  ScheduleInv(t)'
<1> USE DEF At, TicksPerSec
<1>1. /\ flows' = flows /\ clock' = clock
      /\ DOMAIN flows \subseteq Tuples
      /\ \A tu \in DOMAIN flows : flows[tu].last_seen \in Int
      /\ clock \in Nat /\ last_sweep \in Nat /\ epoch \in Nat \cup {None}
      /\ arrived \in [Tuples -> Nat]
      /\ call[t] \in Call /\ call[t].now \in Nat
  BY DEF CountPacket, Stamp, SetEpoch, LoadSweep, ClaimSweep, LockFlows, QueueWriter,
         Frame, TypeOK, Flow, Call
<1>2. /\ FLOW_IDLE_SECS \in Nat /\ FLOW_IDLE_SECS > 0
      /\ FLOW_SWEEP_INTERVAL_SECS \in Nat /\ FLOW_SWEEP_INTERVAL_SECS > 0
      /\ None \notin Int
  BY ConstantsAssumption
<1>3. Spread' /\ FreshWhenOverfull'
  BY <1>1 DEF ScheduleInv, Spread, FreshWhenOverfull
<1>4. /\ SweepInPast /\ StampsOrdered(t) /\ NowIsNewest(t)
      /\ ClaimIsCurrent(t) /\ WindowHeld(t)
  BY DEF ScheduleInv, ScheduleOf
<1>5. ASSUME NEW tu \in Tuples \cup {None}, NEW len \in Lens, Frame(t, tu, len)
      PROVE  ScheduleOf(t)'
  <2>1. /\ pc'[t] = "count" /\ call'[t].tuple = tu /\ ~call'[t].due
        /\ UNCHANGED <<epoch, last_sweep>>
        /\ pc[t] = "idle"
        /\ arrived' = [x \in Tuples |-> IF x = tu THEN clock ELSE arrived[x]]
    <3>1. pc[t] = "idle" /\ UNCHANGED <<epoch, last_sweep>>
      BY <1>5 DEF Frame, sweepVars
    <3>2. pc'[t] = "count"
      BY <1>5 DEF Frame, TypeOK
    <3>3. call'[t].tuple = tu /\ ~call'[t].due
      <4>1. call'[t] = [NoCall EXCEPT !.tuple = tu, !.len = len]
        <5>1. call' = [call EXCEPT ![t] = [NoCall EXCEPT !.tuple = tu, !.len = len]]
          BY <1>5 DEF Frame
        <5>2. t \in DOMAIN call
          BY DEF TypeOK
        <5> QED
          BY <5>1, <5>2
      <4> QED
        BY <4>1 DEF NoCall
    <3>4. arrived' = [x \in Tuples |-> IF x = tu THEN clock ELSE arrived[x]]
      BY <1>5 DEF Frame
    <3> QED
      BY <3>1, <3>2, <3>3, <3>4
  <2>2. ~Stamped(t)' /\ ~Decided(t)' /\ ~Decided(t)
    BY <2>1 DEF Stamped, Decided
  <2>11. SweepInPast'
    BY <1>1, <1>2, <1>4, <2>1, <2>2 DEF SweepInPast
  <2>12. StampsOrdered(t)'
    BY <1>1, <1>2, <1>4, <2>1, <2>2 DEF StampsOrdered
  <2>13. NowIsNewest(t)'
    BY <1>1, <1>2, <1>4, <2>1, <2>2 DEF NowIsNewest
  <2>14. ClaimIsCurrent(t)'
    BY <1>1, <1>2, <1>4, <2>1, <2>2 DEF ClaimIsCurrent, IntervalOver
  <2>15. WindowHeld(t)'
    BY <1>1, <1>2, <1>4, <2>1, <2>2 DEF WindowHeld, ClaimIsCurrent
  <2> QED
    BY <2>11, <2>12, <2>13, <2>14, <2>15 DEF ScheduleOf
<1>6. CASE CountPacket(t)
  <2>1. /\ pc[t] = "count"
        /\ UNCHANGED <<epoch, last_sweep, arrived>>
        /\ \/ pc'[t] = "idle" /\ call'[t] = NoCall /\ call[t].tuple = None
           \/ pc'[t] = "stamp" /\ call' = call
    BY <1>6 DEF CountPacket, TypeOK, sweepVars, history
  <2>2. ~Stamped(t)' /\ ~Decided(t)' /\ ~Decided(t) /\ ~NoCall.due
    BY <2>1 DEF Stamped, Decided, NoCall
  <2>3. \A tu \in DOMAIN flows : tu # None
    BY <1>1, ConstantsAssumption
  <2>11. SweepInPast'
    BY <1>1, <1>2, <1>4, <2>1, <2>2, <2>3 DEF SweepInPast
  <2>12. StampsOrdered(t)'
    BY <1>1, <1>2, <1>4, <2>1, <2>2, <2>3 DEF StampsOrdered
  <2>13. NowIsNewest(t)'
    BY <1>1, <1>2, <1>4, <2>1, <2>2, <2>3 DEF NowIsNewest
  <2>14. ClaimIsCurrent(t)'
    BY <1>1, <1>2, <1>4, <2>1, <2>2, <2>3 DEF ClaimIsCurrent, IntervalOver
  <2>15. WindowHeld(t)'
    BY <1>1, <1>2, <1>4, <2>1, <2>2, <2>3 DEF WindowHeld, ClaimIsCurrent
  <2> QED
    BY <1>3, <2>11, <2>12, <2>13, <2>14, <2>15 DEF ScheduleInv, ScheduleOf
<1>7. CASE Stamp(t)
  <2>1. /\ pc[t] = "stamp" /\ pc'[t] = "epoch"
        /\ UNCHANGED <<epoch, last_sweep, arrived>>
        /\ call'[t] = [call[t] EXCEPT !.now = clock]
        /\ call[t].tuple \in Tuples
    BY <1>7 DEF Stamp, TypeOK, sweepVars, history
  <2>2. ~Decided(t)' /\ ~Decided(t)
    BY <2>1 DEF Decided
  <2>3. /\ call'[t].now = clock /\ call'[t].tuple = call[t].tuple
        /\ call'[t].due = call[t].due
    BY <1>1, <2>1 DEF Call
  <2>11. SweepInPast'
    BY <1>1, <1>2, <1>4, <2>1, <2>2, <2>3 DEF SweepInPast
  <2>12. StampsOrdered(t)'
    BY <1>1, <1>2, <1>4, <2>1, <2>2, <2>3 DEF StampsOrdered
  <2>13. NowIsNewest(t)'
    BY <1>1, <1>2, <1>4, <2>1, <2>2, <2>3 DEF NowIsNewest, StampsOrdered, SweepInPast
  <2>14. ClaimIsCurrent(t)'
    BY <1>1, <1>2, <1>4, <2>1, <2>2, <2>3 DEF ClaimIsCurrent, IntervalOver
  <2>15. WindowHeld(t)'
    BY <1>1, <1>2, <1>4, <2>1, <2>2, <2>3 DEF WindowHeld, ClaimIsCurrent
  <2> QED
    BY <1>3, <2>11, <2>12, <2>13, <2>14, <2>15 DEF ScheduleInv, ScheduleOf
<1>8. CASE SetEpoch(t)
  <2>1. /\ pc[t] = "epoch" /\ pc'[t] = "load"
        /\ UNCHANGED <<call, last_sweep, arrived>>
        /\ epoch' = IF epoch = None THEN call[t].now ELSE epoch
    BY <1>8 DEF SetEpoch, TypeOK, history
  <2>2. ~Decided(t)' /\ ~Decided(t) /\ Stamped(t)
    BY <2>1 DEF Decided, Stamped
  <2>3. epoch = None => last_sweep = 0 /\ DOMAIN flows = {} /\ epoch' = call[t].now
    BY <1>4, <2>1 DEF SweepInPast
  <2>11. SweepInPast'
    BY <1>1, <1>2, <1>4, <2>1, <2>2, <2>3 DEF SweepInPast, NowIsNewest
  <2>12. StampsOrdered(t)'
    BY <1>1, <1>2, <1>4, <2>1, <2>2, <2>3 DEF StampsOrdered
  <2>13. NowIsNewest(t)'
    BY <1>1, <1>2, <1>4, <2>1, <2>2, <2>3 DEF NowIsNewest
  <2>14. ClaimIsCurrent(t)'
    BY <1>1, <1>2, <1>4, <2>1, <2>2, <2>3 DEF ClaimIsCurrent, IntervalOver
  <2>15. WindowHeld(t)'
    BY <1>1, <1>2, <1>4, <2>1, <2>2, <2>3 DEF WindowHeld, ClaimIsCurrent
  <2> QED
    BY <1>3, <2>11, <2>12, <2>13, <2>14, <2>15 DEF ScheduleInv, ScheduleOf
<1>9. CASE LoadSweep(t)
  <2>1. /\ pc[t] = "load"
        /\ UNCHANGED <<epoch, last_sweep, arrived>>
        /\ call'[t] = [call[t] EXCEPT !.last = last_sweep]
        /\ pc'[t] = IF IntervalOver(Secs(call[t].now, epoch), last_sweep)
                      THEN "cas" ELSE "lock"
        /\ epoch \in Nat
    BY <1>9 DEF LoadSweep, TypeOK, sweepVars, history
  <2>2. /\ call'[t].last = last_sweep /\ call'[t].tuple = call[t].tuple
        /\ call'[t].due = call[t].due /\ call'[t].now = call[t].now
    BY <1>1, <2>1 DEF Call
  <2>3. ~Decided(t) /\ Stamped(t) /\ ~call[t].due /\ epoch + 2 * last_sweep <= call[t].now
    BY <1>1, <1>2, <1>4, <2>1
    DEF Decided, Stamped, ClaimIsCurrent, NowIsNewest
  <2>4. pc'[t] = "lock" => call[t].now < epoch + 2 * (last_sweep + FLOW_SWEEP_INTERVAL_SECS)
    <3> DEFINE s == Secs(call[t].now, epoch)
    <3>1. s \in Nat /\ (call[t].now >= epoch => call[t].now - epoch < 2 * s + 2)
      BY <1>1, <2>1, SecsBounds
    <3>2. pc'[t] = "lock" => ~(s >= last_sweep + FLOW_SWEEP_INTERVAL_SECS)
      BY <2>1 DEF IntervalOver
    <3> HIDE DEF s
    <3> QED
      BY <1>1, <1>2, <2>1, <2>3, <3>1, <3>2
  <2>5. (Secs(call[t].now, epoch))' = Secs(call[t].now, epoch)
    BY <2>1, <2>2 DEF Secs
  <2>6. Decided(t)' => pc'[t] = "lock"
    BY <2>1 DEF Decided
  <2>11. SweepInPast'
    BY <1>1, <1>2, <1>4, <2>1, <2>2, <2>3, <2>4, <2>5, <2>6 DEF SweepInPast
  <2>12. StampsOrdered(t)'
    BY <1>1, <1>2, <1>4, <2>1, <2>2, <2>3, <2>4, <2>5, <2>6 DEF StampsOrdered
  <2>13. NowIsNewest(t)'
    BY <1>1, <1>2, <1>4, <2>1, <2>2, <2>3, <2>4, <2>5, <2>6 DEF NowIsNewest
  <2>14. ClaimIsCurrent(t)'
    BY <1>1, <1>2, <1>4, <2>1, <2>2, <2>3, <2>4, <2>5, <2>6 DEF ClaimIsCurrent, IntervalOver
  <2>15. WindowHeld(t)'
    BY <1>1, <1>2, <1>4, <2>1, <2>2, <2>3, <2>4, <2>5, <2>6 DEF WindowHeld, ClaimIsCurrent
  <2> QED
    BY <1>3, <2>11, <2>12, <2>13, <2>14, <2>15 DEF ScheduleInv, ScheduleOf
<1>10. CASE ClaimSweep(t)
  <2>1. /\ pc[t] = "cas" /\ pc'[t] = "lock"
        /\ UNCHANGED <<epoch, arrived>>
        /\ call'[t] = [call[t] EXCEPT !.due = Unclaimed(t)]
        /\ last_sweep' = IF Unclaimed(t) THEN Secs(call[t].now, epoch) ELSE last_sweep
        /\ epoch \in Nat
    BY <1>10 DEF ClaimSweep, TypeOK, history
  <2>2. /\ Unclaimed(t) /\ last_sweep' = Secs(call[t].now, epoch)
        /\ Stamped(t) /\ epoch <= call[t].now
    BY <1>1, <1>2, <1>4, <2>1 DEF NowIsNewest, ClaimIsCurrent, Unclaimed, Stamped
  <2>3. /\ call'[t].due /\ call'[t].tuple = call[t].tuple
        /\ call'[t].now = call[t].now
    BY <1>1, <2>1, <2>2 DEF Call
  <2>4. /\ last_sweep' \in Nat
        /\ Decided(t)' /\ pc'[t] # "cas"
        /\ epoch + 2 * last_sweep' <= call[t].now
        /\ call[t].now < epoch + 2 * (last_sweep' + 1)
    BY <1>1, <2>1, <2>2, SecsBounds DEF Decided
  <2>11. SweepInPast'
    <3>1. call[t].now <= clock /\ call[t].now \in Int /\ clock \in Int /\ clock' = clock
      BY <1>1, <1>4, <2>1, <2>2 DEF NowIsNewest
    <3>2. epoch' # None /\ epoch' = epoch /\ epoch \in Int
      BY <1>2, <2>1
    <3>3. epoch' + 2 * last_sweep' <= clock'
      <4>1. PICK s \in Nat : s = last_sweep' /\ epoch + 2 * s <= call[t].now
        BY <2>4
      <4>2. epoch + 2 * s <= clock
        BY <3>1, <3>2, <4>1
      <4> QED
        BY <3>1, <3>2, <4>1, <4>2
    <3> QED
      BY <3>2, <3>3 DEF SweepInPast, At, TicksPerSec
  <2>12. StampsOrdered(t)'
    BY <1>1, <1>2, <1>4, <2>1, <2>2, <2>3, <2>4 DEF StampsOrdered
  <2>13. NowIsNewest(t)'
    BY <1>1, <1>2, <1>4, <2>1, <2>2, <2>3, <2>4 DEF NowIsNewest
  <2>14. ClaimIsCurrent(t)'
    BY <1>1, <1>2, <1>4, <2>1, <2>2, <2>3, <2>4 DEF ClaimIsCurrent, IntervalOver
  <2>15. WindowHeld(t)'
    BY <1>1, <1>2, <1>4, <2>1, <2>2, <2>3, <2>4 DEF WindowHeld, ClaimIsCurrent
  <2> QED
    BY <1>3, <2>11, <2>12, <2>13, <2>14, <2>15 DEF ScheduleInv, ScheduleOf
<1>11. CASE LockFlows(t) \/ QueueWriter(t)
  <2>1. /\ Stamped(t) /\ Stamped(t)' /\ Decided(t) /\ Decided(t)'
        /\ pc'[t] # "cas" /\ pc'[t] # "idle" /\ pc[t] # "idle"
        /\ UNCHANGED <<epoch, last_sweep, arrived, call>>
    BY <1>11 DEF LockFlows, QueueWriter, TypeOK, Stamped, Decided, sweepVars, history
  <2>11. SweepInPast'
    BY <1>1, <1>2, <1>4, <2>1 DEF SweepInPast
  <2>12. StampsOrdered(t)'
    BY <1>1, <1>2, <1>4, <2>1 DEF StampsOrdered
  <2>13. NowIsNewest(t)'
    BY <1>1, <1>2, <1>4, <2>1 DEF NowIsNewest
  <2>14. ClaimIsCurrent(t)'
    BY <1>1, <1>2, <1>4, <2>1 DEF ClaimIsCurrent, IntervalOver
  <2>15. WindowHeld(t)'
    BY <1>1, <1>2, <1>4, <2>1 DEF WindowHeld, ClaimIsCurrent
  <2> QED
    BY <1>3, <2>11, <2>12, <2>13, <2>14, <2>15 DEF ScheduleInv, ScheduleOf
<1> QED
  BY <1>3, <1>5, <1>6, <1>7, <1>8, <1>9, <1>10, <1>11 DEF ScheduleInv
(* The readers and the clock. *)
LEMMA OtherStep ==
    ASSUME TypeOK, TypeOK', NEW t \in Recorders, ScheduleInv(t),
           Tick \/ UNCHANGED vars \/ \E r \in Readers : Render(r)
    PROVE  ScheduleInv(t)'
<1> USE DEF At, TicksPerSec
<1>1. /\ UNCHANGED <<flows, pc, call, epoch, last_sweep, arrived>>
      /\ clock' = clock \/ clock' = clock + 1
      /\ clock \in Nat /\ last_sweep \in Nat /\ epoch \in Nat \cup {None}
      /\ arrived \in [Tuples -> Nat] /\ call[t].now \in Nat
      /\ \A tu \in DOMAIN flows : flows[tu].last_seen \in Int
  BY DEF Tick, vars, Render, LoadCounter, ReadFlows, SkipFlows, ShowFlows, sweepVars,
         history, readerVars, TypeOK, Flow, Call
<1>2. Spread' /\ FreshWhenOverfull'
  BY <1>1 DEF ScheduleInv, Spread, FreshWhenOverfull
<1>3. /\ SweepInPast /\ StampsOrdered(t) /\ NowIsNewest(t)
      /\ ClaimIsCurrent(t) /\ WindowHeld(t)
  BY DEF ScheduleInv, ScheduleOf
<1>4. SweepInPast'
  BY <1>1, <1>3 DEF SweepInPast
<1>5. StampsOrdered(t)'
  BY <1>1, <1>3, ConstantsAssumption DEF StampsOrdered, SweepInPast
<1>6. Stamped(t) => call[t].tuple \in Tuples
  BY DEF Stamped, TypeOK
<1>7. NowIsNewest(t)'
  BY <1>1, <1>3, <1>6 DEF NowIsNewest, Stamped
<1>8. ClaimIsCurrent(t)' /\ WindowHeld(t)'
  BY <1>1, <1>3 DEF ClaimIsCurrent, WindowHeld, Decided, IntervalOver, Secs
<1> QED
  BY <1>2, <1>4, <1>5, <1>7, <1>8 DEF ScheduleInv, ScheduleOf

LEMMA ScheduleCorrect ==
    ASSUME NEW t \in Recorders, Recorders = {t}
    PROVE  Spec => []ScheduleInv(t)
<1>1. Init => ScheduleInv(t)
  <2> SUFFICES ASSUME Init PROVE ScheduleInv(t)
    OBVIOUS
  <2>1. /\ epoch = None /\ last_sweep = 0 /\ flows = [tu \in {} |-> 0] /\ clock = 0
        /\ pc[t] = "idle" /\ call[t] = NoCall /\ arrived = [tu \in Tuples |-> 0]
        /\ DOMAIN flows = {}
    BY DEF Init
  <2>2. ScheduleOf(t)
    BY <2>1 DEF ScheduleOf, SweepInPast, StampsOrdered, NowIsNewest, ClaimIsCurrent,
                WindowHeld, Stamped, Decided, NoCall
  <2> QED
    BY <2>1, <2>2 DEF ScheduleInv, Spread, FreshWhenOverfull
<1>2. TypeOK /\ TypeOK' /\ ScheduleInv(t) /\ [Next]_vars => ScheduleInv(t)'
  <2> SUFFICES ASSUME TypeOK, TypeOK', ScheduleInv(t), [Next]_vars
               PROVE  ScheduleInv(t)'
    OBVIOUS
  <2>1. CASE UpdateFlows(t)
    BY <2>1, UpdateStep
  <2>2. CASE \/ CountPacket(t) \/ Stamp(t) \/ SetEpoch(t) \/ LoadSweep(t)
             \/ ClaimSweep(t) \/ LockFlows(t) \/ QueueWriter(t)
             \/ \E tu \in Tuples \cup {None}, len \in Lens : Frame(t, tu, len)
    BY <2>2, RecordStep
  <2>3. CASE Tick \/ UNCHANGED vars \/ \E r \in Readers : Render(r)
    BY <2>3, OtherStep
  <2> QED
    BY <2>1, <2>2, <2>3 DEF Next, Proceed
<1> QED
  BY <1>1, <1>2, TypeCorrect, PTL DEF Spec

(* No flow stays further behind the newest one than idle + interval. *)
THEOREM SpreadIsBounded == Spec => []SpreadBounded
<1>1. CASE OneRecorder
  <2>1. PICK t \in Recorders : Recorders = {t}
    BY <1>1 DEF OneRecorder
  <2>2. ScheduleInv(t) => SpreadBounded
    BY DEF ScheduleInv, Spread, SpreadBounded
  <2> QED
    BY <2>1, <2>2, ScheduleCorrect, PTL
<1>2. CASE ~OneRecorder
  <2>1. SpreadBounded
    BY <1>2 DEF SpreadBounded
  <2> QED
    BY <2>1, PTL
<1> QED
  BY <1>1, <1>2

(* A map above its nominal ceiling holds only flows of one idle period. *)
THEOREM OverfullMapIsFresh == Spec => []OverfullIsFresh
<1>1. CASE OneRecorder
  <2>1. PICK t \in Recorders : Recorders = {t}
    BY <1>1 DEF OneRecorder
  <2>2. ScheduleInv(t) => OverfullIsFresh
    BY DEF ScheduleInv, FreshWhenOverfull, OverfullIsFresh
  <2> QED
    BY <2>1, <2>2, ScheduleCorrect, PTL
<1>2. CASE ~OneRecorder
  <2>1. OverfullIsFresh
    BY <1>2 DEF OverfullIsFresh
  <2> QED
    BY <2>1, PTL
<1> QED
  BY <1>1, <1>2
(* A swept flow had no frame for the idle time, frames in flight included. *)
THEOREM ActiveFlowsKept == Spec => ActiveKept
<1> DEFINE Kept1 == \A tu \in DOMAIN flows \ DOMAIN flows' :
                       clock - arrived[tu] >= TicksPerSec * FLOW_IDLE_SECS
<1>1. CASE OneRecorder
  <2>1. PICK t \in Recorders : Recorders = {t}
    BY <1>1 DEF OneRecorder
  <2>2. TypeOK /\ ScheduleInv(t) /\ [Next]_vars => [OneRecorder => Kept1]_vars
    <3> SUFFICES ASSUME TypeOK, ScheduleInv(t), [Next]_vars,
                        NEW tu \in DOMAIN flows \ DOMAIN flows'
                 PROVE  clock - arrived[tu] >= TicksPerSec * FLOW_IDLE_SECS
      OBVIOUS
    <3> DEFINE c == call[t]
    <3>1. UpdateFlows(t)
      BY <2>1 DEF Next, Frame, Proceed, CountPacket, Stamp, SetEpoch, LoadSweep,
             ClaimSweep, LockFlows, QueueWriter, Render, LoadCounter, ReadFlows,
             SkipFlows, ShowFlows, Tick, vars
    <3>2. /\ c \in Call /\ c.now \in Nat /\ clock \in Nat
          /\ tu \in Tuples /\ arrived[tu] \in Nat /\ flows[tu].last_seen \in Int
          /\ flows' = Updated(c)
          /\ pc[t] = "update"
      BY <3>1 DEF UpdateFlows, TypeOK, Call, Flow
    <3>3. tu # c.tuple /\ IsStale(flows[tu], c.now)
      BY <3>2, UpdatedFlows, CountedIsFresh
    <3>4. c.now - flows[tu].last_seen >= TicksPerSec * FLOW_IDLE_SECS
      BY <3>2, <3>3, StaleMeansIdle
    <3>5. arrived[tu] <= flows[tu].last_seen /\ c.now <= clock
      BY <3>2, <3>3 DEF ScheduleInv, ScheduleOf, StampsOrdered, NowIsNewest, Stamped
    <3> QED
      BY <3>2, <3>4, <3>5, ConstantsAssumption DEF TicksPerSec
  <2> QED
    BY <2>1, <2>2, ScheduleCorrect, TypeCorrect, PTL DEF Spec, ActiveKept
<1>2. CASE ~OneRecorder
  <2>1. [OneRecorder => Kept1]_vars
    BY <1>2
  <2> QED
    BY <2>1, PTL DEF ActiveKept
<1> QED
  BY <1>1, <1>2

------------------------------------------------------------------------------
(* The counters and the map agree, however the recorders interleave. *)

(* Counting the packet of call c and sweeping: the packets kept and those  *)
(* swept away are those that were there and the new one.                   *)
LEMMA UpdatedPackets ==
    ASSUME TypeOK, IsFiniteSet(DOMAIN flows), NEW c \in Call, c.tuple \in Tuples,
           NEW p
    PROVE  /\ IsFiniteSet(Kept(c))
           /\ PacketsIn(flows, DOMAIN flows, p) \in Int
           /\ PacketsIn(flows, DOMAIN flows \ Kept(c), p) \in Int
           /\ PacketsIn(Updated(c), Kept(c), p) +
              PacketsIn(flows, DOMAIN flows \ Kept(c), p) =
                 PacketsIn(flows, DOMAIN flows, p) +
                 (IF Protocol(c.tuple) = p THEN 1 ELSE 0)
<1> DEFINE D == DOMAIN flows
           x == c.tuple
           K == Kept(c)
           P(S) == {tu \in S : Protocol(tu) = p}
           old == [tu \in D |-> flows[tu].packet_count]
           new == [tu \in D \cup {x} |-> Touched(c)[tu].packet_count]
           was == [tu \in D \cup {x} |-> Entry(tu).packet_count]
           kept == [tu \in K |-> Updated(c)[tu].packet_count]
           gone == [tu \in D \ K |-> flows[tu].packet_count]
<1>1. /\ \A tu \in D : flows[tu].packet_count \in Int /\ Entry(tu) = flows[tu]
      /\ x \notin D => Entry(x).packet_count = 0
      /\ Touched(c)[x].packet_count = Entry(x).packet_count + 1
      /\ \A tu \in D : tu # x => Touched(c)[tu] = flows[tu]
  BY DEF TypeOK, Flow, Touched, Counted, Entry
<1>2. /\ \A tu \in D \cup {x} : new[tu] \in Int /\ was[tu] \in Int
      /\ \A tu \in D \cup {x} : tu # x => was[tu] = new[tu]
      /\ new[x] = was[x] + 1
  BY <1>1
<1>3. x \in K /\ K \subseteq D \cup {x}
  BY CountedIsFresh, UpdatedFlows
<1>4. IsFiniteSet(D \cup {x}) /\ IsFiniteSet(K) /\ IsFiniteSet(P(D)) /\ IsFiniteSet(P(K))
      /\ IsFiniteSet(P(D \cup {x})) /\ IsFiniteSet(P(D \ K))
  <2>1. IsFiniteSet(D \cup {x})
    BY FS_AddElement
  <2> QED
    BY <2>1, <1>3, FS_Subset
<1>5. SumFunctionOnSet(was, P(D \cup {x})) = SumFunctionOnSet(old, P(D))
  <2>1. /\ \A tu \in P(D) : was[tu] = old[tu]
        /\ x \notin D => was[x] = 0
    BY <1>1
  <2> HIDE DEF was, old
  <2>2. SumFunctionOnSet(was, P(D)) = SumFunctionOnSet(old, P(D))
    <3> HIDE DEF was, old
    <3> QED
      BY <2>1, <1>4, SumSame
  <2>3. x \in D \/ Protocol(x) # p => P(D \cup {x}) = P(D)
    OBVIOUS
  <2>4. CASE x \notin D /\ Protocol(x) = p
    <3>1. /\ P(D \cup {x}) = P(D) \cup {x} /\ x \notin P(D)
          /\ was[x] = 0
          /\ \A tu \in P(D) \cup {x} : was[tu] \in Int
      BY <2>4, <2>1, <1>2
    <3>2. SumFunctionOnSet(was, P(D) \cup {x}) = 0 + SumFunctionOnSet(was, P(D))
      <4> HIDE DEF was, x, P, D
      <4> QED
        BY <3>1, <1>4, SumAdd
    <3>3. SumFunctionOnSet(was, P(D)) \in Int
      <4> HIDE DEF was, x, P, D
      <4> QED
        BY <3>1, <1>4, SumType
    <3>4. 0 + SumFunctionOnSet(was, P(D)) = SumFunctionOnSet(was, P(D))
      BY <3>3
    <3> HIDE DEF P, D, x
    <3> QED
      BY <3>1, <3>2, <3>4, <2>2, Zenon
  <2> HIDE DEF P
  <2> QED
    BY <2>2, <2>3, <2>4
<1>6. /\ SumFunctionOnSet(new, P(D \cup {x})) \in Int
      /\ SumFunctionOnSet(was, P(D \cup {x})) \in Int
      /\ SumFunctionOnSet(new, P(D \cup {x})) =
            SumFunctionOnSet(was, P(D \cup {x})) + (IF Protocol(x) = p THEN 1 ELSE 0)
  <2>1. /\ \A tu \in P(D \cup {x}) : new[tu] \in Int /\ was[tu] \in Int
        /\ \A tu \in P(D \cup {x}) : tu # x => was[tu] = new[tu]
    BY <1>2
  <2>2. /\ SumFunctionOnSet(new, P(D \cup {x})) \in Int
        /\ SumFunctionOnSet(was, P(D \cup {x})) \in Int
    <3> HIDE DEF new, was, P, D, x
    <3> QED
      BY <2>1, <1>4, SumType
  <2>3. CASE Protocol(x) = p
    <3>1. x \in P(D \cup {x})
      BY <2>3
    <3>2. SumFunctionOnSet(new, P(D \cup {x})) =
             SumFunctionOnSet(was, P(D \cup {x})) - was[x] + new[x]
      <4>1. PICK S : S = P(D \cup {x})
        OBVIOUS
      <4> HIDE DEF new, was, P, D, x
      <4>2. IsFiniteSet(S) /\ x \in S
        BY <3>1, <1>4, <4>1
      <4>3. /\ \A y \in S : was[y] \in Int /\ new[y] \in Int
            /\ \A y \in S : y # x => was[y] = new[y]
        BY <2>1, <4>1
      <4>4. SumFunctionOnSet(new, S) = SumFunctionOnSet(was, S) - was[x] + new[x]
        BY <4>2, <4>3, SumChange
      <4> QED
        BY <4>1, <4>4
    <3>3. new[x] = was[x] + 1 /\ was[x] \in Int
      BY <1>2
    <3> HIDE DEF new, was, P, D, x
    <3> QED
      BY <2>3, <3>2, <3>3, <2>2 DEF x
  <2>4. CASE Protocol(x) # p
    <3>1. \A tu \in P(D \cup {x}) : was[tu] = new[tu]
      BY <2>1, <2>4
    <3>2. SumFunctionOnSet(was, P(D \cup {x})) = SumFunctionOnSet(new, P(D \cup {x}))
      <4> HIDE DEF new, was, P, D, x
      <4> QED
        BY <3>1, <1>4, SumSame
    <3> QED
      BY <2>4, <3>2, <2>2
  <2> QED
    BY <2>2, <2>3, <2>4
<1>7. /\ SumFunctionOnSet(kept, P(K)) \in Int /\ SumFunctionOnSet(gone, P(D \ K)) \in Int
      /\ SumFunctionOnSet(new, P(D \cup {x})) =
            SumFunctionOnSet(kept, P(K)) + SumFunctionOnSet(gone, P(D \ K))
  <2>1. P(K) \in SUBSET P(D \cup {x}) /\ P(D \cup {x}) \ P(K) = P(D \ K)
    BY <1>3
  <2>2. \A tu \in P(D \cup {x}) : new[tu] \in Int
    BY <1>2
  <2>3. SumFunctionOnSet(new, P(D \cup {x})) =
           SumFunctionOnSet(new, P(K)) + SumFunctionOnSet(new, P(D \cup {x}) \ P(K))
    <3> DEFINE all == P(D \cup {x})
               part == P(K)
    <3>1. part \in SUBSET all /\ IsFiniteSet(all) /\ \A tu \in all : new[tu] \in Int
      BY <2>1, <2>2, <1>4
    <3>2. SumFunctionOnSet(new, all) =
             SumFunctionOnSet(new, part) + SumFunctionOnSet(new, all \ part)
      <4> HIDE DEF new, all, part
      <4> QED
        BY <3>1, SumDisjoint
    <3> QED
      BY <3>2
  <2>4. /\ \A tu \in P(K) : new[tu] = kept[tu] /\ new[tu] \in Int
        /\ \A tu \in P(D \ K) : new[tu] = gone[tu] /\ new[tu] \in Int
    BY <1>1, <1>2, <1>3 DEF Updated
  <2>5. /\ SumFunctionOnSet(new, P(K)) = SumFunctionOnSet(kept, P(K))
        /\ SumFunctionOnSet(new, P(D \ K)) = SumFunctionOnSet(gone, P(D \ K))
        /\ SumFunctionOnSet(new, P(K)) \in Int /\ SumFunctionOnSet(new, P(D \ K)) \in Int
    <3> HIDE DEF new, kept, gone, P, D, x, K
    <3> QED
      BY <2>4, <1>4, SumSame, SumType
  <2> HIDE DEF new, kept, gone, P, D, x, K
  <2> QED
    BY <2>1, <2>3, <2>5
<1>8. SumFunctionOnSet(old, P(D)) \in Int
  BY <1>5, <1>6
<1>9. /\ PacketsIn(flows, D, p) = SumFunctionOnSet(old, P(D))
      /\ PacketsIn(flows, D \ K, p) = SumFunctionOnSet(gone, P(D \ K))
      /\ PacketsIn(Updated(c), K, p) = SumFunctionOnSet(kept, P(K))
  BY DEF PacketsIn
<1>10. /\ PacketsIn(flows, D, p) \in Int /\ PacketsIn(flows, D \ K, p) \in Int
       /\ PacketsIn(Updated(c), K, p) + PacketsIn(flows, D \ K, p) =
             PacketsIn(flows, D, p) + (IF Protocol(x) = p THEN 1 ELSE 0)
  <2> HIDE DEF old, new, kept, gone, was, P, D, x, K
  <2> QED
    BY <1>5, <1>6, <1>7, <1>8, <1>9
<1> QED
  BY <1>4, <1>10

(* What Conservation rests on: the sets it counts are finite, and a        *)
(* recorder at its first step holds a frame with or without a tuple.       *)
CountsFinite ==
    /\ IsFiniteSet(DOMAIN flows)
    /\ evicted \in [Protocols -> Int]
    /\ \A p \in Protocols : IsFiniteSet(InFlight(p))

ConservationInv == CountsFinite /\ Conservation

(* One recorder enters or leaves the recorders in flight. *)
LEMMA OneMore ==
    ASSUME NEW S, IsFiniteSet(S), NEW t, t \notin S
    PROVE  IsFiniteSet(S \cup {t}) /\ Cardinality(S \cup {t}) = Cardinality(S) + 1
BY FS_AddElement

LEMMA OneLess ==
    ASSUME NEW S, IsFiniteSet(S), NEW t, t \in S
    PROVE  IsFiniteSet(S \ {t}) /\ Cardinality(S) = Cardinality(S \ {t}) + 1
           /\ Cardinality(S \ {t}) \in Nat
<1>1. Cardinality(S) \in Nat /\ IsFiniteSet(S \ {t})
  BY FS_CardinalityType, FS_RemoveElement
<1>2. Cardinality(S \ {t}) = Cardinality(S) - 1
  BY FS_RemoveElement
<1>3. Cardinality(S \ {t}) \in Nat
  BY <1>1, FS_CardinalityType
<1> QED
  BY <1>1, <1>2, <1>3

(* The sum and the recorders in flight do not see the other steps. *)
LEMMA ConservationElsewhere ==
    ASSUME TypeOK, ConservationInv, UNCHANGED <<flows, evicted>>,
           \A p \in Protocols : counters'[p].packets = counters[p].packets,
           \A p \in Protocols \ {"OUTR"} : InFlight(p)' = InFlight(p),
           IsFiniteSet(InFlight("OUTR")')
    PROVE  ConservationInv'
<1>1. \A p \in Protocols : IsFiniteSet(InFlight(p)')
  BY DEF ConservationInv, CountsFinite
<1>2. CountsFinite'
  BY <1>1 DEF ConservationInv, CountsFinite
<1>3. \A p \in Protocols \ {"OUTR"} :
         PacketsIn(flows, DOMAIN flows, p)' = PacketsIn(flows, DOMAIN flows, p)
  BY DEF PacketsIn
<1>4. Conservation'
  BY <1>3 DEF ConservationInv, Conservation
<1> QED
  BY <1>2, <1>4 DEF ConservationInv

THEOREM PacketsConserved == Spec => []Conservation
<1>1. Init => ConservationInv
  <2> SUFFICES ASSUME Init PROVE ConservationInv
    OBVIOUS
  <2>1. \A p : InFlight(p) = {}
    BY DEF Init, InFlight
  <2>2. DOMAIN flows = {} /\ evicted = [p \in Protocols |-> 0]
        /\ \A p \in Protocols : counters[p].packets = 0
    BY DEF Init, Zeroes
  <2>3. \A p : PacketsIn(flows, {}, p) = 0
    BY SumEmpty DEF PacketsIn
  <2>4. CountsFinite
    <3>1. \A p \in Protocols : IsFiniteSet(InFlight(p))
      BY <2>1, FS_EmptySet
    <3>2. IsFiniteSet(DOMAIN flows) /\ evicted \in [Protocols -> Int]
      BY <2>2, FS_EmptySet
    <3> QED
      BY <3>1, <3>2 DEF CountsFinite
  <2>5. Conservation
    BY <2>1, <2>2, <2>3, FS_EmptySet DEF Conservation
  <2> QED
    BY <2>4, <2>5 DEF ConservationInv
<1>2. TypeOK /\ ConservationInv /\ [Next]_vars => ConservationInv'
  <2> SUFFICES ASSUME TypeOK, ConservationInv, [Next]_vars PROVE ConservationInv'
    OBVIOUS
  <2>0. "OUTR" \in Protocols /\ IsFiniteSet(InFlight("OUTR"))
    BY DEF Protocols, ConservationInv, CountsFinite
  <2>1. ASSUME NEW t \in Recorders, NEW tu \in Tuples \cup {None}, NEW len \in Lens,
               Frame(t, tu, len)
        PROVE  ConservationInv'
    <3>1. \A p : InFlight(p)' = InFlight(p)
      BY <2>1 DEF Frame, TypeOK, InFlight
    <3>2. \A p \in Protocols : counters'[p].packets = counters[p].packets
      BY <2>1 DEF Frame, TypeOK
    <3> QED
      BY <2>0, <2>1, <3>1, <3>2, ConservationElsewhere DEF Frame
  <2>2. ASSUME NEW t \in Recorders, CountPacket(t) PROVE ConservationInv'
    <3>0. PICK q : q = Protocol(call[t].tuple)
      OBVIOUS
    <3>1. q \in Protocols
      BY <3>0, ProtocolType
    <3>2. counters' = [counters EXCEPT ![q].packets = @ + 1]
          /\ UNCHANGED <<flows, evicted>> /\ pc[t] = "count"
      BY <2>2, <3>0 DEF CountPacket, history
    <3>3. CASE call[t].tuple = None
      <4>1. q = "OUTR"
        BY <3>0, <3>3, ConstantsAssumption DEF Protocol
      <4>2. \A p : InFlight(p)' = InFlight(p)
        BY <2>2, <3>3 DEF CountPacket, TypeOK, InFlight
      <4>3. \A p \in Protocols \ {"OUTR"} : counters'[p].packets = counters[p].packets
        BY <3>1, <3>2, <4>1 DEF TypeOK
      <4>4. CountsFinite'
        BY <3>2, <4>2 DEF ConservationInv, CountsFinite
      <4>5. Conservation'
        BY <3>2, <4>2, <4>3 DEF ConservationInv, Conservation, PacketsIn
      <4> QED
        BY <4>4, <4>5 DEF ConservationInv
    <3>4. CASE call[t].tuple # None
      <4>1. InFlight(q)' = InFlight(q) \cup {t} /\ t \notin InFlight(q)
        BY <2>2, <3>0, <3>4 DEF CountPacket, TypeOK, InFlight
      <4>2. \A p : p # q => InFlight(p)' = InFlight(p)
        BY <2>2, <3>0, <3>4 DEF CountPacket, TypeOK, InFlight
      <4>3. IsFiniteSet(InFlight(q))
        BY <3>1 DEF ConservationInv, CountsFinite
      <4>4. IsFiniteSet(InFlight(q)') /\ Cardinality(InFlight(q)') = Cardinality(InFlight(q)) + 1
        BY <4>1, <4>3, OneMore
      <4>5. \A p \in Protocols : IsFiniteSet(InFlight(p)')
        BY <4>2, <4>4 DEF ConservationInv, CountsFinite
      <4>6. CountsFinite'
        BY <3>2, <4>5 DEF ConservationInv, CountsFinite
      <4>7. /\ counters'[q].packets = counters[q].packets + 1
            /\ \A p \in Protocols : p # q => counters'[p].packets = counters[p].packets
        BY <3>1, <3>2 DEF TypeOK
      <4>8. \A p : PacketsIn(flows, DOMAIN flows, p)' = PacketsIn(flows, DOMAIN flows, p)
        BY <3>2 DEF PacketsIn
      <4>9. ASSUME NEW p \in Protocols \ {"OUTR"}
            PROVE  counters'[p].packets =
                      PacketsIn(flows, DOMAIN flows, p)' + evicted'[p] + Cardinality(InFlight(p)')
        <5>1. counters[p].packets =
                 PacketsIn(flows, DOMAIN flows, p) + evicted[p] + Cardinality(InFlight(p))
          BY DEF ConservationInv, Conservation
        <5>2. PacketsIn(flows, DOMAIN flows, p) \in Int /\ evicted[p] \in Int
              /\ Cardinality(InFlight(p)) \in Int
          <6>1. \A x \in {y \in DOMAIN flows : Protocol(y) = p} :
                   [y \in DOMAIN flows |-> flows[y].packet_count][x] \in Int
            BY DEF TypeOK, Flow
          <6>2. IsFiniteSet({y \in DOMAIN flows : Protocol(y) = p})
            BY FS_Subset DEF ConservationInv, CountsFinite
          <6>3. PacketsIn(flows, DOMAIN flows, p) \in Int
            BY <6>1, <6>2, SumType DEF PacketsIn
          <6> QED
            BY <6>3, FS_CardinalityType DEF ConservationInv, CountsFinite
        <5>3. evicted'[p] = evicted[p]
          BY <3>2
        <5>4. CASE p = q
          BY <5>1, <5>2, <5>3, <5>4, <4>4, <4>7, <4>8
        <5>5. CASE p # q
          BY <5>1, <5>2, <5>3, <5>5, <4>2, <4>7, <4>8
        <5> QED
          BY <5>4, <5>5
      <4>10. Conservation'
        BY <4>9 DEF Conservation
      <4> QED
        BY <4>6, <4>10 DEF ConservationInv
    <3> QED
      BY <3>3, <3>4
  <2>3. ASSUME NEW t \in Recorders,
               Stamp(t) \/ SetEpoch(t) \/ LoadSweep(t) \/ ClaimSweep(t) \/ LockFlows(t)
               \/ QueueWriter(t)
        PROVE  ConservationInv'
    <3> DEFINE Recording == {"stamp", "epoch", "load", "cas", "lock", "queued", "update"}
               SameCalls == /\ \A u \in Recorders : call'[u].tuple = call[u].tuple
                            /\ \A u \in Recorders : pc'[u] \in Recording <=> pc[u] \in Recording
    <3>0. call \in [Recorders -> Call] /\ \A u \in Recorders : call[u] \in Call
      BY DEF TypeOK
    <3>a. Stamp(t) => SameCalls
      BY <3>0 DEF Stamp, TypeOK, Call
    <3>b. SetEpoch(t) => SameCalls
      BY DEF SetEpoch, TypeOK
    <3>c. LoadSweep(t) => SameCalls
      BY <3>0 DEF LoadSweep, TypeOK, Call
    <3>d. ClaimSweep(t) => SameCalls
      BY <3>0 DEF ClaimSweep, TypeOK, Call
    <3>e. LockFlows(t) => SameCalls
      BY DEF LockFlows, TypeOK
    <3>f. QueueWriter(t) => SameCalls
      BY DEF QueueWriter, TypeOK
    <3>1. SameCalls
      BY <2>3, <3>a, <3>b, <3>c, <3>d, <3>e, <3>f
    <3>2. \A p : InFlight(p)' = InFlight(p)
      BY <3>1 DEF InFlight, Protocol
    <3>3. UNCHANGED <<flows, evicted, counters>>
      BY <2>3 DEF Stamp, SetEpoch, LoadSweep, ClaimSweep, LockFlows, QueueWriter, history
    <3> QED
      BY <2>0, <3>2, <3>3, ConservationElsewhere
  <2>4. ASSUME NEW t \in Recorders, UpdateFlows(t) PROVE ConservationInv'
    <3>0. PICK c, q : c = call[t] /\ q = Protocol(c.tuple)
      OBVIOUS
    <3>1. /\ c \in Call /\ c.tuple \in Tuples /\ pc[t] = "update" /\ q \in Protocols
          /\ flows' = Updated(c) /\ DOMAIN flows' = Kept(c)
          /\ UNCHANGED counters
          /\ evicted' = [p \in Protocols |-> evicted[p] +
                            PacketsIn(flows, DOMAIN flows \ Kept(c), p)]
      BY <2>4, <3>0, ProtocolType, UpdatedFlows DEF UpdateFlows, TypeOK
    <3>2. IsFiniteSet(DOMAIN flows) /\ evicted \in [Protocols -> Int]
          /\ \A p \in Protocols : IsFiniteSet(InFlight(p))
      BY DEF ConservationInv, CountsFinite
    <3>3. /\ IsFiniteSet(Kept(c))
          /\ \A p : /\ PacketsIn(flows, DOMAIN flows, p) \in Int
                    /\ PacketsIn(flows, DOMAIN flows \ Kept(c), p) \in Int
                    /\ PacketsIn(flows', DOMAIN flows', p) +
                       PacketsIn(flows, DOMAIN flows \ Kept(c), p) =
                          PacketsIn(flows, DOMAIN flows, p) + (IF q = p THEN 1 ELSE 0)
      BY <3>0, <3>1, <3>2, UpdatedPackets
    <3>4. /\ InFlight(q)' = InFlight(q) \ {t} /\ t \in InFlight(q)
          /\ \A p : p # q => InFlight(p)' = InFlight(p)
      BY <2>4, <3>0, <3>1 DEF UpdateFlows, TypeOK, InFlight
    <3>5. IsFiniteSet(InFlight(q)') /\ Cardinality(InFlight(q)) = Cardinality(InFlight(q)') + 1
          /\ Cardinality(InFlight(q)') \in Nat
      BY <3>1, <3>2, <3>4, OneLess
    <3>6. \A p \in Protocols : IsFiniteSet(InFlight(p)')
      BY <3>2, <3>4, <3>5
    <3>7. CountsFinite'
      <4>1. \A p \in Protocols :
               evicted[p] + PacketsIn(flows, DOMAIN flows \ Kept(c), p) \in Int
        BY <3>2, <3>3
      <4>2. evicted' \in [Protocols -> Int]
        BY <3>1, <4>1
      <4>3. IsFiniteSet(DOMAIN flows')
        BY <3>1, <3>3
      <4> QED
        BY <3>6, <4>2, <4>3 DEF CountsFinite
    <3>8. ASSUME NEW p \in Protocols \ {"OUTR"}
          PROVE  counters'[p].packets =
                    PacketsIn(flows', DOMAIN flows', p) + evicted'[p] + Cardinality(InFlight(p)')
      <4>1. counters'[p].packets =
               PacketsIn(flows, DOMAIN flows, p) + evicted[p] + Cardinality(InFlight(p))
        BY <3>1 DEF ConservationInv, Conservation
      <4> DEFINE now == PacketsIn(flows', DOMAIN flows', p)
                 was == PacketsIn(flows, DOMAIN flows, p)
                 swept == PacketsIn(flows, DOMAIN flows \ Kept(c), p)
      <4>2. was \in Int /\ swept \in Int /\ evicted[p] \in Int
            /\ now + swept = was + (IF q = p THEN 1 ELSE 0)
            /\ evicted'[p] = evicted[p] + swept
        BY <3>1, <3>2, <3>3
      <4>3. now \in Int
        <5>1. \A x \in {y \in DOMAIN flows' : Protocol(y) = p} :
                 [y \in DOMAIN flows' |-> flows'[y].packet_count][x] \in Int
          BY <3>1, UpdatedType DEF Flow
        <5>2. IsFiniteSet({y \in DOMAIN flows' : Protocol(y) = p})
          BY <3>1, <3>3, FS_Subset
        <5> QED
          BY <5>1, <5>2, SumType DEF PacketsIn
      <4>4. Cardinality(InFlight(p)) \in Int
            /\ Cardinality(InFlight(p)) =
                  Cardinality(InFlight(p)') + (IF q = p THEN 1 ELSE 0)
        <5>1. CASE q = p
          BY <5>1, <3>5
        <5>2. CASE q # p
          <6>1. InFlight(p)' = InFlight(p) /\ Cardinality(InFlight(p)) \in Int
            BY <5>2, <3>2, <3>4, FS_CardinalityType
          <6> QED
            BY <6>1, <5>2
        <5> QED
          BY <5>1, <5>2
      <4>5. Cardinality(InFlight(p)') \in Int
        BY <3>6, FS_CardinalityType
      <4>6. counters'[p].packets = was + evicted[p] + Cardinality(InFlight(p))
        BY <4>1
      <4>7. SUFFICES counters'[p].packets = now + evicted'[p] + Cardinality(InFlight(p)')
        OBVIOUS
      <4> HIDE DEF now, was, swept
      <4> QED
        BY <4>2, <4>3, <4>4, <4>5, <4>6
    <3>9. Conservation'
      BY <3>8 DEF Conservation, PacketsIn
    <3> QED
      BY <3>7, <3>9 DEF ConservationInv
  <2>5. CASE Tick \/ UNCHANGED vars \/ \E r \in Readers : Render(r)
    <3>1. UNCHANGED <<flows, evicted, counters, pc, call>>
      BY <2>5 DEF Tick, vars, Render, LoadCounter, ReadFlows, SkipFlows, ShowFlows, history
    <3>2. \A p : InFlight(p)' = InFlight(p)
      BY <3>1 DEF InFlight, Protocol
    <3> QED
      BY <2>0, <3>1, <3>2, ConservationElsewhere
  <2> QED
    BY <2>1, <2>2, <2>3, <2>4, <2>5 DEF Next, Proceed
<1>3. ConservationInv => Conservation
  BY DEF ConservationInv
<1> QED
  BY <1>1, <1>2, <1>3, TypeCorrect, PTL DEF Spec
==============================================================================
