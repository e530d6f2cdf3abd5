----------------------------- MODULE FlowMetrics -----------------------------
(***************************************************************************)
(* One `TrafficMetrics` (src/src/watch.rs): the atomic per-protocol        *)
(* counters, the 5-tuple map behind its RwLock, the sweep of dead flows    *)
(* and the readers that display both.  Every atomic access, every lock     *)
(* operation and every reading of the clock by `record` is a step of its   *)
(* own, so capture threads (one per TrafficMetrics in the program, several *)
(* in the contention benchmark) and readers interleave between them.       *)
(* Time is counted in half seconds: the code compares whole seconds, and   *)
(* the truncation is part of what it does.                                 *)
(***************************************************************************)
EXTENDS Integers, Sequences, FiniteSets, Functions

CONSTANTS
    Recorders,          \* threads that call `record`
    Readers,            \* tasks that display the metrics
    BlockingReaders,    \* those that use `read` (merge_flows), not `try_read`
    Tuples,             \* 5-tuples of the frames
    ProtocolOf,         \* the protocol field of each tuple
    Lens,               \* frame lengths
    None,               \* no tuple (a non-IP frame), no epoch, no writer
    FLOW_MAX_ENTRIES,
    FLOW_IDLE_SECS,
    FLOW_SWEEP_INTERVAL_SECS,
    MaxClock,           \* bound: last tick of the clock
    MaxFrames           \* bound: frames captured in all

Protocols == {"TCP", "UDP", "ICMP", "OUTR"}
TicksPerSec == 2

ASSUME ConstantsAssumption ==
    /\ None \notin Int \cup Tuples \cup Recorders
    /\ BlockingReaders \subseteq Readers
    /\ ProtocolOf \in [Tuples -> Protocols]
    /\ Lens \subseteq Nat
    /\ FLOW_MAX_ENTRIES \in Nat
    /\ FLOW_IDLE_SECS \in Nat \ {0}
    /\ FLOW_SWEEP_INTERVAL_SECS \in Nat \ {0}

VARIABLES
    clock,      \* the monotonic clock, in ticks
    counters,   \* global_protocols
    flows,      \* the map: a function whose domain is the set of its keys
    last_sweep, \* last_sweep_secs
    epoch,      \* the OnceLock: None until the first packet
    writer,     \* the recorder that holds the write lock, or None
    holding,    \* the readers that hold a read guard
    pc,         \* where each recorder is
    call,       \* the locals of its call of `record`
    at,         \* next step of each reader: loads 1..8, lock 9, rows 10
    snap,       \* the ProtocolSnapshot each reader is filling in
    frames,     \* history: frames captured
    arrived,    \* history: tick of each tuple's newest frame
    evicted     \* history: per protocol, packets of the flows swept away

lockVars   == <<writer, holding>>
sweepVars  == <<last_sweep, epoch>>
readerVars == <<at, snap>>
history    == <<frames, arrived, evicted>>
vars == <<clock, counters, flows, last_sweep, epoch, writer, holding, pc,
          call, at, snap, frames, arrived, evicted>>

Protocol(tu) == IF tu \in Tuples THEN ProtocolOf[tu] ELSE "OUTR"

(* Instant::duration_since(..).as_secs(): saturates at zero and truncates. *)
Secs(later, earlier) ==
    IF later < earlier THEN 0 ELSE (later - earlier) \div TicksPerSec

Zeroes == [p \in Protocols |-> [bytes |-> 0, packets |-> 0]]
NoCall == [tuple |-> None, len |-> 0, now |-> 0, last |-> 0, due |-> FALSE]

(* The eight loads of `snapshot`, in program order. *)
LoadOrder == <<<<"TCP", "bytes">>, <<"TCP", "packets">>,
               <<"UDP", "bytes">>, <<"UDP", "packets">>,
               <<"ICMP", "bytes">>, <<"ICMP", "packets">>,
               <<"OUTR", "bytes">>, <<"OUTR", "packets">>>>

Init ==
    /\ clock = 0
    /\ counters = Zeroes
    /\ flows = [tu \in {} |-> 0]
    /\ last_sweep = 0
    /\ epoch = None
    /\ writer = None
    /\ holding = {}
    /\ pc = [t \in Recorders |-> "idle"]
    /\ call = [t \in Recorders |-> NoCall]
    /\ at = [r \in Readers |-> 1]
    /\ snap = [r \in Readers |-> Zeroes]
    /\ frames = 0
    /\ arrived = [tu \in Tuples |-> 0]
    /\ evicted = [p \in Protocols |-> 0]

------------------------------------------------------------------------------
(* Recorders: `process_frame` and `record`. *)

(* A frame is read and its bytes are counted; tu = None is a non-IP frame. *)
Frame(t, tu, len) ==
    /\ pc[t] = "idle"
    /\ frames < MaxFrames
    /\ counters' = [counters EXCEPT ![Protocol(tu)].bytes = @ + len]
    /\ call' = [call EXCEPT ![t] = [NoCall EXCEPT !.tuple = tu, !.len = len]]
    /\ pc' = [pc EXCEPT ![t] = "count"]
    /\ frames' = frames + 1
    /\ arrived' = [x \in Tuples |-> IF x = tu THEN clock ELSE arrived[x]]
    /\ UNCHANGED <<clock, flows, sweepVars, lockVars, readerVars, evicted>>

(* The packet is counted; a non-IP frame ends here. *)
CountPacket(t) ==
    /\ pc[t] = "count"
    /\ counters' = [counters EXCEPT ![Protocol(call[t].tuple)].packets = @ + 1]
    /\ IF call[t].tuple = None
         THEN pc' = [pc EXCEPT ![t] = "idle"] /\ call' = [call EXCEPT ![t] = NoCall]
         ELSE pc' = [pc EXCEPT ![t] = "stamp"] /\ UNCHANGED call
    /\ UNCHANGED <<clock, flows, sweepVars, lockVars, readerVars, history>>

(* let now = Instant::now() *)
Stamp(t) ==
    /\ pc[t] = "stamp"
    /\ call' = [call EXCEPT ![t].now = clock]
    /\ pc' = [pc EXCEPT ![t] = "epoch"]
    /\ UNCHANGED <<clock, counters, flows, sweepVars, lockVars, readerVars, history>>

(* epoch.get_or_init(|| now) *)
SetEpoch(t) ==
    /\ pc[t] = "epoch"
    /\ epoch' = IF epoch = None THEN call[t].now ELSE epoch
    /\ pc' = [pc EXCEPT ![t] = "load"]
    /\ UNCHANGED <<clock, counters, flows, last_sweep, lockVars, call, readerVars, history>>

(* Mutant: the interval is exceeded, not reached. *)
IntervalPassed(secs, last) == secs > last + FLOW_SWEEP_INTERVAL_SECS

(* The first conjunct of `due_for_sweep`. *)
IntervalOver(secs, last) == secs >= last + FLOW_SWEEP_INTERVAL_SECS

(* last_sweep_secs.load, and the comparison that may end `due_for_sweep`. *)
LoadSweep(t) ==
    /\ pc[t] = "load"
    /\ call' = [call EXCEPT ![t].last = last_sweep]
    /\ pc' = [pc EXCEPT ![t] =
                 IF IntervalOver(Secs(call[t].now, epoch), last_sweep)
                   THEN "cas" ELSE "lock"]
    /\ UNCHANGED <<clock, counters, flows, sweepVars, lockVars, readerVars, history>>

(* Mutant: a plain store in the place of compare_exchange. *)
AlwaysStores(t) == TRUE

(* Does compare_exchange find the value that was loaded? *)
Unclaimed(t) == last_sweep = call[t].last

(* compare_exchange: only the recorder that wins it sweeps. *)
ClaimSweep(t) ==
    /\ pc[t] = "cas"
    /\ last_sweep' = IF Unclaimed(t) THEN Secs(call[t].now, epoch) ELSE last_sweep
    /\ call' = [call EXCEPT ![t].due = Unclaimed(t)]
    /\ pc' = [pc EXCEPT ![t] = "lock"]
    /\ UNCHANGED <<clock, counters, flows, epoch, lockVars, readerVars, history>>

(* flows.write() gets the lock: no writer, no reader. *)
LockFlows(t) ==
    /\ pc[t] \in {"lock", "queued"}
    /\ writer = None
    /\ holding = {}
    /\ writer' = t
    /\ pc' = [pc EXCEPT ![t] = "update"]
    /\ UNCHANGED <<clock, counters, flows, sweepVars, holding, call, readerVars, history>>

(* flows.write() finds it taken and queues: std's RwLock then admits no new *)
(* reader until the writer has had its turn.                                *)
QueueWriter(t) ==
    /\ pc[t] = "lock"
    /\ writer # None \/ holding # {}
    /\ pc' = [pc EXCEPT ![t] = "queued"]
    /\ UNCHANGED <<clock, counters, flows, sweepVars, lockVars, call, readerVars, history>>

Entry(tu) ==
    IF tu \in DOMAIN flows THEN flows[tu]
    ELSE [packet_count |-> 0, byte_count |-> 0, last_seen |-> None]

(* Mutants: the stamp is forgotten; the entry is replaced by a new one. *)

Unstamped(c) ==
    [packet_count |-> Entry(c.tuple).packet_count + 1,
     byte_count   |-> Entry(c.tuple).byte_count + c.len,
     last_seen    |-> Entry(c.tuple).last_seen]

Replaced(c) == [packet_count |-> 1, byte_count |-> c.len, last_seen |-> c.now]

(* entry(tuple).or_default() and the three assignments to it. *)
Counted(c) ==
    [packet_count |-> Entry(c.tuple).packet_count + 1,
     byte_count   |-> Entry(c.tuple).byte_count + c.len,
     last_seen    |-> c.now]

Touched(c) ==
    [tu \in DOMAIN flows \cup {c.tuple} |->
        IF tu = c.tuple THEN Counted(c) ELSE flows[tu]]

(* Mutant: the idle time is rounded up to whole seconds. *)
IsStaleRoundedUp(flow, now) ==
    (now - flow.last_seen + TicksPerSec - 1) \div TicksPerSec >= FLOW_IDLE_SECS

IsStale(flow, now) == Secs(now, flow.last_seen) >= FLOW_IDLE_SECS

(* Mutant: no backstop by size. *)
SweepByTimeOnly(c) == c.due

SweepNow(c) == c.due \/ Cardinality(DOMAIN Touched(c)) > FLOW_MAX_ENTRIES

(* Mutant: a sweep clears the map but for the flow just counted. *)
KeptClearing(c) == {tu \in DOMAIN Touched(c) : SweepNow(c) => tu = c.tuple}

(* The keys left when `record` is done with the map. *)
Kept(c) ==
    {tu \in DOMAIN Touched(c) : SweepNow(c) => ~IsStale(Touched(c)[tu], c.now)}

Updated(c) == [tu \in Kept(c) |-> Touched(c)[tu]]

(* The packets of protocol p in the flows S of a map. *)
PacketsIn(map, S, p) ==
    SumFunctionOnSet([tu \in S |-> map[tu].packet_count],
                     {tu \in S : Protocol(tu) = p})

(* Under the write lock: count the packet in its flow, sweep, unlock. *)
UpdateFlows(t) ==
    /\ pc[t] = "update"
    /\ flows' = Updated(call[t])
    /\ evicted' = [p \in Protocols |-> evicted[p] +
                      PacketsIn(flows, DOMAIN flows \ Kept(call[t]), p)]
    /\ writer' = None
    /\ pc' = [pc EXCEPT ![t] = "idle"]
    /\ call' = [call EXCEPT ![t] = NoCall]
    /\ UNCHANGED <<clock, counters, sweepVars, holding, readerVars, frames, arrived>>

------------------------------------------------------------------------------
(* Readers: the watch panel (`try_read`) and the watch command (`read`). *)

(* One Relaxed load of `snapshot`. *)
LoadCounter(r) ==
    /\ at[r] <= Len(LoadOrder)
    /\ LET p == LoadOrder[at[r]][1]
           f == LoadOrder[at[r]][2]
       IN  snap' = [snap EXCEPT ![r][p][f] = counters[p][f]]
    /\ at' = [at EXCEPT ![r] = @ + 1]
    /\ UNCHANGED <<clock, counters, flows, sweepVars, lockVars, pc, call, history>>

LockBusy == writer # None \/ \E t \in Recorders : pc[t] = "queued"

(* A read guard is granted: to `read` and `try_read` alike. *)
ReadFlows(r) ==
    /\ at[r] = 9
    /\ ~LockBusy
    /\ holding' = holding \cup {r}
    /\ at' = [at EXCEPT ![r] = 10]
    /\ UNCHANGED <<clock, counters, flows, sweepVars, writer, pc, call, snap, history>>

(* Mutant: the panel uses `read`. *)
NeverBlocked(r) == FALSE

(* try_read answers WouldBlock where `read` would wait. *)
WouldBlock(r) == r \notin BlockingReaders /\ LockBusy

(* The panel is drawn without rows this time. *)
SkipFlows(r) ==
    /\ at[r] = 9
    /\ WouldBlock(r)
    /\ at' = [at EXCEPT ![r] = 1]
    /\ snap' = [snap EXCEPT ![r] = Zeroes]
    /\ UNCHANGED <<clock, counters, flows, sweepVars, lockVars, pc, call, history>>

(* The read guards that are left when reader r has built its rows. *)
Released(r) == holding \ {r}

(* The rows are built, the guard is dropped and the snapshot displayed. *)
ShowFlows(r) ==
    /\ at[r] = 10
    /\ holding' = Released(r)
    /\ at' = [at EXCEPT ![r] = 1]
    /\ snap' = [snap EXCEPT ![r] = Zeroes]
    /\ UNCHANGED <<clock, counters, flows, sweepVars, writer, pc, call, history>>

------------------------------------------------------------------------------
Tick ==
    /\ clock < MaxClock
    /\ clock' = clock + 1
    /\ UNCHANGED <<counters, flows, sweepVars, lockVars, pc, call, readerVars, history>>

(* The steps of a call of `record` that never wait. *)
Proceed(t) ==
    \/ CountPacket(t) \/ Stamp(t) \/ SetEpoch(t)
    \/ LoadSweep(t) \/ ClaimSweep(t) \/ QueueWriter(t) \/ UpdateFlows(t)

Render(r) == LoadCounter(r) \/ ReadFlows(r) \/ SkipFlows(r) \/ ShowFlows(r)

Next ==
    \/ \E t \in Recorders, tu \in Tuples \cup {None}, len \in Lens : Frame(t, tu, len)
    \/ \E t \in Recorders : Proceed(t) \/ LockFlows(t)
    \/ \E r \in Readers : Render(r)
    \/ Tick

Spec == Init /\ [][Next]_vars

(* The readers are scheduled; nothing is asked of the recorders. *)
RenderSpec == Spec /\ \A r \in Readers : WF_vars(Render(r))

(* The recorders are scheduled too. *)
RecordersScheduled == \A t \in Recorders : WF_vars(Proceed(t) \/ LockFlows(t))

------------------------------------------------------------------------------
(* Properties. *)

Flow == [packet_count : Nat, byte_count : Nat, last_seen : Int]
Call == [tuple : Tuples \cup {None}, len : Nat, now : Nat, last : Nat, due : BOOLEAN]

(* Every variable has its type.  In particular every flow in the map has a  *)
(* stamp: `is_stale` never removes one without (`is_some_and`), so such a   *)
(* flow would stay forever.  And every recorder past the OnceLock sees an   *)
(* epoch.                                                                   *)
TypeOK ==
    /\ clock \in Nat
    /\ counters \in [Protocols -> [bytes : Nat, packets : Nat]]
    /\ DOMAIN flows \subseteq Tuples
    /\ flows \in [DOMAIN flows -> Flow]
    /\ last_sweep \in Nat
    /\ epoch \in Nat \cup {None}
    /\ writer \in Recorders \cup {None}
    /\ holding \subseteq Readers
    /\ pc \in [Recorders -> {"idle", "count", "stamp", "epoch", "load", "cas",
                             "lock", "queued", "update"}]
    /\ call \in [Recorders -> Call]
    /\ at \in [Readers -> 1..10]
    /\ snap \in [Readers -> [Protocols -> [bytes : Nat, packets : Nat]]]
    /\ frames \in Nat
    /\ arrived \in [Tuples -> Nat]
    /\ DOMAIN evicted = Protocols
    /\ \A t \in Recorders :
         /\ pc[t] \in {"load", "cas", "lock", "queued", "update"} => epoch # None
         /\ pc[t] \in {"stamp", "epoch", "load", "cas", "lock", "queued", "update"}
               => call[t].tuple \in Tuples
         /\ pc[t] # "idle" => call[t].len \in Lens

(* Two periodic sweeps are never claimed less than the interval apart, on  *)
(* the scale of whole seconds since the epoch, however many threads find   *)
(* the sweep due at once (`due_for_sweep`, and README "no máximo 1x/min"). *)
SweepsApart ==
    [][last_sweep' # last_sweep =>
          last_sweep' >= last_sweep + FLOW_SWEEP_INTERVAL_SECS]_vars

OneRecorder == \E t \in Recorders : Recorders = {t}

(* With the one capture thread the program starts per map, a flow that a   *)
(* sweep removes had no frame on the wire for FLOW_IDLE_SECS: neither the  *)
(* truncation to seconds nor the backstop by size evicts a live flow.      *)
ActiveKept ==
    [][OneRecorder =>
          \A tu \in DOMAIN flows \ DOMAIN flows' :
             clock - arrived[tu] >= TicksPerSec * FLOW_IDLE_SECS]_vars

(* What the sweep schedule really guarantees to the map of one capture     *)
(* thread: no flow is kept for more than idle + interval behind the newest *)
(* one, with no slack for the two truncations of instants to seconds.      *)
SpreadBounded ==
    OneRecorder =>
       \A tu, newer \in DOMAIN flows :
          flows[newer].last_seen - flows[tu].last_seen
             < TicksPerSec * (FLOW_IDLE_SECS + FLOW_SWEEP_INTERVAL_SECS)

(* What the backstop by size guarantees: a map above FLOW_MAX_ENTRIES holds *)
(* only flows that were all active within one idle period.                  *)
OverfullIsFresh ==
    OneRecorder /\ Cardinality(DOMAIN flows) > FLOW_MAX_ENTRIES =>
       \A tu, newer \in DOMAIN flows :
          flows[newer].last_seen - flows[tu].last_seen < TicksPerSec * FLOW_IDLE_SECS

(* The recorders that have counted a packet of protocol p but not its flow. *)
InFlight(p) ==
    {t \in Recorders :
       /\ pc[t] \in {"stamp", "epoch", "load", "cas", "lock", "queued", "update"}
       /\ Protocol(call[t].tuple) = p}

(* The global counters and the map agree: the packets of a transport are   *)
(* those of its flows, those of the flows swept away, and those counted by *)
(* a `record` that has not reached the map yet.  No interleaving of        *)
(* recorders loses or doubles a packet.                                    *)
Conservation ==
    \A p \in Protocols \ {"OUTR"} :
       counters[p].packets =
          PacketsIn(flows, DOMAIN flows, p) + evicted[p] + Cardinality(InFlight(p))

Stamped(t) == pc[t] \in {"epoch", "load", "cas", "lock", "queued", "update"}
Decided(t) == pc[t] \in {"lock", "queued", "update"}

(* The bound in seconds since the epoch, as an instant. *)
At(secs) == epoch + TicksPerSec * secs

(* Why SpreadBounded and its companions hold with one recorder t.  The     *)
(* last sweep is not in the future; the stamps of the map are ordered with *)
(* the frames' arrivals, the clock and the stamp t is about to write; a    *)
(* claim is a claim of the second t is in; and unless a claimed sweep is   *)
(* still to be done, every stamp in the map lies between the idle time     *)
(* before the last sweep and the interval after it.                        *)
SweepInPast ==
    /\ epoch = None => last_sweep = 0 /\ flows = [tu \in {} |-> 0]
    /\ epoch # None => At(last_sweep) <= clock

StampsOrdered(t) ==
    /\ \A tu \in DOMAIN flows :
          /\ epoch <= flows[tu].last_seen
          /\ flows[tu].last_seen <= clock
          /\ pc[t] = "idle" \/ tu # call[t].tuple =>
                arrived[tu] <= flows[tu].last_seen
    /\ \A tu \in Tuples : arrived[tu] <= clock

NowIsNewest(t) ==
    Stamped(t) =>
       /\ call[t].now <= clock
       /\ arrived[call[t].tuple] <= call[t].now
       /\ epoch # None => At(last_sweep) <= call[t].now
       /\ \A tu \in DOMAIN flows : flows[tu].last_seen <= call[t].now

ClaimIsCurrent(t) ==
    /\ pc[t] = "cas" =>
          /\ call[t].last = last_sweep
          /\ IntervalOver(Secs(call[t].now, epoch), last_sweep)
    /\ ~Decided(t) => ~call[t].due
    /\ Decided(t) =>
          call[t].now < At(last_sweep +
                           (IF call[t].due THEN 1 ELSE FLOW_SWEEP_INTERVAL_SECS))

WindowHeld(t) ==
    ~call[t].due =>
       \A tu \in DOMAIN flows :
          /\ flows[tu].last_seen > At(last_sweep - FLOW_IDLE_SECS)
          /\ flows[tu].last_seen < At(last_sweep + FLOW_SWEEP_INTERVAL_SECS)

ScheduleOf(t) ==
    /\ SweepInPast
    /\ StampsOrdered(t)
    /\ NowIsNewest(t)
    /\ ClaimIsCurrent(t)
    /\ WindowHeld(t)

Schedule ==
    \A t \in Recorders : Recorders = {t} =>
       ScheduleOf(t) /\ SpreadBounded /\ OverfullIsFresh

Table == INSTANCE FlowTable WITH table <- flows

(* The map with its lock, schedule and threads does what FlowTable says.  *)
TableSpec == Table!Spec

(* Drawing the watch panel always ends, whatever the capture thread does   *)
(* and even if it stops inside the map: the panel uses try_read "para      *)
(* nunca travar" (watch.rs:117, ui.rs:168).                                *)
RenderCompletes ==
    \A r \in Readers \ BlockingReaders : at[r] # 1 ~> at[r] = 1

(* A capture thread that is scheduled and has taken a frame always finishes *)
(* recording it: readers cannot keep it out of the map for ever.            *)
RecordCompletes ==
    RecordersScheduled => \A t \in Recorders : pc[t] # "idle" ~> pc[t] = "idle"

(* Readers and the capture thread never keep one another waiting for ever.  *)
NobodyWaits == RenderCompletes /\ RecordCompletes

(* README.md:47: dead flows are swept by time, at most once per interval,  *)
(* and a flow without traffic for the idle time is removed.  Two whole     *)
(* intervals of grace after the idle time are given here.                  *)
DeadFlowsSwept ==
    (\A t \in Recorders : pc[t] = "idle") =>
       \A tu \in DOMAIN flows :
          clock - arrived[tu] <=
             TicksPerSec * (FLOW_IDLE_SECS + 2 * FLOW_SWEEP_INTERVAL_SECS)
==============================================================================
