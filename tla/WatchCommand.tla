----------------------------- MODULE WatchCommand -----------------------------
(***************************************************************************)
(* `pingenty watch` (src/src/main.rs, src/src/watch.rs): each interface of  *)
(* the specification is tried in turn, each that opens gets a capture       *)
(* thread with metrics of its own, and a timer prints the sum of all        *)
(* metrics until Ctrl-C.  The dashboard's setup_capture makes one attempt   *)
(* in the same way.  Here a frame is recorded in one step, and the metrics  *)
(* of one interface are read in one; FlowMetrics has the steps of both.     *)
(***************************************************************************)
EXTENDS FrameParse, Interfaces

CONSTANTS
    Tables,         \* the interface tables to start from
    Specs,          \* what --interface may be
    Frames,         \* the frames that may be captured
    Cuts,           \* the lengths, from 14 on, at which TagsInvisible cuts them
    MaxFrames       \* bound: frames in all

Protos == {"TCP", "UDP", "ICMP", "OUTRO"}

(* An interface has a name; a frame has the type field of its Ethernet      *)
(* header; what is cut off at 13 octets or fewer is no frame.               *)
Interface == [name : STRING \ {""}, up : BOOLEAN, loopback : BOOLEAN, addressed : BOOLEAN,
              linkLocal : BOOLEAN]
Frame == [octets : Nat, types : Seq(STRING) \ {<<>>}, next : STRING, carried : Nat]

ASSUME WatchAssumption ==
    /\ None \notin STRING
    /\ \A t \in Tables : t \in Seq(Interface)
    /\ \A spec \in Specs : spec = None \/ spec \in Seq(STRING)
    /\ \A f \in Frames : f \in Frame
    /\ \A n \in Cuts : n \in Nat /\ n >= 14
    /\ MaxFrames \in Nat

VARIABLES
    table,          \* the machine's interfaces
    attempts,       \* the names to be tried
    outcome,        \* what became of each one tried so far
    watchers,       \* the capture threads: [iface, alive, counters, flows]
    status,         \* the dashboard's CaptureStatus, or None in `watch`
    watch,          \* where the main task is
    reading,        \* the sum being taken: [at, sum, flows]
    printed,        \* the last one printed
    atTick,         \* history: the true sum, and captured.n, as the reading began
    captured        \* frames so far, and the last one

watchVars == <<table, attempts, outcome, watchers, status, watch, reading, printed,
               atTick, captured>>

Zero == [p \in Protos |-> 0]
NoFlows == [x \in {} |-> 0]
NoReading == [at |-> 1, sum |-> Zero, flows |-> NoFlows]
NoStatus == [interface |-> None, warning |-> FALSE]

(* The dashboard's --interface is one name, with the commas that are in it. *)
OneName(spec) == IF spec = None THEN None
                 ELSE IF Len(spec) = 1 THEN spec[1] ELSE "several"

WatchInit ==
    /\ table \in Tables
    /\ \/ status = None /\ \E spec \in Specs : attempts = Attempts(spec)
       \/ /\ status = NoStatus
          /\ \E spec \in Specs : attempts = <<OneName(spec)>>
    /\ outcome = <<>> /\ watchers = <<>>
    /\ watch = "open"
    /\ reading = NoReading /\ printed = NoReading
    /\ atTick = [sum |-> Zero, n |-> 0]
    /\ captured = [n |-> 0, frame |-> None]

------------------------------------------------------------------------------
(* Starting. *)

NewWatcher(i) == [iface |-> i, alive |-> TRUE, counters |-> Zero, flows |-> NoFlows]

(* Mutant: the first error ends the start. *)
PendingUntilError ==
    Len(outcome) < Len(attempts) /\ \A k \in DOMAIN outcome : outcome[k] = "capturing"

Pending == Len(outcome) < Len(attempts)
Choice == Chosen(table, attempts[Len(outcome) + 1])

Concluded(result) ==
    /\ outcome' = Append(outcome, result)
    /\ UNCHANGED <<table, attempts, watch, reading, printed, atTick, captured>>

Disabled == IF status = None THEN None ELSE [interface |-> None, warning |-> TRUE]

(* PacketWatcher::new finds no such interface. *)
NotFound ==
    /\ watch = "open" /\ Pending
    /\ Choice = 0
    /\ status' = Disabled
    /\ Concluded("missing") /\ UNCHANGED watchers

(* start_capture_thread: no permission, or no Ethernet. *)
NotOpened ==
    /\ watch = "open" /\ Pending
    /\ Choice # 0
    /\ status' = Disabled
    /\ Concluded("refused") /\ UNCHANGED watchers

Opened ==
    /\ watch = "open" /\ Pending
    /\ Choice # 0
    /\ watchers' = Append(watchers, NewWatcher(Choice))
    /\ status' = IF status = None THEN None
                 ELSE [interface |-> table[Choice].name,
                       warning |-> FALSE]
    /\ Concluded("capturing")

(* `watch` gives up when nothing opened; the dashboard never does.          *)
Started ==
    /\ watch = "open" /\ ~Pending
    /\ watch' = IF status # None THEN "dashboard"
                ELSE IF watchers = <<>> THEN "failed" ELSE "select"
    /\ UNCHANGED <<table, attempts, outcome, watchers, status, reading, printed, atTick,
                   captured>>

------------------------------------------------------------------------------
(* The capture threads. *)

Plus(f, g) == [x \in DOMAIN f \cup DOMAIN g |->
                  (IF x \in DOMAIN f THEN f[x] ELSE 0) + (IF x \in DOMAIN g THEN g[x] ELSE 0)]

Added(f, k) == Plus(f, [x \in {k} |-> 1])

HasFlow(class) == class.flow

Recorded(w, class) ==
    IF class = Nothing THEN w
    ELSE [w EXCEPT !.counters[class.proto] = @ + 1,
                   !.flows = IF HasFlow(class) THEN Added(@, class) ELSE @]

(* rx.next() is a frame; a read that times out changes nothing. *)
Capture(k) ==
    /\ watchers[k].alive
    /\ captured.n < MaxFrames
    /\ \E f \in Frames :
          /\ watchers' = [watchers EXCEPT ![k] = Recorded(@, process_frame(f))]
          /\ captured' = [n |-> captured.n + 1, frame |-> f]
    /\ UNCHANGED <<table, attempts, outcome, status, watch, reading, printed, atTick>>

(* rx.next() is an error: the thread ends, and nobody is told. *)
CaptureBreaks(k) ==
    /\ watchers[k].alive
    /\ watchers' = [watchers EXCEPT ![k].alive = FALSE]
    /\ UNCHANGED <<table, attempts, outcome, status, watch, reading, printed, atTick,
                   captured>>

------------------------------------------------------------------------------
(* The main task: select! between the timer and Ctrl-C. *)

TrueSum == [p \in Protos |-> SumFunction([k \in DOMAIN watchers |-> watchers[k].counters[p]])]

FreshReading == NoReading

TimerTick ==
    /\ watch = "select"
    /\ watch' = "sum"
    /\ reading' = FreshReading
    /\ atTick' = [sum |-> TrueSum, n |-> captured.n]
    /\ UNCHANGED <<table, attempts, outcome, watchers, status, printed, captured>>

Merged(f, g) == Plus(f, g)

(* Mutant: an interface whose thread has ended is left out. *)
LiveCounters(w) == IF w.alive THEN w.counters ELSE Zero

Counters(w) == w.counters

(* sum_snapshots, one interface's snapshot after the other. *)
SumNext ==
    /\ watch = "sum"
    /\ IF reading.at \in DOMAIN watchers
         THEN /\ reading' = [reading EXCEPT !.at = @ + 1,
                                !.sum = Plus(@, Counters(watchers[reading.at]))]
              /\ UNCHANGED watch
         ELSE watch' = "merge" /\ reading' = [reading EXCEPT !.at = 1]
    /\ UNCHANGED <<table, attempts, outcome, watchers, status, printed, atTick, captured>>

(* merge_flows, one interface's map after the other, and the report.        *)
MergeNext ==
    /\ watch = "merge"
    /\ IF reading.at \in DOMAIN watchers
         THEN /\ reading' = [reading EXCEPT !.at = @ + 1,
                                !.flows = Merged(@, watchers[reading.at].flows)]
              /\ UNCHANGED <<watch, printed>>
         ELSE watch' = "select" /\ printed' = reading /\ UNCHANGED reading
    /\ UNCHANGED <<table, attempts, outcome, watchers, status, atTick, captured>>

(* Heard only while select! waits: a press during the report is lost.       *)
CtrlC ==
    /\ watch = "select"
    /\ watch' = "ended"
    /\ UNCHANGED <<table, attempts, outcome, watchers, status, reading, printed, atTick,
                   captured>>

WatchNext ==
    \/ NotFound \/ NotOpened \/ Opened \/ Started
    \/ \E k \in DOMAIN watchers : Capture(k) \/ CaptureBreaks(k)
    \/ TimerTick \/ SumNext \/ MergeNext \/ CtrlC

WatchSpec == WatchInit /\ [][WatchNext]_watchVars

------------------------------------------------------------------------------
(* Properties. *)

Flows == [proto : Protos, flow : {TRUE}, ports : BOOLEAN]

(* Every variable keeps its type, and every flow is of an IP packet. *)
WatchTypeOK ==
    /\ outcome \in Seq({"missing", "refused", "capturing"})
    /\ Len(outcome) <= Len(attempts)
    /\ \A k \in DOMAIN watchers :
          /\ watchers[k].iface \in DOMAIN table
          /\ watchers[k].counters \in [Protos -> Nat]
          /\ DOMAIN watchers[k].flows \subseteq Flows
    /\ watch \in {"open", "failed", "dashboard", "select", "sum", "merge", "ended"}
    /\ reading.at \in 1..(Len(watchers) + 1)

(* The attempts that opened, and the place of each among them.              *)
Capturing == {k \in DOMAIN outcome : outcome[k] = "capturing"}
Place(k) == Cardinality({q \in Capturing : q <= k})

(* main.rs:111: "erro numa não aborta as outras": once started, every name  *)
(* has been tried, exactly those that name no interface are missing, each   *)
(* one that opened has its thread, on its own interface and in order, and   *)
(* the command gave up only when none did.                                  *)
OneFailureIsAlone ==
    watch # "open" =>
        /\ Len(outcome) = Len(attempts)
        /\ \A k \in DOMAIN outcome :
              outcome[k] = "missing" <=> Chosen(table, attempts[k]) = 0
        /\ Len(watchers) = Cardinality(Capturing)
        /\ \A k \in Capturing : watchers[Place(k)].iface = Chosen(table, attempts[k])
        /\ watch = "failed" <=> (status = None /\ watchers = <<>>)

(* The dashboard starts with a capture and its interface in the header, or  *)
(* without and a warning, never with both or neither (watch.rs:279).        *)
StatusTellsStart ==
    watch = "dashboard" =>
        /\ status.warning <=> watchers = <<>>
        /\ IF watchers = <<>> THEN status.interface = None
                              ELSE status.interface = table[watchers[1].iface].name

(* Each attempt stands alone, and what is shown of the start is how it went.*)
StartsApart == OneFailureIsAlone /\ StatusTellsStart

(* The interfaces are read one after the other while they go on counting:   *)
(* the sum may be of no one moment, but it lies between the true sums at    *)
(* the tick and now.                                                        *)
SumBetween ==
    watch = "merge" => \A p \in Protos :
                          atTick.sum[p] <= reading.sum[p] /\ reading.sum[p] <= TrueSum[p]

(* When nothing was captured meanwhile, the report is exact, and a flow     *)
(* that several interfaces saw is one line with the packets of all.         *)
QuietReportIsExact ==
    /\ watch = "merge" /\ reading.at > Len(watchers)
    /\ captured.n = atTick.n
    => /\ reading.sum = TrueSum
       /\ DOMAIN reading.flows = UNION {DOMAIN watchers[k].flows : k \in DOMAIN watchers}
       /\ \A x \in DOMAIN reading.flows :
             LET seen == {k \in DOMAIN watchers : x \in DOMAIN watchers[k].flows}
             IN  reading.flows[x] =
                    SumFunction([k \in seen |-> watchers[k].flows[x]])

(* The report is of the time of its reading, and so never goes back, even   *)
(* when a capture thread has ended.                                         *)
ReportTrue == SumBetween /\ QuietReportIsExact

(* A frame counts the same, and in the same flow, behind one or two VLAN    *)
(* tags of either kind, wherever the capture cut it (watch.rs:234).         *)
TagsInvisible ==
    captured.n > 0 /\ captured.frame.types[1] \notin VlanTypes =>
        \A n \in {n \in Cuts : n <= captured.frame.octets}, t1, t2 \in VlanTypes :
            LET f == CutTo(n, captured.frame)
            IN  /\ process_frame(Behind(t1, f)) = process_frame(f)
                /\ process_frame(Behind(t1, Behind(t2, f))) = process_frame(f)

(* README.md:31, of the TCP fallback: it connects by the interface that the *)
(* zone names or to the address as it is; without a zone, by one that has a *)
(* link-local address and is not the loopback; and no other address is      *)
(* touched.  The echo request goes by no zone, whatever was asked for:      *)
(* ping.rs:230 drops the scope of which ping.rs:223 says "isso vale para o  *)
(* ICMP e para o fallback TCP".                                             *)
ZoneRespected ==
    \A zone \in {table[i].name : i \in DOMAIN table} \cup {"gone", None},
       linkLocal \in BOOLEAN, scope \in 0..1 :
        LET target == IF zone = None THEN <<"fe80::1">> ELSE <<"fe80::1", zone>>
            addr   == [v6 |-> TRUE, linkLocal |-> linkLocal, scope |-> scope]
            to     == Destinations(table, target, addr)
        IN  /\ to.tcp # addr =>
                  /\ linkLocal /\ scope = 0
                  /\ IF zone = None
                        THEN table[to.tcp.scope].linkLocal /\ ~table[to.tcp.scope].loopback
                        ELSE table[to.tcp.scope].name = zone
            /\ to.icmp = [addr EXCEPT !.scope = 0]
==============================================================================
