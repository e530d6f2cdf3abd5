# A TLA+ development for pingenty

pingenty is a network monitor in one binary: continuous ping (ICMP with a TCP
fallback), continuous DNS lookups, passive traffic capture, and a terminal
dashboard that shows the three at once, raises alerts and appends every result
to log files. This directory models it in TLA+, checks the models with TLC and
proves theorems about them with TLAPS. Paths such as `src/src/watch.rs` are
relative to the directory that holds `src/` and `tla/`.

## The system

| component | source | state it keeps | operations | what makes it hard |
|---|---|---|---|---|
| traffic metrics | `watch.rs` | eight atomic counters, a flow map under an `RwLock`, `last_sweep_secs`, a `OnceLock` epoch | `record`, `due_for_sweep`, `is_stale`, `snapshot`, `sum_snapshots`, `merge_flows` | one thread writes while others read without a lock; a lock-free claim of the sweep; two clocks' worth of truncation |
| capture | `watch.rs` | capture thread, `CaptureStatus` | `PacketWatcher::new`, `start_capture_thread`, `setup_capture`, `process_frame`, `strip_vlan_tags`, `process_l4` | the thread can end while its status says active |
| ICMP probe | `ping.rs` | the global 16-bit `SEQ`, one socket per probe | `ping_once`, `try_icmp_ping`, `tcp_fallback`, `run_continuous`, the reply validators, the checksum | replies that are late, duplicated, reordered or for someone else; the sequence number wraps; the read timeout restarts |
| ping statistics | `ping.rs` | `PingStats` | `record`, `loss_rate`, `avg_rtt` | counters and sums at their limits |
| DNS engine | `dns.rs` | resolver, timeout | `resolve`, `run_continuous` | an outer timeout around two attempts; ending when the receiver is gone |
| dashboard state | `tui/app.rs` | one `PingHistory` per host, the last 20 DNS results, thresholds | `on_ping_sample`, `on_dns_result` | an edge-triggered alert over a sliding window and a cumulative rate |
| dashboard wiring | `main.rs`, `tui/mod.rs` | unbounded channels, the exporter's mutex, the relay task | the ping callback, the relay, the drain loop, quitting | samples in flight between tasks; shutdown by closed channels |
| rendering | `tui/ui.rs` | none | `render` and the panels | it must never wait for the capture thread |
| export and history | `export.rs` | three append-only files, one rotated | `Exporter::new`, `enable_history`, `ping`, `dns`, `convert_history` | several processes on one history file; a crash in mid-line; rotation between a check and a rename |
| command line | `cli.rs`, `main.rs` | each command's loop and what it has queued | argument parsing and the five commands | Ctrl-C at any moment; a process that ends with blocking calls under way |

How they interact: `watch` and `dashboard` start one capture thread per
`TrafficMetrics`; the thread calls `record`, the watch command's timer reads
with `merge_flows` (a blocking `read`), the dashboard's panel with `try_read`.
The dashboard spawns one `run_continuous` task per host. Each sample goes, in
the task's synchronous callback, first to the shared `Exporter` (under a
`Mutex`) and then into an unbounded channel that the TUI loop drains every
250 ms into `AppState`. DNS results go through a relay task that exports them
and passes them on.

The behaviours worth a model are the interleaving of `record` with readers and
with other recorders, the timing of sweeps, the life of a reply on the wire
against the life of the probe that waits for it, the alert's edges, the path
of a sample through callback, channel and drain, and the history file shared
by processes that start and die at any time. `PROJECT.json` lists the hazards
line by line.

## The plan

Modules in the order in which they matter; `X` has its runs in `MCX` and its
theorems in `XProofs`.

| module | models | state |
|---|---|---|
| `FlowTable` | what the flow map promises | done |
| `FlowMetrics` | the traffic metrics; implements `FlowTable` | done, proved |
| `IcmpProbe` | the probe, its socket, the wire and the shared `SEQ` | done, proved |
| `PingStats` | the statistics of a ping task, as operators | done, proved |
| `AppState` | windows, alerts and DNS results of the dashboard; extends `PingStats` | done, proved |
| `DashboardPipeline` | tasks, exporter, channels, relay, drain, quitting; extends `AppState` and uses its actions whole | done, proved |
| `HistoryLog` | several dashboards on one history file, rotation, deaths, failed calls | done, proved |
| `FrameParse` | VLAN tags, the dispatch of a frame | done, proved |
| `Interfaces` | which interface is captured, which one scopes an address | done, proved |
| `WatchCommand` | `watch` on several interfaces, `setup_capture`; extends the two above | done, proved |
| `DnsLookup` | `dns`: two attempts under the outer timeout, the classification of the outcome | done, proved |
| `Shutdown` | the terminal, the worker threads and the end of the process | done, proved |
| `HistoryCodec` | `esc`, `raw_field`, `unesc`, `convert_history` and the rows and lines they read | done, proved for one line |
| `LiveExport` | the CSV and the NDJSON of several dashboards, and `export`; extends `HistoryCodec` | done, the header proved |
| `IcmpCodec` | the octets of requests and replies, the checksum, the validators | done, proved |
| `Panels` | what the dashboard draws of `AppState`; extends it | done, proved |

`MCCommands` holds `WatchCommand`, `DnsLookup`, `Shutdown` and `LiveExport`,
which share nothing: `command` says which of them runs, and the others rest.
`IcmpCodec` is checked in the states of `IcmpProbe` (`MCIcmpProbe`), and `Panels`
in those of `AppState` (`MCAppState`). `MCDashboardState` has `AppState` and
`HistoryLog` side by side in the same way: `part` says which of the two runs.

`FiniteSums` has the lemmas on sums over finite sets that the proofs use; it
models nothing. `CommandsProofs` has the theorems of the four
machines of `MCCommands`, and `AppStateProofs` those of `AppState`, `PingStats`
and `Panels`.

Theorem worth proving next: that the conversion of a whole file is that of its
lines, which with `LinesConvert` gives `ExportFaithful` while no line was torn.

## Traffic metrics: `FlowMetrics`

State. `counters` is `global_protocols`; `flows` the map, a function whose
domain is the set of keys; `last_sweep` and `epoch` the two words of the sweep
schedule; `writer` and `holding` the `RwLock`; `pc` and `call` each recorder's
place in `record` and its locals; `at` and `snap` each reader's place among the
eight loads and the snapshot it is building. `clock` counts half seconds
(`TicksPerSec` = 2), so that `as_secs` truncates in the model as it does in the
code. `frames`, `arrived` and `evicted` are history variables.

Steps. Each atomic operation of `record` is a step: `Frame` adds the bytes (for
a non-IP frame too, `process_frame`), `CountPacket` the packet, `Stamp` reads
the clock, `SetEpoch` is `get_or_init`, `LoadSweep` the load and the first
comparison, `ClaimSweep` the `compare_exchange`, `LockFlows`/`QueueWriter` the
lock, `UpdateFlows` the critical section with the sweep and the unlock. A
reader makes the eight loads of `snapshot` in program order, then takes the
read lock (`ReadFlows`), or, with `try_read`, draws no rows when it is busy
(`SkipFlows`), and releases it (`ShowFlows`). The rows themselves are not kept.
Lock poisoning is left out: no code panics while it holds the lock.

`FlowTable` is what the map promises: each step counts one packet for one
tuple, leaves other flows alone, and forgets only flows idle for
`FLOW_IDLE_SECS` at that packet's stamp.

## The probe: `IcmpProbe`

State. `seq` is the static `SEQ` and `issued` counts the numbers it has given
out, which names a probe where its 16-bit number does not. `pc`, `probe`,
`slept` and `sample` are each `run_continuous` task's place, the locals of
`try_icmp_ping` and `tcp_fallback`, the sleep between probes and the last
`PingSample`; `inbox` is its socket's receive buffer, `wire` the replies under
way. Only durations are kept: `elapsed` since `start` (or `tcp_start`),
`waited` in the present `recv_from`, `spent` in the whole probe.

Steps. `Resolve`, `OpenSocket`, `DrawSeq`, `Send`, `AcceptReply`, `DropReply`,
`DropStray`, `RecvTimedOut`, `StartTcp`, `TcpDone`, `Report` and `Wake` are the
calls of `ping_once` in order. The loop's peculiarity is kept: a packet that is
not the reply is dropped, and the deadline is looked at only then; otherwise
`recv_from` starts anew with its full timeout. The network (`Arrive`, `Tick`)
delivers a reply to every open socket, once or more, or never. All replies of
`wire` carry the identifier that was sent (see the differences below for
datagram sockets). No time passes between
the opening of a socket and the send, where nothing waits.

## Statistics and the dashboard's state: `PingStats`, `AppState`

`PingStats` translates `record` and `avg_rtt` as operators on a record, with
the cast `received as u32` as `% CastMod`. `AppState` has one tracker for each
entry of `Shown`, so a host listed twice has two, of which `find` only ever
updates the first. `OnPingSample` is the whole handler: the sample in the
window and the counters, then the comparison with the limits, then an event
when the state changed. RTTs are counted in `PerMs`-ths of a millisecond, so
`as_millis` truncates and a reply in under a millisecond becomes 0, as in the
code, and the division of the mean truncates once more. The limit of the loss,
any float in the code, is `LossLimit` in `LossUnit`-ths of a percent, and
`LossEpsilon` is 1 over the epsilon that the code asks a loss to exceed its limit
by; both sides are multiplied out, so the comparison has no fractions.
`AlertExact` says what the two truncations leave: the alert is exact for the
mean cut to whole milliseconds, and for the true mean it is never up before a
whole millisecond above the limit and always from two. It speaks of logs of
fewer than `LossEpsilon \div LossUnit` samples, 10^9 for limits in whole
percents, where the epsilon cannot hide a loss above its limit.
`log`, `dnsLog` and `events` are history variables: all samples, all results
and all alert lines.

## The wiring: `DashboardPipeline`

`task[i]` is the i-th ping task: it measures and updates its statistics
(`Measure`), takes the exporter's mutex (`LockExporter`), writes and flushes
its line and drops the guard (`Export`), and sends (`SendSample`). The DNS
engine resolves and sends (`Resolve`, `SendDns`, `NextRound`); the relay
receives, locks, exports and sends on (`RelayRecv` to `RelaySend`). The TUI
loop drains the pings, drains the DNS results, draws and polls (`DrainPing`,
`DrainDns`, `DrawAndPoll`); draining runs `AppState`'s handlers. Quitting drops
both receivers with what is in them: the ping tasks ignore the error, the relay
and then the engine end on it. After that `main` returns and drops the runtime
with whatever tasks are left; the model lets them run on, which allows more.

## The history: `HistoryLog`

`files` holds every file that ever was; `history` and `backup` are the two
names in the directory. `Stat`, `RemoveBackup`, `Rename` and `OpenHistory` are the
calls of `enable_history`, each a step, so that dashboards interleave between
them. A line is three units, two of text and its newline, because `writeln!`
hands the `BufWriter` two strings; `WriteLine`, `WriteNewline` and `Flush` put
them through a buffer of `BufCap` units, whose rest survives a failed write and
goes out with the next one. `CallFails` is an error of one of the four calls,
which the code ignores. `Quit` drops the exporter; `Kill` may come at any step
and loses the buffer. Assumed of the system: an appending write lands whole at
the end of the file, as `O_APPEND` says, up to the unit where it failed, and a
killed process does not tear one.

## The watch command: `WatchCommand`, `FrameParse`, `Interfaces`

State. `table` is the machine's interfaces in the system's order, `attempts` the
names to try, `outcome` what became of each, `watchers` the capture threads with
their metrics, `status` the dashboard's `CaptureStatus` (None in `watch`), `watch`
the place of the main task, `reading` the sum it is taking and `printed` the last
one it printed.

Steps. `NotFound`, `NotOpened` and `Opened` are the three ends of an attempt,
`Started` what follows the last; one attempt by `setup_capture` is the
dashboard's case. `Capture` is a frame through `process_frame`, `CaptureBreaks`
an error that ends a thread. `SumNext` and `MergeNext` read one interface each,
while the others go on counting. Here a frame is recorded in one step and one
interface is read in one; `FlowMetrics` has the steps of both. `merge_flows`'s
sort is left out: the report prints only how many flows there are.

A frame is its length, its type fields, the protocol its IP header names and
how much that header says it carries; `process_frame` gives the counters and
the flow it adds to. What `pnet` does is external: it gives a packet when the
fixed header is there, and the payload that the header's length names, cut to
what was captured. `Interfaces` has both uses of the interface table; a name
or a target is the sequence of its parts between commas or percent signs.
`Destinations` is what `ping_once` makes of an address and a zone: the TCP
fallback connects to the address with its scope, the echo request goes to one
built anew of the bare IP (`ping.rs:230`). `CtrlC` is heard while `select!`
waits; a press while a report is taken and printed is lost, and the next one
counts.

## The DNS command: `DnsLookup`

`dns` is the engine, `lookup` the lookup under way with its two clocks
(`elapsed` for the outer timeout, `tried` for the attempt), `results` the
channel, `dnsMain` the command's loop. `Poll` is what the runtime does when
something is due: the resolver first, then the outer timer, as
`tokio::time::timeout` has it; a poll may be up to `Late` ticks late, which is
how both may be due at once. The resolver is external: an attempt is answered
with one of `Final`, fails, or is given up after `--timeout`, and a failure is
retried up to `attempts`.

The loop is `Turn`, `Show`, `Printed` and `Break`. Each turn makes a `select!`
with a new `ctrl_c()`: a result that is there is taken, maybe before `ctrl_c()`
was polled, and otherwise the loop waits and listens. tokio's handler of SIGINT is
there from the first poll of a `ctrl_c()` on (`handler`); before it the signal
ends the process, and after it a signal reaches the listeners of that moment.
So `Interrupt` is heard while the loop waits and lost while it prints or is
between two turns, and a result that comes together with a signal may be taken
in its place (`ctrlC`).

## Ending: `Shutdown`

`ui` goes through the calls of `TuiRunner::run` in order; each may fail and
return with `?`, which leaves `terminal` as it is. `ping` starts at `select`
instead. `pinger` says what each ping task's thread does: `to_socket_addrs`
blocks one of the `Workers`, a probe a thread of the blocking pool, each for a
bounded time (a resolution by the system's limits, a probe by twice its read
timeout, as `WaitBounded` shows). `CloseRuntime` and `Exit` are the drop of the
runtime at the end of `main`, which is external: no task is polled after it,
the blocking pool takes nothing new, and it waits for the threads that are busy.

## The files: `HistoryCodec`, `LiveExport`

Text is a sequence of tokens: the characters that the code looks at, one each,
and a key, a number or a word as one. `HistoryCodec` translates both directions,
`LiveExport` runs several dashboards that write a CSV and an NDJSON, which
stands for `--export-json` and for the history alike, and reads the latter back
with `convert_history` in every state. A line may be cut short once
(`TearLine`), with the next dashboard's first line appended to it. Each flush
is a step; `HistoryLog` has the steps inside one, and the rotation.

## The octets and the panels: `IcmpCodec`, `Panels`

`IcmpCodec` builds requests and validates replies octet by octet, with `Folded`
for the carries of the checksum; `Octet` and `Word` say how many octets and
16-bit words there are. `MCIcmpProbe` spreads the model's sequence
numbers over 16 bits and asks, for every header length and four identifiers,
whether the validators take what `IsValid` takes in `IcmpProbe`, and nothing of
what else arrives: another process's reply, the request itself, an error that
quotes it, a reply cut short.

`Panels` is what `render` draws of `AppState`: rows of the ping and the DNS panel,
each in a panel of any height, and the count in the footer of a terminal of any
size. ratatui's layout is external: it keeps the body's `Min(10)` before the
`Length`s of header and footer, and shares as it likes what is left when that is
too little for both, so `FooterRows` is a set. The footer's line is not wrapped:
83 columns stand before the count, which a terminal of 80 does not show
(`FooterText`), and a number at the edge loses its last digits (`Fitting`). The
rest of the layout, colours and the sparkline's bars are left out.

## The runs

Counters are bounded, so a model stops where the program goes on: runs whose
bound ends everything say `CHECK_DEADLOCK FALSE`. In `FlowMetrics_readers`,
`IcmpProbe_replies` and the other `IcmpProbe` runs a reader or time goes on for
ever and deadlock is checked.

A property named after what its parts have in common stands for those in the
brackets.

| run | properties | what it shows | bounds, and why they are enough |
|---|---|---|---|
| `FlowMetrics_shipped` | `TypeOK`, `SpreadBounded`, `OverfullIsFresh`, `ActiveKept` | what the sweeps by time and by size guarantee with the one capture thread that the program starts per map | three tuples over a ceiling of two, so a sweep by size happens; idle 2 s and interval 1 s differ; 4 s in half seconds reach two sweeps; `tcp1` and `tcp2` are symmetric |
| `FlowMetrics_shared` | `Conservation`, `SweepsApart`, `TableSpec` | with two recorders (the contention benchmark) no packet is lost, one claim a interval, and the map implements `FlowTable` | two threads race on every step; three frames let both be in `record` while a third flow is swept |
| `FlowMetrics_readers` | `NobodyWaits` (`RenderCompletes`, `RecordCompletes`) | the panel never hangs and readers do not shut the capture thread out | one reader of each kind, drawing without end |
| `FlowMetrics_quiet` | `DeadFlowsSwept`, violated | finding 1 | one frame, then silence |
| `IcmpProbe_replies` | `OwnReply`, `OwnReplyWithinWrap`, `CodecAgrees` | no probe takes another's reply, and the validators accept, octet by octet, what the model accepts | `SeqMod` 4 wraps within six probes; at 3 a live reply's number comes round and `OwnReply` fails, so the bound is tight; hosts are symmetric |
| `IcmpProbe_ends` | `WaitBounded`, `EveryProbeReported` | how long strays can hold a probe, and that it ends | `Timeout` 3 over `IcmpCap` 2, so the cap and both clocks count |
| `IcmpProbe_zero` | `EveryProbeReported`, violated | finding 2 | `Timeout` 0 |
| `DashboardState` | of `AppState` and `Panels`: `AppTypeOK`, `KeepsTheLast` (`WindowIsLast`, `DnsIsLast`), `EventsAlternate`, `AlertExact`, `PanelsTell` (`PingPanelTells`, `FooterCountsAll`, `DnsPanelNewest`) | windows, counters, alert and events are what the whole log says, and so is what is drawn, at any size of the terminal | window 3 under five samples, DNS 2 drawn of 3 kept of four, a host listed twice, RTTs of 0.5, 1 and 4 ms around a limit of 2, so that 1 and 4 ms average to 2.5, cut to 2; heights on both sides of 10 and 14 rows, where the footer goes and comes; widths of 83, the columns before the count (80 has fewer), and of 84 and 85, which have one and two for it, and a count written in base 2 so that two alerts have two digits |
| `DashboardState` | of `HistoryLog`: `TypeOK`, `RotatedIsFull`, `Intact`, `LinesWhole` | rotation sets aside only full files, lines go whole and in order to the file that was opened, and a failed call spoils at most four lines | three dashboards, of which two can rotate a file that the third is writing; ceiling 3 is one line; `BufCap` 4, where after a failed flush the next text can still fit and its newline not, so a write in mid-line happens and one failure does spoil four lines (with 3 for 4 in `LinesWhole` TLC finds it); two faults; dashboards are symmetric, and so are the DNS results of the other part |
| `AppState_mean` | `MeanOfReceived`, violated | finding 3 | as above |
| `DashboardPipeline` | `TypeOK`, `NothingLost` (`Lossless`, `DnsLossless`), `Exported`, `StatsAgree` (`LossAgrees`, `StatsMatch`), `MeanBetweenExtremes`, `EverySampleShown`, `DnsEnds` | a sample is written first and shown once, in order and counted alike; DNS results pass relay and channels in order; every sample is shown unless the user quits; quitting ends relay and engine | two tasks and the relay contend for the mutex; two samples, of one task or of both, so that two can be in the channel; two results, one of them in each channel; quitting at any draw; `CastMod` 3 |
| `Commands` | of `WatchCommand`: `StartsApart` (`OneFailureIsAlone`, `StatusTellsStart`), `ReportTrue` (`SumBetween`, `QuietReportIsExact`), `TagsInvisible`, `ZoneRespected` | one interface's failure is its own; the report is between two true sums, exact when nothing came; VLAN tags do not show; TCP obeys a zone, and ICMP none | two tables, five specifications (none, blank, with a missing name, two interfaces, one twice); two frames of five kinds, tagged, cut short, not IP; cuts on both sides of every header's end |
| `Commands` | of `DnsLookup`: `LookupClassified` (`RetryOnlyAfterFailure`, `LookupBounded`, `FailureIsNotMissing`), `LostOnlyToResults` | what the outer timeout leaves of the second attempt; a failure is reported as one; a Ctrl-C is lost to results only | timeout 2, a poll up to 1 late, so an attempt can fail early, on time or late; two lookups of two domains, so a second result can come while the first is printed; Ctrl-C at any step, again and again until it is heard |
| `Commands_nodata` | `ExistingIsNotMissing`, violated | finding 4 | as above |
| `Commands` | of `Shutdown`: `LeavesInOrder` (`ExitBounded`, `TerminalRestored`) | the process ends within the longest blocking call; a quit restores the terminal | two tasks on one worker, so every worker can be blocked; resolutions take longer than probes |
| `Commands` | of `LiveExport`: `HeaderOnce`, `ExportFaithful` (`ConversionIsLive`, `TornLineContained`, `LastIsAge`) | one header; `export` gives the rows of the live CSV, whatever the host's name; a torn line costs two rows at most; `--last` is the age | two dashboards, three arrivals, a name made of all that is escaped or looked for, a clock that is set back, one torn line at each token |
| `Commands` | of all: `CommandsTypeOK`, `CommandsEnd` (`LookupEnds`, `CtrlCEnds`, `RelayRuns`, `ExitCompletes`) | each lookup, `dns` after a Ctrl-C that it heard and lost to no result, and the dashboard's process after the quit come to their end, and the relay to its queue | as above |

## Fairness

- `RenderSpec` is weakly fair to the readers' own steps only. `RecordCompletes`
  assumes `RecordersScheduled`, a capture thread that the system schedules. The
  `RwLock` of the standard library makes a new reader wait behind a queued
  writer, and the model does the same; without it `RecordCompletes` would need
  strong fairness.
- `IcmpProbe`'s `FairSpec`: each task is scheduled and time passes. Stray
  packets and replies are owed nothing.
- `DnsFairness`: the runtime polls what is due, the command's loop too, and time
  passes. Nothing is asked of `select!`'s choice: when a result and a Ctrl-C come
  together, either may be taken.
- `DownFairness`: the main thread and the threads in blocking calls run on and
  time passes. The relay gets strong fairness: a worker may be free only now and
  then, and the runtime's queue is first in, first out.
- `DashboardPipeline`'s `FairSpec`: the runtime polls each task that can go on,
  and the TUI loop runs on. The mutex is asked for weak fairness only: the
  bound on samples lets each waiter in, as an interval between samples does in
  the program. Whether the user ever quits is left open.

## Findings

1. `FlowMetrics_quiet`: the sweep by time is only looked at inside `record`, so
   an interface that goes quiet shows its dead flows for ever (`watch.rs:211`),
   where the README has them removed (`src/README.md:47`).
2. `IcmpProbe_zero`: `--timeout 0` reaches `SO_RCVTIMEO`, where 0 means no
   timeout, and the probe of a silent host never ends (`ping.rs:343`), although
   `ping_once` promises a sample in every case (`ping.rs:195`).
3. `AppState_mean`: a reply in under a millisecond is stored as 0, the mark of
   a timeout, and left out of the mean (`app.rs:38` against `app.rs:33`), which
   the latency alert compares with its limit (`app.rs:124`; no panel shows it).
   Replies of 0.5 and 1 ms have the mean 1 there, where their stored values have 0.
4. `Commands_nodata`: an answer without records is reported as NXDOMAIN
   (`dns.rs:95`, printed by `main.rs:92`), which the doc of `is_nxdomain` rules out
   for a domain that exists (`dns.rs:46`). The case is that of a resolver that
   gives such an answer and not an error, which the code provides for.

Differences met without a run of their own:

- A `snapshot` is not of one moment: eight relaxed loads while the capture
  thread adds bytes and packets apart (`watch.rs:67`). Only a display shows it.
- `FLOW_MAX_ENTRIES` is where a sweep starts, not a ceiling: above it the map
  may hold any number of fresh flows (`watch.rs:220`). `OverfullIsFresh` says
  what does hold.
- With several recorders on one map, as in `benches/flows.rs`, `record` takes its
  stamp before the lock and an older one can overwrite a newer `last_seen`;
  `ActiveKept` then fails. The program starts one capture thread per map, and
  the run and the theorems on the schedule say so.
- The "Deadline absoluto" of `ping.rs:360` is looked at only after a packet
  that is not the reply; the wait is bounded by twice the timeout, not by it.
- `received as u32` is 0 after 2^32 replies and the mean then divides by zero
  (`ping.rs:78`). `MeanBetweenExtremes` is stated, and proved, below that.
- An echo request to a link-local address goes by no zone: `ping.rs:230` builds its
  address anew of the bare IP, without the scope that `with_link_local_scope` has
  just set, and of which the comment at that call says "isso vale para o ICMP e
  para o fallback TCP" (`ping.rs:223`, and `src/README.md:31`). Without a scope the
  kernel refuses to send to such an address (`ping.rs:272`), so only the TCP fallback
  reaches the host. `ZoneRespected` says both.
- `--alert-rtt` is compared with a mean cut to whole milliseconds (`app.rs:40`) of
  samples cut to whole milliseconds: 200 and 201 ms raise no alert at 200, where
  `cli.rs:103` has the "RTT médio em ms que dispara alerta no dashboard".
  `AlertExact` says how far off that is.
- The footer's "Alertas: N" (`src/docs/ROADMAP-v0.2.0.md:11`) has no row on a
  terminal of 10 rows and no column on one of 80; `FooterCountsAll` says where it is
  sure to be seen.
- A Ctrl-C while `dns` prints a result, or that comes together with one, is lost
  (`main.rs:85`), and so is one while `watch` takes and prints its report
  (`main.rs:150`): both make a new `ctrl_c()` each turn. The next press counts.
  `ping` waits in one `select!` and loses none.
- With an empty list of domains the DNS engine only sleeps and never finds its
  receiver gone (`dns.rs:142`). `main` ends it with the runtime.
- Two dashboards that rotate at once can set a nearly empty file aside and
  remove the backup that the first one just made (`export.rs:144`); without
  `~crowded`, `RotatedIsFull` is violated.
- A dashboard keeps its descriptor across another's rotation, and goes on
  writing into the backup, or into a removed file (`export.rs:153`).
- The history's size is looked at only when a dashboard starts, and nothing else
  bounds it (`export.rs:145`).
- The drain loops take what they find without a limit (`tui/mod.rs:35`); only
  the interval between samples ends them.
- `lo,lo` counts everything twice, as the comment at `watch.rs:159` admits;
  `src/docs/ROADMAP-v0.2.0.md:78` says that it does not.
- `dns.rs:66` speaks of a timeout for each of two attempts; one outer timeout of
  that length covers both (`RetryOnlyAfterFailure`, `LookupBounded`). With the
  resolver's default options a repeated lookup may be answered from its cache
  and its latency be that of the cache.
- `CaptureStatus` is set at the start and not when the thread ends, so the
  panel goes on showing an interface that is no longer captured.
- A line cut short and the next one together can parse as a row that nobody
  measured, and then do not count as malformed (`export.rs:234`);
  `TornLineContained` says that nothing more happens.
- A datagram ICMP socket of Linux replaces a request's identifier by the socket's
  own number, and the validators compare the reply's with `icmp_ident()`: on such
  a socket no reply is accepted and every probe falls back to TCP, where
  `src/README.md:13` has ICMP without privileges. The model's replies carry the
  identifier that was sent, as on a raw socket; a datagram socket is the case of
  a reply that is lost, with strays.
- The second row of a host that is listed twice says "TIMEOUT" for ever, and a
  host's row says so before its first sample (`ui.rs:83`).
- An error of drawing or polling leaves the terminal raw (`tui/mod.rs:48`);
  `TerminalRestored` is stated for an end without an error.
- The dashboard's `--interface` is one name, commas included, unlike `watch`'s,
  and its `--dns-timeout` has no lower limit, unlike `dns`'s.

## What is proved

All for every value of the constants, under the modules' named assumptions
alone: `ConstantsAssumption` (of `FlowMetrics` and of `IcmpProbe`),
`RttAssumption`, `AppAssumption`, `DomainsAssumption`, `HistoryAssumption`,
`PanelsAssumption`, `WatchAssumption`, `DnsAssumption`, `DownAssumption`,
`CodecAssumption` and `LiveAssumption`. They say that limits, lengths and times are naturals, positive where the code has a
positive constant, and which sets of records the inputs are taken from. Three say
a little more: no number is spelled like a column's name (`LiveAssumption`), each
is spelled in its own way and without punctuation (`CodecAssumption`), and
a frame is cut behind its Ethernet header, without which `pnet` gives no packet
(`WatchAssumption`). None says anything of behaviour. `RepliesAreOwn` and
lemmas that only it rests on have the hypothesis `NumbersOutlast` beside.

- `FiniteSums`. What a sum over a finite set is when a member is added, taken
  away or changed, that it is monotone, and that the sum over two disjoint sets
  is that of both. A sum has no closed form, and induction over sets
  stated for a predicate is out of the provers' reach; for the members of a set
  it is not (`SubsetsInduction`): no subset can be the smallest at which a lemma
  fails.
- `FlowMetricsProofs`. `TypeCorrect`. `SweepsAreApart` for any number of
  recorders, from the invariant that a thread about to claim has read a
  `last` whose interval is over: `compare_exchange` succeeds only on that very
  value. `ImplementsTable`: every step maps to a step of `FlowTable` or a
  stutter. `SpreadIsBounded`, `OverfullMapIsFresh` and `ActiveFlowsKept`, for
  one recorder, rest on the inductive invariant `Schedule`: none of the three
  is inductive, since they need the order of the map's stamps with the clock
  and with the stamp under way (`StampsOrdered`, `NowIsNewest`), that a claim
  is for the current second (`ClaimIsCurrent`), and that between sweeps all
  stamps lie in one window (`WindowHeld`). `PacketsConserved` rests on
  `ConservationInv`, which adds that everything counted is finite; its proof is
  about what a sweep and an update do to a sum over the map.
- `IcmpProbeProofs`. `TypeCorrect`. `RepliesAreOwnWithinWrap` from the
  invariant `Numbered` (a number in use is its probe's count plus one modulo
  `SeqMod`, for probes, wire and inboxes) and a lemma on equal remainders.
  `WaitsAreBounded` from `AllClocked`, which bounds `elapsed` by the timeout
  plus `waited`: the read timeout can only start anew before the deadline.
  `RepliesAreOwn` (that is `OwnReply`) has the hypothesis `NumbersOutlast`: with
  `K` hosts, `K * (ReplyLife + 1)` and `K * 2 * RecvTimeout` are at most `SeqMod`,
  and neither the interval nor the timeout is zero. In ticks of 50 ms, the
  least `--interval` (`cli.rs:26`), 2^16 numbers are enough for 100 hosts and
  replies that live half a minute, or for 3276 hosts and the 500 ms of a wait
  doubled. The invariant `Recent` counts the numbers drawn since a probe's own or
  since a reply's: `K` in each tick passed, and in the present one the hosts of
  `Done`, which draw no other before the next tick. TLC checked it on the instance
  of `IcmpProbe_replies`, which meets both bounds with equality.
  `PacketsAgree` (that is `CodecAgrees`) has the hypothesis `SeqMod <= Word`: the
  packets have 16 bits for a number, and the code's `SEQ` has as many. `Folded`
  is shown to be the remainder modulo 2^16 - 1 (`FoldedIsRemainder`: there is such a
  function, and no sum can be the smallest at which the one defined differs), so
  the checksum of a packet of any length verifies once it is filled in
  (`ChecksumVerifies`). A validator looks at the message alone, whatever header
  stands before it (`V4Validator`, `V6Validator`), and two numbers below `SeqMod` are
  spread to different words (`SpreadApart`).
- `AppStateProofs`. `AppTypeCorrect`, `WindowsAreLast`, `EventsAreAlternating`
  and `DnsPanelIsLast`, each by one step of the handler from lemmas on `Pushed`;
  `LastIsKept` from the two of the panels. `AlertsAreExact`: the handler decides
  on its window and its counters, the property on the whole log, and
  `SlowInWindow` carries the sum over the window to the one over the end
  of the log, `MeanOfWhole` goes from the quotient to a comparison without one, and
  `ExcessCounts` shows that an excess of the loss is more than the epsilon. The module also has the lemmas on `PingStats`: `record` keeps
  `Consistent`, and a consistent record's average lies between its extremes.
  `PanelsAreTrue` from the four invariants of `AppState` and
  `PanelInv`: the first tracker of a host has its last sample, the others are as
  they began, and only a host with a tracker has alert lines. The footer's count
  is by a bijection of the alerting trackers and the hosts whose last line was
  an entry; `FooterOf` says what is left of it on a given terminal.
- `DashboardPipelineProofs`. `TypeCorrect` (with mutual exclusion on the
  exporter and `Consistent` statistics), `MeanIsBetweenExtremes` from it and
  the lemmas on averages; `DnsIsLossless`, which is inductive given the types;
  `PingIsLossless` and `ExportIsLossless` from `OrderInv`, which counts a
  task's samples by its place; `NothingIsLost` from the two channels' theorems.
  `CountsAgree`: `StatsInv` says that a task's statistics are those of what it has
  sent or holds, `SeenInv` and `LinesInv` number the samples that were drained
  and the lines of the file, each with the replies up to it, and `TrackerInv`
  that a tracker has counted what was drained; the n-th sample and the n-th line
  of a task then say the same.
- `HistoryLogProofs`. `TypeCorrect`, and `RotatedFilesAreFull` from
  `RotationInv`: a dashboard between its check and its rename found the file
  full, the file can only have grown since, and nobody else is rotating.
  `HistoryIsIntact` from `OrderInv` (the units of a dashboard in its file, then in
  its buffer, are those of its lines in order, up to the place it has reached)
  and `CleanInv` (without a failed write a buffer holds nothing but the line under
  way, of which nothing is in the file yet). `FewLinesSpoiled` (that is
  `LinesWhole`, for any capacity of the buffer and any number of failures) counts a
  debt: each text in a file or a buffer that does not go on as its line does, and
  one mark for a dashboard whose next newline may overflow because a failed flush
  left something before its line. A failed call adds at most two to the debt,
  the unit it stopped at and the mark or the text in hand; the overflow of a
  newline turns the mark into a torn text; everything else keeps or lowers it
  (`Budget`). A spoiled line either has torn text of its own or stands on
  some, and different lines on different text (`TwiceTorn`); that needs
  `TakenInv`, that the units a dashboard's buffer took are in the order of its
  lines with none repeated or skipped within one, and `RankOnto`, which counts
  them in the file.
- `CommandsProofs`, from one invariant for each machine: `WatchInv` (types, and
  what the attempts so far have come to) and, for the report, `ReportInv`:
  what has been read of an interface is between its counters at the tick and
  now, what is unread is what the interface will say, so the sum so far and
  the sum of the rest bracket the truth while it moves (`FlowsRead` says the
  same of the merged flows). `DnsInv` bounds both clocks of a lookup by its
  place and keeps what the attempt came to, and its part `LoopOk` says where the
  loop can be when no result was taken, from which `CtrlCLostToResults`; `DownInv` has the terminal's modes by
  the call that is next, and what is left of each blocking call; `LiveInv` and
  `HeaderInv` say who may still bring the header. `TagsAreInvisible` and
  `ZonesAreRespected` are about `FrameParse` and `Interfaces` alone, for every
  frame, cut and table. `CommandsTyped` is of the whole of `MCCommands`, and
  needs `WorkersInv` for the number of blocked workers. `CommandsAreSafe` states
  all of them of `MCCommands`, which is what its run checks: the conclusions of the
  machines' theorems are lemmas about a state, a machine at rest satisfies its
  invariant, and `command` never changes (`CommandsInv`).
- `HistoryCodecProofs`, about what `HistoryCodec` writes and reads again, for
  hosts and domains of any length and any tokens. `LinesConvert`: the line of a
  sample, alone, converts to the very row of the live CSV, or to nothing when
  `--last` leaves it out. `LookupsConvert`: that of a lookup gives the CSV nothing and
  is not malformed. `SamplesAreLines`: what a sample is written as has no newline.
  `Laid` says where in the escaped text each token of the host is, behind a
  backslash or as it was: `esc` lays it so (`EscLaid`), `unesc` and the search for the
  closing quote read it back (`UnescOfLaid`, `ClosesAfterLaid`), and in it no
  quote stands without its backslash (`LaidIsSafe`). Hence nothing in a host can look
  like a key (`OnlyKeys`: a key's colon is behind a bare quote), and the
  first place where `raw_field` finds a key is its own (`PingFirst`). The folds and
  recursive functions have no closed form; each lemma about one is by induction over
  the set of numbers that have the property (`Naturally`). `Sample` and `Result`
  say what an exporter is given: the host and the domain are any text, the other
  fields words without punctuation, and an rtt none or several that are not `null`.

Only model-checked: `ExportFaithful`, which is about whole files, with torn lines and
several dashboards' lines mixed, and every liveness property (fairness and ENABLED are out of
the prover's reach). The types of `IcmpProbe` (`TypeCorrect`) and the invariant
`Schedule` (the lemma `ScheduleCorrect`) are proved and no longer repeated by a run.

## What is not modelled

- Argument parsing (`cli.rs`): clap's derive, with defaults and ranges and no
  state; and the wording of everything that is printed.
- The layout of the screen but for the footer's rows, the sparkline's bars and the order of the traffic
  panel's rows; they are functions of the state of one moment.
- The sort of `merge_flows`, whose order nothing but the traffic panel shows.
- Lock poisoning, as nothing panics while it holds a lock.
- `history_path` and `unix_secs_now`: the environment and the clock, which are
  inputs of the models.
- Library root, build files and the benchmark; the benchmark's threads on one
  `TrafficMetrics` are the run `FlowMetrics_shared`.
