------------------------------ MODULE LiveExport ------------------------------
(***************************************************************************)
(* What dashboards export while they run (src/src/export.rs) and what       *)
(* `pingenty export` makes of it (src/src/main.rs): several dashboards,     *)
(* started and ended at any time, append to the same --export-csv and the   *)
(* same NDJSON, which is --export-json or the history: both are written by  *)
(* the same calls.  Each flush is a step; HistoryLog has the steps of one,  *)
(* and the rotation.                                                        *)
(***************************************************************************)
EXTENDS HistoryCodec, FiniteSets

CONSTANTS
    Dashboards,
    Arrivals,       \* what tasks and relays may bring, in sequences: [kind, t, entry]
    Ages,           \* values of --last
    Clock,          \* the seconds at which the NDJSON may be exported
    MaxTorn         \* bound: lines of the history cut short

(* What a task brings: a sample of a host or the answer for a domain. *)
Seconds == 0..(Len(Numeral) - 1)
Samples == [host : Seq(STRING), rtt : Seq(STRING), loss : STRING, modo : STRING]
Brought == [kind : {"ping"}, t : Seconds, entry : Samples] \cup
           [kind : {"dns"}, t : Seconds,
            entry : [domain : Seq(STRING), status : STRING, latency : STRING]]

(* No number is written like the name of a column. *)
ASSUME LiveAssumption ==
    /\ \A k \in DOMAIN Numeral : Numeral[k] # "timestamp"
    /\ \A a \in Arrivals : a \in Seq(Brought)

VARIABLES
    csv,            \* the CSV file, by rows
    ndjson,         \* the NDJSON file, as text
    arrivals,       \* what has not come yet; t is the wall clock's second then
    exporter,       \* each dashboard: [pc, fresh, arrival]
    logged,         \* history: the lines written whole, [t, line]
    torn,           \* history: how many of them were cut short
    unlogged,       \* history: samples whose dashboard died before its line
    together        \* history: a CSV was found empty while a header was due

liveVars == <<csv, ndjson, arrivals, exporter, logged, torn, unlogged, together>>

Nobody == [pc |-> "off", fresh |-> FALSE, arrival |-> <<>>]
Ended  == [pc |-> "ended", fresh |-> FALSE, arrival |-> <<>>]

LiveInit ==
    /\ csv = <<>> /\ ndjson = <<>>
    /\ exporter = [d \in Dashboards |-> Nobody]
    /\ arrivals \in Arrivals
    /\ logged = <<>> /\ torn = 0 /\ unlogged = 0 /\ together = FALSE

------------------------------------------------------------------------------
(* Exporter::new *)

(* Mutant: only a file that is not there is a new one. *)
FreshIfMissing == csv = <<>> /\ \A d \in Dashboards : exporter[d].pc = "off"

Fresh == csv = <<>>

(* metadata(p): is the file empty, or not there? *)
StatCsv(d) ==
    /\ exporter[d].pc = "off"
    /\ exporter' = [exporter EXCEPT ![d].pc = "idle", ![d].fresh = Fresh]
    /\ together' = (together \/ \E q \in Dashboards :
                                   exporter[q].fresh /\ exporter[q].pc # "ended")
    /\ UNCHANGED <<csv, ndjson, arrivals, logged, torn, unlogged>>

------------------------------------------------------------------------------
(* Exporter::ping and Exporter::dns, one flush after the other. *)

Header(d) == IF exporter[d].fresh THEN <<CSV_HEADER>> ELSE <<>>

Comes(d, kind) == exporter[d].pc = "idle" /\ arrivals # <<>> /\ arrivals[1].kind = kind

PingCsv(d) ==
    /\ Comes(d, "ping")
    /\ arrivals' = Tail(arrivals)
    /\ csv' = csv \o Header(d) \o <<csv_row(arrivals[1].t, arrivals[1].entry)>>
    /\ exporter' = [exporter EXCEPT ![d] =
                       [pc |-> "ping", fresh |-> FALSE, arrival |-> <<arrivals[1]>>]]
    /\ UNCHANGED <<ndjson, logged, torn, unlogged, together>>

(* What d may write next: a ping's line, with the time of its row, or a DNS *)
(* result's, which has no row.                                              *)
NextLine(d) ==
    IF exporter[d].pc = "ping"
      THEN LET a == exporter[d].arrival[1]
           IN  [t |-> a.t, line |-> ndjson_ping(a.t, a.entry)]
      ELSE [t |-> arrivals[1].t, line |-> ndjson_dns(arrivals[1].t, arrivals[1].entry)]

LineDue(d) ==
    \/ exporter[d].pc = "ping" /\ UNCHANGED arrivals
    \/ Comes(d, "dns") /\ arrivals' = Tail(arrivals)

WriteLine(d) ==
    /\ LineDue(d)
    /\ ndjson' = ndjson \o NextLine(d).line \o <<Newline>>
    /\ logged' = Append(logged, NextLine(d))
    /\ exporter' = [exporter EXCEPT ![d].pc = "idle", ![d].arrival = <<>>]
    /\ UNCHANGED <<csv, torn, unlogged, together>>

(* The write is cut short, on a full disk, and the dashboard dies with the  *)
(* rest in its buffer.                                                      *)
TearLine(d) ==
    /\ torn < MaxTorn /\ LineDue(d)
    /\ \E k \in DOMAIN NextLine(d).line : ndjson' = ndjson \o SubSeq(NextLine(d).line, 1, k)
    /\ torn' = torn + 1
    /\ exporter' = [exporter EXCEPT ![d] = Ended]
    /\ UNCHANGED <<csv, logged, unlogged, together>>

(* q: the Exporter is dropped, and with it the buffer that has the header.  *)
QuitExporter(d) ==
    /\ exporter[d].pc = "idle"
    /\ csv' = csv \o Header(d)
    /\ exporter' = [exporter EXCEPT ![d] = Ended]
    /\ UNCHANGED <<ndjson, arrivals, logged, torn, unlogged, together>>

KillExporter(d) ==
    /\ exporter[d].pc \notin {"off", "ended"}
    /\ unlogged' = IF exporter[d].pc = "ping" THEN unlogged + 1 ELSE unlogged
    /\ exporter' = [exporter EXCEPT ![d] = Ended]
    /\ UNCHANGED <<csv, ndjson, arrivals, logged, torn, together>>

LiveNext ==
    \E d \in Dashboards :
        \/ StatCsv(d) \/ PingCsv(d) \/ WriteLine(d) \/ TearLine(d)
        \/ QuitExporter(d) \/ KillExporter(d)

LiveSpec == LiveInit /\ [][LiveNext]_liveVars

------------------------------------------------------------------------------
(* Properties. *)

(* `pingenty export`, at some time. *)
Export(format, now, last) == convert_history(ndjson, format, now, last)

(* The CSV begins with its header, also after dashboards that died before   *)
(* their first sample, and has no second one unless two dashboards found it *)
(* empty before either wrote (export.rs:113).                               *)
HeaderOnce ==
    LET headers == {k \in DOMAIN csv : csv[k] = CSV_HEADER}
    IN  csv # <<>> => 1 \in headers /\ (~together => headers = {1})

Rows == ToBag(SelectSeq(csv, LAMBDA row : row # CSV_HEADER))
AllRows == ToBag(Tail(Export("csv", 0, <<>>).rows))
Between == Cardinality({d \in Dashboards : exporter[d].pc = "ping"}) + unlogged

(* The NDJSON of a sample converts to the very row of the live CSV,         *)
(* whatever is in the host's name: there lack only the samples whose        *)
(* dashboard is, or died, between the files, and nothing is malformed       *)
(* (export.rs:190).                                                         *)
ConversionIsLive ==
    torn = 0 =>
        /\ AllRows \sqsubseteq Rows
        /\ BagCardinality(AllRows) + Between = BagCardinality(Rows)
        /\ Export("csv", 0, <<>>).skipped = 0

(* A line that was cut short, and the next one, which is appended to it,    *)
(* give at most one row that nobody measured and cost no other line its     *)
(* row.                                                                     *)
TornLineContained ==
    /\ BagCardinality(AllRows (-) Rows) <= torn
    /\ BagCardinality(Rows (-) AllRows) <= 2 * torn + Between
    /\ Export("csv", 0, <<>>).skipped <= torn

(* --last keeps the lines that are no older, to the second, and all of them *)
(* when it is longer than the clock's past; also when the clock was set     *)
(* back and a line is younger than now (export.rs:261).                     *)
LastIsAge ==
    torn = 0 => \A now \in Clock, last \in Ages :
        LET young == SelectSeq(logged, LAMBDA e : e.t + last >= now)
        IN  Export("json", now, <<last>>).rows = [k \in DOMAIN young |-> young[k].line]

(* `export` gives the live rows back, whole lines exactly and torn ones at  *)
(* the cost of no other, as far back as it is asked to.                     *)
ExportFaithful == ConversionIsLive /\ TornLineContained /\ LastIsAge
==============================================================================
