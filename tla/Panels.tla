-------------------------------- MODULE Panels --------------------------------
(***************************************************************************)
(* What the dashboard draws of AppState (src/src/tui/ui.rs): the rows of the *)
(* ping and the DNS panel and the count in the footer.  The height of a      *)
(* panel and the size of the terminal are inputs: they may be any, and       *)
(* change.                                                                   *)
(***************************************************************************)
EXTENDS AppState, SequencesExt

CONSTANTS
    DnsRows,    \* 10: rows of the DNS panel
    Base,       \* 10: that of the numerals on the screen
    Heights,    \* the heights a panel or the terminal may have, in rows
    Widths      \* the widths the terminal may have, in columns

ASSUME PanelsAssumption ==
    /\ DnsRows \in Nat \ {0}
    /\ Base \in Nat /\ Base > 1
    /\ Heights \subseteq Nat /\ Widths \subseteq Nat

AtMost(m, n) == IF m < n THEN m ELSE n

(* `alert_count`. *)
AlertCount == Cardinality({i \in DOMAIN trackers : trackers[i].alerting})

(* Three lines for each host and two for the border. *)
Visible(height) == AtMost(IF height < 2 THEN 0 ELSE (height - 2) \div 3, Len(trackers))

(* Mutant: the loss of the window, a latency of 0 being a lost packet. *)
WindowRow(i) ==
    LET t == trackers[i]
    IN  [host |-> Shown[i], rtt |-> t.last, of |-> Window,
         lost |-> Cardinality({k \in 1..Window : t.history[k] = 0}), alert |-> t.alerting]

(* "TIMEOUT" is None; the loss is a fraction, 0 before the first sample.    *)
PingRow(i) ==
    LET t == trackers[i]
    IN  [host |-> Shown[i], rtt |-> t.last, lost |-> t.transmitted - t.received,
         of |-> t.transmitted, alert |-> t.alerting]

PingPanel(height) == [i \in 1..Visible(height) |-> PingRow(i)]

(* The rows of a terminal: a body of Min(10), a header of Length(3) and a    *)
(* footer of Length(2).  The solver keeps Min before it keeps a Length, and  *)
(* shares as it likes what is too little for both of these.                  *)
FooterRows(height) ==
    LET left == AtMost(IF height < 10 THEN 0 ELSE height - 10, 5)
    IN  {rows \in 0..2 : \E header \in 0..3 : header + rows = left}

(* " Pressione 'q' ... tempo real | Alertas: ", before the count. *)
FooterText == 83

Digits(n) == 1 + Cardinality({d \in 1..n : Base^d <= n})

(* A line is not wrapped: of a number that begins at its last columns the    *)
(* first digits are seen.                                                    *)
Fitting(n, columns) ==
    IF columns >= Digits(n) THEN n ELSE n \div Base^(Digits(n) - columns)

(* What may be seen of the count; the line has one when it is above 0.       *)
Footer(height, width) ==
    {IF rows = 0 \/ AlertCount = 0 \/ width <= FooterText
       THEN None ELSE Fitting(AlertCount, width - FooterText) : rows \in FooterRows(height)}

(* rev().take(10) *)
NewestFirst == SubSeq(Reverse(dns_results), 1, AtMost(DnsRows, Len(dns_results)))

(* A table shows the rows that fit under its border and its header.         *)
DnsPanel(height) ==
    SubSeq(NewestFirst, 1, AtMost(IF height < 3 THEN 0 ELSE height - 3, Len(NewestFirst)))

------------------------------------------------------------------------------
(* Properties. *)

(* What a row should say of a host whose samples are s. *)
Told(h, s, on) ==
    [host |-> h, rtt |-> IF s = <<>> \/ Last(s) = None THEN None ELSE Ms(Last(s)),
     lost |-> Cardinality({k \in DOMAIN s : s[k] = None}), of |-> Len(s), alert |-> on]

(* Each row tells the host's last sample, its loss over all its samples and *)
(* whether its last alert line was an entry; when the panel is too low the  *)
(* first hosts are shown (ui.rs:12).  The second row of a host that is      *)
(* listed twice tells of no sample, however many there were.                *)
PingPanelTells ==
    \A height \in Heights :
        \A i \in DOMAIN PingPanel(height) :
            LET h == Shown[i]
                on == events[h] # <<>> /\ Last(events[h])
            IN  PingPanel(height)[i] =
                    IF First(i) THEN Told(h, log[h], on) ELSE Told(h, <<>>, FALSE)

(* The footer counts every host whose last alert line was an entry, those   *)
(* below the edge of the panel included, each once: it shows that number or *)
(* none, unless the width cuts the number itself.  14 rows are enough for   *)
(* it, 10 never; and 80 columns do not reach it (ROADMAP-v0.2.0.md:11:      *)
(* "contador `Alertas: N` no rodapé").                                      *)
FooterCountsAll ==
    LET n == Cardinality({h \in Hosts : events[h] # <<>> /\ Last(events[h])})
    IN  \A height \in Heights, width \in Widths :
            \A count \in Footer(height, width) :
                /\ count \in {n, None} \/ width < FooterText + Digits(n)
                /\ n > 0 /\ height >= 14 /\ width >= FooterText + Digits(n) => count = n
                /\ n = 0 \/ height <= 10 \/ width <= FooterText => count = None

(* The DNS panel shows the newest results, the newest one at the top: a     *)
(* terminal too low for all rows hides the oldest.                          *)
DnsPanelNewest ==
    \A height \in Heights :
        \A k \in DOMAIN DnsPanel(height) :
            DnsPanel(height)[k] = dnsLog[Len(dnsLog) + 1 - k]

(* What is drawn is what was measured, at any size of the terminal.         *)
PanelsTell == PingPanelTells /\ FooterCountsAll /\ DnsPanelNewest
==============================================================================
