----------------------------- MODULE HistoryCodec -----------------------------
(***************************************************************************)
(* The text of the exported files (src/src/export.rs): how a sample becomes *)
(* a CSV row and a line of NDJSON, and how convert_history turns the latter *)
(* back.  Text is a sequence of tokens: the characters that the code looks  *)
(* at, one each, and a key, a number or another word as one token.  Numbers *)
(* are named by Numeral.  Pure operators.                                   *)
(***************************************************************************)
EXTENDS Integers, Sequences, SequencesExt

CONSTANTS
    Numeral         \* the tokens of the numbers 0, 1, ...: a sequence

Quote == "\""
Backslash == "\\"
Newline == "\n"

CSV_HEADER == <<"timestamp", ",", "host", ",", "rtt_ms", ",", "loss_pct", ",", "modo">>

(* A number is written in its own way, with nothing a reader stops at.      *)
ASSUME CodecAssumption ==
    /\ Numeral \in Seq(STRING)
    /\ \A k \in DOMAIN Numeral :
          Numeral[k] \notin {Quote, Backslash, Newline, ",", ":", "}"}
    /\ \A i, j \in DOMAIN Numeral : Numeral[i] = Numeral[j] => i = j

ToText(n) == Numeral[n + 1]
IsNumber(tok) == \E k \in DOMAIN Numeral : Numeral[k] = tok
ToNumber(tok) == CHOOSE n \in 0..(Len(Numeral) - 1) : ToText(n) = tok

------------------------------------------------------------------------------
(* Writing. *)

(* Mutant: only the quote is escaped. *)
EscapedQuote(c) == IF c = Quote THEN <<Backslash, Quote>> ELSE <<c>>

Escaped(c) ==
    CASE c = Quote     -> <<Backslash, Quote>>
      [] c = Backslash -> <<Backslash, Backslash>>
      [] c = Newline   -> <<Backslash, "n">>
      [] OTHER         -> <<c>>

esc(s) == FlattenSeq([i \in DOMAIN s |-> Escaped(s[i])])

Key(key) == <<Quote, key, Quote, ":">>
String(s) == <<Quote>> \o s \o <<Quote>>

(* A lost sample's rtt is null here and an empty field in the CSV. *)
ndjson_ping(t, s) ==
    <<"{">> \o Key("t") \o <<ToText(t), ",">> \o Key("kind") \o String(<<"ping">>) \o
    <<",">> \o Key("host") \o String(esc(s.host)) \o
    <<",">> \o Key("rtt_ms") \o (IF s.rtt = <<>> THEN <<"null">> ELSE s.rtt) \o
    <<",">> \o Key("loss_pct") \o <<s.loss>> \o
    <<",">> \o Key("modo") \o String(<<s.modo>>) \o <<"}">>

ndjson_dns(t, r) ==
    <<"{">> \o Key("t") \o <<ToText(t), ",">> \o Key("kind") \o String(<<"dns">>) \o
    <<",">> \o Key("domain") \o String(esc(r.domain)) \o
    <<",">> \o Key("status") \o String(<<r.status>>) \o
    <<",">> \o Key("latency_ms") \o <<r.latency, "}">>

csv_row(t, s) ==
    <<ToText(t), ",">> \o s.host \o <<",">> \o s.rtt \o <<",", s.loss, ",", s.modo>>

------------------------------------------------------------------------------
(* Reading.  A field that is not there is <<>>, one that is, <<its text>>.  *)

(* line.find("\"key\":"): what follows the first occurrence. *)
After(line, key) ==
    LET at == {i \in 1..(Len(line) - 3) :
                  line[i + 1] = key /\ SubSeq(line, i, i + 3) = Key(key)}
    IN  IF at = {} THEN <<>> ELSE SubSeq(line, Min(at) + 4, Len(line))

(* The quote that ends the string at the head of s, past what a backslash   *)
(* skips; 0 when there is none.                                             *)
ClosingQuote(s) ==
    LET From[i \in 2..(Len(s) + 2)] ==
            IF i > Len(s) THEN 0
            ELSE IF s[i] = Backslash THEN From[i + 2]
            ELSE IF s[i] = Quote THEN i
            ELSE From[i + 1]
    IN  From[2]

raw_field(line, key) ==
    LET rest == After(line, key)
        stop == {i \in DOMAIN rest : rest[i] \in {",", "}"}}
    IN  IF rest = <<>> THEN <<>>
        ELSE IF rest[1] = Quote
          THEN IF ClosingQuote(rest) = 0 THEN <<>>
               ELSE <<SubSeq(rest, 2, ClosingQuote(rest) - 1)>>
        ELSE IF stop = {} THEN <<>> ELSE <<SubSeq(rest, 1, Min(stop) - 1)>>

Unescaped(c) ==
    CASE c \in {Quote, Backslash} -> <<c>>
      [] c = "n"                  -> <<Newline>>
      [] OTHER                    -> <<Backslash, c>>

unesc(s) ==
    LET Step(acc, c) ==
            IF acc.esc THEN [out |-> acc.out \o Unescaped(c), esc |-> FALSE]
            ELSE IF c = Backslash THEN [acc EXCEPT !.esc = TRUE]
            ELSE [acc EXCEPT !.out = Append(@, c)]
        r == FoldLeft(Step, [out |-> <<>>, esc |-> FALSE], s)
    IN  IF r.esc THEN Append(r.out, Backslash) ELSE r.out

------------------------------------------------------------------------------
(* convert_history: a line gives rows, none or one, or is skipped. *)
Row(r) == [rows |-> <<r>>, skipped |-> 0]
NoRow == [rows |-> <<>>, skipped |-> 0]
Skipped == [rows |-> <<>>, skipped |-> 1]

(* now.saturating_sub(last); without --last, <<>>, everything is kept. *)
Cutoff(now, last) == IF last = <<>> \/ now < last[1] THEN 0 ELSE now - last[1]

Converted(line, format, now, last) ==
    LET Field(key) == raw_field(line, key)
        t == Field("t")
        fields == [k \in {"host", "rtt_ms", "loss_pct", "modo"} |-> Field(k)]
    IN  IF line = <<>> THEN NoRow
        ELSE IF t = <<>> \/ Field("kind") = <<>> THEN Skipped
        ELSE IF Len(t[1]) # 1 \/ ~IsNumber(t[1][1]) THEN Skipped
        ELSE IF ToNumber(t[1][1]) < Cutoff(now, last) THEN NoRow
        ELSE IF format # "csv" THEN Row(line)
        ELSE IF Field("kind")[1] # <<"ping">> THEN NoRow
        ELSE IF \E k \in DOMAIN fields : fields[k] = <<>> THEN Skipped
        ELSE Row(t[1] \o <<",">> \o unesc(fields["host"][1]) \o <<",">> \o
                 (IF fields["rtt_ms"][1] = <<"null">> THEN <<>> ELSE fields["rtt_ms"][1]) \o
                 <<",">> \o fields["loss_pct"][1] \o <<",">> \o fields["modo"][1])

(* text.lines(): what the newlines separate. *)
Lines(text) ==
    LET ends == Append(SelectSeq([k \in DOMAIN text |-> k], LAMBDA k : text[k] = Newline),
                       Len(text) + 1)
        Start(i) == IF i = 1 THEN 1 ELSE ends[i - 1] + 1
    IN  [i \in DOMAIN ends |-> SubSeq(text, Start(i), ends[i] - 1)]

With(acc, this) ==
    [rows |-> acc.rows \o this.rows, skipped |-> acc.skipped + this.skipped]

(* The rows, after the CSV header, and how many lines were skipped.         *)
convert_history(text, format, now, last) ==
    FoldLeft(LAMBDA acc, line : With(acc, Converted(line, format, now, last)),
             [rows |-> IF format = "csv" THEN <<CSV_HEADER>> ELSE <<>>, skipped |-> 0],
             Lines(text))
==============================================================================
