------------------------------ MODULE HistoryLog ------------------------------
(***************************************************************************)
(* The history file (src/src/export.rs): dashboards that start, rotate,     *)
(* append and die at any time, on one history.jsonl and its backup.  A      *)
(* dashboard's calls are one after the other (it has one Exporter, behind a *)
(* Mutex); each system call is a step, and dashboards interleave between.   *)
(* A line is two units of text and its newline; a write that fails, on a    *)
(* full disk, may have written any of the units.                            *)
(***************************************************************************)
EXTENDS Integers, Sequences, FiniteSets

CONSTANTS
    Runs,               \* the dashboards that are ever started
    HISTORY_MAX_BYTES,  \* in units
    BufCap,             \* capacity of the BufWriter, in units
    MaxLines,           \* bound: lines that a dashboard logs
    MaxFaults           \* bound: calls that fail

ASSUME HistoryAssumption ==
    /\ HISTORY_MAX_BYTES \in Nat
    /\ BufCap \in Nat /\ BufCap > 2
    /\ MaxLines \in Nat /\ MaxFaults \in Nat

VARIABLES
    files,      \* every file there ever was, by number, in units
    history,    \* which of them is history.jsonl; 0 when there is none
    backup,     \* which of them is history.jsonl.1
    pc,         \* where each dashboard is
    fd,         \* the file it has open; 0 when it has none
    buf,        \* its BufWriter's buffer
    lines,      \* the lines it has begun
    faults,     \* calls that have failed
    accepted,   \* history: the units its BufWriter took
    crowded     \* history: a rotation began during another

dirVars == <<history, backup, crowded>>
vars == <<files, history, backup, pc, fd, buf, lines, faults, accepted, crowded>>

NoFile == 0

Init ==
    /\ files = <<>>
    /\ history = NoFile /\ backup = NoFile
    /\ pc = [r \in Runs |-> "off"]
    /\ fd = [r \in Runs |-> NoFile]
    /\ buf = [r \in Runs |-> <<>>]
    /\ lines = [r \in Runs |-> 0]
    /\ faults = 0
    /\ accepted = [r \in Runs |-> <<>>]
    /\ crowded = FALSE

------------------------------------------------------------------------------
(* enable_history *)

(* Mutant: the ceiling itself is already too much. *)
DueAtCeiling == history # NoFile /\ Len(files[history]) >= HISTORY_MAX_BYTES

Due == history # NoFile /\ Len(files[history]) > HISTORY_MAX_BYTES

Rotating(r) == pc[r] \in {"remove", "rename"}

(* metadata(&path) *)
Stat(r) ==
    /\ pc[r] = "off"
    /\ pc' = [pc EXCEPT ![r] = IF Due THEN "remove" ELSE "open"]
    /\ crowded' = (crowded \/ (Due /\ \E q \in Runs : Rotating(q)))
    /\ UNCHANGED <<files, history, backup, fd, buf, lines, faults, accepted>>

(* remove_file(&backup): that there is none is an error that is ignored. *)
RemoveBackup(r) ==
    /\ pc[r] = "remove"
    /\ pc' = [pc EXCEPT ![r] = "rename"]
    /\ backup' = NoFile
    /\ UNCHANGED <<files, history, fd, buf, lines, faults, accepted, crowded>>

(* Mutant: the file is copied, and stays. *)
NotMoved == history

Moved == NoFile

(* rename(&path, &backup), which fails when another dashboard was faster. *)
Rename(r) ==
    /\ pc[r] = "rename"
    /\ pc' = [pc EXCEPT ![r] = "open"]
    /\ IF history # NoFile THEN backup' = history /\ history' = Moved
                         ELSE UNCHANGED <<history, backup>>
    /\ UNCHANGED <<files, fd, buf, lines, faults, accepted, crowded>>

(* create(true).append(true).open(&path) *)
OpenHistory(r) ==
    /\ pc[r] = "open"
    /\ pc' = [pc EXCEPT ![r] = "idle"]
    /\ IF history = NoFile
         THEN files' = Append(files, <<>>) /\ history' = Len(files) + 1
         ELSE UNCHANGED <<files, history>>
    /\ fd' = [fd EXCEPT ![r] = history']
    /\ UNCHANGED <<backup, buf, lines, faults, accepted, crowded>>

(* A call on the directory fails: the dashboard goes on to the next one, or *)
(* without a history.                                                       *)
CallFails(r) ==
    /\ pc[r] \in {"off", "remove", "rename", "open"}
    /\ faults < MaxFaults
    /\ faults' = faults + 1
    /\ pc' = [pc EXCEPT ![r] = CASE pc[r] = "off"    -> "open"
                                 [] pc[r] = "remove" -> "rename"
                                 [] pc[r] = "rename" -> "open"
                                 [] pc[r] = "open"   -> "ended"]
    /\ UNCHANGED <<files, dirVars, fd, buf, lines, accepted>>

------------------------------------------------------------------------------
(* BufWriter *)

(* The buffer goes to the end of the file, whole or, with an error, up to   *)
(* its k-th unit; what was not written stays in it.                         *)
WriteOut(r, k) ==
    /\ files' = [files EXCEPT ![fd[r]] = @ \o SubSeq(buf[r], 1, k)]
    /\ IF k = Len(buf[r]) THEN UNCHANGED faults
                          ELSE faults < MaxFaults /\ faults' = faults + 1

Unwritten(r, k) == SubSeq(buf[r], k + 1, Len(buf[r]))

(* write_all(units): when they do not fit, the buffer is written first, and *)
(* an error ends the writeln with the units untaken.                        *)
Put(r, units, next) ==
    IF Len(buf[r]) + Len(units) <= BufCap
      THEN /\ buf' = [buf EXCEPT ![r] = @ \o units]
           /\ accepted' = [accepted EXCEPT ![r] = @ \o units]
           /\ pc' = [pc EXCEPT ![r] = next]
           /\ UNCHANGED <<files, faults>>
      ELSE \E k \in 0..Len(buf[r]) :
              /\ WriteOut(r, k)
              /\ IF k = Len(buf[r])
                   THEN /\ buf' = [buf EXCEPT ![r] = units]
                        /\ accepted' = [accepted EXCEPT ![r] = @ \o units]
                        /\ pc' = [pc EXCEPT ![r] = next]
                   ELSE /\ buf' = [buf EXCEPT ![r] = Unwritten(r, k)]
                        /\ pc' = [pc EXCEPT ![r] = "flush"]
                        /\ UNCHANGED accepted

Unit(r, n, part) == [run |-> r, n |-> n, part |-> part]

(* writeln!(f, ..): the text, which is one string, and then the newline. *)
WriteLine(r) ==
    /\ pc[r] = "idle" /\ lines[r] < MaxLines
    /\ lines' = [lines EXCEPT ![r] = @ + 1]
    /\ Put(r, <<Unit(r, lines[r] + 1, "head"), Unit(r, lines[r] + 1, "tail")>>, "newline")
    /\ UNCHANGED <<dirVars, fd>>

(* Mutant: the newline is flushed on its own. *)
NewlineApart(r) ==
    /\ pc[r] = "newline"
    /\ files' = [files EXCEPT ![fd[r]] = @ \o buf[r]]
    /\ buf' = [buf EXCEPT ![r] = <<Unit(r, lines[r], "nl")>>]
    /\ accepted' = [accepted EXCEPT ![r] = @ \o <<Unit(r, lines[r], "nl")>>]
    /\ pc' = [pc EXCEPT ![r] = "flush"]
    /\ UNCHANGED <<dirVars, fd, lines, faults>>

WriteNewline(r) ==
    /\ pc[r] = "newline"
    /\ Put(r, <<Unit(r, lines[r], "nl")>>, "flush")
    /\ UNCHANGED <<dirVars, fd, lines>>

(* Mutant: no flush after each line. *)
NoFlush(r) ==
    /\ pc[r] = "flush"
    /\ pc' = [pc EXCEPT ![r] = "idle"]
    /\ UNCHANGED <<files, dirVars, fd, buf, lines, faults, accepted>>

(* f.flush(), whose error is ignored *)
Flush(r) ==
    /\ pc[r] = "flush"
    /\ \E k \in 0..Len(buf[r]) :
          /\ WriteOut(r, k)
          /\ buf' = [buf EXCEPT ![r] = Unwritten(r, k)]
    /\ pc' = [pc EXCEPT ![r] = "idle"]
    /\ UNCHANGED <<dirVars, fd, lines, accepted>>

(* The user quits: the Exporter is dropped, and its BufWriter tries once.   *)
Quit(r) ==
    /\ pc[r] = "idle"
    /\ \E k \in 0..Len(buf[r]) : WriteOut(r, k)
    /\ buf' = [buf EXCEPT ![r] = <<>>]
    /\ pc' = [pc EXCEPT ![r] = "ended"]
    /\ UNCHANGED <<dirVars, fd, lines, accepted>>

(* The process dies with what is in its buffer. *)
Kill(r) ==
    /\ pc[r] \notin {"off", "ended"}
    /\ buf' = [buf EXCEPT ![r] = <<>>]
    /\ pc' = [pc EXCEPT ![r] = "ended"]
    /\ UNCHANGED <<files, dirVars, fd, lines, faults, accepted>>

Dashboard(r) ==
    \/ Stat(r) \/ RemoveBackup(r) \/ Rename(r) \/ OpenHistory(r) \/ CallFails(r)
    \/ WriteLine(r) \/ WriteNewline(r) \/ Flush(r) \/ Quit(r) \/ Kill(r)

Next == \E r \in Runs : Dashboard(r)

Spec == Init /\ [][Next]_vars

------------------------------------------------------------------------------
(* Properties. *)

Units == [run : Runs, n : Nat, part : {"head", "tail", "nl"}]

(* Every variable keeps its type; history.jsonl is the newest file, the     *)
(* backup an older one; a dashboard that writes has a file.                 *)
TypeOK ==
    /\ files \in Seq(Seq(Units))
    /\ history \in {NoFile, Len(files)}
    /\ backup \in 0..Len(files) /\ (history # NoFile => backup < history)
    /\ pc \in [Runs -> {"off", "remove", "rename", "open", "idle", "newline", "flush",
                        "ended"}]
    /\ fd \in [Runs -> 0..Len(files)]
    /\ \A r \in Runs : pc[r] \in {"idle", "newline", "flush"} => fd[r] # NoFile
    /\ buf \in [Runs -> Seq(Units)]
    /\ lines \in [Runs -> Nat]
    /\ faults \in Nat
    /\ accepted \in [Runs -> Seq(Units)]
    /\ crowded \in BOOLEAN

(* A rotation only sets aside (and the next one only removes) a file that   *)
(* is above the ceiling, whatever dashboards run, die and fail meanwhile,   *)
(* unless two of them rotate at once.                                       *)
RotatedIsFull ==
    ~crowded => \A f \in 1..Len(files) :
                   f # history => Len(files[f]) > HISTORY_MAX_BYTES

(* The units of one dashboard in a file, and the place of one among them. *)
Of(s, r) == {k \in 1..Len(s) : s[k].run = r}
Rank(s, r, k) == Cardinality({j \in Of(s, r) : j <= k})

Opened(r) == IF fd[r] = NoFile THEN <<>> ELSE files[fd[r]]
Written(r) == Cardinality(Of(Opened(r), r))

(* What a dashboard's BufWriter took is, in order and once, in the file     *)
(* that it opened and then in its buffer, even after others rotated the     *)
(* file; a dashboard that died leaves the first part of it.                 *)
InOrder(r) ==
    /\ \A f \in 1..Len(files) : f # fd[r] => Of(files[f], r) = {}
    /\ \A k \in Of(Opened(r), r) : Opened(r)[k] = accepted[r][Rank(Opened(r), r, k)]
    /\ Written(r) <= Len(accepted[r])
    /\ pc[r] # "ended" =>
          /\ Len(accepted[r]) = Written(r) + Len(buf[r])
          /\ \A i \in 1..Len(buf[r]) : buf[r][i] = accepted[r][Written(r) + i]

(* Without a failed write, nothing but the line in hand is missing. *)
NoneMissing(r) ==
    /\ pc[r] = "idle" => Written(r) = 3 * lines[r]
    /\ pc[r] = "ended" => Written(r) >= 3 * (lines[r] - 1)

(* Newline at k ends a line that is one entry's text and nothing else. *)
WholeAt(s, k) ==
    /\ k > 2
    /\ s[k - 2] = Unit(s[k].run, s[k].n, "head")
    /\ s[k - 1] = Unit(s[k].run, s[k].n, "tail")
    /\ k > 3 => s[k - 3].part = "nl"

Newlines(s) == {k \in 1..Len(s) : s[k].part = "nl"}

(* Every unit of a file belongs to a line that is one entry. *)
Legible(s) ==
    \A k \in 1..Len(s) : \E l \in Newlines(s) : k \in (l - 2)..l /\ WholeAt(s, l)

(* The history is what the dashboards logged: in order, and without a       *)
(* failed write also complete and with the lines of several dashboards      *)
(* never mixed.                                                             *)
Intact ==
    /\ \A r \in Runs : InOrder(r)
    /\ faults = 0 => /\ \A r \in Runs : NoneMissing(r)
                     /\ \A f \in 1..Len(files) : Legible(files[f])

(* The newlines of a file that end more or less than one entry's text, and  *)
(* those of all files.                                                      *)
Spoiled(s) == {k \in Newlines(s) : ~WholeAt(s, k)}
SpoiledLines == UNION {{f} \X Spoiled(files[f]) : f \in 1..Len(files)}

(* A failed call spoils at most four lines, of all that the dashboards ever *)
(* log.  It tears the text in at most two places, where it stops and where  *)
(* what it leaves in the buffer makes a later newline overflow; and a torn  *)
(* line is spoiled with the next one in the file.                           *)
LinesWhole == Cardinality(SpoiledLines) <= 4 * faults
==============================================================================
