-------------------------- MODULE HistoryLogProofs --------------------------
(***************************************************************************)
(* Theorems about HistoryLog, for any number of dashboards, any ceiling and *)
(* any capacity of the buffer.                                              *)
(***************************************************************************)
EXTENDS HistoryLog, SequenceTheorems, FiniteSetTheorems, TLAPS

Places == {"off", "remove", "rename", "open", "idle", "newline", "flush", "ended"}
Writing == {"idle", "newline", "flush"}

(* A file only grows, and no file disappears, when a buffer is written out. *)
Grown ==
    /\ Len(files') = Len(files)
    /\ \A f \in 1..Len(files) : Len(files'[f]) >= Len(files[f])

LEMMA CutType ==
    ASSUME NEW S, NEW s \in Seq(S), NEW k \in 0..Len(s)
    PROVE  /\ SubSeq(s, 1, k) \in Seq(S)
           /\ SubSeq(s, k + 1, Len(s)) \in Seq(S)
OBVIOUS

LEMMA JoinType ==
    ASSUME NEW S, NEW s \in Seq(S), NEW t \in Seq(S)
    PROVE  /\ s \o t \in Seq(S)
           /\ Len(s \o t) >= Len(s)
OBVIOUS

LEMMA WriteOutType ==
    ASSUME TypeOK, NEW r \in Runs, fd[r] # NoFile, NEW k \in 0..Len(buf[r]), WriteOut(r, k)
    PROVE  /\ files' \in Seq(Seq(Units)) /\ Grown
           /\ faults' \in Nat
           /\ Unwritten(r, k) \in Seq(Units)
<1> DEFINE f == fd[r]
           written == files[f] \o SubSeq(buf[r], 1, k)
<1>1. f \in 1..Len(files) /\ files \in Seq(Seq(Units)) /\ buf[r] \in Seq(Units)
  BY DEF TypeOK, NoFile
<1>2. files[f] \in Seq(Units)
  BY <1>1
<1>3. SubSeq(buf[r], 1, k) \in Seq(Units) /\ Unwritten(r, k) \in Seq(Units)
  BY <1>1, CutType DEF Unwritten
<1>4. written \in Seq(Units) /\ Len(written) >= Len(files[f])
  BY <1>2, <1>3, JoinType
<1>5. files' = [files EXCEPT ![f] = written]
  BY DEF WriteOut
<1> HIDE DEF f, written
<1>6. files' \in Seq(Seq(Units))
  BY <1>1, <1>4, <1>5
<1>7. Grown
  <2>1. Len(files') = Len(files)
    BY <1>1, <1>5
  <2>2. ASSUME NEW g \in 1..Len(files) PROVE Len(files'[g]) >= Len(files[g])
    <3>1. files[g] \in Seq(Units)
      BY <1>1
    <3>2. CASE g = f
      BY <1>1, <1>4, <1>5, <3>2
    <3>3. CASE g # f
      BY <1>1, <1>5, <3>1, <3>3
    <3> QED
      BY <3>2, <3>3
  <2> QED
    BY <2>1, <2>2 DEF Grown
<1>8. faults' \in Nat
  BY DEF WriteOut, TypeOK
<1> QED
  BY <1>3, <1>6, <1>7, <1>8

LEMMA PutType ==
    ASSUME TypeOK, NEW r \in Runs, fd[r] # NoFile, NEW units \in Seq(Units),
           NEW next \in Writing, Put(r, units, next)
    PROVE  /\ files' \in Seq(Seq(Units)) /\ Grown
           /\ faults' \in Nat
           /\ buf' \in [Runs -> Seq(Units)] /\ accepted' \in [Runs -> Seq(Units)]
           /\ pc' \in [Runs -> Places]
           /\ \E p \in Writing : pc' = [pc EXCEPT ![r] = p]
<1>1. /\ buf[r] \in Seq(Units) /\ accepted[r] \in Seq(Units)
      /\ buf \in [Runs -> Seq(Units)] /\ accepted \in [Runs -> Seq(Units)]
      /\ pc \in [Runs -> Places] /\ files \in Seq(Seq(Units)) /\ faults \in Nat
  BY DEF TypeOK, Places
<1>2. buf[r] \o units \in Seq(Units) /\ accepted[r] \o units \in Seq(Units)
  BY <1>1, JoinType
<1>3. "flush" \in Writing /\ Writing \subseteq Places
  BY DEF Writing, Places
<1>4. CASE Len(buf[r]) + Len(units) <= BufCap
  <2>1. /\ buf' = [buf EXCEPT ![r] = buf[r] \o units]
        /\ accepted' = [accepted EXCEPT ![r] = accepted[r] \o units]
        /\ pc' = [pc EXCEPT ![r] = next] /\ files' = files /\ faults' = faults
    BY <1>4 DEF Put
  <2>2. Grown
    BY <1>1, <2>1 DEF Grown
  <2>3. buf' \in [Runs -> Seq(Units)] /\ accepted' \in [Runs -> Seq(Units)]
    BY <1>1, <1>2, <2>1
  <2> QED
    BY <1>1, <1>3, <2>1, <2>2, <2>3
<1>5. CASE ~(Len(buf[r]) + Len(units) <= BufCap)
  <2>1. PICK k \in 0..Len(buf[r]) :
           /\ WriteOut(r, k)
           /\ IF k = Len(buf[r])
                THEN /\ buf' = [buf EXCEPT ![r] = units]
                     /\ accepted' = [accepted EXCEPT ![r] = accepted[r] \o units]
                     /\ pc' = [pc EXCEPT ![r] = next]
                ELSE /\ buf' = [buf EXCEPT ![r] = Unwritten(r, k)]
                     /\ pc' = [pc EXCEPT ![r] = "flush"]
                     /\ UNCHANGED accepted
    BY <1>5 DEF Put
  <2>2. /\ files' \in Seq(Seq(Units)) /\ Grown /\ faults' \in Nat
        /\ Unwritten(r, k) \in Seq(Units)
    BY <2>1, WriteOutType
  <2>3. buf' \in [Runs -> Seq(Units)] /\ accepted' \in [Runs -> Seq(Units)]
    BY <1>1, <1>2, <2>1, <2>2
  <2>4. \E p \in Writing : pc' = [pc EXCEPT ![r] = p]
    BY <1>3, <2>1
  <2> QED
    BY <1>1, <1>3, <2>2, <2>3, <2>4
<1> QED
  BY <1>4, <1>5

(* A step that writes, or does nothing else than move within a line, keeps  *)
(* the types: the directory and the open files do not change.               *)
LEMMA WritingType ==
    ASSUME TypeOK, UNCHANGED <<history, backup, crowded, fd>>,
           files' \in Seq(Seq(Units)), Len(files') = Len(files), faults' \in Nat,
           buf' \in [Runs -> Seq(Units)], accepted' \in [Runs -> Seq(Units)],
           lines' \in [Runs -> Nat], pc' \in [Runs -> Places],
           \A q \in Runs : pc'[q] \in Writing => fd[q] # NoFile
    PROVE  TypeOK'
BY DEF TypeOK, Places, Writing

LEMMA PlaceType ==
    ASSUME TypeOK, NEW r \in Runs, NEW p \in Places, pc' = [pc EXCEPT ![r] = p],
           p \in Writing => fd[r] # NoFile
    PROVE  /\ pc' \in [Runs -> Places] /\ pc'[r] = p
           /\ \A q \in Runs : q # r => pc'[q] = pc[q]
           /\ \A q \in Runs : pc'[q] \in Writing => fd[q] # NoFile
BY DEF TypeOK, Places, Writing

LEMMA DirectoryType ==
    ASSUME TypeOK, NEW r \in Runs,
           Stat(r) \/ RemoveBackup(r) \/ Rename(r) \/ OpenHistory(r) \/ CallFails(r)
    PROVE  TypeOK'
<1>1. CASE Stat(r)
  <2>1. pc' \in [Runs -> Places] /\ \A q \in Runs : pc'[q] \in Writing => fd[q] # NoFile
    BY <1>1 DEF Stat, TypeOK, Places, Writing
  <2>2. Due \in BOOLEAN /\ (\E q \in Runs : Rotating(q)) \in BOOLEAN
    BY DEF Due
  <2>3. crowded' \in BOOLEAN
    BY <1>1, <2>2 DEF Stat, TypeOK
  <2> QED
    BY <1>1, <2>1, <2>3 DEF Stat, TypeOK, Places, Writing
<1>2. CASE RemoveBackup(r)
  <2>1. pc' \in [Runs -> Places] /\ \A q \in Runs : pc'[q] \in Writing => fd[q] # NoFile
    BY <1>2, PlaceType DEF RemoveBackup, Places, Writing
  <2>2. backup' \in 0..Len(files) /\ (history # NoFile => backup' < history)
    BY <1>2 DEF RemoveBackup, NoFile, TypeOK
  <2> QED
    BY <1>2, <2>1, <2>2 DEF RemoveBackup, TypeOK, Places, Writing
<1>3. CASE Rename(r)
  <2>1. pc' \in [Runs -> Places] /\ \A q \in Runs : pc'[q] \in Writing => fd[q] # NoFile
    BY <1>3, PlaceType DEF Rename, Places, Writing
  <2>2. /\ history' \in {NoFile, Len(files)} /\ backup' \in 0..Len(files)
        /\ history' # NoFile => backup' < history'
    BY <1>3 DEF Rename, Moved, NoFile, TypeOK
  <2> QED
    BY <1>3, <2>1, <2>2 DEF Rename, TypeOK, Places, Writing
<1>4. CASE OpenHistory(r)
  <2>1. /\ files' \in Seq(Seq(Units)) /\ Len(files') >= Len(files)
        /\ history' = Len(files') /\ history' # NoFile /\ backup' < history'
    <3>1. <<>> \in Seq(Units) /\ files \in Seq(Seq(Units))
      BY DEF TypeOK
    <3>2. Append(files, <<>>) \in Seq(Seq(Units)) /\ Len(Append(files, <<>>)) = Len(files) + 1
      BY <3>1
    <3>3. CASE history = NoFile
      <4>1. files' = Append(files, <<>>) /\ history' = Len(files) + 1 /\ backup' = backup
        BY <1>4, <3>3 DEF OpenHistory
      <4>2. backup \in 0..Len(files) /\ Len(files) \in Nat
        BY <3>1 DEF TypeOK
      <4> QED
        BY <3>2, <4>1, <4>2 DEF NoFile
    <3>4. CASE history # NoFile
      <4>1. files' = files /\ history' = history /\ backup' = backup
        BY <1>4, <3>4 DEF OpenHistory
      <4>2. history = Len(files) /\ backup < history
        BY <3>4 DEF TypeOK
      <4> QED
        BY <3>1, <3>4, <4>1, <4>2
    <3> QED
      BY <3>3, <3>4
  <2>2. fd' \in [Runs -> 0..Len(files')] /\ fd'[r] # NoFile
        /\ \A q \in Runs : q # r => fd'[q] = fd[q]
    BY <1>4, <2>1 DEF OpenHistory, TypeOK
  <2>3. pc' \in [Runs -> Places] /\ \A q \in Runs : pc'[q] \in Writing => fd'[q] # NoFile
    BY <1>4, <2>2 DEF OpenHistory, TypeOK, Places, Writing
  <2> QED
    BY <1>4, <2>1, <2>2, <2>3 DEF OpenHistory, TypeOK, Places, Writing
<1>5. CASE CallFails(r)
  <2>1. \E p \in {"rename", "open", "ended"} : pc' = [pc EXCEPT ![r] = p]
    BY <1>5 DEF CallFails
  <2>2. pc' \in [Runs -> Places] /\ \A q \in Runs : pc'[q] \in Writing => fd[q] # NoFile
    BY <2>1, PlaceType DEF Places, Writing
  <2> QED
    BY <1>5, <2>2 DEF CallFails, dirVars, TypeOK, Places, Writing
<1> QED
  BY <1>1, <1>2, <1>3, <1>4, <1>5

LEMMA LineType ==
    ASSUME TypeOK, NEW r \in Runs, WriteLine(r) \/ WriteNewline(r)
    PROVE  TypeOK' /\ Grown /\ UNCHANGED dirVars
           /\ \E p \in Writing : pc' = [pc EXCEPT ![r] = p]
<1>1. fd[r] # NoFile /\ lines[r] \in Nat
  BY DEF WriteLine, WriteNewline, TypeOK
<1>2. \A n \in Nat, part \in {"head", "tail", "nl"} : Unit(r, n, part) \in Units
  BY DEF Unit, Units
<1>3. PICK units \in Seq(Units), next \in Writing : Put(r, units, next)
  <2>1. CASE WriteLine(r)
    <3>1. <<Unit(r, lines[r] + 1, "head"), Unit(r, lines[r] + 1, "tail")>> \in Seq(Units)
      BY <1>1, <1>2
    <3> QED
      BY <2>1, <3>1 DEF WriteLine, Writing
  <2>2. CASE WriteNewline(r)
    <3>1. <<Unit(r, lines[r], "nl")>> \in Seq(Units)
      BY <1>1, <1>2
    <3> QED
      BY <2>2, <3>1 DEF WriteNewline, Writing
  <2> QED
    BY <2>1, <2>2
<1>4. /\ files' \in Seq(Seq(Units)) /\ Grown
      /\ faults' \in Nat
      /\ buf' \in [Runs -> Seq(Units)] /\ accepted' \in [Runs -> Seq(Units)]
      /\ pc' \in [Runs -> Places]
      /\ \E p \in Writing : pc' = [pc EXCEPT ![r] = p]
  BY <1>1, <1>3, PutType
<1>5. \A q \in Runs : pc'[q] \in Writing => fd[q] # NoFile
  BY <1>1, <1>4, PlaceType DEF Places, Writing
<1>6. lines' \in [Runs -> Nat] /\ UNCHANGED dirVars /\ UNCHANGED fd
  <2>1. lines \in [Runs -> Nat] /\ [lines EXCEPT ![r] = @ + 1] \in [Runs -> Nat]
    BY <1>1 DEF TypeOK
  <2>2. lines' = [lines EXCEPT ![r] = @ + 1] \/ lines' = lines
    BY DEF WriteLine, WriteNewline
  <2>3. UNCHANGED dirVars /\ UNCHANGED fd
    BY DEF WriteLine, WriteNewline
  <2> QED
    BY <2>1, <2>2, <2>3
<1>7. TypeOK'
  BY <1>4, <1>5, <1>6, WritingType DEF Grown, dirVars
<1> QED
  BY <1>4, <1>6, <1>7

LEMMA EndType ==
    ASSUME TypeOK, NEW r \in Runs, Flush(r) \/ Quit(r) \/ Kill(r)
    PROVE  TypeOK' /\ Grown /\ UNCHANGED dirVars
           /\ \E p \in {"idle", "ended"} : pc' = [pc EXCEPT ![r] = p]
<1>1. <<>> \in Seq(Units) /\ buf \in [Runs -> Seq(Units)]
      /\ UNCHANGED dirVars /\ UNCHANGED <<fd, lines, accepted>>
  BY DEF Flush, Quit, Kill, TypeOK
<1>2. /\ files' \in Seq(Seq(Units)) /\ Grown /\ faults' \in Nat
      /\ buf' \in [Runs -> Seq(Units)]
  <2>1. CASE Flush(r)
    <3>1. PICK k \in 0..Len(buf[r]) :
             WriteOut(r, k) /\ buf' = [buf EXCEPT ![r] = Unwritten(r, k)]
      BY <2>1 DEF Flush
    <3>2. fd[r] # NoFile
      BY <2>1 DEF Flush, TypeOK
    <3>3. /\ files' \in Seq(Seq(Units)) /\ Grown /\ faults' \in Nat
          /\ Unwritten(r, k) \in Seq(Units)
      BY <3>1, <3>2, WriteOutType
    <3> QED
      BY <1>1, <3>1, <3>3
  <2>2. CASE Quit(r)
    <3>1. PICK k \in 0..Len(buf[r]) : WriteOut(r, k)
      BY <2>2 DEF Quit
    <3>2. fd[r] # NoFile
      BY <2>2 DEF Quit, TypeOK
    <3>3. files' \in Seq(Seq(Units)) /\ Grown /\ faults' \in Nat
      BY <3>1, <3>2, WriteOutType
    <3>4. buf' \in [Runs -> Seq(Units)]
      BY <1>1, <2>2 DEF Quit
    <3> QED
      BY <3>3, <3>4
  <2>3. CASE Kill(r)
    <3>1. files' = files /\ faults' = faults /\ buf' \in [Runs -> Seq(Units)]
      BY <1>1, <2>3 DEF Kill
    <3>2. \A f \in 1..Len(files) : Len(files[f]) \in Nat
      BY DEF TypeOK
    <3> QED
      BY <3>1, <3>2 DEF Grown, TypeOK
  <2> QED
    BY <2>1, <2>2, <2>3
<1>3. PICK p \in {"idle", "ended"} : /\ pc' = [pc EXCEPT ![r] = p]
                                     /\ p = "idle" => fd[r] # NoFile
  BY DEF Flush, Quit, Kill, TypeOK
<1>4. pc' \in [Runs -> Places] /\ \A q \in Runs : pc'[q] \in Writing => fd[q] # NoFile
  BY <1>3, PlaceType DEF Places, Writing
<1>5. lines' \in [Runs -> Nat] /\ accepted' \in [Runs -> Seq(Units)]
  BY <1>1 DEF TypeOK
<1>6. TypeOK'
  BY <1>1, <1>2, <1>4, <1>5, WritingType DEF Grown, dirVars
<1> QED
  BY <1>1, <1>2, <1>3, <1>6

(* Every variable keeps its type; history.jsonl is always the newest file   *)
(* and the backup an older one, however dashboards rotate at once.          *)
THEOREM TypeCorrect == Spec => []TypeOK
<1>1. Init => TypeOK
  <2> SUFFICES ASSUME Init PROVE TypeOK
    OBVIOUS
  <2>1. <<>> \in Seq(Seq(Units)) /\ <<>> \in Seq(Units)
    OBVIOUS
  <2>2. files \in Seq(Seq(Units)) /\ Len(files) = 0
    BY <2>1 DEF Init
  <2>3. buf \in [Runs -> Seq(Units)] /\ accepted \in [Runs -> Seq(Units)]
    BY <2>1 DEF Init
  <2>4. fd \in [Runs -> 0..Len(files)] /\ lines \in [Runs -> Nat]
    BY <2>2 DEF Init, NoFile
  <2>5. /\ pc \in [Runs -> Places]
        /\ \A r \in Runs : pc[r] \in Writing => fd[r] # NoFile
    BY DEF Init, Places, Writing
  <2>6. /\ history \in {NoFile, Len(files)} /\ backup \in 0..Len(files)
        /\ history # NoFile => backup < history
    BY <2>2 DEF Init, NoFile
  <2>7. faults \in Nat /\ crowded \in BOOLEAN
    BY DEF Init
  <2> QED
    BY <2>2, <2>3, <2>4, <2>5, <2>6, <2>7 DEF TypeOK, Places, Writing
<1>2. TypeOK /\ [Next]_vars => TypeOK'
  <2> SUFFICES ASSUME TypeOK, [Next]_vars PROVE TypeOK'
    OBVIOUS
  <2>1. CASE UNCHANGED vars
    BY <2>1 DEF vars, TypeOK
  <2> QED
    BY <2>1, DirectoryType, LineType, EndType DEF Next, Dashboard
<1> QED
  BY <1>1, <1>2, PTL DEF Spec

------------------------------------------------------------------------------
(* A rotation has found the file above the ceiling, and it stays so until   *)
(* it is renamed, because no other dashboard rotates meanwhile.             *)
RotationInv ==
    ~crowded =>
        /\ \A f \in 1..Len(files) : f # history => Len(files[f]) > HISTORY_MAX_BYTES
        /\ \A r \in Runs : Rotating(r) => Due
        /\ \A r, q \in Runs : Rotating(r) /\ Rotating(q) => r = q

(* Writing keeps it: files only grow.                                       *)
LEMMA GrownRotation ==
    ASSUME TypeOK, TypeOK', RotationInv, Grown, UNCHANGED dirVars,
           \A q \in Runs : Rotating(q)' => Rotating(q)
    PROVE  RotationInv'
<1> SUFFICES ASSUME ~crowded' PROVE RotationInv'
  BY DEF RotationInv
<1>1. history' = history /\ ~crowded
  BY DEF dirVars
<1>2. \A f \in 1..Len(files) :
         /\ Len(files[f]) \in Nat /\ Len(files'[f]) \in Nat
         /\ Len(files[f]) > HISTORY_MAX_BYTES => Len(files'[f]) > HISTORY_MAX_BYTES
  BY HistoryAssumption DEF TypeOK, Grown
<1>3. Due => Due'
  BY <1>1, <1>2 DEF Due, TypeOK, NoFile
<1>4. \A f \in 1..Len(files') : f # history' => Len(files'[f]) > HISTORY_MAX_BYTES
  BY <1>1, <1>2 DEF Grown, RotationInv
<1> QED
  BY <1>1, <1>3, <1>4 DEF RotationInv

LEMMA DirectoryRotation ==
    ASSUME TypeOK, RotationInv, NEW r \in Runs,
           Stat(r) \/ RemoveBackup(r) \/ Rename(r) \/ OpenHistory(r) \/ CallFails(r)
    PROVE  RotationInv'
<1> SUFFICES ASSUME ~crowded' PROVE RotationInv'
  BY DEF RotationInv
<1>0. ~crowded
  BY DEF Stat, RemoveBackup, Rename, OpenHistory, CallFails, dirVars
<1>1. CASE Stat(r)
  <2>1. files' = files /\ history' = history /\ Due' = Due
    BY <1>1 DEF Stat, Due
  <2>2. \A q \in Runs : q # r => Rotating(q)' = Rotating(q)
    BY <1>1 DEF Stat, Rotating, TypeOK
  <2>3. Rotating(r)' => Due /\ \A q \in Runs : ~Rotating(q)
    BY <1>1 DEF Stat, Rotating, TypeOK
  <2> QED
    BY <1>0, <2>1, <2>2, <2>3 DEF RotationInv
<1>2. CASE RemoveBackup(r)
  <2>1. files' = files /\ history' = history /\ Due' = Due /\ Rotating(r)
    BY <1>2 DEF RemoveBackup, Due, Rotating
  <2>2. \A q \in Runs : q # r => Rotating(q)' = Rotating(q)
    BY <1>2 DEF RemoveBackup, Rotating, TypeOK
  <2> QED
    BY <1>0, <2>1, <2>2 DEF RotationInv
<1>3. CASE Rename(r)
  <2>1. Due /\ \A q \in Runs : q # r => ~Rotating(q)
    BY <1>0, <1>3 DEF Rename, Rotating, RotationInv
  <2>2. history # NoFile /\ Len(files[history]) > HISTORY_MAX_BYTES
    BY <2>1 DEF Due
  <2>3. \A q \in Runs : ~Rotating(q)'
    BY <1>3, <2>1 DEF Rename, Rotating, TypeOK
  <2>4. files' = files
    BY <1>3 DEF Rename
  <2> QED
    BY <1>0, <2>2, <2>3, <2>4 DEF RotationInv
<1>4. CASE OpenHistory(r)
  <2>1. \A q \in Runs : Rotating(q)' = Rotating(q) \/ (q = r /\ ~Rotating(q)')
    BY <1>4 DEF OpenHistory, Rotating, TypeOK
  <2>2. CASE history # NoFile
    <3>1. files' = files /\ history' = history /\ Due' = Due
      BY <1>4, <2>2 DEF OpenHistory, Due
    <3> QED
      BY <1>0, <2>1, <3>1 DEF RotationInv
  <2>3. CASE history = NoFile
    <3>1. \A q \in Runs : ~Rotating(q)'
      BY <1>0, <2>1, <2>3 DEF RotationInv, Due
    <3>2. files' = Append(files, <<>>) /\ history' = Len(files) + 1
      BY <1>4, <2>3 DEF OpenHistory
    <3>3. Len(files') = Len(files) + 1 /\ \A f \in 1..Len(files) : files'[f] = files[f]
      BY <3>2 DEF TypeOK
    <3>4. \A f \in 1..Len(files') : f # history' => f \in 1..Len(files)
      BY <3>2, <3>3 DEF TypeOK
    <3>5. \A f \in 1..Len(files) : f # history
      BY <2>3 DEF NoFile
    <3> QED
      BY <1>0, <3>1, <3>3, <3>4, <3>5 DEF RotationInv
  <2> QED
    BY <2>2, <2>3
<1>5. CASE CallFails(r)
  <2>1. files' = files /\ history' = history /\ Due' = Due
    BY <1>5 DEF CallFails, dirVars, Due
  <2>2. \A q \in Runs : Rotating(q)' => Rotating(q)
    BY <1>5 DEF CallFails, Rotating, TypeOK
  <2> QED
    BY <1>0, <2>1, <2>2 DEF RotationInv
<1> QED
  BY <1>1, <1>2, <1>3, <1>4, <1>5

(* Only a file above the ceiling is ever set aside, for any number of       *)
(* dashboards, deaths and failed calls, unless two rotate at once.          *)
THEOREM RotatedFilesAreFull == Spec => []RotatedIsFull
<1>1. Init => RotationInv
  BY DEF Init, RotationInv, Rotating
<1>2. TypeOK /\ TypeOK' /\ RotationInv /\ [Next]_vars => RotationInv'
  <2> SUFFICES ASSUME TypeOK, TypeOK', RotationInv, [Next]_vars PROVE RotationInv'
    OBVIOUS
  <2>1. CASE UNCHANGED vars
    BY <2>1 DEF vars, RotationInv, Rotating, Due
  <2>2. ASSUME NEW r \in Runs, WriteLine(r) \/ WriteNewline(r) \/ Flush(r) \/ Quit(r) \/ Kill(r)
        PROVE  RotationInv'
    <3>1. Grown /\ UNCHANGED dirVars
      BY <2>2, LineType, EndType
    <3>2. \E p \in Writing \cup {"ended"} : pc' = [pc EXCEPT ![r] = p]
      BY <2>2, LineType, EndType DEF Writing
    <3>3. \A q \in Runs : Rotating(q)' => Rotating(q)
      BY <3>2 DEF Rotating, Writing, TypeOK
    <3> QED
      BY <3>1, <3>3, GrownRotation
  <2> QED
    BY <2>1, <2>2, DirectoryRotation DEF Next, Dashboard
<1>3. RotationInv => RotatedIsFull
  BY DEF RotationInv, RotatedIsFull
<1> QED
  BY <1>1, <1>2, <1>3, TypeCorrect, PTL DEF Spec
------------------------------------------------------------------------------
(* Counting the units of a dashboard in a file. *)

LEMMA UnitsCounted ==
    ASSUME NEW s \in Seq(Units), NEW r
    PROVE  /\ IsFiniteSet(Of(s, r)) /\ Cardinality(Of(s, r)) \in Nat
           /\ \A k \in Of(s, r) : Rank(s, r, k) \in 1..Cardinality(Of(s, r))
<1>1. IsFiniteSet(1..Len(s)) /\ Of(s, r) \in SUBSET (1..Len(s))
  BY FS_Interval DEF Of
<1>2. IsFiniteSet(Of(s, r)) /\ Cardinality(Of(s, r)) \in Nat
  BY <1>1, FS_Subset, FS_CardinalityType
<1>3. ASSUME NEW k \in Of(s, r) PROVE Rank(s, r, k) \in 1..Cardinality(Of(s, r))
  <2> DEFINE R == {j \in Of(s, r) : j <= k}
  <2>1. k \in R /\ R \in SUBSET Of(s, r)
    BY <1>1
  <2>2. /\ IsFiniteSet(R) /\ Cardinality(R) <= Cardinality(Of(s, r))
        /\ Cardinality(R) \in Nat /\ Cardinality(R) # 0
    BY <1>2, <2>1, FS_Subset, FS_CardinalityType, FS_EmptySet
  <2>3. Rank(s, r, k) = Cardinality(R)
    BY DEF Rank
  <2> HIDE DEF R
  <2> QED
    BY <1>2, <2>2, <2>3
<1> QED
  BY <1>2, <1>3

(* File u is file s with units t of dashboard r at its end. *)
Appends(s, t, r, u) ==
    /\ s \in Seq(Units) /\ t \in Seq(Units) /\ u = s \o t
    /\ \A i \in 1..Len(t) : t[i].run = r

LEMMA AppendedAt ==
    ASSUME NEW s, NEW t, NEW r, NEW u, Appends(s, t, r, u)
    PROVE  /\ u \in Seq(Units) /\ Len(u) = Len(s) + Len(t)
           /\ \A k \in 1..Len(s) : u[k] = s[k]
           /\ \A i \in 1..Len(t) : u[Len(s) + i] = t[i]
BY DEF Appends

LEMMA OthersUnits ==
    ASSUME NEW s, NEW t, NEW r, NEW u, Appends(s, t, r, u), NEW q, q # r
    PROVE  Of(u, q) = Of(s, q) /\ \A k \in Of(s, q) : u[k] = s[k] /\ Rank(u, q, k) = Rank(s, q, k)
<1>1. Of(u, q) = Of(s, q)
  <2>1. \A k \in 1..Len(u) : k \in 1..Len(s) \/ \E i \in 1..Len(t) : k = Len(s) + i
    <3>1. \A k \in 1..Len(u) : k \notin 1..Len(s) => k - Len(s) \in 1..Len(t) /\ k = Len(s) + (k - Len(s))
      BY AppendedAt DEF Appends
    <3> QED
      BY <3>1
  <2>2. \A k \in 1..Len(s) : k \in 1..Len(u)
    BY AppendedAt DEF Appends
  <2>3. \A i \in 1..Len(t) : u[Len(s) + i].run # q
    BY AppendedAt DEF Appends
  <2> QED
    BY <2>1, <2>2, <2>3, AppendedAt DEF Of
<1>2. \A k \in Of(s, q) : u[k] = s[k]
  BY AppendedAt DEF Of
<1> QED
  BY <1>1, <1>2 DEF Rank

LEMMA OwnUnits ==
    ASSUME NEW s, NEW t, NEW r, NEW u, Appends(s, t, r, u)
    PROVE  /\ Cardinality(Of(u, r)) = Cardinality(Of(s, r)) + Len(t)
           /\ \A k \in Of(s, r) : u[k] = s[k] /\ Rank(u, r, k) = Rank(s, r, k)
           /\ \A k \in Of(u, r) : k \notin Of(s, r) =>
                 \E i \in 1..Len(t) : /\ u[k] = t[i]
                                      /\ Rank(u, r, k) = Cardinality(Of(s, r)) + i
<1> DEFINE New(i) == (Len(s) + 1)..(Len(s) + i)
<1>1. Len(s) \in Nat /\ Len(t) \in Nat /\ s \in Seq(Units)
  BY DEF Appends
<1>2. /\ Of(s, r) \subseteq 1..Len(s) /\ Of(s, r) \subseteq Of(u, r)
      /\ \A k \in Of(u, r) : k \in Of(s, r) \/ k \in New(Len(t))
      /\ New(Len(t)) \subseteq Of(u, r)
  <2>1. \A k \in 1..Len(s) : k \in 1..Len(u) /\ u[k] = s[k]
    BY <1>1, AppendedAt
  <2>2. \A k \in New(Len(t)) : k \in 1..Len(u) /\ k \notin 1..Len(s) /\ u[k].run = r
    <3>1. \A k \in New(Len(t)) : k - Len(s) \in 1..Len(t) /\ k = Len(s) + (k - Len(s))
      BY <1>1
    <3>2. \A k \in New(Len(t)) : k \in 1..Len(u) /\ k \notin 1..Len(s)
      BY <1>1, AppendedAt
    <3>3. \A i \in 1..Len(t) : u[Len(s) + i].run = r
      BY AppendedAt DEF Appends
    <3> HIDE DEF New
    <3> QED
      BY <3>1, <3>2, <3>3
  <2>3. \A k \in 1..Len(u) : k \in 1..Len(s) \/ k \in New(Len(t))
    BY <1>1, AppendedAt
  <2> HIDE DEF New
  <2> QED
    BY <2>1, <2>2, <2>3 DEF Of
<1>3. ASSUME NEW i \in 0..Len(t)
      PROVE  Cardinality(Of(s, r) \cup New(i)) = Cardinality(Of(s, r)) + i
  <2>1. IsFiniteSet(New(i)) /\ Cardinality(New(i)) = i
    <3>1. \A a \in Int : \A b \in Int :
             IsFiniteSet(a..b) /\ Cardinality(a..b) = IF a > b THEN 0 ELSE b - a + 1
      BY FS_Interval
    <3>2. PICK a \in Int, b \in Int : a = Len(s) + 1 /\ b = Len(s) + i
      BY <1>1
    <3>3. IsFiniteSet(a..b) /\ Cardinality(a..b) = i
      BY <1>1, <3>1, <3>2
    <3> QED
      BY <3>2, <3>3
  <2>2. Of(s, r) \cap New(i) = {}
    BY <1>1, <1>2
  <2>3. IsFiniteSet(Of(s, r)) /\ Cardinality(Of(s, r)) \in Nat
    BY <1>1, UnitsCounted
  <2> HIDE DEF New
  <2>4. Cardinality(Of(s, r) \cup New(i)) =
           Cardinality(Of(s, r)) + Cardinality(New(i)) - Cardinality(Of(s, r) \cap New(i))
    BY <2>1, <2>3, FS_Union
  <2>5. Cardinality(Of(s, r) \cap New(i)) = 0
    BY <2>2, FS_EmptySet
  <2> QED
    BY <2>1, <2>3, <2>4, <2>5
<1>4. Cardinality(Of(u, r)) = Cardinality(Of(s, r)) + Len(t)
  <2>1. Of(u, r) = Of(s, r) \cup New(Len(t))
    BY <1>2
  <2> HIDE DEF New
  <2> QED
    BY <1>1, <1>3, <2>1
<1>5. ASSUME NEW k \in Of(s, r) PROVE u[k] = s[k] /\ Rank(u, r, k) = Rank(s, r, k)
  <2>1. {j \in Of(u, r) : j <= k} = {j \in Of(s, r) : j <= k}
    BY <1>1, <1>2
  <2>2. k \in 1..Len(s)
    BY <1>2
  <2>3. Rank(u, r, k) = Rank(s, r, k)
    BY <2>1, Zenon DEF Rank
  <2> QED
    BY <2>2, <2>3, AppendedAt
<1>6. ASSUME NEW k \in Of(u, r), k \notin Of(s, r)
      PROVE  \E i \in 1..Len(t) : /\ u[k] = t[i]
                                  /\ Rank(u, r, k) = Cardinality(Of(s, r)) + i
  <2>1. PICK i \in 1..Len(t) : k = Len(s) + i
    <3>1. k \in New(Len(t))
      BY <1>2, <1>6
    <3>2. k - Len(s) \in 1..Len(t) /\ k = Len(s) + (k - Len(s))
      BY <1>1, <3>1
    <3> QED
      BY <3>2
  <2>2. u[k] = t[i]
    BY <2>1, AppendedAt
  <2>3. {j \in Of(u, r) : j <= k} = Of(s, r) \cup New(i)
    <3>1. \A j \in New(i) : j \in New(Len(t)) /\ j <= k
      BY <1>1, <2>1
    <3>2. \A j \in New(Len(t)) : j <= k => j \in New(i)
      BY <1>1, <2>1
    <3>3. \A j \in 1..Len(s) : j <= k
      BY <1>1, <2>1
    <3> HIDE DEF New
    <3> QED
      BY <1>2, <3>1, <3>2, <3>3
  <2>4. Rank(u, r, k) = Cardinality(Of(s, r) \cup New(i))
    BY <2>3 DEF Rank
  <2> HIDE DEF New
  <2>5. Rank(u, r, k) = Cardinality(Of(s, r)) + i
    BY <1>1, <1>3, <2>4
  <2> QED
    BY <2>2, <2>5
<1> HIDE DEF New
<1> QED
  BY <1>4, <1>5, <1>6

LEMMA SequenceFacts ==
    ASSUME NEW S, NEW s \in Seq(S)
    PROVE  /\ s \o <<>> = s /\ <<>> \o s = s
           /\ SubSeq(s, 1, 0) = <<>> /\ SubSeq(s, 1, Len(s)) = s
           /\ SubSeq(s, Len(s) + 1, Len(s)) = <<>>
OBVIOUS

LEMMA CutAt ==
    ASSUME NEW S, NEW s \in Seq(S), NEW k \in 0..Len(s)
    PROVE  /\ Len(SubSeq(s, 1, k)) = k /\ Len(SubSeq(s, k + 1, Len(s))) = Len(s) - k
           /\ \A i \in 1..k : SubSeq(s, 1, k)[i] = s[i]
           /\ \A i \in 1..(Len(s) - k) : SubSeq(s, k + 1, Len(s))[i] = s[k + i]
OBVIOUS

LEMMA JoinAt ==
    ASSUME NEW S, NEW s \in Seq(S), NEW t \in Seq(S)
    PROVE  /\ Len(s \o t) = Len(s) + Len(t)
           /\ \A i \in 1..Len(s) : (s \o t)[i] = s[i]
           /\ \A i \in 1..Len(t) : (s \o t)[Len(s) + i] = t[i]
OBVIOUS

------------------------------------------------------------------------------
(* A dashboard has taken nothing before it has a file, and only its own     *)
(* units.                                                                   *)
Opening(r) ==
    /\ pc[r] \in {"off", "remove", "rename", "open"} => fd[r] = NoFile
    /\ fd[r] = NoFile => accepted[r] = <<>>
    /\ \A i \in 1..Len(accepted[r]) : accepted[r][i].run = r

OrderInv == \A r \in Runs : InOrder(r) /\ Opening(r)

(* What each write does: the first k units of the buffer go to the file,    *)
(* and more units are taken.                                                *)
Passes(r, k, more) ==
    /\ pc[r] # "ended" /\ pc' \in [Runs -> Places] /\ pc'[r] \in Writing \cup {"ended"}
    /\ fd[r] # NoFile /\ fd' = fd
    /\ k \in 0..Len(buf[r])
    /\ more \in Seq(Units) /\ \A i \in 1..Len(more) : more[i].run = r
    /\ files' = [files EXCEPT ![fd[r]] = @ \o SubSeq(buf[r], 1, k)]
    /\ accepted' = [accepted EXCEPT ![r] = @ \o more]
    /\ pc'[r] # "ended" => buf'[r] = Unwritten(r, k) \o more
    /\ \A q \in Runs : q # r => pc'[q] = pc[q] /\ buf'[q] = buf[q]

(* The units that a dashboard takes or writes are its own. *)
LEMMA OwnBuffer ==
    ASSUME TypeOK, NEW r \in Runs, InOrder(r), Opening(r), pc[r] # "ended"
    PROVE  \A i \in 1..Len(buf[r]) : buf[r][i].run = r
<1>1. /\ buf[r] \in Seq(Units) /\ accepted[r] \in Seq(Units)
      /\ Written(r) \in Nat /\ Len(accepted[r]) = Written(r) + Len(buf[r])
  <2>1. Opened(r) \in Seq(Units)
    BY DEF Opened, TypeOK, NoFile
  <2> QED
    BY <2>1, UnitsCounted DEF Written, InOrder, TypeOK
<1>2. \A i \in 1..Len(buf[r]) :
         Written(r) + i \in 1..Len(accepted[r]) /\ buf[r][i] = accepted[r][Written(r) + i]
  BY <1>1 DEF InOrder
<1> QED
  BY <1>2 DEF Opening

LEMMA PassingAppends ==
    ASSUME TypeOK, NEW r \in Runs, InOrder(r), Opening(r), NEW k, NEW more, Passes(r, k, more)
    PROVE  /\ fd[r] \in 1..Len(files) /\ Len(files') = Len(files)
           /\ Appends(files[fd[r]], SubSeq(buf[r], 1, k), r, files'[fd[r]])
           /\ \A f \in 1..Len(files) : f # fd[r] => files'[f] = files[f]
<1>1. /\ fd[r] \in 1..Len(files) /\ files \in Seq(Seq(Units)) /\ buf[r] \in Seq(Units)
      /\ files[fd[r]] \in Seq(Units)
  BY DEF Passes, TypeOK, NoFile
<1>2. /\ Len(files') = Len(files)
      /\ files'[fd[r]] = files[fd[r]] \o SubSeq(buf[r], 1, k)
      /\ \A f \in 1..Len(files) : f # fd[r] => files'[f] = files[f]
  <2> DEFINE w == files[fd[r]] \o SubSeq(buf[r], 1, k)
  <2>1. files' = [files EXCEPT ![fd[r]] = w]
    BY DEF Passes
  <2> HIDE DEF w
  <2>2. /\ Len(files') = Len(files) /\ files'[fd[r]] = w
        /\ \A f \in 1..Len(files) : f # fd[r] => files'[f] = files[f]
    BY <1>1, <2>1
  <2> QED
    BY <2>2 DEF w
<1>3. SubSeq(buf[r], 1, k) \in Seq(Units)
  BY <1>1, CutType DEF Passes
<1>4. \A i \in 1..Len(SubSeq(buf[r], 1, k)) : SubSeq(buf[r], 1, k)[i].run = r
  <2>1. k \in 0..Len(buf[r]) /\ Len(buf[r]) \in Nat
    BY <1>1 DEF Passes
  <2>2. \A i \in 1..Len(buf[r]) : buf[r][i].run = r
    BY OwnBuffer DEF Passes
  <2>3. Len(SubSeq(buf[r], 1, k)) = k /\ \A i \in 1..k : SubSeq(buf[r], 1, k)[i] = buf[r][i]
    BY <1>1, <2>1, CutAt
  <2> QED
    BY <2>1, <2>2, <2>3
<1> QED
  BY <1>1, <1>2, <1>3, <1>4 DEF Appends

LEMMA PassingOthers ==
    ASSUME TypeOK, NEW r \in Runs, InOrder(r), Opening(r), NEW k, NEW more, Passes(r, k, more),
           NEW q \in Runs, q # r, InOrder(q), Opening(q)
    PROVE  InOrder(q)' /\ Opening(q)' /\ Written(q)' = Written(q)
<1> DEFINE s == files[fd[r]]
           t == SubSeq(buf[r], 1, k)
           u == files'[fd[r]]
<1>1. /\ fd[r] \in 1..Len(files) /\ Len(files') = Len(files)
      /\ Appends(s, t, r, u)
      /\ \A f \in 1..Len(files) : f # fd[r] => files'[f] = files[f]
  BY PassingAppends
<1>2. /\ fd' = fd /\ pc'[q] = pc[q] /\ buf'[q] = buf[q] /\ accepted'[q] = accepted[q]
      /\ fd[q] \in 0..Len(files)
  BY DEF Passes, TypeOK
<1>3. \A f \in 1..Len(files) :
         /\ Of(files'[f], q) = Of(files[f], q)
         /\ \A j \in Of(files[f], q) : /\ files'[f][j] = files[f][j]
                                       /\ Rank(files'[f], q, j) = Rank(files[f], q, j)
  <2> HIDE DEF t
  <2>1. Of(u, q) = Of(s, q) /\ \A j \in Of(s, q) : u[j] = s[j] /\ Rank(u, q, j) = Rank(s, q, j)
    BY <1>1, OthersUnits
  <2> QED
    BY <1>1, <2>1
<1>4. /\ Of(Opened(q)', q) = Of(Opened(q), q)
      /\ \A j \in Of(Opened(q), q) : /\ Opened(q)'[j] = Opened(q)[j]
                                     /\ Rank(Opened(q)', q, j) = Rank(Opened(q), q, j)
  <2>1. CASE fd[q] = NoFile
    BY <1>2, <2>1 DEF Opened
  <2>2. CASE fd[q] # NoFile
    <3>1. fd[q] \in 1..Len(files)
      BY <1>2, <2>2 DEF NoFile
    <3>2. Opened(q) = files[fd[q]] /\ Opened(q)' = files'[fd[q]]
      BY <1>2, <2>2 DEF Opened
    <3> QED
      BY <1>3, <3>1, <3>2
  <2> QED
    BY <2>1, <2>2
<1>5. Written(q)' = Written(q)
  BY <1>4 DEF Written
<1>6. InOrder(q)'
  BY <1>1, <1>2, <1>3, <1>4, <1>5 DEF InOrder
<1>7. Opening(q)'
  BY <1>2 DEF Opening
<1> QED
  BY <1>5, <1>6, <1>7

LEMMA PassingMine ==
    ASSUME TypeOK, TypeOK', NEW r \in Runs, InOrder(r), Opening(r),
           NEW k, NEW more, Passes(r, k, more)
    PROVE  InOrder(r)' /\ Opening(r)' /\ Written(r)' = Written(r) + k
<1> DEFINE s == files[fd[r]]
           t == SubSeq(buf[r], 1, k)
           u == files'[fd[r]]
           n == Written(r)
           a == accepted[r]
           b == accepted'[r]
<1>1. /\ fd[r] \in 1..Len(files) /\ Len(files') = Len(files)
      /\ Appends(s, t, r, u)
      /\ \A f \in 1..Len(files) : f # fd[r] => files'[f] = files[f]
  BY PassingAppends
<1>2. /\ a \in Seq(Units) /\ buf[r] \in Seq(Units) /\ more \in Seq(Units)
      /\ k \in 0..Len(buf[r]) /\ Len(buf[r]) \in Nat /\ Len(a) \in Nat
      /\ Unwritten(r, k) \in Seq(Units) /\ buf'[r] \in Seq(Units)
  <2>1. /\ a \in Seq(Units) /\ buf[r] \in Seq(Units) /\ buf'[r] \in Seq(Units)
    BY DEF TypeOK
  <2>2. more \in Seq(Units) /\ k \in 0..Len(buf[r])
    BY DEF Passes
  <2> QED
    BY <2>1, <2>2, CutType DEF Unwritten
<1>3. Len(t) = k /\ \A i \in 1..k : t[i] = buf[r][i]
  BY <1>2, CutAt
<1>4. /\ b = a \o more /\ Len(b) = Len(a) + Len(more)
      /\ \A i \in 1..Len(a) : b[i] = a[i]
      /\ \A i \in 1..Len(more) : b[Len(a) + i] = more[i]
  <2>1. b = a \o more
    BY DEF Passes, TypeOK
  <2> QED
    BY <1>2, <2>1, JoinAt
<1>5. Opened(r) = s /\ Opened(r)' = u
  BY DEF Opened, Passes
<1>6. n = Cardinality(Of(s, r)) /\ n \in Nat /\ \A j \in Of(s, r) : Rank(s, r, j) \in 1..n
  <2>1. s \in Seq(Units)
    BY <1>1 DEF Appends
  <2> QED
    BY <1>5, <2>1, UnitsCounted DEF Written
<1>7. Len(a) = n + Len(buf[r]) /\ \A i \in 1..Len(buf[r]) : buf[r][i] = a[n + i]
  BY DEF InOrder, Passes
<1>8. \A j \in Of(s, r) : s[j] = a[Rank(s, r, j)]
  BY <1>5 DEF InOrder
<1>9. /\ Cardinality(Of(u, r)) = n + k
      /\ \A j \in Of(s, r) : u[j] = s[j] /\ Rank(u, r, j) = Rank(s, r, j)
      /\ \A j \in Of(u, r) : j \notin Of(s, r) =>
            \E i \in 1..k : u[j] = t[i] /\ Rank(u, r, j) = n + i
  <2> HIDE DEF t, s, u, n
  <2> QED
    BY <1>1, <1>3, <1>6, OwnUnits
<1>10. Written(r)' = n + k
  BY <1>5, <1>9 DEF Written
<1> HIDE DEF t, s, u, n, a, b
<1>11. \A j \in Of(u, r) : u[j] = b[Rank(u, r, j)]
  <2>1. ASSUME NEW j \in Of(s, r) PROVE u[j] = b[Rank(u, r, j)]
    <3>1. Rank(s, r, j) \in 1..Len(a)
      BY <1>2, <1>6, <1>7
    <3> QED
      BY <1>4, <1>8, <1>9, <3>1
  <2>2. ASSUME NEW j \in Of(u, r), j \notin Of(s, r) PROVE u[j] = b[Rank(u, r, j)]
    <3>1. PICK i \in 1..k : u[j] = t[i] /\ Rank(u, r, j) = n + i
      BY <1>9, <2>2
    <3>2. i \in 1..Len(buf[r]) /\ n + i \in 1..Len(a)
      BY <1>2, <1>6, <1>7
    <3>3. t[i] = a[n + i]
      BY <1>3, <1>7, <3>2
    <3> QED
      BY <1>4, <3>1, <3>2, <3>3
  <2> QED
    BY <2>1, <2>2
<1>12. n + k <= Len(b)
  BY <1>2, <1>4, <1>6, <1>7
<1>13. pc'[r] # "ended" => /\ Len(b) = n + k + Len(buf'[r])
                          /\ \A i \in 1..Len(buf'[r]) : buf'[r][i] = b[n + k + i]
  <2> SUFFICES ASSUME pc'[r] # "ended"
               PROVE  /\ Len(b) = n + k + Len(buf'[r])
                      /\ \A i \in 1..Len(buf'[r]) : buf'[r][i] = b[n + k + i]
    OBVIOUS
  <2> DEFINE rest == Unwritten(r, k)
  <2>1. buf'[r] = rest \o more
    BY DEF Passes
  <2>2. /\ rest \in Seq(Units) /\ Len(rest) = Len(buf[r]) - k
        /\ \A i \in 1..Len(rest) : rest[i] = buf[r][k + i]
    BY <1>2, CutAt DEF Unwritten
  <2> HIDE DEF rest
  <2>3. /\ Len(buf'[r]) = Len(rest) + Len(more)
        /\ \A i \in 1..Len(rest) : buf'[r][i] = rest[i]
        /\ \A i \in 1..Len(more) : buf'[r][Len(rest) + i] = more[i]
    <3>1. /\ Len(rest \o more) = Len(rest) + Len(more)
          /\ \A i \in 1..Len(rest) : (rest \o more)[i] = rest[i]
          /\ \A i \in 1..Len(more) : (rest \o more)[Len(rest) + i] = more[i]
      <4>1. rest \in Seq(Units) /\ more \in Seq(Units)
        BY <1>2, <2>2
      <4> QED
        BY <4>1, JoinAt
    <3> QED
      BY <2>1, <3>1, Zenon
  <2>4. Len(more) \in Nat /\ Len(rest) \in Nat
    BY <1>2, <2>2
  <2>5. Len(b) = n + k + Len(buf'[r])
    <3>1. Len(b) = n + Len(buf[r]) + Len(more) /\ n \in Nat /\ k \in Nat /\ Len(buf[r]) \in Nat
      BY <1>2, <1>4, <1>6, <1>7
    <3>2. Len(buf'[r]) = Len(rest) + Len(more) /\ Len(rest) = Len(buf[r]) - k
      BY <2>2, <2>3
    <3>3. PICK x \in Nat, m \in Nat : x = Len(buf[r]) /\ m = Len(more)
      BY <2>4, <3>1
    <3>4. Len(b) = n + x + m /\ Len(buf'[r]) = (x - k) + m
      BY <3>1, <3>2, <3>3
    <3> HIDE DEF n
    <3> QED
      BY <3>1, <3>4
  <2>6. ASSUME NEW i \in 1..Len(rest) PROVE buf'[r][i] = b[n + k + i]
    <3>1. k + i \in 1..Len(buf[r])
      BY <1>2, <2>2, <2>4
    <3>2. n + (k + i) \in 1..Len(a)
      <4>1. PICK j \in 1..Len(buf[r]) : j = k + i
        BY <3>1
      <4>2. n + j \in 1..Len(a)
        <5>1. n \in Nat /\ Len(a) \in Nat /\ Len(buf[r]) \in Nat /\ Len(a) = n + Len(buf[r])
          BY <1>2, <1>6, <1>7
        <5> QED
          BY <5>1
      <4> QED
        BY <4>1, <4>2
    <3>3. buf[r][k + i] = a[n + (k + i)]
      BY <1>7, <3>1
    <3>4. n + (k + i) = n + k + i
      BY <1>2, <1>6
    <3> QED
      BY <1>4, <2>2, <2>3, <3>2, <3>3, <3>4
  <2>7. ASSUME NEW i \in 1..Len(more) PROVE buf'[r][Len(rest) + i] = b[n + k + (Len(rest) + i)]
    <3>1. n + k + (Len(rest) + i) = Len(a) + i
      BY <1>2, <1>6, <1>7, <2>2, <2>4
    <3> QED
      BY <1>4, <2>3, <3>1
  <2>8. \A i \in 1..Len(buf'[r]) : i \in 1..Len(rest) \/ \E j \in 1..Len(more) : i = Len(rest) + j
    <3>1. \A i \in 1..Len(buf'[r]) :
             i \notin 1..Len(rest) => i - Len(rest) \in 1..Len(more) /\ i = Len(rest) + (i - Len(rest))
      BY <2>3, <2>4
    <3> QED
      BY <3>1
  <2> QED
    BY <2>5, <2>6, <2>7, <2>8
<1>14. \A f \in 1..Len(files') : f # fd'[r] => Of(files'[f], r) = {}
  BY <1>1 DEF InOrder, Passes
<1>15. InOrder(r)'
  BY <1>5, <1>10, <1>11, <1>12, <1>13, <1>14 DEF InOrder, b
<1>16. Opening(r)'
  <2>1. \A i \in 1..Len(b) : i \in 1..Len(a) \/ \E j \in 1..Len(more) : i = Len(a) + j
    <3>1. \A i \in 1..Len(b) :
             i \notin 1..Len(a) => i - Len(a) \in 1..Len(more) /\ i = Len(a) + (i - Len(a))
      BY <1>2, <1>4
    <3> QED
      BY <3>1
  <2>2. \A i \in 1..Len(a) : b[i].run = r
    BY <1>4 DEF Opening, a
  <2>3. \A i \in 1..Len(more) : b[Len(a) + i].run = r
    BY <1>4 DEF Passes
  <2>4. \A i \in 1..Len(b) : b[i].run = r
    BY <2>1, <2>2, <2>3
  <2>5. fd'[r] # NoFile /\ pc'[r] \notin {"off", "remove", "rename", "open"}
    BY DEF Passes, Writing
  <2> QED
    BY <2>4, <2>5 DEF Opening, b
<1> QED
  BY <1>10, <1>15, <1>16 DEF n

------------------------------------------------------------------------------
(* Every action either passes units on, or opens the file, or touches none. *)

LEMMA PutPasses ==
    ASSUME TypeOK, TypeOK', NEW r \in Runs, pc[r] # "ended", fd[r] # NoFile, fd' = fd,
           NEW units \in Seq(Units), \A i \in 1..Len(units) : units[i].run = r,
           NEW next \in Writing, Put(r, units, next)
    PROVE  \E k, more : Passes(r, k, more)
<1> DEFINE f == fd[r]
<1>1. /\ buf[r] \in Seq(Units) /\ files[f] \in Seq(Units) /\ f \in 1..Len(files)
      /\ accepted[r] \in Seq(Units) /\ Len(buf[r]) \in Nat
      /\ files \in Seq(Seq(Units)) /\ accepted \in [Runs -> Seq(Units)]
      /\ buf \in [Runs -> Seq(Units)] /\ <<>> \in Seq(Units)
  <2>1. files \in Seq(Seq(Units)) /\ fd[r] \in 0..Len(files)
    BY DEF TypeOK
  <2>2. f \in 1..Len(files)
    BY <2>1 DEF NoFile
  <2>3. accepted \in [Runs -> Seq(Units)] /\ buf \in [Runs -> Seq(Units)]
    BY DEF TypeOK
  <2>4. accepted[r] \in Seq(Units) /\ buf[r] \in Seq(Units) /\ Len(buf[r]) \in Nat
    BY <2>3
  <2>5. files[f] \in Seq(Units) /\ <<>> \in Seq(Units)
    BY <2>1, <2>2
  <2> QED
    BY <2>1, <2>2, <2>3, <2>4, <2>5
<1>2. pc' \in [Runs -> Places] /\ Writing \subseteq Places /\ "flush" \in Writing
  BY DEF TypeOK, Places, Writing
<1>3. CASE Len(buf[r]) + Len(units) <= BufCap
  <2>1. /\ buf' = [buf EXCEPT ![r] = buf[r] \o units]
        /\ accepted' = [accepted EXCEPT ![r] = accepted[r] \o units]
        /\ pc' = [pc EXCEPT ![r] = next] /\ files' = files
    BY <1>3 DEF Put
  <2>2. files' = [files EXCEPT ![f] = files[f] \o SubSeq(buf[r], 1, 0)]
    <3>1. files[f] \o SubSeq(buf[r], 1, 0) = files[f]
      BY <1>1, SequenceFacts
    <3>2. [files EXCEPT ![f] = files[f]] = files
      BY <1>1
    <3> QED
      BY <2>1, <3>1, <3>2
  <2>3. buf'[r] = Unwritten(r, 0) \o units
    <3>1. Unwritten(r, 0) = buf[r]
      BY <1>1, SequenceFacts DEF Unwritten
    <3> QED
      BY <1>1, <2>1, <3>1
  <2>4. \A q \in Runs : q # r => pc'[q] = pc[q] /\ buf'[q] = buf[q]
    BY <1>1, <2>1 DEF TypeOK
  <2>5. pc'[r] = next
    BY <2>1 DEF TypeOK
  <2>6. 0 \in 0..Len(buf[r]) /\ pc'[r] \in Writing \cup {"ended"}
    BY <1>1, <2>5
  <2>7. accepted' = [accepted EXCEPT ![r] = accepted[r] \o units]
    BY <2>1
  <2>8. Passes(r, 0, units)
    BY <1>2, <2>2, <2>3, <2>4, <2>6, <2>7, Zenon DEF Passes
  <2> QED
    BY <2>8
<1>4. CASE ~(Len(buf[r]) + Len(units) <= BufCap)
  <2>1. PICK k \in 0..Len(buf[r]) :
           /\ WriteOut(r, k)
           /\ IF k = Len(buf[r])
                THEN /\ buf' = [buf EXCEPT ![r] = units]
                     /\ accepted' = [accepted EXCEPT ![r] = accepted[r] \o units]
                     /\ pc' = [pc EXCEPT ![r] = next]
                ELSE /\ buf' = [buf EXCEPT ![r] = Unwritten(r, k)]
                     /\ pc' = [pc EXCEPT ![r] = "flush"]
                     /\ UNCHANGED accepted
    BY <1>4 DEF Put
  <2>2. files' = [files EXCEPT ![f] = files[f] \o SubSeq(buf[r], 1, k)]
    BY <2>1 DEF WriteOut
  <2>3. CASE k = Len(buf[r])
    <3>1. Unwritten(r, k) \o units = units
      <4>1. Unwritten(r, k) = <<>>
        BY <1>1, <2>3, SequenceFacts DEF Unwritten
      <4>2. <<>> \o units = units
        BY SequenceFacts
      <4> QED
        BY <4>1, <4>2
    <3>2. /\ buf'[r] = units /\ pc'[r] = next
          /\ \A q \in Runs : q # r => pc'[q] = pc[q] /\ buf'[q] = buf[q]
      BY <1>1, <2>1, <2>3 DEF TypeOK
    <3>3. accepted' = [accepted EXCEPT ![r] = accepted[r] \o units]
      BY <2>1, <2>3
    <3> HIDE DEF f
    <3>4. Passes(r, k, units)
      BY <1>1, <1>2, <2>2, <3>1, <3>2, <3>3 DEF Passes, f
    <3> QED
      BY <3>4
  <2>4. CASE k # Len(buf[r])
    <3>1. /\ Unwritten(r, k) \o <<>> = Unwritten(r, k)
          /\ accepted[r] \o <<>> = accepted[r]
      <4>1. Unwritten(r, k) \in Seq(Units)
        BY <1>1, <2>1, CutType DEF Unwritten
      <4> QED
        BY <1>1, <4>1, SequenceFacts
    <3>2. /\ buf'[r] = Unwritten(r, k) /\ pc'[r] = "flush"
          /\ \A q \in Runs : q # r => pc'[q] = pc[q] /\ buf'[q] = buf[q]
      BY <1>1, <2>1, <2>4 DEF TypeOK
    <3>3. accepted' = [accepted EXCEPT ![r] = accepted[r] \o <<>>]
      BY <1>1, <2>1, <2>4, <3>1
    <3> HIDE DEF f
    <3>4. Passes(r, k, <<>>)
      BY <1>1, <1>2, <2>2, <3>1, <3>2, <3>3 DEF Passes, f
    <3> QED
      BY <3>4
  <2> QED
    BY <2>3, <2>4
<1> QED
  BY <1>3, <1>4

Text(r, n) == <<Unit(r, n, "head"), Unit(r, n, "tail")>>
Newline(r, n) == <<Unit(r, n, "nl")>>
Entry(r, n) == <<Unit(r, n, "head"), Unit(r, n, "tail"), Unit(r, n, "nl")>>

LEMMA EntryType ==
    ASSUME NEW r \in Runs, NEW n \in Nat
    PROVE  /\ Text(r, n) \in Seq(Units) /\ Newline(r, n) \in Seq(Units) /\ Entry(r, n) \in Seq(Units)
           /\ Len(Text(r, n)) = 2 /\ Len(Newline(r, n)) = 1 /\ Len(Entry(r, n)) = 3
           /\ Text(r, n) \o Newline(r, n) = Entry(r, n)
           /\ \A i \in 1..2 : Text(r, n)[i].run = r
           /\ \A i \in 1..1 : Newline(r, n)[i].run = r
<1>1. \A part \in {"head", "tail", "nl"} : Unit(r, n, part) \in Units /\ Unit(r, n, part).run = r
  BY DEF Unit, Units
<1>2. ASSUME NEW a \in Units, NEW b \in Units, NEW c \in Units
      PROVE  /\ <<a, b>> \in Seq(Units) /\ <<c>> \in Seq(Units)
             /\ <<a, b, c>> \in Seq(Units) /\ <<a, b>> \o <<c>> = <<a, b, c>>
             /\ Len(<<a, b>>) = 2 /\ Len(<<c>>) = 1 /\ Len(<<a, b, c>>) = 3
  <2>1. /\ <<a, b>> \in Seq(Units) /\ <<c>> \in Seq(Units) /\ <<a, b, c>> \in Seq(Units)
        /\ Len(<<a, b>>) = 2 /\ Len(<<c>>) = 1 /\ Len(<<a, b, c>>) = 3
    OBVIOUS
  <2>2. PICK s \in Seq(Units), t \in Seq(Units) : s = <<a, b>> /\ t = <<c>>
    BY <2>1
  <2>3. Len(s) = 2 /\ Len(t) = 1 /\ s[1] = a /\ s[2] = b /\ t[1] = c
    BY <2>2
  <2>4. /\ s \o t \in Seq(Units) /\ Len(s \o t) = 3
        /\ (s \o t)[1] = a /\ (s \o t)[2] = b /\ (s \o t)[3] = c
    <3>1. s \o t \in Seq(Units)
      BY JoinType
    <3>2. /\ Len(s \o t) = Len(s) + Len(t)
          /\ \A i \in 1..Len(s) : (s \o t)[i] = s[i]
          /\ \A i \in 1..Len(t) : (s \o t)[Len(s) + i] = t[i]
      BY JoinAt
    <3>3. 1 \in 1..Len(s) /\ 2 \in 1..Len(s) /\ 1 \in 1..Len(t) /\ Len(s) + 1 = 3
      BY <2>3
    <3> QED
      BY <2>3, <3>1, <3>2, <3>3
  <2>5. \A i \in 1..3 : (s \o t)[i] = <<a, b, c>>[i]
    BY <2>4
  <2>6. s \o t = <<a, b, c>>
    <3> DEFINE u == s \o t
               v == <<a, b, c>>
    <3>1. u \in Seq(Units) /\ v \in Seq(Units) /\ Len(u) = 3 /\ Len(v) = 3
          /\ \A i \in 1..3 : u[i] = v[i]
      BY <2>1, <2>4, <2>5
    <3> HIDE DEF u, v
    <3>2. u = v
      BY <3>1, SeqEqual
    <3> QED
      BY <3>2 DEF u, v
  <2> QED
    BY <2>1, <2>2, <2>6
<1> QED
  BY <1>1, <1>2 DEF Text, Newline, Entry

LEMMA ActionPasses ==
    ASSUME TypeOK, TypeOK', NEW r \in Runs,
           WriteLine(r) \/ WriteNewline(r) \/ Flush(r) \/ Quit(r) \/ (Kill(r) /\ fd[r] # NoFile)
    PROVE  \E k, more : Passes(r, k, more)
<1>1. lines[r] \in Nat /\ fd' = fd /\ fd[r] # NoFile /\ pc[r] # "ended"
  BY DEF TypeOK, WriteLine, WriteNewline, Flush, Quit, Kill
<1>2. CASE WriteLine(r)
  <2>1. Put(r, Text(r, lines[r] + 1), "newline")
    BY <1>2 DEF WriteLine, Text
  <2>2. /\ Text(r, lines[r] + 1) \in Seq(Units)
        /\ \A i \in 1..Len(Text(r, lines[r] + 1)) : Text(r, lines[r] + 1)[i].run = r
    <3>1. PICK n \in Nat : n = lines[r] + 1
      BY <1>1
    <3>2. Text(r, n) \in Seq(Units) /\ \A i \in 1..Len(Text(r, n)) : Text(r, n)[i].run = r
      BY EntryType
    <3> QED
      BY <3>1, <3>2
  <2> QED
    BY <1>1, <2>1, <2>2, PutPasses DEF Writing
<1>3. CASE WriteNewline(r)
  <2>1. Put(r, Newline(r, lines[r]), "flush")
    BY <1>3 DEF WriteNewline, Newline
  <2>2. /\ Newline(r, lines[r]) \in Seq(Units)
        /\ \A i \in 1..Len(Newline(r, lines[r])) : Newline(r, lines[r])[i].run = r
    BY <1>1, EntryType
  <2> QED
    BY <1>1, <2>1, <2>2, PutPasses DEF Writing
<1>4. ASSUME NEW k \in 0..Len(buf[r]), WriteOut(r, k), pc'[r] \in {"idle", "ended"},
             pc'[r] # "ended" => buf'[r] = Unwritten(r, k),
             \A q \in Runs : q # r => pc'[q] = pc[q] /\ buf'[q] = buf[q], accepted' = accepted
      PROVE  Passes(r, k, <<>>)
  <2>1. /\ accepted[r] \in Seq(Units) /\ accepted \in [Runs -> Seq(Units)]
        /\ buf[r] \in Seq(Units) /\ pc' \in [Runs -> Places]
    BY DEF TypeOK, Places
  <2>2. Unwritten(r, k) \in Seq(Units)
    BY <2>1, CutType DEF Unwritten
  <2>3. Unwritten(r, k) \o <<>> = Unwritten(r, k) /\ accepted[r] \o <<>> = accepted[r]
    BY <2>1, <2>2, SequenceFacts
  <2>4. accepted' = [accepted EXCEPT ![r] = accepted[r] \o <<>>]
    BY <1>4, <2>1, <2>3
  <2>5. files' = [files EXCEPT ![fd[r]] = files[fd[r]] \o SubSeq(buf[r], 1, k)]
    BY <1>4 DEF WriteOut
  <2>6. <<>> \in Seq(Units) /\ Len(<<>>) = 0
    OBVIOUS
  <2>7. pc'[r] \in Writing \cup {"ended"}
    BY <1>4 DEF Writing
  <2>8. \A i \in 1..Len(<<>>) : <<>>[i].run = r
    BY <2>6
  <2>9. pc'[r] # "ended" => buf'[r] = Unwritten(r, k) \o <<>>
    BY <1>4, <2>3
  <2> QED
    BY <1>1, <1>4, <2>1, <2>4, <2>5, <2>6, <2>7, <2>8, <2>9 DEF Passes
<1>5. CASE Flush(r)
  <2>1. PICK k \in 0..Len(buf[r]) : WriteOut(r, k) /\ buf' = [buf EXCEPT ![r] = Unwritten(r, k)]
    BY <1>5 DEF Flush
  <2>2. /\ pc'[r] = "idle" /\ accepted' = accepted /\ buf'[r] = Unwritten(r, k)
        /\ \A q \in Runs : q # r => pc'[q] = pc[q] /\ buf'[q] = buf[q]
    BY <1>5, <2>1 DEF Flush, TypeOK
  <2> QED
    BY <1>4, <2>1, <2>2
<1>6. CASE Quit(r)
  <2>1. PICK k \in 0..Len(buf[r]) : WriteOut(r, k)
    BY <1>6 DEF Quit
  <2>2. /\ pc'[r] = "ended" /\ accepted' = accepted
        /\ \A q \in Runs : q # r => pc'[q] = pc[q] /\ buf'[q] = buf[q]
    BY <1>6 DEF Quit, TypeOK
  <2> QED
    BY <1>4, <2>1, <2>2
<1>7. CASE Kill(r) /\ fd[r] # NoFile
  <2>1. /\ pc'[r] = "ended" /\ accepted' = accepted /\ files' = files /\ faults' = faults
        /\ \A q \in Runs : q # r => pc'[q] = pc[q] /\ buf'[q] = buf[q]
    BY <1>7 DEF Kill, TypeOK
  <2>2. /\ buf[r] \in Seq(Units) /\ files \in Seq(Seq(Units)) /\ fd[r] \in 1..Len(files)
        /\ files[fd[r]] \in Seq(Units) /\ accepted \in [Runs -> Seq(Units)]
        /\ accepted[r] \in Seq(Units) /\ pc' \in [Runs -> Places]
    <3>1. files \in Seq(Seq(Units)) /\ fd[r] \in 0..Len(files)
      BY DEF TypeOK
    <3>2. fd[r] \in 1..Len(files)
      BY <1>1, <3>1 DEF NoFile
    <3>3. files[fd[r]] \in Seq(Units)
      BY <3>1, <3>2
    <3>4. pc' \in [Runs -> Places]
      BY DEF TypeOK, Places
    <3>5. buf[r] \in Seq(Units) /\ accepted \in [Runs -> Seq(Units)] /\ accepted[r] \in Seq(Units)
      BY DEF TypeOK
    <3> QED
      BY <3>1, <3>2, <3>3, <3>4, <3>5
  <2>3. files[fd[r]] \o SubSeq(buf[r], 1, 0) = files[fd[r]] /\ accepted[r] \o <<>> = accepted[r]
    BY <2>2, SequenceFacts
  <2>4. files' = [files EXCEPT ![fd[r]] = files[fd[r]] \o SubSeq(buf[r], 1, 0)]
    BY <2>1, <2>2, <2>3
  <2>5. accepted' = [accepted EXCEPT ![r] = accepted[r] \o <<>>]
    BY <2>1, <2>2, <2>3
  <2>6. 0 \in 0..Len(buf[r]) /\ <<>> \in Seq(Units) /\ \A i \in 1..Len(<<>>) : <<>>[i].run = r
    BY <2>2
  <2>7. Passes(r, 0, <<>>)
    BY <1>1, <2>1, <2>2, <2>4, <2>5, <2>6 DEF Passes
  <2> QED
    BY <2>7
<1> QED
  BY <1>2, <1>3, <1>5, <1>6, <1>7

(* An action that writes nothing and opens nothing. *)
Untouched(r) ==
    /\ UNCHANGED <<files, fd, accepted>>
    /\ \A q \in Runs : q # r => pc'[q] = pc[q] /\ buf'[q] = buf[q]
    /\ fd[r] = NoFile /\ pc[r] # "ended"
    /\ pc'[r] # "ended" => buf'[r] = buf[r]

LEMMA ActionTouchesNone ==
    ASSUME TypeOK, NEW r \in Runs, Opening(r),
           Stat(r) \/ RemoveBackup(r) \/ Rename(r) \/ CallFails(r) \/ (Kill(r) /\ fd[r] = NoFile)
    PROVE  Untouched(r)
<1>1. CASE Stat(r) \/ RemoveBackup(r) \/ Rename(r) \/ CallFails(r)
  <2>1. UNCHANGED <<files, fd, buf, accepted>> /\ pc[r] \in {"off", "remove", "rename", "open"}
    BY <1>1 DEF Stat, RemoveBackup, Rename, CallFails
  <2>2. \A q \in Runs : q # r => pc'[q] = pc[q]
    BY <1>1 DEF Stat, RemoveBackup, Rename, CallFails, TypeOK
  <2> QED
    BY <2>1, <2>2 DEF Untouched, Opening
<1>2. CASE Kill(r) /\ fd[r] = NoFile
  <2>1. UNCHANGED <<files, fd, accepted>> /\ pc[r] # "ended"
    BY <1>2 DEF Kill
  <2>2. pc'[r] = "ended" /\ \A q \in Runs : q # r => pc'[q] = pc[q] /\ buf'[q] = buf[q]
    BY <1>2 DEF Kill, TypeOK
  <2> QED
    BY <1>2, <2>1, <2>2 DEF Untouched
<1> QED
  BY <1>1, <1>2

LEMMA UntouchedOrder ==
    ASSUME TypeOK, OrderInv, NEW r \in Runs, Untouched(r)
    PROVE  OrderInv' /\ \A q \in Runs : Written(q)' = Written(q)
<1> SUFFICES ASSUME NEW q \in Runs PROVE InOrder(q)' /\ Opening(q)' /\ Written(q)' = Written(q)
  BY DEF OrderInv
<1>1. /\ files' = files /\ fd' = fd /\ accepted' = accepted /\ InOrder(q) /\ Opening(q)
      /\ Opened(q)' = Opened(q) /\ Written(q)' = Written(q)
  BY DEF Untouched, OrderInv, Opened, Written
<1>2. \/ pc[q] # "ended" /\ (pc'[q] # "ended" => buf'[q] = buf[q])
      \/ pc'[q] = pc[q] /\ buf'[q] = buf[q]
  BY DEF Untouched
<1>3. InOrder(q)'
  BY <1>1, <1>2 DEF InOrder
<1>4. Opening(q)'
  <2>1. CASE q = r
    BY <1>1, <2>1 DEF Untouched, Opening
  <2>2. CASE q # r
    BY <1>1, <2>2 DEF Untouched, Opening
  <2> QED
    BY <2>1, <2>2
<1> QED
  BY <1>1, <1>3, <1>4

LEMMA OpeningOrder ==
    ASSUME TypeOK, TypeOK', OrderInv, NEW r \in Runs, OpenHistory(r)
    PROVE  /\ OrderInv'
           /\ Written(r)' = 0 /\ \A q \in Runs : q # r => Written(q)' = Written(q)
           /\ Len(files') \in {Len(files), Len(files) + 1}
           /\ \A f \in 1..Len(files') : files'[f] = <<>> \/ (f \in 1..Len(files) /\ files'[f] = files[f])
<1>1. /\ fd[r] = NoFile /\ accepted[r] = <<>> /\ pc[r] # "ended" /\ InOrder(r) /\ Opening(r)
      /\ accepted' = accepted /\ buf' = buf
      /\ \A q \in Runs : q # r => pc'[q] = pc[q]
      /\ pc'[r] = "idle" /\ fd'[r] = history'
      /\ \A q \in Runs : q # r => fd'[q] = fd[q]
  BY DEF OpenHistory, OrderInv, Opening, TypeOK
<1>2. /\ Len(files) \in Nat /\ Len(files') \in {Len(files), Len(files) + 1}
      /\ \A f \in 1..Len(files) : files'[f] = files[f]
      /\ \A f \in 1..Len(files') : f \notin 1..Len(files) => files'[f] = <<>>
      /\ history' \in 1..Len(files')
  <2>1. files \in Seq(Seq(Units)) /\ history \in {NoFile, Len(files)}
    BY DEF TypeOK
  <2>2. CASE history = NoFile
    <3>1. files' = Append(files, <<>>) /\ history' = Len(files) + 1
      BY <2>2 DEF OpenHistory
    <3>2. <<>> \in Seq(Units)
      OBVIOUS
    <3> QED
      BY <2>1, <3>1, <3>2
  <2>3. CASE history # NoFile
    <3>1. files' = files /\ history' = history
      BY <2>3 DEF OpenHistory
    <3> QED
      BY <2>1, <2>3, <3>1 DEF NoFile
  <2> QED
    BY <2>2, <2>3
<1>3. \A q : Of(<<>>, q) = {}
  BY DEF Of
<1>4. Opened(r) = <<>> /\ Written(r) = 0 /\ Len(buf[r]) = 0
  <2>1. Opened(r) = <<>> /\ Written(r) = 0
    BY <1>1, <1>3, FS_EmptySet DEF Opened, Written
  <2>2. Len(buf[r]) \in Nat
    BY DEF TypeOK
  <2> QED
    BY <1>1, <2>1, <2>2 DEF InOrder
<1>5. Of(Opened(r)', r) = {}
  <2>1. Opened(r)' = files'[history']
    BY <1>1, <1>2 DEF Opened, NoFile
  <2>2. CASE history' \in 1..Len(files)
    <3>1. history' # fd[r]
      BY <1>1, <2>2 DEF NoFile
    <3>2. \A f \in 1..Len(files) : f # fd[r] => Of(files[f], r) = {}
      BY <1>1 DEF InOrder
    <3>3. Of(files[history'], r) = {}
      BY <2>2, <3>1, <3>2
    <3> QED
      BY <1>2, <2>1, <2>2, <3>3
  <2>3. CASE history' \notin 1..Len(files)
    BY <1>2, <1>3, <2>1, <2>3
  <2> QED
    BY <2>2, <2>3
<1>6. Written(r)' = 0
  BY <1>5, FS_EmptySet DEF Written
<1>7. ASSUME NEW q \in Runs, NEW f \in 1..Len(files'), f # fd[q], InOrder(q)
      PROVE  Of(files'[f], q) = {}
  <2>1. CASE f \in 1..Len(files)
    BY <1>2, <1>7, <2>1 DEF InOrder
  <2>2. CASE f \notin 1..Len(files)
    BY <1>2, <1>3, <2>2
  <2> QED
    BY <2>1, <2>2
<1>8. InOrder(r)' /\ Opening(r)'
  <2>1. \A f \in 1..Len(files') : f # fd'[r] => Of(files'[f], r) = {}
    <3>1. \A f \in 1..Len(files') : f # fd[r]
      BY <1>1 DEF NoFile
    <3> QED
      BY <1>1, <1>7, <3>1
  <2>2. Len(accepted'[r]) = 0 /\ Len(buf'[r]) = 0 /\ accepted'[r] = <<>>
    BY <1>1, <1>4
  <2>3. InOrder(r)'
    BY <1>5, <1>6, <2>1, <2>2 DEF InOrder
  <2>4. Opening(r)'
    BY <1>1, <1>2, <2>2 DEF Opening, NoFile
  <2> QED
    BY <2>3, <2>4
<1>9. ASSUME NEW q \in Runs, q # r
      PROVE  InOrder(q)' /\ Opening(q)' /\ Written(q)' = Written(q)
  <2>1. /\ InOrder(q) /\ Opening(q) /\ fd'[q] = fd[q] /\ pc'[q] = pc[q]
        /\ buf'[q] = buf[q] /\ accepted'[q] = accepted[q] /\ fd[q] \in 0..Len(files)
    BY <1>1, <1>9 DEF OrderInv, TypeOK
  <2>2. Opened(q)' = Opened(q)
    <3>1. fd[q] # NoFile => files'[fd[q]] = files[fd[q]]
      BY <1>2, <2>1 DEF NoFile
    <3> QED
      BY <2>1, <3>1 DEF Opened
  <2>3. Written(q)' = Written(q)
    BY <2>2 DEF Written
  <2>4. InOrder(q)'
    BY <1>7, <2>1, <2>2, <2>3 DEF InOrder
  <2>5. Opening(q)'
    BY <2>1 DEF Opening
  <2> QED
    BY <2>3, <2>4, <2>5
<1>10. OrderInv'
  BY <1>8, <1>9 DEF OrderInv
<1> QED
  BY <1>2, <1>6, <1>9, <1>10

LEMMA PassingOrder ==
    ASSUME TypeOK, TypeOK', OrderInv, NEW r \in Runs, NEW k, NEW more, Passes(r, k, more)
    PROVE  /\ OrderInv'
           /\ Written(r)' = Written(r) + k
           /\ \A q \in Runs : q # r => Written(q)' = Written(q)
<1>1. \A q \in Runs : InOrder(q) /\ Opening(q)
  BY DEF OrderInv
<1>2. InOrder(r)' /\ Opening(r)' /\ Written(r)' = Written(r) + k
  BY <1>1, PassingMine
<1>3. \A q \in Runs : q # r => InOrder(q)' /\ Opening(q)' /\ Written(q)' = Written(q)
  BY <1>1, PassingOthers
<1> QED
  BY <1>2, <1>3 DEF OrderInv

LEMMA OrderInit == ASSUME Init PROVE OrderInv
<1>1. ASSUME NEW r \in Runs PROVE InOrder(r) /\ Opening(r)
  <2>1. /\ fd[r] = NoFile /\ pc[r] = "off" /\ accepted[r] = <<>> /\ buf[r] = <<>> /\ files = <<>>
    BY DEF Init
  <2>2. Opened(r) = <<>> /\ Of(<<>>, r) = {} /\ Len(files) = 0 /\ Len(<<>>) = 0
    BY <2>1 DEF Opened, Of
  <2>3. Written(r) = 0
    BY <2>2, FS_EmptySet DEF Written
  <2> QED
    BY <2>1, <2>2, <2>3 DEF InOrder, Opening
<1> QED
  BY <1>1 DEF OrderInv

LEMMA OrderStep ==
    ASSUME TypeOK, TypeOK', OrderInv, [Next]_vars
    PROVE  OrderInv'
<1>1. CASE UNCHANGED vars
  <2>1. UNCHANGED <<files, pc, fd, buf, accepted>>
    BY <1>1 DEF vars
  <2>2. \A r \in Runs : Opened(r)' = Opened(r) /\ Written(r)' = Written(r)
    BY <2>1 DEF Opened, Written
  <2>3. \A r \in Runs : InOrder(r) /\ Opening(r) => InOrder(r)' /\ Opening(r)'
    BY <2>1, <2>2 DEF InOrder, Opening
  <2> QED
    BY <2>3 DEF OrderInv
<1>2. ASSUME NEW r \in Runs, Dashboard(r) PROVE OrderInv'
  <2>0. Opening(r)
    BY DEF OrderInv
  <2>1. CASE Stat(r) \/ RemoveBackup(r) \/ Rename(r) \/ CallFails(r) \/ (Kill(r) /\ fd[r] = NoFile)
    BY <2>0, <2>1, ActionTouchesNone, UntouchedOrder
  <2>2. CASE OpenHistory(r)
    BY <2>2, OpeningOrder
  <2>3. CASE WriteLine(r) \/ WriteNewline(r) \/ Flush(r) \/ Quit(r) \/ (Kill(r) /\ fd[r] # NoFile)
    BY <2>3, ActionPasses, PassingOrder
  <2> QED
    BY <1>2, <2>1, <2>2, <2>3 DEF Dashboard
<1> QED
  BY <1>1, <1>2 DEF Next

------------------------------------------------------------------------------
(* Without a failed call: the buffer never overflows, so that a line goes   *)
(* to the file whole, by its flush.                                         *)
Clean(r) ==
    /\ pc[r] \in {"off", "remove", "rename", "open"} => lines[r] = 0
    /\ pc[r] = "idle" => buf[r] = <<>> /\ Written(r) = 3 * lines[r]
    /\ pc[r] = "newline" => buf[r] = Text(r, lines[r]) /\ Written(r) = 3 * (lines[r] - 1)
    /\ pc[r] = "flush" => buf[r] = Entry(r, lines[r]) /\ Written(r) = 3 * (lines[r] - 1)
    /\ pc[r] = "ended" => Written(r) >= 3 * (lines[r] - 1)

AllClean == (\A r \in Runs : Clean(r)) /\ (\A f \in 1..Len(files) : Legible(files[f]))

CleanInv == faults = 0 => AllClean

LEMMA LegibleWithEntry ==
    ASSUME NEW s \in Seq(Units), Legible(s), NEW r \in Runs, NEW n \in Nat
    PROVE  Legible(s \o Entry(r, n))
<1> DEFINE L == Len(s)
           u == s \o Entry(r, n)
<1>1. L \in Nat /\ \A k \in 1..L : s[k] \in Units
  OBVIOUS
<1>2. /\ u \in Seq(Units) /\ Len(u) = L + 3
      /\ \A k \in 1..L : u[k] = s[k]
      /\ u[L + 1] = Unit(r, n, "head") /\ u[L + 2] = Unit(r, n, "tail") /\ u[L + 3] = Unit(r, n, "nl")
  <2>1. Entry(r, n) \in Seq(Units) /\ Len(Entry(r, n)) = 3
    BY EntryType
  <2>2. /\ Len(u) = L + 3 /\ \A k \in 1..L : u[k] = s[k]
        /\ \A i \in 1..Len(Entry(r, n)) : u[L + i] = Entry(r, n)[i]
    <3>1. PICK e \in Seq(Units) : e = Entry(r, n) /\ Len(e) = 3
      BY <2>1
    <3>2. /\ Len(s \o e) = Len(s) + Len(e) /\ \A k \in 1..Len(s) : (s \o e)[k] = s[k]
          /\ \A i \in 1..Len(e) : (s \o e)[Len(s) + i] = e[i]
      BY JoinAt
    <3> QED
      BY <3>1, <3>2
  <2>3. u \in Seq(Units)
    BY <2>1, JoinType
  <2>4. /\ Entry(r, n)[1] = Unit(r, n, "head") /\ Entry(r, n)[2] = Unit(r, n, "tail")
        /\ Entry(r, n)[3] = Unit(r, n, "nl")
    BY DEF Entry
  <2>5. \A i \in 1..3 : u[L + i] = Entry(r, n)[i]
    BY <2>1, <2>2
  <2> HIDE DEF u, L
  <2> QED
    BY <2>2, <2>3, <2>4, <2>5
<1> HIDE DEF u
<1>3. L > 0 => s[L].part = "nl"
  <2> SUFFICES ASSUME L > 0 PROVE s[L].part = "nl"
    OBVIOUS
  <2>1. PICK l \in Newlines(s) : L \in (l - 2)..l
    BY <1>1 DEF Legible
  <2>2. l \in 1..L /\ s[l].part = "nl"
    BY DEF Newlines
  <2>3. l = L
    BY <1>1, <2>1, <2>2
  <2> QED
    BY <2>2, <2>3
<1>4. L + 3 \in Newlines(u) /\ WholeAt(u, L + 3)
  <2>1. u[L + 3].run = r /\ u[L + 3].n = n /\ u[L + 3].part = "nl"
    BY <1>2 DEF Unit
  <2>2. L + 3 \in 1..Len(u) /\ L + 3 > 2 /\ (L + 3) - 2 = L + 1 /\ (L + 3) - 1 = L + 2 /\ (L + 3) - 3 = L
    BY <1>1, <1>2
  <2>3. L + 3 > 3 => u[L].part = "nl"
    BY <1>1, <1>2, <1>3
  <2>4. u[(L + 3) - 2] = Unit(r, n, "head") /\ u[(L + 3) - 1] = Unit(r, n, "tail") /\ u[(L + 3) - 3] = u[L]
    BY <1>2, <2>2
  <2> HIDE DEF L
  <2> QED
    BY <2>1, <2>2, <2>3, <2>4 DEF Newlines, WholeAt
<1>5. ASSUME NEW k \in 1..L
      PROVE  \E l \in Newlines(u) : k \in (l - 2)..l /\ WholeAt(u, l)
  <2>1. PICK l \in Newlines(s) : k \in (l - 2)..l /\ WholeAt(s, l)
    BY <1>1 DEF Legible
  <2>2. l \in 1..L /\ s[l].part = "nl" /\ l > 2
    BY <2>1 DEF Newlines, WholeAt
  <2>3. /\ u[l] = s[l] /\ u[l - 1] = s[l - 1] /\ u[l - 2] = s[l - 2]
        /\ l > 3 => u[l - 3] = s[l - 3]
    <3>1. /\ l \in 1..L /\ l - 1 \in 1..L /\ l - 2 \in 1..L
          /\ l > 3 => l - 3 \in 1..L
      BY <1>1, <2>2
    <3>2. \A i \in 1..L : u[i] = s[i]
      BY <1>2
    <3> HIDE DEF L
    <3> QED
      BY <3>1, <3>2
  <2>4. WholeAt(u, l)
    BY <2>1, <2>2, <2>3 DEF WholeAt
  <2>5. l \in Newlines(u)
    BY <1>1, <1>2, <2>2, <2>3 DEF Newlines
  <2> QED
    BY <2>1, <2>4, <2>5
<1>6. ASSUME NEW k \in (L + 1)..(L + 3)
      PROVE  \E l \in Newlines(u) : k \in (l - 2)..l /\ WholeAt(u, l)
  <2>1. k \in ((L + 3) - 2)..(L + 3)
    BY <1>1
  <2> QED
    BY <1>4, <2>1
<1>7. \A k \in 1..Len(u) : k \in 1..L \/ k \in (L + 1)..(L + 3)
  BY <1>1, <1>2
<1>8. Legible(u)
  BY <1>5, <1>6, <1>7 DEF Legible
<1> QED
  BY <1>8 DEF u

(* A dashboard that does not act stays clean. *)
LEMMA OthersClean ==
    ASSUME TypeOK, NEW q \in Runs, Clean(q),
           pc'[q] = pc[q], buf'[q] = buf[q], lines'[q] = lines[q], Written(q)' = Written(q)
    PROVE  Clean(q)'
BY DEF Clean

LEMMA FaultsOnlyRise ==
    ASSUME TypeOK, NEW r \in Runs, Dashboard(r), faults' = 0
    PROVE  faults = 0 /\ ~CallFails(r)
<1>1. faults \in Nat
  BY DEF TypeOK
<1>2. \A k : WriteOut(r, k) => faults' = faults \/ faults' = faults + 1
  BY DEF WriteOut
<1>3. \A units, next : Put(r, units, next) => faults' = faults \/ faults' = faults + 1
  BY <1>2 DEF Put
<1>4. WriteLine(r) \/ WriteNewline(r) => faults' = faults \/ faults' = faults + 1
  BY <1>3 DEF WriteLine, WriteNewline
<1>5. Flush(r) \/ Quit(r) => faults' = faults \/ faults' = faults + 1
  BY <1>2 DEF Flush, Quit
<1> QED
  BY <1>1, <1>4, <1>5 DEF Dashboard, Stat, RemoveBackup, Rename, OpenHistory, CallFails, Kill

LEMMA PutClean ==
    ASSUME TypeOK, NEW r \in Runs, NEW units \in Seq(Units), NEW next,
           Len(buf[r]) + Len(units) <= BufCap, Put(r, units, next)
    PROVE  /\ files' = files
           /\ buf'[r] = buf[r] \o units
           /\ pc'[r] = next
           /\ \A q \in Runs : q # r => pc'[q] = pc[q] /\ buf'[q] = buf[q]
<1>1. /\ buf' = [buf EXCEPT ![r] = @ \o units] /\ pc' = [pc EXCEPT ![r] = next]
      /\ UNCHANGED <<files, faults>>
  BY DEF Put
<1> QED
  BY <1>1 DEF TypeOK

(* One step without a failure. *)
LEMMA LineClean ==
    ASSUME TypeOK, OrderInv, AllClean, NEW r \in Runs, WriteLine(r) \/ WriteNewline(r)
    PROVE  AllClean'
<1>1. lines[r] \in Nat /\ fd' = fd /\ Clean(r) /\ BufCap \in Nat /\ BufCap > 2
  BY HistoryAssumption DEF TypeOK, AllClean, WriteLine, WriteNewline
<1>2. /\ files' = files /\ Clean(r)'
      /\ \A q \in Runs : q # r => pc'[q] = pc[q] /\ buf'[q] = buf[q] /\ lines'[q] = lines[q]
  <2>1. CASE WriteLine(r)
    <3>1. PICK n \in Nat : n = lines[r] + 1
      BY <1>1
    <3>2. buf[r] = <<>> /\ Written(r) = 3 * lines[r] /\ lines'[r] = n
          /\ \A q \in Runs : q # r => lines'[q] = lines[q]
      BY <1>1, <2>1, <3>1 DEF WriteLine, Clean, TypeOK
    <3>3. /\ Text(r, n) \in Seq(Units) /\ Len(Text(r, n)) = 2 /\ <<>> \o Text(r, n) = Text(r, n)
          /\ Len(<<>>) = 0
      BY EntryType, SequenceFacts
    <3>4. Put(r, Text(r, n), "newline")
      BY <2>1, <3>1 DEF WriteLine, Text
    <3>5. Len(buf[r]) + Len(Text(r, n)) <= BufCap
      BY <1>1, <3>2, <3>3
    <3>6. /\ files' = files /\ buf'[r] = buf[r] \o Text(r, n) /\ pc'[r] = "newline"
          /\ \A q \in Runs : q # r => pc'[q] = pc[q] /\ buf'[q] = buf[q]
      <4>1. Text(r, n) \in Seq(Units)
        BY <3>3
      <4> QED
        BY <3>4, <3>5, <4>1, PutClean
    <3>7. buf'[r] = Text(r, n)
      BY <3>2, <3>3, <3>6
    <3>8. Written(r)' = 3 * (lines'[r] - 1)
      <4>1. Written(r)' = Written(r)
        BY <1>1, <3>6 DEF Written, Opened
      <4> QED
        BY <1>1, <3>1, <3>2, <4>1
    <3>9. Clean(r)'
      BY <3>2, <3>6, <3>7, <3>8 DEF Clean
    <3> QED
      BY <3>2, <3>6, <3>9
  <2>2. CASE WriteNewline(r)
    <3>1. PICK n \in Nat : n = lines[r]
      BY <1>1
    <3>2. buf[r] = Text(r, n) /\ Written(r) = 3 * (lines[r] - 1) /\ lines' = lines
      BY <1>1, <2>2, <3>1 DEF WriteNewline, Clean
    <3>3. /\ Newline(r, n) \in Seq(Units) /\ Len(Newline(r, n)) = 1 /\ Len(Text(r, n)) = 2
          /\ Text(r, n) \o Newline(r, n) = Entry(r, n)
      BY EntryType
    <3>4. Put(r, Newline(r, n), "flush")
      BY <2>2, <3>1 DEF WriteNewline, Newline
    <3>5. Len(buf[r]) + Len(Newline(r, n)) <= BufCap
      BY <1>1, <3>2, <3>3
    <3>6. /\ files' = files /\ buf'[r] = buf[r] \o Newline(r, n) /\ pc'[r] = "flush"
          /\ \A q \in Runs : q # r => pc'[q] = pc[q] /\ buf'[q] = buf[q]
      <4>1. Newline(r, n) \in Seq(Units)
        BY <3>3
      <4> QED
        BY <3>4, <3>5, <4>1, PutClean
    <3>7. buf'[r] = Entry(r, n)
      BY <3>2, <3>3, <3>6
    <3>8. Written(r)' = 3 * (lines'[r] - 1)
      BY <1>1, <3>2, <3>6 DEF Written, Opened
    <3>9. Clean(r)'
      BY <3>1, <3>2, <3>6, <3>7, <3>8 DEF Clean
    <3> QED
      BY <3>2, <3>6, <3>9
  <2> QED
    BY <2>1, <2>2
<1>3. ASSUME NEW q \in Runs, q # r PROVE Clean(q)'
  <2>1. Written(q)' = Written(q)
    BY <1>1, <1>2 DEF Written, Opened
  <2> QED
    BY <1>2, <1>3, <2>1, OthersClean DEF AllClean
<1> QED
  BY <1>2, <1>3 DEF AllClean

LEMMA EndClean ==
    ASSUME TypeOK, TypeOK', OrderInv, AllClean, faults' = 0, faults = 0,
           NEW r \in Runs, Flush(r) \/ Quit(r)
    PROVE  AllClean'
<1>1. /\ lines[r] \in Nat /\ lines' = lines /\ Clean(r) /\ buf[r] \in Seq(Units)
      /\ Len(buf[r]) \in Nat /\ fd' = fd /\ fd[r] \in 1..Len(files)
      /\ files \in Seq(Seq(Units)) /\ files[fd[r]] \in Seq(Units)
  <2>1. files \in Seq(Seq(Units)) /\ fd[r] \in 0..Len(files) /\ fd[r] # NoFile
    BY DEF TypeOK, Flush, Quit
  <2>2. fd[r] \in 1..Len(files)
    BY <2>1 DEF NoFile
  <2>3. lines[r] \in Nat /\ buf[r] \in Seq(Units)
    BY DEF TypeOK
  <2> QED
    BY <2>1, <2>2, <2>3 DEF AllClean, Flush, Quit
<1>2. /\ Len(files') = Len(files) /\ files'[fd[r]] = files[fd[r]] \o buf[r]
      /\ \A f \in 1..Len(files) : f # fd[r] => files'[f] = files[f]
      /\ Flush(r) => buf'[r] = <<>>
  <2>1. PICK k \in 0..Len(buf[r]) : /\ WriteOut(r, k)
                                    /\ Flush(r) => buf' = [buf EXCEPT ![r] = Unwritten(r, k)]
    BY DEF Flush, Quit
  <2>2. k = Len(buf[r])
    BY <2>1 DEF WriteOut
  <2>3. SubSeq(buf[r], 1, k) = buf[r] /\ Unwritten(r, k) = <<>>
    BY <1>1, <2>2, SequenceFacts DEF Unwritten
  <2> DEFINE w == files[fd[r]] \o buf[r]
  <2>4. files' = [files EXCEPT ![fd[r]] = w]
    BY <2>1, <2>3 DEF WriteOut
  <2>5. Flush(r) => buf'[r] = <<>>
    BY <2>1, <2>3 DEF TypeOK
  <2> HIDE DEF w
  <2>6. /\ Len(files') = Len(files) /\ files'[fd[r]] = w
        /\ \A f \in 1..Len(files) : f # fd[r] => files'[f] = files[f]
    BY <1>1, <2>4
  <2> QED
    BY <2>5, <2>6 DEF w
<1>3. PICK k, more : Passes(r, k, more)
  BY ActionPasses
<1>4. \A q \in Runs : q # r => Written(q)' = Written(q) /\ pc'[q] = pc[q] /\ buf'[q] = buf[q]
  BY <1>3, PassingOrder DEF Passes
<1>5. Written(r)' = Written(r) + Len(buf[r])
  <2>1. Appends(files[fd[r]], buf[r], r, files'[fd[r]])
    <3>1. \A i \in 1..Len(buf[r]) : buf[r][i].run = r
      BY <1>3, OwnBuffer DEF Passes, OrderInv
    <3> QED
      BY <1>1, <1>2, <3>1 DEF Appends
  <2>2. Cardinality(Of(files'[fd[r]], r)) = Cardinality(Of(files[fd[r]], r)) + Len(buf[r])
    BY <2>1, OwnUnits
  <2>3. Opened(r) = files[fd[r]] /\ Opened(r)' = files'[fd[r]]
    BY <1>1 DEF Opened, NoFile
  <2> QED
    BY <2>2, <2>3 DEF Written
<1>6. CASE Flush(r)
  <2>1. buf[r] = Entry(r, lines[r]) /\ Written(r) = 3 * (lines[r] - 1) /\ pc'[r] = "idle"
    BY <1>1, <1>6 DEF Flush, Clean, TypeOK
  <2>2. Len(buf[r]) = 3 /\ Written(r)' = 3 * lines[r]
    <3>1. Len(Entry(r, lines[r])) = 3
      BY <1>1, EntryType
    <3> QED
      BY <1>1, <1>5, <2>1, <3>1
  <2>3. Clean(r)'
    BY <1>1, <1>2, <1>6, <2>1, <2>2 DEF Clean
  <2>4. Legible(files'[fd[r]])
    BY <1>1, <1>2, <2>1, LegibleWithEntry DEF AllClean
  <2> QED
    BY <1>1, <1>2, <1>4, <2>3, <2>4, OthersClean DEF AllClean
<1>7. CASE Quit(r)
  <2>1. buf[r] = <<>> /\ Written(r) = 3 * lines[r] /\ pc'[r] = "ended"
    BY <1>1, <1>7 DEF Quit, Clean, TypeOK
  <2>2. Len(buf[r]) = 0 /\ files[fd[r]] \o <<>> = files[fd[r]]
    BY <1>1, <2>1, SequenceFacts
  <2>3. Written(r)' >= 3 * (lines'[r] - 1)
    BY <1>1, <1>5, <2>1, <2>2
  <2>4. Clean(r)'
    BY <2>1, <2>3 DEF Clean
  <2>5. \A f \in 1..Len(files) : files'[f] = files[f]
    BY <1>2, <2>1, <2>2
  <2> QED
    BY <1>1, <1>2, <1>4, <2>4, <2>5, OthersClean DEF AllClean
<1> QED
  BY <1>6, <1>7

LEMMA QuietClean ==
    ASSUME TypeOK, OrderInv, AllClean, NEW r \in Runs,
           Stat(r) \/ RemoveBackup(r) \/ Rename(r) \/ OpenHistory(r) \/ Kill(r)
    PROVE  AllClean'
<1>1. /\ lines' = lines /\ lines[r] \in Nat /\ Clean(r) /\ Opening(r) /\ InOrder(r)
      /\ buf[r] \in Seq(Units) /\ Len(buf[r]) \in Nat
  BY DEF TypeOK, AllClean, OrderInv, Stat, RemoveBackup, Rename, OpenHistory, Kill
<1>2. CASE OpenHistory(r)
  <2>1. TypeOK'
    BY <1>2, DirectoryType
  <2>2. /\ Written(r)' = 0 /\ \A q \in Runs : q # r => Written(q)' = Written(q)
        /\ \A f \in 1..Len(files') : files'[f] = <<>> \/ (f \in 1..Len(files) /\ files'[f] = files[f])
    BY <1>2, <2>1, OpeningOrder
  <2>3. \A f \in 1..Len(files') : Legible(files'[f])
    <3>1. Legible(<<>>)
      BY DEF Legible
    <3> QED
      BY <2>2, <3>1 DEF AllClean
  <2>4. /\ pc'[r] = "idle" /\ lines[r] = 0 /\ buf' = buf
        /\ \A q \in Runs : q # r => pc'[q] = pc[q]
    BY <1>1, <1>2 DEF OpenHistory, Clean, TypeOK
  <2>5. buf[r] = <<>>
    <3>1. fd[r] = NoFile /\ pc[r] # "ended" /\ accepted[r] = <<>>
      BY <1>1, <1>2 DEF OpenHistory, Opening
    <3>2. Written(r) \in Nat
      <4>1. Opened(r) \in Seq(Units)
        BY <3>1 DEF Opened
      <4> QED
        BY <4>1, UnitsCounted DEF Written
    <3>3. Len(buf[r]) = 0
      BY <1>1, <3>1, <3>2 DEF InOrder
    <3> QED
      BY <1>1, <3>3
  <2>6. Clean(r)'
    BY <1>1, <2>2, <2>4, <2>5 DEF Clean
  <2> QED
    BY <1>1, <2>2, <2>3, <2>4, <2>6, OthersClean DEF AllClean
<1>3. CASE Stat(r) \/ RemoveBackup(r) \/ Rename(r) \/ Kill(r)
  <2>1. /\ files' = files /\ fd' = fd
        /\ \A q \in Runs : q # r => pc'[q] = pc[q] /\ buf'[q] = buf[q]
    BY <1>3 DEF Stat, RemoveBackup, Rename, Kill, TypeOK
  <2>2. \A q \in Runs : Written(q)' = Written(q)
    BY <2>1 DEF Written, Opened
  <2>3. Clean(r)'
    <3>1. CASE Stat(r) \/ RemoveBackup(r) \/ Rename(r)
      <4>1. /\ pc[r] \in {"off", "remove", "rename", "open"}
            /\ pc'[r] \in {"off", "remove", "rename", "open"}
        BY <3>1 DEF Stat, RemoveBackup, Rename, TypeOK
      <4> QED
        BY <1>1, <4>1 DEF Clean
    <3>2. CASE Kill(r)
      <4>1. pc'[r] = "ended" /\ pc[r] # "ended" /\ pc[r] \in Places
        BY <3>2 DEF Kill, TypeOK, Places
      <4>2. Written(r) \in Nat
        <5>1. Opened(r) \in Seq(Units)
          BY DEF Opened, TypeOK, NoFile
        <5> QED
          BY <5>1, UnitsCounted DEF Written
      <4>3. Written(r) >= 3 * (lines[r] - 1)
        BY <1>1, <4>1, <4>2 DEF Clean, Places
      <4> QED
        BY <1>1, <2>2, <4>1, <4>3 DEF Clean
    <3> QED
      BY <1>3, <3>1, <3>2
  <2> QED
    BY <1>1, <2>1, <2>2, <2>3, OthersClean DEF AllClean
<1> QED
  BY <1>2, <1>3

(* The history is what the dashboards logged, in order; without a failed    *)
(* call it is also complete, and lines of several dashboards never mix.     *)
THEOREM HistoryIsIntact == Spec => []Intact
<1>1. Init => OrderInv /\ CleanInv
  <2> SUFFICES ASSUME Init PROVE CleanInv
    BY OrderInit
  <2>1. \A r \in Runs : pc[r] = "off" /\ lines[r] = 0
    BY DEF Init
  <2>2. Len(files) = 0
    BY DEF Init
  <2> QED
    BY <2>1, <2>2 DEF CleanInv, AllClean, Clean
<1>2. TypeOK /\ TypeOK' /\ OrderInv /\ CleanInv /\ [Next]_vars => OrderInv' /\ CleanInv'
  <2> SUFFICES ASSUME TypeOK, TypeOK', OrderInv, CleanInv, [Next]_vars, faults' = 0
               PROVE  AllClean'
    BY OrderStep DEF CleanInv
  <2>1. CASE UNCHANGED vars
    BY <2>1 DEF vars, CleanInv, AllClean, Clean, Written, Opened
  <2>2. ASSUME NEW r \in Runs, Dashboard(r) PROVE AllClean'
    <3>1. faults = 0 /\ ~CallFails(r) /\ AllClean
      BY <2>2, FaultsOnlyRise DEF CleanInv
    <3>2. CASE WriteLine(r) \/ WriteNewline(r)
      BY <3>1, <3>2, LineClean
    <3>3. CASE Flush(r) \/ Quit(r)
      BY <3>1, <3>3, EndClean
    <3>4. CASE Stat(r) \/ RemoveBackup(r) \/ Rename(r) \/ OpenHistory(r) \/ Kill(r)
      BY <3>1, <3>4, QuietClean
    <3> QED
      BY <2>2, <3>1, <3>2, <3>3, <3>4 DEF Dashboard
  <2> QED
    BY <2>1, <2>2 DEF Next
<1>3. OrderInv /\ CleanInv => Intact
  BY DEF OrderInv, CleanInv, AllClean, Clean, NoneMissing, Intact
<1> QED
  BY <1>1, <1>2, <1>3, TypeCorrect, PTL DEF Spec

------------------------------------------------------------------------------
(* The lines that a failed call spoils.  The units that a dashboard's       *)
(* BufWriter takes are in the order of the lines, and each tail follows its *)
(* head and each newline its tail.                                          *)
Key(u) == 3 * u.n + (IF u.part = "head" THEN 0 ELSE IF u.part = "tail" THEN 1 ELSE 2)

Continues(u, v) ==
    /\ u.run = v.run /\ u.n = v.n
    /\ \/ u.part = "head" /\ v.part = "tail"
       \/ u.part = "tail" /\ v.part = "nl"

Taken(a, r, n) ==
    /\ \A i \in 1..Len(a) : a[i].run = r /\ a[i].n <= n
    /\ \A i \in 1..Len(a) : \A j \in 1..Len(a) : i < j => Key(a[i]) < Key(a[j])
    /\ \A i \in 1..Len(a) : a[i].part # "head" => i > 1 /\ Continues(a[i - 1], a[i])

(* A dashboard that writes a newline has just taken the text before it. *)
TakenInv ==
    \A r \in Runs :
        /\ Taken(accepted[r], r, lines[r])
        /\ pc[r] = "newline" =>
              /\ Len(accepted[r]) > 0 /\ Len(buf[r]) > 0
              /\ accepted[r][Len(accepted[r])] = Unit(r, lines[r], "tail")

LEMMA KeyType ==
    ASSUME NEW u \in Units
    PROVE  /\ Key(u) \in Nat /\ 3 * u.n <= Key(u) /\ Key(u) <= 3 * u.n + 2
           /\ u.part = "head" => Key(u) = 3 * u.n
           /\ u.part = "tail" => Key(u) = 3 * u.n + 1
           /\ u.part = "nl" => Key(u) = 3 * u.n + 2
<1>1. u.n \in Nat /\ u.part \in {"head", "tail", "nl"}
  BY DEF Units
<1> QED
  BY <1>1 DEF Key

LEMMA UnitType ==
    ASSUME NEW r \in Runs, NEW n \in Nat, NEW part \in {"head", "tail", "nl"}
    PROVE  /\ Unit(r, n, part) \in Units
           /\ Unit(r, n, part).run = r /\ Unit(r, n, part).n = n /\ Unit(r, n, part).part = part
BY DEF Unit, Units

(* Units joined to what was taken keep it so when they come after it.       *)
LEMMA TakenJoin ==
    ASSUME NEW r \in Runs, NEW n \in Nat, NEW m \in Nat, n <= m,
           NEW a \in Seq(Units), Taken(a, r, n),
           NEW t \in Seq(Units),
           \A i \in 1..Len(t) : t[i].run = r /\ t[i].n <= m,
           \A i \in 1..Len(t) : \A j \in 1..Len(t) : i < j => Key(t[i]) < Key(t[j]),
           \A i \in 1..Len(a) : \A j \in 1..Len(t) : Key(a[i]) < Key(t[j]),
           \A i \in 1..Len(t) : t[i].part # "head" =>
               \/ i > 1 /\ Continues(t[i - 1], t[i])
               \/ i = 1 /\ Len(a) > 0 /\ Continues(a[Len(a)], t[1])
    PROVE  Taken(a \o t, r, m)
<1> DEFINE b == a \o t
<1>1. /\ Len(b) = Len(a) + Len(t) /\ Len(a) \in Nat /\ Len(t) \in Nat
      /\ \A i \in 1..Len(a) : b[i] = a[i]
      /\ \A i \in 1..Len(t) : b[Len(a) + i] = t[i]
      /\ \A i \in 1..Len(a) : a[i] \in Units
  BY JoinAt
<1> HIDE DEF b
<1>2. \A i \in 1..Len(b) :
         \/ i \in 1..Len(a) /\ b[i] = a[i]
         \/ i - Len(a) \in 1..Len(t) /\ b[i] = t[i - Len(a)] /\ i > Len(a)
  <2> SUFFICES ASSUME NEW i \in 1..Len(b), ~(i \in 1..Len(a))
               PROVE  i - Len(a) \in 1..Len(t) /\ b[i] = t[i - Len(a)] /\ i > Len(a)
    BY <1>1
  <2>1. PICK j \in 1..Len(t) : i = Len(a) + j
    <3>1. i - Len(a) \in 1..Len(t) /\ i = Len(a) + (i - Len(a))
      BY <1>1
    <3> QED
      BY <3>1
  <2> QED
    BY <1>1, <2>1
<1>3. ASSUME NEW i \in 1..Len(b) PROVE b[i].run = r /\ b[i].n <= m
  <2>1. CASE i \in 1..Len(a) /\ b[i] = a[i]
    <3>1. a[i].n \in Nat
      BY <1>1, <2>1 DEF Units
    <3> QED
      BY <2>1, <3>1 DEF Taken
  <2> QED
    BY <1>2, <2>1
<1>4. ASSUME NEW i \in 1..Len(b), NEW j \in 1..Len(b), i < j PROVE Key(b[i]) < Key(b[j])
  <2>1. CASE j \in 1..Len(a) /\ b[j] = a[j]
    <3>1. i \in 1..Len(a) /\ b[i] = a[i]
      BY <1>1, <1>4, <2>1
    <3> QED
      BY <1>4, <2>1, <3>1 DEF Taken
  <2>2. CASE j - Len(a) \in 1..Len(t) /\ b[j] = t[j - Len(a)]
    <3>1. CASE i \in 1..Len(a) /\ b[i] = a[i]
      BY <2>2, <3>1
    <3>2. CASE i - Len(a) \in 1..Len(t) /\ b[i] = t[i - Len(a)]
      <4>1. i - Len(a) < j - Len(a)
        BY <1>1, <1>4
      <4> QED
        BY <2>2, <3>2, <4>1
    <3> QED
      BY <1>2, <3>1, <3>2
  <2> QED
    BY <1>2, <2>1, <2>2
<1>5. ASSUME NEW i \in 1..Len(b), b[i].part # "head" PROVE i > 1 /\ Continues(b[i - 1], b[i])
  <2>1. CASE i \in 1..Len(a) /\ b[i] = a[i]
    <3>1. i > 1 /\ Continues(a[i - 1], a[i])
      BY <1>5, <2>1 DEF Taken
    <3>2. i - 1 \in 1..Len(a)
      BY <1>1, <2>1, <3>1
    <3> QED
      BY <1>1, <2>1, <3>1, <3>2
  <2>2. CASE i - Len(a) \in 1..Len(t) /\ b[i] = t[i - Len(a)] /\ i > Len(a)
    <3>1. PICK j \in 1..Len(t) : j = i - Len(a) /\ b[i] = t[j] /\ i = Len(a) + j
      BY <1>1, <2>2
    <3>2. CASE j > 1 /\ Continues(t[j - 1], t[j])
      <4>1. PICK l \in 1..Len(t) : l = j - 1
        BY <1>1, <3>2
      <4>2. i > 1 /\ i - 1 = Len(a) + l
        BY <1>1, <3>1, <3>2, <4>1
      <4>3. b[i - 1] = t[j - 1]
        BY <1>1, <4>1, <4>2
      <4> QED
        BY <3>1, <3>2, <4>2, <4>3
    <3>3. CASE j = 1 /\ Len(a) > 0 /\ Continues(a[Len(a)], t[1])
      <4>1. i - 1 = Len(a) /\ i > 1 /\ Len(a) \in 1..Len(a)
        BY <1>1, <3>1, <3>3
      <4> QED
        BY <1>1, <3>1, <3>3, <4>1
    <3>4. t[j].part # "head"
      BY <1>5, <3>1
    <3> QED
      BY <3>2, <3>3, <3>4
  <2> QED
    BY <1>2, <2>1, <2>2
<1> QED
  BY <1>3, <1>4, <1>5 DEF Taken, b

(* What a write_all does: it fits, it overflows, or its overflow fails. *)
Fits(r, units, next) ==
    /\ Len(buf[r]) + Len(units) <= BufCap
    /\ files' = files /\ faults' = faults
    /\ buf'[r] = buf[r] \o units
    /\ accepted' = [accepted EXCEPT ![r] = @ \o units]
    /\ pc'[r] = next

Overflows(r, units, next) ==
    /\ Len(buf[r]) + Len(units) > BufCap
    /\ files' = [files EXCEPT ![fd[r]] = @ \o SubSeq(buf[r], 1, Len(buf[r]))]
    /\ faults' = faults
    /\ buf'[r] = units
    /\ accepted' = [accepted EXCEPT ![r] = @ \o units]
    /\ pc'[r] = next

Tears(r, k, place) ==
    /\ k \in 0..Len(buf[r]) /\ k < Len(buf[r])
    /\ files' = [files EXCEPT ![fd[r]] = @ \o SubSeq(buf[r], 1, k)]
    /\ faults' = faults + 1
    /\ buf'[r] = Unwritten(r, k)
    /\ accepted' = accepted
    /\ pc'[r] = place

LEMMA PutCases ==
    ASSUME TypeOK, NEW r \in Runs, NEW units \in Seq(Units), NEW next, Put(r, units, next)
    PROVE  /\ \A q \in Runs : q # r => pc'[q] = pc[q] /\ buf'[q] = buf[q]
           /\ \/ Fits(r, units, next)
              \/ Overflows(r, units, next)
              \/ \E k \in 0..Len(buf[r]) : Tears(r, k, "flush")
<1>1. /\ Len(buf[r]) \in Nat /\ Len(units) \in Nat /\ BufCap \in Nat
      /\ buf \in [Runs -> Seq(Units)] /\ pc \in [Runs -> Places]
  BY HistoryAssumption DEF TypeOK, Places
<1>2. CASE Len(buf[r]) + Len(units) <= BufCap
  <2>1. /\ buf' = [buf EXCEPT ![r] = buf[r] \o units]
        /\ accepted' = [accepted EXCEPT ![r] = @ \o units]
        /\ pc' = [pc EXCEPT ![r] = next] /\ files' = files /\ faults' = faults
    BY <1>2 DEF Put
  <2>2. /\ buf'[r] = buf[r] \o units /\ pc'[r] = next
        /\ \A q \in Runs : q # r => pc'[q] = pc[q] /\ buf'[q] = buf[q]
    BY <1>1, <2>1
  <2> QED
    BY <1>2, <2>1, <2>2 DEF Fits
<1>3. CASE ~(Len(buf[r]) + Len(units) <= BufCap)
  <2>1. PICK k \in 0..Len(buf[r]) :
           /\ WriteOut(r, k)
           /\ IF k = Len(buf[r])
                THEN /\ buf' = [buf EXCEPT ![r] = units]
                     /\ accepted' = [accepted EXCEPT ![r] = @ \o units]
                     /\ pc' = [pc EXCEPT ![r] = next]
                ELSE /\ buf' = [buf EXCEPT ![r] = Unwritten(r, k)]
                     /\ pc' = [pc EXCEPT ![r] = "flush"]
                     /\ UNCHANGED accepted
    BY <1>3 DEF Put
  <2>2. CASE k = Len(buf[r])
    <3>1. /\ files' = [files EXCEPT ![fd[r]] = @ \o SubSeq(buf[r], 1, Len(buf[r]))]
          /\ faults' = faults
      BY <2>1, <2>2 DEF WriteOut
    <3>2. /\ buf'[r] = units /\ pc'[r] = next
          /\ accepted' = [accepted EXCEPT ![r] = @ \o units]
          /\ \A q \in Runs : q # r => pc'[q] = pc[q] /\ buf'[q] = buf[q]
      BY <1>1, <2>1, <2>2
    <3>3. Len(buf[r]) + Len(units) > BufCap
      BY <1>1, <1>3
    <3> QED
      BY <3>1, <3>2, <3>3 DEF Overflows
  <2>3. CASE k # Len(buf[r])
    <3>1. /\ files' = [files EXCEPT ![fd[r]] = @ \o SubSeq(buf[r], 1, k)]
          /\ faults' = faults + 1
      BY <2>1, <2>3 DEF WriteOut
    <3>2. /\ buf'[r] = Unwritten(r, k) /\ pc'[r] = "flush" /\ accepted' = accepted
          /\ \A q \in Runs : q # r => pc'[q] = pc[q] /\ buf'[q] = buf[q]
      BY <1>1, <2>1, <2>3
    <3>3. k < Len(buf[r])
      BY <1>1, <2>3
    <3> QED
      BY <3>1, <3>2, <3>3 DEF Tears
  <2> QED
    BY <2>2, <2>3
<1> QED
  BY <1>2, <1>3

LEMMA LineTaken ==
    ASSUME TypeOK, TakenInv, NEW r \in Runs, WriteLine(r)
    PROVE  /\ Taken(accepted'[r], r, lines'[r])
           /\ pc'[r] = "newline" =>
                 /\ Len(accepted'[r]) > 0 /\ Len(buf'[r]) > 0
                 /\ accepted'[r][Len(accepted'[r])] = Unit(r, lines'[r], "tail")
           /\ \A q \in Runs : q # r => accepted'[q] = accepted[q] /\ lines'[q] = lines[q]
                                       /\ pc'[q] = pc[q] /\ buf'[q] = buf[q]
<1>1. PICK m \in Nat, n \in Nat, a \in Seq(Units) :
         m = lines[r] /\ n = m + 1 /\ a = accepted[r]
  BY DEF TypeOK
<1>2. /\ lines'[r] = n /\ \A q \in Runs : q # r => lines'[q] = lines[q]
      /\ Put(r, Text(r, n), "newline") /\ Taken(a, r, m)
      /\ accepted \in [Runs -> Seq(Units)]
  BY <1>1 DEF WriteLine, Text, TypeOK, TakenInv
<1> DEFINE t == Text(r, n)
<1>3. /\ t \in Seq(Units) /\ Len(t) = 2
      /\ t[1] = Unit(r, n, "head") /\ t[2] = Unit(r, n, "tail")
  BY EntryType DEF Text
<1>4. /\ t[1] \in Units /\ t[1].run = r /\ t[1].n = n /\ t[1].part = "head"
      /\ t[2] \in Units /\ t[2].run = r /\ t[2].n = n /\ t[2].part = "tail"
  BY <1>3, UnitType
<1> HIDE DEF t
<1>5. \A q \in Runs : q # r => pc'[q] = pc[q] /\ buf'[q] = buf[q]
  BY <1>2, <1>3, PutCases DEF t
<1>6. Key(t[1]) = 3 * n /\ Key(t[2]) = 3 * n + 1
  BY <1>4, KeyType
<1>7. Taken(a \o t, r, n)
  <2>1. \A i \in 1..Len(a) : \A j \in 1..Len(t) : Key(a[i]) < Key(t[j])
    <3> SUFFICES ASSUME NEW i \in 1..Len(a), NEW j \in 1..Len(t) PROVE Key(a[i]) < Key(t[j])
      OBVIOUS
    <3>1. a[i] \in Units /\ a[i].n \in Nat /\ a[i].n <= m
      <4>1. a[i] \in Units /\ a[i].n <= m
        BY <1>2 DEF Taken
      <4> QED
        BY <4>1 DEF Units
    <3>2. Key(a[i]) \in Nat /\ Key(a[i]) <= 3 * a[i].n + 2
      BY <3>1, KeyType
    <3>3. j = 1 \/ j = 2
      BY <1>3
    <3>4. Key(t[j]) = 3 * n \/ Key(t[j]) = 3 * n + 1
      BY <1>6, <3>3
    <3>5. PICK x \in Nat, l \in Nat : x = Key(a[i]) /\ l = a[i].n
      BY <3>1, <3>2
    <3>6. l <= m /\ x <= 3 * l + 2
      BY <3>1, <3>2, <3>5
    <3>7. n = m + 1
      BY <1>1
    <3>8. x < 3 * n /\ x < 3 * n + 1
      BY <3>6, <3>7
    <3> QED
      BY <3>4, <3>5, <3>8
  <2>2. \A i \in 1..Len(t) : t[i].run = r /\ t[i].n <= n
    BY <1>3, <1>4
  <2>3. \A i \in 1..Len(t) : \A j \in 1..Len(t) : i < j => Key(t[i]) < Key(t[j])
    <3> SUFFICES ASSUME NEW i \in 1..2, NEW j \in 1..2, i < j PROVE Key(t[i]) < Key(t[j])
      BY <1>3
    <3>1. i = 1 /\ j = 2
      OBVIOUS
    <3> QED
      BY <1>6, <3>1
  <2>4. \A i \in 1..Len(t) : t[i].part # "head" => i > 1 /\ Continues(t[i - 1], t[i])
    <3> SUFFICES ASSUME NEW i \in 1..2, t[i].part # "head" PROVE i > 1 /\ Continues(t[i - 1], t[i])
      BY <1>3
    <3>1. i = 2 /\ i - 1 = 1
      BY <1>4
    <3> QED
      BY <1>4, <3>1 DEF Continues
  <2>5. m <= n
    BY <1>1
  <2> QED
    BY <1>2, <1>3, <2>1, <2>2, <2>3, <2>4, <2>5, TakenJoin
<1>8. Taken(a, r, n)
  <2>1. ASSUME NEW i \in 1..Len(a) PROVE a[i].n \in Nat /\ a[i].n <= n
    <3>1. a[i] \in Units /\ a[i].n <= m
      BY <1>2 DEF Taken
    <3>2. a[i].n \in Nat
      BY <3>1 DEF Units
    <3> QED
      BY <1>1, <3>1, <3>2
  <2> QED
    BY <1>2, <2>1 DEF Taken
<1>9. CASE accepted' = [accepted EXCEPT ![r] = @ \o t] /\ buf'[r] \in {t, buf[r] \o t}
  <2>1. accepted'[r] = a \o t /\ \A q \in Runs : q # r => accepted'[q] = accepted[q]
    BY <1>1, <1>2, <1>9
  <2>2. ASSUME NEW b \in Seq(Units)
        PROVE  Len(b \o t) = Len(b) + 2 /\ (b \o t)[Len(b) + 2] = t[2] /\ Len(b) \in Nat
    <3>1. /\ Len(b \o t) = Len(b) + Len(t) /\ Len(b) \in Nat
          /\ \A i \in 1..Len(t) : (b \o t)[Len(b) + i] = t[i]
      <4>1. t \in Seq(Units)
        BY <1>3
      <4> QED
        BY <4>1, JoinAt
    <3>2. 2 \in 1..Len(t)
      BY <1>3
    <3> QED
      BY <1>3, <3>1, <3>2
  <2>3. Len(a \o t) = Len(a) + 2 /\ (a \o t)[Len(a) + 2] = t[2] /\ Len(a) \in Nat
    BY <2>2
  <2>4. Len(buf'[r]) > 0
    <3>1. buf[r] \in Seq(Units)
      BY DEF TypeOK
    <3>2. Len(buf[r] \o t) = Len(buf[r]) + 2 /\ Len(buf[r]) \in Nat
      BY <2>2, <3>1
    <3> QED
      BY <1>3, <1>9, <3>2
  <2> QED
    BY <1>2, <1>3, <1>5, <1>7, <2>1, <2>3, <2>4
<1>10. CASE accepted' = accepted /\ pc'[r] = "flush"
  BY <1>1, <1>2, <1>5, <1>8, <1>10
<1> QED
  BY <1>2, <1>3, <1>9, <1>10, PutCases DEF t, Fits, Overflows, Tears

LEMMA NewlineTaken ==
    ASSUME TypeOK, TakenInv, NEW r \in Runs, WriteNewline(r)
    PROVE  /\ Taken(accepted'[r], r, lines'[r])
           /\ pc'[r] = "flush" /\ lines' = lines
           /\ \A q \in Runs : q # r => accepted'[q] = accepted[q] /\ pc'[q] = pc[q]
                                       /\ buf'[q] = buf[q]
<1>1. PICK n \in Nat, a \in Seq(Units) : n = lines[r] /\ a = accepted[r]
  BY DEF TypeOK
<1>2. /\ lines' = lines /\ Put(r, Newline(r, n), "flush") /\ Taken(a, r, n)
      /\ Len(a) \in Nat /\ Len(a) > 0 /\ a[Len(a)] = Unit(r, n, "tail")
      /\ accepted \in [Runs -> Seq(Units)]
  BY <1>1 DEF WriteNewline, Newline, TypeOK, TakenInv
<1> DEFINE t == Newline(r, n)
<1>3. t \in Seq(Units) /\ Len(t) = 1 /\ t[1] = Unit(r, n, "nl")
  BY EntryType DEF Newline
<1>4. t[1] \in Units /\ t[1].run = r /\ t[1].n = n /\ t[1].part = "nl"
  BY <1>3, UnitType
<1>5. /\ a[Len(a)] \in Units /\ a[Len(a)].run = r /\ a[Len(a)].n = n /\ a[Len(a)].part = "tail"
  BY <1>2, UnitType
<1> HIDE DEF t
<1>6. Key(t[1]) = 3 * n + 2 /\ Key(a[Len(a)]) = 3 * n + 1
  BY <1>4, <1>5, KeyType
<1>7. Taken(a \o t, r, n)
  <2>1. \A i \in 1..Len(a) : \A j \in 1..Len(t) : Key(a[i]) < Key(t[j])
    <3> SUFFICES ASSUME NEW i \in 1..Len(a) PROVE Key(a[i]) < Key(t[1])
      BY <1>3
    <3>1. i = Len(a) \/ i < Len(a)
      BY <1>2
    <3>2. Key(a[i]) = Key(a[Len(a)]) \/ Key(a[i]) < Key(a[Len(a)])
      BY <1>2, <3>1 DEF Taken
    <3>3. Key(a[i]) \in Nat
      BY KeyType
    <3> QED
      BY <1>6, <3>2, <3>3
  <2>2. \A i \in 1..Len(t) : t[i].run = r /\ t[i].n <= n
    BY <1>3, <1>4
  <2>3. \A i \in 1..Len(t) : \A j \in 1..Len(t) : i < j => Key(t[i]) < Key(t[j])
    BY <1>3
  <2>4. \A i \in 1..Len(t) : i = 1 /\ Len(a) > 0 /\ Continues(a[Len(a)], t[1])
    BY <1>2, <1>3, <1>4, <1>5 DEF Continues
  <2>5. n <= n
    OBVIOUS
  <2> QED
    BY <1>2, <1>3, <2>1, <2>2, <2>3, <2>4, <2>5, TakenJoin
<1>8. /\ pc'[r] = "flush" /\ \A q \in Runs : q # r => pc'[q] = pc[q] /\ buf'[q] = buf[q]
      /\ accepted' = accepted \/ accepted' = [accepted EXCEPT ![r] = @ \o t]
  <2>1. Put(r, t, "flush")
    BY <1>2 DEF t
  <2>2. /\ \A q \in Runs : q # r => pc'[q] = pc[q] /\ buf'[q] = buf[q]
        /\ \/ Fits(r, t, "flush") \/ Overflows(r, t, "flush")
           \/ \E k \in 0..Len(buf[r]) : Tears(r, k, "flush")
    BY <1>3, <2>1, PutCases
  <2> QED
    BY <2>2 DEF Fits, Overflows, Tears
<1>9. /\ Taken(accepted'[r], r, n)
      /\ \A q \in Runs : q # r => accepted'[q] = accepted[q]
  <2>1. CASE accepted' = [accepted EXCEPT ![r] = @ \o t]
    <3>1. accepted'[r] = a \o t /\ \A q \in Runs : q # r => accepted'[q] = accepted[q]
      BY <1>1, <1>2, <2>1
    <3> QED
      BY <1>7, <3>1
  <2>2. CASE accepted' = accepted
    BY <1>1, <1>2, <2>2
  <2> QED
    BY <1>8, <2>1, <2>2
<1> QED
  BY <1>1, <1>2, <1>8, <1>9

LEMMA TakenStep ==
    ASSUME TypeOK, TakenInv, [Next]_vars
    PROVE  TakenInv'
<1> USE DEF TakenInv
<1>1. CASE UNCHANGED vars
  BY <1>1 DEF vars
<1>2. ASSUME NEW r \in Runs, WriteLine(r) PROVE TakenInv'
  BY <1>2, LineTaken
<1>3. ASSUME NEW r \in Runs, WriteNewline(r) PROVE TakenInv'
  BY <1>3, NewlineTaken
<1>4. ASSUME NEW r \in Runs,
             Stat(r) \/ RemoveBackup(r) \/ Rename(r) \/ OpenHistory(r) \/ CallFails(r)
             \/ Flush(r) \/ Quit(r) \/ Kill(r)
      PROVE  TakenInv'
  <2>1. accepted' = accepted /\ lines' = lines
    BY <1>4 DEF Stat, RemoveBackup, Rename, OpenHistory, CallFails, Flush, Quit, Kill
  <2>2. \E p \in Places \ {"newline"} : pc' = [pc EXCEPT ![r] = p]
    BY <1>4 DEF Stat, RemoveBackup, Rename, OpenHistory, CallFails, Flush, Quit, Kill, Places
  <2>3. \A q \in Runs : q # r => buf'[q] = buf[q]
    BY <1>4 DEF Stat, RemoveBackup, Rename, OpenHistory, CallFails, Flush, Quit, Kill, TypeOK
  <2>4. pc'[r] # "newline" /\ \A q \in Runs : q # r => pc'[q] = pc[q]
    BY <2>2 DEF TypeOK
  <2> QED
    BY <2>1, <2>3, <2>4
<1> QED
  BY <1>1, <1>2, <1>3, <1>4 DEF Next, Dashboard

(* The units of a dashboard in a file are counted from 1 on, in the order   *)
(* they stand in it.                                                        *)
LEMMA RankOnto ==
    ASSUME NEW r \in Runs, NEW s \in Seq(Units)
    PROVE  /\ \A k \in Of(s, r) : Rank(s, r, k) \in 1..Cardinality(Of(s, r))
           /\ \A j \in Of(s, r) : \A k \in Of(s, r) : j < k => Rank(s, r, j) < Rank(s, r, k)
           /\ \A i \in 1..Cardinality(Of(s, r)) : \E k \in Of(s, r) : Rank(s, r, k) = i
<1> DEFINE S == Of(s, r)
           Upto(k) == {j \in S : j <= k}
<1>1. S \subseteq 1..Len(s) /\ Len(s) \in Nat
  BY DEF Of
<1>2. IsFiniteSet(S)
  BY UnitsCounted
<1>3. PICK n \in Nat : n = Cardinality(S)
  BY UnitsCounted
<1>4. \A k \in S : Rank(s, r, k) \in 1..n
  BY <1>3, UnitsCounted
<1> HIDE DEF S
<1>5. ASSUME NEW j \in S, NEW k \in S, j < k PROVE Rank(s, r, j) < Rank(s, r, k)
  <2>1. Upto(j) \cup {k} \subseteq Upto(k) /\ k \notin Upto(j)
    <3>1. j \in Nat /\ k \in Nat /\ ~(k <= j) /\ k <= k /\ \A l \in S : l \in Nat
      BY <1>1, <1>5
    <3>2. \A l \in S : l <= j => l <= k
      BY <1>5, <3>1
    <3> QED
      BY <3>1, <3>2
  <2>2. /\ Rank(s, r, j) = Cardinality(Upto(j)) /\ Rank(s, r, k) = Cardinality(Upto(k))
        /\ Upto(j) \subseteq S /\ Upto(k) \subseteq S
        /\ Rank(s, r, j) \in Nat /\ Rank(s, r, k) \in Nat
    <3>1. Rank(s, r, j) \in Nat /\ Rank(s, r, k) \in Nat
      BY <1>4
    <3> QED
      BY <3>1 DEF Rank, S
  <2> HIDE DEF Upto
  <2>3. IsFiniteSet(Upto(j)) /\ IsFiniteSet(Upto(k))
    BY <1>2, <2>2, FS_Subset
  <2>4. Cardinality(Upto(j) \cup {k}) = Cardinality(Upto(j)) + 1
    BY <2>1, <2>3, FS_AddElement
  <2>5. Cardinality(Upto(j) \cup {k}) <= Cardinality(Upto(k))
    BY <2>1, <2>3, FS_Subset
  <2> QED
    BY <2>2, <2>4, <2>5
<1>6. ASSUME NEW i \in 1..n PROVE \E k \in S : Rank(s, r, k) = i
  <2> DEFINE f == [k \in S |-> Rank(s, r, k)]
  <2>1. f \in [S -> 1..n]
    BY <1>4
  <2>2. \A j \in S : \A k \in S : f[j] = f[k] => j = k
    <3> SUFFICES ASSUME NEW j \in S, NEW k \in S, Rank(s, r, j) = Rank(s, r, k), j # k PROVE FALSE
      OBVIOUS
    <3>1. j < k \/ k < j
      BY <1>1
    <3>2. Rank(s, r, j) < Rank(s, r, k) \/ Rank(s, r, k) < Rank(s, r, j)
      BY <1>5, <3>1
    <3>3. Rank(s, r, j) \in Nat
      BY <1>4
    <3> QED
      BY <3>2, <3>3
  <2>3. f \in Injection(S, 1..n)
    BY <2>1, <2>2 DEF Injection, IsInjective
  <2> HIDE DEF f
  <2>4. IsFiniteSet(1..n) /\ Cardinality(1..n) = n
    BY FS_Interval
  <2>5. f \in Surjection(S, 1..n)
    BY <1>3, <2>3, <2>4, FS_Injection
  <2>6. \E k \in S : f[k] = i
    BY <2>5 DEF Surjection
  <2> QED
    BY <2>6 DEF f
<1> QED
  BY <1>3, <1>4, <1>5, <1>6 DEF S

(* A unit that is in a file was taken by its dashboard, which opened it. *)
LEMMA FileUnits ==
    ASSUME TypeOK, OrderInv, TakenInv, NEW f \in 1..Len(files), NEW k \in 1..Len(files[f]),
           NEW r, r = files[f][k].run
    PROVE  /\ files[f][k] \in Units /\ r \in Runs /\ fd[r] = f /\ files[f] \in Seq(Units)
           /\ k \in Of(files[f], r)
           /\ Cardinality(Of(files[f], r)) \in Nat
           /\ Cardinality(Of(files[f], r)) <= Len(accepted[r])
           /\ \A j \in Of(files[f], r) : files[f][j] = accepted[r][Rank(files[f], r, j)]
<1>1. files \in Seq(Seq(Units)) /\ files[f] \in Seq(Units)
  BY DEF TypeOK
<1>2. files[f][k] \in Units /\ k \in Of(files[f], r)
  BY <1>1 DEF Of
<1>3. r \in Runs
  BY <1>2 DEF Units
<1>4. fd[r] = f
  BY <1>2, <1>3 DEF OrderInv, InOrder
<1>5. Opened(r) = files[f] /\ Written(r) = Cardinality(Of(files[f], r))
  BY <1>4 DEF Opened, Written, NoFile
<1>6. /\ \A j \in Of(Opened(r), r) : Opened(r)[j] = accepted[r][Rank(Opened(r), r, j)]
      /\ Written(r) <= Len(accepted[r])
  BY <1>3 DEF OrderInv, InOrder
<1>7. Cardinality(Of(files[f], r)) \in Nat
  BY <1>1, UnitsCounted
<1> QED
  BY <1>1, <1>2, <1>3, <1>4, <1>5, <1>6, <1>7

(* No unit is twice in the files. *)
LEMMA FileOnce ==
    ASSUME TypeOK, OrderInv, TakenInv,
           NEW f \in 1..Len(files), NEW j \in 1..Len(files[f]),
           NEW g \in 1..Len(files), NEW k \in 1..Len(files[g]), files[f][j] = files[g][k]
    PROVE  f = g /\ j = k
<1>1. PICK r : r = files[f][j].run
  OBVIOUS
<1>2. /\ r \in Runs /\ fd[r] = f /\ fd[r] = g /\ files[f] \in Seq(Units)
      /\ j \in Of(files[f], r) /\ k \in Of(files[g], r)
      /\ Cardinality(Of(files[f], r)) \in Nat
      /\ Cardinality(Of(files[f], r)) <= Len(accepted[r])
      /\ \A i \in Of(files[f], r) : files[f][i] = accepted[r][Rank(files[f], r, i)]
  <2>1. r = files[g][k].run
    BY <1>1
  <2>2. fd[r] = g /\ k \in Of(files[g], r)
    BY <2>1, FileUnits
  <2>3. /\ r \in Runs /\ fd[r] = f /\ files[f] \in Seq(Units) /\ j \in Of(files[f], r)
        /\ Cardinality(Of(files[f], r)) \in Nat
        /\ Cardinality(Of(files[f], r)) <= Len(accepted[r])
        /\ \A i \in Of(files[f], r) : files[f][i] = accepted[r][Rank(files[f], r, i)]
    BY <1>1, FileUnits
  <2> QED
    BY <2>2, <2>3
<1>3. /\ accepted[r] \in Seq(Units) /\ Len(accepted[r]) \in Nat
      /\ \A i \in 1..Len(accepted[r]) : accepted[r][i] \in Units
      /\ Taken(accepted[r], r, lines[r])
  <2>1. accepted[r] \in Seq(Units)
    BY <1>2 DEF TypeOK
  <2>2. Taken(accepted[r], r, lines[r])
    BY <1>2 DEF TakenInv
  <2> QED
    BY <2>1, <2>2
<1>4. ASSUME NEW x \in Of(files[f], r), NEW y \in Of(files[f], r), x < y
      PROVE  files[f][x] # files[f][y]
  <2>1. PICK a \in 1..Len(accepted[r]), b \in 1..Len(accepted[r]) :
           a = Rank(files[f], r, x) /\ b = Rank(files[f], r, y)
    <3>1. PICK c \in Nat, l \in Nat :
             c = Cardinality(Of(files[f], r)) /\ l = Len(accepted[r]) /\ c <= l
      BY <1>2, <1>3
    <3>2. Rank(files[f], r, x) \in 1..c /\ Rank(files[f], r, y) \in 1..c
      BY <1>2, <3>1, RankOnto
    <3>3. Rank(files[f], r, x) \in 1..l /\ Rank(files[f], r, y) \in 1..l
      BY <3>1, <3>2
    <3> QED
      BY <3>1, <3>3
  <2>2. a < b
    BY <1>2, <1>4, <2>1, RankOnto
  <2>3. Key(accepted[r][a]) < Key(accepted[r][b]) /\ Key(accepted[r][a]) \in Nat
    BY <1>3, <2>2, KeyType DEF Taken
  <2>4. accepted[r][a] # accepted[r][b]
    BY <2>3
  <2> QED
    BY <1>2, <2>1, <2>4
<1>5. f = g /\ j \in Of(files[f], r) /\ k \in Of(files[f], r) /\ files[f][j] = files[f][k]
  BY <1>2
<1>6. j < k \/ k < j \/ j = k
  <2>1. j \in Nat /\ k \in Nat
    OBVIOUS
  <2> QED
    BY <2>1
<1> QED
  BY <1>4, <1>5, <1>6

(* In the file of a newline is its tail, and of a tail its head. *)
LEMMA FilePreceded ==
    ASSUME TypeOK, OrderInv, TakenInv,
           NEW f \in 1..Len(files), NEW k \in 1..Len(files[f]), files[f][k].part # "head"
    PROVE  \E j \in 1..Len(files[f]) : Continues(files[f][j], files[f][k])
<1>1. PICK r : r = files[f][k].run
  OBVIOUS
<1>2. /\ r \in Runs /\ files[f] \in Seq(Units) /\ k \in Of(files[f], r)
      /\ Cardinality(Of(files[f], r)) \in Nat
      /\ Cardinality(Of(files[f], r)) <= Len(accepted[r])
      /\ \A i \in Of(files[f], r) : files[f][i] = accepted[r][Rank(files[f], r, i)]
  BY <1>1, FileUnits
<1>3. PICK c \in Nat : c = Cardinality(Of(files[f], r))
  BY <1>2
<1>4. PICK a \in 1..c : a = Rank(files[f], r, k)
  BY <1>2, <1>3, RankOnto
<1>5. a \in 1..Len(accepted[r]) /\ files[f][k] = accepted[r][a]
  <2>1. Len(accepted[r]) \in Nat
    BY <1>2 DEF TypeOK
  <2> QED
    BY <1>2, <1>3, <1>4, <2>1
<1>6. a > 1 /\ Continues(accepted[r][a - 1], accepted[r][a])
  BY <1>2, <1>5 DEF TakenInv, Taken
<1>7. PICK b \in 1..c : b = a - 1
  BY <1>6
<1>8. PICK j \in Of(files[f], r) : Rank(files[f], r, j) = b
  BY <1>2, <1>3, RankOnto
<1>9. j \in 1..Len(files[f]) /\ files[f][j] = accepted[r][a - 1]
  BY <1>2, <1>7, <1>8 DEF Of
<1> QED
  BY <1>5, <1>6, <1>9

------------------------------------------------------------------------------
(* Text that does not go on as its entry does: what a failed write tore.    *)
Ragged(s, j) == s[j].part # "nl" /\ ~(j < Len(s) /\ Continues(s[j], s[j + 1]))
Torn(s) == {s[j] : j \in {i \in 1..Len(s) : Ragged(s, i)}}
TornInFiles == UNION {Torn(files[f]) : f \in 1..Len(files)}

LEMMA TornApart ==
    ASSUME TypeOK, OrderInv, TakenInv, NEW f \in 1..Len(files),
           NEW j \in 1..Len(files[f]), NEW k \in 1..Len(files[f]),
           Continues(files[f][j], files[f][k]), k # j + 1
    PROVE  files[f][j] \in TornInFiles
<1>1. files[f][j] \in Units /\ files[f][k] \in Units /\ Len(files[f]) \in Nat
  BY DEF TypeOK
<1>2. files[f][j].part # "nl"
  BY DEF Continues
<1>3. ~(j < Len(files[f]) /\ Continues(files[f][j], files[f][j + 1]))
  <2> SUFFICES ASSUME j < Len(files[f]), Continues(files[f][j], files[f][j + 1]) PROVE FALSE
    OBVIOUS
  <2>1. PICK l \in 1..Len(files[f]) : l = j + 1
    BY <1>1
  <2>2. files[f][l] \in Units
    BY <2>1 DEF TypeOK
  <2>3. files[f][l].run = files[f][k].run /\ files[f][l].n = files[f][k].n
        /\ files[f][l].part = files[f][k].part
    BY <2>1 DEF Continues
  <2>4. files[f][l] = files[f][k]
    BY <1>1, <2>2, <2>3 DEF Units
  <2>5. l = k
    BY <2>4, FileOnce
  <2> QED
    BY <2>1, <2>5
<1>4. Ragged(files[f], j)
  BY <1>2, <1>3 DEF Ragged
<1> QED
  BY <1>4 DEF Torn, TornInFiles

(* A spoiled line that is in one piece stands on torn text; one that is not *)
(* has torn text of its own.                                                *)
OnTorn(p) ==
    /\ p[2] > 3 /\ files[p[1]][p[2] - 3] \in TornInFiles
OwnTorn(p) ==
    \E u \in TornInFiles : /\ u.run = files[p[1]][p[2]].run
                           /\ u.n = files[p[1]][p[2]].n

LEMMA SpoiledWhere ==
    ASSUME NEW p \in SpoiledLines
    PROVE  \E f \in 1..Len(files) : \E k \in 1..Len(files[f]) :
              /\ p = <<f, k>> /\ files[f][k].part = "nl" /\ ~WholeAt(files[f], k)
<1>1. PICK f \in 1..Len(files) : p \in {f} \X Spoiled(files[f])
  BY DEF SpoiledLines
<1>2. PICK k \in Spoiled(files[f]) : p = <<f, k>>
  BY <1>1
<1> QED
  BY <1>1, <1>2 DEF Spoiled, Newlines

LEMMA SpoiledByTorn ==
    ASSUME TypeOK, OrderInv, TakenInv, NEW p \in SpoiledLines
    PROVE  OnTorn(p) \/ OwnTorn(p)
<1>1. PICK f \in 1..Len(files), k \in Nat :
         /\ k \in 1..Len(files[f]) /\ p = <<f, k>>
         /\ files[f][k].part = "nl" /\ ~WholeAt(files[f], k)
  BY SpoiledWhere
<1> DEFINE s == files[f]
<1>2. s \in Seq(Units) /\ Len(s) \in Nat /\ \A i \in 1..Len(s) : s[i] \in Units
  BY DEF TypeOK
<1>3. PICK j \in 1..Len(s) : Continues(s[j], s[k])
  BY <1>1, FilePreceded
<1>4. s[j] = Unit(s[k].run, s[k].n, "tail")
  BY <1>1, <1>2, <1>3 DEF Continues, Unit, Units
<1>5. CASE j + 1 # k
  <2>1. s[j] \in TornInFiles
    BY <1>1, <1>3, <1>5, TornApart
  <2> QED
    BY <1>1, <1>3, <2>1 DEF OwnTorn, Continues
<1>6. CASE j + 1 = k
  <2>1. s[j].part = "tail"
    BY <1>1, <1>3 DEF Continues
  <2>2. PICK i \in 1..Len(s) : Continues(s[i], s[j])
    BY <2>1, FilePreceded
  <2>3. s[i] = Unit(s[k].run, s[k].n, "head")
    BY <1>2, <1>3, <2>1, <2>2 DEF Continues, Unit, Units
  <2>4. CASE i + 1 # j
    <3>1. s[i] \in TornInFiles
      BY <2>2, <2>4, TornApart
    <3> QED
      BY <1>1, <1>3, <2>2, <3>1 DEF OwnTorn, Continues
  <2>5. CASE i + 1 = j
    <3>1. j = k - 1 /\ i = k - 2 /\ k > 2 /\ k \in Nat
      BY <1>2, <1>6, <2>5
    <3>2. s[k - 2] = Unit(s[k].run, s[k].n, "head") /\ s[k - 1] = Unit(s[k].run, s[k].n, "tail")
      BY <1>4, <2>3, <3>1
    <3>3. k > 3 /\ s[k - 3].part # "nl"
      BY <1>1, <3>1, <3>2 DEF WholeAt
    <3>4. PICK l \in 1..Len(s) : l = k - 3
      BY <1>1, <1>2, <3>3
    <3>5. l + 1 = i
      BY <1>2, <3>1, <3>4
    <3>6. s[i].part = "head"
      BY <2>3 DEF Unit
    <3>7. ~Continues(s[l], s[l + 1])
      BY <3>5, <3>6 DEF Continues
    <3>8. Ragged(s, l)
      BY <3>3, <3>4, <3>7 DEF Ragged
    <3>9. s[l] \in TornInFiles
      BY <3>8 DEF Torn, TornInFiles
    <3> QED
      BY <1>1, <3>3, <3>4, <3>9 DEF OnTorn
  <2> QED
    BY <2>4, <2>5
<1> QED
  BY <1>5, <1>6

(* Each torn text spoils at most two lines. *)
LEMMA TwiceTorn ==
    ASSUME TypeOK, OrderInv, TakenInv, NEW n \in Nat,
           IsFiniteSet(TornInFiles), Cardinality(TornInFiles) <= n
    PROVE  Cardinality(SpoiledLines) <= 2 * n
<1> DEFINE T == TornInFiles
           A == {p \in SpoiledLines : OnTorn(p)}
           B == {p \in SpoiledLines : OwnTorn(p)}
<1>1. SpoiledLines = A \cup B
  BY SpoiledByTorn
<1>2. IsFiniteSet(A) /\ Cardinality(A) \in Nat /\ Cardinality(A) <= n
  <2> DEFINE g == [p \in A |-> files[p[1]][p[2] - 3]]
  <2>1. g \in [A -> T]
    BY DEF OnTorn
  <2>2. ASSUME NEW p \in A, NEW q \in A, g[p] = g[q] PROVE p = q
    <3>1. PICK f \in 1..Len(files), k \in Nat : k \in 1..Len(files[f]) /\ p = <<f, k>>
      BY SpoiledWhere
    <3>2. PICK h \in 1..Len(files), l \in Nat : l \in 1..Len(files[h]) /\ q = <<h, l>>
      BY SpoiledWhere
    <3>3. k > 3 /\ l > 3 /\ files[f][k - 3] = files[h][l - 3]
      BY <2>2, <3>1, <3>2 DEF OnTorn
    <3>4. Len(files[f]) \in Nat /\ Len(files[h]) \in Nat
      BY DEF TypeOK
    <3>5. PICK x \in Nat, y \in Nat : /\ x = k - 3 /\ x \in 1..Len(files[f])
                                     /\ y = l - 3 /\ y \in 1..Len(files[h])
      BY <3>1, <3>2, <3>3, <3>4
    <3>6. f = h /\ x = y
      <4>1. x \in 1..Len(files[f]) /\ y \in 1..Len(files[h]) /\ files[f][x] = files[h][y]
        BY <3>3, <3>5
      <4> QED
        BY <4>1, FileOnce
    <3>7. k = l
      BY <3>4, <3>5, <3>6
    <3> QED
      BY <3>1, <3>2, <3>6, <3>7
  <2> HIDE DEF g, A, T
  <2>3. g \in Injection(A, T)
    BY <2>1, <2>2 DEF Injection, IsInjective
  <2>4. IsFiniteSet(A) /\ Cardinality(A) <= Cardinality(T)
    BY <2>3, FS_Injection DEF T
  <2>5. Cardinality(A) \in Nat /\ Cardinality(T) \in Nat
    BY <2>4, FS_CardinalityType DEF T
  <2>6. Cardinality(T) <= n
    BY DEF T
  <2> QED
    BY <2>4, <2>5, <2>6
<1>3. IsFiniteSet(B) /\ Cardinality(B) \in Nat /\ Cardinality(B) <= n
  <2> DEFINE Own(p, u) == /\ u.run = files[p[1]][p[2]].run
                          /\ u.n = files[p[1]][p[2]].n
             g == [p \in B |-> CHOOSE u \in T : Own(p, u)]
  <2>1. \A p \in B : g[p] \in T /\ Own(p, g[p])
    BY DEF OwnTorn
  <2>2. g \in [B -> T]
    BY <2>1
  <2>3. ASSUME NEW p \in B, NEW q \in B, g[p] = g[q] PROVE p = q
    <3>1. PICK f \in 1..Len(files), k \in Nat :
             k \in 1..Len(files[f]) /\ p = <<f, k>> /\ files[f][k].part = "nl"
      BY SpoiledWhere
    <3>2. PICK h \in 1..Len(files), l \in Nat :
             l \in 1..Len(files[h]) /\ q = <<h, l>> /\ files[h][l].part = "nl"
      BY SpoiledWhere
    <3>3. files[f][k] \in Units /\ files[h][l] \in Units
      <4>1. files[f] \in Seq(Units) /\ files[h] \in Seq(Units)
        BY DEF TypeOK
      <4> QED
        BY <3>1, <3>2, <4>1
    <3>4. files[f][k].run = files[h][l].run /\ files[f][k].n = files[h][l].n
      <4>1. /\ g[p].run = files[f][k].run /\ g[p].n = files[f][k].n
            /\ g[q].run = files[h][l].run /\ g[q].n = files[h][l].n
        <5> HIDE DEF g
        <5> QED
          BY <2>1, <3>1, <3>2
      <4> QED
        BY <2>3, <4>1
    <3>5. files[f][k] = files[h][l]
      <4>1. \A u \in Units : \A v \in Units :
               u.run = v.run /\ u.n = v.n /\ u.part = v.part => u = v
        BY DEF Units
      <4> QED
        BY <3>1, <3>2, <3>3, <3>4, <4>1
    <3>6. f = h /\ k = l
      <4>1. k \in 1..Len(files[f]) /\ l \in 1..Len(files[h])
        BY <3>1, <3>2
      <4> HIDE DEF g, B, T, Own
      <4> QED
        BY <3>5, <4>1, FileOnce
    <3> QED
      BY <3>1, <3>2, <3>6
  <2> HIDE DEF g, B, T
  <2>4. g \in Injection(B, T)
    BY <2>2, <2>3 DEF Injection, IsInjective
  <2>5. IsFiniteSet(B) /\ Cardinality(B) <= Cardinality(T)
    BY <2>4, FS_Injection DEF T
  <2>6. Cardinality(B) \in Nat /\ Cardinality(T) \in Nat
    BY <2>5, FS_CardinalityType DEF T
  <2>7. Cardinality(T) <= n
    BY DEF T
  <2> QED
    BY <2>5, <2>6, <2>7
<1> HIDE DEF A, B
<1>4. /\ Cardinality(A \cup B) = Cardinality(A) + Cardinality(B) - Cardinality(A \cap B)
      /\ IsFiniteSet(A \cap B)
  <2>1. A \cap B \subseteq A
    OBVIOUS
  <2> QED
    BY <1>2, <1>3, <2>1, FS_Union, FS_Subset
<1>5. Cardinality(A \cap B) \in Nat
  BY <1>4, FS_CardinalityType
<1> QED
  BY <1>1, <1>2, <1>3, <1>4, <1>5

------------------------------------------------------------------------------
(* What joining and cutting do to torn text. *)
LEMMA TornType ==
    ASSUME NEW s \in Seq(Units), NEW u \in Torn(s)
    PROVE  u \in Units /\ u.part # "nl"
BY DEF Torn, Ragged

LEMMA TornJoin ==
    ASSUME NEW s \in Seq(Units), NEW t \in Seq(Units), NEW u \in Torn(s \o t)
    PROVE  u \in Torn(t) \/ \E j \in 1..Len(s) :
                               /\ u = s[j] /\ Ragged(s, j)
                               /\ j = Len(s) => Len(t) = 0 \/ ~Continues(s[j], t[1])
<1> DEFINE b == s \o t
<1>1. /\ Len(b) = Len(s) + Len(t) /\ Len(s) \in Nat /\ Len(t) \in Nat
      /\ \A i \in 1..Len(s) : b[i] = s[i]
      /\ \A i \in 1..Len(t) : b[Len(s) + i] = t[i]
  BY JoinAt
<1> HIDE DEF b
<1>2. PICK j \in 1..Len(b) : Ragged(b, j) /\ u = b[j]
  BY DEF Torn, b
<1>3. CASE j \in 1..Len(s)
  <2>1. u = s[j] /\ s[j].part # "nl"
    BY <1>1, <1>2, <1>3 DEF Ragged
  <2>2. ~(j < Len(s) /\ Continues(s[j], s[j + 1]))
    <3> SUFFICES ASSUME j < Len(s), Continues(s[j], s[j + 1]) PROVE FALSE
      OBVIOUS
    <3>1. j + 1 \in 1..Len(s) /\ j < Len(b)
      BY <1>1, <1>3
    <3> QED
      BY <1>1, <1>2, <1>3, <3>1 DEF Ragged
  <2>3. ASSUME j = Len(s), Len(t) # 0 PROVE ~Continues(s[j], t[1])
    <3>1. 1 \in 1..Len(t) /\ j < Len(b)
      BY <1>1, <2>3
    <3>2. b[j + 1] = t[1]
      BY <1>1, <2>3, <3>1
    <3> QED
      BY <1>1, <1>2, <1>3, <3>1, <3>2 DEF Ragged
  <2> QED
    BY <1>3, <2>1, <2>2, <2>3 DEF Ragged
<1>4. CASE ~(j \in 1..Len(s))
  <2>1. PICK i \in 1..Len(t) : j = Len(s) + i
    <3>1. j - Len(s) \in 1..Len(t) /\ j = Len(s) + (j - Len(s))
      BY <1>1, <1>4
    <3> QED
      BY <3>1
  <2>2. u = t[i] /\ t[i].part # "nl"
    BY <1>1, <1>2, <2>1 DEF Ragged
  <2>3. ~(i < Len(t) /\ Continues(t[i], t[i + 1]))
    <3> SUFFICES ASSUME i < Len(t), Continues(t[i], t[i + 1]) PROVE FALSE
      OBVIOUS
    <3>1. PICK l \in 1..Len(t) : l = i + 1
      BY <1>1
    <3>2. j < Len(b) /\ b[j + 1] = t[l] /\ b[j] = t[i]
      <4>1. j + 1 = Len(s) + l /\ j < Len(b)
        BY <1>1, <2>1, <3>1
      <4> QED
        BY <1>1, <2>1, <4>1
    <3> QED
      BY <1>2, <3>1, <3>2 DEF Ragged
  <2> QED
    BY <2>2, <2>3 DEF Torn, Ragged
<1> QED
  BY <1>3, <1>4

LEMMA TornCut ==
    ASSUME NEW s \in Seq(Units), NEW k \in 0..Len(s)
    PROVE  /\ Torn(SubSeq(s, 1, k)) \subseteq Torn(s) \cup {s[k]}
           /\ Torn(SubSeq(s, k + 1, Len(s))) \subseteq Torn(s)
<1>1. Len(s) \in Nat /\ k \in Nat /\ k <= Len(s)
  OBVIOUS
<1>2. ASSUME NEW u \in Torn(SubSeq(s, 1, k)) PROVE u \in Torn(s) \cup {s[k]}
  <2> DEFINE p == SubSeq(s, 1, k)
  <2>1. Len(p) = k /\ \A i \in 1..k : p[i] = s[i]
    BY CutAt
  <2> HIDE DEF p
  <2>2. PICK j \in 1..k : Ragged(p, j) /\ u = p[j]
    BY <2>1 DEF Torn, p
  <2>3. CASE j = k
    BY <2>1, <2>2, <2>3
  <2>4. CASE j < k
    <3>1. j \in 1..Len(s) /\ j + 1 \in 1..k
      BY <1>1, <2>4
    <3>2. Ragged(s, j) /\ u = s[j]
      BY <1>1, <2>1, <2>2, <2>4, <3>1 DEF Ragged
    <3> QED
      BY <3>1, <3>2 DEF Torn
  <2> QED
    BY <1>1, <2>3, <2>4
<1>3. ASSUME NEW u \in Torn(SubSeq(s, k + 1, Len(s))) PROVE u \in Torn(s)
  <2> DEFINE p == SubSeq(s, k + 1, Len(s))
  <2>1. Len(p) = Len(s) - k /\ \A i \in 1..(Len(s) - k) : p[i] = s[k + i]
    BY CutAt
  <2> HIDE DEF p
  <2>2. PICK j \in 1..(Len(s) - k) : Ragged(p, j) /\ u = p[j]
    BY <2>1 DEF Torn, p
  <2>3. PICK i \in 1..Len(s) : i = k + j /\ u = s[i] /\ s[i].part # "nl"
    <3>1. k + j \in 1..Len(s)
      BY <1>1
    <3> QED
      BY <2>1, <2>2, <3>1 DEF Ragged
  <2>4. ~(i < Len(s) /\ Continues(s[i], s[i + 1]))
    <3> SUFFICES ASSUME i < Len(s), Continues(s[i], s[i + 1]) PROVE FALSE
      OBVIOUS
    <3>1. PICK l \in 1..(Len(s) - k) : l = j + 1
      BY <1>1, <2>3
    <3>2. j < Len(p) /\ p[j] = s[i] /\ p[j + 1] = s[i + 1]
      <4>1. k + l = i + 1 /\ j < Len(p)
        BY <1>1, <2>1, <2>3, <3>1
      <4> QED
        BY <2>1, <2>3, <3>1, <4>1
    <3> QED
      BY <2>2, <3>2 DEF Ragged
  <2> QED
    BY <2>3, <2>4 DEF Torn, Ragged
<1> QED
  BY <1>2, <1>3

(* A text is torn only until its newline follows it. *)
LEMMA TornEntry ==
    ASSUME NEW r \in Runs, NEW n \in Nat
    PROVE  /\ Torn(<<>>) = {}
           /\ Torn(Text(r, n)) \subseteq {Unit(r, n, "tail")}
           /\ Torn(Newline(r, n)) = {}
           /\ ~Continues(Unit(r, n, "tail"), Unit(r, n, "head"))
           /\ Continues(Unit(r, n, "tail"), Unit(r, n, "nl"))
<1>1. Torn(<<>>) = {}
  BY DEF Torn
<1>2. ASSUME NEW u \in Torn(Text(r, n)) PROVE u = Unit(r, n, "tail")
  <2> DEFINE t == Text(r, n)
  <2>1. Len(t) = 2 /\ t[1] = Unit(r, n, "head") /\ t[2] = Unit(r, n, "tail")
    BY EntryType DEF Text
  <2>2. Continues(t[1], t[2])
    BY <2>1, UnitType DEF Continues
  <2> HIDE DEF t
  <2>3. PICK j \in 1..2 : Ragged(t, j) /\ u = t[j]
    BY <2>1 DEF Torn, t
  <2>4. j # 1
    BY <2>1, <2>2, <2>3 DEF Ragged
  <2> QED
    BY <2>1, <2>3, <2>4
<1>3. Torn(Newline(r, n)) = {}
  <2> SUFFICES ASSUME NEW u \in Torn(Newline(r, n)) PROVE FALSE
    OBVIOUS
  <2> DEFINE t == Newline(r, n)
  <2>1. Len(t) = 1 /\ t[1] = Unit(r, n, "nl")
    BY EntryType DEF Newline
  <2>2. t[1].part = "nl"
    BY <2>1, UnitType
  <2> HIDE DEF t
  <2>3. PICK j \in 1..1 : Ragged(t, j)
    BY <2>1 DEF Torn, t
  <2> QED
    BY <2>2, <2>3 DEF Ragged
<1>4. /\ ~Continues(Unit(r, n, "tail"), Unit(r, n, "head"))
      /\ Continues(Unit(r, n, "tail"), Unit(r, n, "nl"))
  BY UnitType DEF Continues
<1> QED
  BY <1>1, <1>2, <1>3, <1>4

LEMMA TornWithText ==
    ASSUME NEW r \in Runs, NEW n \in Nat, NEW s \in Seq(Units)
    PROVE  Torn(s \o Text(r, n)) \subseteq Torn(s) \cup {Unit(r, n, "tail")}
<1>1. Text(r, n) \in Seq(Units) /\ Torn(Text(r, n)) \subseteq {Unit(r, n, "tail")}
  BY EntryType, TornEntry
<1>2. ASSUME NEW u \in Torn(s \o Text(r, n)) PROVE u \in Torn(Text(r, n)) \/ u \in Torn(s)
  <2>1. u \in Torn(Text(r, n)) \/ \E j \in 1..Len(s) : u = s[j] /\ Ragged(s, j)
    BY <1>1, TornJoin
  <2>2. ASSUME NEW j \in 1..Len(s), u = s[j], Ragged(s, j) PROVE u \in Torn(s)
    BY <2>2 DEF Torn
  <2> QED
    BY <2>1, <2>2
<1> QED
  BY <1>1, <1>2

LEMMA TornWithNewline ==
    ASSUME NEW r \in Runs, NEW n \in Nat, NEW s \in Seq(Units),
           Len(s) > 0, s[Len(s)] = Unit(r, n, "tail"),
           \A j \in 1..Len(s) : s[j] = s[Len(s)] => j = Len(s)
    PROVE  Torn(s \o Newline(r, n)) \subseteq Torn(s) \ {Unit(r, n, "tail")}
<1> SUFFICES ASSUME NEW u \in Torn(s \o Newline(r, n))
             PROVE  u \in Torn(s) /\ u # Unit(r, n, "tail")
  OBVIOUS
<1>1. /\ Newline(r, n) \in Seq(Units) /\ Torn(Newline(r, n)) = {}
      /\ Len(Newline(r, n)) = 1 /\ Newline(r, n)[1] = Unit(r, n, "nl")
  BY EntryType, TornEntry DEF Newline
<1>2. PICK j \in 1..Len(s) :
         /\ u = s[j] /\ Ragged(s, j)
         /\ j = Len(s) => ~Continues(s[j], Unit(r, n, "nl"))
  BY <1>1, TornJoin
<1>3. j # Len(s)
  BY <1>2, TornEntry
<1> QED
  BY <1>2, <1>3 DEF Torn

------------------------------------------------------------------------------
(* What failed calls have torn so far, in files and buffers, and what they  *)
(* may yet tear: the text of a line that was begun on what a failed flush   *)
(* left, since its newline may overflow, counted as one mark.  The text of  *)
(* the line in hand is not torn.                                            *)
Mark(r) == Unit(r, 0, "nl")

Held(place, b, r, n) ==
    {u \in Torn(b) : place = "newline" => u # Unit(r, n, "tail")}

Late(place, b) ==
    \/ place = "idle" /\ Len(b) > 0
    \/ place = "newline" /\ Len(b) > 2

Debts(place, b, r, n) == Held(place, b, r, n) \cup {m \in {Mark(r)} : Late(place, b)}

Debt == TornInFiles \cup UNION {Debts(pc[r], buf[r], r, lines[r]) : r \in Runs}

(* Each failed call adds at most two to the debt. *)
Budget == IsFiniteSet(Debt) /\ Cardinality(Debt) <= 2 * faults

LEMMA BudgetKept ==
    ASSUME TypeOK, TypeOK', Budget, Debt' \subseteq Debt, faults' >= faults
    PROVE  Budget'
<1>1. IsFiniteSet(Debt') /\ Cardinality(Debt') <= Cardinality(Debt)
  BY FS_Subset DEF Budget
<1>2. Cardinality(Debt') \in Nat /\ Cardinality(Debt) \in Nat
  BY <1>1, FS_CardinalityType DEF Budget
<1>3. PICK m \in Nat, n \in Nat, c \in Nat, d \in Nat :
         m = faults /\ n = faults' /\ c = Cardinality(Debt) /\ d = Cardinality(Debt')
  BY <1>2 DEF TypeOK
<1>4. d <= c /\ c <= 2 * m /\ n >= m
  BY <1>1, <1>3 DEF Budget
<1>5. d <= 2 * n
  BY <1>4
<1> QED
  BY <1>1, <1>3, <1>5 DEF Budget

LEMMA BudgetMoved ==
    ASSUME TypeOK, Budget, NEW x \in Debt, NEW y, Debt' \subseteq (Debt \ {x}) \cup {y},
           faults' = faults
    PROVE  Budget'
<1> DEFINE D == (Debt \ {x}) \cup {y}
<1>1. PICK m \in Nat, c \in Nat : m = faults /\ c = Cardinality(Debt)
  BY FS_CardinalityType DEF TypeOK, Budget
<1>2. IsFiniteSet(Debt \ {x}) /\ Cardinality(Debt \ {x}) = c - 1
  BY <1>1, FS_RemoveElement DEF Budget
<1>3. IsFiniteSet(D) /\ (Cardinality(D) = c - 1 \/ Cardinality(D) = c - 1 + 1)
  BY <1>2, FS_AddElement
<1> HIDE DEF D
<1>4. IsFiniteSet(Debt') /\ Cardinality(Debt') <= Cardinality(D)
  BY <1>3, FS_Subset DEF D
<1>5. PICK d \in Nat : d = Cardinality(Debt')
  BY <1>4, FS_CardinalityType
<1>6. d <= c /\ c <= 2 * m
  BY <1>1, <1>3, <1>4, <1>5 DEF Budget
<1> QED
  BY <1>1, <1>4, <1>5, <1>6 DEF Budget

LEMMA BudgetSpent ==
    ASSUME TypeOK, Budget, NEW x, NEW y, Debt' \subseteq Debt \cup {x, y}, faults' = faults + 1
    PROVE  Budget'
<1> DEFINE D == Debt \cup {x}
           E == D \cup {y}
<1>1. PICK m \in Nat, c \in Nat : m = faults /\ c = Cardinality(Debt)
  BY FS_CardinalityType DEF TypeOK, Budget
<1>2. IsFiniteSet(D) /\ (Cardinality(D) = c \/ Cardinality(D) = c + 1)
  BY <1>1, FS_AddElement DEF Budget
<1>3. PICK d \in Nat : d = Cardinality(D) /\ d <= c + 1
  BY <1>1, <1>2
<1>4. IsFiniteSet(E) /\ (Cardinality(E) = d \/ Cardinality(E) = d + 1)
  <2> HIDE DEF D
  <2> QED
    BY <1>2, <1>3, FS_AddElement
<1>5. Debt' \subseteq E
  OBVIOUS
<1> HIDE DEF E
<1>6. IsFiniteSet(Debt') /\ Cardinality(Debt') <= Cardinality(E)
  BY <1>4, <1>5, FS_Subset
<1>7. PICK b \in Nat : b = Cardinality(Debt')
  BY <1>6, FS_CardinalityType
<1>8. b <= c + 2 /\ c <= 2 * m
  BY <1>1, <1>3, <1>4, <1>6, <1>7 DEF Budget
<1>9. b <= 2 * (m + 1)
  BY <1>8
<1> QED
  BY <1>1, <1>6, <1>7, <1>9 DEF Budget

(* A step of one dashboard changes the debt by what it writes and by its    *)
(* own buffer.                                                              *)
LEMMA DebtStep ==
    ASSUME TypeOK, TypeOK', NEW r \in Runs, NEW W, NEW X, NEW Y, Y = {} \/ Y = {Mark(r)},
           \A g \in 1..Len(files') : Torn(files'[g]) \subseteq TornInFiles \cup W,
           \A q \in Runs : q # r => pc'[q] = pc[q] /\ buf'[q] = buf[q] /\ lines'[q] = lines[q],
           W \cup Debts(pc'[r], buf'[r], r, lines'[r])
              \subseteq (Debts(pc[r], buf[r], r, lines[r]) \ Y) \cup X
    PROVE  Debt' \subseteq (Debt \ Y) \cup X
<1> SUFFICES ASSUME NEW u \in Debt' PROVE u \in (Debt \ Y) \cup X
  OBVIOUS
<1>1. CASE u \in W \cup Debts(pc'[r], buf'[r], r, lines'[r])
  <2>1. u \in (Debts(pc[r], buf[r], r, lines[r]) \ Y) \cup X
    BY <1>1
  <2> QED
    BY <2>1 DEF Debt
<1>2. CASE u \in TornInFiles
  <2>1. PICK f \in 1..Len(files) : u \in Torn(files[f])
    BY <1>2 DEF TornInFiles
  <2>2. files[f] \in Seq(Units)
    BY DEF TypeOK
  <2>3. u.part # "nl"
    BY <2>1, <2>2, TornType
  <2>4. Mark(r).part = "nl"
    BY UnitType DEF Mark
  <2> QED
    BY <1>2, <2>3, <2>4 DEF Debt
<1>3. ASSUME NEW q \in Runs, q # r, u \in Debts(pc[q], buf[q], q, lines[q])
      PROVE  u \in (Debt \ Y) \cup X
  <2>1. buf[q] \in Seq(Units)
    BY DEF TypeOK
  <2>2. u # Mark(r)
    <3>1. CASE u \in Torn(buf[q])
      BY <2>1, <3>1, TornType, UnitType DEF Mark
    <3>2. CASE u = Mark(q)
      BY <1>3, <3>2, UnitType DEF Mark
    <3> QED
      BY <1>3, <3>1, <3>2 DEF Debts, Held
  <2> QED
    BY <1>3, <2>2 DEF Debt
<1>4. \/ \E g \in 1..Len(files') : u \in Torn(files'[g])
      \/ \E q \in Runs : u \in Debts(pc'[q], buf'[q], q, lines'[q])
  BY DEF Debt, TornInFiles
<1>5. CASE \E g \in 1..Len(files') : u \in Torn(files'[g])
  BY <1>1, <1>2, <1>5
<1>6. CASE \E q \in Runs : u \in Debts(pc'[q], buf'[q], q, lines'[q])
  <2>1. PICK q \in Runs : u \in Debts(pc'[q], buf'[q], q, lines'[q])
    BY <1>6
  <2>2. CASE q = r
    BY <1>1, <2>1, <2>2
  <2>3. CASE q # r
    BY <1>3, <2>1, <2>3
  <2> QED
    BY <2>2, <2>3
<1> QED
  BY <1>4, <1>5, <1>6

LEMMA ReplaceAt ==
    ASSUME NEW S, NEW s \in Seq(S), NEW f \in 1..Len(s), NEW w, NEW u, u = [s EXCEPT ![f] = w]
    PROVE  Len(u) = Len(s) /\ u[f] = w /\ \A g \in 1..Len(s) : g # f => u[g] = s[g]
OBVIOUS

LEMMA WriteTorn ==
    ASSUME TypeOK, NEW r \in Runs, fd[r] # NoFile, NEW k \in 0..Len(buf[r]),
           files' = [files EXCEPT ![fd[r]] = @ \o SubSeq(buf[r], 1, k)]
    PROVE  \A g \in 1..Len(files') :
              Torn(files'[g]) \subseteq TornInFiles \cup Torn(SubSeq(buf[r], 1, k))
<1> DEFINE f == fd[r]
           t == SubSeq(buf[r], 1, k)
           w == files[f] \o t
<1>1. /\ f \in 1..Len(files) /\ files \in Seq(Seq(Units)) /\ files[f] \in Seq(Units)
      /\ buf[r] \in Seq(Units)
  BY DEF TypeOK, NoFile
<1>2. t \in Seq(Units)
  BY <1>1, CutType
<1>3. files' = [files EXCEPT ![f] = w]
  OBVIOUS
<1>4. Torn(w) \subseteq TornInFiles \cup Torn(t)
  <2> HIDE DEF t, f
  <2> SUFFICES ASSUME NEW u \in Torn(w), u \notin Torn(t) PROVE u \in TornInFiles
    OBVIOUS
  <2>1. \E j \in 1..Len(files[f]) : u = files[f][j] /\ Ragged(files[f], j)
    BY <1>1, <1>2, TornJoin
  <2>2. u \in Torn(files[f])
    BY <2>1 DEF Torn
  <2> QED
    BY <1>1, <2>2 DEF TornInFiles
<1> HIDE DEF w, t, f
<1>5. /\ Len(files') = Len(files) /\ files'[f] = w
      /\ \A g \in 1..Len(files) : g # f => files'[g] = files[g]
  <2>1. files \in Seq(Seq(Units)) /\ f \in 1..Len(files)
    BY <1>1
  <2>2. PICK u : u = files'
    OBVIOUS
  <2>3. u = [files EXCEPT ![f] = w]
    BY <1>3, <2>2
  <2>4. Len(u) = Len(files) /\ u[f] = w /\ \A g \in 1..Len(files) : g # f => u[g] = files[g]
    BY <2>1, <2>3, ReplaceAt
  <2> QED
    BY <2>2, <2>4
<1>6. ASSUME NEW g \in 1..Len(files) PROVE Torn(files'[g]) \subseteq TornInFiles \cup Torn(t)
  <2>1. CASE g = f
    BY <1>4, <1>5, <2>1
  <2>2. CASE g # f
    BY <1>5, <2>2 DEF TornInFiles
  <2> QED
    BY <2>1, <2>2
<1> QED
  BY <1>5, <1>6 DEF t

(* A step that writes changes the debt by what it writes and by the buffer. *)
LEMMA WriteDebt ==
    ASSUME TypeOK, TypeOK', NEW r \in Runs, fd[r] # NoFile, NEW k \in 0..Len(buf[r]),
           files' = [files EXCEPT ![fd[r]] = @ \o SubSeq(buf[r], 1, k)],
           \A q \in Runs : q # r => pc'[q] = pc[q] /\ buf'[q] = buf[q] /\ lines'[q] = lines[q],
           NEW X, NEW Y, Y = {} \/ Y = {Mark(r)},
           Torn(SubSeq(buf[r], 1, k)) \subseteq (Debts(pc[r], buf[r], r, lines[r]) \ Y) \cup X,
           Debts(pc'[r], buf'[r], r, lines'[r])
              \subseteq (Debts(pc[r], buf[r], r, lines[r]) \ Y) \cup X
    PROVE  Debt' \subseteq (Debt \ Y) \cup X
<1> DEFINE W == Torn(SubSeq(buf[r], 1, k))
<1>1. \A g \in 1..Len(files') : Torn(files'[g]) \subseteq TornInFiles \cup W
  BY WriteTorn
<1>2. W \cup Debts(pc'[r], buf'[r], r, lines'[r])
         \subseteq (Debts(pc[r], buf[r], r, lines[r]) \ Y) \cup X
  OBVIOUS
<1> HIDE DEF W
<1> QED
  BY <1>1, <1>2, DebtStep

(* The text of the line in hand is the last in the buffer, and once. *)
LEMMA TextInHand ==
    ASSUME TypeOK, OrderInv, TakenInv, NEW r \in Runs, pc[r] = "newline"
    PROVE  /\ Len(buf[r]) > 0 /\ buf[r][Len(buf[r])] = Unit(r, lines[r], "tail")
           /\ \A j \in 1..Len(buf[r]) : buf[r][j] = buf[r][Len(buf[r])] => j = Len(buf[r])
<1>1. PICK w \in Nat : w = Written(r)
  <2>1. Opened(r) \in Seq(Units)
    BY DEF Opened, TypeOK, NoFile
  <2> QED
    BY <2>1, UnitsCounted DEF Written
<1>2. PICK b \in Seq(Units), a \in Seq(Units) : b = buf[r] /\ a = accepted[r]
  BY DEF TypeOK
<1>3. /\ Len(b) \in Nat /\ Len(a) \in Nat /\ Len(b) > 0
      /\ Len(a) = w + Len(b) /\ a[Len(a)] = Unit(r, lines[r], "tail")
      /\ \A i \in 1..Len(b) : b[i] = a[w + i]
      /\ Taken(a, r, lines[r])
  BY <1>1, <1>2 DEF TakenInv, OrderInv, InOrder
<1>4. b[Len(b)] = a[Len(a)]
  <2>1. Len(b) \in 1..Len(b)
    BY <1>3
  <2> QED
    BY <1>3, <2>1
<1>5. ASSUME NEW j \in 1..Len(b), j # Len(b) PROVE b[j] # b[Len(b)]
  <2>1. w + j \in 1..Len(a) /\ Len(a) \in 1..Len(a) /\ w + j < Len(a)
    BY <1>3, <1>5
  <2>2. Key(a[w + j]) < Key(a[Len(a)])
    BY <1>3, <2>1 DEF Taken
  <2>3. a[w + j] \in Units
    BY <2>1
  <2>4. Key(a[w + j]) \in Nat
    BY <2>3, KeyType
  <2>5. a[w + j] # a[Len(a)]
    BY <2>2, <2>4
  <2> QED
    BY <1>3, <1>4, <2>5
<1> QED
  BY <1>2, <1>3, <1>4, <1>5

LEMMA LineBudget ==
    ASSUME TypeOK, TypeOK', Budget, NEW r \in Runs, WriteLine(r)
    PROVE  Budget'
<1> DEFINE t == Text(r, lines[r] + 1)
           tail == Unit(r, lines[r] + 1, "tail")
<1>1. /\ lines[r] + 1 \in Nat /\ pc[r] = "idle" /\ fd[r] # NoFile /\ buf[r] \in Seq(Units)
      /\ lines'[r] = lines[r] + 1 /\ \A q \in Runs : q # r => lines'[q] = lines[q]
      /\ Len(buf[r]) \in Nat
  BY DEF WriteLine, TypeOK
<1>2. /\ t \in Seq(Units) /\ Len(t) = 2 /\ Torn(t) \subseteq {tail}
      /\ Torn(buf[r] \o t) \subseteq Torn(buf[r]) \cup {tail}
  BY <1>1, EntryType, TornEntry, TornWithText
<1>3. Put(r, t, "newline")
  BY DEF WriteLine, Text
<1> HIDE DEF t
<1>4. /\ \A q \in Runs : q # r => pc'[q] = pc[q] /\ buf'[q] = buf[q]
      /\ \/ Fits(r, t, "newline") \/ Overflows(r, t, "newline")
         \/ \E k \in 0..Len(buf[r]) : Tears(r, k, "flush")
  BY <1>2, <1>3, PutCases
<1>5. Debts(pc[r], buf[r], r, lines[r]) =
         Torn(buf[r]) \cup {m \in {Mark(r)} : Len(buf[r]) > 0}
  BY <1>1 DEF Debts, Held, Late
<1>6. CASE Fits(r, t, "newline")
  <2>1. Len(buf[r] \o t) = Len(buf[r]) + 2
    <3>1. Len(buf[r] \o t) = Len(buf[r]) + Len(t)
      BY <1>1, <1>2, JoinAt
    <3> QED
      BY <1>2, <3>1
  <2>2. Debts(pc'[r], buf'[r], r, lines'[r])
           \subseteq Torn(buf[r]) \cup {m \in {Mark(r)} : Len(buf[r]) > 0}
    <3>1. Late("newline", buf[r] \o t) => Len(buf[r]) > 0
      BY <1>1, <2>1 DEF Late
    <3>2. Held("newline", buf[r] \o t, r, lines[r] + 1) \subseteq Torn(buf[r])
      BY <1>2 DEF Held
    <3>3. pc'[r] = "newline" /\ buf'[r] = buf[r] \o t
      BY <1>6 DEF Fits
    <3> HIDE DEF tail
    <3> QED
      BY <1>1, <3>1, <3>2, <3>3 DEF Debts
  <2>3. \A g \in 1..Len(files') : Torn(files'[g]) \subseteq TornInFiles \cup {}
    BY <1>6 DEF Fits, TornInFiles
  <2>4. Debt' \subseteq (Debt \ {}) \cup {}
    <3>1. {} \cup Debts(pc'[r], buf'[r], r, lines'[r])
             \subseteq (Debts(pc[r], buf[r], r, lines[r]) \ {}) \cup {}
      BY <1>5, <2>2
    <3> QED
      BY <1>1, <1>4, <2>3, <3>1, DebtStep
  <2>5. faults' = faults /\ faults \in Nat
    BY <1>6 DEF Fits, TypeOK
  <2> QED
    BY <2>4, <2>5, BudgetKept
<1>7. CASE Overflows(r, t, "newline")
  <2>1. /\ files' = [files EXCEPT ![fd[r]] = @ \o SubSeq(buf[r], 1, Len(buf[r]))]
        /\ buf'[r] = t /\ pc'[r] = "newline" /\ faults' = faults
    BY <1>7 DEF Overflows
  <2>2. SubSeq(buf[r], 1, Len(buf[r])) = buf[r] /\ Len(buf[r]) \in 0..Len(buf[r])
    BY <1>1, SequenceFacts
  <2>3. Debts(pc'[r], buf'[r], r, lines'[r]) = {}
    <3>1. ~Late("newline", t) /\ Held("newline", t, r, lines[r] + 1) = {}
      BY <1>2 DEF Late, Held
    <3> QED
      BY <1>1, <2>1, <3>1 DEF Debts
  <2>4. Debt' \subseteq (Debt \ {}) \cup {}
    <3>1. /\ Torn(SubSeq(buf[r], 1, Len(buf[r])))
                \subseteq (Debts(pc[r], buf[r], r, lines[r]) \ {}) \cup {}
          /\ Debts(pc'[r], buf'[r], r, lines'[r])
                \subseteq (Debts(pc[r], buf[r], r, lines[r]) \ {}) \cup {}
      BY <1>5, <2>2, <2>3
    <3> QED
      BY <1>1, <1>4, <2>1, <2>2, <3>1, WriteDebt
  <2>5. faults' = faults /\ faults \in Nat
    BY <2>1 DEF TypeOK
  <2> QED
    BY <2>4, <2>5, BudgetKept
<1>8. ASSUME NEW k \in 0..Len(buf[r]), Tears(r, k, "flush") PROVE Budget'
  <2> DEFINE X == {buf[r][k]}
  <2>1. /\ files' = [files EXCEPT ![fd[r]] = @ \o SubSeq(buf[r], 1, k)]
        /\ buf'[r] = SubSeq(buf[r], k + 1, Len(buf[r])) /\ pc'[r] = "flush"
        /\ faults' = faults + 1
    BY <1>8 DEF Tears, Unwritten
  <2>2. /\ Torn(SubSeq(buf[r], 1, k)) \subseteq Torn(buf[r]) \cup X
        /\ Torn(SubSeq(buf[r], k + 1, Len(buf[r]))) \subseteq Torn(buf[r])
    BY <1>1, TornCut
  <2>3. Debts(pc'[r], buf'[r], r, lines'[r]) \subseteq Torn(buf[r])
    BY <2>1, <2>2 DEF Debts, Held, Late
  <2>4. /\ Torn(SubSeq(buf[r], 1, k)) \subseteq (Debts(pc[r], buf[r], r, lines[r]) \ {}) \cup X
        /\ Debts(pc'[r], buf'[r], r, lines'[r])
              \subseteq (Debts(pc[r], buf[r], r, lines[r]) \ {}) \cup X
    BY <1>5, <2>2, <2>3
  <2> HIDE DEF X
  <2>5. Debt' \subseteq (Debt \ {}) \cup X
    BY <1>1, <1>4, <2>1, <2>4, WriteDebt
  <2>6. Debt' \subseteq Debt \cup {buf[r][k], buf[r][k]}
    BY <2>5 DEF X
  <2> QED
    BY <2>1, <2>6, BudgetSpent
<1> QED
  BY <1>4, <1>6, <1>7, <1>8

LEMMA NewlineBudget ==
    ASSUME TypeOK, TypeOK', OrderInv, TakenInv, Budget, NEW r \in Runs, WriteNewline(r)
    PROVE  Budget'
<1> DEFINE t == Newline(r, lines[r])
           tail == Unit(r, lines[r], "tail")
<1>1. /\ lines[r] \in Nat /\ pc[r] = "newline" /\ fd[r] # NoFile /\ buf[r] \in Seq(Units)
      /\ lines' = lines /\ Len(buf[r]) \in Nat
  BY DEF WriteNewline, TypeOK
<1>2. /\ t \in Seq(Units) /\ Len(t) = 1 /\ Torn(t) = {}
      /\ Torn(buf[r] \o t) \subseteq Torn(buf[r]) \ {tail}
  <2>1. t \in Seq(Units) /\ Len(t) = 1 /\ Torn(t) = {}
    BY <1>1, EntryType, TornEntry
  <2>2. /\ Len(buf[r]) > 0 /\ buf[r][Len(buf[r])] = tail
        /\ \A j \in 1..Len(buf[r]) : buf[r][j] = buf[r][Len(buf[r])] => j = Len(buf[r])
    BY <1>1, TextInHand
  <2>3. Torn(buf[r] \o t) \subseteq Torn(buf[r]) \ {tail}
    BY <1>1, <2>2, TornWithNewline
  <2> QED
    BY <2>1, <2>3
<1>3. Put(r, t, "flush")
  BY DEF WriteNewline, Newline
<1> HIDE DEF t
<1>4. /\ \A q \in Runs : q # r => pc'[q] = pc[q] /\ buf'[q] = buf[q]
      /\ \/ Fits(r, t, "flush") \/ Overflows(r, t, "flush")
         \/ \E k \in 0..Len(buf[r]) : Tears(r, k, "flush")
  BY <1>2, <1>3, PutCases
<1>5. Debts(pc[r], buf[r], r, lines[r]) =
         (Torn(buf[r]) \ {tail}) \cup {m \in {Mark(r)} : Len(buf[r]) > 2}
  BY <1>1 DEF Debts, Held, Late
<1> HIDE DEF tail
<1>6. CASE Fits(r, t, "flush")
  <2>1. Debts(pc'[r], buf'[r], r, lines'[r]) \subseteq Torn(buf[r]) \ {tail}
    BY <1>2, <1>6 DEF Fits, Debts, Held, Late
  <2>2. \A g \in 1..Len(files') : Torn(files'[g]) \subseteq TornInFiles \cup {}
    BY <1>6 DEF Fits, TornInFiles
  <2>3. Debt' \subseteq (Debt \ {}) \cup {}
    <3>1. {} \cup Debts(pc'[r], buf'[r], r, lines'[r])
             \subseteq (Debts(pc[r], buf[r], r, lines[r]) \ {}) \cup {}
      BY <1>5, <2>1
    <3> QED
      BY <1>1, <1>4, <2>2, <3>1, DebtStep
  <2>4. faults' = faults /\ faults \in Nat
    BY <1>6 DEF Fits, TypeOK
  <2> QED
    BY <2>3, <2>4, BudgetKept
<1>7. CASE Overflows(r, t, "flush")
  <2>1. /\ files' = [files EXCEPT ![fd[r]] = @ \o SubSeq(buf[r], 1, Len(buf[r]))]
        /\ buf'[r] = t /\ pc'[r] = "flush" /\ faults' = faults
        /\ Len(buf[r]) > 2
    BY <1>1, <1>2, <1>7, HistoryAssumption DEF Overflows
  <2>2. SubSeq(buf[r], 1, Len(buf[r])) = buf[r] /\ Len(buf[r]) \in 0..Len(buf[r])
    BY <1>1, SequenceFacts
  <2>3. Debts(pc'[r], buf'[r], r, lines'[r]) = {}
    BY <1>2, <2>1 DEF Debts, Held, Late
  <2>4. Mark(r) \notin Torn(buf[r]) /\ Mark(r) \in Debt
    <3>1. Mark(r) \notin Torn(buf[r])
      BY <1>1, TornType, UnitType DEF Mark
    <3>2. Mark(r) \in Debts(pc[r], buf[r], r, lines[r])
      BY <1>5, <2>1
    <3> QED
      BY <3>1, <3>2 DEF Debt
  <2>5. Debt' \subseteq (Debt \ {Mark(r)}) \cup {tail}
    <3> DEFINE X == {tail}
               Y == {Mark(r)}
    <3>1. /\ Torn(SubSeq(buf[r], 1, Len(buf[r])))
                \subseteq (Debts(pc[r], buf[r], r, lines[r]) \ Y) \cup X
          /\ Debts(pc'[r], buf'[r], r, lines'[r])
                \subseteq (Debts(pc[r], buf[r], r, lines[r]) \ Y) \cup X
      BY <1>5, <2>2, <2>3, <2>4
    <3>2. Y = {} \/ Y = {Mark(r)}
      OBVIOUS
    <3> HIDE DEF X, Y
    <3>3. \A q \in Runs : q # r => pc'[q] = pc[q] /\ buf'[q] = buf[q] /\ lines'[q] = lines[q]
      BY <1>1, <1>4
    <3>4. Debt' \subseteq (Debt \ Y) \cup X
      BY <1>1, <2>1, <2>2, <3>1, <3>2, <3>3, WriteDebt
    <3> QED
      BY <3>4 DEF X, Y
  <2> QED
    BY <2>1, <2>4, <2>5, BudgetMoved
<1>8. ASSUME NEW k \in 0..Len(buf[r]), Tears(r, k, "flush") PROVE Budget'
  <2> DEFINE X == {buf[r][k], tail}
  <2>1. /\ files' = [files EXCEPT ![fd[r]] = @ \o SubSeq(buf[r], 1, k)]
        /\ buf'[r] = SubSeq(buf[r], k + 1, Len(buf[r])) /\ pc'[r] = "flush"
        /\ faults' = faults + 1
    BY <1>8 DEF Tears, Unwritten
  <2>2. /\ Torn(SubSeq(buf[r], 1, k)) \subseteq Torn(buf[r]) \cup {buf[r][k]}
        /\ Torn(SubSeq(buf[r], k + 1, Len(buf[r]))) \subseteq Torn(buf[r])
    BY <1>1, TornCut
  <2>3. Debts(pc'[r], buf'[r], r, lines'[r]) \subseteq Torn(buf[r])
    BY <2>1, <2>2 DEF Debts, Held, Late
  <2>4. /\ Torn(SubSeq(buf[r], 1, k)) \subseteq (Debts(pc[r], buf[r], r, lines[r]) \ {}) \cup X
        /\ Debts(pc'[r], buf'[r], r, lines'[r])
              \subseteq (Debts(pc[r], buf[r], r, lines[r]) \ {}) \cup X
    BY <1>5, <2>2, <2>3
  <2> HIDE DEF X
  <2>5. Debt' \subseteq (Debt \ {}) \cup X
    BY <1>1, <1>4, <2>1, <2>4, WriteDebt
  <2>6. Debt' \subseteq Debt \cup {buf[r][k], tail}
    BY <2>5 DEF X
  <2> QED
    BY <2>1, <2>6, BudgetSpent
<1> QED
  BY <1>4, <1>6, <1>7, <1>8

LEMMA EndBudget ==
    ASSUME TypeOK, TypeOK', Budget, NEW r \in Runs, Flush(r) \/ Quit(r)
    PROVE  Budget'
<1>1. PICK k \in 0..Len(buf[r]) :
         /\ WriteOut(r, k)
         /\ \/ buf' = [buf EXCEPT ![r] = Unwritten(r, k)] /\ pc' = [pc EXCEPT ![r] = "idle"]
            \/ buf' = [buf EXCEPT ![r] = <<>>] /\ pc' = [pc EXCEPT ![r] = "ended"]
  BY DEF Flush, Quit
<1>2. /\ fd[r] # NoFile /\ lines' = lines /\ pc[r] # "newline" /\ buf[r] \in Seq(Units)
      /\ Len(buf[r]) \in Nat /\ faults \in Nat
  BY DEF Flush, Quit, TypeOK
<1>3. /\ files' = [files EXCEPT ![fd[r]] = @ \o SubSeq(buf[r], 1, k)]
      /\ \/ k = Len(buf[r]) /\ faults' = faults
         \/ k # Len(buf[r]) /\ faults' = faults + 1
  BY <1>1 DEF WriteOut
<1>4. \A q \in Runs : q # r => pc'[q] = pc[q] /\ buf'[q] = buf[q] /\ lines'[q] = lines[q]
  BY <1>1, <1>2 DEF TypeOK
<1>5. \/ buf'[r] = SubSeq(buf[r], k + 1, Len(buf[r])) /\ pc'[r] = "idle"
      \/ buf'[r] = <<>> /\ pc'[r] = "ended"
  BY <1>1 DEF Unwritten, TypeOK
<1>6. Torn(buf[r]) \subseteq Debts(pc[r], buf[r], r, lines[r])
  BY <1>2 DEF Debts, Held
<1>7. CASE k = Len(buf[r])
  <2>1. SubSeq(buf[r], 1, k) = buf[r] /\ SubSeq(buf[r], k + 1, Len(buf[r])) = <<>>
    BY <1>2, <1>7, SequenceFacts
  <2>2. Debts(pc'[r], buf'[r], r, lines'[r]) = {}
    <3>1. buf'[r] = <<>> /\ Len(<<>>) = 0 /\ Torn(<<>>) = {} /\ pc'[r] # "newline"
      BY <1>5, <2>1 DEF Torn
    <3> QED
      BY <3>1 DEF Debts, Held, Late
  <2>3. /\ Torn(SubSeq(buf[r], 1, k)) \subseteq (Debts(pc[r], buf[r], r, lines[r]) \ {}) \cup {}
        /\ Debts(pc'[r], buf'[r], r, lines'[r])
              \subseteq (Debts(pc[r], buf[r], r, lines[r]) \ {}) \cup {}
    BY <1>6, <2>1, <2>2
  <2>4. Debt' \subseteq (Debt \ {}) \cup {}
    BY <1>2, <1>3, <1>4, <2>3, WriteDebt
  <2>5. faults' >= faults
    BY <1>2, <1>3, <1>7
  <2> QED
    BY <2>4, <2>5, BudgetKept
<1>8. CASE k # Len(buf[r])
  <2> DEFINE X == {buf[r][k], Mark(r)}
  <2>1. /\ Torn(SubSeq(buf[r], 1, k)) \subseteq Torn(buf[r]) \cup X
        /\ Torn(SubSeq(buf[r], k + 1, Len(buf[r]))) \subseteq Torn(buf[r])
    BY <1>2, TornCut
  <2>2. Debts(pc'[r], buf'[r], r, lines'[r]) \subseteq Torn(buf[r]) \cup X
    <3>1. Torn(<<>>) = {}
      BY DEF Torn
    <3>2. Torn(buf'[r]) \subseteq Torn(buf[r])
      BY <1>5, <2>1, <3>1
    <3> QED
      BY <3>2 DEF Debts, Held
  <2>3. /\ Torn(SubSeq(buf[r], 1, k)) \subseteq (Debts(pc[r], buf[r], r, lines[r]) \ {}) \cup X
        /\ Debts(pc'[r], buf'[r], r, lines'[r])
              \subseteq (Debts(pc[r], buf[r], r, lines[r]) \ {}) \cup X
    BY <1>6, <2>1, <2>2
  <2> HIDE DEF X
  <2>4. Debt' \subseteq (Debt \ {}) \cup X
    BY <1>2, <1>3, <1>4, <2>3, WriteDebt
  <2>5. Debt' \subseteq Debt \cup {buf[r][k], Mark(r)}
    BY <2>4 DEF X
  <2> QED
    BY <1>3, <1>8, <2>5, BudgetSpent
<1> QED
  BY <1>7, <1>8

LEMMA QuietBudget ==
    ASSUME TypeOK, TypeOK', OrderInv, Budget, NEW r \in Runs,
           Stat(r) \/ RemoveBackup(r) \/ Rename(r) \/ OpenHistory(r) \/ CallFails(r) \/ Kill(r)
    PROVE  Budget'
<1>1. /\ lines' = lines /\ faults \in Nat /\ faults' >= faults
      /\ \A q \in Runs : q # r => pc'[q] = pc[q] /\ buf'[q] = buf[q] /\ lines'[q] = lines[q]
  <2>1. lines' = lines /\ (faults' = faults \/ faults' = faults + 1) /\ faults \in Nat
    BY DEF Stat, RemoveBackup, Rename, OpenHistory, CallFails, Kill, TypeOK
  <2>2. \A q \in Runs : q # r => pc'[q] = pc[q] /\ buf'[q] = buf[q]
    BY DEF Stat, RemoveBackup, Rename, OpenHistory, CallFails, Kill, TypeOK
  <2> QED
    BY <2>1, <2>2
<1>2. \A g \in 1..Len(files') : Torn(files'[g]) \subseteq TornInFiles \cup {}
  <2>1. CASE OpenHistory(r)
    <3>1. ASSUME NEW g \in 1..Len(files') PROVE Torn(files'[g]) \subseteq TornInFiles
      <4>1. files'[g] = <<>> \/ (g \in 1..Len(files) /\ files'[g] = files[g])
        BY <2>1, OpeningOrder
      <4>2. Torn(<<>>) = {}
        BY DEF Torn
      <4> QED
        BY <4>1, <4>2 DEF TornInFiles
    <3> QED
      BY <3>1
  <2>2. CASE ~OpenHistory(r)
    <3>1. files' = files
      BY <2>2 DEF Stat, RemoveBackup, Rename, CallFails, Kill
    <3> QED
      BY <3>1 DEF TornInFiles
  <2> QED
    BY <2>1, <2>2
<1>3. Debts(pc'[r], buf'[r], r, lines'[r]) \subseteq Debts(pc[r], buf[r], r, lines[r])
  <2>1. CASE Kill(r)
    <3>1. buf'[r] = <<>> /\ Len(<<>>) = 0 /\ Torn(<<>>) = {}
      BY <2>1 DEF Kill, TypeOK, Torn
    <3> QED
      BY <3>1 DEF Debts, Held, Late
  <2>2. CASE ~Kill(r)
    <3>1. /\ buf' = buf /\ pc[r] \in {"off", "remove", "rename", "open"}
          /\ pc'[r] \in {"remove", "rename", "open", "idle", "ended"}
      BY <2>2 DEF Stat, RemoveBackup, Rename, OpenHistory, CallFails, TypeOK
    <3>2. Len(buf[r]) = 0
      <4>1. fd[r] = NoFile /\ accepted[r] = <<>> /\ pc[r] # "ended"
        BY <3>1 DEF OrderInv, Opening
      <4>2. Len(accepted[r]) = Written(r) + Len(buf[r])
        BY <4>1 DEF OrderInv, InOrder
      <4>3. Written(r) = 0
        <5>1. Of(<<>>, r) = {}
          BY DEF Of
        <5> QED
          BY <4>1, <5>1, FS_EmptySet DEF Written, Opened
      <4>4. Len(buf[r]) \in Nat /\ Len(<<>>) = 0
        BY DEF TypeOK
      <4> QED
        BY <4>1, <4>2, <4>3, <4>4
    <3> QED
      BY <1>1, <3>1, <3>2 DEF Debts, Held, Late
  <2> QED
    BY <2>1, <2>2
<1>4. {} \cup Debts(pc'[r], buf'[r], r, lines'[r])
         \subseteq (Debts(pc[r], buf[r], r, lines[r]) \ {}) \cup {}
  BY <1>3
<1>5. Debt' \subseteq (Debt \ {}) \cup {}
  BY <1>1, <1>2, <1>4, DebtStep
<1> QED
  BY <1>1, <1>5, BudgetKept

(* A failed call spoils at most four lines, of all that the dashboards ever *)
(* log, whatever the buffer holds and however they start, rotate and die.   *)
THEOREM FewLinesSpoiled == Spec => []LinesWhole
<1>1. Init => OrderInv /\ TakenInv /\ Budget
  <2> SUFFICES ASSUME Init PROVE OrderInv /\ TakenInv /\ Budget
    OBVIOUS
  <2>1. TakenInv
    BY DEF Init, TakenInv, Taken
  <2>2. Debt = {}
    <3>1. \A r \in Runs : Debts(pc[r], buf[r], r, lines[r]) = {}
      BY DEF Init, Debts, Held, Late, Torn
    <3>2. TornInFiles = {}
      BY DEF Init, TornInFiles
    <3> QED
      BY <3>1, <3>2 DEF Debt
  <2>3. Budget
    BY <2>2, FS_EmptySet DEF Budget, Init
  <2> QED
    BY <2>1, <2>3, OrderInit
<1>2. TypeOK /\ TypeOK' /\ OrderInv /\ TakenInv /\ Budget /\ [Next]_vars
         => OrderInv' /\ TakenInv' /\ Budget'
  <2> SUFFICES ASSUME TypeOK, TypeOK', OrderInv, TakenInv, Budget, [Next]_vars
               PROVE  Budget'
    BY OrderStep, TakenStep
  <2>1. CASE UNCHANGED vars
    BY <2>1 DEF vars, Budget, Debt, TornInFiles
  <2>2. ASSUME NEW r \in Runs, Dashboard(r) PROVE Budget'
    BY <2>2, LineBudget, NewlineBudget, EndBudget, QuietBudget DEF Dashboard
  <2> QED
    BY <2>1, <2>2 DEF Next
<1>3. TypeOK /\ OrderInv /\ TakenInv /\ Budget => LinesWhole
  <2> SUFFICES ASSUME TypeOK, OrderInv, TakenInv, Budget PROVE LinesWhole
    OBVIOUS
  <2>1. PICK m \in Nat : m = faults
    BY DEF TypeOK
  <2>2. TornInFiles \subseteq Debt /\ IsFiniteSet(Debt)
    BY DEF Debt, Budget
  <2>3. IsFiniteSet(TornInFiles) /\ Cardinality(TornInFiles) <= Cardinality(Debt)
    BY <2>2, FS_Subset
  <2>4. PICK c \in Nat, d \in Nat : c = Cardinality(TornInFiles) /\ d = Cardinality(Debt)
    BY <2>2, <2>3, FS_CardinalityType
  <2>5. c <= 2 * m
    BY <2>1, <2>3, <2>4 DEF Budget
  <2>6. 2 * m \in Nat /\ 2 * (2 * m) = 4 * m
    OBVIOUS
  <2>7. Cardinality(SpoiledLines) <= 2 * (2 * m)
    BY <2>3, <2>4, <2>5, <2>6, TwiceTorn
  <2> QED
    BY <2>1, <2>6, <2>7 DEF LinesWhole
<1> QED
  BY <1>1, <1>2, <1>3, TypeCorrect, PTL DEF Spec
==============================================================================
