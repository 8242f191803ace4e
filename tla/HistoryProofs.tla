--------------------------- MODULE HistoryProofs ---------------------------
(***************************************************************************)
(* Proofs about the history logger for any number of files, hours, lines   *)
(* and starts.                                                             *)
(*                                                                         *)
(* The list in memory is always the newest lines, Newest(pushed, Kept), so *)
(* that pushing, cutting and walking over the list become arithmetic on    *)
(* its first line and its length.                                          *)
(*                                                                         *)
(* The files come round: a file belongs to the turn in which it was opened *)
(* last, and holds the lines pushed in that turn.  The reader has put      *)
(* together the turns from the oldest file on.                             *)
(***************************************************************************)
EXTENDS HistoryLogger, WellFoundedInduction, TLAPS

\* The n newest of the lines 1 .. p, newest first.
Newest(p, n) == [i \in 1 .. n |-> p + 1 - i]

\* How many lines the list holds.
Kept == LeastOf(MaxLines + 1, pushed - opened[1])

\* While the logger runs it has opened a file after the lines of its
\* predecessors; afterwards there is no list.
Life ==
    /\ running => /\ opened # <<>> /\ opened[1] <= pushed
                  /\ current_file \in File
    /\ ~running => memory = <<>> /\ cursor = 0

IInv == TypeOK /\ Life /\ NewestInMemory /\ CursorAlive

----------------------------------------------------------------------------
(* Lemmas about the operators *)

\* A set of natural numbers has a least element.
LEMMA Least ==
    ASSUME NEW S \in SUBSET Nat, S # {}
    PROVE  \E i \in S : \A j \in S : i <= j
<1> DEFINE R == OpToRel(<, Nat)
<1>1. \E i \in S : \A j \in S : ~ (<<j, i>> \in R)
  <2>1. IsWellFoundedOn(R, Nat)
    BY NatLessThanWellFounded
  <2> HIDE DEF R
  <2> QED  BY <2>1, WFMin
<1>2. \A i, j \in Nat : j < i => <<j, i>> \in R
  BY DEF OpToRel
<1>3. \A i, j \in Nat : ~ (j < i) => i <= j
  OBVIOUS
<1> HIDE DEF R
<1> QED  BY <1>1, <1>2, <1>3

\* A set of numbers below a bound has a greatest element.
LEMMA Greatest ==
    ASSUME NEW n \in Nat, NEW S \in SUBSET (0 .. n), S # {}
    PROVE  \E i \in S : \A j \in S : j <= i
<1> DEFINE T == {n - i : i \in S}
<1>1. T \in SUBSET Nat /\ T # {}
  <2>1. \A i \in S : n - i \in Nat
    OBVIOUS
  <2>2. \E i \in S : n - i \in T
    OBVIOUS
  <2> QED  BY <2>1, <2>2
<1>2. PICK t \in T : \A u \in T : t <= u
  BY <1>1, Least
<1>3. PICK i \in S : t = n - i
  BY <1>2
<1>4. \A j \in S : n - i <= n - j
  BY <1>2, <1>3
<1>5. \A j \in S : j <= i
  BY <1>4
<1> QED  BY <1>5

\* The last of a set of files is the greatest, and a file.
LEMMA LastIsGreatest ==
    ASSUME NEW S \in SUBSET File
    PROVE  /\ LastOf(S) \in File
           /\ S # {} => LastOf(S) \in S /\ \A g \in S : g <= LastOf(S)
<1>0. Files \in Nat \ {0}
  BY HistoryAssumption
<1>1. CASE S = {}
  BY <1>0, <1>1 DEF LastOf, File
<1>2. CASE S # {}
  <2>1. \E f \in S : \A g \in S : g <= f
    BY <1>0, <1>2, Greatest, Files - 1 \in Nat DEF File
  <2> QED  BY <1>2, <2>1 DEF LastOf
<1> QED  BY <1>1, <1>2

\* A new line at the front of the newest lines gives the newest lines.
LEMMA PushNewest ==
    ASSUME NEW p \in Nat, NEW n \in Nat
    PROVE  <<p + 1>> \o Newest(p, n) = Newest(p + 1, n + 1)
<1>1. Newest(p, n) \in Seq(Int) /\ Len(Newest(p, n)) = n
  BY DEF Newest
<1>2. /\ <<p + 1>> \o Newest(p, n) \in Seq(Int)
      /\ Len(<<p + 1>> \o Newest(p, n)) = n + 1
  BY <1>1
<1>3. Newest(p + 1, n + 1) \in Seq(Int) /\ Len(Newest(p + 1, n + 1)) = n + 1
  BY DEF Newest
<1>4. ASSUME NEW i \in 1 .. n + 1
      PROVE  (<<p + 1>> \o Newest(p, n))[i] = Newest(p + 1, n + 1)[i]
  <2>1. CASE i = 1
    BY <1>1, <2>1 DEF Newest
  <2>2. CASE i # 1
    <3>1. (<<p + 1>> \o Newest(p, n))[i] = Newest(p, n)[i - 1]
      BY <1>1, <2>2
    <3>2. i - 1 \in 1 .. n /\ p + 1 - (i - 1) = (p + 1) + 1 - i
      BY <2>2
    <3> QED  BY <3>1, <3>2 DEF Newest
  <2> QED  BY <2>1, <2>2
<1> QED  BY <1>2, <1>3, <1>4

\* Cutting the tail of the newest lines leaves the newest lines.
LEMMA CutNewest ==
    ASSUME NEW p \in Nat, NEW n \in Nat, NEW m \in 0 .. n
    PROVE  SubSeq(Newest(p, n), 1, m) = Newest(p, m)
<1>1. Newest(p, n) \in Seq(Int) /\ Len(Newest(p, n)) = n
  BY DEF Newest
<1>2. /\ SubSeq(Newest(p, n), 1, m) \in Seq(Int)
      /\ Len(SubSeq(Newest(p, n), 1, m)) = m
      /\ \A i \in 1 .. m : SubSeq(Newest(p, n), 1, m)[i] = Newest(p, n)[i]
  BY <1>1
<1>3. Newest(p, m) \in Seq(Int) /\ Len(Newest(p, m)) = m
  BY DEF Newest
<1>4. \A i \in 1 .. m : Newest(p, n)[i] = Newest(p, m)[i]
  BY DEF Newest
<1> QED  BY <1>2, <1>3, <1>4

\* The newest lines are lines.
LEMMA NewestAreLines ==
    ASSUME NEW p \in 0 .. MaxPush, NEW n \in 0 .. p
    PROVE  /\ Newest(p, n) \in Seq(Line)
           /\ Len(Newest(p, n)) = n
           /\ DOMAIN Newest(p, n) = 1 .. n
  BY HistoryAssumption DEF Newest, Line

----------------------------------------------------------------------------
(* The invariant *)

\* While the logger runs the list is Newest(pushed, Kept).
LEMMA ListIsNewest ==
    ASSUME IInv, running
    PROVE  /\ pushed \in Nat /\ opened[1] \in Nat /\ opened[1] <= pushed
           /\ Kept \in 0 .. pushed /\ Kept <= MaxLines + 1
           /\ memory = Newest(pushed, Kept) /\ Len(memory) = Kept
<1>1. /\ pushed \in 0 .. MaxPush /\ opened[1] \in 0 .. MaxPush
      /\ opened[1] <= pushed
  BY HistoryAssumption DEF IInv, TypeOK, Life
<1>2. Kept \in 0 .. pushed /\ Kept <= MaxLines + 1
  BY <1>1, HistoryAssumption DEF Kept, LeastOf
<1>3. memory = Newest(pushed, Kept)
  BY DEF IInv, NewestInMemory, Newest, Kept
<1> QED  BY <1>1, <1>2, <1>3, NewestAreLines

LEMMA InitIInv == Init => IInv
<1> SUFFICES ASSUME Init PROVE IInv
  OBVIOUS
<1>1. TypeOK
  <2>1. <<>> \in Seq(Line) /\ <<>> \in Seq(0 .. MaxPush) /\ 0 \in File
    BY HistoryAssumption DEF File
  <2>2. text \in [File -> Seq(Line)] /\ mtime \in [File -> 0 .. MaxClock \cup {Never}]
    BY <2>1 DEF Init
  <2> QED  BY <2>1, <2>2, HistoryAssumption DEF Init, TypeOK
<1>2. Life /\ NewestInMemory /\ CursorAlive
  BY DEF Init, Life, NewestInMemory, CursorAlive
<1> QED  BY <1>1, <1>2 DEF IInv

\* A logger that starts has an empty list.
LEMMA StartIInv ==
    ASSUME IInv, Start
    PROVE  IInv'
<1>1. PICK later \in BOOLEAN : current_file' = FirstFile(later)
  BY DEF Start
<1>2. current_file' \in File
  <2>1. Older(later) \in SUBSET File
    BY DEF Older
  <2> QED  BY <1>1, <2>1, LastIsGreatest DEF FirstFile
<1>3. TypeOK'
  <2>1. text' \in [File -> Seq(Line)] /\ mtime' \in [File -> 0 .. MaxClock \cup {Never}]
    BY <1>2 DEF IInv, TypeOK, Start
  <2>2. opened' \in Seq(0 .. MaxPush) /\ memory' \in Seq(Line) /\ cursor' \in Line \cup {0}
    BY DEF IInv, TypeOK, Start
  <2>3. starts' \in 0 .. MaxEvents /\ faults' \in 0 .. MaxEvents
    BY HistoryAssumption DEF IInv, TypeOK, Start, Events
  <2>4. UNCHANGED <<clock, pushed, reader>> /\ file_start' = clock /\ running' = TRUE
        /\ steady' = FALSE /\ fout' \in BOOLEAN
    BY DEF Start
  <2>5. running' \in BOOLEAN /\ steady' \in BOOLEAN
    BY <2>4
  <2>6. /\ rpc' \in {"idle", "open", "cat"} /\ rfile' \in File /\ left' \in 0 .. Files
        /\ out' \in Seq(Line) /\ from' \in 0 .. MaxPush + 1 /\ upto' \in 0 .. MaxPush
        /\ clock' \in 0 .. MaxClock /\ pushed' \in 0 .. MaxPush
        /\ file_start' \in 0 .. MaxClock
    BY <2>4 DEF IInv, TypeOK, reader
  <2> QED  BY <1>2, <2>1, <2>2, <2>3, <2>4, <2>5, <2>6 DEF TypeOK
<1>4. opened' = <<pushed>> /\ memory' = <<>> /\ cursor' = 0 /\ pushed' = pushed
      /\ pushed \in Nat /\ running'
  BY HistoryAssumption DEF Start, IInv, TypeOK
<1>5. Life'
  BY <1>2, <1>4 DEF Life
<1>6. NewestInMemory'
  <2>1. LeastOf(MaxLines + 1, pushed' - opened'[1]) = 0
    BY <1>4, HistoryAssumption DEF LeastOf
  <2> QED  BY <1>4, <2>1 DEF NewestInMemory
<1>7. CursorAlive'
  BY <1>4 DEF CursorAlive
<1> QED  BY <1>3, <1>5, <1>6, <1>7 DEF IInv

\* A logger that stops has none.
LEMMA StopIInv ==
    ASSUME IInv, Stop
    PROVE  IInv'
<1>1. /\ UNCHANGED <<clock, text, mtime, current_file, pushed, starts, opened, faults,
                      reader, steady>>
      /\ running' = FALSE /\ fout' = FALSE /\ file_start' = 0 /\ memory' = <<>> /\ cursor' = 0
  BY DEF Stop
<1>2. memory' \in Seq(Line) /\ cursor' \in Line \cup {0} /\ running' \in BOOLEAN
      /\ fout' \in BOOLEAN /\ file_start' \in 0 .. MaxClock
  <2>1. memory' \in Seq(Line) /\ cursor' \in Line \cup {0} /\ file_start' \in 0 .. MaxClock
    BY <1>1, HistoryAssumption
  <2>2. running' \in BOOLEAN /\ fout' \in BOOLEAN
    BY <1>1
  <2> QED  BY <2>1, <2>2
<1>3. TypeOK'
  BY <1>1, <1>2 DEF IInv, TypeOK, reader
<1> QED  BY <1>1, <1>3 DEF IInv, Life, NewestInMemory, CursorAlive

\* The file of a line: what pushLine does with the files, one case for each of
\* the outcomes of opening them.
LEMMA PushFiles ==
    ASSUME IInv, PushLine
    PROVE  /\ running /\ running' = running /\ pushed' = pushed + 1 /\ pushed < MaxPush
           /\ UNCHANGED <<clock, starts, reader>>
           /\ memory' = Trimmed(<<pushed + 1>> \o memory)
           /\ cursor' = CursorAfter(<<pushed + 1>> \o memory)
           /\ current_file' \in File /\ file_start' \in {file_start, clock}
           /\ fout' \in BOOLEAN /\ faults' \in 0 .. MaxEvents /\ steady' \in BOOLEAN
           /\ \/ opened' = opened
              \/ opened' = Append(opened, pushed)
              \/ opened' = Append(Append(opened, pushed), pushed)
           /\ \E emptied \in SUBSET File :
                /\ text' = Write(emptied, current_file', pushed + 1)
                /\ mtime' = [f \in File |->
                              IF f \in emptied \/ (f = current_file' /\ fout')
                              THEN clock ELSE mtime[f]]
<1>0. /\ Files \in Nat \ {0} /\ MaxEvents \in Nat /\ starts \in 0 .. MaxEvents
      /\ faults \in 0 .. MaxEvents /\ steady \in BOOLEAN /\ opened \in Seq(0 .. MaxPush)
  BY HistoryAssumption DEF IInv, TypeOK
<1>1. /\ running /\ running' = running /\ pushed' = pushed + 1 /\ pushed < MaxPush
      /\ UNCHANGED <<clock, reader>>
      /\ memory' = Trimmed(<<pushed + 1>> \o memory)
      /\ cursor' = CursorAfter(<<pushed + 1>> \o memory)
  BY DEF PushLine
<1>2. current_file \in File
  BY <1>1 DEF IInv, Life
<1>3. \A f \in File : NextFile(f) \in File
  BY <1>0 DEF NextFile, File
<1>4. PICK later \in BOOLEAN, again \in BOOLEAN, turned \in BOOLEAN :
         LET file  == IF fout THEN current_file ELSE NextFile(current_file)
             start == IF fout THEN file_start ELSE clock
             turn  == BeforeNow(start + MaxHours, later)
             tried == (IF fout THEN {} ELSE {file}) \cup (IF turn THEN {current_file'} ELSE {})
             emptied == (IF ~fout /\ again THEN {file} ELSE {})
                        \cup (IF turn /\ turned THEN {current_file'} ELSE {})
         IN /\ fout => again
            /\ ~turn => turned
            /\ current_file' = IF turn THEN NextFile(file) ELSE file
            /\ file_start' = IF turn THEN clock ELSE start
            /\ fout' = IF turn THEN turned ELSE again
            /\ Events(0, (IF again THEN 0 ELSE 1) + (IF turned THEN 0 ELSE 1))
            /\ opened' = opened \o (IF fout THEN <<>> ELSE <<pushed>>)
                                \o (IF turn THEN <<pushed>> ELSE <<>>)
            /\ steady' = (steady /\ ~(rpc = "open" /\ left > 0 /\ rfile \in tried))
            /\ text' = Write(emptied, current_file', pushed + 1)
            /\ mtime' = [f \in File |-> IF f \in emptied \/ (f = current_file' /\ fout')
                                       THEN clock ELSE mtime[f]]
  BY Zenon DEF PushLine
<1> DEFINE file  == IF fout THEN current_file ELSE NextFile(current_file)
           start == IF fout THEN file_start ELSE clock
           turn  == BeforeNow(start + MaxHours, later)
           tried == (IF fout THEN {} ELSE {file}) \cup (IF turn THEN {current_file'} ELSE {})
           emptied == (IF ~fout /\ again THEN {file} ELSE {})
                      \cup (IF turn /\ turned THEN {current_file'} ELSE {})
<1>5. file \in File /\ current_file' \in File
  BY <1>2, <1>3, <1>4
<1>6. file_start' \in {file_start, clock} /\ fout' \in BOOLEAN
  <2>1. file_start' = clock \/ file_start' = start
    BY <1>4
  <2>2. start = file_start \/ start = clock
    OBVIOUS
  <2>3. fout' = turned \/ fout' = again
    BY <1>4
  <2>4. fout' \in BOOLEAN
    BY <2>3
  <2> HIDE DEF start
  <2> QED  BY <2>1, <2>2, <2>4
<1>7. starts' = starts /\ faults' \in 0 .. MaxEvents
  <2>1. PICK k \in Nat : Events(0, k)
    <3>1. Events(0, (IF again THEN 0 ELSE 1) + (IF turned THEN 0 ELSE 1))
      BY <1>4
    <3>2. (IF again THEN 0 ELSE 1) + (IF turned THEN 0 ELSE 1) \in Nat
      OBVIOUS
    <3> QED  BY <3>1, <3>2
  <2> QED  BY <1>0, <2>1 DEF Events
<1>8. steady' \in BOOLEAN
  <2>1. steady' = (steady /\ ~(rpc = "open" /\ left > 0 /\ rfile \in tried))
    BY <1>4, Zenon
  <2> HIDE DEF tried
  <2> QED  BY <2>1
<1>9. \/ opened' = opened
      \/ opened' = Append(opened, pushed)
      \/ opened' = Append(Append(opened, pushed), pushed)
  <2> DEFINE a == IF fout THEN <<>> ELSE <<pushed>>
             b == IF turn THEN <<pushed>> ELSE <<>>
  <2>1. opened' = opened \o a \o b
    BY <1>4, Zenon
  <2>2. a \in {<<>>, <<pushed>>} /\ b \in {<<>>, <<pushed>>}
    BY Zenon
  <2>3. pushed \in 0 .. MaxPush
    BY DEF IInv, TypeOK
  <2>4. /\ opened \o <<>> = opened /\ opened \o <<pushed>> = Append(opened, pushed)
        /\ Append(opened, pushed) \o <<>> = Append(opened, pushed)
        /\ Append(opened, pushed) \o <<pushed>> = Append(Append(opened, pushed), pushed)
    BY <1>0, <2>3
  <2> HIDE DEF a, b
  <2> QED  BY <2>1, <2>2, <2>4
<1>10. emptied \in SUBSET File
  BY <1>5
<1>11. /\ text' = Write(emptied, current_file', pushed + 1)
       /\ mtime' = [f \in File |-> IF f \in emptied \/ (f = current_file' /\ fout')
                                  THEN clock ELSE mtime[f]]
  BY <1>4, Zenon
<1> HIDE DEF file, start, turn, tried, emptied
<1> QED  BY <1>1, <1>5, <1>6, <1>7, <1>8, <1>9, <1>10, <1>11

\* pushLine keeps the newest lines, and the cursor on one of them.
LEMMA PushIInv ==
    ASSUME IInv, PushLine
    PROVE  IInv'
<1> DEFINE lines == <<pushed + 1>> \o memory
<1>1. /\ memory' = Trimmed(lines) /\ cursor' = CursorAfter(lines)
      /\ current_file' \in File /\ file_start' \in {file_start, clock}
      /\ fout' \in BOOLEAN /\ faults' \in 0 .. MaxEvents /\ steady' \in BOOLEAN
      /\ \/ opened' = opened
         \/ opened' = Append(opened, pushed)
         \/ opened' = Append(Append(opened, pushed), pushed)
      /\ pushed' = pushed + 1 /\ running /\ running' = running /\ pushed < MaxPush
      /\ UNCHANGED <<clock, starts, reader>>
  BY PushFiles
<1>2. /\ clock \in 0 .. MaxClock /\ MaxClock \in Nat
      /\ MaxPush \in Nat /\ MaxLines \in Nat \ {0} /\ Files \in Nat \ {0}
      /\ opened \in Seq(0 .. MaxPush) /\ opened # <<>>
  BY <1>1, HistoryAssumption DEF IInv, TypeOK, Life
<1>3. /\ pushed \in Nat /\ opened[1] \in Nat /\ opened[1] <= pushed
      /\ Kept \in 0 .. pushed /\ Kept <= MaxLines + 1
      /\ memory = Newest(pushed, Kept) /\ Len(memory) = Kept
  BY <1>1, ListIsNewest
<1>5. opened' \in Seq(0 .. MaxPush) /\ opened' # <<>> /\ opened'[1] = opened[1]
  <2>1. pushed \in 0 .. MaxPush
    BY <1>1, <1>2, <1>3
  <2>2. \A s \in Seq(0 .. MaxPush) : s # <<>> =>
          /\ Append(s, pushed) \in Seq(0 .. MaxPush) /\ Append(s, pushed) # <<>>
          /\ Append(s, pushed)[1] = s[1]
    BY <2>1
  <2>3. /\ Append(opened, pushed) \in Seq(0 .. MaxPush) /\ Append(opened, pushed) # <<>>
        /\ Append(opened, pushed)[1] = opened[1]
    BY <1>2, <2>2
  <2>4. /\ Append(Append(opened, pushed), pushed) \in Seq(0 .. MaxPush)
        /\ Append(Append(opened, pushed), pushed) # <<>>
        /\ Append(Append(opened, pushed), pushed)[1] = opened[1]
    BY <2>2, <2>3
  <2> QED  BY <1>1, <1>2, <2>3, <2>4, Zenon
<1>6. lines = Newest(pushed + 1, Kept + 1) /\ Len(lines) = Kept + 1
      /\ lines \in Seq(Line)
  <2>1. lines = Newest(pushed + 1, Kept + 1)
    <3>1. Kept \in Nat
      BY <1>3
    <3> QED  BY <1>3, <3>1, PushNewest
  <2>2. pushed + 1 \in 0 .. MaxPush /\ Kept + 1 \in 0 .. (pushed + 1)
    BY <1>1, <1>2, <1>3
  <2> HIDE DEF lines
  <2> QED  BY <2>1, <2>2, NewestAreLines
<1>7. /\ Kept' \in 0 .. pushed'
      /\ Kept + 1 > MaxLines => Kept' = MaxLines + 1
      /\ Kept + 1 <= MaxLines => Kept' = Kept + 1
  <2>1. Kept' = LeastOf(MaxLines + 1, (pushed + 1) - opened[1])
    <3>1. pushed' = pushed + 1 /\ opened'[1] = opened[1]
      BY <1>1, <1>5
    <3>2. Kept' = LeastOf(MaxLines + 1, pushed' - opened'[1])
      BY Zenon DEF Kept
    <3> QED  BY <3>1, <3>2, Zenon
  <2>2. Kept = LeastOf(MaxLines + 1, pushed - opened[1])
    BY DEF Kept
  <2>3. pushed' = pushed + 1
    BY <1>1
  <2>4. pushed \in Nat /\ opened[1] \in Nat /\ opened[1] <= pushed /\ MaxLines \in Nat \ {0}
    BY <1>2, <1>3
  <2>5. LeastOf(MaxLines + 1, pushed - opened[1]) \in 0 .. pushed
    BY <2>4 DEF LeastOf
  <2> QED  BY <2>1, <2>2, <2>3, <2>4, <2>5 DEF LeastOf
<1>8. memory' = Newest(pushed', Kept')
  <2>1. CASE Kept + 1 > MaxLines
    <3>1. memory' = SubSeq(lines, 1, MaxLines + 1)
      BY <1>1, <1>6, <2>1 DEF Trimmed
    <3>2. MaxLines + 1 \in 0 .. (Kept + 1) /\ pushed + 1 \in Nat /\ Kept + 1 \in Nat
      BY <1>2, <1>3, <2>1
    <3>3. SubSeq(Newest(pushed + 1, Kept + 1), 1, MaxLines + 1)
            = Newest(pushed + 1, MaxLines + 1)
      BY <3>2, CutNewest
    <3>4. pushed' = pushed + 1 /\ Kept' = MaxLines + 1 /\ lines = Newest(pushed + 1, Kept + 1)
      BY <1>1, <1>6, <1>7, <2>1
    <3> HIDE DEF lines
    <3> QED  BY <3>1, <3>3, <3>4, Zenon
  <2>2. CASE Kept + 1 <= MaxLines
    <3>1. memory' = lines
      BY <1>1, <1>2, <1>3, <1>6, <2>2 DEF Trimmed
    <3>2. pushed' = pushed + 1 /\ Kept' = Kept + 1 /\ lines = Newest(pushed + 1, Kept + 1)
      BY <1>1, <1>6, <1>7, <2>2
    <3> HIDE DEF lines
    <3> QED  BY <3>1, <3>2, Zenon
  <2> QED  BY <1>2, <1>3, <2>1, <2>2
<1>9. /\ pushed' \in 0 .. MaxPush
      /\ memory' \in Seq(Line) /\ Len(memory') = Kept' /\ DOMAIN memory' = 1 .. Kept'
  <2>1. pushed' \in 0 .. MaxPush
    BY <1>1, <1>2, <1>3
  <2> QED  BY <1>7, <1>8, <2>1, NewestAreLines
<1>10. cursor' \in Line \cup {0} /\ CursorAlive'
  <2>1. cursor \in Line \cup {0}
    BY DEF IInv, TypeOK
  <2>2. CASE Len(lines) > MaxLines
    BY <1>1, <2>2 DEF CursorAfter, CursorAlive
  <2>3. CASE ~ (Len(lines) > MaxLines)
    <3>1. cursor' = cursor /\ memory' = lines
      BY <1>1, <2>3 DEF CursorAfter, Trimmed
    <3>2. cursor # 0 => \E i \in 1 .. Kept : memory[i] = cursor
      BY <1>3 DEF IInv, CursorAlive, Newest
    <3>3. \A i \in 1 .. Kept : i + 1 \in 1 .. (Kept + 1) /\ lines[i + 1] = memory[i]
      BY <1>3, <1>6 DEF Newest
    <3>4. DOMAIN lines = 1 .. (Kept + 1)
      BY <1>6 DEF Newest
    <3> HIDE DEF lines
    <3> QED  BY <2>1, <3>1, <3>2, <3>3, <3>4 DEF CursorAlive
  <2> QED  BY <2>2, <2>3
<1>11. TypeOK'
  <2>0. PICK emptied \in SUBSET File :
          /\ text' = Write(emptied, current_file', pushed + 1)
          /\ mtime' = [f \in File |-> IF f \in emptied \/ (f = current_file' /\ fout')
                                     THEN clock ELSE mtime[f]]
    BY PushFiles, Zenon
  <2>1. mtime' \in [File -> 0 .. MaxClock \cup {Never}] /\ file_start' \in 0 .. MaxClock
    <3>1. clock \in 0 .. MaxClock /\ file_start \in 0 .. MaxClock
          /\ mtime \in [File -> 0 .. MaxClock \cup {Never}]
      BY DEF IInv, TypeOK
    <3>2. \A f \in File : mtime'[f] \in 0 .. MaxClock \cup {Never}
      BY <2>0, <3>1
    <3>3. mtime' = [f \in File |-> mtime'[f]]
      BY <2>0
    <3> QED  BY <1>1, <3>1, <3>2, <3>3
  <2>2. text' \in [File -> Seq(Line)]
    <3>1. pushed + 1 \in Line /\ text \in [File -> Seq(Line)]
      BY <1>1, <1>2, <1>3 DEF Line, IInv, TypeOK
    <3>2. \A t \in Seq(Line) : Append(t, pushed + 1) \in Seq(Line)
      BY <3>1
    <3>3. <<>> \in Seq(Line)
      OBVIOUS
    <3>4. ASSUME NEW g \in File  PROVE text'[g] \in Seq(Line)
      <4> DEFINE kept == IF g \in emptied THEN <<>> ELSE text[g]
      <4>1. kept \in Seq(Line)
        BY <3>1, <3>3
      <4>2. text'[g] = IF g = current_file' /\ fout' THEN Append(kept, pushed + 1) ELSE kept
        BY <2>0 DEF Write
      <4> HIDE DEF kept
      <4>3. Append(kept, pushed + 1) \in Seq(Line)
        BY <3>2, <4>1
      <4> QED  BY <4>1, <4>2, <4>3
    <3>5. text' = [g \in File |-> text'[g]]
      BY <2>0 DEF Write
    <3> QED  BY <3>4, <3>5
  <2>3. running' \in BOOLEAN
    BY <1>1 DEF IInv, TypeOK
  <2>5. /\ clock \in 0 .. MaxClock /\ starts \in 0 .. MaxEvents
        /\ rpc \in {"idle", "open", "cat"} /\ rfile \in File /\ left \in 0 .. Files
        /\ out \in Seq(Line) /\ from \in 0 .. MaxPush + 1 /\ upto \in 0 .. MaxPush
    BY DEF IInv, TypeOK
  <2> QED  BY <1>1, <1>5, <1>9, <1>10, <2>1, <2>2, <2>3, <2>5 DEF TypeOK, reader
<1>12. Life' /\ NewestInMemory'
  <2>1. opened'[1] <= pushed'
    BY <1>1, <1>3, <1>5
  <2>2. NewestInMemory'
    BY <1>8 DEF NewestInMemory, Newest, Kept
  <2>3. running'
    BY <1>1
  <2> QED  BY <1>1, <1>5, <2>1, <2>2, <2>3 DEF Life
<1> QED  BY <1>10, <1>11, <1>12 DEF IInv

\* firstLine() and nextLine() go to a line of the list.
LEMMA WalkIInv ==
    ASSUME IInv, FirstLine \/ NextLine
    PROVE  IInv'
<1>0. /\ running /\ UNCHANGED <<clock, text, mtime, running, current_file, file_start,
                   fout, memory, pushed, starts, opened, faults, reader, steady>>
  BY DEF FirstLine, NextLine
<1>1. memory \in Seq(Line)
  BY DEF IInv, TypeOK
<1>2. cursor' = 0 \/ \E i \in DOMAIN memory : memory[i] = cursor'
  <2>1. CASE FirstLine
    BY <1>1, <2>1 DEF FirstLine
  <2>2. CASE NextLine
    <3>1. CASE \E i \in 1 .. Len(memory) - 1 : memory[i] = cursor
      <4> DEFINE i == CHOOSE i \in 1 .. Len(memory) - 1 : memory[i] = cursor
      <4>1. i \in 1 .. Len(memory) - 1
        BY <3>1
      <4>2. cursor' = memory[i + 1]
        BY <2>2, <3>1 DEF NextLine, Successor
      <4> HIDE DEF i
      <4> QED  BY <1>1, <4>1, <4>2
    <3>2. CASE ~ \E i \in 1 .. Len(memory) - 1 : memory[i] = cursor
      BY <2>2, <3>2 DEF NextLine, Successor
    <3> QED  BY <3>1, <3>2
  <2> QED  BY <2>1, <2>2
<1>3. cursor' \in Line \cup {0}
  BY <1>1, <1>2
<1>4. TypeOK'
  BY <1>0, <1>3 DEF IInv, TypeOK, reader
<1>5. CursorAlive'
  BY <1>0, <1>2 DEF CursorAlive
<1> QED  BY <1>0, <1>4, <1>5 DEF IInv, Life, NewestInMemory

\* Time and the reader do not touch the list.
LEMMA ReaderIInv ==
    ASSUME IInv, Tick \/ TickBack \/ CatStart \/ CatFile \/ CatDone \/ CatForget
    PROVE  IInv'
<1>0. /\ UNCHANGED <<text, mtime, logger>>
      /\ Files \in Nat \ {0} /\ MaxClock \in Nat /\ MaxPush \in Nat
  BY HistoryAssumption DEF Tick, TickBack, Events, CatStart, CatFile, CatDone, CatForget
<1>1. clock' \in 0 .. MaxClock /\ steady' \in BOOLEAN /\ faults' \in 0 .. MaxEvents
  <2>1. clock \in 0 .. MaxClock /\ steady \in BOOLEAN /\ faults \in 0 .. MaxEvents
        /\ starts \in 0 .. MaxEvents /\ MaxEvents \in Nat
    BY HistoryAssumption DEF IInv, TypeOK
  <2>0. CASE TickBack
    BY <1>0, <2>1, <2>0 DEF TickBack, Events
  <2>2. CASE Tick
    BY <1>0, <2>1, <2>2 DEF Tick
  <2>3. CASE CatFile \/ CatDone \/ CatForget
    BY <2>1, <2>3 DEF CatFile, CatDone, CatForget
  <2>4. CASE CatStart
    <3>1. Comparable \in BOOLEAN
      BY DEF Comparable
    <3> QED  BY <2>1, <2>4, <3>1 DEF CatStart
  <2> QED  BY <2>0, <2>2, <2>3, <2>4
<1>2. /\ rpc' \in {"idle", "open", "cat"} /\ rfile' \in File /\ left' \in 0 .. Files
      /\ out' \in Seq(Line) /\ from' \in 0 .. MaxPush + 1 /\ upto' \in 0 .. MaxPush
  <2>1. CASE Tick \/ TickBack
    BY <2>1 DEF IInv, TypeOK, Tick, TickBack, reader
  <2>2. CASE CatStart
    <3>1. OldestKept \in 0 .. MaxPush
      <4>1. opened \in Seq(0 .. MaxPush) /\ opened # <<>>
        BY <2>2 DEF CatStart, IInv, TypeOK
      <4> QED  BY <1>0, <4>1 DEF OldestKept
    <3>3. pushed \in 0 .. MaxPush
      BY DEF IInv, TypeOK
    <3> QED  BY <1>0, <2>2, <3>1, <3>3 DEF CatStart
  <2>3. CASE CatFile
    <3>1. text[rfile] \in Seq(Line) /\ out \in Seq(Line)
      BY DEF IInv, TypeOK
    <3>2. rfile \in File /\ left \in 0 .. Files /\ from \in 0 .. MaxPush + 1
          /\ upto \in 0 .. MaxPush /\ rpc \in {"idle", "open", "cat"}
      BY DEF IInv, TypeOK
    <3>3. rfile' \in File /\ left' \in 0 .. Files
      BY <1>0, <2>3, <3>2 DEF CatFile, File
    <3> QED  BY <2>3, <3>1, <3>2, <3>3 DEF CatFile
  <2>4. CASE CatDone
    BY <1>0, <2>4 DEF IInv, TypeOK, CatDone, File
  <2>5. CASE CatForget
    BY <1>0, <2>5 DEF IInv, TypeOK, CatForget
  <2> QED  BY <2>1, <2>2, <2>3, <2>4, <2>5
<1>3. TypeOK'
  BY <1>0, <1>1, <1>2 DEF IInv, TypeOK, logger
<1> QED  BY <1>0, <1>3 DEF IInv, logger, Life, NewestInMemory, CursorAlive

LEMMA NextIInv == IInv /\ [Next]_vars => IInv'
<1> SUFFICES ASSUME IInv, [Next]_vars
             PROVE  IInv'
  OBVIOUS
<1>1. CASE UNCHANGED vars
  BY <1>1 DEF vars, logger, reader, IInv, TypeOK, Life, NewestInMemory, CursorAlive
<1>2. CASE Next
  BY <1>2, StartIInv, StopIInv, PushIInv, WalkIInv, ReaderIInv DEF Next
<1> QED  BY <1>1, <1>2

LEMMA Invariant == Spec => []IInv
BY InitIInv, NextIInv, PTL DEF Spec

\* The types hold: the file to write and the file to read are always files,
\* whatever the times of the files are (openFile, cat).
THEOREM TypeCorrect == Spec => []TypeOK
<1>1. IInv => TypeOK
  BY DEF IInv
<1> QED  BY <1>1, Invariant, PTL

\* The list in memory is always the newest lines without a gap, for any limit
\* and any number of starts (pushLineToMemory).
THEOREM ListCorrect == Spec => []NewestInMemory
<1>1. IInv => NewestInMemory
  BY DEF IInv
<1> QED  BY <1>1, Invariant, PTL

\* nextLine() never goes on from a line that was deleted (firstLine, nextLine,
\* pushLineToMemory).
THEOREM CursorCorrect == Spec => []CursorAlive
<1>1. IInv => CursorAlive
  BY DEF IInv
<1> QED  BY <1>1, Invariant, PTL

----------------------------------------------------------------------------
(* What the reader puts together *)

\* The files in use are the last Files ones of those the logger has opened;
\* file f is the one it opened as number Turn(f).
Turn(f) ==
    IF f <= current_file THEN Len(opened) - current_file + f
                         ELSE Len(opened) - current_file + f - Files

\* The oldest of them.
Base == IF Len(opened) <= Files THEN 1 ELSE Len(opened) - Files + 1

\* s is the lines after a, up to b.
Holds(s, a, b) == Len(s) = b - a /\ \A i \in 1 .. Len(s) : s[i] = a + i

\* The first logger, which has found no files, uses them in turn as long as it can
\* open them: what each holds, and in which order they were written.
InTurn ==
    /\ starts = 0 => opened = <<>> /\ \A f \in File : mtime[f] = Never
    /\ starts = 1 /\ faults = 0 =>
         /\ running => fout
         /\ current_file \in File
         /\ \/ Len(opened) = current_file + 1
            \/ Len(opened) > Files
         /\ \A f \in File : Turn(f) >= 1 <=> mtime[f] # Never
         /\ \A f \in File : Turn(f) >= 1 =>
              Holds(text[f], opened[Turn(f)],
                    IF f = current_file THEN pushed ELSE opened[Turn(f) + 1])
         /\ \A f, g \in File : Turn(f) >= 1 /\ Turn(f) < Turn(g) => mtime[f] <= mtime[g]
         /\ mtime[current_file] <= clock

\* The reader, which began with the file opened as number B, goes on with the file
\* that was opened after the one it has read,
Ahead(B) ==
    /\ left > 0
    /\ Turn(rfile) = B + Files - left
    /\ from + Len(out) - 1 = opened[Turn(rfile)]

\* or has read every line it was to read.
Done ==
    /\ from + Len(out) - 1 >= upto
    /\ left = 0 \/ Turn(rfile) < 1

\* The logger may meanwhile have opened more files, and the file with which the
\* reader began may be one of them; upto is before all of these.
Begun(B) ==
    /\ B <= Base
    /\ from = opened[B] + 1
    /\ upto <= pushed
    /\ B + Files <= Len(opened) => upto <= opened[B + Files]
    /\ \A i \in 1 .. Len(out) : out[i] = from + i - 1
    /\ rpc = "cat" => from + Len(out) - 1 >= upto
    /\ rpc = "open" => Ahead(B) \/ Done

Reading ==
    starts = 1 /\ faults = 0 /\ steady /\ rpc # "idle" =>
        \E B \in 1 .. Len(opened) : Begun(B)

CatInv == InTurn /\ Reading

\* The arithmetic of Turn: it numbers the files from Base on, the newest being
\* current_file, and each file is followed by the next.
LEMMA TurnNumbers ==
    ASSUME IInv, InTurn, starts = 1, faults = 0
    PROVE  /\ Len(opened) \in Nat /\ current_file \in File /\ opened # <<>>
           /\ Base \in 1 .. Len(opened)
           /\ \A f \in File : Turn(f) \in Int /\ Turn(f) <= Len(opened)
           /\ \A f \in File : Turn(f) = Len(opened) <=> f = current_file
           /\ \A f \in File : Turn(f) >= 1 => Turn(f) >= Base
           /\ \A f, g \in File : Turn(f) = Turn(g) => f = g
           /\ \E f \in File : Turn(f) = Base
           /\ \A f \in File : f # current_file =>
                Turn(IF f + 1 >= Files THEN 0 ELSE f + 1) = Turn(f) + 1
<1>1. /\ Len(opened) \in Nat /\ current_file \in File /\ Files \in Nat \ {0}
      /\ Len(opened) = current_file + 1 \/ Len(opened) > Files
  BY HistoryAssumption DEF IInv, TypeOK, InTurn
<1>2. opened # <<>> /\ Base \in 1 .. Len(opened)
  BY <1>1 DEF Base, File
<1>3. \A f \in File : Turn(f) \in Int /\ Turn(f) <= Len(opened)
  BY <1>1 DEF Turn, File
<1>4. \A f \in File : Turn(f) = Len(opened) <=> f = current_file
  BY <1>1 DEF Turn, File
<1>5. \A f \in File : Turn(f) >= 1 => Turn(f) >= Base
  BY <1>1 DEF Turn, File, Base
<1>6. \A f, g \in File : Turn(f) = Turn(g) => f = g
  BY <1>1 DEF Turn, File
<1>7. \E f \in File : Turn(f) = Base
  <2>1. CASE Len(opened) <= Files
    <3>1. 0 \in File /\ Turn(0) = Base
      BY <1>1, <2>1 DEF Turn, File, Base
    <3> QED  BY <3>1
  <2>2. CASE Len(opened) > Files /\ current_file + 1 < Files
    <3>1. current_file + 1 \in File /\ Turn(current_file + 1) = Base
      BY <1>1, <2>2 DEF Turn, File, Base
    <3> QED  BY <3>1
  <2>3. CASE Len(opened) > Files /\ current_file + 1 >= Files
    <3>1. 0 \in File /\ Turn(0) = Base
      BY <1>1, <2>3 DEF Turn, File, Base
    <3> QED  BY <3>1
  <2> QED  BY <1>1, <2>1, <2>2, <2>3 DEF File
<1>8. \A f \in File : f # current_file =>
        Turn(IF f + 1 >= Files THEN 0 ELSE f + 1) = Turn(f) + 1
  BY <1>1 DEF Turn, File
<1> QED  BY <1>1, <1>2, <1>3, <1>4, <1>5, <1>6, <1>7, <1>8

\* The reader begins with the file that was opened first, if no two files were
\* written to at the same time and none in a later year.
LEMMA OldestIsBase ==
    ASSUME IInv, InTurn, starts = 1, faults = 0, Comparable,
           NEW later \in BOOLEAN, NEW f \in File, OldestFile(f, later)
    PROVE  Turn(f) = Base
<1> DEFINE there == {g \in File : mtime[g] # Never}
<1>0. /\ Files \in Nat \ {0} /\ clock \in Nat
      /\ \A g \in there : mtime[g] \in Nat /\ g \in Nat
  BY HistoryAssumption DEF IInv, TypeOK, File, Never
<1>1. PICK o \in File : Turn(o) = Base
  BY TurnNumbers
<1>2. o \in there /\ o \in Nat
  BY <1>0, <1>1, TurnNumbers DEF InTurn
<1>3. \A g \in there : g # o => mtime[o] < mtime[g]
  <2> TAKE g \in there
  <2> HAVE g # o
  <2>1. Turn(g) >= 1 /\ Turn(g) \in Int
    BY TurnNumbers DEF InTurn
  <2>2. Turn(g) >= Base /\ Turn(g) # Turn(o) /\ Base \in Nat
    BY <1>1, <2>1, TurnNumbers
  <2>3. Turn(o) < Turn(g) /\ Turn(o) >= 1
    BY <1>1, <2>1, <2>2, TurnNumbers
  <2>4. mtime[o] <= mtime[g]
    BY <1>1, <2>3 DEF InTurn
  <2>5. mtime[o] # mtime[g]
    BY <1>2 DEF Comparable
  <2> QED  BY <1>0, <1>2, <2>4, <2>5
<1>4. PICK best \in SUBSET there :
        /\ \A g \in File : mtime[g] # Never =>
             LET before == {h \in best : h < g}
             IN g \in best <=> IF before = {} THEN BeforeNow(mtime[g], later)
                                ELSE Less(mtime[g], mtime[LastOf(before)])
        /\ f = LastOf(best)
  BY DEF OldestFile
<1> DEFINE Before(g) == {h \in best : h < g}
<1>5. \A g \in there : Before(g) # {} =>
        (g \in best <=> Less(mtime[g], mtime[LastOf(Before(g))]))
  BY <1>4
<1>6. \A g \in there : Before(g) = {} => (g \in best <=> BeforeNow(mtime[g], later))
  BY <1>4
<1>7. \A g \in there : Before(g) \in SUBSET File
  BY <1>4
<1>8. \A g, h \in there : Less(mtime[g], mtime[h]) <=> mtime[g] < mtime[h]
  BY DEF Less, Comparable
<1>9. CASE o \in best
  <2>1. \A g \in best : g <= o
    <3> SUFFICES ASSUME {g \in best : o < g} # {}  PROVE FALSE
      BY <1>0, <1>2
    <3>1. {g \in best : o < g} \in SUBSET Nat
      BY <1>0
    <3>2. PICK c \in {g \in best : o < g} : \A g \in {h \in best : o < h} : c <= g
      BY <3>1, Least
    <3>3. c \in there /\ c \in best /\ o < c /\ c \in Nat
      BY <1>0, <3>2
    <3>4. o \in Before(c)
      BY <1>9, <3>3
    <3>5. \A h \in Before(c) : h <= o
      <4> TAKE h \in Before(c)
      <4>1. h \in best /\ h < c /\ h \in Nat
        BY <1>0
      <4>2. ~ (o < h)
        BY <3>2, <3>3, <4>1
      <4> QED  BY <1>2, <4>1, <4>2
    <3>6. LastOf(Before(c)) \in Before(c) /\ o <= LastOf(Before(c))
      BY <1>7, <3>3, <3>4, LastIsGreatest
    <3>7. LastOf(Before(c)) = o
      <4>1. LastOf(Before(c)) <= o /\ LastOf(Before(c)) \in Nat
        BY <1>0, <3>5, <3>6
      <4> QED  BY <1>2, <3>6, <4>1
    <3>8. Less(mtime[c], mtime[o])
      BY <1>5, <3>3, <3>4, <3>7
    <3>9. mtime[c] < mtime[o] /\ mtime[o] < mtime[c]
      BY <1>2, <1>3, <1>8, <3>3, <3>8
    <3> QED  BY <1>0, <1>2, <3>3, <3>9
  <2>2. best \in SUBSET File /\ best # {}
    BY <1>4, <1>9
  <2>3. LastOf(best) \in best /\ o <= LastOf(best)
    BY <1>9, <2>2, LastIsGreatest
  <2>4. LastOf(best) = o
    <3>1. LastOf(best) <= o /\ LastOf(best) \in there
      BY <2>1, <2>3
    <3>2. LastOf(best) \in Nat
      BY <1>0, <3>1
    <3> QED  BY <1>2, <2>3, <3>1, <3>2
  <2> QED  BY <1>1, <1>4, <2>4
<1>10. CASE o \notin best
  <2>1. Before(o) = {}
    <3> SUFFICES ASSUME Before(o) # {}  PROVE FALSE
      OBVIOUS
    <3>1. LastOf(Before(o)) \in Before(o)
      BY <1>2, <1>7, LastIsGreatest
    <3>2. LastOf(Before(o)) \in there /\ LastOf(Before(o)) # o
      <4>1. \A h \in Before(o) : h \in there /\ h < o
        OBVIOUS
      <4>2. ~ (o < o)
        BY <1>2
      <4> QED  BY <3>1, <4>1, <4>2
    <3>3. mtime[o] < mtime[LastOf(Before(o))]
      BY <1>3, <3>2
    <3> QED  BY <1>2, <1>5, <1>8, <1>10, <3>2, <3>3
  <2>2. ~ BeforeNow(mtime[o], later)
    BY <1>2, <1>6, <1>10, <2>1
  <2>3. ~ (mtime[o] < clock)
    BY <2>2 DEF BeforeNow, Less
  <2>4. current_file \in there /\ mtime[current_file] <= clock
    BY TurnNumbers DEF InTurn
  <2>5. current_file = o
    BY <1>0, <1>2, <1>3, <2>3, <2>4
  <2>6. Base = Len(opened)
    BY <1>1, <2>5, TurnNumbers
  <2>7. current_file = 0
    <3>1. Len(opened) = current_file + 1 \/ Len(opened) > Files
      BY DEF InTurn
    <3>2. current_file \in 0 .. Files - 1 /\ Len(opened) \in Nat
      BY TurnNumbers DEF File
    <3>3. Len(opened) = IF Len(opened) <= Files THEN 1 ELSE Len(opened) - Files + 1
      BY <2>6 DEF Base
    <3> HIDE DEF there
    <3>4. CASE Len(opened) <= Files
      BY <1>0, <3>1, <3>2, <3>3, <3>4
    <3>5. CASE ~ (Len(opened) <= Files)
      BY <1>0, <3>2, <3>3, <3>5
    <3> QED  BY <3>4, <3>5
  <2>8. best = {}
    <3> SUFFICES ASSUME NEW g \in best  PROVE FALSE
      OBVIOUS
    <3>1. g \in there /\ g # o
      BY <1>10
    <3>2. Turn(g) >= 1 /\ Turn(g) \in Int /\ Turn(g) <= Len(opened) /\ Turn(g) # Len(opened)
      BY <2>5, <3>1, TurnNumbers DEF InTurn
    <3>3. Turn(g) >= Base
      BY <3>1, <3>2, TurnNumbers
    <3> QED  BY <2>6, <3>2, <3>3, TurnNumbers
  <2> QED  BY <1>1, <1>4, <2>5, <2>7, <2>8 DEF LastOf
<1> QED  BY <1>9, <1>10

LEMMA InitCat == Init => CatInv
BY DEF Init, CatInv, InTurn, Reading

LEMMA StartCat ==
    ASSUME IInv, CatInv, Start
    PROVE  CatInv'
<1> USE HistoryAssumption
<1>1. steady' = FALSE /\ starts' = starts + 1 /\ starts \in Nat
  BY DEF Start, Events, IInv, TypeOK
<1>2. CASE starts = 0 /\ faults' = 0
  <2>0. fout'
    <3>1. faults' = faults + (IF fout' THEN 0 ELSE 1) /\ faults \in Nat
      BY DEF Start, Events, IInv, TypeOK
    <3> QED  BY <1>2, <3>1
  <2>1. \A f \in File : mtime[f] = Never
    BY <1>2 DEF CatInv, InTurn
  <2>2. PICK later \in BOOLEAN : current_file' = FirstFile(later)
    BY DEF Start
  <2>3. current_file' = 0
    <3>1. Older(later) = {}
      BY <2>1 DEF Older
    <3> QED  BY <2>2, <3>1 DEF LastOf, FirstFile
  <2>4. /\ opened' = <<pushed>> /\ Len(opened') = 1 /\ opened'[1] = pushed
        /\ clock \in Nat /\ pushed \in Nat /\ pushed' = pushed /\ clock' = clock
        /\ 0 \in File
        /\ text'[0] = <<>>
        /\ \A f \in File : mtime'[f] = IF f = 0 THEN clock ELSE Never
    BY <2>0, <2>1, <2>3 DEF Start, IInv, TypeOK, File
  <2>5. \A f \in File : Turn(f)' >= 1 <=> f = 0
    BY <2>3, <2>4 DEF Turn, File
  <2>6. Turn(0)' = 1
    BY <2>3, <2>4 DEF Turn
  <2>7. InTurn'
    <3>1. \A f \in File : Turn(f)' >= 1 <=> mtime'[f] # Never
      BY <2>4, <2>5 DEF Never
    <3>2. ASSUME NEW f \in File, Turn(f)' >= 1
          PROVE  Holds(text'[f], opened'[Turn(f)'],
                       IF f = current_file' THEN pushed' ELSE opened'[Turn(f)' + 1])
      <4>1. f = 0 /\ Turn(f)' = 1 /\ text'[f] = <<>>
        BY <2>4, <2>5, <2>6, <3>2
      <4>2. Holds(<<>>, pushed, pushed)
        BY <2>4 DEF Holds
      <4> QED  BY <2>3, <2>4, <4>1, <4>2
    <3>3. ASSUME NEW f \in File, NEW g \in File, Turn(f)' >= 1, Turn(f)' < Turn(g)'
          PROVE  mtime'[f] <= mtime'[g]
      <4>1. Turn(f)' \in Int /\ Turn(g)' \in Int
        BY <2>3, <2>4 DEF Turn, File
      <4>2. Turn(g)' >= 1
        BY <3>3, <4>1
      <4>3. f = 0 /\ g = 0
        BY <2>5, <3>3, <4>2
      <4> QED  BY <3>3, <4>1, <4>3
    <3>4. mtime'[0] <= clock
      BY <2>4
    <3> QED  BY <1>1, <1>2, <2>0, <2>3, <2>4, <3>1, <3>2, <3>3, <3>4 DEF InTurn
  <2> QED  BY <1>1, <2>7 DEF CatInv, Reading
<1>3. CASE ~ (starts = 0 /\ faults' = 0)
  BY <1>1, <1>3 DEF CatInv, InTurn, Reading
<1> QED  BY <1>2, <1>3

\* A line more in the newest file.
LEMMA HoldsMore ==
    ASSUME NEW s \in Seq(Line), NEW a \in Nat, NEW b \in Nat, Holds(s, a, b)
    PROVE  Holds(Append(s, b + 1), a, b + 1)
BY DEF Holds

\* What pushLine does as long as the files can be opened: the line goes to the
\* file that is open, or alone to the next one.
LEMMA PushInTurn ==
    ASSUME IInv, PushLine, fout, faults = 0, faults' = 0
    PROVE  /\ fout'
           /\ \/ /\ UNCHANGED <<current_file, opened, steady>>
                 /\ \A f \in File :
                      /\ text'[f] = IF f = current_file THEN Append(text[f], pushed + 1)
                                                        ELSE text[f]
                      /\ mtime'[f] = IF f = current_file THEN clock ELSE mtime[f]
              \/ /\ current_file' = NextFile(current_file)
                 /\ opened' = Append(opened, pushed)
                 /\ steady' = (steady /\ ~(rpc = "open" /\ left > 0
                                           /\ rfile = current_file'))
                 /\ \A f \in File :
                      /\ text'[f] = IF f = current_file' THEN <<pushed + 1>> ELSE text[f]
                      /\ mtime'[f] = IF f = current_file' THEN clock ELSE mtime[f]
<1>0. PICK later \in BOOLEAN, again \in BOOLEAN, turned \in BOOLEAN :
         LET file  == IF fout THEN current_file ELSE NextFile(current_file)
             start == IF fout THEN file_start ELSE clock
             turn  == BeforeNow(start + MaxHours, later)
             tried == (IF fout THEN {} ELSE {file}) \cup (IF turn THEN {current_file'} ELSE {})
             emptied == (IF ~fout /\ again THEN {file} ELSE {})
                        \cup (IF turn /\ turned THEN {current_file'} ELSE {})
         IN /\ fout => again
            /\ ~turn => turned
            /\ current_file' = IF turn THEN NextFile(file) ELSE file
            /\ file_start' = IF turn THEN clock ELSE start
            /\ fout' = IF turn THEN turned ELSE again
            /\ Events(0, (IF again THEN 0 ELSE 1) + (IF turned THEN 0 ELSE 1))
            /\ opened' = opened \o (IF fout THEN <<>> ELSE <<pushed>>)
                                \o (IF turn THEN <<pushed>> ELSE <<>>)
            /\ steady' = (steady /\ ~(rpc = "open" /\ left > 0 /\ rfile \in tried))
            /\ text' = Write(emptied, current_file', pushed + 1)
            /\ mtime' = [f \in File |-> IF f \in emptied \/ (f = current_file' /\ fout')
                                       THEN clock ELSE mtime[f]]
  BY Zenon DEF PushLine
<1>1.    LET turn  == BeforeNow(file_start + MaxHours, later)
             tried == {} \cup (IF turn THEN {current_file'} ELSE {})
             emptied == {} \cup (IF turn /\ turned THEN {current_file'} ELSE {})
         IN /\ again
            /\ ~turn => turned
            /\ current_file' = IF turn THEN NextFile(current_file) ELSE current_file
            /\ fout' = IF turn THEN turned ELSE again
            /\ Events(0, (IF again THEN 0 ELSE 1) + (IF turned THEN 0 ELSE 1))
            /\ opened' = opened \o <<>> \o (IF turn THEN <<pushed>> ELSE <<>>)
            /\ steady' = (steady /\ ~(rpc = "open" /\ left > 0 /\ rfile \in tried))
            /\ text' = Write(emptied, current_file', pushed + 1)
            /\ mtime' = [f \in File |-> IF f \in emptied \/ (f = current_file' /\ fout')
                                       THEN clock ELSE mtime[f]]
  BY <1>0
<1> DEFINE turn  == BeforeNow(file_start + MaxHours, later)
<1>2. again /\ turned
  <2>1. Events(0, (IF again THEN 0 ELSE 1) + (IF turned THEN 0 ELSE 1))
    BY <1>1
  <2>2. (IF again THEN 0 ELSE 1) + (IF turned THEN 0 ELSE 1) = 0
    BY <2>1 DEF Events
  <2> QED  BY <2>2
<1>3. opened \o <<>> = opened /\ opened \o <<>> \o <<>> = opened
      /\ opened \o <<>> \o <<pushed>> = Append(opened, pushed)
  BY DEF IInv, TypeOK
<1>4. running /\ current_file \in File /\ steady \in BOOLEAN
  BY DEF PushLine, IInv, Life, TypeOK
<1>5. CASE ~turn
  <2>1. fout' /\ current_file' = current_file
    BY <1>1, <1>2, <1>5
  <2>2. opened' = opened
    BY <1>1, <1>3, <1>5
  <2>3. steady' = (steady /\ ~(rpc = "open" /\ left > 0 /\ rfile \in {} \cup {}))
    BY <1>1, <1>5
  <2>4. steady' = steady
    BY <1>4, <2>3
  <2>5. /\ text' = Write({} \cup {}, current_file', pushed + 1)
        /\ mtime' = [f \in File |-> IF f \in {} \cup {} \/ (f = current_file' /\ fout')
                                   THEN clock ELSE mtime[f]]
    BY <1>1, <1>5
  <2>6. \A f \in File :
          /\ text'[f] = IF f = current_file THEN Append(text[f], pushed + 1) ELSE text[f]
          /\ mtime'[f] = IF f = current_file THEN clock ELSE mtime[f]
    BY <2>1, <2>5 DEF Write
  <2> QED  BY <2>1, <2>2, <2>4, <2>6
<1>6. CASE turn
  <2>1. fout' /\ current_file' = NextFile(current_file)
    BY <1>1, <1>2, <1>6
  <2>2. opened' = Append(opened, pushed)
    BY <1>1, <1>3, <1>6
  <2>3. steady' = (steady /\ ~(rpc = "open" /\ left > 0 /\ rfile \in {} \cup {current_file'}))
    BY <1>1, <1>6
  <2>4. steady' = (steady /\ ~(rpc = "open" /\ left > 0 /\ rfile = current_file'))
    BY <2>3
  <2>5. /\ text' = Write({} \cup {current_file'}, current_file', pushed + 1)
        /\ mtime' = [f \in File |-> IF f \in {} \cup {current_file'}
                                       \/ (f = current_file' /\ fout')
                                   THEN clock ELSE mtime[f]]
    BY <1>1, <1>2, <1>6
  <2>6. \A f \in File :
          /\ text'[f] = IF f = current_file' THEN <<pushed + 1>> ELSE text[f]
          /\ mtime'[f] = IF f = current_file' THEN clock ELSE mtime[f]
    <3>1. Append(<<>>, pushed + 1) = <<pushed + 1>>
      OBVIOUS
    <3> QED  BY <2>1, <2>5, <3>1 DEF Write
  <2> QED  BY <2>1, <2>2, <2>4, <2>6
<1> HIDE DEF turn
<1> QED  BY <1>5, <1>6

LEMMA PushCat ==
    ASSUME IInv, CatInv, PushLine
    PROVE  CatInv'
<1> USE HistoryAssumption
<1>1. /\ running /\ running' = running /\ pushed' = pushed + 1 /\ pushed \in Nat
      /\ UNCHANGED <<clock, starts, reader>>
      /\ clock \in Nat /\ faults \in Nat /\ opened \in Seq(0 .. MaxPush)
      /\ opened # <<>> /\ current_file \in File /\ steady \in BOOLEAN
  BY PushFiles DEF IInv, TypeOK, Life
<1>2. faults' = 0 => faults = 0
  <2>1. PICK k \in Nat : Events(0, k)
    <3>1. \A a, b \in BOOLEAN : (IF a THEN 0 ELSE 1) + (IF b THEN 0 ELSE 1) \in Nat
      OBVIOUS
    <3> QED  BY <3>1 DEF PushLine
  <2> QED  BY <1>1, <2>1 DEF Events
<1>3. CASE ~ (starts = 1 /\ faults' = 0)
  <2>1. starts # 0
    BY <1>1 DEF CatInv, InTurn
  <2> QED  BY <1>1, <1>3, <2>1 DEF CatInv, InTurn, Reading
<1>4. CASE starts = 1 /\ faults' = 0
  <2> DEFINE n == Len(opened)
             new == NextFile(current_file)
  <2>1. /\ starts' = 1 /\ faults = 0 /\ fout /\ fout'
        /\ n \in Nat /\ n >= 1 /\ Files \in Nat \ {0}
        /\ \A f \in File : mtime[f] \in Int
    BY <1>1, <1>2, <1>4, PushInTurn DEF CatInv, InTurn, IInv, TypeOK, Never
  <2>2. CASE /\ UNCHANGED <<current_file, opened, steady>>
             /\ \A f \in File :
                  /\ text'[f] = IF f = current_file THEN Append(text[f], pushed + 1)
                                                    ELSE text[f]
                  /\ mtime'[f] = IF f = current_file THEN clock ELSE mtime[f]
    <3>1. Base' = Base /\ \A f : Turn(f)' = Turn(f)
      BY <2>2 DEF Base, Turn
    <3>2. Turn(current_file) = n
      BY <1>1, <1>4, <2>1, TurnNumbers DEF CatInv
    <3>3. mtime[current_file] <= clock /\ clock # Never
      BY <1>1, <1>4, <2>1 DEF CatInv, InTurn, Never
    <3>4. InTurn'
      <4>1. Holds(text'[current_file], opened[n], pushed + 1)
        <5>1. Holds(text[current_file], opened[n], pushed)
          BY <1>1, <1>4, <2>1, <3>2 DEF CatInv, InTurn
        <5>2. text[current_file] \in Seq(Line) /\ opened[n] \in Nat
          BY <1>1, <2>1 DEF IInv, TypeOK
        <5> QED  BY <1>1, <2>2, <5>1, <5>2, HoldsMore
      <4>2. \A f \in File : Turn(f) >= 1 <=> mtime'[f] # Never
        BY <1>1, <1>4, <2>1, <2>2, <3>2, <3>3 DEF CatInv, InTurn
      <4>3. \A f \in File : Turn(f) >= 1 =>
              Holds(text'[f], opened[Turn(f)],
                    IF f = current_file THEN pushed' ELSE opened[Turn(f) + 1])
        BY <1>1, <1>4, <2>1, <2>2, <3>2, <4>1 DEF CatInv, InTurn
      <4>4. \A f, g \in File : Turn(f) >= 1 /\ Turn(f) < Turn(g) => mtime'[f] <= mtime'[g]
        <5> SUFFICES ASSUME NEW f \in File, NEW g \in File, Turn(f) >= 1, Turn(f) < Turn(g)
                     PROVE  mtime'[f] <= mtime'[g]
          OBVIOUS
        <5>1. mtime[f] <= mtime[g]
          BY <1>4, <2>1 DEF CatInv, InTurn
        <5>2. f # current_file
          <6>1. Turn(g) \in Int /\ Turn(g) <= n
            BY <1>4, <2>1, TurnNumbers DEF CatInv
          <6> QED  BY <2>1, <3>2, <6>1
        <5> QED  BY <1>1, <2>1, <2>2, <3>3, <5>1, <5>2
      <4>5. mtime'[current_file] <= clock
        BY <1>1, <2>2
      <4> QED
        BY <1>1, <1>4, <2>1, <2>2, <3>1, <4>2, <4>3, <4>4, <4>5 DEF CatInv, InTurn
    <3>5. Reading'
      <4> SUFFICES ASSUME steady, rpc # "idle"
                   PROVE  \E B \in 1 .. n : Begun(B)'
        BY <1>1, <1>4, <2>1, <2>2 DEF Reading, reader
      <4>1. PICK B \in 1 .. n : Begun(B)
        BY <1>4, <2>1 DEF CatInv, Reading
      <4>2. upto \in Nat
        BY DEF IInv, TypeOK
      <4>3. Begun(B)'
        BY <1>1, <2>2, <3>1, <4>1, <4>2 DEF Begun, Ahead, Done, reader
      <4> QED  BY <4>3
    <3> QED  BY <3>4, <3>5 DEF CatInv
  <2>3. CASE /\ current_file' = new
             /\ opened' = Append(opened, pushed)
             /\ steady' = (steady /\ ~(rpc = "open" /\ left > 0 /\ rfile = current_file'))
             /\ \A f \in File :
                  /\ text'[f] = IF f = current_file' THEN <<pushed + 1>> ELSE text[f]
                  /\ mtime'[f] = IF f = current_file' THEN clock ELSE mtime[f]
    <3>1. new \in File
      BY <1>1, <2>1 DEF NextFile, File
    <3>2. /\ Len(opened') = n + 1 /\ opened'[n + 1] = pushed
          /\ \A i \in 1 .. n : opened'[i] = opened[i]
      BY <1>1, <2>1, <2>3
    <3>3. n = current_file + 1 \/ n > Files
      BY <1>4, <2>1 DEF CatInv, InTurn
    <3>4. \A f \in File : Turn(f)' = IF f = new THEN n + 1 ELSE Turn(f)
      <4> SUFFICES ASSUME NEW f \in File
                   PROVE  Turn(f)' = IF f = new THEN n + 1 ELSE Turn(f)
        OBVIOUS
      <4>1. Turn(f)' = IF f <= new THEN n + 1 - new + f ELSE n + 1 - new + f - Files
        <5>1. Turn(f)' = IF f <= current_file'
                         THEN Len(opened') - current_file' + f
                         ELSE Len(opened') - current_file' + f - Files
          BY DEF Turn
        <5>2. n \in Nat /\ new \in Nat /\ f \in Nat /\ Files \in Nat
          BY <2>1, <3>1 DEF File
        <5> HIDE DEF new, n
        <5> QED  BY <2>3, <3>2, <5>1, <5>2
      <4>2. f \in 0 .. Files - 1 /\ current_file \in 0 .. Files - 1 /\ Files \in Nat
        BY <1>1, <2>1 DEF File
      <4>3. CASE current_file + 1 >= Files
        BY <2>1, <3>3, <4>1, <4>2, <4>3 DEF Turn, NextFile
      <4>4. CASE ~(current_file + 1 >= Files)
        BY <2>1, <3>3, <4>1, <4>2, <4>4 DEF Turn, NextFile
      <4> QED  BY <4>3, <4>4
    <3>5. \A f \in File : /\ Turn(f) \in Int /\ Turn(f) <= n
                          /\ Turn(f) = n <=> f = current_file
      BY <1>4, <2>1, TurnNumbers DEF CatInv
    <3>6. \A f \in File : Turn(f) >= 1 => mtime[f] \in Nat /\ mtime[f] <= clock
      <4> SUFFICES ASSUME NEW f \in File, Turn(f) >= 1
                   PROVE  mtime[f] \in Nat /\ mtime[f] <= clock
        OBVIOUS
      <4>1. mtime[f] # Never /\ mtime[f] \in Nat /\ mtime[current_file] \in Int
        BY <1>1, <1>4, <2>1 DEF CatInv, InTurn, IInv, TypeOK, Never
      <4>2. mtime[current_file] <= clock
        BY <1>4, <2>1 DEF CatInv, InTurn
      <4>3. f = current_file \/ mtime[f] <= mtime[current_file]
        <5>1. f = current_file \/ Turn(f) < Turn(current_file)
          BY <1>1, <2>1, <3>5
        <5> QED  BY <1>1, <1>4, <2>1, <5>1 DEF CatInv, InTurn
      <4> QED  BY <1>1, <4>1, <4>2, <4>3
    <3> HIDE DEF new, n
    <3>7. InTurn'
      <4>1. n + 1 = new + 1 \/ n + 1 > Files
        <5>1. current_file \in 0 .. Files - 1
          BY <1>1 DEF File
        <5> QED  BY <2>1, <3>3, <5>1 DEF NextFile, new
      <4>2. ASSUME NEW f \in File  PROVE Turn(f)' >= 1 <=> mtime'[f] # Never
        <5>1. CASE f = new
          BY <1>1, <2>1, <2>3, <3>4, <5>1 DEF Never
        <5>2. CASE f # new
          BY <1>4, <2>1, <2>3, <3>4, <5>2 DEF CatInv, InTurn
        <5> QED  BY <5>1, <5>2
      <4>3. ASSUME NEW f \in File, Turn(f)' >= 1
            PROVE  Holds(text'[f], opened'[Turn(f)'],
                         IF f = new THEN pushed' ELSE opened'[Turn(f)' + 1])
        <5>1. CASE f = new
          <6>1. Turn(f)' = n + 1
            BY <3>4, <5>1
          <6>2. Holds(<<pushed + 1>>, pushed, pushed + 1)
            BY <1>1 DEF Holds
          <6> QED  BY <1>1, <2>3, <3>2, <5>1, <6>1, <6>2
        <5>2. CASE f # new
          <6>1. /\ Turn(f)' = Turn(f) /\ text'[f] = text[f] /\ Turn(f) \in 1 .. n
            BY <2>1, <2>3, <3>4, <3>5, <4>3, <5>2
          <6>2. Holds(text[f], opened[Turn(f)],
                      IF f = current_file THEN pushed ELSE opened[Turn(f) + 1])
            BY <1>4, <2>1, <6>1 DEF CatInv, InTurn
          <6>3. opened'[Turn(f)] = opened[Turn(f)]
            BY <3>2, <6>1
          <6>4. opened'[Turn(f) + 1] = IF f = current_file THEN pushed ELSE opened[Turn(f) + 1]
            BY <2>1, <3>2, <3>5, <6>1
          <6> QED  BY <5>2, <6>1, <6>2, <6>3, <6>4
        <5> QED  BY <5>1, <5>2
      <4>4. ASSUME NEW f \in File, NEW g \in File, Turn(f)' >= 1, Turn(f)' < Turn(g)'
            PROVE  mtime'[f] <= mtime'[g]
        <5>1. f # new /\ Turn(f)' = Turn(f)
          <6>1. Turn(g)' \in Int /\ Turn(g)' <= n + 1
            BY <2>1, <3>4, <3>5
          <6> QED  BY <2>1, <3>4, <4>4, <6>1
        <5>2. CASE g = new
          BY <2>3, <3>6, <4>4, <5>1, <5>2
        <5>3. CASE g # new
          BY <1>4, <2>1, <2>3, <3>4, <4>4, <5>1, <5>3 DEF CatInv, InTurn
        <5> QED  BY <5>2, <5>3
      <4>5. mtime'[new] <= clock
        BY <1>1, <2>3, <3>1
      <4>6. starts' = 1 /\ current_file' = new /\ clock' = clock /\ fout'
        BY <1>1, <2>1, <2>3
      <4>7. Len(opened') = new + 1 \/ Len(opened') > Files
        BY <3>2, <4>1
      <4> QED
        BY <3>1, <4>2, <4>3, <4>4, <4>5, <4>6, <4>7 DEF InTurn
    <3>8. Reading'
      <4> SUFFICES ASSUME steady', rpc # "idle"
                   PROVE  \E B \in 1 .. n + 1 : Begun(B)'
        BY <1>1, <1>4, <2>1, <3>2 DEF Reading, reader
      <4>0. steady /\ ~ (rpc = "open" /\ left > 0 /\ rfile = new)
        BY <2>3
      <4>1. PICK B \in 1 .. n : Begun(B)
        BY <1>4, <2>1, <4>0 DEF CatInv, Reading, n
      <4>2. /\ upto \in Nat /\ upto <= pushed /\ left \in 0 .. Files /\ rfile \in File
            /\ from \in Nat /\ out \in Seq(Line) /\ Len(out) \in Nat
        BY <4>1 DEF IInv, TypeOK, Begun
      <4>3. Base <= Base' /\ Base \in Int
        <5>1. Base = IF n <= Files THEN 1 ELSE n - Files + 1
          BY DEF Base, n
        <5>0. Base' = IF Len(opened') <= Files THEN 1 ELSE Len(opened') - Files + 1
          BY DEF Base
        <5>2. Base' = IF n + 1 <= Files THEN 1 ELSE n + 1 - Files + 1
          BY <2>1, <3>2, <5>0
        <5> QED  BY <2>1, <5>1, <5>2
      <4>4. B <= Base' /\ Base' \in Int
        <5>0. Base' = IF Len(opened') <= Files THEN 1 ELSE Len(opened') - Files + 1
          BY DEF Base
        <5>1. Base' = IF n + 1 <= Files THEN 1 ELSE n + 1 - Files + 1
          BY <2>1, <3>2, <5>0
        <5>2. Base' \in Int
          BY <2>1, <5>1
        <5>3. B <= Base
          BY <4>1 DEF Begun
        <5> QED  BY <4>3, <5>2, <5>3
      <4>5. /\ from = opened[B] + 1 /\ opened'[B] = opened[B]
            /\ B + Files <= n => upto <= opened[B + Files]
            /\ \A i \in 1 .. Len(out) : out[i] = from + i - 1
            /\ rpc = "cat" => from + Len(out) - 1 >= upto
            /\ rpc = "open" => Ahead(B) \/ Done
        BY <3>2, <4>1 DEF Begun, n
      <4>6. B + Files <= n + 1 => upto <= opened'[B + Files]
        <5>1. CASE B + Files = n + 1
          BY <3>2, <4>2, <5>1
        <5>2. CASE B + Files # n + 1
          <6>1. B + Files <= n + 1 => B + Files \in 1 .. n
            BY <2>1, <5>2
          <6> QED  BY <3>2, <4>5, <6>1
        <5> QED  BY <5>1, <5>2
      <4>7. /\ rpc' = rpc /\ left' = left /\ rfile' = rfile /\ out' = out /\ from' = from
            /\ upto' = upto
        BY <1>1 DEF reader
      <4>8. Turn(rfile)' = IF rfile = new THEN n + 1 ELSE Turn(rfile)
        <5>1. Turn(rfile)' = IF rfile' <= current_file'
                             THEN Len(opened') - current_file' + rfile'
                             ELSE Len(opened') - current_file' + rfile' - Files
          BY DEF Turn
        <5>2. \A f \in File : f = rfile =>
                (IF f <= current_file' THEN Len(opened') - current_file' + f
                 ELSE Len(opened') - current_file' + f - Files)
                  = IF f = new THEN n + 1 ELSE Turn(f)
          BY <3>4 DEF Turn
        <5> QED  BY <4>2, <4>7, <5>1, <5>2
      <4>9. rpc = "open" => Ahead(B)' \/ Done'
        <5> SUFFICES ASSUME rpc = "open"  PROVE Ahead(B)' \/ Done'
          OBVIOUS
        <5>1. CASE Ahead(B)
          <6>1. left > 0 /\ Turn(rfile) = B + Files - left
                /\ from + Len(out) - 1 = opened[Turn(rfile)]
            BY <5>1 DEF Ahead
          <6>2. Turn(rfile)' = Turn(rfile)
            BY <4>0, <4>8, <6>1
          <6>3. Turn(rfile) \in 1 .. n
            BY <2>1, <3>5, <4>2, <6>1
          <6>4. opened'[Turn(rfile)] = opened[Turn(rfile)]
            BY <3>2, <6>3
          <6>5. left' > 0 /\ Turn(rfile)' = B + Files - left'
            BY <4>7, <6>1, <6>2
          <6>6. from' + Len(out') - 1 = opened'[Turn(rfile)']
            BY <4>7, <6>1, <6>2, <6>4
          <6> QED  BY <6>5, <6>6 DEF Ahead
        <5>2. CASE Done
          <6>1. from + Len(out) - 1 >= upto /\ (left = 0 \/ Turn(rfile) < 1)
            BY <5>2 DEF Done
          <6>2. left = 0 \/ Turn(rfile)' = Turn(rfile)
            BY <4>0, <4>2, <4>8
          <6>3. from' + Len(out') - 1 >= upto'
            BY <4>7, <6>1
          <6>4. left' = 0 \/ Turn(rfile)' < 1
            BY <4>7, <6>1, <6>2
          <6> QED  BY <6>3, <6>4 DEF Done
        <5> QED  BY <4>5, <5>1, <5>2
      <4>10. B + Files <= Len(opened') => upto' <= opened'[B + Files]
        BY <3>2, <4>6, <4>7
      <4>11. \A i \in 1 .. Len(out') : out'[i] = from' + i - 1
        BY <4>5, <4>7
      <4>12. /\ from' = opened'[B] + 1
             /\ rpc' = "cat" => from' + Len(out') - 1 >= upto'
             /\ rpc' = "open" => Ahead(B)' \/ Done'
        BY <4>5, <4>7, <4>9
      <4>13. upto' <= pushed'
        BY <1>1, <4>2, <4>7
      <4>14. Begun(B)'
        BY <4>4, <4>10, <4>11, <4>12, <4>13 DEF Begun
      <4>15. B \in 1 .. n + 1
        BY <2>1
      <4> QED  BY <4>14, <4>15
    <3> QED  BY <3>7, <3>8 DEF CatInv
  <2> HIDE DEF n, new
  <2>4. /\ fout /\ faults = 0 /\ faults' = 0
    BY <1>4, <2>1
  <2> QED  BY <2>2, <2>3, <2>4, PushInTurn DEF new
<1> QED  BY <1>3, <1>4

\* The steps of the reader leave the logger alone.
LEMMA SameTurns ==
    ASSUME UNCHANGED <<clock, text, mtime, logger, faults>>
    PROVE  /\ InTurn => InTurn'
           /\ Base' = Base /\ opened' = opened /\ starts' = starts /\ pushed' = pushed
           /\ \A f : Turn(f)' = IF f <= current_file THEN Len(opened) - current_file + f
                                ELSE Len(opened) - current_file + f - Files
BY DEF logger, InTurn, Turn, Base

LEMMA CatStartCat ==
    ASSUME IInv, CatInv, CatStart
    PROVE  CatInv'
<1>1. /\ UNCHANGED <<clock, text, mtime, logger, faults>>
      /\ opened # <<>> /\ rpc' = "open" /\ rfile' \in File /\ left' = Files
      /\ out' = <<>> /\ from' = OldestKept + 1 /\ upto' = pushed /\ steady' = Comparable
  BY DEF CatStart
<1>2. InTurn'
  BY <1>1, SameTurns DEF CatInv
<1>3. Reading'
  <2> SUFFICES ASSUME starts = 1, faults = 0, Comparable
               PROVE  \E B \in 1 .. Len(opened) : Begun(B)'
    BY <1>1, SameTurns DEF Reading
  <2>1. PICK later \in BOOLEAN : OldestFile(rfile', later)
    BY DEF CatStart
  <2>2. /\ Base \in 1 .. Len(opened) /\ Len(opened) \in Nat
        /\ \A f \in File : f = rfile' => Turn(f) = Base
    BY <1>1, <2>1, OldestIsBase, TurnNumbers DEF CatInv
  <2>3. OldestKept = opened[Base] /\ opened[Base] \in Nat /\ pushed \in Nat
        /\ Files \in Nat \ {0}
    BY <2>2, HistoryAssumption DEF OldestKept, Base, IInv, TypeOK
  <2>4. Turn(rfile)' = Base
    <3>1. Turn(rfile)' = IF rfile' <= current_file'
                         THEN Len(opened') - current_file' + rfile'
                         ELSE Len(opened') - current_file' + rfile' - Files
      BY DEF Turn
    <3>2. opened' = opened /\ current_file' = current_file
      BY <1>1 DEF logger
    <3>3. \A f \in File : f = rfile' =>
            (IF f <= current_file' THEN Len(opened') - current_file' + f
             ELSE Len(opened') - current_file' + f - Files) = Base
      BY <2>2, <3>2 DEF Turn
    <3> QED  BY <1>1, <3>1, <3>3
  <2>5. Len(out') = 0 /\ Base' = Base /\ opened' = opened /\ pushed' = pushed
    BY <1>1, SameTurns
  <2>6. Base + Files > Len(opened)
    BY <2>2, <2>3 DEF Base
  <2>7. Ahead(Base)'
    <3>1. left' > 0 /\ Base + Files - left' = Base
      BY <1>1, <2>2, <2>3
    <3>2. from' + Len(out') - 1 = opened'[Turn(rfile)']
      BY <1>1, <2>3, <2>4, <2>5
    <3> QED  BY <2>4, <2>5, <3>1, <3>2 DEF Ahead
  <2>8. PICK B \in 1 .. Len(opened) : B = Base
    BY <2>2
  <2>9. Ahead(B)'
    <3>1. left' > 0 /\ from' + Len(out') - 1 = opened'[Turn(rfile)']
      BY <2>7 DEF Ahead
    <3>2. Turn(rfile)' = B + Files - left'
      BY <1>1, <2>2, <2>3, <2>4, <2>8
    <3> QED  BY <3>1, <3>2 DEF Ahead
  <2>10. Begun(B)'
    <3>1. B <= Base'
      BY <2>2, <2>5, <2>8
    <3>2. from' = opened'[B] + 1 /\ upto' <= pushed'
      BY <1>1, <2>3, <2>5, <2>8
    <3>3. ~ (B + Files <= Len(opened'))
      BY <2>2, <2>3, <2>5, <2>6, <2>8
    <3>4. \A i \in 1 .. Len(out') : out'[i] = from' + i - 1
      BY <2>5
    <3> QED  BY <1>1, <2>9, <3>1, <3>2, <3>3, <3>4 DEF Begun
  <2> QED  BY <2>10
<1> QED  BY <1>2, <1>3 DEF CatInv

\* A file is read after the one before it.
LEMMA ReadOn ==
    ASSUME NEW s \in Seq(Line), NEW t \in Seq(Line), NEW a \in Nat, NEW b \in Nat,
           NEW m \in Nat, m + Len(s) - 1 = a, Holds(t, a, b),
           \A i \in 1 .. Len(s) : s[i] = m + i - 1
    PROVE  /\ m + Len(s \o t) - 1 = b
           /\ \A i \in 1 .. Len(s \o t) : (s \o t)[i] = m + i - 1
<1>1. Len(t) = b - a /\ \A i \in 1 .. Len(t) : t[i] = a + i
  BY DEF Holds
<1>2. PICK k \in Nat, l \in Nat : k = Len(s) /\ l = Len(t)
  OBVIOUS
<1>3. /\ Len(s \o t) = k + l
      /\ \A i \in 1 .. k : (s \o t)[i] = s[i]
      /\ \A i \in k + 1 .. k + l : (s \o t)[i] = t[i - k]
  BY <1>2
<1>4. m + k - 1 = a /\ l = b - a
  BY <1>1, <1>2
<1>5. m + (k + l) - 1 = b
  BY <1>4
<1>6. ASSUME NEW i \in 1 .. k + l  PROVE (s \o t)[i] = m + i - 1
  <2>1. CASE i <= k
    <3>1. i \in 1 .. k
      BY <2>1
    <3> QED  BY <1>2, <1>3, <3>1
  <2>2. CASE i > k
    <3>1. i \in k + 1 .. k + l /\ i - k \in 1 .. l
      BY <2>2
    <3>2. (s \o t)[i] = t[i - k] /\ t[i - k] = a + (i - k)
      BY <1>1, <1>2, <1>3, <3>1
    <3>3. a + (i - k) = m + i - 1
      BY <1>4
    <3> QED  BY <3>2, <3>3
  <2>3. i <= k \/ i > k
    OBVIOUS
  <2> QED  BY <2>1, <2>2, <2>3, Zenon
<1> QED  BY <1>3, <1>5, <1>6

LEMMA CatFileCat ==
    ASSUME IInv, CatInv, CatFile
    PROVE  CatInv'
<1> USE HistoryAssumption
<1>1. /\ UNCHANGED <<clock, text, mtime, logger, faults, rpc, from, upto, steady>>
      /\ rpc = "open" /\ left > 0 /\ mtime[rfile] # Never
      /\ out' = out \o text[rfile] /\ left' = left - 1
      /\ rfile' = IF rfile + 1 >= Files THEN 0 ELSE rfile + 1
  BY DEF CatFile
<1>2. InTurn'
  BY <1>1, SameTurns DEF CatInv
<1>3. Reading'
  <2> SUFFICES ASSUME starts = 1, faults = 0, steady
               PROVE  \E B \in 1 .. Len(opened) : Begun(B)'
    BY <1>1, SameTurns DEF Reading
  <2>1. PICK B \in 1 .. Len(opened) : Begun(B)
    BY <1>1 DEF CatInv, Reading
  <2> DEFINE n == Len(opened)
             j == Turn(rfile)
             next == IF rfile + 1 >= Files THEN 0 ELSE rfile + 1
  <2>2. /\ n \in Nat /\ rfile \in File /\ left \in 1 .. Files /\ Files \in Nat \ {0}
        /\ j \in Int /\ j <= n /\ j >= 1
        /\ from \in Nat /\ upto \in Nat /\ pushed \in Nat
        /\ out \in Seq(Line) /\ text[rfile] \in Seq(Line)
        /\ Base \in 1 .. n
    BY <1>1, TurnNumbers DEF CatInv, InTurn, IInv, TypeOK
  <2>3. Ahead(B)
    BY <1>1, <2>1, <2>2 DEF Begun, Done
  <2>4. /\ B <= Base /\ from = opened[B] + 1 /\ upto <= pushed
        /\ B + Files <= n => upto <= opened[B + Files]
        /\ \A i \in 1 .. Len(out) : out[i] = from + i - 1
        /\ j = B + Files - left
        /\ from + Len(out) - 1 = opened[j]
    BY <2>1, <2>3 DEF Begun, Ahead
  <2>5. Holds(text[rfile], opened[j], IF rfile = current_file THEN pushed ELSE opened[j + 1])
    BY <2>2 DEF CatInv, InTurn
  <2>6. opened[j] \in Nat /\ (j < n => opened[j + 1] \in Nat)
    BY <2>2 DEF IInv, TypeOK
  <2>7. Turn(rfile)' = Turn(next)
    <3>1. \A f : Turn(f)' = IF f <= current_file THEN n - current_file + f
                            ELSE n - current_file + f - Files
      BY <1>1, SameTurns
    <3>2. Turn(rfile)' = IF rfile' <= current_file'
                         THEN Len(opened') - current_file' + rfile'
                         ELSE Len(opened') - current_file' + rfile' - Files
      BY DEF Turn
    <3>3. opened' = opened /\ current_file' = current_file /\ rfile' = next
      BY <1>1 DEF logger
    <3> QED  BY <3>2, <3>3 DEF Turn
  <2>8. rfile # current_file => j < n /\ Turn(next) = j + 1
    BY <2>2, TurnNumbers DEF CatInv
  <2>9. rfile = current_file => j = n
    BY <2>2, TurnNumbers DEF CatInv
  <2>10. n = current_file + 1 \/ n > Files
    BY DEF CatInv, InTurn
  <2>11. Base = IF n <= Files THEN 1 ELSE n - Files + 1
    BY DEF Base
  <2>12. rfile = current_file => left = 1 \/ Turn(next) < 1
    <3> SUFFICES ASSUME rfile = current_file  PROVE left = 1 \/ Turn(next) < 1
      OBVIOUS
    <3>1. rfile \in 0 .. Files - 1
      BY <2>2 DEF File
    <3>2. CASE n > Files
      <4>1. Base + Files = n + 1
        BY <2>2, <2>11, <3>2
      <4>2. left = B + Files - n /\ left >= 1
        BY <2>2, <2>4, <2>9
      <4> HIDE DEF n, j, next
      <4> QED  BY <2>2, <2>4, <4>1, <4>2
    <3>3. CASE ~ (n > Files)
      <4>1. n = rfile + 1 /\ Base = 1 /\ B = 1
        BY <2>2, <2>4, <2>10, <2>11, <3>3
      <4>2. CASE rfile + 1 >= Files
        <5>1. left = 1
          BY <2>2, <2>4, <2>9, <3>1, <4>1, <4>2
        <5> QED  BY <5>1
      <4>3. CASE ~ (rfile + 1 >= Files)
        <5>1. next = rfile + 1 /\ ~ (next <= current_file)
          BY <3>1, <4>3
        <5>2. Turn(next) = n - current_file + (rfile + 1) - Files
          BY <5>1 DEF Turn
        <5> QED  BY <3>1, <4>1, <4>3, <5>2
      <4> QED  BY <4>2, <4>3
    <3> QED  BY <3>2, <3>3
  <2> HIDE DEF n, j, next
  <2>13. /\ \A i \in 1 .. Len(out') : out'[i] = from + i - 1
         /\ rfile = current_file => from + Len(out') - 1 = pushed
         /\ rfile # current_file => from + Len(out') - 1 = opened[j + 1]
    <3>1. PICK a \in Nat, b \in Nat, t \in Seq(Line) :
            /\ a = opened[j] /\ t = text[rfile]
            /\ b = IF rfile = current_file THEN pushed ELSE opened[j + 1]
      <4>1. (IF rfile = current_file THEN pushed ELSE opened[j + 1]) \in Nat
        BY <2>2, <2>6, <2>8
      <4> QED  BY <2>2, <2>6, <4>1
    <3>2. Holds(t, a, b) /\ from + Len(out) - 1 = a
      BY <2>4, <2>5, <3>1
    <3>3. /\ from + Len(out \o t) - 1 = b
          /\ \A i \in 1 .. Len(out \o t) : (out \o t)[i] = from + i - 1
      <4>1. \A i \in 1 .. Len(out) : out[i] = from + i - 1
        BY <2>4
      <4>2. out \in Seq(Line) /\ t \in Seq(Line) /\ from \in Nat
        BY <2>2, <3>1
      <4> QED  BY <3>2, <4>1, <4>2, ReadOn
    <3> QED  BY <1>1, <3>1, <3>3
  <2>14. Ahead(B)' \/ Done'
    <3>1. CASE rfile = current_file
      <4>1. from' + Len(out') - 1 >= upto'
        BY <1>1, <2>2, <2>4, <2>13, <3>1
      <4>2. left' = 0 \/ Turn(rfile)' < 1
        BY <1>1, <2>7, <2>12, <3>1
      <4> QED  BY <4>1, <4>2 DEF Done
    <3>2. CASE rfile # current_file /\ left = 1
      <4>1. B + Files <= n /\ j + 1 = B + Files
        BY <2>1, <2>2, <2>4, <2>8, <3>2
      <4>2. from' + Len(out') - 1 >= upto'
        <5>1. upto <= opened[j + 1] /\ opened[j + 1] \in Nat
          BY <2>4, <2>6, <2>8, <3>2, <4>1
        <5> QED  BY <1>1, <2>2, <2>13, <3>2, <5>1
      <4> QED  BY <1>1, <3>2, <4>2 DEF Done
    <3>3. CASE rfile # current_file /\ left # 1
      <4>1. left' > 0 /\ Turn(rfile)' = j + 1 /\ j + 1 = B + Files - left'
        BY <1>1, <2>1, <2>2, <2>4, <2>7, <2>8, <3>3
      <4>2. from' + Len(out') - 1 = opened'[Turn(rfile)']
        <5>1. opened' = opened /\ from' = from
          BY <1>1, SameTurns
        <5> QED  BY <2>13, <3>3, <4>1, <5>1
      <4> QED  BY <4>1, <4>2 DEF Ahead
    <3> QED  BY <3>1, <3>2, <3>3
  <2>15. /\ Base' = Base /\ opened' = opened /\ pushed' = pushed /\ from' = from
         /\ upto' = upto /\ rpc' = rpc
    BY <1>1, SameTurns
  <2>16. Begun(B)'
    BY <1>1, <2>4, <2>13, <2>14, <2>15 DEF Begun, n
  <2> QED  BY <2>1, <2>16 DEF n
<1> QED  BY <1>2, <1>3 DEF CatInv

LEMMA CatDoneCat ==
    ASSUME IInv, CatInv, CatDone
    PROVE  CatInv'
<1>1. /\ UNCHANGED <<clock, text, mtime, logger, faults, out, from, upto, steady>>
      /\ rpc = "open" /\ rpc' = "cat"
      /\ left = 0 \/ mtime[rfile] = Never
  BY DEF CatDone
<1>2. InTurn'
  BY <1>1, SameTurns DEF CatInv
<1>3. Reading'
  <2> SUFFICES ASSUME starts = 1, faults = 0, steady
               PROVE  \E B \in 1 .. Len(opened) : Begun(B)'
    BY <1>1, SameTurns DEF Reading
  <2>1. PICK B \in 1 .. Len(opened) : Begun(B)
    BY <1>1 DEF CatInv, Reading
  <2>2. ~ Ahead(B)
    <3> SUFFICES ASSUME Ahead(B)  PROVE FALSE
      OBVIOUS
    <3>1. left > 0 /\ Turn(rfile) = B + Files - left
      BY DEF Ahead
    <3>2. left \in 0 .. Files /\ Files \in Nat /\ rfile \in File
      BY HistoryAssumption DEF IInv, TypeOK
    <3>3. Turn(rfile) >= 1
      BY <2>1, <3>1, <3>2
    <3>4. mtime[rfile] # Never
      BY <3>2, <3>3 DEF CatInv, InTurn
    <3> QED  BY <1>1, <3>1, <3>2, <3>4
  <2>3. from + Len(out) - 1 >= upto
    BY <1>1, <2>1, <2>2 DEF Begun, Done
  <2>4. Base' = Base /\ opened' = opened /\ pushed' = pushed
    BY <1>1, SameTurns
  <2>5. Begun(B)'
    BY <1>1, <2>1, <2>3, <2>4 DEF Begun
  <2> QED  BY <2>1, <2>5
<1> QED  BY <1>2, <1>3 DEF CatInv

\* What rlHistoryReader::cat puts out is every line since the oldest of the last
\* Files files was opened, in order, for any number of files and whatever the logger
\* pushes and opens meanwhile: as long as it was never restarted, its files could be
\* opened and the time went forward, and if the reader could tell the times of the
\* files apart and the logger did not open the file that was to be read next.
THEOREM CatCorrect == Spec => []CatComplete
<1>1. IInv /\ CatInv /\ [Next]_vars => CatInv'
  <2> SUFFICES ASSUME IInv, CatInv, [Next]_vars PROVE CatInv'
    OBVIOUS
  <2>1. CASE Stop \/ FirstLine \/ NextLine \/ UNCHANGED vars
    <3>1. /\ UNCHANGED <<clock, text, mtime, current_file, pushed, starts, opened, faults,
                         reader, steady>>
          /\ (running => fout) => (running' => fout')
      BY <2>1 DEF Stop, FirstLine, NextLine, vars, logger
    <3>2. InTurn'
      BY <3>1 DEF CatInv, InTurn, Turn
    <3>3. Reading'
      BY <3>1 DEF CatInv, Reading, Begun, Ahead, Done, Turn, Base, reader
    <3> QED  BY <3>2, <3>3 DEF CatInv
  <2>2. CASE Tick
    <3>1. /\ UNCHANGED <<text, mtime, running, current_file, fout, pushed, starts, opened,
                         faults, reader, steady>>
          /\ clock' = clock + 1 /\ clock \in Nat
      BY <2>2, HistoryAssumption DEF Tick, logger, IInv, TypeOK
    <3>2. starts = 1 /\ faults = 0 => mtime[current_file] \in Int
      BY DEF CatInv, InTurn, IInv, TypeOK, Never
    <3>3. InTurn'
      BY <3>1, <3>2 DEF CatInv, InTurn, Turn
    <3>4. Reading'
      BY <3>1 DEF CatInv, Reading, Begun, Ahead, Done, Turn, Base, reader
    <3> QED  BY <3>3, <3>4 DEF CatInv
  <2>3. CASE TickBack
    <3>1. UNCHANGED <<mtime, logger>> /\ faults' # 0
      BY <2>3 DEF TickBack, Events, IInv, TypeOK
    <3> QED  BY <3>1 DEF logger, CatInv, InTurn, Reading
  <2>4. CASE CatForget
    <3>1. UNCHANGED <<clock, text, mtime, logger, faults>> /\ rpc' = "idle"
      BY <2>4 DEF CatForget
    <3> QED  BY <3>1, SameTurns DEF CatInv, Reading
  <2> QED
    BY <2>1, <2>2, <2>3, <2>4, StartCat, PushCat, CatStartCat, CatFileCat, CatDoneCat
    DEF Next
<1>2. IInv /\ CatInv => CatComplete
  <2> SUFFICES ASSUME IInv, CatInv, rpc = "cat", steady, starts = 1, faults = 0
               PROVE  /\ \A i \in DOMAIN out : out[i] = from + i - 1
                      /\ from + Len(out) - 1 >= upto
    BY DEF CatComplete
  <2>1. DOMAIN out = 1 .. Len(out)
    BY DEF IInv, TypeOK
  <2> QED  BY <2>1 DEF CatInv, Reading, Begun
<1> QED  BY InitCat, <1>1, <1>2, Invariant, PTL DEF Spec
=============================================================================
