--------------------------- MODULE HistoryLogger ---------------------------
(***************************************************************************)
(* rlHistoryLogger (rllib/lib/rlhistorylogger.cpp), which keeps the newest *)
(* lines in memory and all lines of the last hours in ten files that are   *)
(* used in turn; a thread that walks over the lines in memory; and         *)
(* rlHistoryReader (rlhistoryreader.cpp, the program rlhistory), which     *)
(* puts the files together again, in a process of its own.                 *)
(*                                                                         *)
(* pushLine, firstLine and nextLine run under the mutex of the class and   *)
(* are single steps.  A line is its number.  Files outlive the logger.     *)
(***************************************************************************)
EXTENDS Integers, Sequences

CONSTANTS
    Files,      \* the number of files (10 in the code)
    MaxHours,   \* max_hours_per_file
    MaxLines,   \* max_lines_in_memory
    MaxPush,    \* bound: lines pushed
    MaxClock,   \* bound: the time
    MaxEvents,  \* bound: starts of the logger, files that cannot be opened, and
                \* steps back of the clock
    Misjudged   \* pairs of times <<s, t>> with t < s of which the code says s < t

ASSUME HistoryAssumption ==
    /\ Files \in Nat \ {0}
    /\ MaxHours \in Nat \ {0}
    /\ MaxLines \in Nat \ {0}
    /\ MaxPush \in Nat
    /\ MaxClock \in Nat
    /\ MaxEvents \in Nat
    /\ \A p \in Misjudged : p[1] \in Nat /\ p[2] \in Nat /\ p[2] < p[1]

File == 0 .. Files - 1
Line == 1 .. MaxPush
Never == -1     \* the modification time of a file that does not exist

VARIABLES
    clock,          \* local time
    text,           \* the lines in each file
    mtime,          \* the modification time of each file, or Never
    running,        \* the logger exists
    current_file,   \* the file it writes to
    file_start,     \* file_start_time
    fout,           \* the file is open: fout # NULL
    memory,         \* the list from first_line, newest line first
    cursor,         \* the line current_line points to, 0: NULL
    pushed,         \* lines pushed so far, by every logger
    starts,         \* loggers started so far
    opened,         \* for each openFile() of this logger, the lines pushed before
    faults,         \* history: how often fopen failed or the local time went back
    rpc,            \* the reader: "idle", "open" or "cat"
    rfile,          \* the reader's current_file
    left,           \* files it has still to read
    out,            \* the lines it has put out
    from, upto,     \* the lines that are in the files when it starts
    steady          \* history: the times of the files were comparable, and the
                    \* logger has opened no file that was to be read next

logger == <<running, current_file, file_start, fout, memory, cursor, pushed, starts,
            opened>>
reader == <<rpc, rfile, left, out, from, upto>>
vars == <<clock, text, mtime, logger, faults, reader, steady>>

TypeOK ==
    /\ clock \in 0 .. MaxClock
    /\ text \in [File -> Seq(Line)]
    /\ mtime \in [File -> 0 .. MaxClock \cup {Never}]
    /\ running \in BOOLEAN
    /\ current_file \in File \cup {-1}
    /\ file_start \in 0 .. MaxClock
    /\ fout \in BOOLEAN
    /\ memory \in Seq(Line)
    /\ cursor \in Line \cup {0}
    /\ pushed \in 0 .. MaxPush
    /\ starts \in 0 .. MaxEvents
    /\ opened \in Seq(0 .. MaxPush)
    /\ faults \in 0 .. MaxEvents
    /\ rpc \in {"idle", "open", "cat"}
    /\ rfile \in File
    /\ left \in 0 .. Files
    /\ out \in Seq(Line)
    /\ from \in 0 .. MaxPush + 1
    /\ upto \in 0 .. MaxPush
    /\ steady \in BOOLEAN

Init ==
    /\ clock = 0
    /\ text = [f \in File |-> <<>>]
    /\ mtime = [f \in File |-> Never]
    /\ running = FALSE
    /\ current_file = -1
    /\ file_start = 0
    /\ fout = FALSE
    /\ memory = <<>>
    /\ cursor = 0
    /\ pushed = 0
    /\ starts = 0
    /\ opened = <<>>
    /\ faults = 0
    /\ rpc = "idle"
    /\ rfile = 0
    /\ left = 0
    /\ out = <<>>
    /\ from = 0
    /\ upto = 0
    /\ steady = FALSE

----------------------------------------------------------------------------
(* rlTime and openFile() *)

\* operator<, which tests the fields of the difference one by one: it is right
\* when s < t, but a month that is smaller makes a later time the smaller one
\* (January after December).
Less(s, t) == s < t \/ <<s, t>> \in Misjudged

\* The local time has a fraction of a second that decides when the times are
\* equal; the time of a file has none.
BeforeNow(t, later) == Less(t, clock) \/ (t = clock /\ later)

Older(later) == {f \in File : mtime[f] # Never /\ BeforeNow(mtime[f], later)}

LastOf(S) == IF S = {} THEN 0 ELSE CHOOSE f \in S : \A g \in S : g <= f

\* The loop keeps the last file that is older than now, not the oldest:
\* t_oldest is not updated.  Without any it is file 0.
FirstFile(later) == LastOf(Older(later))

\* Mutant: the last file is not followed by the first.
FileAfterLast(f) == f + 1

NextFile(f) == IF f + 1 >= Files THEN 0 ELSE f + 1

\* The bound on starts and failures.
Events(started, failed) ==
    /\ starts + faults + started + failed <= MaxEvents
    /\ starts' = starts + started
    /\ faults' = faults + failed

----------------------------------------------------------------------------
(* The logger *)

\* The constructor; fopen may fail.
Start ==
    /\ ~running
    /\ running' = TRUE
    /\ \E later \in BOOLEAN : current_file' = FirstFile(later)
    /\ fout' \in BOOLEAN
    /\ Events(1, IF fout' THEN 0 ELSE 1)
    /\ text' = IF fout' THEN [text EXCEPT ![current_file'] = <<>>] ELSE text
    /\ mtime' = IF fout' THEN [mtime EXCEPT ![current_file'] = clock] ELSE mtime
    /\ file_start' = clock
    /\ memory' = <<>>
    /\ cursor' = 0
    /\ opened' = <<pushed>>
    /\ steady' = FALSE
    /\ UNCHANGED <<clock, pushed, reader>>

\* The program ends or crashes; every line has been flushed.
Stop ==
    /\ running
    /\ running' = FALSE
    /\ file_start' = 0
    /\ fout' = FALSE
    /\ memory' = <<>>
    /\ cursor' = 0
    /\ UNCHANGED <<clock, text, mtime, current_file, pushed, starts, opened, faults,
                   reader, steady>>

\* Mutant: the tail is cut one line too early.
TrimmedShort(lines) ==
    IF Len(lines) > MaxLines THEN SubSeq(lines, 1, MaxLines) ELSE lines

\* The loop goes MaxLines lines down the list and cuts after that line.
Trimmed(lines) ==
    IF Len(lines) > MaxLines THEN SubSeq(lines, 1, MaxLines + 1) ELSE lines

\* Mutant: the cursor is left where it is.
CursorKept(lines) == cursor

\* Whoever cuts the tail uses current_line for it and leaves it NULL.
CursorAfter(lines) == IF Len(lines) > MaxLines THEN 0 ELSE cursor

\* What is left of the files when those of emptied were opened for writing, and
\* the line went to file f unless that is not open.
Write(emptied, f, line) ==
    [g \in File |->
        LET kept == IF g \in emptied THEN <<>> ELSE text[g]
        IN IF g = f /\ fout' THEN Append(kept, line) ELSE kept]

\* pushLine: the line goes to the front of the list and to the file.  Without an
\* open file the next one is tried, and the next one, emptied, when the hours of
\* the file are over.
PushLine ==
    /\ running
    /\ pushed < MaxPush
    /\ pushed' = pushed + 1
    /\ LET lines == <<pushed + 1>> \o memory
       IN memory' = Trimmed(lines) /\ cursor' = CursorAfter(lines)
    /\ \E later \in BOOLEAN,
          again, turned \in BOOLEAN :      \* what fopen does the first time, and then
         LET file  == IF fout THEN current_file ELSE NextFile(current_file)
             start == IF fout THEN file_start ELSE clock
             turn  == BeforeNow(start + MaxHours, later)
             tried == (IF fout THEN {} ELSE {file}) \cup (IF turn THEN {current_file'} ELSE {})
             emptied == (IF ~fout /\ again THEN {file} ELSE {})
                        \cup (IF turn /\ turned THEN {current_file'} ELSE {})
         IN /\ fout => again
            /\ ~turn => turned
            /\ current_file' = IF turn THEN NextFile(file) ELSE file
            /\ file_start' = IF turn THEN clock ELSE start
            /\ fout' = IF turn THEN turned ELSE again
            /\ Events(0, (IF again THEN 0 ELSE 1) + (IF turned THEN 0 ELSE 1))
            /\ opened' = opened \o (IF fout THEN <<>> ELSE <<pushed>>)
                                \o (IF turn THEN <<pushed>> ELSE <<>>)
            /\ steady' = (steady /\ ~(rpc = "open" /\ left > 0 /\ rfile \in tried))
            /\ text' = Write(emptied, current_file', pushed + 1)
            /\ mtime' = [f \in File |-> IF f \in emptied \/ (f = current_file' /\ fout')
                                       THEN clock ELSE mtime[f]]
    /\ UNCHANGED <<clock, running, reader>>

\* firstLine() and nextLine(), by any thread of the program.
FirstLine ==
    /\ running
    /\ memory # <<>>
    /\ cursor' = memory[1]
    /\ UNCHANGED <<clock, text, mtime, running, current_file, file_start, fout,
                   memory, pushed, starts, opened, faults, reader, steady>>

Successor(line) ==
    IF \E i \in 1 .. Len(memory) - 1 : memory[i] = line
    THEN memory[(CHOOSE i \in 1 .. Len(memory) - 1 : memory[i] = line) + 1]
    ELSE 0

NextLine ==
    /\ running
    /\ cursor # 0
    /\ cursor' = Successor(cursor)
    /\ UNCHANGED <<clock, text, mtime, running, current_file, file_start, fout,
                   memory, pushed, starts, opened, faults, reader, steady>>

Tick ==
    /\ clock < MaxClock
    /\ clock' = clock + 1
    /\ UNCHANGED <<text, mtime, logger, faults, reader, steady>>

\* Summer time ends, or the clock is set.
TickBack ==
    /\ clock > 0
    /\ clock' = clock - 1
    /\ Events(0, 1)
    /\ UNCHANGED <<text, mtime, logger, reader, steady>>

----------------------------------------------------------------------------
(* rlHistoryReader::cat *)

\* What the files must hold: the lines since this logger opened the oldest of
\* its last Files files.
OldestKept ==
    IF Len(opened) <= Files THEN opened[1] ELSE opened[Len(opened) - Files + 1]

\* Mutant: the search for the oldest file is the logger's.
LastOlder(f, later) == f = FirstFile(later)

\* The search takes a file that is older than the one taken before it, and ends
\* with f.  (best is the set of the files taken.)
OldestFile(f, later) ==
    \E best \in SUBSET {g \in File : mtime[g] # Never} :
        /\ \A g \in File : mtime[g] # Never =>
             LET before == {h \in best : h < g}
             IN g \in best <=> IF before = {} THEN BeforeNow(mtime[g], later)
                                ELSE Less(mtime[g], mtime[LastOf(before)])
        /\ f = LastOf(best)

\* No two files were written to in the same second, or in different years.
Comparable ==
    \A f, g \in File :
        /\ <<mtime[f], mtime[g]>> \notin Misjudged
        /\ f # g /\ mtime[f] # Never => mtime[f] # mtime[g]

CatStart ==
    /\ rpc = "idle"
    /\ opened # <<>>
    /\ rpc' = "open"
    /\ rfile' \in File
    /\ \E later \in BOOLEAN : OldestFile(rfile', later)
    /\ left' = Files
    /\ out' = <<>>
    /\ from' = OldestKept + 1
    /\ upto' = pushed
    /\ steady' = Comparable
    /\ UNCHANGED <<clock, text, mtime, logger, faults>>

\* One file is read to its end, and the next is tried.
CatFile ==
    /\ rpc = "open"
    /\ left > 0
    /\ mtime[rfile] # Never
    /\ out' = out \o text[rfile]
    /\ left' = left - 1
    /\ rfile' = IF rfile + 1 >= Files THEN 0 ELSE rfile + 1
    /\ UNCHANGED <<clock, text, mtime, logger, faults, rpc, from, upto, steady>>

\* All files are read, or one does not exist.
CatDone ==
    /\ rpc = "open"
    /\ left = 0 \/ mtime[rfile] = Never
    /\ rpc' = "cat"
    /\ rfile' = 0
    /\ left' = 0
    /\ UNCHANGED <<clock, text, mtime, logger, faults, out, from, upto, steady>>

CatForget ==
    /\ rpc = "cat"
    /\ rpc' = "idle"
    /\ out' = <<>>
    /\ from' = 0
    /\ upto' = 0
    /\ steady' = FALSE
    /\ UNCHANGED <<clock, text, mtime, logger, faults, rfile, left>>

----------------------------------------------------------------------------
Next ==
    \/ Start \/ Stop \/ PushLine \/ FirstLine \/ NextLine \/ Tick \/ TickBack
    \/ CatStart \/ CatFile \/ CatDone \/ CatForget

Spec == Init /\ [][Next]_vars

----------------------------------------------------------------------------
(* Properties *)

LeastOf(a, b) == IF a < b THEN a ELSE b

\* The list holds the newest lines of this logger without a gap, newest
\* first, and one more than the constructor's argument says.
NewestInMemory ==
    running =>
        memory = [i \in 1 .. LeastOf(MaxLines + 1, pushed - opened[1]) |->
                    pushed + 1 - i]

\* current_line is NULL or points to a line of the list, also when lines are
\* pushed and deleted between two calls of nextLine().
CursorAlive == cursor # 0 => \E i \in DOMAIN memory : memory[i] = cursor

\* As long as every file could be opened and the local time went forward, what the
\* reader puts together from the files of a logger that was never restarted is
\* every line, in order, that was pushed since the oldest of the last Files files
\* was opened - while the logger goes on writing and turns to other files, unless
\* the times of the files were not comparable or the logger opened a file in the
\* moment when it was the next to be read.
CatComplete ==
    rpc = "cat" /\ steady /\ starts = 1 /\ faults = 0 =>
        /\ \A i \in DOMAIN out : out[i] = from + i - 1
        /\ from + Len(out) - 1 >= upto

\* openFile() says that it finds the oldest file and opens it for writing: a
\* logger that starts again empties no file but the oldest.
OldestReused ==
    [][starts' > starts =>
         \A f \in File : mtime[f] # Never => mtime[current_file'] <= mtime[f]]_vars
=============================================================================
