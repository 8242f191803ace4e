------------------------------ MODULE EventLog ------------------------------
(***************************************************************************)
(* rlEventLogServer (rllib/lib/rleventlogserver.cpp): the last M events in *)
(* a ring in memory, which readers follow with a position of their own,    *)
(* and all events in files that are renewed when they are full.            *)
(*                                                                         *)
(* putEvent and getEvent hold the mutex from their first to their last     *)
(* line: each call is one step.  An event is its number in the order of    *)
(* the calls of putEvent; 0 is the blank text of an unused slot.           *)
(***************************************************************************)
EXTENDS Integers, Sequences, FiniteSets

CONSTANTS
    Readers,        \* the callers of getEvent, each with its num
    M,              \* rlMAX_MESSAGES
    MaxEvents,      \* max_events, the constructor's second argument
    MaxMinute,      \* bound: minutes that pass
    MaxPut          \* bound: calls of putEvent

ASSUME EventLogAssumption ==
    /\ IsFiniteSet(Readers)
    /\ M \in Nat /\ M >= 2
    /\ MaxEvents \in Nat /\ MaxMinute \in Nat \ {0} /\ MaxPut \in Nat

Events == 1 .. MaxPut
Names  == 1 .. MaxMinute    \* a file is named by the minute it is opened in

VARIABLES
    memory,         \* the ring
    front,          \* the slot of the newest event, -1: none
    num,            \* the argument num of each reader, -1: from the start
    file,           \* the name of the open file, 0: fp == NULL
    num_events,     \* events counted for the open file
    files,          \* the contents of the files
    minute,         \* the time, as far as the file names show it
    put,            \* calls of putEvent
    got,            \* the events each reader has got since its num was -1
    empty,          \* its last call returned NULL
    undisturbed     \* no call of putEvent since its num was -1

logVars == <<memory, front, put>>
diskVars == <<file, num_events, files, minute>>
readerVars == <<num, got, empty, undisturbed>>
vars == <<logVars, diskVars, readerVars>>

TypeOK ==
    /\ memory \in [0 .. M - 1 -> Events \cup {0}]
    /\ front \in -1 .. M - 1
    /\ num \in [Readers -> -1 .. M - 1]
    /\ file \in Names \cup {0}
    /\ num_events \in 0 .. MaxEvents
    /\ files \in [Names -> Seq(Events)]
    /\ minute \in Names
    /\ put \in 0 .. MaxPut
    /\ got \in [Readers -> Seq(Events)]
    /\ empty \in [Readers -> BOOLEAN]
    /\ undisturbed \in [Readers -> BOOLEAN]

Init ==
    /\ memory = [i \in 0 .. M - 1 |-> 0]
    /\ front = -1
    /\ num = [r \in Readers |-> -1]
    /\ file = 0
    /\ num_events = 0
    /\ files = [n \in Names |-> <<>>]
    /\ minute = 1
    /\ put = 0
    /\ got = [r \in Readers |-> <<>>]
    /\ empty = [r \in Readers |-> FALSE]
    /\ undisturbed = [r \in Readers |-> TRUE]

----------------------------------------------------------------------------
(* putEvent *)

\* Mutant: the ring wraps one slot late.
RememberLate ==
    /\ put < MaxPut
    /\ put' = put + 1
    /\ front' = IF front > M - 1 THEN 0 ELSE front + 1
    /\ memory' = [memory EXCEPT ![front'] = put']
    /\ undisturbed' = [r \in Readers |-> FALSE]

\* The event goes into the slot after the newest.
Remember ==
    /\ put < MaxPut
    /\ put' = put + 1
    /\ front' = IF front + 1 >= M THEN 0 ELSE front + 1
    /\ memory' = [memory EXCEPT ![front'] = put']
    /\ undisturbed' = [r \in Readers |-> FALSE]

\* Mutant: the file is opened anew for every event.
WriteReopening(e) ==
    /\ files' = [files EXCEPT ![minute] = <<e>>]
    /\ file' = minute
    /\ num_events' = IF num_events < MaxEvents THEN num_events + 1 ELSE 0
    /\ UNCHANGED minute

\* Mutant: the test for a full file is one too high.
WriteOneMore(e) ==
    LET name == IF file = 0 THEN minute ELSE file
        kept == IF file = 0 THEN <<>> ELSE files[file]
        full == num_events > MaxEvents
    IN  /\ files' = [files EXCEPT ![name] = Append(kept, e)]
        /\ file' = IF full THEN 0 ELSE name
        /\ num_events' = IF full THEN 0 ELSE num_events + 1
        /\ UNCHANGED minute

\* The event goes to the open file; fopen(name, "w") empties one that was
\* closed in the same minute.  A full file is closed.
WriteToFile(e) ==
    LET name == IF file = 0 THEN minute ELSE file
        kept == IF file = 0 THEN <<>> ELSE files[file]
        full == num_events + 1 > MaxEvents
    IN  /\ files' = [files EXCEPT ![name] = Append(kept, e)]
        /\ file' = IF full THEN 0 ELSE name
        /\ num_events' = IF full THEN 0 ELSE num_events + 1
        /\ UNCHANGED minute

PutEvent ==
    /\ Remember
    /\ WriteToFile(put + 1)
    /\ UNCHANGED <<num, got, empty>>

\* The file cannot be opened: the event is in memory only.
PutEventNoFile ==
    /\ file = 0
    /\ Remember
    /\ UNCHANGED <<diskVars, num, got, empty>>

----------------------------------------------------------------------------
(* getEvent *)

\* Mutant: reading everything begins one slot later still.
FromLater(r) ==
    IF num[r] # -1 \/ front = -1 THEN num[r] ELSE (front + 2) % M

\* The position from which reader r goes on; -1 stands for front + 1, and a
\* position that is outside the ring becomes -1 again.
From(r) ==
    IF num[r] # -1 \/ front = -1 THEN num[r]
    ELSE IF front + 1 = M THEN -1 ELSE front + 1

NextSlot(n) == IF n + 1 < M THEN n + 1 ELSE 0

\* The reader is at the newest event, or comes to it when it steps from the
\* last slot to slot 0: NULL.
GetNothing(r) ==
    LET n == From(r)
    IN  /\ \/ n = front /\ num' = [num EXCEPT ![r] = n]
           \/ /\ n # front /\ n + 1 = M /\ front = 0
              /\ num' = [num EXCEPT ![r] = 0]
        /\ empty' = [empty EXCEPT ![r] = TRUE]
        /\ UNCHANGED <<logVars, diskVars, got, undisturbed>>

\* Mutant: the reader does not look where the newest event is.
GetNextPastFront(r) ==
    LET n == From(r)
        i == NextSlot(n)
    IN  /\ front # -1
        /\ num' = [num EXCEPT ![r] = i]
        /\ got' = IF memory[i] = 0 THEN got
                  ELSE [got EXCEPT ![r] = Append(@, memory[i])]
        /\ empty' = [empty EXCEPT ![r] = FALSE]
        /\ UNCHANGED <<logVars, diskVars, undisturbed>>

\* The next record, which may be a blank one.
GetNext(r) ==
    LET n == From(r)
        i == NextSlot(n)
    IN  /\ n # front
        /\ ~(n + 1 = M /\ front = 0)
        /\ num' = [num EXCEPT ![r] = i]
        /\ got' = IF memory[i] = 0 THEN got
                  ELSE [got EXCEPT ![r] = Append(@, memory[i])]
        /\ empty' = [empty EXCEPT ![r] = FALSE]
        /\ UNCHANGED <<logVars, diskVars, undisturbed>>

\* A reader that got NULL may ask for everything again.
Restart(r) ==
    /\ empty[r]
    /\ num' = [num EXCEPT ![r] = -1]
    /\ got' = [got EXCEPT ![r] = <<>>]
    /\ empty' = [empty EXCEPT ![r] = FALSE]
    /\ undisturbed' = [undisturbed EXCEPT ![r] = TRUE]
    /\ UNCHANGED <<logVars, diskVars>>

\* The next minute begins.
Tick ==
    /\ minute < MaxMinute
    /\ minute' = minute + 1
    /\ UNCHANGED <<logVars, file, num_events, files, readerVars>>

Next ==
    \/ PutEvent \/ PutEventNoFile
    \/ \E r \in Readers : GetNothing(r) \/ GetNext(r) \/ Restart(r)
    \/ Tick

Spec == Init /\ [][Next]_vars

----------------------------------------------------------------------------
(* Properties *)

Elements(s) == {s[i] : i \in 1 .. Len(s)}
InMemory == {memory[i] : i \in 0 .. M - 1} \ {0}

\* A reader gets the events in the order they were put, none twice, even when
\* the writer has overtaken it by one lap or several.
ReadInOrder ==
    \A r \in Readers : \A i \in 2 .. Len(got[r]) : got[r][i - 1] < got[r][i]

\* rleventlogserver.h:43, "num = -1 will retrieve all events": a reader that
\* starts with num = -1 and reads until NULL, with no putEvent in between,
\* has got all that are in memory.
RetrievesAll ==
    \A r \in Readers : empty[r] /\ undisturbed[r] => InMemory \subseteq Elements(got[r])

\* What the code does: such a reader misses two events at most, the oldest
\* (num is set to its slot and then moves on) and the one in slot 0.
MissesTwoAtMost ==
    \A r \in Readers : empty[r] /\ undisturbed[r] =>
        \A e \in InMemory \ Elements(got[r]) :
            e = put - M + 1 \/ (memory[0] = e /\ front = 0)

\* A file closes late, after one event more than max_events (the documented
\* maximum, rleventlogserver.h:35), and never later than that.
FileOvershoot == \A n \in Names : Len(files[n]) <= MaxEvents + 1

\* An event leaves the disk only when its file is opened again in the minute
\* in which it was full: events are never lost from the file being written.
LostByReopeningOnly ==
    [][\A n \in Names : Elements(files[n]) \subseteq Elements(files'[n])
         \/ (file = 0 /\ n = minute /\ Len(files[n]) = MaxEvents + 1)]_vars
=============================================================================
