--------------------------- MODULE EventLogProofs ---------------------------
(***************************************************************************)
(* Proofs about rlEventLogServer for any ring, readers, files and number   *)
(* of events.                                                              *)
(*                                                                         *)
(* ReadInOrder follows from two facts.  Along the ring every used slot but *)
(* the newest is followed by the next event (RingInOrder); and what a      *)
(* reader got last is not newer than what its slot holds now (Behind): the *)
(* slot may have been overwritten, with a newer event only.  FileOvershoot *)
(* follows from num_events being the length of the open file (FileCounted).*)
(* A step loses events only by opening a full file again (ClosedAreFull:   *)
(* a file that is not open is empty or full).  What a reader misses that   *)
(* starts with -1 follows from the contents of the whole ring (RingFilled) *)
(* and of the part of it that the reader has passed (Followed).            *)
(***************************************************************************)
EXTENDS EventLog, SequenceTheorems, TLAPS

Ring == 0 .. M - 1

\* The newest event is in slot front.
FrontIsNewest ==
    IF front = -1 THEN put = 0 /\ \A i \in Ring : memory[i] = 0
                  ELSE memory[front] = put /\ put > 0

\* The slot after that of an event holds the event put after it.
RingInOrder ==
    \A i \in Ring : i # front /\ memory[i] # 0 => memory[NextSlot(i)] = memory[i] + 1

\* No event is newer than the newest.
NoneNewer == \A i \in Ring : memory[i] <= put

\* A reader is at the slot of the event it got last, or of a newer one.
Behind ==
    \A r \in Readers : got[r] # <<>> =>
        num[r] # -1 /\ got[r][Len(got[r])] <= memory[num[r]]

\* num_events is the number of events in the open file.
FileCounted ==
    IF file = 0 THEN num_events = 0 ELSE Len(files[file]) = num_events

\* num is set by a reader only when there are events.
NumAfterFront == front = -1 => \A r \in Readers : num[r] = -1

RingInv == FrontIsNewest /\ RingInOrder /\ NoneNewer /\ NumAfterFront
FileInv == FileCounted /\ FileOvershoot

IInv == TypeOK /\ RingInv /\ Behind /\ ReadInOrder /\ FileInv

----------------------------------------------------------------------------
LEMMA InitIInv == Init => IInv
<1> SUFFICES ASSUME Init PROVE IInv
  OBVIOUS
<1>1. TypeOK
  BY EventLogAssumption DEF Init, TypeOK, Names, Events
<1>2. RingInv
  BY DEF Init, RingInv, FrontIsNewest, RingInOrder, NoneNewer, NumAfterFront, Ring
<1>3. Behind /\ ReadInOrder
  BY DEF Init, Behind, ReadInOrder
<1>4. FileInv
  BY EventLogAssumption DEF Init, FileInv, FileCounted, FileOvershoot, Names
<1> QED  BY <1>1, <1>2, <1>3, <1>4 DEF IInv

\* What the types say of single slots, positions and events.
LEMMA SlotTypes ==
    ASSUME TypeOK
    PROVE  /\ put \in Nat
           /\ \A i \in Ring : memory[i] \in Nat
           /\ \A r \in Readers : got[r] \in Seq(Events) /\ Len(got[r]) \in Nat
           /\ \A r \in Readers : num[r] # -1 => num[r] \in Ring
           /\ \A r \in Readers : got[r] # <<>> => got[r][Len(got[r])] \in Nat
<1>1. put \in Nat
  BY EventLogAssumption DEF TypeOK
<1>2. \A i \in Ring : memory[i] \in Nat
  <2>1. \A i \in Ring : memory[i] \in Events \cup {0}
    BY DEF TypeOK, Ring
  <2>2. \A e \in Events \cup {0} : e \in Nat
    BY DEF Events
  <2> QED  BY <2>1, <2>2
<1>3. \A r \in Readers : got[r] \in Seq(Events) /\ Len(got[r]) \in Nat
  BY LenProperties DEF TypeOK
<1>4. \A r \in Readers : num[r] # -1 => num[r] \in Ring
  BY DEF TypeOK, Ring
<1>5. \A r \in Readers : got[r] # <<>> => got[r][Len(got[r])] \in Nat
  <2> TAKE r \in Readers
  <2> HAVE got[r] # <<>>
  <2>1. Len(got[r]) \in 1 .. Len(got[r])
    BY <1>3, EmptySeq
  <2>2. got[r][Len(got[r])] \in Events
    BY <1>3, <2>1, ElementOfSeq
  <2> QED  BY <2>2 DEF Events
<1> QED  BY <1>1, <1>2, <1>3, <1>4, <1>5

\* The slot that the next event goes to.
LEMMA FrontMoves ==
    ASSUME TypeOK, Remember
    PROVE  /\ front' \in Ring /\ front' # front
           /\ put' = put + 1 /\ put' \in Events
           /\ \A i \in Ring : memory'[i] = IF i = front' THEN put' ELSE memory[i]
           /\ \A i \in Ring : NextSlot(i) = front' => i = front \/ front = -1
           /\ front # -1 => NextSlot(front) = front'
<1> USE EventLogAssumption DEF Ring
<1>1. front' \in Ring /\ front' # front
  BY DEF TypeOK, Remember
<1>2. put' = put + 1 /\ put' \in Events
  BY DEF TypeOK, Remember, Events
<1>3. \A i \in Ring : memory'[i] = IF i = front' THEN put' ELSE memory[i]
  BY <1>1 DEF TypeOK, Remember
<1>4. \A i \in Ring : NextSlot(i) = front' => i = front \/ front = -1
  <2>1. front \in -1 .. M - 1 /\ front' = IF front + 1 >= M THEN 0 ELSE front + 1
    BY DEF TypeOK, Remember
  <2>2. TAKE i \in Ring
  <2>3. HAVE NextSlot(i) = front'
  <2>4. CASE i + 1 < M
    BY <2>1, <2>3, <2>4 DEF NextSlot
  <2>5. CASE ~(i + 1 < M)
    BY <2>1, <2>3, <2>5 DEF NextSlot
  <2> QED  BY <2>4, <2>5
<1>5. front # -1 => NextSlot(front) = front'
  BY DEF TypeOK, Remember, NextSlot
<1> QED  BY <1>1, <1>2, <1>3, <1>4, <1>5

LEMMA RememberRing ==
    ASSUME TypeOK, RingInv, Remember, num' = num
    PROVE  RingInv'
<1> USE DEF RingInv
<1>1. /\ front' \in Ring /\ front' # front
      /\ put' = put + 1 /\ put \in Nat
      /\ \A i \in Ring : memory'[i] = IF i = front' THEN put' ELSE memory[i]
      /\ \A i \in Ring : memory[i] \in Nat
  BY FrontMoves, SlotTypes
<1>2. FrontIsNewest'
  BY <1>1 DEF FrontIsNewest, Ring
<1>3. NoneNewer'
  BY <1>1 DEF NoneNewer
<1>4. NumAfterFront'
  BY <1>1 DEF NumAfterFront, Ring
<1>5. RingInOrder'
  <2> SUFFICES ASSUME NEW i \in Ring, i # front', memory'[i] # 0
               PROVE  memory'[NextSlot(i)] = memory'[i] + 1
    BY DEF RingInOrder
  <2>1. memory'[i] = memory[i] /\ front # -1
    BY <1>1 DEF FrontIsNewest
  <2>2. NextSlot(i) \in Ring
    BY EventLogAssumption DEF NextSlot, Ring
  <2>3. CASE i = front
    BY <1>1, <2>1, <2>3, FrontMoves DEF FrontIsNewest
  <2>4. CASE i # front
    <3>1. NextSlot(i) # front'
      BY <2>1, <2>4, FrontMoves
    <3> QED  BY <1>1, <2>1, <2>2, <2>4, <3>1 DEF RingInOrder
  <2> QED  BY <2>3, <2>4
<1> QED  BY <1>2, <1>3, <1>4, <1>5

\* Events only ever become newer in their slots.
LEMMA RememberBehind ==
    ASSUME TypeOK, RingInv, Behind, Remember, num' = num, got' = got
    PROVE  Behind'
<1>1. \A i \in Ring : memory[i] <= memory'[i] /\ memory[i] \in Nat /\ memory'[i] \in Nat
  <2>1. /\ put' = put + 1
        /\ \A i \in Ring : memory'[i] = IF i = front' THEN put' ELSE memory[i]
    BY FrontMoves
  <2> QED  BY <2>1, SlotTypes DEF RingInv, NoneNewer
<1>2. \A r \in Readers : got[r] # <<>> =>
        num[r] \in Ring /\ got[r][Len(got[r])] \in Nat
  BY SlotTypes DEF Behind
<1> QED  BY <1>1, <1>2 DEF Behind

\* The files, for any event e.
LEMMA WriteFiles ==
    ASSUME TypeOK, FileInv, NEW e \in Events, WriteToFile(e)
    PROVE  /\ FileInv'
           /\ file' \in Names \cup {0} /\ num_events' \in 0 .. MaxEvents
           /\ files' \in [Names -> Seq(Events)]
<1> DEFINE name == IF file = 0 THEN minute ELSE file
           kept == IF file = 0 THEN <<>> ELSE files[file]
           full == num_events + 1 > MaxEvents
<1>1. /\ name \in Names /\ name # 0
      /\ files' = [files EXCEPT ![name] = Append(kept, e)]
      /\ file' = IF full THEN 0 ELSE name
      /\ num_events' = IF full THEN 0 ELSE num_events + 1
  BY DEF TypeOK, WriteToFile, Names
<1>2. kept \in Seq(Events) /\ Len(kept) = num_events
  BY EmptySeq DEF TypeOK, FileInv, FileCounted
<1>3. num_events \in Nat /\ num_events <= MaxEvents /\ MaxEvents \in Nat
  BY EventLogAssumption DEF TypeOK
<1> HIDE DEF name, kept
<1>4. Append(kept, e) \in Seq(Events) /\ Len(Append(kept, e)) = num_events + 1
  BY <1>2, AppendProperties
<1>5. /\ \A n \in Names : files'[n] = IF n = name THEN Append(kept, e) ELSE files[n]
      /\ files' \in [Names -> Seq(Events)]
  BY <1>1, <1>4 DEF TypeOK
<1>6. FileCounted'
  BY <1>1, <1>4, <1>5 DEF FileCounted
<1>7. FileOvershoot'
  BY <1>3, <1>4, <1>5 DEF FileInv, FileOvershoot
<1> QED  BY <1>1, <1>3, <1>5, <1>6, <1>7 DEF FileInv

----------------------------------------------------------------------------
LEMMA PutIInv ==
    ASSUME IInv, PutEvent \/ PutEventNoFile
    PROVE  IInv'
<1>1. /\ Remember /\ num' = num /\ got' = got
      /\ empty' = empty /\ minute' = minute
  BY DEF PutEvent, PutEventNoFile, WriteToFile, diskVars
<1>2. RingInv' /\ Behind'
  BY <1>1, RememberRing, RememberBehind DEF IInv
<1>3. ReadInOrder'
  BY <1>1 DEF IInv, ReadInOrder
<1>4. /\ FileInv'
      /\ file' \in Names \cup {0} /\ num_events' \in 0 .. MaxEvents
      /\ files' \in [Names -> Seq(Events)]
  <2>1. CASE PutEvent
    <3>1. put + 1 \in Events
      BY <1>1, FrontMoves DEF IInv
    <3> QED  BY <2>1, <3>1, WriteFiles DEF IInv, PutEvent
  <2>2. CASE PutEventNoFile
    BY <2>2 DEF IInv, TypeOK, FileInv, FileCounted, FileOvershoot, PutEventNoFile, diskVars
  <2> QED  BY <2>1, <2>2
<1>5. TypeOK'
  <2>1. put' \in 0 .. MaxPut /\ front' \in -1 .. M - 1
    BY <1>1, FrontMoves, EventLogAssumption DEF IInv, Events, Ring
  <2>2. memory' \in [0 .. M - 1 -> Events \cup {0}]
    BY <1>1, FrontMoves DEF IInv, TypeOK, Remember
  <2>3. undisturbed' \in [Readers -> BOOLEAN]
    BY <1>1 DEF Remember
  <2> QED  BY <1>1, <1>4, <2>1, <2>2, <2>3 DEF IInv, TypeOK
<1> QED  BY <1>2, <1>3, <1>4, <1>5 DEF IInv

\* The position a reader goes on from is in the ring or -1; where there is a
\* next record, that one follows the record the reader is at.
LEMMA NextRecord ==
    ASSUME TypeOK, RingInv, NEW r \in Readers, From(r) # front
    PROVE  /\ From(r) \in Ring \cup {-1} /\ NextSlot(From(r)) \in Ring
           /\ front # -1
           /\ num[r] # -1 /\ memory[num[r]] # 0 =>
                memory[NextSlot(From(r))] = memory[num[r]] + 1
<1> USE EventLogAssumption DEF Ring
<1>1. num[r] \in -1 .. M - 1 /\ front \in -1 .. M - 1
  BY DEF TypeOK
<1>2. From(r) \in Ring \cup {-1} /\ NextSlot(From(r)) \in Ring
  BY <1>1 DEF From, NextSlot
<1>3. front # -1
  BY DEF RingInv, NumAfterFront, From
<1>4. ASSUME num[r] # -1, memory[num[r]] # 0
      PROVE  memory[NextSlot(From(r))] = memory[num[r]] + 1
  <2>1. From(r) = num[r] /\ num[r] \in Ring
    BY <1>1, <1>4 DEF From
  <2> QED  BY <1>4, <2>1 DEF RingInv, RingInOrder
<1> QED  BY <1>2, <1>3, <1>4

LEMMA GetNextIInv ==
    ASSUME IInv, NEW r \in Readers, GetNext(r)
    PROVE  IInv'
<1> DEFINE i == NextSlot(From(r))
           e == memory[i]
<1>0. TypeOK /\ RingInv /\ Behind /\ ReadInOrder /\ FileInv
  BY DEF IInv
<1>1. /\ From(r) # front
      /\ num' = [num EXCEPT ![r] = i]
      /\ got' = IF e = 0 THEN got ELSE [got EXCEPT ![r] = Append(@, e)]
      /\ empty' = [empty EXCEPT ![r] = FALSE]
      /\ UNCHANGED <<memory, front, put, file, num_events, files, minute, undisturbed>>
  BY DEF GetNext, logVars, diskVars
<1>2. /\ i \in Ring /\ front # -1
      /\ num[r] # -1 /\ memory[num[r]] # 0 => e = memory[num[r]] + 1
  BY <1>0, <1>1, NextRecord
<1>3. e \in Events \cup {0} /\ e \in Nat
  BY <1>0, <1>2, SlotTypes DEF TypeOK, Ring
<1> HIDE DEF i, e
<1>4. \A q \in Readers : num'[q] = IF q = r THEN i ELSE num[q]
  BY <1>0, <1>1 DEF TypeOK
<1>5. num' \in [Readers -> -1 .. M - 1]
  BY <1>0, <1>1, <1>2 DEF TypeOK, Ring
<1>6. RingInv' /\ FileInv'
  BY <1>0, <1>1, <1>2
  DEF RingInv, FrontIsNewest, RingInOrder, NoneNewer, NumAfterFront, NextSlot,
      FileInv, FileCounted, FileOvershoot
<1>7. got[r] \in Seq(Events) /\ Len(got[r]) \in Nat
  BY <1>0, SlotTypes
\* What the reader got before is older than what it gets now.
<1>8. got[r] # <<>> => /\ got[r][Len(got[r])] \in Nat
                       /\ e # 0 /\ got[r][Len(got[r])] < e
  <2> SUFFICES ASSUME got[r] # <<>>
               PROVE  /\ got[r][Len(got[r])] \in Nat
                      /\ e # 0 /\ got[r][Len(got[r])] < e
    OBVIOUS
  <2>1. /\ num[r] # -1 /\ num[r] \in Ring
        /\ got[r][Len(got[r])] \in Nat /\ got[r][Len(got[r])] <= memory[num[r]]
    BY <1>0, SlotTypes DEF Behind
  <2>2. got[r][Len(got[r])] \in Events
    <3>1. Len(got[r]) \in 1 .. Len(got[r])
      BY <1>7, EmptySeq
    <3> QED  BY <1>7, <3>1, ElementOfSeq
  <2>3. got[r][Len(got[r])] > 0 /\ memory[num[r]] \in Nat
    BY <1>0, <2>1, <2>2, SlotTypes DEF Events
  <2> QED  BY <1>2, <2>1, <2>3
<1>9. CASE e = 0
  <2>1. got' = got /\ got[r] = <<>>
    BY <1>1, <1>8, <1>9
  <2>2. Behind'
    BY <1>0, <1>1, <1>4, <2>1 DEF Behind
  <2>3. ReadInOrder'
    BY <1>0, <2>1 DEF ReadInOrder
  <2>4. TypeOK'
    BY <1>0, <1>1, <1>5, <2>1 DEF TypeOK
  <2> QED  BY <1>6, <2>2, <2>3, <2>4 DEF IInv
<1>10. CASE e # 0
  <2> DEFINE g == Append(got[r], e)
  <2>1. /\ g \in Seq(Events) /\ Len(g) = Len(got[r]) + 1 /\ g[Len(got[r]) + 1] = e
        /\ \A k \in 1 .. Len(got[r]) : g[k] = got[r][k]
    BY <1>3, <1>7, <1>10, AppendProperties
  <2>2. /\ got' \in [Readers -> Seq(Events)]
        /\ \A q \in Readers : got'[q] = IF q = r THEN g ELSE got[q]
    BY <1>0, <1>1, <1>10, <2>1 DEF TypeOK
  <2> HIDE DEF g
  <2>3. TypeOK'
    BY <1>0, <1>1, <1>5, <2>2 DEF TypeOK
  <2>4. Behind'
    <3>1. i # -1 /\ g[Len(g)] <= memory[i]
      BY <1>2, <1>3, <1>7, <2>1 DEF e, Ring
    <3> QED  BY <1>0, <1>1, <1>4, <2>2, <3>1 DEF Behind
  <2>5. ReadInOrder'
    <3>1. ASSUME NEW k \in 2 .. Len(g) PROVE g[k - 1] < g[k]
      <4>1. CASE k <= Len(got[r])
        BY <1>0, <1>7, <2>1, <3>1, <4>1 DEF ReadInOrder
      <4>2. CASE k = Len(got[r]) + 1
        <5>1. got[r] # <<>> /\ k - 1 = Len(got[r]) /\ Len(got[r]) \in 1 .. Len(got[r])
          BY <1>7, <3>1, <4>2, EmptySeq
        <5> QED  BY <1>8, <2>1, <4>2, <5>1
      <4> QED  BY <1>7, <2>1, <3>1, <4>1, <4>2
    <3> QED  BY <1>0, <2>2, <3>1 DEF ReadInOrder
  <2> QED  BY <1>6, <2>3, <2>4, <2>5 DEF IInv
<1> QED  BY <1>9, <1>10

LEMMA GetNothingIInv ==
    ASSUME IInv, NEW r \in Readers, GetNothing(r)
    PROVE  IInv'
<1>0. TypeOK /\ RingInv /\ Behind /\ ReadInOrder /\ FileInv
  BY DEF IInv
<1>1. PICK m : /\ num' = [num EXCEPT ![r] = m]
               /\ \/ m = From(r) /\ From(r) = front
                  \/ m = 0 /\ From(r) # front /\ From(r) + 1 = M /\ front = 0
  BY DEF GetNothing
<1>2. UNCHANGED <<memory, front, put, file, num_events, files, minute, got, undisturbed>>
  BY DEF GetNothing, logVars, diskVars
<1>3. m = front /\ m \in -1 .. M - 1
  BY <1>0, <1>1 DEF TypeOK
<1>4. \A q \in Readers : num'[q] = IF q = r THEN m ELSE num[q]
  BY <1>0, <1>1 DEF TypeOK
<1>5. TypeOK'
  BY <1>0, <1>1, <1>2, <1>3 DEF TypeOK, GetNothing
<1>6. RingInv' /\ FileInv' /\ ReadInOrder'
  BY <1>0, <1>2, <1>3, <1>4
  DEF RingInv, FrontIsNewest, RingInOrder, NoneNewer, NumAfterFront, NextSlot,
      FileInv, FileCounted, FileOvershoot, ReadInOrder
<1>7. Behind'
  <2> SUFFICES ASSUME NEW q \in Readers, got[q] # <<>>
               PROVE  num'[q] # -1 /\ got[q][Len(got[q])] <= memory[num'[q]]
    BY <1>2 DEF Behind
  <2>1. /\ num[q] # -1 /\ num[q] \in Ring
        /\ got[q][Len(got[q])] \in Nat /\ got[q][Len(got[q])] <= memory[num[q]]
    BY <1>0, SlotTypes DEF Behind
  <2>2. CASE q # r
    BY <1>4, <2>1, <2>2
  <2>3. CASE q = r
    <3>1. front # -1
      BY <1>0, <2>1 DEF RingInv, NumAfterFront
    <3>2. memory[front] = put /\ memory[num[q]] <= put
      BY <1>0, <2>1, <3>1 DEF RingInv, FrontIsNewest, NoneNewer
    <3>3. memory[num[q]] \in Nat /\ put \in Nat
      BY <1>0, <2>1, SlotTypes
    <3> QED  BY <1>3, <1>4, <2>1, <2>3, <3>1, <3>2, <3>3
  <2> QED  BY <2>2, <2>3
<1> QED  BY <1>5, <1>6, <1>7 DEF IInv

LEMMA RestartIInv ==
    ASSUME IInv, NEW r \in Readers, Restart(r)
    PROVE  IInv'
<1>0. TypeOK /\ RingInv /\ Behind /\ ReadInOrder /\ FileInv
  BY DEF IInv
<1>1. /\ num' = [num EXCEPT ![r] = -1] /\ got' = [got EXCEPT ![r] = <<>>]
      /\ UNCHANGED <<memory, front, put, file, num_events, files, minute>>
  BY DEF Restart, logVars, diskVars
<1>2. \A q \in Readers : /\ num'[q] = IF q = r THEN -1 ELSE num[q]
                         /\ got'[q] = IF q = r THEN <<>> ELSE got[q]
  BY <1>0, <1>1 DEF TypeOK
<1>3. TypeOK'
  <2>1. num' \in [Readers -> -1 .. M - 1]
    BY <1>0, <1>1, EventLogAssumption DEF TypeOK
  <2>2. got' \in [Readers -> Seq(Events)]
    BY <1>0, <1>1 DEF TypeOK
  <2> QED  BY <1>0, <1>1, <2>1, <2>2 DEF TypeOK, Restart
<1>4. RingInv' /\ FileInv'
  BY <1>0, <1>1, <1>2
  DEF RingInv, FrontIsNewest, RingInOrder, NoneNewer, NumAfterFront, NextSlot,
      FileInv, FileCounted, FileOvershoot
<1>5. Behind'
  BY <1>0, <1>1, <1>2 DEF Behind
<1>6. ReadInOrder'
  BY <1>0, <1>2 DEF ReadInOrder
<1> QED  BY <1>3, <1>4, <1>5, <1>6 DEF IInv

LEMMA NextIInv == IInv /\ [Next]_vars => IInv'
<1> SUFFICES ASSUME IInv, [Next]_vars PROVE IInv'
  OBVIOUS
<1>1. CASE Tick \/ UNCHANGED vars
  <2>1. /\ UNCHANGED <<memory, front, put, file, num_events, files>>
        /\ UNCHANGED <<num, got, empty, undisturbed>>
    BY <1>1 DEF Tick, vars, logVars, diskVars, readerVars
  <2>2. minute' \in Names
    BY <1>1, EventLogAssumption DEF IInv, TypeOK, Names, Tick, vars, diskVars
  <2>3. TypeOK'
    BY <2>1, <2>2 DEF IInv, TypeOK
  <2>4. RingInv' /\ FileInv' /\ Behind' /\ ReadInOrder'
    BY <2>1
    DEF IInv, RingInv, FrontIsNewest, RingInOrder, NoneNewer, NumAfterFront, NextSlot,
        FileInv, FileCounted, FileOvershoot, Behind, ReadInOrder
  <2> QED  BY <2>3, <2>4 DEF IInv
<1> QED
  BY <1>1, PutIInv, GetNextIInv, GetNothingIInv, RestartIInv DEF Next

\* IInv holds in every reachable state of every event log.
THEOREM Inductive == Spec => []IInv
BY InitIInv, NextIInv, PTL DEF Spec

\* Every variable keeps its type: positions stay inside the ring, num_events
\* below its maximum.
THEOREM TypeCorrect == Spec => []TypeOK
<1>1. IInv => TypeOK  BY DEF IInv
<1> QED  BY <1>1, Inductive, PTL

\* Every reader of every ring gets events in the order of putEvent and none
\* twice, however often the writer overtakes it.
THEOREM OrderKept == Spec => []ReadInOrder
<1>1. IInv => ReadInOrder  BY DEF IInv
<1> QED  BY <1>1, Inductive, PTL

\* No file holds more than max_events + 1 events, whatever files are opened
\* again and whatever fopen fails.
THEOREM OvershootIsOne == Spec => []FileOvershoot
<1>1. IInv => FileOvershoot  BY DEF IInv, FileInv
<1> QED  BY <1>1, Inductive, PTL

----------------------------------------------------------------------------
(* What is lost from the files *)

\* A file that is not open was never opened or was closed when it was full.
ClosedAreFull ==
    \A n \in Names : n # file => Len(files[n]) \in {0, MaxEvents + 1}

\* How putEvent changes the file it writes: the other files stay as they are.
LEMMA FileWritten ==
    ASSUME TypeOK, FileCounted, NEW e \in Events, WriteToFile(e)
    PROVE  \E name \in Names, kept \in Seq(Events) :
             /\ IF file = 0 THEN name = minute /\ kept = <<>>
                            ELSE name = file /\ kept = files[file]
             /\ files' = [files EXCEPT ![name] = Append(kept, e)]
             /\ file' = name \/ Len(Append(kept, e)) = MaxEvents + 1
<1> DEFINE name == IF file = 0 THEN minute ELSE file
           kept == IF file = 0 THEN <<>> ELSE files[file]
<1>1. name \in Names /\ kept \in Seq(Events)
  BY EmptySeq DEF TypeOK, Names
<1>2. files' = [files EXCEPT ![name] = Append(kept, e)]
  BY DEF WriteToFile
<1>3. Len(Append(kept, e)) = num_events + 1
  <2>1. Len(kept) = num_events
    BY EmptySeq DEF FileCounted
  <2> HIDE DEF kept
  <2> QED  BY <1>1, <2>1, AppendProperties
<1>4. file' = name \/ Len(Append(kept, e)) = MaxEvents + 1
  <2>1. num_events \in 0 .. MaxEvents /\ MaxEvents \in Nat
    BY EventLogAssumption DEF TypeOK
  <2>2. num_events + 1 > MaxEvents \/ file' = name
    BY DEF WriteToFile
  <2> HIDE DEF name, kept
  <2> QED  BY <1>3, <2>1, <2>2
<1> QED  BY <1>1, <1>2, <1>4

LEMMA NextClosedAreFull ==
    ASSUME IInv, ClosedAreFull, [Next]_vars
    PROVE  ClosedAreFull'
<1>1. CASE PutEvent
  <2>1. put + 1 \in Events
    BY <1>1, FrontMoves DEF IInv, PutEvent
  <2>2. PICK name \in Names, kept \in Seq(Events) :
          /\ IF file = 0 THEN name = minute /\ kept = <<>>
                         ELSE name = file /\ kept = files[file]
          /\ files' = [files EXCEPT ![name] = Append(kept, put + 1)]
          /\ file' = name \/ Len(Append(kept, put + 1)) = MaxEvents + 1
    BY <1>1, <2>1, FileWritten DEF IInv, FileInv, PutEvent
  <2>3. \A n \in Names : files'[n] = IF n = name THEN Append(kept, put + 1) ELSE files[n]
    BY <2>2 DEF IInv, TypeOK
  <2>4. \A n \in Names : n # name => n # file
    BY <2>2 DEF Names
  <2> QED  BY <2>2, <2>3, <2>4 DEF ClosedAreFull
<1>2. CASE ~PutEvent
  <2>1. file' = file /\ files' = files
    BY <1>2
    DEF Next, PutEventNoFile, GetNothing, GetNext, Restart, Tick, vars, diskVars
  <2> QED  BY <2>1 DEF ClosedAreFull
<1> QED  BY <1>1, <1>2

LEMMA StepLosesByReopening ==
    ASSUME IInv, ClosedAreFull, [Next]_vars, NEW n \in Names
    PROVE  \/ Elements(files[n]) \subseteq Elements(files'[n])
           \/ file = 0 /\ n = minute /\ Len(files[n]) = MaxEvents + 1
<1>1. CASE PutEvent
  <2>1. put + 1 \in Events
    BY <1>1, FrontMoves DEF IInv, PutEvent
  <2>2. PICK name \in Names, kept \in Seq(Events) :
          /\ IF file = 0 THEN name = minute /\ kept = <<>>
                         ELSE name = file /\ kept = files[file]
          /\ files' = [files EXCEPT ![name] = Append(kept, put + 1)]
    BY <1>1, <2>1, FileWritten DEF IInv, FileInv, PutEvent
  <2>3. files'[n] = IF n = name THEN Append(kept, put + 1) ELSE files[n]
    BY <2>2 DEF IInv, TypeOK
  <2>4. CASE n # name
    BY <2>3, <2>4
  <2>5. CASE n = name /\ file # 0
    <3>1. Elements(kept) \subseteq Elements(Append(kept, put + 1))
      BY <2>1, AppendProperties, LenProperties DEF Elements
    <3> QED  BY <2>2, <2>3, <2>5, <3>1
  <2>6. CASE n = name /\ file = 0
    <3>1. n # file /\ n = minute
      BY <2>2, <2>6 DEF Names
    <3>2. Len(files[n]) = 0 => Elements(files[n]) = {}
      BY DEF Elements
    <3> QED  BY <2>6, <3>1, <3>2 DEF ClosedAreFull
  <2> QED  BY <2>4, <2>5, <2>6
<1>2. CASE ~PutEvent
  <2>1. files' = files
    BY <1>2
    DEF Next, PutEventNoFile, GetNothing, GetNext, Restart, Tick, vars, diskVars
  <2> QED  BY <2>1
<1> QED  BY <1>1, <1>2

\* An event leaves the disk only when a full file is opened again within the
\* minute, whatever the sizes and however often fopen fails.
THEOREM NothingElseLost == Spec => LostByReopeningOnly
<1>1. Init => ClosedAreFull
  BY DEF Init, ClosedAreFull
<1>2. IInv /\ ClosedAreFull /\ [Next]_vars => ClosedAreFull'
  BY NextClosedAreFull
<1>3. IInv /\ ClosedAreFull /\ [Next]_vars =>
        [\A n \in Names : Elements(files[n]) \subseteq Elements(files'[n])
           \/ (file = 0 /\ n = minute /\ Len(files[n]) = MaxEvents + 1)]_vars
  BY StepLosesByReopening
<1> QED  BY <1>1, <1>2, <1>3, Inductive, PTL DEF Spec, LostByReopeningOnly

----------------------------------------------------------------------------
(* What a reader that starts with -1 misses *)

\* The events in the ring, counted from the newest backwards.
RingFilled ==
    /\ put - front >= 1
    /\ \A i \in Ring :
         memory[i] = IF i <= front THEN put - front + i
                     ELSE IF put - front + i > M THEN put - front + i - M
                     ELSE 0

\* The slots that a reader at slot n has passed since its num was -1: the ring
\* is followed from front + 1, which is itself left out, and slot 0 is not read
\* when it is the newest.
Passed(j, n) ==
    /\ j # 0 \/ front # 0
    /\ IF n > front THEN front + 1 < j /\ j <= n
                    ELSE front + 1 < j \/ j <= n

\* What it has passed it has got; and it gets NULL at the newest event only.
Followed ==
    \A r \in Readers : undisturbed[r] /\ front # -1 =>
        /\ num[r] # -1 => \A j \in Ring : Passed(j, num[r]) =>
             memory[j] = 0 \/ memory[j] \in Elements(got[r])
        /\ empty[r] => num[r] = front

MissInv == RingFilled /\ Followed

LEMMA InitMiss == Init => MissInv
BY EventLogAssumption DEF Init, MissInv, RingFilled, Followed, Ring

LEMMA RememberMiss ==
    ASSUME TypeOK, MissInv, Remember
    PROVE  MissInv'
<1> USE EventLogAssumption DEF Ring
<1>1. /\ front \in -1 .. M - 1 /\ put \in Nat
      /\ front' = IF front + 1 >= M THEN 0 ELSE front + 1
      /\ put' = put + 1
      /\ \A i \in Ring : memory'[i] = IF i = front' THEN put' ELSE memory[i]
  BY FrontMoves DEF TypeOK, Remember
<1>2. RingFilled'
  <2>1. CASE front + 1 >= M
    BY <1>1, <2>1 DEF MissInv, RingFilled
  <2>2. CASE front + 1 < M
    BY <1>1, <2>2 DEF MissInv, RingFilled
  <2> QED  BY <1>1, <2>1, <2>2
<1>3. Followed'
  BY DEF Followed, Remember
<1> QED  BY <1>2, <1>3 DEF MissInv

\* What a reader keeps when it gets the record of slot i.
LEMMA GetNextMiss ==
    ASSUME IInv, MissInv, NEW r \in Readers, GetNext(r)
    PROVE  MissInv'
<1> USE EventLogAssumption DEF Ring
<1>0. TypeOK /\ RingInv
  BY DEF IInv
<1>1. PICK i : /\ i = NextSlot(From(r)) /\ num' = [num EXCEPT ![r] = i]
               /\ got' = IF memory[i] = 0 THEN got ELSE [got EXCEPT ![r] = Append(@, memory[i])]
               /\ empty' = [empty EXCEPT ![r] = FALSE]
               /\ UNCHANGED <<memory, front, put, undisturbed>>
  BY DEF GetNext, logVars
<1>2. /\ num[r] \in -1 .. M - 1 /\ front \in 0 .. M - 1 /\ i \in Ring
      /\ From(r) # front /\ ~(From(r) + 1 = M /\ front = 0)
  BY <1>0, <1>1, NextRecord DEF TypeOK, GetNext
<1>3. \A q \in Readers : /\ num'[q] = IF q = r THEN i ELSE num[q]
                         /\ empty'[q] = IF q = r THEN FALSE ELSE empty[q]
                         /\ q # r => got'[q] = got[q]
  BY <1>0, <1>1 DEF TypeOK
<1>4. /\ Elements(got[r]) \subseteq Elements(got'[r])
      /\ memory[i] # 0 => memory[i] \in Elements(got'[r])
  <2>1. got[r] \in Seq(Events)
    BY <1>0 DEF TypeOK
  <2>2. CASE memory[i] = 0
    BY <1>1, <2>2
  <2>3. CASE memory[i] # 0
    <3>1. got'[r] = Append(got[r], memory[i])
      BY <1>0, <1>1, <2>3 DEF TypeOK
    <3>2. /\ Len(got'[r]) = Len(got[r]) + 1 /\ Len(got[r]) \in Nat
          /\ got'[r][Len(got[r]) + 1] = memory[i]
          /\ \A k \in 1 .. Len(got[r]) : got'[r][k] = got[r][k]
      BY <2>1, <3>1
    <3> QED  BY <3>2 DEF Elements
  <2> QED  BY <2>2, <2>3
<1>5. ASSUME NEW j \in Ring, Passed(j, i)
      PROVE  j = i \/ (num[r] # -1 /\ Passed(j, num[r]))
  <2>1. CASE num[r] = -1
    BY <1>1, <1>2, <1>5, <2>1 DEF From, NextSlot, Passed
  <2>2. CASE num[r] # -1
    BY <1>1, <1>2, <1>5, <2>2 DEF From, NextSlot, Passed
  <2> QED  BY <2>1, <2>2
<1>6. ASSUME undisturbed[r], NEW j \in Ring, Passed(j, i)
      PROVE  memory[j] = 0 \/ memory[j] \in Elements(got'[r])
  BY <1>2, <1>4, <1>5, <1>6 DEF MissInv, Followed
<1>7. Followed'
  <2> SUFFICES ASSUME NEW q \in Readers, undisturbed[q]
               PROVE  /\ num'[q] # -1 => \A j \in Ring : Passed(j, num'[q]) =>
                           memory[j] = 0 \/ memory[j] \in Elements(got'[q])
                      /\ empty'[q] => num'[q] = front
    BY <1>1 DEF Followed, Passed
  <2>1. CASE q = r
    BY <1>3, <1>6, <2>1
  <2>2. CASE q # r
    <3>1. num'[q] = num[q] /\ empty'[q] = empty[q] /\ got'[q] = got[q]
      BY <1>3, <2>2
    <3>2. front # -1
      BY <1>2
    <3> QED  BY <3>1, <3>2 DEF MissInv, Followed
  <2> QED  BY <2>1, <2>2
<1> QED  BY <1>1, <1>7 DEF MissInv, RingFilled

LEMMA GetNothingMiss ==
    ASSUME IInv, MissInv, NEW r \in Readers, GetNothing(r)
    PROVE  MissInv'
<1> USE EventLogAssumption DEF Ring
<1>1. /\ num[r] \in -1 .. M - 1 /\ front \in -1 .. M - 1
      /\ num \in [Readers -> -1 .. M - 1]
  BY DEF IInv, TypeOK
<1>2. /\ num' = [num EXCEPT ![r] = front]
      /\ From(r) = front \/ (From(r) # front /\ From(r) + 1 = M /\ front = 0)
      /\ empty' = [empty EXCEPT ![r] = TRUE]
      /\ UNCHANGED <<memory, front, put, got, undisturbed>>
  BY <1>1 DEF GetNothing, logVars
<1>3. ASSUME front # -1, NEW j \in Ring, Passed(j, front)
      PROVE  num[r] # -1 /\ Passed(j, num[r])
  <2>1. CASE num[r] = -1
    BY <1>1, <1>2, <1>3, <2>1 DEF From, Passed
  <2>2. CASE num[r] # -1
    BY <1>1, <1>2, <1>3, <2>2 DEF From, Passed
  <2> QED  BY <2>1, <2>2
<1>4. Followed'
  <2> SUFFICES ASSUME NEW q \in Readers, undisturbed[q], front # -1
               PROVE  /\ num'[q] # -1 => \A j \in Ring : Passed(j, num'[q]) =>
                           memory[j] = 0 \/ memory[j] \in Elements(got[q])
                      /\ empty'[q] => num'[q] = front
    BY <1>2 DEF Followed, Passed
  <2>1. CASE q = r
    <3>1. num'[q] = front
      BY <1>1, <1>2, <2>1
    <3> QED  BY <1>3, <2>1, <3>1 DEF MissInv, Followed
  <2>2. CASE q # r
    <3>1. num'[q] = num[q] /\ empty'[q] = empty[q]
      BY <1>1, <1>2, <2>2 DEF IInv, TypeOK
    <3> QED  BY <3>1 DEF MissInv, Followed
  <2> QED  BY <2>1, <2>2
<1> QED  BY <1>2, <1>4 DEF MissInv, RingFilled

LEMMA RestartMiss ==
    ASSUME IInv, MissInv, NEW r \in Readers, Restart(r)
    PROVE  MissInv'
<1>1. /\ \A q \in Readers :
           IF q = r THEN num'[q] = -1 /\ ~empty'[q]
           ELSE /\ num'[q] = num[q] /\ got'[q] = got[q] /\ empty'[q] = empty[q]
                /\ undisturbed'[q] = undisturbed[q]
      /\ UNCHANGED <<memory, front, put>>
  BY DEF Restart, logVars, IInv, TypeOK
<1> QED  BY <1>1 DEF MissInv, RingFilled, Followed, Passed

\* A reader that starts with num = -1 and reads until NULL without a putEvent in
\* between misses the oldest event of the ring and the newest in slot 0 at most.
THEOREM MissesFew == Spec => []MissesTwoAtMost
<1>1. IInv /\ MissInv /\ [Next]_vars => MissInv'
  <2> SUFFICES ASSUME IInv, MissInv, [Next]_vars PROVE MissInv'
    OBVIOUS
  <2>1. CASE Tick \/ UNCHANGED vars
    BY <2>1
    DEF Tick, vars, logVars, readerVars, MissInv, RingFilled, Followed, Passed
  <2>2. CASE PutEvent \/ PutEventNoFile
    BY <2>2, RememberMiss DEF PutEvent, PutEventNoFile, IInv
  <2> QED  BY <2>1, <2>2, GetNextMiss, GetNothingMiss, RestartMiss DEF Next
<1>2. IInv /\ MissInv => MissesTwoAtMost
  <2> SUFFICES ASSUME IInv, MissInv, NEW r \in Readers, empty[r], undisturbed[r],
                      NEW e \in InMemory \ Elements(got[r])
               PROVE  e = put - M + 1 \/ (memory[0] = e /\ front = 0)
    BY DEF MissesTwoAtMost
  <2>1. PICK j \in Ring : memory[j] = e /\ e # 0
    BY DEF InMemory, Ring
  <2>2. front \in -1 .. M - 1 /\ put \in Nat
    BY DEF IInv, TypeOK
  <2>3. front # -1
    BY <2>1 DEF IInv, RingInv, FrontIsNewest
  <2>4. ~Passed(j, front)
    BY <2>1, <2>3 DEF MissInv, Followed
  <2>5. j = front + 1 \/ (j = 0 /\ front = 0)
    BY <2>2, <2>3, <2>4, EventLogAssumption DEF Passed, Ring
  <2>6. j = front + 1 => e = put - M + 1
    BY <2>1, <2>2, EventLogAssumption DEF MissInv, RingFilled, Ring
  <2> QED  BY <2>1, <2>5, <2>6
<1> QED  BY InitMiss, <1>1, <1>2, Inductive, PTL DEF Spec
=============================================================================
