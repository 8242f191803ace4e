----------------------------- MODULE FifoProofs -----------------------------
(***************************************************************************)
(* Proofs about rlFifo for any readers, writers, limits and both branches  *)
(* of the semaphore.                                                       *)
(*                                                                         *)
(* None of NoNullHead, TokenPerMessage and Overshoot is inductive.  A      *)
(* reader finds a message because tokens never outnumber messages          *)
(* (TokenBound), counting the readers on their way to the list and the     *)
(* writers that have not posted yet; the overshoot is bounded because      *)
(* every writer past the test of the limit is counted as if its message    *)
(* were stored already (Admitted).                                         *)
(***************************************************************************)
EXTENDS Fifo, FiniteSetTheorems, SequenceTheorems, TLAPS

\* The counter poll() and write() look at is the length of the list.
NmesIsLen == nmes = Len(list)

\* Threads inside a call have what the call was given.
CallData ==
    \A t \in Threads :
        /\ pc[t] \in {"append", "post"} => t \in Writers
        /\ pc[t] = "append" => outgoing[t] \in Message
        /\ pc[t] \in {"wait", "take"} => maxlen[t] \in Buffers

Tokens == nready + Cardinality(At("take")) + Cardinality(At("post"))

TokenBound == Tokens <= Len(list)

\* A writer past the test of the limit counts as if its message was stored.
Admitted ==
    MaxMes # 0 =>
        Len(list) + Cardinality(At("append")) <= MaxMes + Cardinality(Writers) - 1

IInv ==
    /\ TypeOK
    /\ NmesIsLen
    /\ CallData
    /\ TokenBound
    /\ TokenPerMessage
    /\ Admitted

----------------------------------------------------------------------------
\* The threads at a place of the program are finitely many.
LEMMA FiniteAt ==
    \A l : IsFiniteSet(At(l)) /\ Cardinality(At(l)) \in Nat
BY SemaphoreAssumption, FS_Subset, FS_CardinalityType DEF At

\* A place where a thread is has at least that thread.
LEMMA Occupied ==
    ASSUME NEW t \in Threads
    PROVE  Cardinality(At(pc[t])) > 0
<1>1. t \in At(pc[t])  BY DEF At
<1> QED  BY <1>1, FiniteAt, FS_EmptySet

\* The writers are finitely many.
LEMMA FiniteRoles ==
    IsFiniteSet(Writers) /\ Cardinality(Writers) \in Nat
BY SemaphoreAssumption, FifoAssumption, FS_Subset, FS_CardinalityType

\* A thread that goes from one place to another changes two of the counts.
LEMMA Move ==
    ASSUME pc \in [Threads -> {"idle", "wait", "take", "append", "post"}],
           NEW t \in Threads, NEW a, NEW b, pc[t] = a, a # b, Goto(t, b)
    PROVE  /\ Cardinality(At(a))' = Cardinality(At(a)) - 1
           /\ Cardinality(At(b))' = Cardinality(At(b)) + 1
           /\ \A l : l # a /\ l # b => Cardinality(At(l))' = Cardinality(At(l))
<1>1. pc' = [pc EXCEPT ![t] = b]  BY DEF Goto
<1>2. At(a)' = At(a) \ {t} /\ t \in At(a)  BY <1>1 DEF At
<1>3. At(b)' = At(b) \cup {t} /\ t \notin At(b)  BY <1>1 DEF At
<1>4. \A l : l # a /\ l # b => At(l)' = At(l)  BY <1>1 DEF At
<1>5. Cardinality(At(a))' = Cardinality(At(a)) - 1
  BY <1>2, FiniteAt, FS_RemoveElement
<1>6. Cardinality(At(b))' = Cardinality(At(b)) + 1
  BY <1>3, FiniteAt, FS_AddElement
<1> QED  BY <1>4, <1>5, <1>6

\* No place changes when no thread moves.
LEMMA Stay ==
    ASSUME pc' = pc
    PROVE  \A l : Cardinality(At(l))' = Cardinality(At(l))
<1>1. \A l : At(l)' = At(l)  BY DEF At
<1> QED  BY <1>1

\* What an increment does to the count: one more, unless the Windows
\* semaphore is at its maximum.
LEMMA IncrementEffect ==
    ASSUME SemTypeOK, Increment
    PROVE  /\ nready' \in Nat /\ sleeping' \in SUBSET Threads
           /\ nready' <= nready + 1
           /\ ~(Win32 /\ nready >= CMax) => nready' = nready + 1
BY SemaphoreAssumption
   DEF SemTypeOK, Increment, PosixIncrement, Win32Increment, Signal

\* The lengths after storing and fetching a message.
LEMMA ListLengths ==
    ASSUME list \in Seq(Message)
    PROVE  /\ \A m \in Message : /\ Append(list, m) \in Seq(Message)
                                 /\ Len(Append(list, m)) = Len(list) + 1
           /\ Len(list) \in Nat
           /\ list # <<>> => /\ Tail(list) \in Seq(Message)
                             /\ Len(Tail(list)) = Len(list) - 1
                             /\ Head(list) \in Message
           /\ list = <<>> <=> Len(list) = 0
BY AppendProperties, HeadTailProperties, EmptySeq, LenProperties
----------------------------------------------------------------------------
\* With the count below the Windows maximum every increment counts.
LEMMA IncrementCounts ==
    ASSUME IInv, Increment, CountFits,
           Cardinality(At("take")) + Cardinality(At("post")) > 0
    PROVE  nready' = nready + 1
<1>1. nready < Len(list) /\ nready \in Nat /\ Len(list) \in Nat
  BY FiniteAt, ListLengths DEF IInv, TypeOK, SemTypeOK, TokenBound, Tokens
<1>2. CASE ~Win32
  BY <1>2, IncrementEffect DEF IInv, TypeOK
<1>3. CASE Win32
  <2>1. Len(list) <= CMax
    BY <1>1, <1>3, FiniteAt, FiniteRoles, FifoAssumption, SemaphoreAssumption
    DEF IInv, CountFits, Admitted
  <2> QED  BY <1>1, <2>1, IncrementEffect, SemaphoreAssumption DEF IInv, TypeOK
<1> QED  BY <1>2, <1>3

LEMMA InitIInv == Init => IInv
<1> SUFFICES ASSUME Init PROVE IInv
  OBVIOUS
<1>1. \A l \in {"take", "post", "append"} : At(l) = {}
  BY DEF Init, At
<1>2. \A l \in {"take", "post", "append"} : Cardinality(At(l)) = 0
  BY <1>1, FS_EmptySet
<1>3. Len(list) = 0 /\ list \in Seq(Message)
  BY EmptySeq DEF Init
<1>4. TypeOK
  BY <1>3, FifoAssumption DEF Init, SemInit, TypeOK, SemTypeOK
<1>5. CallData
  BY DEF Init, CallData
<1>6. MaxMes # 0 => 0 <= MaxMes + Cardinality(Writers) - 1
  BY FiniteRoles, FifoAssumption
<1> QED
  BY <1>2, <1>3, <1>4, <1>5, <1>6
  DEF Init, SemInit, IInv, NmesIsLen, TokenBound, Tokens, TokenPerMessage, Admitted

\* A step that moves no token, no message and no writer past the limit.
LEMMA CallReadIInv ==
    ASSUME IInv, NEW t \in Threads, NEW n \in Buffers, NEW p \in BOOLEAN,
           CallRead(t, n, p)
    PROVE  IInv'
<1> USE DEF IInv, TypeOK, SemTypeOK
<1>1. TypeOK'
  BY DEF CallRead, Goto, semVars
<1>2. /\ Cardinality(At("take"))' = Cardinality(At("take"))
      /\ Cardinality(At("post"))' = Cardinality(At("post"))
      /\ Cardinality(At("append"))' = Cardinality(At("append"))
  <2>1. pc[t] = "idle" /\ Goto(t, "wait")
    BY DEF CallRead
  <2>2. pc \in [Threads -> {"idle", "wait", "take", "append", "post"}]
    OBVIOUS
  <2> HIDE DEF IInv, TypeOK
  <2> QED  BY <2>1, <2>2, Move
<1>3. CallData'
  BY DEF CallRead, Goto, CallData
<1> QED
  BY <1>1, <1>2, <1>3
  DEF CallRead, semVars, NmesIsLen, TokenBound, Tokens, TokenPerMessage, Admitted, CountFits

LEMMA WaitPassesIInv ==
    ASSUME IInv, NEW t \in Threads, WaitPasses(t)
    PROVE  IInv'
<1> USE DEF IInv, TypeOK, SemTypeOK
<1>1. TypeOK'
  BY DEF WaitPasses, OutdatesPolls, Pass, Goto
<1>2. /\ Cardinality(At("take"))' = Cardinality(At("take")) + 1
      /\ Cardinality(At("post"))' = Cardinality(At("post"))
      /\ Cardinality(At("append"))' = Cardinality(At("append"))
  <2>1. pc[t] = "wait" /\ Goto(t, "take")
    BY DEF WaitPasses
  <2>2. pc \in [Threads -> {"idle", "wait", "take", "append", "post"}]
    OBVIOUS
  <2> HIDE DEF IInv, TypeOK
  <2> QED  BY <2>1, <2>2, Move
<1>3. CallData'
  BY DEF WaitPasses, Goto, CallData
<1>4. Tokens' = Tokens
  BY <1>2, FiniteAt DEF WaitPasses, Pass, Tokens
<1> QED
  BY <1>1, <1>2, <1>3, <1>4
  DEF WaitPasses, NmesIsLen, TokenBound, Tokens, TokenPerMessage, Admitted, CountFits
\* Only the wait set or the counter of calls changes.
LEMMA StayIInv ==
    ASSUME IInv, pc' = pc, nready' = nready, list' = list, nmes' = nmes,
           maxlen' = maxlen, outgoing' = outgoing, polled' = polled,
           result' = result, sleeping' \in SUBSET Threads,
           calls' \in [Writers -> 0 .. MaxWrites]
    PROVE  IInv'
<1> USE DEF IInv, TypeOK, SemTypeOK
<1>1. \A l : Cardinality(At(l))' = Cardinality(At(l))
  BY Stay
<1>2. CallData'
  BY DEF CallData
<1> QED
  BY <1>1, <1>2 DEF NmesIsLen, TokenBound, Tokens, TokenPerMessage, Admitted, CountFits

LEMMA TakeTooBigIInv ==
    ASSUME IInv, NEW t \in Threads, TakeTooBig(t)
    PROVE  IInv'
<1> USE DEF IInv, TypeOK
<1>1. /\ Cardinality(At("take"))' = Cardinality(At("take")) - 1
      /\ Cardinality(At("post"))' = Cardinality(At("post"))
      /\ Cardinality(At("append"))' = Cardinality(At("append"))
  <2>1. pc[t] = "take" /\ Goto(t, "idle")
    BY DEF TakeTooBig
  <2>2. pc \in [Threads -> {"idle", "wait", "take", "append", "post"}]
    OBVIOUS
  <2> HIDE DEF IInv, TypeOK
  <2> QED  BY <2>1, <2>2, Move
<1>2. Cardinality(At("take")) > 0
  BY Occupied DEF TakeTooBig
<1>3. TypeOK'
  BY IncrementEffect DEF TakeTooBig, Goto, SemTypeOK
<1>4. CallData'
  BY DEF TakeTooBig, Goto, CallData
<1>5. TokenBound'
  BY <1>1, FiniteAt, ListLengths, IncrementEffect
  DEF TakeTooBig, SemTypeOK, TokenBound, Tokens
<1>6. TokenPerMessage'
  <2>1. CountFits => nready' = nready + 1
    BY <1>2, FiniteAt, IncrementCounts DEF TakeTooBig
  <2> QED  BY <1>1, <2>1, FiniteAt DEF TakeTooBig, SemTypeOK, TokenPerMessage, CountFits
<1>7. NmesIsLen' /\ Admitted'
  BY <1>1 DEF TakeTooBig, NmesIsLen, Admitted
<1> QED  BY <1>3, <1>4, <1>5, <1>6, <1>7

LEMMA TakeIInv ==
    ASSUME IInv, NEW t \in Threads, Take(t)
    PROVE  IInv'
<1> USE DEF IInv, TypeOK, SemTypeOK
<1>1. /\ Cardinality(At("take"))' = Cardinality(At("take")) - 1
      /\ Cardinality(At("post"))' = Cardinality(At("post"))
      /\ Cardinality(At("append"))' = Cardinality(At("append"))
  <2>1. pc[t] = "take" /\ Goto(t, "idle")
    BY DEF Take
  <2>2. pc \in [Threads -> {"idle", "wait", "take", "append", "post"}]
    OBVIOUS
  <2> HIDE DEF IInv, TypeOK
  <2> QED  BY <2>1, <2>2, Move
<1>2. list # <<>>
  <2>1. Cardinality(At("take")) > 0
    BY Occupied DEF Take
  <2> QED  BY <2>1, FiniteAt, ListLengths DEF TokenBound, Tokens
<1>3. list' \in Seq(Message) /\ Len(list') = Len(list) - 1 /\ Head(list) \in Message
  BY <1>2, ListLengths DEF Take
<1>4. TypeOK'
  BY <1>3 DEF Take, OutdatesPolls, Goto, semVars
<1>5. CallData'
  BY DEF Take, Goto, CallData
<1>6. NmesIsLen'
  BY <1>3, ListLengths DEF Take, NmesIsLen
<1>7. nready' = nready /\ Len(list) \in Nat
  BY ListLengths DEF Take, semVars
<1>8. TokenBound' /\ TokenPerMessage'
  BY <1>1, <1>3, <1>7, FiniteAt, SMTT(30)
  DEF TokenBound, Tokens, TokenPerMessage, CountFits
<1>9. Admitted'
  BY <1>1, <1>3, <1>7, FiniteAt, FiniteRoles, FifoAssumption DEF Admitted
<1> QED  BY <1>4, <1>5, <1>6, <1>8, <1>9

LEMMA WriteFullIInv ==
    ASSUME IInv, NEW w \in Threads, WriteFull(w)
    PROVE  IInv'
<1>1. calls' \in [Writers -> 0 .. MaxWrites]
  BY FifoAssumption DEF IInv, TypeOK, WriteFull, NewCall
<1> QED  BY <1>1, StayIInv DEF IInv, TypeOK, SemTypeOK, WriteFull, semVars

LEMMA WriteAdmitIInv ==
    ASSUME IInv, NEW w \in Threads, NEW n \in Lengths, WriteAdmit(w, n)
    PROVE  IInv'
<1> USE DEF IInv, TypeOK, SemTypeOK
<1>1. /\ Cardinality(At("take"))' = Cardinality(At("take"))
      /\ Cardinality(At("post"))' = Cardinality(At("post"))
      /\ Cardinality(At("append"))' = Cardinality(At("append")) + 1
  <2>1. pc[w] = "idle" /\ Goto(w, "append")
    BY DEF WriteAdmit, NewCall
  <2>2. pc \in [Threads -> {"idle", "wait", "take", "append", "post"}]
    OBVIOUS
  <2> HIDE DEF IInv, TypeOK
  <2> QED  BY <2>1, <2>2, Move
<1>2. w \in Writers /\ calls[w] + 1 \in 1 .. MaxWrites
  BY FifoAssumption DEF WriteAdmit, NewCall
<1>3. <<w, calls[w] + 1, n>> \in Message
  BY <1>2 DEF Message
<1>4. TypeOK'
  BY <1>2, <1>3 DEF WriteAdmit, NewCall, Goto, semVars
<1>5. CallData'
  BY <1>2, <1>3 DEF WriteAdmit, NewCall, Goto, CallData
<1>6. Admitted'
  <2>1. At("append")' \in SUBSET Writers
    BY <1>5, <1>4 DEF At, CallData
  <2>2. Cardinality(At("append"))' <= Cardinality(Writers)
    BY <2>1, FiniteRoles, FS_Subset
  <2>3. CASE MaxMes = 0  BY <2>3 DEF Admitted
  <2>4. CASE nmes < MaxMes
    <3>1. Len(list') < MaxMes /\ Len(list') \in Nat
      BY <2>4, ListLengths DEF WriteAdmit, NmesIsLen
    <3>2. Cardinality(At("append"))' \in Int
      BY <1>1, FiniteAt
    <3> QED  BY <2>2, <3>1, <3>2, FiniteRoles, FifoAssumption DEF Admitted
  <2> QED  BY <2>3, <2>4 DEF WriteAdmit
<1> QED
  BY <1>1, <1>4, <1>5, <1>6
  DEF WriteAdmit, semVars, NmesIsLen, TokenBound, Tokens, TokenPerMessage, CountFits

LEMMA WriteAppendIInv ==
    ASSUME IInv, NEW w \in Threads, WriteAppend(w)
    PROVE  IInv'
<1> USE DEF IInv, TypeOK, SemTypeOK
<1>1. /\ Cardinality(At("take"))' = Cardinality(At("take"))
      /\ Cardinality(At("post"))' = Cardinality(At("post")) + 1
      /\ Cardinality(At("append"))' = Cardinality(At("append")) - 1
  <2>1. pc[w] = "append" /\ Goto(w, "post")
    BY DEF WriteAppend
  <2>2. pc \in [Threads -> {"idle", "wait", "take", "append", "post"}]
    OBVIOUS
  <2> HIDE DEF IInv, TypeOK
  <2> QED  BY <2>1, <2>2, Move
<1>2. list' \in Seq(Message) /\ Len(list') = Len(list) + 1
  BY ListLengths DEF WriteAppend, CallData
<1>3. TypeOK'
  BY <1>2 DEF WriteAppend, Goto, semVars
<1>4. CallData'
  BY DEF WriteAppend, Goto, CallData
<1>5. nready' = nready /\ nmes' = nmes + 1 /\ Len(list) \in Nat
  BY ListLengths DEF WriteAppend, semVars
<1>6. NmesIsLen'
  BY <1>2, <1>5 DEF NmesIsLen
<1>7. TokenBound' /\ TokenPerMessage'
  <2>1. /\ nready \in Nat
        /\ Cardinality(At("take")) \in Nat
        /\ Cardinality(At("post")) \in Nat
    BY FiniteAt
  <2>2. TokenBound'
    BY <1>1, <1>2, <1>5, <2>1 DEF TokenBound, Tokens
  <2>3. TokenPerMessage'
    <3>1. TokenPerMessage /\ (CountFits' <=> CountFits)
      BY DEF CountFits
    <3> HIDE DEF IInv, TypeOK
    <3> QED  BY <1>1, <1>2, <1>5, <2>1, <3>1 DEF TokenPerMessage
  <2> QED  BY <2>2, <2>3
<1>8. Admitted'
  BY <1>1, <1>2, <1>5, FiniteAt, FiniteRoles, FifoAssumption DEF Admitted
<1> QED  BY <1>3, <1>4, <1>6, <1>7, <1>8

LEMMA WritePostIInv ==
    ASSUME IInv, NEW w \in Threads, WritePost(w)
    PROVE  IInv'
<1> USE DEF IInv, TypeOK
<1>1. /\ Cardinality(At("take"))' = Cardinality(At("take"))
      /\ Cardinality(At("post"))' = Cardinality(At("post")) - 1
      /\ Cardinality(At("append"))' = Cardinality(At("append"))
  <2>1. pc[w] = "post" /\ Goto(w, "idle")
    BY DEF WritePost
  <2>2. pc \in [Threads -> {"idle", "wait", "take", "append", "post"}]
    OBVIOUS
  <2> HIDE DEF IInv, TypeOK
  <2> QED  BY <2>1, <2>2, Move
<1>2. Cardinality(At("post")) > 0
  BY Occupied DEF WritePost
<1>3. TypeOK'
  BY IncrementEffect DEF WritePost, Goto, SemTypeOK
<1>4. CallData'
  BY DEF WritePost, Goto, CallData
<1>5. TokenBound'
  BY <1>1, FiniteAt, ListLengths, IncrementEffect
  DEF WritePost, SemTypeOK, TokenBound, Tokens
<1>6. TokenPerMessage'
  <2>1. CountFits => nready' = nready + 1
    BY <1>2, FiniteAt, IncrementCounts DEF WritePost
  <2> QED  BY <1>1, <2>1, FiniteAt DEF WritePost, SemTypeOK, TokenPerMessage, CountFits
<1>7. NmesIsLen' /\ Admitted'
  BY <1>1 DEF WritePost, NmesIsLen, Admitted
<1> QED  BY <1>3, <1>4, <1>5, <1>6, <1>7

LEMMA NextIInv == IInv /\ [Next]_vars => IInv'
<1> SUFFICES ASSUME IInv, [Next]_vars PROVE IInv'
  OBVIOUS
<1>1. ASSUME NEW t \in Threads, NEW n \in Buffers, NEW p \in BOOLEAN, CallRead(t, n, p)
      PROVE  IInv'
  BY <1>1, CallReadIInv
<1>2. ASSUME NEW t \in Threads, WaitPasses(t) PROVE IInv'
  BY <1>2, WaitPassesIInv
<1>3. ASSUME NEW t \in Threads, WaitSleeps(t) \/ WaitWakes(t) PROVE IInv'
  BY <1>3, StayIInv
  DEF IInv, TypeOK, SemTypeOK, WaitSleeps, WaitWakes, Sleep, SpuriousWakeup, fifoVars
<1>4. ASSUME NEW t \in Threads, TakeTooBig(t) PROVE IInv'
  BY <1>4, TakeTooBigIInv
<1>5. ASSUME NEW t \in Threads, Take(t) PROVE IInv'
  BY <1>5, TakeIInv
<1>6. ASSUME NEW w \in Threads, WriteFull(w) PROVE IInv'
  BY <1>6, WriteFullIInv
<1>7. ASSUME NEW w \in Threads, NEW n \in Lengths, WriteAdmit(w, n) PROVE IInv'
  BY <1>7, WriteAdmitIInv
<1>8. ASSUME NEW w \in Threads, WriteStep(w) PROVE IInv'
  BY <1>8, WriteAppendIInv, WritePostIInv DEF WriteStep
<1>9. CASE UNCHANGED vars
  BY <1>9, StayIInv DEF IInv, TypeOK, SemTypeOK, vars, fifoVars, semVars
<1> QED
  BY <1>1, <1>2, <1>3, <1>4, <1>5, <1>6, <1>7, <1>8, <1>9 DEF Next, ReadStep

\* IInv holds in every reachable state of every fifo.
THEOREM Inductive == Spec => []IInv
BY InitIInv, NextIInv, PTL DEF Spec

\* Every variable keeps its type.
THEOREM TypeCorrect == Spec => []TypeOK
<1>1. IInv => TypeOK  BY DEF IInv
<1> QED  BY <1>1, Inductive, PTL

LEMMA TakerFindsMessage == IInv => NoNullHead
<1> SUFFICES ASSUME IInv, At("take") # {} PROVE list # <<>>
  BY DEF NoNullHead
<1>1. Cardinality(At("take")) > 0
  BY FiniteAt, FS_EmptySet
<1> QED
  BY <1>1, FiniteAt, ListLengths DEF IInv, TypeOK, SemTypeOK, TokenBound, Tokens

\* No reader ever dereferences an empty list (rlfifo.cpp:61), whatever the
\* number of readers, and even when Windows loses an increment.
THEOREM ReadFindsMessage == Spec => []NoNullHead
BY TakerFindsMessage, Inductive, PTL

\* Tokens and messages agree as long as the count stays below cmax.
THEOREM TokensMatch == Spec => []TokenPerMessage
<1>1. IInv => TokenPerMessage  BY DEF IInv
<1> QED  BY <1>1, Inductive, PTL

LEMMA AdmittedBoundsList == IInv => Overshoot
BY FiniteAt, FiniteRoles, ListLengths, FifoAssumption
DEF IInv, TypeOK, Admitted, Overshoot

\* maxmes is exceeded by at most the number of the other writers.
THEOREM BoundedOvershoot == Spec => []Overshoot
BY AdmittedBoundsList, Inductive, PTL
----------------------------------------------------------------------------
\* Each step of the fifo is a step of the sequential queue, or changes
\* neither the queue nor a result.
LEMMA StepRefines == IInv /\ [Next]_vars => [Abstract!Next]_<<list, result>>
<1> SUFFICES ASSUME IInv, [Next]_vars PROVE [Abstract!Next]_<<list, result>>
  OBVIOUS
<1>1. ASSUME NEW t \in Threads, TakeTooBig(t) PROVE Abstract!Refuse(t)
  <2>1. list # <<>>
    BY <1>1, TakerFindsMessage DEF TakeTooBig, NoNullHead, At
  <2> QED  BY <1>1, <2>1 DEF TakeTooBig, Abstract!Refuse
<1>2. ASSUME NEW t \in Threads, Take(t) PROVE Abstract!Fetch(t)
  <2>1. list # <<>>
    BY <1>2, TakerFindsMessage DEF Take, NoNullHead, At
  <2> QED  BY <1>2, <2>1 DEF Take, Abstract!Fetch
<1>3. ASSUME NEW w \in Threads, WriteAppend(w) PROVE Abstract!Store
  <2>1. outgoing[w] \in Message
    BY <1>3 DEF IInv, CallData, WriteAppend
  <2> QED  BY <1>3, <2>1 DEF WriteAppend, Abstract!Store
<1>4. ASSUME NEW t \in Threads, WaitPasses(t) \/ WaitSleeps(t) \/ WaitWakes(t)
      PROVE  UNCHANGED <<list, result>>
  BY <1>4 DEF WaitPasses, WaitSleeps, WaitWakes, fifoVars
<1>5. ASSUME NEW w \in Threads, WritePost(w) \/ WriteFull(w)
      PROVE  UNCHANGED <<list, result>>
  BY <1>5 DEF WritePost, WriteFull
<1>6. ASSUME NEW w \in Threads, NEW n \in Lengths, WriteAdmit(w, n)
      PROVE  UNCHANGED <<list, result>>
  BY <1>6 DEF WriteAdmit
<1>7. ASSUME NEW t \in Threads, NEW n \in Buffers, NEW p \in BOOLEAN, CallRead(t, n, p)
      PROVE  UNCHANGED <<list, result>>
  BY <1>7 DEF CallRead
<1>8. CASE UNCHANGED vars
  BY <1>8 DEF vars, fifoVars
<1> QED
  BY <1>1, <1>2, <1>3, <1>4, <1>5, <1>6, <1>7, <1>8
  DEF Next, ReadStep, WriteStep, Abstract!Next

\* rlFifo implements the sequential queue of FifoSpec: messages are read in
\* the order they were stored, each once, and none from an empty fifo.
THEOREM ImplementsQueue == Spec => AbstractQueue
<1>1. Init => Abstract!Init
  BY DEF Init, Abstract!Init
<1> QED
  BY <1>1, StepRefines, Inductive, PTL DEF Spec, AbstractQueue, Abstract!Spec
=============================================================================
