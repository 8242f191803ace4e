-------------------------------- MODULE Fifo --------------------------------
(***************************************************************************)
(* rlFifo (rllib/lib/rlfifo.cpp): a message list under a mutex, and a      *)
(* semaphore that counts the messages for the readers.                     *)
(*                                                                         *)
(* The sections between rlwthread_mutex_lock and _unlock are single steps: *)
(* all that other threads can see of them is the state before and after.   *)
(* What the code does OUTSIDE the mutex are steps of their own: the test   *)
(* against maxmes, the wait before the lock, the increment after the       *)
(* unlock, and poll().                                                     *)
(***************************************************************************)
EXTENDS Semaphore, Sequences

CONSTANTS
    Readers, Writers,   \* the threads that call read/poll, and write
    MaxMes,             \* the constructor's maxmessages, 0: no limit
    Lengths, Buffers,   \* the message lengths, and the readers' buffer sizes
    MaxWrites           \* bound: calls of write() per writer

ASSUME FifoAssumption ==
    /\ Threads = Readers \cup Writers
    /\ MaxMes \in Nat
    /\ Lengths \subseteq Nat
    /\ Buffers \subseteq Nat
    /\ MaxWrites \in Nat

Message  == Writers \X (1 .. MaxWrites) \X Lengths  \* writer, number of its call, length
Length(m) == m[3]
NoResult == <<>>
TooBig   == <<"MESSAGE_TO_BIG">>

VARIABLES
    list,       \* rlFifo.list
    nmes,       \* rlFifo.nmes
    pc,         \* where each thread is: "idle" between calls; in read "wait"
                \* (the semaphore) and "take"; in write "append" and "post"
    maxlen,     \* the buffer size of the call of read in progress
    outgoing,   \* the message of the call of write in progress
    polled,     \* history: the thread calls read because poll() said
                \* DATA_AVAILABLE, and no other reader has moved on since
    result,     \* what the last read of each thread returned
    calls       \* calls of write() made by each writer

fifoVars == <<list, nmes, pc, maxlen, outgoing, polled, result, calls>>
vars == <<fifoVars, semVars>>

At(l) == {t \in Threads : pc[t] = l}

TypeOK ==
    /\ SemTypeOK
    /\ list \in Seq(Message)
    /\ nmes \in Int
    /\ pc \in [Threads -> {"idle", "wait", "take", "append", "post"}]
    /\ maxlen \in [Threads -> Buffers \cup {-1}]
    /\ outgoing \in [Threads -> Message \cup {NoResult}]
    /\ polled \in [Threads -> BOOLEAN]
    /\ result \in [Threads -> Message \cup {TooBig, NoResult}]
    /\ calls \in [Writers -> 0 .. MaxWrites]

Init ==
    /\ SemInit
    /\ list = <<>>
    /\ nmes = 0
    /\ pc = [t \in Threads |-> "idle"]
    /\ maxlen = [t \in Threads |-> -1]
    /\ outgoing = [t \in Threads |-> NoResult]
    /\ polled = [t \in Threads |-> FALSE]
    /\ result = [t \in Threads |-> NoResult]
    /\ calls = [w \in Writers |-> 0]

----------------------------------------------------------------------------
(* read() *)

Goto(t, l) == pc' = [pc EXCEPT ![t] = l]

\* A reader that moves on may get the message that poll() has shown others.
OutdatesPolls == polled' = [u \in Threads |-> FALSE]

\* A thread calls read() with a buffer of n bytes.  It may have called poll()
\* first and found DATA_AVAILABLE (poll looks at nmes without the mutex).
CallRead(t, n, afterPoll) ==
    /\ t \in Readers /\ pc[t] = "idle"
    /\ afterPoll => nmes > 0
    /\ Goto(t, "wait")
    /\ maxlen' = [maxlen EXCEPT ![t] = n]
    /\ polled' = [polled EXCEPT ![t] = afterPoll]
    /\ UNCHANGED <<list, nmes, outgoing, result, calls, semVars>>

\* rlwrapwait_semaphore lets the reader through ...
WaitPasses(t) ==
    /\ pc[t] = "wait"
    /\ Pass(t)
    /\ Goto(t, "take")
    /\ OutdatesPolls
    /\ UNCHANGED <<list, nmes, maxlen, outgoing, result, calls>>

\* ... or puts it to sleep, and back into the loop when it wakes.
WaitSleeps(t) ==
    /\ pc[t] = "wait"
    /\ Sleep(t)
    /\ UNCHANGED fifoVars

WaitWakes(t) == SpuriousWakeup(t) /\ UNCHANGED fifoVars

\* Mutant: read() forgets to give the token of a message it refuses back.
TakeTooBigKeepsToken(t) ==
    /\ pc[t] = "take"
    /\ Length(Head(list)) > maxlen[t]
    /\ result' = [result EXCEPT ![t] = TooBig]
    /\ Goto(t, "idle")
    /\ UNCHANGED <<list, nmes, maxlen, outgoing, polled, calls, semVars>>

\* The oldest message does not fit: it stays, and so does its token.
TakeTooBig(t) ==
    /\ pc[t] = "take"
    /\ Length(Head(list)) > maxlen[t]
    /\ Increment
    /\ result' = [result EXCEPT ![t] = TooBig]
    /\ Goto(t, "idle")
    /\ UNCHANGED <<list, nmes, maxlen, outgoing, polled, calls>>

\* Mutant: read() unlinks the newest message.
TakeNewest(t) ==
    /\ pc[t] = "take"
    /\ list # <<>>
    /\ Length(Head(list)) <= maxlen[t]
    /\ list' = SubSeq(list, 1, Len(list) - 1)
    /\ nmes' = nmes - 1
    /\ result' = [result EXCEPT ![t] = list[Len(list)]]
    /\ Goto(t, "idle")
    /\ OutdatesPolls
    /\ UNCHANGED <<maxlen, outgoing, calls, semVars>>

\* The oldest message is copied out and unlinked.
Take(t) ==
    /\ pc[t] = "take"
    /\ Length(Head(list)) <= maxlen[t]
    /\ list' = Tail(list)
    /\ nmes' = nmes - 1
    /\ result' = [result EXCEPT ![t] = Head(list)]
    /\ Goto(t, "idle")
    /\ OutdatesPolls
    /\ UNCHANGED <<maxlen, outgoing, calls, semVars>>

----------------------------------------------------------------------------
(* write() *)

\* A new call of write(): message number calls[w] + 1 of this writer.
NewCall(w) ==
    /\ w \in Writers /\ pc[w] = "idle"
    /\ calls[w] < MaxWrites
    /\ calls' = [calls EXCEPT ![w] = @ + 1]

\* The limit is tested before the mutex is taken: FIFO_FULL, nothing stored.
WriteFull(w) ==
    /\ NewCall(w)
    /\ MaxMes # 0 /\ nmes >= MaxMes
    /\ UNCHANGED <<list, nmes, pc, maxlen, outgoing, polled, result, semVars>>

\* Mutant: the limit is off by one.
WriteAdmitOneMore(w, n) ==
    /\ NewCall(w)
    /\ MaxMes = 0 \/ nmes <= MaxMes
    /\ outgoing' = [outgoing EXCEPT ![w] = <<w, calls[w] + 1, n>>]
    /\ Goto(w, "append")
    /\ UNCHANGED <<list, nmes, maxlen, polled, result, semVars>>

WriteAdmit(w, n) ==
    /\ NewCall(w)
    /\ MaxMes = 0 \/ nmes < MaxMes
    /\ outgoing' = [outgoing EXCEPT ![w] = <<w, calls[w] + 1, n>>]
    /\ Goto(w, "append")
    /\ UNCHANGED <<list, nmes, maxlen, polled, result, semVars>>

\* Mutant: the semaphore is raised before the message is linked in.
WriteAppendLate(w) ==
    /\ pc[w] = "append"
    /\ Increment
    /\ Goto(w, "post")
    /\ UNCHANGED <<list, nmes, maxlen, outgoing, polled, result, calls>>

\* Under the mutex the message goes to the end of the list.
WriteAppend(w) ==
    /\ pc[w] = "append"
    /\ list' = Append(list, outgoing[w])
    /\ nmes' = nmes + 1
    /\ Goto(w, "post")
    /\ UNCHANGED <<maxlen, outgoing, polled, result, calls, semVars>>

\* The semaphore is raised after the unlock.
WritePost(w) ==
    /\ pc[w] = "post"
    /\ Increment
    /\ Goto(w, "idle")
    /\ outgoing' = [outgoing EXCEPT ![w] = NoResult]
    /\ UNCHANGED <<list, nmes, maxlen, polled, result, calls>>

----------------------------------------------------------------------------
ReadStep(t) ==
    \/ WaitPasses(t)
    \/ WaitSleeps(t)
    \/ TakeTooBig(t)
    \/ Take(t)

WriteStep(w) == WriteAppend(w) \/ WritePost(w)

Next ==
    \/ \E t \in Threads :
        \/ ReadStep(t)
        \/ WriteStep(t)
        \/ WaitWakes(t)
        \/ WriteFull(t)
        \/ \E n \in Lengths : WriteAdmit(t, n)
        \/ \E n \in Buffers, p \in BOOLEAN : CallRead(t, n, p)

Spec == Init /\ [][Next]_vars

\* A thread inside read() or write() keeps running; whether it calls again is
\* its own affair.
Fairness == \A t \in Threads : WF_vars(ReadStep(t)) /\ WF_vars(WriteStep(t))

FairSpec == Spec /\ Fairness

\* A consumer thread that reads in a loop, whatever it gets.
LoopingSpec ==
    /\ FairSpec
    /\ \A t \in Readers : WF_vars(\E n \in Buffers : CallRead(t, n, FALSE))

----------------------------------------------------------------------------
(* Properties *)

\* read() dereferences list without a test: whoever has passed the semaphore
\* must find a message, whatever the other readers and writers do meanwhile.
NoNullHead == At("take") # {} => list # <<>>

\* The count cannot reach the maximum of the Windows semaphore.
CountFits ==
    Win32 => /\ MaxMes # 0
             /\ MaxMes + Cardinality(Writers) - 1 <= CMax

\* Every message has exactly one token: counted in the semaphore, held by a
\* reader on its way to the list, or about to be posted by its writer.  (On
\* Windows only while the count stays below cmax: beyond it the increment
\* fails, nobody looks at its result, and the message is never read.)
TokenPerMessage ==
    CountFits =>
        nready + Cardinality(At("take")) + Cardinality(At("post")) = Len(list)

\* The limit is tested outside the mutex, so several writers may pass it
\* together: it is exceeded by at most the number of other writers.
Overshoot ==
    MaxMes # 0 => Len(list) <= MaxMes + Cardinality(Writers) - 1

\* The users see a sequential queue.
Abstract == INSTANCE FifoSpec WITH queue <- list
AbstractQueue == Abstract!Spec

\* A read() that follows DATA_AVAILABLE gets past the semaphore, unless another
\* reader moves on in between: poll looks at nmes without the mutex, and read
\* waits for a semaphore that is raised later and may wake somebody else.  (With
\* another reader between them it may sleep beside messages for as long as the
\* others keep the semaphore above zero: only the step from zero signals.)
PollPromise ==
    \A t \in Readers : pc[t] = "wait" /\ polled[t] ~> pc[t] = "take" \/ ~polled[t]

\* A consumer that reads in a loop gets every message, even if readers share
\* the fifo and an increment wakes nobody.
AllDelivered ==
    \A w \in Writers, k \in 1 .. MaxWrites, n \in Lengths :
        (\E i \in 1 .. Len(list) : list[i] = <<w, k, n>>)
            ~> (\E t \in Readers : result[t] = <<w, k, n>>)

=============================================================================
