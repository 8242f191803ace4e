----------------------------- MODULE Semaphore -----------------------------
(***************************************************************************)
(* The counting semaphore of rllib (rlwthread.cpp, WSEMAPHORE).            *)
(*                                                                         *)
(* On POSIX it is a counter nready guarded by a mutex and a condition      *)
(* variable; on Windows it is the kernel's semaphore with maximum CMax.    *)
(* Every section between pthread_mutex_lock and pthread_mutex_unlock       *)
(* touches only nready and the wait set of the condition variable, so it   *)
(* is one step here.  The module holds state and steps; the components     *)
(* that own a semaphore (Fifo) give the steps to their threads.            *)
(***************************************************************************)
EXTENDS Integers, FiniteSets

CONSTANTS
    Threads,    \* the threads that may use the semaphore
    Win32,      \* TRUE: the RLWIN32THREAD branch, FALSE: the POSIX branch
    CMax        \* the argument cmax of rlwrapinit_semaphore

ASSUME SemaphoreAssumption ==
    /\ IsFiniteSet(Threads)
    /\ Win32 \in BOOLEAN
    /\ CMax \in Nat \ {0}

VARIABLES
    nready,     \* WSEMAPHORE.nready, on Windows the kernel object's count
    sleeping    \* the threads inside pthread_cond_wait

semVars == <<nready, sleeping>>

SemTypeOK ==
    /\ nready \in Nat
    /\ sleeping \in SUBSET Threads

SemInit ==
    /\ nready = 0
    /\ sleeping = {}

----------------------------------------------------------------------------
\* Mutant: the signal is sent to nobody.
NoSignal == UNCHANGED sleeping

\* Who a call of pthread_cond_signal wakes: one of the sleepers, if any.
Signal ==
    \/ /\ sleeping = {}
       /\ UNCHANGED sleeping
    \/ \E t \in sleeping : sleeping' = sleeping \ {t}

\* Mutant: the count is raised only when somebody is asleep.
PosixIncrementForgets ==
    /\ nready' = IF sleeping = {} THEN nready ELSE nready + 1
    /\ IF nready = 0 THEN Signal ELSE UNCHANGED sleeping

\* The POSIX increment signals only when the count was zero.
PosixIncrement ==
    /\ nready' = nready + 1
    /\ IF nready = 0 THEN Signal ELSE UNCHANGED sleeping

\* ReleaseSemaphore refuses to go over the maximum; rlFifo, rlThread and
\* rlSemaphore drop the -1 that reports it.
Win32Increment ==
    /\ nready' = IF nready < CMax THEN nready + 1 ELSE nready
    /\ UNCHANGED sleeping

Increment == IF Win32 THEN Win32Increment ELSE PosixIncrement

\* Mutant: who wakes does not test the count again.
PassUntested(t) ==
    /\ t \notin sleeping
    /\ nready' = nready - 1
    /\ UNCHANGED sleeping

\* A thread passes rlwrapwait_semaphore.
Pass(t) ==
    /\ t \notin sleeping
    /\ nready > 0
    /\ nready' = nready - 1
    /\ UNCHANGED sleeping

\* A thread finds the count at zero and sleeps (on Windows it blocks in the
\* kernel until Pass is possible, which needs no step of its own).
Sleep(t) ==
    /\ ~Win32
    /\ t \notin sleeping
    /\ nready = 0
    /\ sleeping' = sleeping \cup {t}
    /\ UNCHANGED nready

\* pthread_cond_wait may return without a signal; the loop tests again.
SpuriousWakeup(t) ==
    /\ t \in sleeping
    /\ sleeping' = sleeping \ {t}
    /\ UNCHANGED nready
=============================================================================
