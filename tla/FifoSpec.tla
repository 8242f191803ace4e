------------------------------ MODULE FifoSpec ------------------------------
(***************************************************************************)
(* What rlFifo promises its users: messages leave in the order they were   *)
(* stored, each to exactly one read; a read that cannot take the oldest    *)
(* message leaves it where it is; nothing is read from an empty fifo.      *)
(***************************************************************************)
EXTENDS Sequences

CONSTANTS Threads, Message, TooBig, NoResult

VARIABLES
    queue,      \* the stored messages, oldest first
    result      \* what the last read of each thread returned

Init ==
    /\ queue = <<>>
    /\ result = [t \in Threads |-> NoResult]

Store ==
    \E m \in Message :
        /\ queue' = Append(queue, m)
        /\ UNCHANGED result

Fetch(t) ==
    /\ queue # <<>>
    /\ queue' = Tail(queue)
    /\ result' = [result EXCEPT ![t] = Head(queue)]

Refuse(t) ==
    /\ queue # <<>>
    /\ result' = [result EXCEPT ![t] = TooBig]
    /\ UNCHANGED queue

Next ==
    \/ Store
    \/ \E t \in Threads : Fetch(t) \/ Refuse(t)

Spec == Init /\ [][Next]_<<queue, result>>
=============================================================================
