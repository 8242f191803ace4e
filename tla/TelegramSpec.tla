---------------------------- MODULE TelegramSpec ----------------------------
(***************************************************************************)
(* What rl3964R promises to its users: telegrams are handed to the         *)
(* partner's callback unchanged, in the order of the calls of write(), at  *)
(* most once and only while write() runs.  A write() that reports success  *)
(* has delivered; one that reports an error may have delivered or not.     *)
(***************************************************************************)
EXTENDS Integers, Sequences

CONSTANT Stations

VARIABLES
    offered,    \* the number of each station's last telegram
    busy,       \* a call of write() has not returned
    returned,   \* the last call of write() reported success
    delivered   \* the numbers handed to the partner's callback

vars == <<offered, busy, returned, delivered>>

Init ==
    /\ offered = [s \in Stations |-> 0]
    /\ busy = [s \in Stations |-> FALSE]
    /\ returned = [s \in Stations |-> FALSE]
    /\ delivered = [s \in Stations |-> <<>>]

Last(s) == IF delivered[s] = <<>> THEN 0 ELSE delivered[s][Len(delivered[s])]

Offer(s) ==
    /\ ~busy[s]
    /\ offered' = [offered EXCEPT ![s] = @ + 1]
    /\ busy' = [busy EXCEPT ![s] = TRUE]
    /\ UNCHANGED <<returned, delivered>>

Deliver(s) ==
    /\ busy[s]
    /\ Last(s) < offered[s]
    /\ delivered' = [delivered EXCEPT ![s] = Append(@, offered[s])]
    /\ UNCHANGED <<offered, busy, returned>>

Return(s, success) ==
    /\ busy[s]
    /\ success => Last(s) = offered[s]
    /\ busy' = [busy EXCEPT ![s] = FALSE]
    /\ returned' = [returned EXCEPT ![s] = success]
    /\ UNCHANGED <<offered, delivered>>

Next ==
    \E s \in Stations :
        \/ Offer(s)
        \/ Deliver(s)
        \/ \E success \in BOOLEAN : Return(s, success)

Spec == Init /\ [][Next]_vars
=============================================================================
