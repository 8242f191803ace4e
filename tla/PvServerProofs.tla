--------------------------- MODULE PvServerProofs ---------------------------
(***************************************************************************)
(* Proofs about the sessions of a pvserver for any number of threads,      *)
(* sockets, addresses and slots, whatever may fail.                        *)
(*                                                                         *)
(* ThreadsCounted is inductive together with TypeOK (which needs it: the   *)
(* count never goes below zero): every step that starts or ends a session  *)
(* moves one thread in or out of Sessions, or moves the accept loop in or  *)
(* out of the places where it has counted a thread that does not run.      *)
(* TypeOK also needs that a thread in a session has a socket (HasSocket),  *)
(* or the entry it makes in the address table would be a wrong one.        *)
(***************************************************************************)
EXTENDS PvServer, FunctionTheorems, FiniteSetTheorems, WellFoundedInduction, TLAPS

\* The threads whose session num_threads counts.
Over     == {"none", "cleanup", "ending"}
Sessions == {t \in Threads : pc[t] \notin Over}

\* The places of the accept loop where it has counted a thread not created.
Counted == {"create", "nocount", "uncount"}

Places == {"none", "start", "count", "pick", "insert", "access", "run",
           "locked", "returned", "fatal", "cleanup", "ending"}

\* ThreadsCounted in these words.
Tally == num_threads = Cardinality(Sessions) + (IF mainpc \in Counted THEN 1 ELSE 0)

\* The accept loop and the threads have the socket they work on.
HasSocket ==
    /\ mainpc \in {"register", "count", "create", "nocount", "nomem"} => accepted \in Sockets
    /\ \A t \in Threads : pc[t] # "none" => sock[t] \in Sockets

IInv == TypeOK /\ HasSocket /\ Tally

----------------------------------------------------------------------------
\* The loops over a table that break find the lowest index they look for.
LEMMA FirstFinds ==
    ASSUME NEW S \in SUBSET Nat, S # {}
    PROVE  First(S) \in S /\ \A j \in S : First(S) <= j
<1> DEFINE R == OpToRel(<, Nat)
<1>1. \E i \in S : \A j \in S : ~ (<<j, i>> \in R)
  <2>1. IsWellFoundedOn(R, Nat)
    BY NatLessThanWellFounded
  <2> HIDE DEF R
  <2> QED  BY <2>1, WFMin
<1>2. \E i \in S : \A j \in S : i <= j
  <2>1. \A i, j \in Nat : j < i => <<j, i>> \in R
    BY DEF OpToRel
  <2>2. \A i, j \in Nat : ~ (j < i) => i <= j
    OBVIOUS
  <2> HIDE DEF R
  <2> QED  BY <1>1, <2>1, <2>2
<1> QED  BY <1>2 DEF First

\* The sessions are finitely many.
LEMMA FiniteSessions == IsFiniteSet(Sessions) /\ Cardinality(Sessions) \in Nat
<1>1. Sessions \in SUBSET Threads  BY DEF Sessions
<1> QED  BY <1>1, PvServerAssumption, FS_Subset, FS_CardinalityType

\* A thread that starts a session is one more.
LEMMA Starts ==
    ASSUME pc \in [Threads -> Places], NEW t \in Threads, NEW l,
           Goto(t, l), pc[t] \in Over, l \notin Over
    PROVE  Cardinality(Sessions)' = Cardinality(Sessions) + 1
<1>1. Sessions' = Sessions \cup {t} /\ t \notin Sessions
  BY DEF Sessions, Goto
<1> QED  BY <1>1, FiniteSessions, FS_AddElement

\* A thread that ends its session is one less.
LEMMA Ends ==
    ASSUME pc \in [Threads -> Places], NEW t \in Threads, NEW l,
           Goto(t, l), pc[t] \notin Over, l \in Over
    PROVE  Cardinality(Sessions)' = Cardinality(Sessions) - 1
<1>1. Sessions' = Sessions \ {t} /\ t \in Sessions
  BY DEF Sessions, Goto
<1> QED  BY <1>1, FiniteSessions, FS_RemoveElement

\* A thread that stays in its session, or out of one, changes nothing.
LEMMA Stays ==
    ASSUME pc \in [Threads -> Places], NEW t \in Threads, NEW l,
           Goto(t, l), pc[t] \in Over <=> l \in Over
    PROVE  Cardinality(Sessions)' = Cardinality(Sessions)
<1>1. Sessions' = Sessions
  BY DEF Sessions, Goto
<1> QED  BY <1>1

\* Nobody moves.
LEMMA NobodyMoves ==
    ASSUME pc' = pc
    PROVE  Cardinality(Sessions)' = Cardinality(Sessions)
<1>1. Sessions' = Sessions
  BY DEF Sessions
<1> QED  BY <1>1

\* What the helpers of the actions leave in the tables is of their type.
LEMMA HelperTypes ==
    ASSUME TypeOK, NEW s
    PROVE  /\ Unregister(s) => clientsocket' \in [Slots -> Sockets \cup {-1}]
           /\ Forget(s) =>
                adrTable' \in [Slots -> [s : Sockets \cup {0},
                                         adr : Addresses \cup {NoAddress}]]
           /\ Close(s) => /\ peer' \in [Sockets -> Addresses \cup {NoAddress}]
                          /\ alive' \in [Sockets -> BOOLEAN]
<1>1. Unregister(s) => clientsocket' \in [Slots -> Sockets \cup {-1}]
  BY DEF TypeOK, Unregister
<1>2. ASSUME Forget(s)
      PROVE  adrTable' \in [Slots -> [s : Sockets \cup {0},
                                      adr : Addresses \cup {NoAddress}]]
  BY <1>2 DEF TypeOK, Forget, Free
<1>3. Close(s) => /\ peer' \in [Sockets -> Addresses \cup {NoAddress}]
                  /\ alive' \in [Sockets -> BOOLEAN]
  BY DEF TypeOK, Close
<1> QED  BY <1>1, <1>2, <1>3

LEMMA InitIInv == Init => IInv
<1> SUFFICES ASSUME Init PROVE IInv
  OBVIOUS
<1>1. TypeOK
  <2>1. 1 \in 1 .. MAX_CLIENTS + 1 /\ 0 \in 0 .. MAX_CLIENTS
    BY PvServerAssumption
  <2>2. NoCounts \in [all : Nat, same : Nat]
    BY DEF NoCounts
  <2>3. Free \in [s : Sockets \cup {0}, adr : Addresses \cup {NoAddress}]
    BY DEF Free
  <2> QED  BY <2>1, <2>2, <2>3 DEF Init, TypeOK
<1>2. Sessions = {}
  BY DEF Init, Sessions, Over
<1>3. Tally
  BY <1>2, FS_EmptySet DEF Init, Tally, Counted
<1>4. HasSocket
  BY DEF Init, HasSocket
<1> QED  BY <1>1, <1>3, <1>4 DEF IInv

\* The steps of the accept loop.
LEMMA MainIInv ==
    ASSUME IInv, \/ AcceptFails \/ MainStep
                 \/ \E s \in Sockets, a \in Addresses : Accept(s, a)
    PROVE  IInv'
<1> USE DEF IInv, scan
<1>0. /\ Cardinality(Sessions) \in Nat
      /\ num_threads \in Nat
      /\ pc \in [Threads -> Places]
  BY FiniteSessions DEF TypeOK, Places
<1>1. ASSUME NEW s \in Sockets, NEW a \in Addresses, Accept(s, a) PROVE IInv'
  <2>1. TypeOK'
    <3>1. met' \in [Threads -> 0 .. MAX_CLIENTS]
      BY <1>1, PvServerAssumption DEF Accept, TypeOK, Capped
    <3> QED  BY <1>1, <3>1 DEF Accept, TypeOK, tables
  <2>2. Tally'
    BY <1>1, NobodyMoves DEF Accept, Tally, Counted, threadVars
  <2>3. HasSocket'
    BY <1>1 DEF Accept, HasSocket, threadVars, mainVars, TypeOK
  <2> QED  BY <2>1, <2>2, <2>3
<1>2. CASE AcceptFails
  <2>1. TypeOK'
    BY <1>2 DEF AcceptFails, TypeOK, tables, threadVars, mainVars, net
  <2>2. Tally'
    BY <1>2, NobodyMoves DEF AcceptFails, Tally, Counted, threadVars, mainVars
  <2>3. HasSocket'
    BY <1>2 DEF AcceptFails, HasSocket, threadVars, mainVars, TypeOK
  <2> QED  BY <2>1, <2>2, <2>3
<1>3. CASE Register
  <2>1. TypeOK'
    BY <1>3 DEF Register, TypeOK, threadVars, net
  <2>2. Tally'
    BY <1>3, NobodyMoves DEF Register, Tally, Counted, threadVars
  <2>3. HasSocket'
    BY <1>3 DEF Register, HasSocket, threadVars, mainVars, TypeOK
  <2> QED  BY <2>1, <2>2, <2>3
<1>4. CASE RegisterFull
  <2>1. TypeOK'
    BY <1>4, HelperTypes DEF RegisterFull, TypeOK, tables, threadVars, mainVars
  <2>2. Tally'
    BY <1>4, NobodyMoves DEF RegisterFull, Tally, Counted, threadVars, mainVars
  <2>3. HasSocket'
    BY <1>4 DEF RegisterFull, HasSocket, threadVars, mainVars, TypeOK
  <2> QED  BY <2>1, <2>2, <2>3
<1>5. CASE Count
  <2>1. TypeOK'
    BY <1>0, <1>5 DEF Count, TypeOK, tables, threadVars, net
  <2>2. Tally'
    BY <1>0, <1>5, NobodyMoves DEF Count, Tally, Counted, threadVars
  <2>3. HasSocket'
    BY <1>5 DEF Count, HasSocket, threadVars, mainVars, TypeOK
  <2> QED  BY <2>1, <2>2, <2>3
<1>6. CASE CountNoMemory
  <2>1. TypeOK'
    BY <1>0, <1>6 DEF CountNoMemory, TypeOK, tables, threadVars, net
  <2>2. Tally'
    BY <1>0, <1>6, NobodyMoves DEF CountNoMemory, Tally, Counted, threadVars
  <2>3. HasSocket'
    BY <1>6 DEF CountNoMemory, HasSocket, threadVars, mainVars, TypeOK
  <2> QED  BY <2>1, <2>2, <2>3
<1>11. CASE TakeBackCount
  <2>1. num_threads = Cardinality(Sessions) + 1
    BY <1>0, <1>11 DEF TakeBackCount, Tally, Counted
  <2>2. TypeOK'
    BY <1>0, <1>11, <2>1 DEF TakeBackCount, TypeOK, tables, threadVars, net
  <2>3. Tally'
    BY <1>0, <1>11, <2>1, NobodyMoves DEF TakeBackCount, Tally, Counted, threadVars
  <2>4. HasSocket'
    BY <1>11 DEF TakeBackCount, HasSocket, threadVars, mainVars, TypeOK
  <2> QED  BY <2>2, <2>3, <2>4
<1>7. CASE DropClient
  <2>1. TypeOK'
    BY <1>7, HelperTypes DEF DropClient, BackToAccept, TypeOK, threadVars
  <2>2. Tally'
    BY <1>7, NobodyMoves DEF DropClient, BackToAccept, Tally, Counted, threadVars
  <2>3. HasSocket'
    BY <1>7 DEF DropClient, BackToAccept, HasSocket, threadVars, mainVars, TypeOK
  <2> QED  BY <2>1, <2>2, <2>3
<1>8. ASSUME NEW t \in Threads, Create(t) PROVE IInv'
  <2>1. TypeOK'
    BY <1>8 DEF Create, BackToAccept, TypeOK, tables, net
  <2>2. Cardinality(Sessions)' = Cardinality(Sessions) + 1
    <3>1. Goto(t, "start") /\ pc[t] \in Over /\ "start" \notin Over
      BY <1>8 DEF Create, Goto, Over
    <3> QED  BY <1>0, <3>1, Starts
  <2>3. Tally'
    BY <1>0, <1>8, <2>2 DEF Create, BackToAccept, Tally, Counted
  <2>4. HasSocket'
    BY <1>8 DEF Create, BackToAccept, HasSocket, threadVars, mainVars, TypeOK
  <2> QED  BY <2>1, <2>3, <2>4
<1>9. CASE CreateFails
  <2>1. TypeOK'
    BY <1>9, HelperTypes DEF CreateFails, TypeOK, threadVars
  <2>2. Tally'
    BY <1>9, NobodyMoves DEF CreateFails, Tally, Counted, threadVars
  <2>3. HasSocket'
    BY <1>9 DEF CreateFails, HasSocket, threadVars, mainVars, TypeOK
  <2> QED  BY <2>1, <2>2, <2>3
<1>10. CASE Uncount
  <2>1. num_threads = Cardinality(Sessions) + 1
    BY <1>0, <1>10 DEF Uncount, Tally, Counted
  <2>2. TypeOK'
    BY <1>0, <1>10, <2>1 DEF Uncount, TypeOK, tables, threadVars, net
  <2>3. Tally'
    BY <1>0, <1>10, <2>1, NobodyMoves DEF Uncount, Tally, Counted, threadVars
  <2>4. HasSocket'
    BY <1>10 DEF Uncount, HasSocket, threadVars, mainVars, TypeOK
  <2> QED  BY <2>2, <2>3, <2>4
<1> QED
  BY <1>1, <1>2, <1>3, <1>4, <1>5, <1>6, <1>7, <1>8, <1>9, <1>10, <1>11 DEF MainStep

\* The steps of a client thread that leave it in its session.
LEMMA SessionIInv ==
    ASSUME IInv, NEW t \in Threads,
           \/ ReadAddress(t) \/ CountEntry(t) \/ CheckLimits(t)
           \/ PickEntry(t) \/ InsertEntry(t)
           \/ CheckAccess(t) \/ NoticeLoss(t)
           \/ AppLock(t) \/ AppUnlock(t) \/ MainReturn(t)
    PROVE  IInv'
<1> USE DEF IInv, ThreadLocal, mainVars, tables, net, scan
<1>0. /\ pc \in [Threads -> Places]
      /\ maxClients \in Nat /\ maxClients <= MAX_CLIENTS
  BY PvServerAssumption DEF TypeOK, Places, maxClients, Limit
<1>1. PICK l \in Places \ Over : pc' = [pc EXCEPT ![t] = l] /\ pc[t] \notin Over
  <2>1. CASE CountEntry(t) \/ PickEntry(t)
    BY <1>0, <2>1 DEF CountEntry, PickEntry, Goto, Places, Over
  <2>2. CASE \/ ReadAddress(t) \/ CheckLimits(t) \/ InsertEntry(t)
             \/ CheckAccess(t) \/ NoticeLoss(t)
             \/ AppLock(t) \/ AppUnlock(t) \/ MainReturn(t)
    BY <2>2
    DEF ReadAddress, CheckLimits, InsertEntry, CheckAccess, NoticeLoss,
        AppLock, AppUnlock, MainReturn, Goto, Places, Over
  <2> QED  BY <2>1, <2>2
<1>2. Cardinality(Sessions)' = Cardinality(Sessions)
  BY <1>0, <1>1, Stays DEF Goto
<1>3. /\ num_threads' = num_threads /\ mainpc' = mainpc
      /\ sock' = sock /\ accepted' = accepted
  BY DEF ReadAddress, CountEntry, CheckLimits, PickEntry, InsertEntry, CheckAccess,
         NoticeLoss, AppLock, AppUnlock, MainReturn
<1>4. Tally' /\ HasSocket' /\ pc' \in [Threads -> Places]
  <2>1. Tally'
    BY <1>2, <1>3 DEF Tally
  <2>2. pc[t] # "none"
    BY <1>1 DEF Over
  <2>3. HasSocket'
    BY <1>0, <1>1, <1>3, <2>2 DEF HasSocket
  <2> QED  BY <1>0, <1>1, <2>1, <2>3
<1> USE DEF Places
<1>5. CASE ReadAddress(t)
  <2>1. met' \in [Threads -> 0 .. MAX_CLIENTS]
    <3>1. Cardinality(Open \ {sock[t]}) \in Nat
      BY PvServerAssumption, FS_Subset, FS_CardinalityType DEF Open
    <3> QED  BY <1>5, <3>1, PvServerAssumption DEF ReadAddress, TypeOK, Capped
  <2> QED  BY <1>4, <1>5, <2>1 DEF ReadAddress, TypeOK
<1>6. CASE NoticeLoss(t) \/ MainReturn(t)
  BY <1>4, <1>6 DEF NoticeLoss, MainReturn, TypeOK
<1>7. CASE PickEntry(t)
  <2>1. index' \in [Threads -> 1 .. MAX_CLIENTS + 1]
    BY <1>0, <1>7, PvServerAssumption DEF PickEntry, TypeOK
  <2> QED  BY <1>4, <1>7, <2>1 DEF PickEntry, TypeOK
<1>8. CASE InsertEntry(t)
  <2>1. adrTable' \in [Slots -> [s : Sockets \cup {0}, adr : Addresses \cup {NoAddress}]]
    BY <1>8 DEF InsertEntry, TypeOK, HasSocket
  <2>2. index' \in [Threads -> 1 .. MAX_CLIENTS + 1]
    BY <1>8, PvServerAssumption DEF InsertEntry, TypeOK
  <2> QED  BY <1>4, <1>8, <2>1, <2>2 DEF InsertEntry, TypeOK
<1>9. CASE CheckAccess(t)
  BY <1>4, <1>9 DEF CheckAccess, TypeOK
<1>10. CASE AppLock(t) \/ AppUnlock(t)
  BY <1>4, <1>10 DEF AppLock, AppUnlock, TypeOK
<1>11. CASE CountEntry(t)
  <2>1. index' \in [Threads -> 1 .. MAX_CLIENTS + 1]
    BY <1>0, <1>11, PvServerAssumption DEF CountEntry, TypeOK
  <2>2. counts' \in [Threads -> [all : Nat, same : Nat]]
    BY <1>11 DEF CountEntry, TypeOK
  <2> QED  BY <1>4, <1>11, <2>1, <2>2 DEF CountEntry, TypeOK
<1>12. CASE CheckLimits(t)
  <2>1. /\ index' \in [Threads -> 1 .. MAX_CLIENTS + 1]
        /\ counts' \in [Threads -> [all : Nat, same : Nat]]
        /\ met' \in [Threads -> 0 .. MAX_CLIENTS]
    BY <1>12, PvServerAssumption DEF CheckLimits, TypeOK, NoCounts
  <2> QED  BY <1>4, <1>12, <2>1 DEF CheckLimits, TypeOK
<1> QED
  BY <1>5, <1>6, <1>7, <1>8, <1>9, <1>10, <1>11, <1>12

\* pvThreadFatal.
LEMMA FatalIInv ==
    ASSUME IInv, NEW t \in Threads, FatalBegin(t) \/ FatalFinish(t) \/ ThreadEnd(t)
    PROVE  IInv'
<1> USE DEF IInv, mainVars, tables, net, scan
<1>0. /\ Cardinality(Sessions) \in Nat
      /\ pc \in [Threads -> Places]
  BY FiniteSessions DEF TypeOK, Places
<1>1. CASE FatalBegin(t)
  <2>1. Goto(t, "cleanup") /\ pc[t] \notin Over /\ "cleanup" \in Over
    BY <1>1 DEF FatalBegin, Over
  <2>2. Cardinality(Sessions)' = Cardinality(Sessions) - 1
    BY <1>0, <2>1, Ends
  <2>3. Cardinality(Sessions) > 0
    <3>1. t \in Sessions
      BY <2>1 DEF Sessions
    <3> QED  BY <1>0, <3>1, FiniteSessions, FS_EmptySet
  <2>4. num_threads' = num_threads - 1 /\ num_threads \in Nat /\ num_threads > 0
    BY <1>0, <1>1, <2>3 DEF FatalBegin, Tally, TypeOK
  <2>5. Tally'
    BY <1>0, <1>1, <2>2, <2>4 DEF FatalBegin, Tally
  <2>6. TypeOK'
    BY <1>1, <2>4 DEF FatalBegin, Goto, TypeOK
  <2>7. HasSocket'
    BY <1>1 DEF FatalBegin, Goto, TypeOK, HasSocket
  <2> QED  BY <2>5, <2>6, <2>7
<1>2. CASE FatalFinish(t)
  <2>1. Goto(t, "ending") /\ (pc[t] \in Over <=> "ending" \in Over)
    BY <1>2 DEF FatalFinish, Over
  <2>2. Cardinality(Sessions)' = Cardinality(Sessions)
    BY <1>0, <2>1, Stays
  <2>3. Tally'
    BY <1>2, <2>2 DEF FatalFinish, Tally
  <2>4. TypeOK'
    BY <1>2, HelperTypes DEF FatalFinish, Goto, TypeOK
  <2>5. HasSocket'
    BY <1>2 DEF FatalFinish, Goto, TypeOK, HasSocket
  <2> QED  BY <2>3, <2>4, <2>5
<1>3. CASE ThreadEnd(t)
  <2>1. Goto(t, "none") /\ (pc[t] \in Over <=> "none" \in Over)
    BY <1>3 DEF ThreadEnd, Over
  <2>2. Cardinality(Sessions)' = Cardinality(Sessions)
    BY <1>0, <2>1, Stays
  <2>3. Tally'
    BY <1>3, <2>2 DEF ThreadEnd, Tally
  <2>4. TypeOK'
    BY <1>3 DEF ThreadEnd, Goto, TypeOK
  <2>5. HasSocket'
    BY <1>3 DEF ThreadEnd, Goto, TypeOK, HasSocket
  <2> QED  BY <2>3, <2>4, <2>5
<1> QED  BY <1>1, <1>2, <1>3

LEMMA NextIInv == IInv /\ [Next]_vars => IInv'
<1> SUFFICES ASSUME IInv, [Next]_vars PROVE IInv'
  OBVIOUS
<1>1. CASE AcceptFails \/ MainStep \/ \E s \in Sockets, a \in Addresses : Accept(s, a)
  BY <1>1, MainIInv
<1>2. ASSUME NEW t \in Threads,
             ThreadStep(t) \/ AppLock(t) \/ AppUnlock(t) \/ MainReturn(t)
      PROVE  IInv'
  BY <1>2, SessionIInv, FatalIInv DEF ThreadStep
<1>3. ASSUME NEW s \in Sockets, Disconnect(s) PROVE IInv'
  <2>1. TypeOK'
    BY <1>3 DEF IInv, TypeOK, Disconnect, mainVars, tables, threadVars, scan
  <2>2. Tally' /\ HasSocket'
    BY <1>3, NobodyMoves DEF IInv, Tally, HasSocket, Disconnect, mainVars, threadVars
  <2> QED  BY <2>1, <2>2 DEF IInv
<1>4. CASE UNCHANGED vars
  <2>1. TypeOK'
    BY <1>4 DEF IInv, TypeOK, vars, mainVars, tables, net, threadVars, scan
  <2>2. Tally' /\ HasSocket'
    BY <1>4, NobodyMoves DEF IInv, Tally, HasSocket, vars, mainVars, threadVars
  <2> QED  BY <2>1, <2>2 DEF IInv
<1> QED  BY <1>1, <1>2, <1>3, <1>4 DEF Next

\* IInv holds in every reachable state of every pvserver.
THEOREM Inductive == Spec => []IInv
BY InitIInv, NextIInv, PTL DEF Spec

\* Every variable keeps its type; in particular num_threads, which
\* pvCreateThread and pvThreadFatal decrement, is never negative.
THEOREM TypeCorrect == Spec => []TypeOK
<1>1. IInv => TypeOK  BY DEF IInv
<1> QED  BY <1>1, Inductive, PTL

\* num_threads is the number of sessions that are not over (plus the one
\* pvCreateThread is about to start) in every interleaving, whichever calls
\* fail: the test for the last client in pvThreadFatal counts right.
THEOREM CountCorrect == Spec => []ThreadsCounted
<1>1. IInv => ThreadsCounted
  BY DEF IInv, Tally, ThreadsCounted, Sessions, Over, Counted
<1> QED  BY <1>1, Inductive, PTL

----------------------------------------------------------------------------
(* Slots and sessions *)

\* The threads that still have their socket.
Active == {t \in Threads : pc[t] \notin {"none", "ending"}}

\* The accept loop has a socket in hand that has a slot, and one that may not.
Registered == mainpc \in {"count", "create", "nocount", "nomem"}
InHand     == Registered \/ (mainpc = "register" /\ ~exited)

\* Sessions do not share sockets, and their sockets are open.
DistinctSockets ==
    /\ \A t, u \in Active : sock[t] = sock[u] => t = u
    /\ \A t \in Active : peer[sock[t]] # NoAddress
    /\ InHand => /\ peer[accepted] # NoAddress
                 /\ \A t \in Active : sock[t] # accepted

\* No socket has two slots.
OneSlot ==
    \A i, j \in Slots : clientsocket[i] = clientsocket[j] /\ clientsocket[i] # -1 => i = j

\* Every session has a slot ...
EverySessionHasSlot ==
    /\ \A t \in Active : \E i \in Slots : clientsocket[i] = sock[t]
    /\ Registered => \E i \in Slots : clientsocket[i] = accepted

\* ... and every slot that is not free a session.
EverySlotHasSession ==
    \A i \in Slots : clientsocket[i] # -1 =>
        \/ \E t \in Active : sock[t] = clientsocket[i]
        \/ Registered /\ accepted = clientsocket[i]

SlotInv ==
    /\ DistinctSockets
    /\ OneSlot
    /\ EverySessionHasSlot
    /\ EverySlotHasSession

\* The loop that frees a slot frees the only one the socket has.
LEMMA UnregisterFrees ==
    ASSUME TypeOK, OneSlot, NEW s \in Sockets, Unregister(s)
    PROVE  /\ clientsocket' \in [Slots -> Sockets \cup {-1}]
           /\ \A i \in Slots :
                clientsocket'[i] = IF clientsocket[i] = s THEN -1 ELSE clientsocket[i]
<1> DEFINE S == {j \in Slots : clientsocket[j] = s}
<1>1. S \in SUBSET Nat /\ 0 \notin S /\ s # -1
  BY PvServerAssumption DEF Slots
<1>2. CASE S = {}
  <2>1. First(S) = 0
    BY <1>2 DEF First
  <2> QED  BY <1>2, <2>1 DEF TypeOK, Unregister
<1>3. CASE S # {}
  <2>1. First(S) \in S
    BY <1>1, <1>3, FirstFinds
  <2>2. clientsocket' = [clientsocket EXCEPT ![First(S)] = -1]
    BY <1>1, <2>1 DEF Unregister
  <2>3. \A i \in S : i = First(S)
    BY <1>1, <2>1 DEF OneSlot
  <2> HIDE DEF S
  <2>4. \A i \in Slots : i \in S <=> clientsocket[i] = s
    BY DEF S
  <2>5. First(S) \in Slots
    BY <2>1 DEF S
  <2> QED  BY <2>1, <2>2, <2>3, <2>4, <2>5 DEF TypeOK
<1> QED  BY <1>2, <1>3

\* The loop that looks for a free slot finds one if it finds anything.
LEMMA FreeSlot ==
    ASSUME NEW i, i = First({j \in Slots : clientsocket[j] = -1}), i # 0
    PROVE  i \in Slots /\ clientsocket[i] = -1
<1> DEFINE S == {j \in Slots : clientsocket[j] = -1}
<1>1. S \in SUBSET Nat
  BY PvServerAssumption DEF Slots
<1>2. S # {}
  BY DEF First
<1>3. First(S) \in S
  BY <1>1, <1>2, FirstFinds
<1> QED  BY <1>3

\* A step that leaves sessions, sockets and slots alone.
LEMMA SlotsUntouched ==
    ASSUME SlotInv, Active' = Active, \A t \in Active : sock'[t] = sock[t],
           clientsocket' = clientsocket, peer' = peer, accepted' = accepted,
           Registered' <=> Registered, InHand' => InHand
    PROVE  SlotInv'
<1>1. DistinctSockets'
  BY DEF SlotInv, DistinctSockets
<1>2. OneSlot'
  BY DEF SlotInv, OneSlot
<1>3. EverySessionHasSlot'
  BY DEF SlotInv, EverySessionHasSlot
<1>4. EverySlotHasSession'
  BY DEF SlotInv, EverySlotHasSession
<1> QED  BY <1>1, <1>2, <1>3, <1>4 DEF SlotInv

\* A step that ends the session of socket s, and frees its slot.
LEMMA SlotGivenBack ==
    ASSUME TypeOK, HasSocket, SlotInv, NEW s \in Sockets, Unregister(s), Close(s),
           Active' \subseteq Active, \A t \in Active : sock'[t] = sock[t],
           \A t \in Active : t \in Active' <=> sock[t] # s,
           InHand' => accepted' = accepted /\ InHand /\ accepted # s,
           Registered /\ accepted # s <=> Registered'
    PROVE  SlotInv'
<1> USE DEF SlotInv
<1>1. \A i \in Slots :
        clientsocket'[i] = IF clientsocket[i] = s THEN -1 ELSE clientsocket[i]
  BY UnregisterFrees
<1>2. /\ s # -1 /\ -1 \notin Sockets
      /\ \A u \in Sockets : u # s => peer'[u] = peer[u]
  BY PvServerAssumption DEF Close, TypeOK
<1>3. Registered' => InHand'
  BY DEF InHand
<1>4. OneSlot'
  BY <1>1 DEF OneSlot
<1>5. EverySessionHasSlot'
  BY <1>1, <1>2, <1>3 DEF EverySessionHasSlot
<1>6. EverySlotHasSession'
  BY <1>1, <1>2, <1>3 DEF EverySlotHasSession
<1>7. /\ \A t \in Active : sock[t] \in Sockets
      /\ InHand => accepted \in Sockets
  BY DEF HasSocket, Active, InHand, Registered
<1>8. DistinctSockets'
  BY <1>2, <1>7 DEF DistinctSockets
<1> QED  BY <1>4, <1>5, <1>6, <1>8

LEMMA InitSlotInv == Init => SlotInv
BY DEF Init, SlotInv, DistinctSockets, OneSlot, EverySessionHasSlot, EverySlotHasSession,
       Active, InHand, Registered

\* The steps of the accept loop.
LEMMA MainSlotInv ==
    ASSUME IInv, SlotInv, ~exited,
           \/ AcceptFails \/ MainStep
           \/ \E s \in Sockets, a \in Addresses : Accept(s, a)
    PROVE  SlotInv'
<1> USE DEF IInv, SlotInv
<1>1. ASSUME NEW s \in Sockets, NEW a \in Addresses, Accept(s, a) PROVE SlotInv'
  <2>1. /\ Active' = Active /\ sock' = sock /\ clientsocket' = clientsocket
        /\ ~Registered /\ ~Registered' /\ accepted' = s
    BY <1>1 DEF Accept, Active, Registered, threadVars, tables
  <2>2. /\ peer[s] = NoAddress /\ peer'[s] # NoAddress
        /\ \A u \in Sockets : u # s => peer'[u] = peer[u]
    BY <1>1, DistinctAssumption DEF Accept, Open, TypeOK
  <2>3. \A t \in Active : sock[t] \in Sockets /\ sock[t] # s
    BY <2>2 DEF DistinctSockets, HasSocket, Active
  <2>4. DistinctSockets'
    BY <2>1, <2>2, <2>3 DEF DistinctSockets
  <2>5. OneSlot' /\ EverySessionHasSlot' /\ EverySlotHasSession'
    BY <2>1 DEF OneSlot, EverySessionHasSlot, EverySlotHasSession
  <2> QED  BY <2>4, <2>5
<1>2. CASE AcceptFails
  BY <1>2, SlotsUntouched
  DEF AcceptFails, Active, Registered, InHand, threadVars, tables, net, mainVars
<1>3. CASE Register
  <2> DEFINE i == First({j \in Slots : clientsocket[j] = -1})
  <2>1. i \in Slots /\ clientsocket' = [clientsocket EXCEPT ![i] = accepted]
    BY <1>3, FreeSlot DEF Register
  <2>2. clientsocket[i] = -1
    BY <1>3, FreeSlot DEF Register
  <2> HIDE DEF i
  <2>3. /\ Active' = Active /\ sock' = sock /\ peer' = peer /\ accepted' = accepted
        /\ ~Registered /\ Registered' /\ InHand /\ accepted \in Sockets /\ accepted # -1
    BY <1>3, PvServerAssumption
    DEF Register, Active, Registered, InHand, HasSocket, threadVars, net
  <2>4. \A j \in Slots : clientsocket[j] # accepted
    BY <2>3 DEF DistinctSockets, EverySlotHasSession
  <2>5. \A j \in Slots : clientsocket'[j] = IF j = i THEN accepted ELSE clientsocket[j]
    BY <2>1 DEF TypeOK
  <2>6. DistinctSockets'
    BY <2>3 DEF DistinctSockets
  <2>7. OneSlot'
    BY <2>4, <2>5 DEF OneSlot
  <2>8. EverySessionHasSlot'
    <3>1. \A t \in Active : sock[t] # -1
      BY PvServerAssumption DEF HasSocket, Active
    <3> QED  BY <2>1, <2>2, <2>3, <2>5, <3>1 DEF EverySessionHasSlot
  <2>9. EverySlotHasSession'
    BY <2>3, <2>5 DEF EverySlotHasSession
  <2> QED  BY <2>6, <2>7, <2>8, <2>9
<1>4. CASE RegisterFull
  <2>1. /\ Active' = Active /\ sock' = sock /\ accepted' = accepted
        /\ clientsocket' = clientsocket
        /\ ~Registered /\ ~Registered' /\ ~InHand' /\ InHand
    BY <1>4 DEF RegisterFull, Active, Registered, InHand, threadVars, mainVars, tables
  <2>2. \A t \in Active : sock[t] \in Sockets /\ sock[t] # accepted
    BY <2>1 DEF DistinctSockets, HasSocket, Active
  <2>3. \A u \in Sockets : u # accepted => peer'[u] = peer[u]
    BY <1>4 DEF RegisterFull, Close, TypeOK
  <2>4. DistinctSockets'
    BY <2>1, <2>2, <2>3 DEF DistinctSockets
  <2>5. OneSlot' /\ EverySessionHasSlot' /\ EverySlotHasSession'
    BY <2>1 DEF OneSlot, EverySessionHasSlot, EverySlotHasSession
  <2> QED  BY <2>4, <2>5
<1>5. CASE Count \/ CountNoMemory \/ TakeBackCount
  BY <1>5, SlotsUntouched
  DEF Count, CountNoMemory, TakeBackCount, Active, Registered, InHand, threadVars, tables, net
<1>6. CASE DropClient \/ CreateFails
  <2>1. /\ Unregister(accepted) /\ Close(accepted) /\ accepted \in Sockets
        /\ Active' = Active /\ sock' = sock
        /\ Registered /\ InHand /\ ~Registered' /\ ~InHand'
    BY <1>6 DEF DropClient, CreateFails, BackToAccept, Active, Registered, InHand,
                HasSocket, threadVars
  <2>2. \A t \in Active : sock[t] # accepted
    BY <2>1 DEF DistinctSockets
  <2> QED  BY <2>1, <2>2, SlotGivenBack
<1>7. ASSUME NEW t \in Threads, Create(t) PROVE SlotInv'
  <2>1. /\ Active' = Active \cup {t} /\ t \notin Active
        /\ sock'[t] = accepted /\ \A u \in Active : sock'[u] = sock[u]
        /\ clientsocket' = clientsocket /\ peer' = peer
        /\ Registered /\ InHand /\ ~Registered' /\ ~InHand'
    BY <1>7 DEF Create, BackToAccept, Active, Registered, InHand, TypeOK, tables, net
  <2>2. DistinctSockets'
    BY <2>1 DEF DistinctSockets
  <2>3. OneSlot'
    BY <2>1 DEF OneSlot
  <2>4. EverySessionHasSlot'
    BY <2>1 DEF EverySessionHasSlot
  <2>5. EverySlotHasSession'
    BY <2>1 DEF EverySlotHasSession
  <2> QED  BY <2>2, <2>3, <2>4, <2>5
<1>8. CASE Uncount
  BY <1>8, SlotsUntouched
  DEF Uncount, Active, Registered, InHand, threadVars, tables, net
<1> QED
  BY <1>1, <1>2, <1>3, <1>4, <1>5, <1>6, <1>7, <1>8 DEF MainStep

\* The steps of the client threads.
LEMMA ThreadSlotInv ==
    ASSUME IInv, SlotInv, ~exited, NEW t \in Threads,
           ThreadStep(t) \/ AppLock(t) \/ AppUnlock(t) \/ MainReturn(t)
    PROVE  SlotInv'
<1> USE DEF IInv, SlotInv
<1>0. pc \in [Threads -> Places]
  BY DEF TypeOK, Places
<1>1. CASE \/ ReadAddress(t) \/ CountEntry(t) \/ CheckLimits(t)
           \/ PickEntry(t) \/ InsertEntry(t)
           \/ CheckAccess(t) \/ NoticeLoss(t)
           \/ AppLock(t) \/ AppUnlock(t) \/ MainReturn(t) \/ FatalBegin(t)
  <2>1. PICK l \in Places \ {"none", "ending"} :
          pc' = [pc EXCEPT ![t] = l] /\ pc[t] \notin {"none", "ending"}
    <3>1. CASE CountEntry(t) \/ PickEntry(t)
      BY <1>0, <3>1 DEF CountEntry, PickEntry, Goto, Places
    <3>2. CASE ~(CountEntry(t) \/ PickEntry(t))
      BY <1>1, <3>2
      DEF ReadAddress, CheckLimits, InsertEntry, CheckAccess, NoticeLoss,
          AppLock, AppUnlock, MainReturn, FatalBegin, Places, Goto
    <3> QED  BY <3>1, <3>2
  <2>2. Active' = Active
    BY <1>0, <2>1 DEF Active, Goto
  <2>3. /\ sock' = sock /\ clientsocket' = clientsocket /\ peer' = peer
        /\ accepted' = accepted /\ mainpc' = mainpc /\ exited' = exited
    BY <1>1
    DEF ReadAddress, CountEntry, CheckLimits, PickEntry, InsertEntry, CheckAccess,
        NoticeLoss, AppLock, AppUnlock, MainReturn, FatalBegin, ThreadLocal,
        mainVars, tables, net
  <2> QED  BY <2>2, <2>3, SlotsUntouched DEF Registered, InHand
<1>2. CASE FatalFinish(t)
  <2>1. /\ Unregister(sock[t]) /\ Close(sock[t]) /\ sock[t] \in Sockets
        /\ t \in Active /\ Active' = Active \ {t} /\ sock' = sock
        /\ accepted' = accepted /\ mainpc' = mainpc /\ exited' = exited
    BY <1>0, <1>2 DEF FatalFinish, Goto, Active, HasSocket, mainVars
  <2>2. \A u \in Active : u \in Active' <=> sock[u] # sock[t]
    BY <2>1 DEF DistinctSockets
  <2>3. InHand => accepted # sock[t]
    BY <2>1 DEF DistinctSockets
  <2>4. (InHand' <=> InHand) /\ (Registered' <=> Registered) /\ (Registered => InHand)
    BY <2>1 DEF InHand, Registered
  <2> QED  BY <2>1, <2>2, <2>3, <2>4, SlotGivenBack
<1>3. CASE ThreadEnd(t)
  <2>1. Active' = Active /\ t \notin Active
    BY <1>0, <1>3 DEF ThreadEnd, Goto, Active
  <2>2. /\ \A u \in Active : sock'[u] = sock[u]
        /\ clientsocket' = clientsocket /\ peer' = peer
        /\ accepted' = accepted /\ mainpc' = mainpc
    BY <1>3, <2>1 DEF ThreadEnd, Active, TypeOK, mainVars, tables, net
  <2> QED  BY <2>1, <2>2, SlotsUntouched DEF Registered, InHand
<1> QED  BY <1>1, <1>2, <1>3 DEF ThreadStep

LEMMA NextSlotInv == IInv /\ SlotInv /\ [Next]_vars => SlotInv'
<1> SUFFICES ASSUME IInv, SlotInv, [Next]_vars PROVE SlotInv'
  OBVIOUS
<1>1. ASSUME NEW s \in Sockets, Disconnect(s) PROVE SlotInv'
  BY <1>1, SlotsUntouched
  DEF Disconnect, Active, Registered, InHand, mainVars, tables, threadVars
<1>2. CASE UNCHANGED vars
  BY <1>2, SlotsUntouched
  DEF vars, Active, Registered, InHand, mainVars, tables, net, threadVars
<1> QED  BY <1>1, <1>2, MainSlotInv, ThreadSlotInv DEF Next

\* A socket has as many slots as it has owners, one or none.
LEMMA SlotsMatchSessions == IInv /\ SlotInv => SlotPerSession
<1> SUFFICES ASSUME IInv, SlotInv, NEW s \in Sockets
             PROVE  /\ Cardinality({i \in Slots : clientsocket[i] = s})
                         = Cardinality(InThread(s)) + Cardinality(InMain \cap {s})
                    /\ Cardinality({i \in Slots : clientsocket[i] = s}) <= 1
                    /\ (\E i \in Slots : clientsocket[i] = s) => s \in Open
  BY DEF SlotPerSession
<1> USE DEF SlotInv
<1>1. InThread(s) = {t \in Active : sock[t] = s} /\ s # -1
  BY PvServerAssumption DEF InThread, Active
<1>2. InMain \cap {s} = IF Registered /\ accepted = s THEN {s} ELSE {}
  BY DEF InMain, Registered
<1>3. Registered => InHand
  BY DEF InHand
<1>4. CASE \E i \in Slots : clientsocket[i] = s
  <2>1. PICK i \in Slots : clientsocket[i] = s
    BY <1>4
  <2>2. {j \in Slots : clientsocket[j] = s} = {i}
    BY <1>1, <2>1 DEF OneSlot
  <2>3. Cardinality({j \in Slots : clientsocket[j] = s}) = 1
    BY <2>2, FS_Singleton
  <2>4. CASE Registered /\ accepted = s
    <3>1. InThread(s) = {} /\ InMain \cap {s} = {s} /\ s \in Open
      BY <1>1, <1>2, <1>3, <2>4 DEF DistinctSockets, Open
    <3>2. Cardinality(InThread(s)) = 0 /\ Cardinality(InMain \cap {s}) = 1
      BY <3>1, FS_EmptySet, FS_Singleton
    <3> QED  BY <1>4, <2>3, <3>1, <3>2
  <2>5. CASE ~(Registered /\ accepted = s)
    <3>1. PICK t \in Active : sock[t] = s
      BY <1>1, <2>1, <2>5 DEF EverySlotHasSession
    <3>2. InThread(s) = {t} /\ InMain \cap {s} = {} /\ s \in Open
      BY <1>1, <1>2, <2>5, <3>1 DEF DistinctSockets, Open
    <3>3. Cardinality(InThread(s)) = 1 /\ Cardinality(InMain \cap {s}) = 0
      BY <3>2, FS_EmptySet, FS_Singleton
    <3> QED  BY <1>4, <2>3, <3>2, <3>3
  <2> QED  BY <2>4, <2>5
<1>5. CASE ~(\E i \in Slots : clientsocket[i] = s)
  <2>1. {j \in Slots : clientsocket[j] = s} = {}
    BY <1>5
  <2>2. InThread(s) = {} /\ InMain \cap {s} = {}
    BY <1>1, <1>2, <1>5 DEF EverySessionHasSlot
  <2> QED  BY <1>5, <2>1, <2>2, FS_EmptySet
<1> QED  BY <1>4, <1>5

\* Sockets, slots and sessions correspond one to one, also while the kernel
\* hands out again a descriptor that pvThreadFatal has just closed, and
\* although two of the error paths of pvCreateThread write the table
\* without the lock.
THEOREM SlotsCorrect == Spec => []SlotPerSession
<1>1. Spec => [](IInv /\ SlotInv)
  BY InitIInv, NextIInv, InitSlotInv, NextSlotInv, PTL DEF Spec
<1> QED  BY <1>1, SlotsMatchSessions, PTL

----------------------------------------------------------------------------
(* Entries of the address table *)

\* The threads that may have made their entry in the address table.
Late == {t \in Active : pc[t] \notin {"start", "count", "pick", "insert"}}

\* Every entry belongs to a session, no session has two.
EveryEntryHasSession ==
    \A i \in Slots : adrTable[i].s # 0 => \E t \in Late : sock[t] = adrTable[i].s

OneEntry ==
    \A i, j \in Slots : adrTable[i].s = adrTable[j].s /\ adrTable[i].s # 0 => i = j

TableInv == EveryEntryHasSession /\ OneEntry

\* The loop that frees an entry frees the only one the socket has.
LEMMA ForgetFrees ==
    ASSUME TypeOK, OneEntry, NEW s \in Sockets, Forget(s)
    PROVE  \A i \in Slots :
             adrTable'[i] = IF adrTable[i].s = s THEN Free ELSE adrTable[i]
<1> DEFINE S == {j \in Slots : adrTable[j].s = s}
<1>1. S \in SUBSET Nat /\ 0 \notin S /\ s # 0
  BY PvServerAssumption DEF Slots
<1>2. CASE S = {}
  <2>1. First(S) = 0
    BY <1>2 DEF First
  <2> QED  BY <1>2, <2>1 DEF Forget
<1>3. CASE S # {}
  <2>1. First(S) \in S
    BY <1>1, <1>3, FirstFinds
  <2>2. adrTable' = [adrTable EXCEPT ![First(S)] = Free]
    BY <1>1, <2>1 DEF Forget
  <2>3. \A i \in S : i = First(S)
    BY <1>1, <2>1 DEF OneEntry
  <2>4. First(S) \in Slots
    BY <2>1
  <2>5. \A i \in Slots : i \in S <=> adrTable[i].s = s
    OBVIOUS
  <2>6. DOMAIN adrTable = Slots
    BY DEF TypeOK
  <2> HIDE DEF S
  <2> QED  BY <2>1, <2>2, <2>3, <2>4, <2>5, <2>6
<1> QED  BY <1>2, <1>3

\* A step that leaves the table alone, and ends no session past its entry.
LEMMA TableUntouched ==
    ASSUME TableInv, adrTable' = adrTable,
           \A t \in Late : t \in Late' /\ sock'[t] = sock[t]
    PROVE  TableInv'
BY DEF TableInv, EveryEntryHasSession, OneEntry

\* A step that frees the entry of socket s, and ends no other session.
LEMMA EntryGivenBack ==
    ASSUME TypeOK, TableInv, NEW s \in Sockets, Forget(s),
           \A t \in Late : sock[t] # s => t \in Late' /\ sock'[t] = sock[t]
    PROVE  TableInv'
<1>1. \A i \in Slots : adrTable'[i] = IF adrTable[i].s = s THEN Free ELSE adrTable[i]
  BY ForgetFrees DEF TableInv
<1>2. Free.s = 0
  BY DEF Free
<1>3. OneEntry'
  BY <1>1, <1>2 DEF TableInv, OneEntry
<1>4. EveryEntryHasSession'
  BY <1>1, <1>2 DEF TableInv, EveryEntryHasSession
<1> QED  BY <1>3, <1>4 DEF TableInv

LEMMA InitTableInv == Init => TableInv
BY DEF Init, TableInv, EveryEntryHasSession, OneEntry, Free

LEMMA NextTableInv == IInv /\ SlotInv /\ TableInv /\ [Next]_vars => TableInv'
<1> SUFFICES ASSUME IInv, SlotInv, TableInv, [Next]_vars PROVE TableInv'
  OBVIOUS
<1> USE DEF IInv
<1>0. pc \in [Threads -> Places]
  BY DEF TypeOK, Places
<1>1. CASE \/ AcceptFails \/ Register \/ RegisterFull
           \/ Count \/ CountNoMemory \/ TakeBackCount
           \/ CreateFails \/ Uncount
           \/ \E s \in Sockets, a \in Addresses : Accept(s, a)
           \/ \E s \in Sockets : Disconnect(s)
           \/ UNCHANGED vars
  <2>1. pc' = pc /\ sock' = sock /\ adrTable' = adrTable
    BY <1>1
    DEF AcceptFails, Register, RegisterFull, Count, CountNoMemory, TakeBackCount,
        CreateFails, Uncount, Accept, Disconnect, threadVars, tables, vars
  <2>2. Late' = Late
    BY <2>1 DEF Late, Active
  <2> QED  BY <2>1, <2>2, TableUntouched
<1>2. CASE DropClient
  <2>1. pc' = pc /\ sock' = sock /\ Forget(accepted) /\ accepted \in Sockets
    BY <1>2 DEF DropClient, HasSocket, threadVars
  <2>2. Late' = Late
    BY <2>1 DEF Late, Active
  <2> QED  BY <2>1, <2>2, EntryGivenBack
<1>3. ASSUME NEW t \in Threads, Create(t) PROVE TableInv'
  <2>1. adrTable' = adrTable /\ t \notin Late
        /\ \A u \in Late : u \in Late' /\ sock'[u] = sock[u]
    BY <1>0, <1>3 DEF Create, Late, Active, TypeOK, tables
  <2> QED  BY <2>1, TableUntouched
<1>4. ASSUME NEW t \in Threads,
             \/ ReadAddress(t) \/ CountEntry(t) \/ CheckLimits(t) \/ PickEntry(t)
             \/ CheckAccess(t) \/ NoticeLoss(t)
             \/ AppLock(t) \/ AppUnlock(t) \/ MainReturn(t) \/ FatalBegin(t)
      PROVE  TableInv'
  <2>1. PICK l \in Places \ {"none", "ending"} :
          /\ pc' = [pc EXCEPT ![t] = l]
          /\ t \in Late => l \notin {"start", "count", "pick", "insert"}
    <3>1. CASE CountEntry(t) \/ PickEntry(t)
      BY <1>0, <3>1 DEF CountEntry, PickEntry, Goto, Places, Late
    <3>2. CASE ~(CountEntry(t) \/ PickEntry(t))
      BY <1>4, <3>2
      DEF ReadAddress, CheckLimits, CheckAccess, NoticeLoss,
          AppLock, AppUnlock, MainReturn, FatalBegin, Places, Goto, Late
    <3> QED  BY <3>1, <3>2
  <2>2. \A u \in Late : u \in Late'
    BY <1>0, <2>1 DEF Late, Active
  <2>3. sock' = sock /\ adrTable' = adrTable
    BY <1>4
    DEF ReadAddress, CountEntry, CheckLimits, PickEntry, CheckAccess, NoticeLoss,
        AppLock, AppUnlock, MainReturn, FatalBegin, ThreadLocal, tables
  <2> QED  BY <2>2, <2>3, TableUntouched
<1>5. ASSUME NEW t \in Threads, InsertEntry(t) PROVE TableInv'
  <2>1. /\ t \in Active /\ t \notin Late /\ t \in Late' /\ sock' = sock
        /\ \A u \in Late : u \in Late'
    BY <1>0, <1>5 DEF InsertEntry, Goto, Late, Active
  <2>2. \A i \in Slots : adrTable[i].s # sock[t]
    <3>1. \A u \in Late : sock[u] # sock[t]
      BY <2>1 DEF SlotInv, DistinctSockets, Late
    <3>2. sock[t] # 0
      BY <2>1, PvServerAssumption DEF HasSocket, Active
    <3> QED  BY <3>1, <3>2 DEF TableInv, EveryEntryHasSession
  <2>3. \A i \in Slots : adrTable'[i].s = IF i = index[t] THEN sock[t] ELSE adrTable[i].s
    <3>1. DOMAIN adrTable = Slots
      BY DEF TypeOK
    <3> QED  BY <1>5, <3>1 DEF InsertEntry
  <2>4. OneEntry'
    BY <2>2, <2>3 DEF TableInv, OneEntry
  <2>5. EveryEntryHasSession'
    BY <2>1, <2>3 DEF TableInv, EveryEntryHasSession
  <2> QED  BY <2>4, <2>5 DEF TableInv
<1>6. ASSUME NEW t \in Threads, FatalFinish(t) PROVE TableInv'
  <2>1. /\ Forget(sock[t]) /\ sock[t] \in Sockets /\ sock' = sock
        /\ \A u \in Late : u # t => u \in Late'
    BY <1>0, <1>6 DEF FatalFinish, Goto, Late, Active, HasSocket
  <2> QED  BY <2>1, EntryGivenBack
<1>7. ASSUME NEW t \in Threads, ThreadEnd(t) PROVE TableInv'
  <2>1. adrTable' = adrTable /\ \A u \in Late : u \in Late' /\ sock'[u] = sock[u]
    BY <1>0, <1>7 DEF ThreadEnd, Goto, Late, Active, TypeOK, tables
  <2> QED  BY <2>1, TableUntouched
<1> QED
  BY <1>1, <1>2, <1>3, <1>4, <1>5, <1>6, <1>7 DEF Next, MainStep, ThreadStep

\* The address table, which send_thread reads and writes without the lock,
\* never counts a session that is over: two threads may fill the same entry
\* and one of them be forgotten, but none is remembered after its end.
THEOREM NoGhosts == Spec => []NoGhostClient
<1>1. Spec => [](IInv /\ SlotInv /\ TableInv)
  BY InitIInv, NextIInv, InitSlotInv, NextSlotInv, InitTableInv, NextTableInv, PTL DEF Spec
<1>2. TableInv => NoGhostClient
  BY DEF TableInv, EveryEntryHasSession, NoGhostClient, Late, Active, InThread
<1> QED  BY <1>1, <1>2, PTL

----------------------------------------------------------------------------
(* The limits *)

\* The sockets of the other clients ...
Others(t) == Open \ {sock[t]}

\* ... those that the loop of a thread has found in the table ...
Passed(t) == {i \in Slots : i < index[t]}

\* ... and those that are not in the part of the table it has passed: they
\* may be counted yet.
Unseen(t) == {s \in Others(t) : \A i \in Passed(t) : adrTable[i].s # s}

\* A thread that counts has counted no more clients than have been connected
\* since it began, without those that it may count yet.
CountInv(t) ==
    /\ counts[t].same <= counts[t].all
    /\ \/ met[t] = MAX_CLIENTS
       \/ counts[t].all + Cardinality(Unseen(t)) <= met[t]

LimitInv == \A t \in Threads : pc[t] = "count" => CountInv(t)

LEMMA FiniteUnseen ==
    ASSUME NEW t \in Threads
    PROVE  /\ IsFiniteSet(Others(t)) /\ Cardinality(Others(t)) \in Nat
           /\ IsFiniteSet(Unseen(t)) /\ Cardinality(Unseen(t)) \in Nat
           /\ Unseen(t) \subseteq Others(t)
<1>1. Others(t) \in SUBSET Sockets /\ Unseen(t) \in SUBSET Others(t)
  BY DEF Others, Unseen, Open
<1> QED  BY <1>1, PvServerAssumption, FS_Subset, FS_CardinalityType

\* Fewer may be counted yet, and nothing else has changed for the thread.
LEMMA CountKept ==
    ASSUME NEW t \in Threads, CountInv(t), TypeOK, TypeOK',
           counts'[t] = counts[t], met'[t] = met[t],
           Cardinality(Unseen(t)') <= Cardinality(Unseen(t)),
           Cardinality(Unseen(t)') \in Nat, Cardinality(Unseen(t)) \in Nat
    PROVE  CountInv(t)'
BY PvServerAssumption DEF CountInv, TypeOK

\* Outside the loops the index is at the beginning, and nothing is counted.
ScanInv ==
    \A t \in Threads :
        /\ pc[t] \notin {"count", "pick", "insert"} => index[t] = 1
        /\ pc[t] # "count" => counts[t] = NoCounts

\* A step of one thread leaves the others where they are.
LEMMA OthersKept ==
    ASSUME TypeOK, NEW u \in Threads,
           ThreadStep(u) \/ AppLock(u) \/ AppUnlock(u) \/ MainReturn(u)
    PROVE  \A v \in Threads \ {u} :
             /\ pc'[v] = pc[v] /\ sock'[v] = sock[v]
             /\ index'[v] = index[v] /\ counts'[v] = counts[v] /\ met'[v] = met[v]
<1> USE DEF Goto, ThreadLocal, scan, TypeOK
<1>1. CASE ReadAddress(u)
  BY <1>1 DEF ReadAddress
<1>2. CASE CountEntry(u)
  BY <1>2 DEF CountEntry
<1>3. CASE CheckLimits(u)
  BY <1>3 DEF CheckLimits
<1>4. CASE PickEntry(u)
  BY <1>4 DEF PickEntry
<1>5. CASE InsertEntry(u)
  BY <1>5 DEF InsertEntry
<1>6. CASE CheckAccess(u)
  BY <1>6 DEF CheckAccess
<1>7. CASE NoticeLoss(u) \/ AppLock(u) \/ AppUnlock(u) \/ MainReturn(u)
  BY <1>7 DEF NoticeLoss, AppLock, AppUnlock, MainReturn
<1>8. CASE FatalBegin(u) \/ FatalFinish(u)
  BY <1>8 DEF FatalBegin, FatalFinish
<1>9. CASE ThreadEnd(u)
  BY <1>9 DEF ThreadEnd
<1> QED
  BY <1>1, <1>2, <1>3, <1>4, <1>5, <1>6, <1>7, <1>8, <1>9 DEF ThreadStep

\* The accept loop starts threads, and leaves those that run where they are.
LEMMA RunningKept ==
    ASSUME TypeOK, AcceptFails \/ MainStep \/ (\E s \in Sockets : Disconnect(s)) \/ UNCHANGED vars
    PROVE  /\ index' = index /\ counts' = counts /\ met' = met
           /\ \A v \in Threads :
                \/ pc'[v] = pc[v] /\ sock'[v] = sock[v]
                \/ pc[v] = "none" /\ pc'[v] = "start"
<1> USE DEF scan, threadVars, TypeOK
<1>1. ASSUME NEW t \in Threads, Create(t)
      PROVE  /\ index' = index /\ counts' = counts /\ met' = met
             /\ \A v \in Threads :
                  \/ pc'[v] = pc[v] /\ sock'[v] = sock[v]
                  \/ pc[v] = "none" /\ pc'[v] = "start"
  BY <1>1 DEF Create
<1>2. CASE UNCHANGED threadVars
  BY <1>2
<1>3. AcceptFails \/ MainStep \/ (\E s \in Sockets : Disconnect(s)) \/ UNCHANGED vars
      => UNCHANGED threadVars \/ \E t \in Threads : Create(t)
  BY DEF AcceptFails, MainStep, Register, RegisterFull, Count, CountNoMemory,
         TakeBackCount, DropClient, CreateFails, Uncount, Disconnect, vars
<1> QED  BY <1>1, <1>2, <1>3

LEMMA InitScanInv == Init => ScanInv
BY DEF Init, ScanInv

LEMMA NextScanInv == IInv /\ ScanInv /\ [Next]_vars => ScanInv'
<1> SUFFICES ASSUME IInv, ScanInv, [Next]_vars PROVE ScanInv'
  OBVIOUS
<1> USE DEF IInv
<1>1. CASE \/ AcceptFails \/ MainStep \/ (\E s \in Sockets : Disconnect(s))
           \/ UNCHANGED vars
  BY <1>1, RunningKept DEF ScanInv
<1>2. CASE \E s \in Sockets, a \in Addresses : Accept(s, a)
  BY <1>2 DEF Accept, ScanInv
<1>3. ASSUME NEW u \in Threads,
             ThreadStep(u) \/ AppLock(u) \/ AppUnlock(u) \/ MainReturn(u)
      PROVE  ScanInv'
  <2>1. /\ pc'[u] \notin {"count", "pick", "insert"} => index'[u] = 1
        /\ pc'[u] # "count" => counts'[u] = NoCounts
    <3> USE DEF Goto, ThreadLocal, scan, TypeOK, ScanInv
    <3>1. CASE ReadAddress(u)
      BY <3>1 DEF ReadAddress
    <3>2. CASE CountEntry(u)
      BY <3>2 DEF CountEntry
    <3>3. CASE CheckLimits(u)
      BY <3>3 DEF CheckLimits
    <3>4. CASE PickEntry(u)
      BY <3>4 DEF PickEntry
    <3>5. CASE InsertEntry(u)
      BY <3>5 DEF InsertEntry
    <3>6. CASE \/ CheckAccess(u) \/ NoticeLoss(u)
               \/ AppLock(u) \/ AppUnlock(u) \/ MainReturn(u)
      BY <3>6 DEF CheckAccess, NoticeLoss, AppLock, AppUnlock, MainReturn
    <3>7. CASE FatalBegin(u) \/ FatalFinish(u) \/ ThreadEnd(u)
      BY <3>7 DEF FatalBegin, FatalFinish, ThreadEnd
    <3> QED  BY <1>3, <3>1, <3>2, <3>3, <3>4, <3>5, <3>6, <3>7 DEF ThreadStep
  <2> QED  BY <1>3, <2>1, OthersKept DEF ScanInv
<1> QED  BY <1>1, <1>2, <1>3 DEF Next

\* Whoever ends: what is not seen of the table does not grow.
LEMMA UnseenShrinks ==
    ASSUME NEW t \in Threads, Unseen(t)' \subseteq Unseen(t)
    PROVE  /\ Cardinality(Unseen(t)') <= Cardinality(Unseen(t))
           /\ Cardinality(Unseen(t)') \in Nat /\ Cardinality(Unseen(t)) \in Nat
BY FiniteUnseen, FS_Subset, FS_CardinalityType

\* One socket takes the place of another.
LEMMA UnseenSwaps ==
    ASSUME NEW t \in Threads, NEW new \in Unseen(t), NEW old,
           Unseen(t)' \subseteq (Unseen(t) \ {new}) \cup {old}
    PROVE  /\ Cardinality(Unseen(t)') <= Cardinality(Unseen(t))
           /\ Cardinality(Unseen(t)') \in Nat /\ Cardinality(Unseen(t)) \in Nat
<1> DEFINE Rest == Unseen(t) \ {new}
<1>1. IsFiniteSet(Unseen(t)) /\ Cardinality(Unseen(t)) \in Nat
  BY FiniteUnseen
<1>2. IsFiniteSet(Rest) /\ Cardinality(Rest) = Cardinality(Unseen(t)) - 1
  BY <1>1, FS_RemoveElement
<1>3. IsFiniteSet(Rest \cup {old}) /\ Cardinality(Rest \cup {old}) <= Cardinality(Rest) + 1
  <2>1. /\ IsFiniteSet(Rest \cup {old})
        /\ Cardinality(Rest \cup {old}) =
             IF old \in Rest THEN Cardinality(Rest) ELSE Cardinality(Rest) + 1
    <3> HIDE DEF Rest
    <3> QED  BY <1>2, FS_AddElement
  <2>2. Cardinality(Rest) \in Nat
    BY <1>2, FS_CardinalityType
  <2> HIDE DEF Rest
  <2> QED  BY <2>1, <2>2
<1>4. /\ IsFiniteSet(Unseen(t)')
      /\ Cardinality(Unseen(t)') <= Cardinality(Rest \cup {old})
  BY <1>3, FS_Subset
<1>5. Cardinality(Unseen(t)') \in Nat /\ Cardinality(Rest \cup {old}) \in Nat
  BY <1>3, <1>4, FS_CardinalityType
<1> HIDE DEF Rest
<1> QED  BY <1>1, <1>2, <1>3, <1>4, <1>5

\* A step of which the thread that counts notices nothing but the end of others.
LEMMA NoticesNothing ==
    ASSUME TypeOK, TypeOK', NEW t \in Threads, CountInv(t),
           sock'[t] = sock[t], index'[t] = index[t],
           counts'[t] = counts[t], met'[t] = met[t],
           Open' \subseteq Open,
           \A i \in Slots, s \in Open' : adrTable'[i].s = s <=> adrTable[i].s = s
    PROVE  CountInv(t)'
<1>1. Unseen(t)' \subseteq Unseen(t)
  BY DEF Unseen, Others, Passed
<1> QED  BY <1>1, UnseenShrinks, CountKept

LEMMA ClosedIsGone ==
    ASSUME TypeOK, NEW s \in Sockets, Close(s)
    PROVE  Open' = Open \ {s}
BY DEF Open, Close, TypeOK

\* The steps of the accept loop and of the clients.
LEMMA MainLimitInv ==
    ASSUME IInv, IInv', SlotInv, TableInv, ~exited, NEW t \in Threads,
           pc[t] = "count", CountInv(t),
           \/ AcceptFails \/ MainStep \/ (\E s \in Sockets : Disconnect(s))
           \/ \E s \in Sockets, a \in Addresses : Accept(s, a)
    PROVE  CountInv(t)'
<1> USE DEF IInv
<1>0. \A s \in Open : s \in Sockets /\ s # 0
  BY PvServerAssumption DEF Open
<1>1. CASE AcceptFails \/ MainStep \/ (\E s \in Sockets : Disconnect(s))
  <2>1. /\ sock'[t] = sock[t] /\ index'[t] = index[t]
        /\ counts'[t] = counts[t] /\ met'[t] = met[t]
    BY <1>1, RunningKept
  <2>2. /\ Open' \subseteq Open
        /\ \A i \in Slots, s \in Open' : adrTable'[i].s = s <=> adrTable[i].s = s
    <3>1. CASE DropClient
      <4>1. accepted \in Sockets /\ Forget(accepted) /\ Close(accepted)
        BY <3>1 DEF DropClient, HasSocket
      <4>2. Open' = Open \ {accepted}
        BY <4>1, ClosedIsGone
      <4>3. \A i \in Slots :
              adrTable'[i] = IF adrTable[i].s = accepted THEN Free ELSE adrTable[i]
        BY <4>1, ForgetFrees DEF TableInv
      <4>4. \A s \in Open' : s # accepted /\ s # Free.s
        BY <1>0, <4>2 DEF Free
      <4> QED  BY <4>2, <4>3, <4>4
    <3>2. CASE RegisterFull \/ CreateFails
      <4>1. accepted \in Sockets /\ Close(accepted) /\ adrTable' = adrTable
        BY <3>2 DEF RegisterFull, CreateFails, HasSocket, tables
      <4> QED  BY <4>1, ClosedIsGone
    <3>3. CASE \/ AcceptFails \/ Register \/ Count \/ CountNoMemory \/ TakeBackCount
               \/ Uncount \/ (\E u \in Threads : Create(u))
               \/ (\E s \in Sockets : Disconnect(s))
      <4>1. peer' = peer /\ adrTable' = adrTable
        BY <3>3
        DEF AcceptFails, Register, Count, CountNoMemory, TakeBackCount, Uncount,
            Create, Disconnect, tables, net
      <4> QED  BY <4>1 DEF Open
    <3> QED  BY <1>1, <3>1, <3>2, <3>3 DEF MainStep
  <2> QED  BY <2>1, <2>2, NoticesNothing
<1>2. ASSUME NEW s \in Sockets, NEW a \in Addresses, Accept(s, a)
      PROVE  CountInv(t)'
  <2>1. /\ sock' = sock /\ index' = index /\ counts' = counts /\ adrTable' = adrTable
        /\ met'[t] = Capped(met[t] + 1)
    BY <1>2 DEF Accept, tables, TypeOK
  <2>2. Unseen(t)' \subseteq Unseen(t) \cup {s}
    <3>1. Open' \subseteq Open \cup {s}
      BY <1>2 DEF Accept, Open, TypeOK
    <3> QED  BY <2>1, <3>1 DEF Unseen, Others, Passed
  <2>3. /\ Cardinality(Unseen(t)') <= Cardinality(Unseen(t)) + 1
        /\ Cardinality(Unseen(t)') \in Nat /\ Cardinality(Unseen(t)) \in Nat
    <3>1. IsFiniteSet(Unseen(t)) /\ Cardinality(Unseen(t)) \in Nat
      BY FiniteUnseen
    <3>2. /\ IsFiniteSet(Unseen(t) \cup {s})
          /\ Cardinality(Unseen(t) \cup {s}) <= Cardinality(Unseen(t)) + 1
      <4>1. /\ IsFiniteSet(Unseen(t) \cup {s})
            /\ Cardinality(Unseen(t) \cup {s}) =
                 IF s \in Unseen(t) THEN Cardinality(Unseen(t))
                 ELSE Cardinality(Unseen(t)) + 1
        BY <3>1, FS_AddElement
      <4> QED  BY <3>1, <4>1
    <3>3. /\ IsFiniteSet(Unseen(t)')
          /\ Cardinality(Unseen(t)') <= Cardinality(Unseen(t) \cup {s})
      BY <2>2, <3>2, FS_Subset
    <3>4. Cardinality(Unseen(t)') \in Nat /\ Cardinality(Unseen(t) \cup {s}) \in Nat
      BY <3>2, <3>3, FS_CardinalityType
    <3> QED  BY <3>1, <3>2, <3>3, <3>4
  <2>4. met[t] \in 0 .. MAX_CLIENTS /\ counts[t] \in [all : Nat, same : Nat]
    BY DEF TypeOK
  <2> QED  BY <2>1, <2>3, <2>4, PvServerAssumption DEF CountInv, Capped
<1> QED  BY <1>1, <1>2

\* The steps of another thread.
LEMMA OtherLimitInv ==
    ASSUME IInv, IInv', SlotInv, TableInv, NEW t \in Threads, NEW u \in Threads \ {t},
           pc[t] = "count", CountInv(t),
           ThreadStep(u) \/ AppLock(u) \/ AppUnlock(u) \/ MainReturn(u)
    PROVE  CountInv(t)'
<1> USE DEF IInv
<1>0. \A s \in Open : s \in Sockets /\ s # 0
  BY PvServerAssumption DEF Open
<1>1. /\ sock'[t] = sock[t] /\ index'[t] = index[t]
      /\ counts'[t] = counts[t] /\ met'[t] = met[t]
  BY OthersKept
<1>2. CASE FatalFinish(u)
  <2>1. sock[u] \in Sockets /\ Forget(sock[u]) /\ Close(sock[u])
    BY <1>2 DEF FatalFinish, HasSocket
  <2>2. Open' = Open \ {sock[u]}
    BY <2>1, ClosedIsGone
  <2>3. \A i \in Slots :
          adrTable'[i] = IF adrTable[i].s = sock[u] THEN Free ELSE adrTable[i]
    BY <2>1, ForgetFrees DEF TableInv
  <2>4. \A s \in Open' : s # sock[u] /\ s # Free.s
    BY <1>0, <2>2 DEF Free
  <2> QED  BY <1>1, <2>2, <2>3, <2>4, NoticesNothing
<1>3. CASE InsertEntry(u)
  <2>1. /\ peer' = peer /\ pc[u] = "insert"
        /\ adrTable' = [adrTable EXCEPT ![index[u]] = [s |-> sock[u], adr |-> adr[u]]]
    BY <1>3 DEF InsertEntry, net
  <2>2. Open' = Open
    BY <2>1 DEF Open
  <2>3. \A i \in Slots : adrTable'[i].s = IF i = index[u] THEN sock[u] ELSE adrTable[i].s
    BY <2>1 DEF TypeOK
  <2>4. CASE index[u] \in Passed(t)
    <3>1. u \in Active /\ t \in Active /\ u \notin Late
      BY <2>1 DEF Active, Late
    <3>2. sock[u] \in Others(t)
      BY <3>1 DEF SlotInv, DistinctSockets, Others, Open, HasSocket, Active
    <3>3. \A i \in Slots : adrTable[i].s # sock[u]
      <4>1. \A v \in Late : sock[v] # sock[u]
        BY <3>1 DEF SlotInv, DistinctSockets, Late
      <4>2. sock[u] # 0
        BY <1>0, <3>2 DEF Others
      <4> QED  BY <4>1, <4>2 DEF TableInv, EveryEntryHasSession
    <3>4. sock[u] \in Unseen(t)
      BY <3>2, <3>3 DEF Unseen, Passed
    <3>5. Unseen(t)' \subseteq (Unseen(t) \ {sock[u]}) \cup {adrTable[index[u]].s}
      BY <1>1, <2>2, <2>3, <2>4 DEF Unseen, Others, Passed
    <3> QED  BY <1>1, <3>4, <3>5, UnseenSwaps, CountKept
  <2>5. CASE index[u] \notin Passed(t)
    <3>1. Unseen(t)' \subseteq Unseen(t)
      BY <1>1, <2>2, <2>3, <2>5 DEF Unseen, Others, Passed
    <3> QED  BY <1>1, <3>1, UnseenShrinks, CountKept
  <2> QED  BY <2>4, <2>5
<1>4. CASE ~(FatalFinish(u) \/ InsertEntry(u))
  <2>1. peer' = peer /\ adrTable' = adrTable
    BY <1>4
    DEF ThreadStep, ReadAddress, CountEntry, CheckLimits, PickEntry, CheckAccess,
        NoticeLoss, FatalBegin, ThreadEnd, AppLock, AppUnlock, MainReturn,
        ThreadLocal, tables, net
  <2> QED  BY <1>1, <2>1, NoticesNothing DEF Open
<1> QED  BY <1>2, <1>3, <1>4

\* The thread's own steps: it begins to count, or counts an entry.
LEMMA OwnLimitInv ==
    ASSUME IInv, IInv', SlotInv, TableInv, ScanInv, NEW t \in Threads,
           pc[t] = "count" => CountInv(t), pc'[t] = "count",
           ThreadStep(t) \/ AppLock(t) \/ AppUnlock(t) \/ MainReturn(t)
    PROVE  CountInv(t)'
<1> USE DEF IInv
<1>0. /\ counts[t] \in [all : Nat, same : Nat] /\ met[t] \in 0 .. MAX_CLIENTS
      /\ index[t] \in 1 .. MAX_CLIENTS + 1
      /\ maxClients \in Nat /\ maxClients <= MAX_CLIENTS
  BY PvServerAssumption DEF TypeOK, maxClients, Limit
<1>1. CASE ReadAddress(t)
  <2>1. /\ index'[t] = 1 /\ counts'[t] = NoCounts /\ Open' = Open /\ sock' = sock
        /\ met'[t] = Capped(Cardinality(Others(t)))
    BY <1>1 DEF ReadAddress, ThreadLocal, net, Open, Others, TypeOK, ScanInv
  <2>2. Cardinality(Unseen(t)') \in Nat /\ Cardinality(Others(t)) \in Nat
        /\ Cardinality(Unseen(t)') <= Cardinality(Others(t))
    <3>1. Unseen(t)' \subseteq Others(t)
      BY <2>1 DEF Unseen, Others
    <3> QED  BY <3>1, FiniteUnseen, FS_Subset, FS_CardinalityType
  <2> QED  BY <2>1, <2>2, PvServerAssumption DEF CountInv, Capped, NoCounts
<1>2. CASE CountEntry(t)
  <2> DEFINE i == index[t]
             e == adrTable[i]
  <2>1. /\ i \in Slots /\ index'[t] = i + 1 /\ pc[t] = "count"
        /\ adrTable' = adrTable /\ Open' = Open /\ sock' = sock /\ met' = met
        /\ counts'[t] = IF e.s = 0 THEN counts[t]
                        ELSE [all  |-> counts[t].all + 1,
                              same |-> IF e.adr = adr[t] THEN counts[t].same + 1
                                       ELSE counts[t].same]
    <3>1. i \in Slots
      BY <1>0, <1>2, PvServerAssumption DEF CountEntry, Slots
    <3> QED  BY <1>2, <3>1 DEF CountEntry, ThreadLocal, tables, net, Open, TypeOK
  <2>2. Passed(t)' = Passed(t) \cup {i}
    BY <1>0, <2>1, PvServerAssumption DEF Passed, Slots
  <2> HIDE DEF i
  <2>3. Unseen(t)' = Unseen(t) \ {e.s}
    BY <2>1, <2>2 DEF Unseen, Others
  <2>4. CountInv(t)
    BY <2>1
  <2>5. CASE e.s = 0
    <3>1. Unseen(t)' \subseteq Unseen(t)
      BY <2>3
    <3>2. counts'[t] = counts[t] /\ met'[t] = met[t]
      BY <2>1, <2>5
    <3> QED  BY <2>4, <3>1, <3>2, UnseenShrinks, CountKept
  <2>6. CASE e.s # 0
    <3>1. PICK u \in Late : sock[u] = e.s
      BY <2>1, <2>6 DEF TableInv, EveryEntryHasSession
    <3>2. e.s \in Others(t)
      <4>1. u \in Active /\ t \in Active /\ u # t
        BY <2>1, <3>1 DEF Late, Active
      <4> QED  BY <3>1, <4>1 DEF SlotInv, DistinctSockets, Others, Open, HasSocket, Active
    <3>3. \A j \in Passed(t) : adrTable[j].s # e.s
      <4>1. i \notin Passed(t)
        BY <1>0 DEF Passed, i
      <4> QED  BY <2>1, <2>6, <4>1 DEF TableInv, OneEntry, Passed
    <3>4. e.s \in Unseen(t)
      BY <3>2, <3>3 DEF Unseen
    <3>5. /\ Cardinality(Unseen(t)') = Cardinality(Unseen(t)) - 1
          /\ Cardinality(Unseen(t)) \in Nat
      <4>1. IsFiniteSet(Unseen(t)) /\ Cardinality(Unseen(t)) \in Nat
        BY FiniteUnseen
      <4>2. Cardinality(Unseen(t) \ {e.s}) =
              IF e.s \in Unseen(t) THEN Cardinality(Unseen(t)) - 1
              ELSE Cardinality(Unseen(t))
        <5> HIDE DEF e
        <5> QED  BY <4>1, FS_RemoveElement
      <4> HIDE DEF e
      <4> QED  BY <2>3, <3>4, <4>1, <4>2
    <3>6. /\ counts'[t].all = counts[t].all + 1 /\ met'[t] = met[t]
          /\ counts'[t].same \in {counts[t].same, counts[t].same + 1}
      BY <2>1, <2>6
    <3> QED  BY <1>0, <2>4, <3>5, <3>6 DEF CountInv
  <2> QED  BY <2>5, <2>6
<1>3. CASE ~(ReadAddress(t) \/ CountEntry(t))
  <2>1. FALSE
    <3> USE DEF Goto, TypeOK
    <3>1. CASE CheckLimits(t)
      BY <3>1 DEF CheckLimits
    <3>2. CASE PickEntry(t)
      BY <3>2 DEF PickEntry
    <3>3. CASE \/ InsertEntry(t) \/ CheckAccess(t) \/ NoticeLoss(t)
               \/ AppLock(t) \/ AppUnlock(t) \/ MainReturn(t)
      BY <3>3 DEF InsertEntry, CheckAccess, NoticeLoss, AppLock, AppUnlock, MainReturn
    <3>4. CASE FatalBegin(t) \/ FatalFinish(t) \/ ThreadEnd(t)
      BY <3>4 DEF FatalBegin, FatalFinish, ThreadEnd
    <3> QED  BY <1>3, <3>1, <3>2, <3>3, <3>4 DEF ThreadStep
  <2> QED  BY <2>1
<1> QED  BY <1>1, <1>2, <1>3

LEMMA NextLimitInv ==
    IInv /\ IInv' /\ SlotInv /\ TableInv /\ ScanInv /\ LimitInv /\ [Next]_vars => LimitInv'
<1> SUFFICES ASSUME IInv, IInv', SlotInv, TableInv, ScanInv, LimitInv, [Next]_vars,
                    NEW t \in Threads, pc'[t] = "count"
             PROVE  CountInv(t)'
  BY DEF LimitInv
<1>1. CASE UNCHANGED vars
  <2>1. /\ sock'[t] = sock[t] /\ index'[t] = index[t]
        /\ counts'[t] = counts[t] /\ met'[t] = met[t] /\ pc[t] = "count"
        /\ peer' = peer /\ adrTable' = adrTable
    BY <1>1 DEF vars, threadVars, scan, tables, net
  <2>2. CountInv(t)
    BY <2>1 DEF LimitInv
  <2> QED  BY <2>1, <2>2, NoticesNothing DEF IInv, Open
<1>2. CASE \/ AcceptFails \/ MainStep \/ (\E s \in Sockets : Disconnect(s))
           \/ \E s \in Sockets, a \in Addresses : Accept(s, a)
  <2>1. CASE ~exited
    <3>1. pc[t] = "count"
      <4>1. CASE AcceptFails \/ MainStep \/ (\E s \in Sockets : Disconnect(s))
        BY <4>1, RunningKept DEF IInv
      <4>2. CASE \E s \in Sockets, a \in Addresses : Accept(s, a)
        BY <4>2 DEF Accept
      <4> QED  BY <1>2, <4>1, <4>2
    <3>2. CountInv(t)
      BY <3>1 DEF LimitInv
    <3> QED  BY <1>2, <2>1, <3>1, <3>2, MainLimitInv
  <2>2. CASE exited
    BY <1>1, <2>2 DEF Next
  <2> QED  BY <2>1, <2>2
<1>3. ASSUME NEW u \in Threads,
             ThreadStep(u) \/ AppLock(u) \/ AppUnlock(u) \/ MainReturn(u)
      PROVE  CountInv(t)'
  <2>1. CASE u = t
    BY <1>3, <2>1, OwnLimitInv DEF LimitInv
  <2>2. CASE u # t
    <3>1. pc[t] = "count"
      BY <1>3, <2>2, OthersKept DEF IInv
    <3>2. CountInv(t)
      BY <3>1 DEF LimitInv
    <3> QED  BY <1>3, <2>2, <3>1, <3>2, OtherLimitInv
  <2> QED  BY <2>1, <2>2
<1> QED  BY <1>1, <1>2, <1>3 DEF Next

\* A client is refused by its thread only when so many others were connected
\* since the thread began to count, at once or one after the other, as the limit
\* it is refused for, whatever the other threads write into the table while it
\* is read entry by entry without the lock.
THEOREM RefusalsJustified == Spec => RefusedOnlyAtLimit
<1> DEFINE Inv == IInv /\ SlotInv /\ TableInv /\ ScanInv /\ LimitInv
           Justified ==
             \A t \in Threads : pc[t] = "count" /\ pc'[t] = "fatal" =>
               met[t] >= maxClients \/ met[t] >= maxClientsPerIpAdr
<1>1. Inv /\ [Next]_vars => [Justified]_vars
  <2> SUFFICES ASSUME Inv, Next, NEW t \in Threads, pc[t] = "count", pc'[t] = "fatal"
               PROVE  met[t] >= maxClients \/ met[t] >= maxClientsPerIpAdr
    OBVIOUS
  <2>1. TypeOK /\ CountInv(t)
    BY DEF IInv, LimitInv
  <2>2. CheckLimits(t)
    <3>1. CASE \/ AcceptFails \/ MainStep \/ (\E s \in Sockets : Disconnect(s))
      BY <2>1, <3>1, RunningKept
    <3>2. CASE \E s \in Sockets, a \in Addresses : Accept(s, a)
      BY <3>2 DEF Accept
    <3>3. ASSUME NEW u \in Threads,
                 ThreadStep(u) \/ AppLock(u) \/ AppUnlock(u) \/ MainReturn(u)
          PROVE  CheckLimits(t)
      <4>1. u = t
        BY <2>1, <3>3, OthersKept
      <4> QED
        BY <3>3, <4>1
        DEF ThreadStep, ReadAddress, CountEntry, PickEntry, InsertEntry, CheckAccess,
            NoticeLoss, AppLock, AppUnlock, MainReturn, FatalBegin, FatalFinish, ThreadEnd
    <3> QED  BY <3>1, <3>2, <3>3 DEF Next
  <2>3. ~WithinLimits(t)
    BY <2>1, <2>2 DEF CheckLimits, Goto, TypeOK
  <2>4. /\ counts[t] \in [all : Nat, same : Nat] /\ met[t] \in 0 .. MAX_CLIENTS
        /\ maxClients \in Nat /\ maxClients <= MAX_CLIENTS
        /\ maxClientsPerIpAdr \in Nat /\ maxClientsPerIpAdr <= MAX_CLIENTS
    BY <2>1, PvServerAssumption DEF TypeOK, maxClients, maxClientsPerIpAdr, Limit
  <2>5. Cardinality(Unseen(t)) \in Nat
    BY FiniteUnseen
  <2> QED
    BY <2>1, <2>3, <2>4, <2>5, PvServerAssumption DEF WithinLimits, CountInv
<1>2. Inv /\ [Next]_vars => Inv'
  BY NextIInv, NextSlotInv, NextTableInv, NextScanInv, NextLimitInv
<1>3. Init => Inv
  BY InitIInv, InitSlotInv, InitTableInv, InitScanInv DEF Init, LimitInv
<1> HIDE DEF Inv, Justified
<1>4. Spec => [][Justified]_vars
  BY <1>1, <1>2, <1>3, PTL DEF Spec
<1> QED  BY <1>4 DEF RefusedOnlyAtLimit, Justified
=============================================================================
