------------------------------ MODULE PvServer ------------------------------
(***************************************************************************)
(* The session management of a multi threaded pvserver: the accept loop of *)
(* main.cpp, and pvAccept, pvCreateThread, send_thread and pvThreadFatal   *)
(* of pvserver/util.cpp.                                                   *)
(*                                                                         *)
(* One main thread accepts clients and starts a thread per client; the     *)
(* threads share the table of sockets, the table of client addresses, the  *)
(* number of threads and the address of the last accepted client.  Only a  *)
(* part of the accesses is under pvlock: what is under it is one step,     *)
(* unless application code runs inside; what is not is split.              *)
(***************************************************************************)
EXTENDS Integers, FiniteSets

CONSTANTS
    Threads,        \* the PARAM structures that client threads run on
    Sockets,        \* the descriptors that accept() can return
    Addresses,      \* the IP addresses clients come from
    Allowed, Denied,  \* those that pvIsAccessAllowed may let in, or refuse
                    \* (it reads the lists at every call: an address may be both)
    MAX_CLIENTS,    \* the length of both tables
    RequestedMax,   \* the argument of pvSetMaxClients, 0: never called
    RequestedPerIp, \* the argument of pvSetMaxClientsPerIpAdr, 0: never called
    ExitAfterLast,  \* option -exit_after_last_client_terminates
    Failures,       \* what may fail: "accept", "malloc", "pthread_create"
    MainReturns,    \* pvMain of the application may return
    AppLocks        \* what the application does with pvlock held: "calls":
                    \* it calls functions that talk to the client;
                    \* "cleanup": its cleanup callback calls pvlock again

ASSUME PvServerAssumption ==
    /\ IsFiniteSet(Threads)
    /\ IsFiniteSet(Sockets) /\ {-1, 0} \cap Sockets = {}
    /\ Allowed \cup Denied = Addresses
    /\ MAX_CLIENTS \in Nat \ {0}
    /\ RequestedMax \in Nat /\ RequestedPerIp \in Nat
    /\ {ExitAfterLast, MainReturns} \subseteq BOOLEAN
    /\ Failures \subseteq {"accept", "malloc", "pthread_create"}
    /\ AppLocks \subseteq {"calls", "cleanup"}

CONSTANTS Main, Nobody, NoAddress   \* not threads, not an address
ASSUME DistinctAssumption ==
    /\ Main \notin Threads /\ Nobody \notin Threads /\ Main # Nobody
    /\ NoAddress \notin Addresses

VARIABLES
    exited,         \* the process is gone
    lock,           \* who holds param_mutex (pvlock): Main, a thread, Nobody
    mainpc,         \* where the accept loop is
    accepted,       \* the socket the accept loop works on, -1: none
    pvSockaddr,     \* address of the last accepted client, a global
    num_threads,
    clientsocket,   \* socket table, -1: free
    adrTable,       \* address table, s = 0: free
    peer,           \* the address at the other end of each open socket
    alive,          \* the client at the other end still talks to us
    pc,             \* where each client thread is
    sock,           \* PARAM.s of each client thread
    adr,            \* send_thread's local ipadr
    index,          \* send_thread's index i into adrTable, 1 outside its loops
    counts,         \* its numClients (all) and numThisClient (same)
    met             \* history: how many other clients were connected at some
                    \* time since it began to count (MAX_CLIENTS: or more)

mainVars == <<mainpc, accepted>>
tables == <<clientsocket, adrTable>>
net == <<peer, alive>>
scan == <<index, counts, met>>
threadVars == <<pc, sock, adr, scan>>
vars == <<exited, lock, mainVars, pvSockaddr, num_threads, tables, net, threadVars>>

Slots == 1 .. MAX_CLIENTS
Free  == [s |-> 0, adr |-> NoAddress]
NoCounts == [all |-> 0, same |-> 0]

\* The history met goes no further than the tables are long.
Capped(n) == IF n < MAX_CLIENTS THEN n ELSE MAX_CLIENTS

\* pvSetMaxClients, pvSetMaxClientsPerIpAdr: 0 < n < MAX_CLIENTS, else zero.
Limit(requested) ==
    IF requested = 0 THEN MAX_CLIENTS
    ELSE IF requested < MAX_CLIENTS THEN requested ELSE 0

maxClients         == Limit(RequestedMax)
maxClientsPerIpAdr == Limit(RequestedPerIp)

Open == {s \in Sockets : peer[s] # NoAddress}

\* The lowest index in S, 0 if there is none: the for loops that break.
First(S) == IF S = {} THEN 0 ELSE CHOOSE i \in S : \A j \in S : i <= j

TypeOK ==
    /\ exited \in BOOLEAN
    /\ lock \in Threads \cup {Main, Nobody}
    /\ mainpc \in {"accept", "register", "count", "create", "nocount", "nomem", "uncount"}
    /\ accepted \in Sockets \cup {-1}
    /\ pvSockaddr \in Addresses \cup {NoAddress}
    /\ num_threads \in Nat
    /\ clientsocket \in [Slots -> Sockets \cup {-1}]
    /\ adrTable \in [Slots -> [s : Sockets \cup {0}, adr : Addresses \cup {NoAddress}]]
    /\ peer \in [Sockets -> Addresses \cup {NoAddress}]
    /\ alive \in [Sockets -> BOOLEAN]
    /\ pc \in [Threads -> {"none", "start", "count", "pick", "insert", "access", "run",
                           "locked", "returned", "fatal", "cleanup", "ending"}]
    /\ sock \in [Threads -> Sockets \cup {-1}]
    /\ adr \in [Threads -> Addresses \cup {NoAddress}]
    /\ index \in [Threads -> 1 .. MAX_CLIENTS + 1]
    /\ counts \in [Threads -> [all : Nat, same : Nat]]
    /\ met \in [Threads -> 0 .. MAX_CLIENTS]

Init ==
    /\ exited = FALSE
    /\ lock = Nobody
    /\ mainpc = "accept"
    /\ accepted = -1
    /\ pvSockaddr = NoAddress
    /\ num_threads = 0
    /\ clientsocket = [i \in Slots |-> -1]
    /\ adrTable = [i \in Slots |-> Free]
    /\ peer = [s \in Sockets |-> NoAddress]
    /\ alive = [s \in Sockets |-> FALSE]
    /\ pc = [t \in Threads |-> "none"]
    /\ sock = [t \in Threads |-> -1]
    /\ adr = [t \in Threads |-> NoAddress]
    /\ index = [t \in Threads |-> 1]
    /\ counts = [t \in Threads |-> NoCounts]
    /\ met = [t \in Threads |-> 0]

----------------------------------------------------------------------------
(* The accept loop *)

Close(s) ==
    /\ peer' = [peer EXCEPT ![s] = NoAddress]
    /\ alive' = [alive EXCEPT ![s] = FALSE]

\* The loops that free the first slot, and the first table entry, of socket s.
Unregister(s) ==
    LET i == First({j \in Slots : clientsocket[j] = s})
    IN  clientsocket' = IF i = 0 THEN clientsocket ELSE [clientsocket EXCEPT ![i] = -1]

Forget(s) ==
    LET i == First({j \in Slots : adrTable[j].s = s})
    IN  adrTable' = IF i = 0 THEN adrTable ELSE [adrTable EXCEPT ![i] = Free]

\* accept(): a client with address a; pvSockaddr is written without the lock.
Accept(s, a) ==
    /\ mainpc = "accept"
    /\ s \notin Open
    /\ mainpc' = "register"
    /\ accepted' = s
    /\ pvSockaddr' = a
    /\ peer' = [peer EXCEPT ![s] = a]
    /\ alive' = [alive EXCEPT ![s] = TRUE]
    /\ met' = [t \in Threads |-> IF pc[t] = "count" THEN Capped(met[t] + 1) ELSE met[t]]
    /\ UNCHANGED <<exited, lock, num_threads, tables, pc, sock, adr, index, counts>>

\* accept() returned -1, pvAccept returns it, main leaves its loop.
AcceptFails ==
    /\ "accept" \in Failures
    /\ mainpc = "accept"
    /\ exited' = TRUE
    /\ UNCHANGED <<lock, mainVars, pvSockaddr, num_threads, tables, net, threadVars>>

\* do_post_accept_operations: the socket gets the first free slot ...
Register ==
    /\ mainpc = "register" /\ lock = Nobody
    /\ LET i == First({j \in Slots : clientsocket[j] = -1})
       IN  /\ i # 0
           /\ clientsocket' = [clientsocket EXCEPT ![i] = accepted]
    /\ mainpc' = "count"
    /\ UNCHANGED <<exited, lock, accepted, pvSockaddr, num_threads, adrTable, net, threadVars>>

\* ... or there is none: pvAccept returns -1 and main leaves its loop.
RegisterFull ==
    /\ mainpc = "register" /\ lock = Nobody
    /\ \A i \in Slots : clientsocket[i] # -1
    /\ Close(accepted)
    /\ exited' = TRUE
    /\ UNCHANGED <<lock, mainVars, pvSockaddr, num_threads, tables, threadVars>>

\* Mutant: the thread is counted when it has been created.
CountLate ==
    /\ mainpc = "count" /\ lock = Nobody
    /\ mainpc' = "create"
    /\ UNCHANGED <<exited, lock, accepted, pvSockaddr, num_threads, tables, net, threadVars>>

\* pvCreateThread counts the thread and gets memory for it ...
Count ==
    /\ mainpc = "count" /\ lock = Nobody
    /\ num_threads' = num_threads + 1
    /\ mainpc' = "create"
    /\ UNCHANGED <<exited, lock, accepted, pvSockaddr, tables, net, threadVars>>

\* ... or counts it and gets none, with the lock held ...
CountNoMemory ==
    /\ "malloc" \in Failures
    /\ mainpc = "count" /\ lock = Nobody
    /\ lock' = Main
    /\ num_threads' = num_threads + 1
    /\ mainpc' = "nocount"
    /\ UNCHANGED <<exited, accepted, pvSockaddr, tables, net, threadVars>>

\* ... and takes the count back; pvThreadFatal may have read it meanwhile.
TakeBackCount ==
    /\ mainpc = "nocount"
    /\ lock' = Nobody
    /\ num_threads' = num_threads - 1
    /\ mainpc' = "nomem"
    /\ UNCHANGED <<exited, accepted, pvSockaddr, tables, net, threadVars>>

BackToAccept == mainpc' = "accept" /\ accepted' = -1

\* Mutant: the slot of the refused client is not freed.
DropClientKeepSlot ==
    /\ mainpc = "nomem"
    /\ Forget(accepted)
    /\ Close(accepted)
    /\ BackToAccept
    /\ UNCHANGED <<exited, lock, pvSockaddr, num_threads, clientsocket, threadVars>>

\* Without memory the client is dropped; the tables change without the lock.
DropClient ==
    /\ mainpc = "nomem"
    /\ Forget(accepted)
    /\ Unregister(accepted)
    /\ Close(accepted)
    /\ BackToAccept
    /\ UNCHANGED <<exited, lock, pvSockaddr, num_threads, threadVars>>

\* pthread_create: send_thread starts to run.
Create(t) ==
    /\ mainpc = "create"
    /\ pc[t] = "none"
    /\ pc' = [pc EXCEPT ![t] = "start"]
    /\ sock' = [sock EXCEPT ![t] = accepted]
    /\ BackToAccept
    /\ UNCHANGED <<exited, lock, pvSockaddr, num_threads, tables, net, adr, scan>>

\* pthread_create failed: slot and socket go without the lock ...
CreateFails ==
    /\ "pthread_create" \in Failures
    /\ mainpc = "create"
    /\ Unregister(accepted)
    /\ Close(accepted)
    /\ mainpc' = "uncount"
    /\ accepted' = -1
    /\ UNCHANGED <<exited, lock, pvSockaddr, num_threads, adrTable, threadVars>>

\* ... and the count is taken back under it.
Uncount ==
    /\ mainpc = "uncount" /\ lock = Nobody
    /\ num_threads' = num_threads - 1
    /\ mainpc' = "accept"
    /\ UNCHANGED <<exited, lock, accepted, pvSockaddr, tables, net, threadVars>>
----------------------------------------------------------------------------
(* A client thread: send_thread and the application's pvMain *)

Goto(t, l) == pc' = [pc EXCEPT ![t] = l]

\* Steps of a thread that change nothing but the thread itself.
ThreadLocal == UNCHANGED <<exited, lock, mainVars, pvSockaddr, num_threads, tables, net>>

\* The version has been sent; the thread reads the global address.
ReadAddress(t) ==
    /\ pc[t] = "start"
    /\ adr' = [adr EXCEPT ![t] = pvSockaddr]
    /\ met' = [met EXCEPT ![t] = Capped(Cardinality(Open \ {sock[t]}))]
    /\ Goto(t, "count")
    /\ ThreadLocal /\ UNCHANGED <<sock, index, counts>>

\* The loop that counts the clients looks at the next entry of the table,
\* without the lock: entries it has passed, and those to come, may change.
CountEntry(t) ==
    /\ pc[t] = "count" /\ index[t] <= maxClients
    /\ LET e == adrTable[index[t]]
       IN  counts' = [counts EXCEPT ![t] =
                        IF e.s = 0 THEN @
                        ELSE [all  |-> @.all + 1,
                              same |-> IF e.adr = adr[t] THEN @.same + 1 ELSE @.same]]
    /\ index' = [index EXCEPT ![t] = @ + 1]
    /\ ThreadLocal /\ UNCHANGED <<pc, sock, adr, met>>

WithinLimits(t) ==
    /\ counts[t].all < maxClients
    /\ counts[t].same < maxClientsPerIpAdr

\* After the loop: too many clients, or on to the loop that makes the entry.
CheckLimits(t) ==
    /\ pc[t] = "count" /\ index[t] > maxClients
    /\ Goto(t, IF WithinLimits(t) THEN "pick" ELSE "fatal")
    /\ index' = [index EXCEPT ![t] = 1]
    /\ counts' = [counts EXCEPT ![t] = NoCounts]
    /\ met' = [met EXCEPT ![t] = 0]
    /\ ThreadLocal /\ UNCHANGED <<sock, adr>>

\* That loop looks at the next entry: it is free, it is not, or there is none.
PickEntry(t) ==
    /\ pc[t] = "pick"
    /\ \/ /\ index[t] <= maxClients /\ adrTable[index[t]].s = 0
          /\ Goto(t, "insert")
          /\ UNCHANGED index
       \/ /\ index[t] <= maxClients /\ adrTable[index[t]].s # 0
          /\ index' = [index EXCEPT ![t] = @ + 1]
          /\ UNCHANGED pc
       \/ /\ index[t] > maxClients
          /\ index' = [index EXCEPT ![t] = 1]
          /\ Goto(t, "access")
    /\ ThreadLocal /\ UNCHANGED <<sock, adr, counts, met>>

\* The entry found free is filled in, still without the lock.
InsertEntry(t) ==
    /\ pc[t] = "insert"
    /\ adrTable' = [adrTable EXCEPT ![index[t]] = [s |-> sock[t], adr |-> adr[t]]]
    /\ index' = [index EXCEPT ![t] = 1]
    /\ Goto(t, "access")
    /\ UNCHANGED <<exited, lock, mainVars, pvSockaddr, num_threads, clientsocket, net,
                   sock, adr, counts, met>>

CheckAccess(t) ==
    /\ pc[t] = "access"
    /\ \/ adr[t] \in Allowed /\ Goto(t, "run")
       \/ adr[t] \in Denied /\ Goto(t, "fatal")
    /\ adr' = [adr EXCEPT ![t] = NoAddress]
    /\ ThreadLocal /\ UNCHANGED <<sock, scan>>

\* send, recv or select fail, or 50 seconds pass without @hello.
NoticeLoss(t) ==
    /\ \/ pc[t] \in {"start", "run"}
       \/ pc[t] = "locked" /\ "calls" \in AppLocks
    /\ ~alive[sock[t]]
    /\ Goto(t, "fatal")
    /\ ThreadLocal /\ UNCHANGED <<sock, adr, scan>>

\* The application brackets accesses to global data with pvlock, pvunlock.
AppLock(t) ==
    /\ pc[t] = "run" /\ lock = Nobody
    /\ lock' = t
    /\ Goto(t, "locked")
    /\ UNCHANGED <<exited, mainVars, pvSockaddr, num_threads, tables, net, sock, adr, scan>>

AppUnlock(t) ==
    /\ pc[t] = "locked"
    /\ lock' = Nobody
    /\ Goto(t, "run")
    /\ UNCHANGED <<exited, mainVars, pvSockaddr, num_threads, tables, net, sock, adr, scan>>

\* pvMain returns, send_thread returns: the thread ends and cleans up nothing.
MainReturn(t) ==
    /\ MainReturns
    /\ pc[t] = "run"
    /\ Goto(t, "returned")
    /\ ThreadLocal /\ UNCHANGED <<sock, adr, scan>>

----------------------------------------------------------------------------
(* pvThreadFatal *)

\* Mutant: num_threads is decremented before the lock is taken.
FatalBeginUncounted(t) ==
    /\ pc[t] = "fatal" /\ lock = Nobody
    /\ lock' = t
    /\ Goto(t, "cleanup")
    /\ UNCHANGED <<exited, mainVars, pvSockaddr, num_threads, tables, net, sock, adr, scan>>

\* pvlock, which is not recursive; the thread is no longer counted.
FatalBegin(t) ==
    /\ pc[t] = "fatal" /\ lock = Nobody
    /\ lock' = t
    /\ num_threads' = num_threads - 1
    /\ Goto(t, "cleanup")
    /\ UNCHANGED <<exited, mainVars, pvSockaddr, tables, net, sock, adr, scan>>

\* Mutant: the table entry is left behind.
FatalFinishKeepsEntry(t) ==
    /\ pc[t] = "cleanup" /\ "cleanup" \notin AppLocks
    /\ Unregister(sock[t])
    /\ Close(sock[t])
    /\ lock' = Nobody
    /\ Goto(t, "ending")
    /\ UNCHANGED <<exited, mainVars, pvSockaddr, num_threads, adrTable, sock, adr, scan>>

\* Mutant: the socket is closed, its slot is not freed.
FatalFinishKeepsSlot(t) ==
    /\ pc[t] = "cleanup" /\ "cleanup" \notin AppLocks
    /\ Forget(sock[t])
    /\ Close(sock[t])
    /\ lock' = Nobody
    /\ Goto(t, "ending")
    /\ UNCHANGED <<exited, mainVars, pvSockaddr, num_threads, clientsocket, sock, adr, scan>>

\* Mutant: the lock is released only by a pvlock count that is above zero.
FatalFinishKeepsLock(t) ==
    /\ pc[t] = "cleanup" /\ "cleanup" \notin AppLocks
    /\ Forget(sock[t])
    /\ Unregister(sock[t])
    /\ Close(sock[t])
    /\ Goto(t, "ending")
    /\ UNCHANGED <<exited, lock, mainVars, pvSockaddr, num_threads, sock, adr, scan>>

\* The cleanup callback returns (unless it waits for the lock its own thread
\* holds), both tables forget the socket, it is closed, the lock released.
FatalFinish(t) ==
    /\ pc[t] = "cleanup" /\ "cleanup" \notin AppLocks
    /\ Forget(sock[t])
    /\ Unregister(sock[t])
    /\ Close(sock[t])
    /\ lock' = Nobody
    /\ Goto(t, "ending")
    /\ UNCHANGED <<exited, mainVars, pvSockaddr, num_threads, sock, adr, scan>>

\* Mutant: off by one in the test for the last thread.
ThreadEndNeverLast(t) ==
    /\ pc[t] = "ending"
    /\ exited' = (ExitAfterLast /\ num_threads < 0)
    /\ Goto(t, "none")
    /\ sock' = [sock EXCEPT ![t] = -1]
    /\ adr' = [adr EXCEPT ![t] = NoAddress]
    /\ UNCHANGED <<lock, mainVars, pvSockaddr, num_threads, tables, net, scan>>

\* After the unlock: was it the last one?  The thread ends, or the process.
ThreadEnd(t) ==
    /\ pc[t] = "ending"
    /\ exited' = (ExitAfterLast /\ num_threads <= 0)
    /\ Goto(t, "none")
    /\ sock' = [sock EXCEPT ![t] = -1]
    /\ adr' = [adr EXCEPT ![t] = NoAddress]
    /\ UNCHANGED <<lock, mainVars, pvSockaddr, num_threads, tables, net, scan>>

----------------------------------------------------------------------------
\* The client closes the connection, crashes or falls silent.
Disconnect(s) ==
    /\ alive[s]
    /\ alive' = [alive EXCEPT ![s] = FALSE]
    /\ UNCHANGED <<exited, lock, mainVars, pvSockaddr, num_threads, tables, peer, threadVars>>

MainStep ==
    \/ Register \/ RegisterFull
    \/ Count \/ CountNoMemory \/ TakeBackCount \/ DropClient
    \/ \E t \in Threads : Create(t)
    \/ CreateFails \/ Uncount

ThreadStep(t) ==
    \/ ReadAddress(t) \/ CountEntry(t) \/ CheckLimits(t)
    \/ PickEntry(t) \/ InsertEntry(t)
    \/ CheckAccess(t) \/ NoticeLoss(t)
    \/ FatalBegin(t) \/ FatalFinish(t) \/ ThreadEnd(t)

Next ==
    /\ ~exited
    /\ \/ AcceptFails
       \/ \E s \in Sockets, a \in Addresses : Accept(s, a)
       \/ MainStep
       \/ \E t \in Threads :
            ThreadStep(t) \/ AppLock(t) \/ AppUnlock(t) \/ MainReturn(t)
       \/ \E s \in Sockets : Disconnect(s)

Spec == Init /\ [][Next]_vars

\* Every thread gets the processor, the application leaves its critical
\* sections, and a mutex that is released again and again is granted at last.
FairSpec ==
    /\ Spec
    /\ SF_vars(~exited /\ MainStep)
    /\ \A t \in Threads :
        /\ SF_vars(~exited /\ ThreadStep(t))
        /\ WF_vars(~exited /\ AppUnlock(t))

----------------------------------------------------------------------------
(* Properties *)

InThread(s) == {t \in Threads : pc[t] \notin {"none", "ending"} /\ sock[t] = s}

\* Sockets in the hands of the accept loop with a slot of their own.
InMain ==
    IF mainpc \in {"count", "create", "nocount", "nomem"} THEN {accepted} ELSE {}

\* A descriptor that the kernel hands out again is never shared: every slot
\* belongs to one session, every session has one slot and an open socket.
SlotPerSession ==
    \A s \in Sockets :
        /\ Cardinality({i \in Slots : clientsocket[i] = s})
             = Cardinality(InThread(s)) + Cardinality(InMain \cap {s})
        /\ Cardinality({i \in Slots : clientsocket[i] = s}) <= 1
        /\ (\E i \in Slots : clientsocket[i] = s) => s \in Open

\* num_threads counts the sessions that are not over, wherever creation
\* fails and however terminations overlap.
ThreadsCounted ==
    num_threads = Cardinality({t \in Threads : pc[t] \notin {"none", "cleanup", "ending"}})
                    + (IF mainpc \in {"create", "nocount", "uncount"} THEN 1 ELSE 0)

\* No entry of the address table outlives the session it was made for.
NoGhostClient ==
    \A i \in Slots : adrTable[i].s # 0 =>
        \E t \in InThread(adrTable[i].s) :
            pc[t] \notin {"start", "count", "pick", "insert"}

\* The deadlock of the lock that is not recursive: a thread whose client is
\* lost while the application holds pvlock asks for it again in pvThreadFatal,
\* and so does a cleanup callback that uses pvlock.
\* The counter my_pvlock_count, "used to avoid deadlock by repeated call of
\* pvlock" (processviewserver.h:512), is set to zero and never tested.
WaitsForItself ==
    \E t \in Threads :
        /\ lock = t
        /\ \/ pc[t] = "fatal"
           \/ pc[t] = "cleanup" /\ "cleanup" \in AppLocks

\* A session whose client is gone gives its slot back, unless everybody waits
\* for a thread that waits for itself.
SlotReclaimed ==
    \A i \in Slots, s \in Sockets :
        clientsocket[i] = s /\ ~alive[s] ~> clientsocket[i] # s \/ exited \/ WaitsForItself

\* A thread that must end does end: whatever fails, and whoever takes the
\* lock, there is no deadlock of pvlock but that of a thread with itself.
ThreadsTerminate ==
    \A t \in Threads :
        pc[t] \in {"fatal", "cleanup"} ~> pc[t] = "none" \/ exited \/ WaitsForItself

\* The last count is one that pvCreateThread takes back (no memory, no thread):
\* who tests num_threads now does not see that no session is left, and
\* pvCreateThread does not look whether it was the last.
CountTakenBack == mainpc \in {"nocount", "uncount"} /\ num_threads = 1

\* With -exit_after_last_client_terminates a server that has had clients and
\* has none left stays only if it took back the last count itself.
ExitsAfterLast ==
    <>[](num_threads = 0) =>
        [](num_threads = 0) \/ <>exited \/ <>CountTakenBack

\* A client is refused only if so many others as the limit allows were
\* connected while its thread counted them, at once or one after the other:
\* the unlocked loop counts no client twice, and no session that was over
\* before it began.  (The limits are those the code computes, Limit.)
RefusedOnlyAtLimit ==
    [][\A t \in Threads : pc[t] = "count" /\ pc'[t] = "fatal" =>
        met[t] >= maxClients \/ met[t] >= maxClientsPerIpAdr]_vars

\* processviewserver.h:632-634: the table of connected clients holds the
\* "remote ip address" of each socket.
AddressOfClient ==
    \A i \in Slots : adrTable[i].s # 0 => adrTable[i].adr = peer[adrTable[i].s]

\* util.cpp:161 and the usage text at util.cpp:1203: the process exits after
\* the LAST client, so a thread never ends it while a client is connected.
ExitsOnlyWhenEmpty ==
    [][\A t \in Threads : pc[t] = "ending" /\ pc'[t] = "none" /\ exited' =>
        \A s \in Open : ~alive[s]]_vars
=============================================================================
