---------------------------- MODULE DataProvider ----------------------------
(***************************************************************************)
(* rlDataProvider and its clients (rllib/lib/rldataprovider.cpp).          *)
(*                                                                         *)
(* A table of integers that clients reach over TCP, each connection with a *)
(* thread of its own that runs rlDataProvider::run.  Values are passed     *)
(* from client to client through one integer where -1 means empty          *)
(* (setIntAndWaitForReset, getIntAndReset); a third kind of call waits for *)
(* the semaphore of integer 0.  A put has no answer; a get is answered, or *)
(* times out after a second and the client connects again, or, with the    *)
(* semaphore, times out after an hour and the client does not.             *)
(***************************************************************************)
EXTENDS Semaphore, Sequences

CONSTANTS
    Clients,    \* the clients, each with an rlSocket
    Putters,    \* those that call setIntAndWaitForReset
    Waiters,    \* those that call getInt0Semaphore
    MaxPuts,    \* bound: values put
    MaxWaits,   \* bound: calls of getInt0Semaphore
    MaxNews,    \* bound: calls of setInt0Semaphore
    MaxFaults   \* bound: broken connections and answers that are late

\* A thread of the provider is known by its connection.  Those of connections
\* that the clients have closed may live on, blocked in a put or a wait.
ASSUME DataProviderAssumption ==
    /\ Threads = 1 .. Cardinality(Threads)
    /\ IsFiniteSet(Clients)
    /\ Putters \cup Waiters \subseteq Clients
    /\ {MaxPuts, MaxWaits, MaxNews, MaxFaults} \subseteq Nat

None   == <<>>
Empty  == -1                \* what marks the integer as empty
Values == 0 .. MaxPuts      \* 0 is there from the beginning

\* The lines a client sends: a put with its value, and two kinds of get,
\* getIntAndReset and getInt0Semaphore.  getInt, getFloat and getString are
\* as getIntAndReset but leave the value where it is.
Gets    == {<<"take">>, <<"wait">>}
Request == ({"put"} \X Values) \cup Gets

VARIABLES
    conn,       \* the connection of each client, 0: none (rlSocket.s = -1)
    asked,      \* the get each client waits for
    last,       \* the value in rlInterpreter.line after the last get
    alive,      \* connections the provider has a thread for
    shut,       \* those of them that are closed or broken
    requests,   \* lines on their way to the thread
    answers,    \* lines on their way to the client
    doing,      \* the line in the hands of the thread
    slot,       \* ints[id]
    taken,      \* how often each value was returned by getIntAndReset
    puts, waits, news, faults,      \* counted for the bounds
    disturbed,  \* a call has timed out or a connection broken
    late,       \* clients that have timed out waiting for the semaphore
    stale       \* a client was given the answer before the last

counts   == <<puts, waits, news, faults>>
line     == <<alive, shut, disturbed, requests, answers>>
clientof == <<conn, asked, last, taken, late, stale>>
vars == <<semVars, clientof, line, doing, slot, counts>>

TypeOK ==
    /\ SemTypeOK
    /\ conn \in [Clients -> {0} \cup Threads]
    /\ asked \in [Clients -> Gets \cup {None}]
    /\ last \in [Clients -> Values \cup {Empty}]
    /\ shut \subseteq alive /\ alive \subseteq Threads
    /\ requests \in [Threads -> Seq(Request)]
    /\ answers \in [Threads -> Seq(Values \cup {Empty})]
    /\ doing \in [Threads -> Request \cup {None}]
    /\ slot \in Values \cup {Empty}
    /\ taken \in [Values -> Nat]
    /\ puts \in 0 .. MaxPuts /\ waits \in 0 .. MaxWaits
    /\ news \in 0 .. MaxNews /\ faults \in 0 .. MaxFaults
    /\ late \subseteq Clients
    /\ {stale, disturbed} \subseteq BOOLEAN

Init ==
    /\ SemInit
    /\ conn = [c \in Clients |-> 0]
    /\ asked = [c \in Clients |-> None]
    /\ last = [c \in Clients |-> Empty]
    /\ alive = {} /\ shut = {}
    /\ requests = [k \in Threads |-> <<>>]
    /\ answers = [k \in Threads |-> <<>>]
    /\ doing = [k \in Threads |-> None]
    /\ slot = 0
    /\ taken = [v \in Values |-> 0]
    /\ puts = 0 /\ waits = 0 /\ news = 0 /\ faults = 0
    /\ late = {}
    /\ stale = FALSE /\ disturbed = FALSE

Fault == faults < MaxFaults /\ faults' = faults + 1

Unused == Threads \ (alive \cup {conn[c] : c \in Clients})

\* Connections on which neither side will find an error.
Up == alive \ shut

----------------------------------------------------------------------------
(* The clients *)

\* The application connects; the provider accepts and starts a thread.
Connect(c) ==
    /\ conn[c] = 0
    /\ Unused # {}
    /\ LET k == CHOOSE i \in Unused : \A j \in Unused : i <= j IN
         /\ conn' = [conn EXCEPT ![c] = k]
         /\ alive' = alive \cup {k}
    /\ late' = late \ {c}
    /\ UNCHANGED <<semVars, asked, last, taken, stale, shut, disturbed, requests,
                   answers, doing, slot, counts>>

\* What is sent on a connection that is broken is lost.
Sent(k, q) ==
    requests' = IF k \in Up THEN [requests EXCEPT ![k] = Append(@, q)]
                ELSE requests

\* setIntAndWaitForReset: the client does not wait for anything.  (When the
\* send fails it is told so: as SendFails with "wait".)
Put(c) ==
    /\ c \in Putters
    /\ conn[c] # 0 /\ asked[c] = None
    /\ puts < MaxPuts
    /\ puts' = puts + 1
    /\ Sent(conn[c], <<"put", puts + 1>>)
    /\ UNCHANGED <<semVars, clientof, alive, shut, disturbed, answers, doing, slot, waits,
                   news, faults>>

\* getIntAndReset or getInt0Semaphore is called.
Ask(c, kind) ==
    /\ conn[c] # 0 /\ asked[c] = None
    /\ kind = "wait" => c \in Waiters /\ waits < MaxWaits
    /\ waits' = IF kind = "wait" THEN waits + 1 ELSE waits
    /\ asked' = [asked EXCEPT ![c] = <<kind>>]
    /\ Sent(conn[c], <<kind>>)
    /\ UNCHANGED <<semVars, conn, last, taken, late, stale, alive, shut, disturbed,
                   answers, doing, slot, puts, news, faults>>

\* send() fails: readStr returns -1 without touching the line, in which the
\* answer before is found again and returned.
SendFails(c, kind) ==
    /\ conn[c] \notin Up \cup {0} /\ asked[c] = None
    /\ conn' = [conn EXCEPT ![c] = 0]
    /\ IF kind = "take" /\ last[c] # Empty
       THEN /\ taken' = [taken EXCEPT ![last[c]] = @ + 1]
            /\ stale' = TRUE
       ELSE UNCHANGED <<taken, stale>>
    /\ UNCHANGED <<semVars, asked, last, late, line, doing, slot, counts>>

\* A line is read; nothing in it tells to which request it belongs.
Answered(c) ==
    /\ asked[c] # None /\ conn[c] # 0
    /\ answers[conn[c]] # <<>>
    /\ LET v == Head(answers[conn[c]]) IN
         /\ last' = [last EXCEPT ![c] = v]
         /\ taken' = IF asked[c][1] = "take" /\ v # Empty
                     THEN [taken EXCEPT ![v] = @ + 1] ELSE taken
    /\ answers' = [answers EXCEPT ![conn[c]] = Tail(@)]
    /\ asked' = [asked EXCEPT ![c] = None]
    /\ UNCHANGED <<semVars, conn, late, stale, alive, shut, disturbed, requests,
                   doing, slot, counts>>

\* recv() fails: the line is made empty and the socket closed.  (The line is cut
\* where the connection broke; here an answer comes as a whole or not at all.)
ReadFails(c) ==
    /\ asked[c] # None
    /\ conn[c] \notin Up \cup {0}
    /\ answers[conn[c]] = <<>>
    /\ last' = [last EXCEPT ![c] = Empty]
    /\ conn' = [conn EXCEPT ![c] = 0]
    /\ asked' = [asked EXCEPT ![c] = None]
    /\ UNCHANGED <<semVars, taken, late, stale, line, doing, slot, counts>>

\* No answer comes as long as the thread waits for the integer to be reset or
\* for the semaphore.
Blocked(k) ==
    doing[k] # None /\ (\/ doing[k][1] = "put" /\ slot # Empty
                        \/ doing[k][1] = "wait" /\ nready = 0)

\* Otherwise a time-out is a fault.
MayTimeOut(c) ==
    /\ asked[c] # None /\ conn[c] # 0
    /\ answers[conn[c]] = <<>>
    /\ IF Blocked(conn[c]) THEN UNCHANGED faults ELSE Fault

\* Mutant: the connection is kept after a time-out.
TimeoutKeepsLine(c) ==
    /\ MayTimeOut(c)
    /\ asked[c][1] # "wait"
    /\ asked' = [asked EXCEPT ![c] = None]
    /\ UNCHANGED <<semVars, conn, last, taken, late, stale, line, doing,
                   slot, puts, waits, news>>

\* A second without an answer: disconnect() and connect().
Timeout(c) ==
    /\ MayTimeOut(c)
    /\ asked[c][1] # "wait"
    /\ Unused # {}
    /\ asked' = [asked EXCEPT ![c] = None]
    /\ LET k == CHOOSE i \in Unused : \A j \in Unused : i <= j IN
         /\ conn' = [conn EXCEPT ![c] = k]
         /\ alive' = alive \cup {k}
    /\ shut' = shut \cup ({conn[c]} \cap alive)
    /\ disturbed' = TRUE
    /\ answers' = [answers EXCEPT ![conn[c]] = <<>>]
    /\ late' = late \ {c}
    /\ UNCHANGED <<semVars, last, taken, stale, requests, doing, slot,
                   puts, waits, news>>

\* An hour without an answer: the connection is kept.
WaitTimeout(c) ==
    /\ MayTimeOut(c)
    /\ asked[c][1] = "wait"
    /\ asked' = [asked EXCEPT ![c] = None]
    /\ late' = late \cup {c}
    /\ disturbed' = TRUE
    /\ UNCHANGED <<semVars, conn, last, taken, stale, alive, shut,
                   requests, answers, doing, slot, puts, waits, news>>

\* The connection of c breaks; what is on its way back may be lost.
Break(c) ==
    /\ conn[c] \in Up
    /\ Fault
    /\ shut' = shut \cup {conn[c]}
    /\ disturbed' = TRUE
    /\ answers' \in {answers, [answers EXCEPT ![conn[c]] = <<>>]}
    /\ UNCHANGED <<semVars, clientof, alive, requests, doing, slot, puts,
                   waits, news>>

----------------------------------------------------------------------------
(* The provider *)

\* setInt0Semaphore, called by the program that owns the provider.
SetInt0Semaphore ==
    /\ news < MaxNews
    /\ news' = news + 1
    /\ Increment
    /\ UNCHANGED <<clientof, line, doing, slot, puts, waits, faults>>

\* run(): a line is read that the thread may have to wait with.
Receive(k) ==
    /\ doing[k] = None
    /\ requests[k] # <<>>
    /\ Head(requests[k])[1] \in {"put", "wait"}
    /\ doing' = [doing EXCEPT ![k] = Head(requests[k])]
    /\ requests' = [requests EXCEPT ![k] = Tail(@)]
    /\ UNCHANGED <<semVars, clientof, alive, shut, disturbed, answers, slot,
                   counts>>

\* The answer.  On a closed connection it is lost.
Reply(k, v) ==
    answers' = IF k \in shut THEN answers
               ELSE [answers EXCEPT ![k] = Append(@, v)]

\* run(): a line is read, done and answered without waiting.
TakeAndReset(k) ==
    /\ doing[k] = None
    /\ requests[k] # <<>> /\ Head(requests[k]) = <<"take">>
    /\ requests' = [requests EXCEPT ![k] = Tail(@)]
    /\ Reply(k, slot)
    /\ slot' = Empty
    /\ UNCHANGED <<semVars, clientof, alive, shut, disturbed, doing, counts>>

Doing(k, kind) == doing[k] # None /\ doing[k][1] = kind

\* Mutant: the value is stored whatever is there.
StoreOver(k) ==
    /\ Doing(k, "put")
    /\ slot' = doing[k][2]
    /\ doing' = [doing EXCEPT ![k] = None]
    /\ UNCHANGED <<semVars, clientof, line, counts>>

\* A test of setIntAndWaitForReset, every 10 ms, finds the integer empty.
Store(k) ==
    /\ Doing(k, "put")
    /\ slot = Empty
    /\ slot' = doing[k][2]
    /\ doing' = [doing EXCEPT ![k] = None]
    /\ UNCHANGED <<semVars, clientof, line, counts>>

SleepOnSemaphore(k) ==
    /\ Doing(k, "wait")
    /\ Sleep(k) \/ SpuriousWakeup(k)
    /\ UNCHANGED <<clientof, line, doing, slot, counts>>

PassSemaphore(k) ==
    /\ Doing(k, "wait")
    /\ Pass(k)
    /\ Reply(k, Empty)
    /\ doing' = [doing EXCEPT ![k] = None]
    /\ UNCHANGED <<clientof, alive, shut, disturbed, requests, slot, counts>>

\* Reading or writing fails and the thread ends.  Lines that have arrived on
\* the closed connection before may be done first, or be lost.
WorkerEnds(k) ==
    /\ k \in shut
    /\ doing[k] = None
    /\ alive' = alive \ {k}
    /\ shut' = shut \ {k}
    /\ requests' = [requests EXCEPT ![k] = <<>>]
    /\ answers' = [answers EXCEPT ![k] = <<>>]
    /\ UNCHANGED <<semVars, clientof, disturbed, doing, slot, counts>>

----------------------------------------------------------------------------
Worker(k) ==
    \/ Receive(k) \/ Store(k) \/ TakeAndReset(k)
    \/ PassSemaphore(k) \/ WorkerEnds(k)

Next ==
    \/ \E c \in Clients :
         \/ Connect(c) \/ Put(c)
         \/ \E kind \in {"take", "wait"} :
              Ask(c, kind) \/ SendFails(c, kind)
         \/ Answered(c) \/ ReadFails(c) \/ Timeout(c) \/ WaitTimeout(c)
         \/ Break(c)
    \/ SetInt0Semaphore
    \/ \E k \in Threads : Worker(k) \/ SleepOnSemaphore(k)

Spec == Init /\ [][Next]_vars

\* The threads run; somebody keeps asking for values; answers and errors are
\* read, and a time-out comes when there is nothing to read.  (A polling put
\* that finds the integer full again and again has no more than weak fairness.)
FairSpec ==
    /\ Spec
    /\ \A k \in Threads : WF_vars(Worker(k))
    /\ WF_vars(\E c \in Clients : Ask(c, "take"))
    /\ \A c \in Clients :
         WF_vars(\/ Connect(c) \/ SendFails(c, "take")
                 \/ Answered(c) \/ ReadFails(c)
                 \/ (Timeout(c) \/ WaitTimeout(c)) /\ UNCHANGED faults)

----------------------------------------------------------------------------
(* Properties *)

\* The places in s that hold x.
In(s, x) == {i \in DOMAIN s : s[i] = x}

\* What the client of connection k has still to get: answers on their way to
\* it, the get in the thread's hands and those that wait.
Due(k) ==
    ({"answer"} \X DOMAIN answers[k])
    \cup ({"doing"} \X ({doing[k]} \cap Gets))
    \cup ({"request"} \X {i \in DOMAIN requests[k] : requests[k][i] \in Gets})

\* The line a client reads is the answer to what it has asked, although lines
\* have no identifier: after a time-out it reads from a new connection, and
\* what the old one still brings is gone.  Only getInt0Semaphore keeps the
\* connection after its time-out, and from then on every answer may be that
\* of an earlier request.
AnswerMatches ==
    \A c \in Clients : conn[c] \in Up /\ c \notin late =>
        Cardinality(Due(conn[c])) = IF asked[c] = None THEN 0 ELSE 1

\* Where the value v is.
Places(v) ==
    ({"slot"} \X ({slot} \cap {v}) \X {0})
    \cup ({"taken"} \X {v} \X (1 .. taken[v]))
    \cup ({"doing"} \X In(doing, <<"put", v>>) \X {0})
    \cup (UNION {{"request"} \X {k} \X In(requests[k], <<"put", v>>) : k \in Threads})
    \cup (UNION {{"answer"} \X {k} \X In(answers[k], v) : k \in Threads})

\* Whatever the clients and the threads of dead connections do, a value that
\* is put is never taken twice, and it is not lost as long as
\* no call times out and no connection breaks.  It is taken again only by a
\* getIntAndReset whose send fails, which returns the answer of the call before.
ExactlyOnce ==
    \A v \in 0 .. puts :
        /\ ~stale => Cardinality(Places(v)) <= 1
        /\ Places(v) = {} => disturbed

\* A put in the hands of a thread is stored after a while, even when the only
\* clients that could empty the integer have queued their getIntAndReset behind
\* that put on the same connection: they time out and come back on another.
PutServed ==
    \A v \in 1 .. MaxPuts : (\E k \in Threads : doing[k] = <<"put", v>>)
                            ~> ~(\E k \in Threads : doing[k] = <<"put", v>>)
=============================================================================
