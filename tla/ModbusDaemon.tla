---------------------------- MODULE ModbusDaemon ----------------------------
(***************************************************************************)
(* The Modbus daemon that pvdevelop generates (pvdevelop/gmodbus.cpp, TCP  *)
(* variant) with the rllib classes it is made of: rlModbus, rlSocket,      *)
(* rlMailbox, rlSharedMemory, and rlModbusClient on the pvserver's side.   *)
(*                                                                         *)
(* The main thread reads the regions of the PLC one after the other and    *)
(* stores them in shared memory; the reader thread takes commands from the *)
(* mailbox and writes them to the PLC; a watchdog starts the program anew  *)
(* when the main thread hangs.  Both threads use one connection, under     *)
(* thread.lock.  A client queues commands; the threads of a pvserver, one  *)
(* for each of its clients, read the shared memory through one object.     *)
(* The PLC and the network may be slow, silent or unreachable.             *)
(***************************************************************************)
EXTENDS Integers, Sequences, FiniteSets

CONSTANTS
    N,          \* the number of "cycle" lines in the .mkmodbus file
    Targets,    \* the regions that commands write
    Sizes,      \* the sizes of commands: "fits", "big" (too long for the
                \* telegram), "long" (longer than the reader's buffer)
    Viewers,    \* the number of client threads of the pvserver
    QueueMax,   \* messages the kernel's message queue can hold
    MaxCommands,\* bound: commands queued
    MaxFaults   \* bound: faults of the PLC and the network

ASSUME ModbusAssumption ==
    /\ N \in Nat \ {0}
    /\ Targets \subseteq 1 .. N
    /\ Sizes \subseteq {"fits", "big", "long"}
    /\ Viewers \in Nat
    /\ QueueMax \in Nat \ {0}
    /\ MaxCommands \in Nat
    /\ MaxFaults \in Nat

Regions == 1 .. N
Daemon  == {"main", "reader"}   \* the threads that talk to the PLC
Nobody  == "nobody"
None    == <<>>

\* A request: what it asks for, the region, and a bit that tells it from the
\* request before it (the code sends no transaction identifier).
Request == {"read", "command"} \X Regions \X {0, 1}

\* A command of a client: size, region, and the number of the daemon's
\* restarts when it was queued.
Command == Sizes \X Targets \X (0 .. MaxFaults)

\* A part of an answer: rlModbus reads six, two and one bytes and then the
\* data.  An exception ends after the first nine.
Part == Request \X {"head", "body", "exception"} \X (0 .. MaxCommands)

\* A value in shared memory: the region it was read from and its version.
Value == Regions \X (0 .. MaxCommands)

VARIABLES
    pc,         \* where the threads and processes are
    k,          \* the cycle the main thread is in; also its offset in shm
    request,    \* the request of each daemon thread
    got,        \* what response() gave the main thread, None after an error
    command,    \* the command in the reader's hands
    lock,       \* the holder of thread.lock
    connected,  \* rlSocket.s # -1
    asked,      \* requests on the connection the PLC has not looked at
    answers,    \* parts of answers on their way
    late,       \* per region, commands sent over connections closed since
    serial,     \* the bit of the next request
    mailbox,    \* the kernel's message queue
    writing,    \* size and region of the command the client is queueing
    shm,        \* the regions in shared memory
    flock,      \* which process has locked the file: "daemon" or "pvserver"
    viewing,    \* how many threads of the pvserver are copying
    shared,     \* one of them began while another was copying (history)
    writeErrors,\* writeErrorCount # 0
    reg,        \* the PLC: how often each region was written
    starts,     \* restarts of the daemon
    queued,     \* commands queued so far
    faults      \* faults so far

line   == <<connected, asked, answers, late, serial>>
client == <<mailbox, writing, queued>>
views  == <<viewing, shared>>
memory == <<shm, flock, views>>
vars == <<pc, k, request, got, command, lock, line, client, memory,
          writeErrors, reg, starts, faults>>

TypeOK ==
    /\ pc \in [{"main", "reader", "client"} ->
                 {"round", "lock", "request", "head", "body", "hung", "store",
                  "copy", "clear", "read", "ended", "idle", "send"}]
    /\ k \in Regions
    /\ request \in [Daemon -> Request \cup {None}]
    /\ got \in Value \cup {None}
    /\ command \in Command \cup {None}
    /\ lock \in Daemon \cup {Nobody}
    /\ connected \in BOOLEAN
    /\ asked \in Seq(Request)
    /\ answers \in Seq(Part)
    /\ late \in [Regions -> 0 .. MaxCommands]
    /\ serial \in {0, 1}
    /\ mailbox \in Seq(Command)
    /\ writing \in (Sizes \X Targets) \cup {None}
    /\ shm \in [Regions -> Value \cup {None}]
    /\ flock \in {"daemon", "pvserver", Nobody}
    /\ viewing \in 0 .. Viewers /\ shared \in BOOLEAN
    /\ writeErrors \in BOOLEAN
    /\ reg \in [Regions -> 0 .. MaxCommands]
    /\ starts \in 0 .. MaxFaults
    /\ queued \in 0 .. MaxCommands
    /\ faults \in 0 .. MaxFaults

Init ==
    /\ pc = [t \in {"main", "reader", "client"} |->
               CASE t = "main" -> "round" [] t = "reader" -> "clear"
                 [] t = "client" -> "idle"]
    /\ k = 1
    /\ request = [t \in Daemon |-> None]
    /\ got = None
    /\ command = None
    /\ lock = Nobody
    /\ connected = FALSE
    /\ asked = <<>>
    /\ answers = <<>>
    /\ late = [r \in Regions |-> 0]
    /\ serial = 0
    /\ mailbox = <<>>
    /\ writing = None
    /\ shm = [r \in Regions |-> None]
    /\ flock = Nobody
    /\ viewing = 0
    /\ shared = FALSE
    /\ writeErrors = FALSE
    /\ reg = [r \in Regions |-> 0]
    /\ starts = 0
    /\ queued = 0
    /\ faults = 0

Goto(t, l) == pc' = [pc EXCEPT ![t] = l]

Fault == faults < MaxFaults /\ faults' = faults + 1

----------------------------------------------------------------------------
(* rlSharedMemory: flock excludes processes, not the threads of one: they  *)
(* share the open file, and the first to unlock it unlocks it for all.     *)

FlockGranted(process) == flock \in {Nobody, process}

FlockReleased(process) == IF flock = process THEN Nobody ELSE flock

\* Mutant: write() copies without waiting for the lock.
StoreBeginsUnlocked ==
    /\ pc["main"] = "store"
    /\ flock' = IF flock = Nobody THEN "daemon" ELSE flock
    /\ Goto("main", "copy")
    /\ UNCHANGED <<k, request, got, command, lock, line, client, shm, views,
                   writeErrors, reg, starts, faults>>

\* The main thread gets the lock and begins to copy a region, or its count of
\* errors, into the shared memory.
StoreBegins ==
    /\ pc["main"] = "store"
    /\ FlockGranted("daemon")
    /\ flock' = "daemon"
    /\ Goto("main", "copy")
    /\ UNCHANGED <<k, request, got, command, lock, line, client, shm, views,
                   writeErrors, reg, starts, faults>>

\* It has copied and unlocks.  After an error the cycles start over.
StoreEnds ==
    /\ pc["main"] = "copy"
    /\ flock' = FlockReleased("daemon")
    /\ shm' = IF got = None THEN shm ELSE [shm EXCEPT ![k] = got]
    /\ got' = None
    /\ IF got # None /\ k < N
       THEN k' = k + 1 /\ Goto("main", "lock")
       ELSE UNCHANGED k /\ Goto("main", "round")
    /\ UNCHANGED <<request, command, lock, line, client, views, writeErrors, reg,
                   starts, faults>>

\* The reader thread writes its count of errors.
CountBegins ==
    /\ pc["reader"] = "store"
    /\ FlockGranted("daemon")
    /\ flock' = "daemon"
    /\ Goto("reader", "copy")
    /\ UNCHANGED <<k, request, got, command, lock, line, client, shm, views,
                   writeErrors, reg, starts, faults>>

CountEnds ==
    /\ pc["reader"] = "copy"
    /\ flock' = FlockReleased("daemon")
    /\ Goto("reader", "read")
    /\ UNCHANGED <<k, request, got, command, lock, line, client, shm, views,
                   writeErrors, reg, starts, faults>>

\* A thread of the pvserver gets the lock, which another may have got before, and
\* begins to copy the shared memory.
ViewBegins ==
    /\ viewing < Viewers
    /\ FlockGranted("pvserver")
    /\ flock' = "pvserver"
    /\ viewing' = viewing + 1
    /\ shared' = (viewing # 0)
    /\ UNCHANGED <<pc, k, request, got, command, lock, line, client, shm,
                   writeErrors, reg, starts, faults>>

\* The first of them to unlock unlocks for all.
ViewEnds ==
    /\ viewing > 0
    /\ flock' = FlockReleased("pvserver")
    /\ viewing' = viewing - 1
    /\ shared' = (shared /\ viewing # 1)
    /\ UNCHANGED <<pc, k, request, got, command, lock, line, client, shm,
                   writeErrors, reg, starts, faults>>

----------------------------------------------------------------------------
(* The client: rlModbusClient::write and rlMailbox::write. *)

ClientWrites(size, r) ==
    /\ pc["client"] = "idle"
    /\ queued < MaxCommands
    /\ queued' = queued + 1
    /\ writing' = <<size, r>>
    /\ Goto("client", "send")
    /\ UNCHANGED <<k, request, got, command, lock, line, mailbox, memory,
                   writeErrors, reg, starts, faults>>

\* msgsnd blocks while the queue is full.
MsgSnd ==
    /\ pc["client"] = "send"
    /\ Len(mailbox) < QueueMax
    /\ mailbox' = Append(mailbox, <<writing[1], writing[2], starts>>)
    /\ writing' = None
    /\ Goto("client", "idle")
    /\ UNCHANGED <<k, request, got, command, lock, line, queued, memory,
                   writeErrors, reg, starts, faults>>

----------------------------------------------------------------------------
(* The reader thread and the mailbox. *)

\* mbx.clear() drops a command that was queued before the daemon started.
ClearDrops ==
    /\ pc["reader"] = "clear"
    /\ mailbox # <<>>
    /\ mailbox' = Tail(mailbox)
    /\ UNCHANGED <<pc, k, request, got, command, lock, line, writing, queued,
                   memory, writeErrors, reg, starts, faults>>

\* Mutant: the reader does not clear the mailbox.
ClearSkipped ==
    /\ pc["reader"] = "clear"
    /\ Goto("reader", "read")
    /\ UNCHANGED <<k, request, got, command, lock, line, client, memory,
                   writeErrors, reg, starts, faults>>

ClearEnds ==
    /\ pc["reader"] = "clear"
    /\ mailbox = <<>>
    /\ Goto("reader", "read")
    /\ UNCHANGED <<k, request, got, command, lock, line, client, memory,
                   writeErrors, reg, starts, faults>>

\* The next command is read.  A message longer than the buffer is not (msgrcv
\* fails and leaves it in the queue), and the reader thread ends.
MbxRead ==
    /\ pc["reader"] = "read"
    /\ mailbox # <<>>
    /\ IF Head(mailbox)[1] = "long"
       THEN UNCHANGED <<mailbox, command>> /\ Goto("reader", "ended")
       ELSE /\ mailbox' = Tail(mailbox)
            /\ command' = Head(mailbox)
            /\ Goto("reader", "lock")
    /\ UNCHANGED <<k, request, got, lock, line, writing, queued, memory,
                   writeErrors, reg, starts, faults>>

----------------------------------------------------------------------------
(* The transaction of either thread, under thread.lock. *)

\* A new pass over the cycles: the life counter is written first.
NewRound ==
    /\ pc["main"] = "round"
    /\ FlockGranted("daemon")
    /\ flock' = Nobody
    /\ k' = 1
    /\ Goto("main", "lock")
    /\ UNCHANGED <<request, got, command, lock, line, client, shm, views,
                   writeErrors, reg, starts, faults>>

\* What a thread asks for next.
Wanted(t) ==
    IF t = "main" THEN <<"read", k, serial>>
                  ELSE <<"command", command[2], serial>>

\* thread.lock() is granted, and a request is put together.
Lock(t) ==
    /\ pc[t] = "lock"
    /\ lock = Nobody
    /\ lock' = t
    /\ request' = [request EXCEPT ![t] = Wanted(t)]
    /\ serial' = 1 - serial
    /\ Goto(t, "request")
    /\ UNCHANGED <<k, got, command, connected, asked, answers, late, client,
                   memory, writeErrors, reg, starts, faults>>

\* A command that does not fit into a telegram of maxtel bytes.
TooBig(t) == t = "reader" /\ command[1] = "big"

\* sock.disconnect(): what was on its way is lost, except that the PLC may
\* still look at a command it has been sent.
Disconnect ==
    /\ connected' = FALSE
    /\ asked' = <<>>
    /\ answers' = <<>>
    /\ late' = [r \in Regions |->
                  late[r] + Cardinality({i \in DOMAIN asked :
                      asked[i][1] = "command" /\ asked[i][2] = r})]
    /\ UNCHANGED serial

\* thread.unlock(); the request is over, and the command with it.
Unlock(t) ==
    /\ lock' = Nobody
    /\ request' = [request EXCEPT ![t] = None]
    /\ command' = IF t = "reader" THEN None ELSE command

\* Mutant: an error leaves the connection as it is.
FailConnected(t) ==
    /\ Unlock(t)
    /\ Goto(t, "store")
    /\ writeErrors' = (writeErrors \/ t = "reader")
    /\ UNCHANGED line

\* Mutant: an error leaves thread.lock locked.
FailLocked(t) ==
    /\ Disconnect
    /\ Goto(t, "store")
    /\ writeErrors' = (writeErrors \/ t = "reader")
    /\ UNCHANGED <<request, command, lock>>

\* The transaction of t ends in an error: the socket is closed, thread.lock
\* is released and the error counted.
Fail(t) ==
    /\ Disconnect
    /\ Unlock(t)
    /\ Goto(t, "store")
    /\ writeErrors' = (writeErrors \/ t = "reader")

\* rlModbus::write connects if necessary, and sends.
Send(t) ==
    /\ pc[t] = "request"
    /\ ~TooBig(t)
    /\ connected' = TRUE
    /\ asked' = Append(asked, request[t])
    /\ Goto(t, "head")
    /\ UNCHANGED <<k, request, got, command, lock, answers, late, serial,
                   client, memory, writeErrors, reg, starts, faults>>

\* The PLC refuses the connection, or has closed it.
SendFails(t) ==
    /\ pc[t] = "request"
    /\ ~TooBig(t)
    /\ Fault
    /\ Fail(t)
    /\ UNCHANGED <<k, got, client, memory, reg, starts>>

\* Nothing is sent, but the reader waits for an answer if there is a
\* connection.
SendNothing(t) ==
    /\ pc[t] = "request"
    /\ TooBig(t)
    /\ IF connected
       THEN /\ Goto(t, "head")
            /\ UNCHANGED <<request, command, lock, line, writeErrors>>
       ELSE Fail(t)
    /\ UNCHANGED <<k, got, client, memory, reg, starts, faults>>

\* connect() does not return ...
ConnectHangs(t) ==
    /\ pc[t] = "request"
    /\ ~TooBig(t)
    /\ ~connected
    /\ Fault
    /\ Goto(t, "hung")
    /\ UNCHANGED <<k, request, got, command, lock, line, client, memory,
                   writeErrors, reg, starts>>

\* ... before the system's own timeout.
ConnectGivesUp(t) ==
    /\ pc[t] = "hung"
    /\ Fail(t)
    /\ UNCHANGED <<k, got, client, memory, reg, starts, faults>>

\* rlModbus::response: the first nine bytes ...
ReadHead(t) ==
    /\ pc[t] = "head"
    /\ answers # <<>>
    /\ IF Head(answers)[2] = "exception"
       THEN Fail(t)
       ELSE /\ answers' = Tail(answers)
            /\ Goto(t, "body")
            /\ UNCHANGED <<request, command, lock, connected, asked, late,
                           serial, writeErrors>>
    /\ UNCHANGED <<k, got, client, memory, reg, starts, faults>>

\* ... and the data.  The main thread keeps the connection; the reader closes
\* it also after a success, which is not MODBUS_SUCCESS.
ReadBody(t) ==
    /\ pc[t] = "body"
    /\ answers # <<>>
    /\ Unlock(t)
    /\ IF t = "main"
       THEN /\ got' = <<Head(answers)[1][2], Head(answers)[3]>>
            /\ answers' = Tail(answers)
            /\ Goto(t, "store")
            /\ UNCHANGED <<connected, asked, late, serial>>
       ELSE /\ Disconnect
            /\ Goto(t, "read")
            /\ UNCHANGED got
    /\ UNCHANGED <<k, client, memory, writeErrors, reg, starts,
                   faults>>

\* Mutant: the reader sends its command again when there is no answer.
TimeoutRetries(t) ==
    /\ pc[t] \in {"head", "body"}
    /\ IF asked = <<>> /\ answers = <<>> THEN UNCHANGED faults ELSE Fault
    /\ IF t = "main" THEN Fail(t)
       ELSE /\ Disconnect
            /\ Goto(t, "request")
            /\ UNCHANGED <<request, command, lock, writeErrors>>
    /\ UNCHANGED <<k, got, client, memory, reg, starts>>

\* No byte for a second, or the connection is closed by the PLC: a fault,
\* unless nothing was asked.  The answer may be late or never come.
Timeout(t) ==
    /\ pc[t] \in {"head", "body"}
    /\ IF asked = <<>> /\ answers = <<>> THEN UNCHANGED faults ELSE Fault
    /\ Fail(t)
    /\ UNCHANGED <<k, got, client, memory, reg, starts>>

----------------------------------------------------------------------------
(* The PLC, and the network. *)

Execute(q) ==
    reg' = IF q[1] = "command" THEN [reg EXCEPT ![q[2]] = @ + 1] ELSE reg

PlcAnswers ==
    /\ asked # <<>>
    /\ LET q == Head(asked) IN
         /\ Execute(q)
         /\ answers' = answers \o << <<q, "head", 0>>, <<q, "body", reg'[q[2]]>> >>
    /\ asked' = Tail(asked)
    /\ UNCHANGED <<pc, k, request, got, command, lock, connected, late, serial,
                   client, memory, writeErrors, starts, faults>>

PlcRefuses ==
    /\ asked # <<>>
    /\ Fault
    /\ answers' = Append(answers, <<Head(asked), "exception", 0>>)
    /\ asked' = Tail(asked)
    /\ UNCHANGED <<pc, k, request, got, command, lock, connected, late, serial,
                   client, memory, writeErrors, reg, starts>>

\* A command sent over an old connection is executed after all.
PlcExecutesLate(r) ==
    /\ late[r] > 0
    /\ late' = [late EXCEPT ![r] = @ - 1]
    /\ reg' = [reg EXCEPT ![r] = @ + 1]
    /\ UNCHANGED <<pc, k, request, got, command, lock, connected, asked,
                   answers, serial, client, memory, writeErrors,
                   starts, faults>>

----------------------------------------------------------------------------
(* The watchdog. *)

\* It looks once a minute whether a cycle has begun since.  A minute is long:
\* whatever can run has run, and only connect() hangs.
Stuck ==
    \/ pc["main"] = "hung" /\ pc["reader"] \in {"read", "lock", "ended"}
    \/ pc["main"] = "lock" /\ pc["reader"] = "hung"

\* Mutant: the watchdog looks, and that is all.
RestartNever == FALSE /\ UNCHANGED vars

\* If not, it starts the program anew.  Mailbox and shared memory stay.
Restart ==
    /\ Stuck
    /\ starts' = starts + 1
    /\ pc' = [pc EXCEPT !["main"] = "round", !["reader"] = "clear"]
    /\ k' = 1
    /\ request' = [t \in Daemon |-> None]
    /\ got' = None
    /\ command' = None
    /\ lock' = Nobody
    /\ Disconnect
    /\ writeErrors' = FALSE
    /\ UNCHANGED <<client, memory, reg, faults>>

----------------------------------------------------------------------------
Transaction(t) ==
    \/ Send(t)
    \/ SendNothing(t)
    \/ ReadHead(t)
    \/ ReadBody(t)
    \/ Timeout(t)

MainStep == NewRound \/ Lock("main") \/ Transaction("main")
            \/ StoreBegins \/ StoreEnds

ReaderStep == ClearDrops \/ ClearEnds \/ MbxRead \/ Lock("reader")
              \/ Transaction("reader") \/ CountBegins \/ CountEnds

Next ==
    \/ MainStep
    \/ ReaderStep
    \/ \E t \in Daemon : SendFails(t) \/ ConnectHangs(t) \/ ConnectGivesUp(t)
    \/ \E size \in Sizes, r \in Targets : ClientWrites(size, r)
    \/ MsgSnd
    \/ ViewBegins \/ ViewEnds
    \/ PlcAnswers \/ PlcRefuses
    \/ \E r \in Regions : PlcExecutesLate(r)
    \/ Restart

Spec == Init /\ [][Next]_vars

\* The threads run, and get a lock that is released again and again; those who
\* view leave; the PLC answers unless there is a fault; the watchdog
\* looks every minute.
FairSpec ==
    /\ Spec
    /\ SF_vars(MainStep) /\ SF_vars(ReaderStep)
    /\ WF_vars(MsgSnd) /\ WF_vars(PlcAnswers)
    /\ WF_vars(ViewEnds)
    /\ WF_vars(Restart)

----------------------------------------------------------------------------
(* Properties *)

\* Nothing on the connection belongs to another request than that of the
\* thread that reads it: a late answer, the rest of an answer or the other
\* thread's answer is never taken for the one expected, although telegrams
\* have no identifier.  So every region holds values of its own.
AnswerMatches ==
    /\ \A t \in Daemon : pc[t] \in {"head", "body"} =>
         /\ \A i \in DOMAIN asked : asked[i] = request[t]
         /\ \A i \in DOMAIN answers : answers[i][1] = request[t]
    /\ \A r \in Regions : shm[r] # None => shm[r][1] = r

\* A command that waited in the mailbox while the daemon was down or hung is
\* not sent to the PLC minutes later by its successor.
NoStaleCommand ==
    pc["reader"] \in {"lock", "request", "head", "body", "hung"} =>
        command[3] = starts

\* A thread of the pvserver never copies a region while the daemon writes it, but
\* for two ways in which a process unlocks what its other thread has locked
\* (rlsharedmemory.cpp:392, :417): a command has failed, and the reader thread
\* wrote its count of errors; or two threads of the pvserver copied together.
TornOnlyByOwnUnlock ==
    viewing > 0 /\ pc["main"] = "copy" => writeErrors \/ shared

\* When the faults are over the shared memory shows what the PLC has.
MirrorsPlc == <>[](\A r \in Regions : shm[r] = <<r, reg[r]>>)

\* Commands do not stay in the mailbox, whatever the PLC does, so that a client
\* in msgsnd gets a place: the reader thread takes them, a restarted daemon
\* clears them.  Only a command longer than the buffer ends the reader thread,
\* which the watchdog does not notice.
MailboxDrains == mailbox # <<>> ~> mailbox = <<>> \/ pc["reader"] = "ended"
=============================================================================
