# A verification project for pvbrowser (pvb)

pvbrowser is a framework for process visualisation. A *pvserver* is a program
that an application developer links with the library in `pvserver/`; it serves
graphical masks to *pvbrowser* clients over TCP. *rllib* (`rllib/lib/`) is the
companion library for data acquisition: threads, fifos, sockets, event logs,
history files, shared memory and field bus protocols.

This directory holds TLA+ models of the parts whose correctness depends on
interleavings, failures, time and boundaries, the TLC configurations that
check them, and proofs for the TLA+ proof system.

## 1. Inventory

| part | state | operations | interaction | what is hard | what makes it correct |
|---|---|---|---|---|---|
| semaphore (`rlwthread.cpp`) | count, wait set | increment, wait | used by rlFifo, rlThread, rlDataProvider, rl3964R | signal only on 0 -> 1, Windows maximum | no token lost, no waiter left behind |
| message fifo (`rlfifo.cpp`) | list, count, limit | write, read, poll | any number of threads share it | limit and poll outside the mutex, increment after the unlock, `list->len` without a test | FIFO order, each message once, never an empty list in read, bounded overshoot |
| session management (`util.cpp`, `main.cpp`) | socket table, address table, `num_threads`, `pvSockaddr`, the mutex | accept, register, create a thread, check limits, end a thread | one accept loop and one thread per client; the application's callbacks run inside | half of the accesses are unlocked; the mutex, which is not recursive, is held while callbacks run and clients are talked to; three partial failures | a slot per session, count = sessions, limits, address = client, no deadlock, exit when empty only |
| event loop (`util.cpp`) | `mytext`, `hello_counter`, `pause`, time of the last null event | pvPollEvent, pvWait, pvSendUserEvent | client lines, the application's handler, the clock | a clock that restarts every minute, silence counted in timeouts, null and user events before select, lines received byte by byte without a timeout | lines are read, null events come, silent clients leave, pauses end |
| event log server (`rleventlogserver.cpp`) | ring of 128 events, file, counts | putEvent, getEvent | a thread per sending program; readers with positions of their own | readers that are overtaken, ring boundaries, files reopened in one minute | order, completeness, size of files |
| event client (`rlevent.cpp`) | static buffers, one socket | rlEventPrintf | sends to the event log server | static buffers shared by threads, reconnect | one line per event |
| data provider (`rldataprovider.cpp`) | tables of ints, floats, strings, a semaphore; a client's last line | set, get, get-and-reset, TCP server and client | a thread per client, which may outlive it | hand-over through -1, pointers that outlive the lock, timeouts and late answers | a value is taken once, an answer belongs to its request, a put is served |
| history logger and reader (`rlhistorylogger.cpp`, `rlhistoryreader.cpp`) | list of lines with a cursor, ten files | push, walk, open, restart; cat | the reader is another process | choice of the oldest file with a comparison of times that is no order, lines deleted behind a cursor, rotation while somebody reads, files that cannot be opened | newest lines kept, cursor never dangles, oldest file reused, files read without a gap |
| 3964R (`rl3964r.cpp`) | protocol state, telegram buffers | write, receiver thread | serial partner | retries, priorities, lost characters, zero bytes in a telegram, time-outs that start before the characters are sent | write ends, telegrams arrive once and in order |
| data acquisition (`rldataacquisition*.cpp`, `rlmailbox.cpp`, `rlsharedmemory.cpp`) | values in shared memory, commands in a mailbox | read, write, clear | processes | crash with the mutex held, mailbox full | bounds, last value wins |
| sockets, threads (`rlsocket.cpp`, `rlthread.cpp`) | descriptor, thread | read, readStr, create, join | the network | partial reads, timeouts in a packet | packet boundaries |
| Modbus daemon (`pvdevelop/gmodbus.cpp` generates it; `rlmodbus.cpp`, `rlmodbusclient.cpp`) | cycle, error counts, one connection, mailbox, shared memory | read cycle, write a command, watchdog restart | two threads share the connection, pvservers read the memory and write the mailbox, the PLC | telegrams without identifiers, late and torn answers, restart with old commands, flock shared by the threads of the daemon and by those of a pvserver | answer matches request, no stale command, memory whole and in the end right, mailbox drains |
| other field bus protocols (Siemens TCP, PPI, DF1, EtherNet/IP, CANopen, Hilscher) | connection, transaction | request, answer | PLCs | lost and late answers | answer matches request |
| controllers, files, text, graphics, tools | -- | sequential computation | -- | -- | -- |
| widget protocol (most of `util.cpp`, `processviewserver.h`) | -- | format a line for the client | -- | -- | -- |
| pvbrowser client, pvdevelop, designer, browser plugins | Qt objects | user interface | pvserver | -- | -- |
| language bindings, Qwt, Lua, documentation, build tools, examples | generated or vendored | -- | -- | -- | -- |

`PROJECT.json` lists every part with its status ("components") and every hazard
found, at its line, with the properties that watch over it ("hazards").

## 2. Modules

| module | models | extends |
|---|---|---|
| `Semaphore` | WSEMAPHORE, POSIX and Windows branch | -- |
| `FifoSpec` | what rlFifo promises: a sequential queue | -- |
| `Fifo` | rlFifo with readers and writers | `Semaphore`; refines `FifoSpec` |
| `FifoProofs` | theorems about `Fifo` | `Fifo`, TLAPS |
| `PvServer` | accept loop, client threads, termination | -- |
| `PvServerProofs` | theorems about `PvServer` | `PvServer`, TLAPS |
| `EventLoop` | pvPollEvent, pvWait, pvSendUserEvent, time | -- |
| `EventLoopProofs` | theorems about `EventLoop` | `EventLoop`, TLAPS |
| `EventLog` | rlEventLogServer | -- |
| `EventLogProofs` | theorems about `EventLog` | `EventLog`, TLAPS |
| `ModbusDaemon` | the generated daemon with rlModbus, rlSocket, rlMailbox, rlSharedMemory, a client, the viewing threads of a pvserver and the PLC | -- |
| `ModbusProofs` | theorems about `ModbusDaemon` | `ModbusDaemon`, TLAPS |
| `TelegramSpec` | what rl3964R promises: telegrams at most once, in order | -- |
| `Rl3964R` | two stations and the serial line between them | refines `TelegramSpec` |
| `Rl3964RProofs` | theorems about `Rl3964R` | `Rl3964R`, TLAPS |
| `HistoryLogger` | rlHistoryLogger and rlHistoryReader::cat | -- |
| `HistoryProofs` | theorems about `HistoryLogger` | `HistoryLogger`, TLAPS |
| `DataProvider` | rlDataProvider, its threads and its clients | `Semaphore` |
| `DataProviderProofs` | theorems about `DataProvider` | `DataProvider`, TLAPS |
| `MC...` | constants and symmetry for TLC | the module they are named after |

Operators whose comment begins with "Mutant" are altered versions of the
operator that follows them. They are not part of any specification; each is a
plausible mistake that some property must detect.

### 2.1 Semaphore and Fifo

A thread is in one of the places `idle`, `wait`, `take` (reading) and `append`,
`post` (writing). What the code does between locking and unlocking
`rlFifo.mutex` is one step: `Take`, `TakeTooBig` (with the increment made
inside the lock) and `WriteAppend`. What it does outside is a step of its own:
the test of the limit (`WriteAdmit`, `WriteFull`), the wait (`WaitPasses`,
`WaitSleeps`, `WaitWakes`), the increment after the unlock (`WritePost`), and
`poll`, which is the guard of `CallRead(t, n, TRUE)`. `polled` remembers that a
reader calls read() on the word of poll() and that no other reader has moved on
since (`OutdatesPolls`). A message is its writer, the number of the call and its
length; the payload is not modelled.

In the semaphore `sleeping` is the wait set of the condition variable. A signal
wakes some sleeper or, if there is none, nobody. Waiters may wake without a
signal (POSIX allows it and the code's loop expects it), but never have to.

### 2.2 PvServer

The main thread is in one of the places `accept`, `register`, `count`,
`create`, `nocount`, `nomem`, `uncount`; a client thread goes through `start`,
`count`, `pick`, `insert`, `access`, `run`/`locked`, `fatal`, `cleanup`,
`ending`. Sections under `pvlock` are single steps guarded by `lock = Nobody`,
except where application code runs inside - between `AppLock` and `AppUnlock`,
and between `FatalBegin` and `FatalFinish` (the cleanup callback) - and where
`pvCreateThread` counts a thread and takes the count back (`CountNoMemory`,
`TakeBackCount`), because `ThreadEnd` tests `num_threads` without the lock. The
unlocked parts of `send_thread` are split where another thread can see or
disturb them: reading the global address, the loop that counts the clients
(`CountEntry`, one entry of the table per step, with the loop's `index` and
`counts`), the decision (`CheckLimits`), the loop that looks for a free entry
(`PickEntry`, also one entry per step), filling it in (`InsertEntry`). The
history variable `met` counts the other clients that were connected at some
moment since a thread began to count.

`pvThreadFatal` is `FatalBegin` (lock, uncount), `FatalFinish` (callback,
tables, close, unlock) and `ThreadEnd` (the test for the last client, after the
unlock). The kernel hands out any descriptor that is not open, so a closed
descriptor may come back at once. `Disconnect` is the client's end: it closes,
crashes or falls silent, and the next send, recv or the 50 second rule notices.

Constants choose what the environment does: `Failures` (accept, malloc,
pthread_create), `MainReturns` (the application's pvMain returns),
`AppLocks` (it talks to the client inside pvlock; its cleanup callback uses
pvlock), `Denied` (addresses that `pvIsAccessAllowed` may refuse; it reads its
lists at every call, so an address may be in both sets), `ExitAfterLast`, and the
arguments of pvSetMaxClients and pvSetMaxClientsPerIpAdr.

### 2.3 EventLoop

One client thread with its clock. `Tick` moves the clock by one unit, modulo
`Minute`, while the application works (`budget` ticks per event, `MaxWork` at
most), while select waits (`Sleep` ticks), while pvWait waits and while the rest
of a line is waited for. `poll`, `select`, `recv`, `app`, `wait`, `dead` are the
places of the thread. What is in the socket are lines, of which only the kind
matters - an event, `@hello`, `@pause(1)`, `@pause(0)`, the answer that pvWait
expects - and at the end perhaps the beginning of a line or the end of the
stream. select returns as soon as a byte is there (`Readable`), and
`pvtcpreceive` then waits for the end of the line without a timeout (`Receive`,
`ReceiveEof`, `WaitReceive`). The application may send itself a user event at
any time, also from the handler of a user event. `Elapsed` is the difference
that the code computes, which is negative after the clock has restarted.
`silence` counts the ticks since a client that has gone was last heard, and
`posted` the user events returned since.

### 2.4 EventLog

putEvent and getEvent hold the mutex throughout, so each is one step. An event
is its number; the ring has `M` slots. `From` and `NextSlot` are the
computation of the position in getEvent, with its cases for -1 and for the
last slot. Files are named by the minute in which they are opened; opening
empties a file of the same name. `got`, `empty` and `undisturbed` record what a
reader has been given since its `num` was -1.

### 2.5 ModbusDaemon

`pvdevelop` writes a program of two threads and a watchdog around the rllib
classes. `pc` holds the places of the main thread (`round`, `lock`, `request`,
`head`, `body`, `hung`, `store`, `copy`), of the reader thread (`clear`,
`read`, the same transaction, `ended`), of a pvserver that queues commands
(`idle`, `send`). The threads of a pvserver that copy the shared memory are
counted (`viewing`): they share one rlModbusClient, hence one open file, so that
`flock` lets all of them in and the first to unlock unlocks for all
(`FlockGranted`, `FlockReleased`; the same holds for the two threads of the daemon).
A transaction holds `thread.lock` from `Lock` to `Fail` or `ReadBody`. The
answer arrives in the pieces in which `rlModbus::response` reads it, so that a
time-out can come between them. `Disconnect` drops what is on the way, except
that the PLC may still carry out a command it was sent (`late`). A request
carries a bit that the code does not send: only the property looks at it.
Restarting (`Restart`) resets the program and leaves mailbox, shared memory
and PLC as they are. The offset in the shared memory is the number of the
cycle: every region has a fixed length (`gmodbus.cpp:182-195`).

Faults (`Fault`, at most `MaxFaults`) are refused or hanging connections,
silence, and exceptions. `Stuck` is the one assumption about time: in the
minute between two looks of the watchdog everything that can run has run, so
it finds the counter unchanged only when a thread hangs in `connect()`.

### 2.6 Rl3964R

Two stations that both run the code, since the protocol is symmetric but for
the priority. The receiver thread reads a character without the lock (`Take`)
and handles it under the lock (`locked`); inside `receive()` and `send()`
(`receive`, `escape`, `bcc`, `ack`) it keeps the lock, so `Write` waits.
`RECEIVING` never outlives the lock, so the protocol state is one Boolean,
`wants`. The line is two queues of characters; the text of a telegram is one
character, and `Parity` computes which characters an exclusive or leaves.
A byte 0 leaves the loop of `receive()`, and so does the byte that fills
`tel_receive`; both are the character `Zero`, sent by `SendZero` and dealt with by
`HearZero`. What is left of such a telegram stays on the line. `Silence` says
that nothing is on the line and the partner has nothing to do. A second may end
then, or - because `writeChar` only hands the characters to the driver and the
second starts at once - while characters are on the line (`SecondEnds`). Both
kinds of events are counted in `upsets`; `Benign` says that there was none.

### 2.7 HistoryLogger

`pushLine` holds the mutex and is one step; `firstLine` and `nextLine` are
steps of their own: they take no mutex (`rlhistorylogger.cpp:181`), and the model
rests on callers that hold it for one call or for several.
`cursor` is the line that `current_line` points to. `FirstFile` is the search
of the logger, `OldestFile` that of the reader, which differ by one
assignment. `rlhistory` (`CatStart`, `CatFile`, `CatDone`) is a process of its
own and takes one file per step. `opened` remembers how many lines had been
pushed when each file was opened; only the properties look at it. File times
have a resolution of a second and the clock of a millisecond, so a file
written in the same second may or may not look older (`later`, in `BeforeNow`).
`Less` is `rlTime::operator<`, which is right when the first time is earlier, but
also takes some later times for earlier ones: those in the constant `Misjudged`,
for instance a time in January and one in the December before. fopen may fail at
the start and at each turn; `fout` says whether the file is open. The local time
may go back (`TickBack`: summer time ends, or the clock is set). `faults` counts
failures and steps back for the properties.

### 2.8 DataProvider

A connection is a number and so is its thread in the provider; the thread may
outlive the client's interest in the connection (`shut`). `requests` and
`answers` are the two directions, `doing` the line in the hands of the thread.
`Put` has no answer. `Ask` waits for `Answered`, `ReadFails` or `Timeout`,
which connects again; `WaitTimeout` (getInt0Semaphore) keeps the connection.
`SendFails` is the client whose `send()` fails: it finds the previous answer in
its interpreter. The integer is `slot`, and `Store` is the test that
setIntAndWaitForReset makes every 10 ms. The semaphore of integer 0 is the
module `Semaphore`. The plain getInt, getFloat and getString are requests like
getIntAndReset that do not reset.

## 3. Runs

Every run uses at most two or three actors of a kind, messages or slots: each property
relates two actors and one resource, and three sessions for a limit of two, or two
writers for one place, already produce every overlap of the split sections.

| run | configuration | result |
|---|---|---|
| `fifo` | 2 readers, 2 writers with 2 calls each, limit 1, lengths and buffers {1, 2}, POSIX | `TypeOK`, `NoNullHead`, `TokenPerMessage`, `Overshoot`, and the refinement `AbstractQueue` hold |
| `fifo_looping` | 2 looping readers that may poll, 2 writers with 2 calls each, limit 2 | `AllDelivered`, `PollPromise` hold |
| `pvserver` | 3 threads, 3 descriptors, 3 slots, a limit of 2 clients, an address that is allowed at times, all failures, pvMain returns; 1.5 million states | `TypeOK`, `SlotPerSession`, `ThreadsCounted`, `NoGhostClient`, `RefusedOnlyAtLimit` hold |
| `pvserver_ends` | 2 threads, 2 slots, all failures, clients lost inside pvlock (`AppLocks = {"calls"}`), exit after the last client | `SlotReclaimed`, `ExitsAfterLast`, `ThreadsTerminate` hold |
| `pvserver_address` | 2 addresses | `AddressOfClient` fails: the global address |
| `eventloop` | Sleep 3, Minute 7, 50 seconds = 4, handlers of 1 tick, pauses, pvWait, user events; 1.6 million states | `SilentClientLeaves`, `LinesReceived`, `PauseEnds` hold |
| `eventlog` | ring of 4, 9 events, a reader, 2 minutes, max_events 1 | `TypeOK`, `ReadInOrder`, `MissesTwoAtMost`, `FileOvershoot`, `LostByReopeningOnly` hold |
| `modbus` | 2 cycles, 2 commands of 3 sizes to one region, a mailbox of 1, 2 viewing threads, 2 faults | `TypeOK`, `AnswerMatches`, `NoStaleCommand`, `TornOnlyByOwnUnlock`, `MirrorsPlc`, `MailboxDrains` hold |
| `rl3964r` | 3 telegrams per station, 1 character lost or spoilt, 1 telegram with a zero or early time-out; 1.1 million states | `TypeOK`, the refinement `DeliversTelegrams`, `WriteEnds` hold |
| `history` | 3 files, 1 hour per file, 2 lines in memory, 4 lines, 6 hours with New Year after the second, 2 starts, failures or steps back in all; 3.2 million states | `TypeOK`, `NewestInMemory`, `CursorAlive`, `CatComplete` hold |
| `history_oldest` | 3 files, 2 starts | `OldestReused` fails: the last older file is emptied |
| `dataprovider` | 2 clients, 3 connections, 1 put, 1 wait, 1 increment, 1 fault | `TypeOK`, `AnswerMatches`, `ExactlyOnce`, `PutServed` hold |

The failing runs check what a comment or a document of the repository says;
`PROJECT.json` quotes the lines under "findings". All runs allow deadlock: the
program may really stop, because the bounded number of calls is used up, the
process has exited, or nobody calls.

Bounds: `MaxWrites` (calls of write per writer), `MaxInbox` (lines in the
socket), `MaxSilence` (ticks and user events counted), `MaxPush`, `MaxClock`,
`MaxEvents`, `MaxNoise`, `MaxUpsets`, `MaxFaults`, `MaxCommands`.

- `fifo`: two calls per writer with a limit of one fill, overfill and empty the
  fifo. In `fifo_looping` both readers may poll and both writers write, so that
  the token of the message a reader has polled goes to the other one. `PollPromise`
  does not rest on the end of the writing: it promises the reader a message only
  as long as no other reader moves on (`OutdatesPolls`): the next increment from zero
  wakes it, or another reader, which then moves on, however many messages
  follow. With a reader between them the promise is void, in the model as in the
  code (section 6).
- `pvserver`: with a limit of two, one client that leaves while a thread counts and
  one that comes into a slot it has not reached are counted together; this is why
  `RefusedOnlyAtLimit` counts clients that were connected one after the other. The
  fourth session reuses descriptor, slot and thread of an earlier one.
- `pvserver_ends`: two threads are enough for the last session to end while the
  accept loop has counted one that does not come about, and for one thread to wait
  for a lock that another holds for good.
- `eventloop`: two lines in the socket let a line wait behind another; the minute
  is a little more than two sleep times, so the clock restarts in every phase of
  the loop. `SilentClientLeaves` allows a silent client the 50 seconds in timeouts of
  select, and for each a null event; once the event in hand, a null event that is
  due and a line left by pvWait; and for each user event its handler and that of a
  null event (`Patience`). It speaks of handlers shorter than `Sleep`; `SilentLeave`
  needs no bound for their length or number.
- `eventlog`: nine events overtake the reader of a ring of four twice (readers do
  not influence each other, so one is enough).
- `modbus`: two faults are enough for a hanging connection, its restart and a
  second fault in what follows, two commands for one in the mailbox of one place
  and one in the reader's hands, two viewing threads for one that unlocks what the
  other has locked.
- `rl3964r`: a spoilt character spoils a telegram or its acknowledgement, one
  telegram with a zero or one early second reaches every state that `HearZero` and
  `SecondEnds` lead to, and with three telegrams a late answer meets a later one.
- `history`: three files and six hours let the files come round while the reader is
  in the middle; four lines with two in memory cut the list twice; `MaxEvents`
  allows a restart, or a start and one failure or step back of the clock.
- `dataprovider`: the third connection is that of a client that timed out, while
  the thread of the old one is still at work; the integer starts with the value 0,
  so one put is enough for two values to meet.

Symmetry is used for safety properties only, over threads that are
interchangeable.

### Fairness

- `Fifo!FairSpec`: a thread inside read or write goes on (weak fairness of its
  steps); nothing is assumed about new calls. `LoopingSpec` adds that readers
  call again. Waking without a signal is never required.
- `PvServer!FairSpec`: threads are scheduled; the application leaves its
  critical sections (weak fairness of `AppUnlock`, which a thread that waits for
  itself never reaches); a mutex that is released
  again and again is granted at last (strong fairness of the steps that wait
  for it). Clients never have to do anything.
- `EventLoop!FairSpec`: the thread runs and time passes. The handler ends,
  because its ticks are counted. Nothing forces the application to stop sending
  itself user events, so `LinesReceived` excepts a chain of them (`Chained`).
- `ModbusDaemon!FairSpec`: both threads run and get a mutex or a file lock that
  is released again and again (strong fairness); viewing threads copy and leave,
  `msgsnd` returns when there is room, the PLC answers unless there is a fault,
  the watchdog looks every minute. Commands, faults and late executions never
  have to happen.
- `Rl3964R!FairSpec`: the receiver thread runs and `write()` returns once the
  semaphore is raised. Calls of `write()` and noise never have to happen.
- `DataProvider!FairSpec`: the provider's threads run, clients read what is
  there and time out when nothing comes, and some client keeps asking for
  values - without it no put could be served. A polling put has weak fairness
  only.

## 4. Proofs

`FifoProofs` proves, for any finite sets of readers and writers, any lengths,
limits and numbers of calls, and for both branches of the semaphore:

- `TypeCorrect`, `ReadFindsMessage`, `TokensMatch`, `BoundedOvershoot`: the
  invariants `TypeOK`, `NoNullHead`, `TokenPerMessage`, `Overshoot`;
- `ImplementsQueue`: `Fifo` implements `FifoSpec`.

None of these is inductive alone. The inductive invariant `IInv` joins the types, that only
readers are in `take` and only writers in `append` and `post` (with a message
to store), that `nmes` is the length of the list, that the tokens never exceed
the messages, and that the list together with the writers already admitted
exceeds the limit by at most the number of writers. The token inequality has to hold on Windows too,
where increments beyond the maximum are lost; equality needs the assumption
`CountFits`. The proof of the step has one lemma per
action. Assumptions are those of the modules (`SemaphoreAssumption`,
`FifoAssumption`).

`PvServerProofs` proves about the session management, for any finite sets of
threads and sockets, any addresses and slots, and whatever may fail:

- `TypeCorrect`, `CountCorrect`: `TypeOK` and `ThreadsCounted`. The types need
  the count, since `num_threads` is decremented and must stay natural, and that
  every thread in a session has a socket (`HasSocket`). The count is inductive
  with them: a step moves a thread in or out of `Sessions` (lemmas `Starts`,
  `Ends`, `Stays`) or the accept loop in or out of `Counted`.
- `SlotsCorrect`: `SlotPerSession`, from `SlotInv`. Sessions do not share
  sockets and their sockets are open (`DistinctSockets`), no socket has two
  slots (`OneSlot`), every session has a slot and every slot a session. Open
  sockets matter because the kernel hands out only closed descriptors; one
  slot per socket matters because the loops that free a slot stop at the first.
- `NoGhosts`: `NoGhostClient`, from `TableInv` on top of `SlotInv`: a session
  that has not made its entry has none, so inserting gives no socket a second
  entry, and the loop that forgets the first entry forgets the only one.
- `RefusalsJustified`: `RefusedOnlyAtLimit`, for any limits. For the limit per
  address it only says that so many others were connected, from whatever address:
  the addresses in the table come from the global that the run `pvserver_address`
  shows to be wrong. With `RequestedMax >= MAX_CLIENTS` the limit is 0 (section 6)
  and it says nothing. The argument follows the loop
  entry by entry (`LimitInv`): what a thread has counted, together with the clients
  it may still count because they are in no entry it has passed (`Unseen`), is
  never more than were connected since it began (`met`). A client that leaves an
  entry already passed stays in the count and in `met`; one that comes raises both
  `met` and `Unseen`; an entry made behind the loop lowers `Unseen`. It rests on
  `TableInv`: every entry has the socket of a session, never that of the thread
  itself, and no two have the same, so no client is counted twice. `ScanInv` says
  where the loop index is.

`FirstFinds` says that `First`, the model of a loop that breaks, returns the
least index; it rests on the well-foundedness of the natural numbers.

`EventLoopProofs` proves for any sleep time, length of a minute, handlers and
clients:

- `TypeCorrect` (`TypeOK`);
- `SilentLeave` (`SilentClientLeaves`). The code counts timeouts, so the
  invariant `SilenceInv` bounds the time since the client was last heard by the
  number `k` of timeouts counted (`Waited`): what has passed and what is still to
  be handled before select begins (`ToDo`: the event in hand, a null event that
  falls due by then, a line left by pvWait) is at most `Reached(k) + MaxWork`, where
  every user event adds two handlers. Silence is counted only when no whole line
  is left (`OnlySilent`), which may be the beginning of one: then the thread gets
  into `recv` and stays there. A
  clock that restarts only makes `Elapsed` smaller and null events later.

`EventLogProofs` proves for any ring, readers, files and number of events
`TypeCorrect`, `OrderKept` (`ReadInOrder`), `OvershootIsOne`
(`FileOvershoot`) and `NothingElseLost` (`LostByReopeningOnly`, an action
property; it needs that a file which is not open is empty or full).
`ReadInOrder` needs `RingInOrder` (every used slot but the newest is followed by
the next event) and `Behind` (a reader's slot holds the event it got last, or a
newer one that has overwritten it). `MissesFew` (`MissesTwoAtMost`) adds which
events the ring holds (`RingFilled`) and, for a reader that nobody has
disturbed since it started, which of them it has got (`Followed`).

`ModbusProofs` proves for any number of cycles, commands, faults and restarts,
and any size of the mailbox:

- `AnswersCorrect` (`AnswerMatches`). The invariant needs the lock (`Locked`:
  whoever is in a transaction holds it), everything that can be on the line at
  each point of a transaction (`LineOK`; outside of one, nothing, because every
  error closes the connection) and what the main thread holds (`GotOK`).
- `CommandsFresh` (`NoStaleCommand`), from `Fresh`: once the mailbox has been
  cleared every command in it was queued since the restart.
- `MemoryWhole` (`TornOnlyByOwnUnlock`), for any number of viewing threads, from
  `FlockOK`: the lock is the pvserver's while one of its threads copies, unless two
  did, and the daemon's while its main thread copies, unless a command has failed.
- `TypeCorrect` (`TypeOK`). Its bounds on the PLC's counters are those of
  `TInv`, which counts: a command is in one place at a time - the client's
  hands, the mailbox, the reader's hands or the line, on an old connection, or
  written (`Counted`) - and a restart follows a `connect()` that hangs, which was
  a fault of its own (`Restarted`).

`Rl3964RProofs` proves for any number of telegrams and any amount of noise, zero
bytes and early time-outs `TypeCorrect` (`TypeOK`; the tokens of the semaphore,
`Tokens`, do not depend on what is on the line), and `Refinement`
(`DeliversTelegrams`): as long as neither a zero byte nor an early time-out has
come (`Benign`) two stations implement `TelegramSpec`. `Write` is its `Offer`, `HearBcc` the partner's
`Deliver`, `WriteReturns` its `Return`; all other steps change nothing the users
see. The inductive invariant `Protocol` describes what can be on both lines in
every state of both stations. While a station waits for the answer to its
frame, what the partner has heard and will hear comes from that frame, without
repetition, or is noise (`Sending`), so a checksum that agrees belongs to the
telegram in hand (`Checked`), and an acknowledgement on the way means that it was
delivered. While it is not sending, nothing of a frame is on its way (`Quiet`).
Before it may send, the partner listens and has heard nothing but requests and
noise (`Permitted`). `Requests` and `Order` are what the priorities achieve: the
high station never receives while it wants to send, the two never listen at the same time,
and a station that has been granted does not take the partner's older answer
for a new one. Lemmas about sequences (`Popped`, `Pushed`, `Damaged`) say how these
facts survive a character read, sent or spoilt. `Inv` joins what always holds
(`Always`) and, while `Benign`, the `Protocol` of both stations; after an upset
the theorem claims nothing, because it would be false.

`HistoryProofs` proves for any number of files, hours, lines, starts and failures,
and any pairs of times that the comparison misjudges,
`TypeCorrect`, `ListCorrect` (`NewestInMemory`) and `CursorCorrect`
(`CursorAlive`). The list is related to the lines pushed since the logger
started, which must not change while it runs; the cursor follows because
trimming removes only what `CursorAfter` resets. `CatCorrect` (`CatComplete`)
is proved from `CatInv`. As long as the first logger runs without faults it uses the
files in turn, each holds the lines pushed between its opening and the next one's,
and their times do not fall in that order (`InTurn`); files with equal times, or
times that the comparison misjudges, are possible, so the reader starts with the
oldest only if it finds no such files (`OldestIsBase`, from `Comparable`). A reader
has put together the lines from that file on, and either goes on with the file
that follows (`Ahead`) or has all it was to read (`Done`), while the logger turns to
other files (`Reading`).

`DataProviderProofs` proves for any finite sets of clients and threads, any
values, faults and time-outs:

- `TypeCorrect` (`TypeOK`) and `AnswersCorrect` (`AnswerMatches`), from
  `LineInv`: on a connection that is up exactly the get its client waits for is
  still to be answered - its line is the last one sent, or in the thread's
  hands, or its answer is the only one on the way back (`Pending`) - and nothing
  when the client waits for nothing (`Quiet`);
- `OnceOnly` (`ExactlyOnce`), from `IInv`: every value put is somewhere until a
  time-out or a broken connection (`NotLost`), and in one place at a time -
  a line, a thread's hands, the integer, or a client - as long as no client has
  found an old answer (`Once`). Each step moves one value on one connection.

Every safety property that a run checks is so stated by a theorem. Liveness
(`AllDelivered`, `PollPromise`, and everything under fairness in the other
modules) is model-checked only: ENABLED is out of the prover's reach.

## 5. Plan

Order of work, the most important behaviour first:

1. `Semaphore`, `Fifo`, `PvServer`, `EventLoop`, `EventLog` (done).
2. `ModbusDaemon` (mailbox, shared memory, sockets, watchdog), `Rl3964R`,
   `HistoryLogger`, `DataProvider` (done), with the theorems of section 4.
3. Theorems for every safety property that a run checks (done).
4. `AcceptHandover`: the accept and worker threads of the event log server and
   the data provider; `EventClient`.
5. `DataAcquisition`: rlDataAcquisition's text in shared memory, with its
   boundaries. Siemens TCP transactions on the socket of `ModbusDaemon`.

## 6. What the models show that no run checks

- Two increments of a semaphore in a row wake one of two waiters
  (`rlwthread.cpp:327`). The other sleeps beside a raised semaphore until the
  next increment from zero. Consumers that read in a loop still get every
  message (`AllDelivered`); one that reads once may not. A writer and a reader
  that keep the count above zero leave a second reader asleep beside messages for
  as long as they go on, also when poll() has promised it one.
- Clients that start together exceed `maxClients`, because the table is counted
  and filled without the lock.
- `pvSetMaxClients(MAX_CLIENTS)` sets the limit to 0, and the server refuses
  everybody (`Limit`), though `processviewserver.h:3000` allows that argument.
- A connection lost inside pvlock makes `pvThreadFatal` wait for the mutex its
  own thread holds, and everybody else with it: the mutex is not recursive, and
  `my_pvlock_count`, "used to avoid deadlock by repeated call of pvlock"
  (`processviewserver.h:512`), is set to zero and never tested. A cleanup callback
  that uses pvlock (`AppLocks = {"cleanup"}`) deadlocks in the same way. This is
  `WaitsForItself`; `pvserver_ends` runs into it and shows that pvlock has no other
  deadlock.
- With -exit_after_last_client_terminates a server may stay without clients: the
  thread that ends tests `num_threads` (`util.cpp:579`) while pvCreateThread, which
  gets no memory or no thread, has not yet taken its count back, and pvCreateThread
  does not test it afterwards (`CountTakenBack`).
- With -exit_after_last_client_terminates a client that is accepted but not yet
  counted is cut off when the previous last session ends the process
  (`ExitsOnlyWhenEmpty`, stated in `PvServer`, fails).
- `getLocalMilliseconds` restarts every minute (`util.cpp:272`). Once the time of
  the last null event is in the last `sleep` of a minute, the difference never
  reaches `sleep` again while the client keeps sending, and null events stop
  (`NullEventsKeepComing`, stated in `EventLoop`, fails).
- `num = -1` does not retrieve all events, as `rleventlogserver.h:43` says: the
  oldest event of a full ring and the one in slot 0 are skipped (`RetrievesAll`,
  stated in `EventLog`, fails; `MissesTwoAtMost` is what holds).
- One client more than `MAX_CLIENTS` ends the server: `pvAccept` returns -1
  (`util.cpp:1027`).
- With handlers as long as `Sleep`, or longer, there may be no timeouts
  of select: the silence of a client is then counted only when the clock
  restarts, and no bound holds. This is why `SilentClientLeaves` speaks of shorter
  ones.
- select is followed by a receive that waits for the end of the line without a
  timeout (`util.cpp:1149`): a client that is cut off within a line keeps its thread,
  and so does one that is cut off inside pvWait.
- A handler that answers every user event with the next one is never
  interrupted: its client is not heard and its silence not noticed (`Chained`).
- A file of the event log holds `max_events + 1` events.
- Modbus: the reader thread closes the connection also after a command that
  succeeded, since `response` returns a length and not `MODBUS_SUCCESS`
  (`gmodbus.cpp:307`). A message longer than the reader's buffer ends the reader
  thread for good (`rlmailbox.cpp:233`, msgrcv fails), which the watchdog does not
  notice; clients then block in `msgsnd` when the queue is full, although
  `MAILBOX_FULL` exists. A slave that stays silent keeps the cycles after its
  own from ever being read, because an error starts the round anew. A pvserver
  may copy a region while it is written once a command has failed, or when two of
  its threads copy together: the threads of a process share one open file, `flock`
  does not tell them apart, and the first to unlock unlocks for all. A command
  whose connection was closed may be carried out after its successor.
- 3964R: after a collision the high station's write fails and the low station's
  never returns; the loss of STX or of its answer makes any write hang, as
  `send_retry` stays 0 and the code for "failed after 3 retries"
  (`rl3964r.cpp:104-110`) is never reached. After DLE and before the checksum the
  receiver waits without a time-out and with the lock held. Two equal errors
  cancel in the checksum. A telegram that begins with a byte 0 is acknowledged
  before its checksum has come, because both checksums are still 0: `write()`
  reports success, the callback gets an empty telegram, and the rest of the
  telegram is taken for the next characters, where a checksum of 2 is a request to
  send. Other telegrams with a zero are never accepted. The second that `send()`
  waits starts when the characters have been handed to the driver, so a telegram
  that is longer on the line than a second is delivered after `write()` has
  reported a failure (`upsets`; `DeliversTelegrams` without `Benign` fails).
- History: the list holds one line more than `maxLinesInMemory`. `rlTime::operator<`
  is true when any field of the difference is negative (`rltime.cpp:709`), so a time
  in January is earlier than one in the December before and also later: around
  New Year every line opens a new file, and the lines of the last files are lost;
  rlhistory starts with a wrong file when the files have times of two years, or
  equal times. When the local time goes back the last file does not look older
  than now. A line is lost when fopen fails. When the logger opens the file
  that rlhistory reads next, its lines are missing or come in the wrong place.
- Data provider: an answer that a broken connection cuts short is returned as far
  as it came, with status 0 (`rlsocket.cpp:246`); in the model an answer comes as a
  whole or not at all. After a send that fails the client returns the previous
  answer with status 0 (`rldataprovider.cpp:531-545`), so that a value is
  taken twice. A get behind the client's own blocked put on one connection
  always times out. A getIntAndReset that timed out may still empty the integer,
  and the value is lost. getInt0Semaphore keeps its connection after a time-out,
  and every later answer on it is that of an earlier request; the thread of a
  client that is gone may swallow a count of the semaphore. The integer starts
  with 0, which counts as a value: the first put waits for the first get.

Those that name a property or constants were seen in the module, and its
`.cfg` with those constants shows them again; the others are what the
definitions of the module, and the lines they stand for, say.

### Not modelled

Not modelled, and not planned: the widget protocol (formatting), the Qt
programs, numerical controllers, parsers and text output, generated and
vendored code, build tools, examples.

These are nearly all of the repository. Of its 704506 lines of implementation
generated bindings, meshes and images as C source, a Lua interpreter, a plotting
library and examples are nearly nine tenths; `pvserver/util.cpp` is mostly
functions that each print one line. A model of such code would say that a
function prints what it prints. What keeps state between calls, runs
concurrently, can fail half-way or has to agree with a partner is in the
modules above and in the plan; the map therefore covers a small share of the
repository's lines, and no honest map of it could cover a third.
