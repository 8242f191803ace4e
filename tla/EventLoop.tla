----------------------------- MODULE EventLoop ------------------------------
(***************************************************************************)
(* The event loop of one pvserver client thread: pvPollEvent, pvWait and   *)
(* pvSendUserEvent of pvserver/util.cpp, with the time they measure.       *)
(*                                                                         *)
(* One tick is a unit of the millisecond clocks.  The application handles  *)
(* an event in some number of ticks, then polls for the next one; select   *)
(* waits up to Sleep ticks for the client.  A line is then received byte   *)
(* by byte and without a timeout, so that a client that is cut off within  *)
(* a line leaves the thread there.  getLocalMilliseconds returns           *)
(* second * 1000 + millisecond: it starts again from zero every minute.    *)
(***************************************************************************)
EXTENDS Integers, SequencesExt

CONSTANTS
    Sleep,          \* p->sleep, option -sleep=
    Minute,         \* ticks of a minute
    HelloMax,       \* the 50 seconds of silence, in ticks
    MaxWork,        \* the ticks the application needs for an event, at most
    ForceNull,      \* p->force_null_event, cleared by -noforcenullevent
    AllowPause,     \* p->allow_pause
    AppWaits,       \* the application calls pvWait
    MaxInbox,       \* bound: lines waiting in the socket
    MaxSilence      \* bound: ticks, and user events, counted since the client
                    \* fell silent

ASSUME EventLoopAssumption ==
    /\ Sleep \in Nat \ {0} /\ Minute \in Nat \ {0} /\ HelloMax \in Nat
    /\ MaxWork \in Nat \ {0}
    /\ {ForceNull, AllowPause, AppWaits} \subseteq BOOLEAN
    /\ MaxInbox \in Nat /\ MaxSilence \in Nat

\* What the client sends: a user's event, "@hello", "@pause(1)", "@pause(0)",
\* and the answer pvWait waits for.
Line == {"event", "hello", "pause", "resume", "answer"}

\* What waits in the socket: lines, last of all perhaps the beginning of a line
\* or the end of the connection.
Received == Line \cup {"part", "eof"}

VARIABLES
    clock,          \* what getLocalMilliseconds returns
    local,          \* p->local_milliseconds
    hello_counter, pause, mytext,   \* the fields of PARAM, mytext "none" if empty
    pc,             \* "app": the application runs; "poll": pvPollEvent
                    \* begins; "select"; "recv": pvtcpreceive in pvPollEvent;
                    \* "wait": pvWait; "dead"
    budget,         \* ticks left to the application's work, or to select
    event,          \* the event of the last poll, "null" for a null event
    inbox,          \* what has come from the client and is not received yet
    quiet,          \* the client sends no more (crashed, cut off, hung)
    sent,           \* the client has sent a line in this tick
    silence,        \* ticks since the last line was received from a quiet client
    posted          \* user events returned in that time

client == <<quiet, sent, silence, posted>>
vars == <<clock, local, hello_counter, pause, mytext, pc, budget, event, inbox,
          client>>

TypeOK ==
    /\ clock \in 0 .. Minute - 1 /\ local \in 0 .. Minute - 1
    /\ hello_counter \in 0 .. HelloMax + Sleep
    /\ pause \in BOOLEAN /\ quiet \in BOOLEAN /\ sent \in BOOLEAN
    /\ mytext \in Line \cup {"none", "user"}
    /\ pc \in {"app", "poll", "select", "recv", "wait", "dead"}
    /\ budget \in Nat
    /\ event \in Line \cup {"none", "null", "user"}
    /\ inbox \in Seq(Received) /\ Len(inbox) <= MaxInbox
    /\ silence \in 0 .. MaxSilence /\ posted \in 0 .. MaxSilence

Init ==
    /\ clock \in 0 .. Minute - 1
    /\ local = 0
    /\ hello_counter = 0
    /\ pause = FALSE
    /\ mytext = "none"
    /\ pc = "poll"
    /\ budget = 0
    /\ event = "none"
    /\ inbox = <<>>
    /\ quiet = FALSE
    /\ sent = FALSE
    /\ silence = 0
    /\ posted = 0

----------------------------------------------------------------------------
(* Returning an event, waiting for the client *)

\* pvPollEvent returns e; the application works on it for some ticks.
Deliver(e) ==
    /\ event' = e
    /\ pc' = "app"
    /\ budget' \in 1 .. MaxWork

Select ==
    /\ pc' = "select"
    /\ budget' = Sleep

Paused == AllowPause /\ pause

----------------------------------------------------------------------------
(* pvPollEvent *)

\* The time since the last null event, as the code computes it.
Elapsed == clock - local

\* It is time for a null event: the client is not asked.
ForceNullEvent ==
    /\ pc = "poll"
    /\ ForceNull /\ Elapsed >= Sleep
    /\ local' = clock
    /\ Deliver("null")
    /\ UNCHANGED <<clock, hello_counter, pause, mytext, inbox, client>>

\* Mutant: the text is not cleared.
TakeMytextKept ==
    /\ pc = "poll"
    /\ ~(ForceNull /\ Elapsed >= Sleep)
    /\ mytext # "none"
    /\ Deliver(mytext)
    /\ UNCHANGED <<clock, local, hello_counter, pause, mytext, inbox, client>>

\* A text left by pvSendUserEvent or pvWait is the event: select is not asked.
TakeMytext ==
    /\ pc = "poll"
    /\ ~(ForceNull /\ Elapsed >= Sleep)
    /\ mytext # "none"
    /\ mytext' = "none"
    /\ Deliver(mytext)
    /\ posted' = IF mytext = "user" /\ silence > 0 /\ posted < MaxSilence
                 THEN posted + 1 ELSE posted
    /\ UNCHANGED <<clock, local, hello_counter, pause, inbox, quiet, sent, silence>>

\* select() begins.
BeginSelect ==
    /\ pc = "poll"
    /\ ~(ForceNull /\ Elapsed >= Sleep)
    /\ mytext = "none"
    /\ Select
    /\ UNCHANGED <<clock, local, hello_counter, pause, mytext, event, inbox, client>>

\* Mutant: the counter of silence is never raised.
SelectTimeoutPatient ==
    /\ pc = "select" /\ inbox = <<>> /\ budget = 0
    /\ local' = clock
    /\ IF Paused
       THEN Select /\ UNCHANGED event
       ELSE Deliver("null")
    /\ UNCHANGED <<clock, hello_counter, pause, mytext, inbox, client>>

\* select() times out: the silence is counted, and too much of it ends the
\* thread; a paused client is waited for again.
SelectTimeout ==
    /\ pc = "select" /\ inbox = <<>> /\ budget = 0
    /\ local' = clock
    /\ hello_counter' = hello_counter + Sleep
    /\ IF hello_counter' > HelloMax
       THEN pc' = "dead" /\ UNCHANGED <<event, budget>>
       ELSE IF Paused
       THEN Select /\ UNCHANGED event
       ELSE Deliver("null")
    /\ UNCHANGED <<clock, pause, mytext, inbox, client>>

\* Mutant: a pause is never lifted.
PauseForever(l) == IF l = "pause" THEN TRUE ELSE pause

\* The line "@pause(n)" sets p->pause.
PauseAfter(l) == CASE l = "pause" -> TRUE [] l = "resume" -> FALSE [] OTHER -> pause

\* select() finds that something has come, be it a byte or the end of the
\* connection: the silence is over.
Readable ==
    /\ pc = "select" /\ inbox # <<>>
    /\ hello_counter' = 0
    /\ pc' = "recv"
    /\ UNCHANGED <<clock, local, pause, mytext, budget, event, inbox, client>>

\* pvtcpreceive has the whole line.  @hello and @pause become null events; a line
\* that comes while (or because) the client is paused is not returned at all.
Receive ==
    /\ pc = "recv" /\ inbox # <<>> /\ Head(inbox) \in Line
    /\ inbox' = Tail(inbox)
    /\ pause' = PauseAfter(Head(inbox))
    /\ IF AllowPause /\ pause'
       THEN Select /\ UNCHANGED event
       ELSE Deliver(IF Head(inbox) \in {"hello", "pause", "resume"} THEN "null"
                    ELSE Head(inbox))
    /\ UNCHANGED <<clock, local, hello_counter, mytext, client>>

\* pvtcpreceive, in pvPollEvent or pvWait, finds the connection closed.
ReceiveEof ==
    /\ pc \in {"recv", "wait"} /\ inbox # <<>> /\ Head(inbox) = "eof"
    /\ inbox' = Tail(inbox)
    /\ pc' = "dead"
    /\ UNCHANGED <<clock, local, hello_counter, pause, mytext, budget, event, client>>

----------------------------------------------------------------------------
(* The application *)

\* The application has handled the event and polls again.
Poll ==
    /\ pc = "app" /\ budget = 0
    /\ pc' = "poll"
    /\ UNCHANGED <<clock, local, hello_counter, pause, mytext, budget, event, inbox, client>>

\* pvSendUserEvent replaces whatever text was there.  The handler of a user event
\* may send the next.
SendUserEvent ==
    /\ pc = "app"
    /\ mytext' = "user"
    /\ UNCHANGED <<clock, local, hello_counter, pause, pc, budget, event, inbox, client>>

\* pvWait drops the text, then reads lines until the answer comes; of the
\* others it keeps the last.  It has no timeout.
BeginWait ==
    /\ AppWaits
    /\ pc = "app"
    /\ mytext' = "none"
    /\ pc' = "wait"
    /\ UNCHANGED <<clock, local, hello_counter, pause, budget, event, inbox, client>>

WaitReceive ==
    /\ pc = "wait" /\ inbox # <<>> /\ Head(inbox) \in Line
    /\ inbox' = Tail(inbox)
    /\ IF Head(inbox) = "answer"
       THEN pc' = "app" /\ event' = "answer" /\ UNCHANGED mytext
       ELSE mytext' = Head(inbox) /\ UNCHANGED <<pc, event>>
    /\ UNCHANGED <<clock, local, hello_counter, pause, budget, client>>

----------------------------------------------------------------------------
(* The client and the time *)

Begun == inbox # <<>> /\ Last(inbox) = "part"

\* x comes, in the place of the line that has begun if there is one.
Arrives(x) ==
    inbox' = Append(IF Begun THEN Front(inbox) ELSE inbox, x)

\* A line, or the rest of one, arrives: at most one per tick.
ClientSends(l) ==
    /\ ~quiet /\ ~sent
    /\ Begun \/ Len(inbox) < MaxInbox
    /\ Arrives(l)
    /\ sent' = TRUE
    /\ UNCHANGED <<clock, local, hello_counter, pause, mytext, pc, budget, event,
                   quiet, silence, posted>>

\* The beginning of a line arrives.
ClientBegins ==
    /\ ~quiet /\ ~Begun
    /\ Len(inbox) < MaxInbox
    /\ Arrives("part")
    /\ UNCHANGED <<clock, local, hello_counter, pause, mytext, pc, budget, event, client>>

ClientCloses ==
    /\ ~quiet
    /\ Begun \/ Len(inbox) < MaxInbox
    /\ Arrives("eof")
    /\ quiet' = TRUE
    /\ UNCHANGED <<clock, local, hello_counter, pause, mytext, pc, budget, event,
                   sent, silence, posted>>

\* It crashes, hangs or is cut off: the connection stays open.
ClientFallsSilent ==
    /\ ~quiet
    /\ quiet' = TRUE
    /\ UNCHANGED <<clock, local, hello_counter, pause, mytext, pc, budget, event, inbox,
                   sent, silence, posted>>

\* No whole line is there.
NoLine == inbox \in {<<>>, <<"part">>}

\* Time passes while the application works and while the thread waits.
Tick ==
    /\ \/ pc = "app" /\ budget > 0 /\ budget' = budget - 1
       \/ pc = "select" /\ inbox = <<>> /\ budget > 0 /\ budget' = budget - 1
       \/ pc = "wait" /\ NoLine /\ UNCHANGED budget
       \/ pc = "recv" /\ NoLine /\ UNCHANGED budget
    /\ clock' = (clock + 1) % Minute
    /\ sent' = FALSE
    /\ silence' = IF quiet /\ NoLine /\ silence < MaxSilence THEN silence + 1 ELSE silence
    /\ UNCHANGED <<local, hello_counter, pause, mytext, pc, event, inbox, quiet, posted>>

ThreadStep ==
    \/ ForceNullEvent \/ TakeMytext \/ BeginSelect \/ SelectTimeout \/ Readable
    \/ Receive \/ ReceiveEof \/ Poll \/ WaitReceive

Next ==
    \/ ThreadStep
    \/ SendUserEvent \/ BeginWait
    \/ \E l \in Line : ClientSends(l)
    \/ ClientBegins \/ ClientCloses \/ ClientFallsSilent
    \/ Tick

Spec == Init /\ [][Next]_vars

\* The thread runs and time passes.
FairSpec == Spec /\ WF_vars(ThreadStep) /\ WF_vars(Tick)

----------------------------------------------------------------------------
(* Properties *)

\* The handler of a user event has sent the next one: select is not reached.
Chained == pc = "poll" /\ event = "user" /\ mytext = "user"

\* A client whose lines keep coming is heard again and again, though null events
\* that fall due and the application's own events go first, unless the
\* application goes on sending user events from the handlers of user events.
LinesReceived ==
    []<>(inbox # <<>> /\ Head(inbox) \in Line)
        => []<><<Receive \/ WaitReceive>>_vars \/ <>(pc = "dead") \/ []<>Chained

\* How long a silent client is waited for, when an event is handled in less than
\* Sleep: between two timeouts of select there is a null event, and before the
\* first of them the event in hand, a forced null event and a line that pvWait
\* has left; a user event adds its own handler and that of a null event that
\* falls due meanwhile.
Patience ==
    (HelloMax \div Sleep + 1) * (Sleep + MaxWork) + 3 * MaxWork + 2 * MaxWork * posted

\* util.cpp:1664-1665, "client will say @hello every 10 seconds, we wait 50
\* seconds max": the thread of a silent client has ended by then, give or
\* take what the application does in between, unless it is inside pvWait or
\* the client was cut off within a line, which is received without a timeout.
\* (The code counts timeouts of select, and a busy application has none.)
SilentClientLeaves ==
    MaxWork < Sleep /\ silence > Patience => pc \in {"dead", "wait", "recv"}

\* A client that is shown again after a pause is served again.
PauseEnds == (\E i \in 1 .. Len(inbox) : inbox[i] = "resume") ~> ~Paused \/ pc = "dead"

\* util.cpp:1218, "-sleep=100 (NULL_EVENTS every 100 milliseconds)": null
\* events keep coming, also while the client sends without a pause.
NullEventsKeepComing == []<>(event = "null" \/ Paused \/ pc = "dead")
=============================================================================
