------------------------------- MODULE Rl3964R -------------------------------
(***************************************************************************)
(* Two stations that both run rl3964R (rllib/lib/rl3964r.cpp), one with    *)
(* high and one with low priority, on a serial line that may lose or       *)
(* spoil characters.  Each has an application thread that calls write()    *)
(* and the receiver thread.                                                *)
(*                                                                         *)
(* The receiver thread reads a character without receiver.lock and then    *)
(* deals with it under the lock, for a whole telegram in send() and        *)
(* receive(); write() gets the lock only between two characters of the     *)
(* main loop.  writeChar() only hands the characters to the driver, and    *)
(* the second that send() and receive() wait starts at once: it may end    *)
(* while a long telegram is still on the line.  rl3964R.state is RECEIVING *)
(* exactly inside receive(), and afterwards what it was before: wants[s]   *)
(* is state = WANT_TO_SEND.                                                *)
(***************************************************************************)
EXTENDS Integers, Sequences, FiniteSets

CONSTANTS
    MaxTelegrams,   \* bound: calls of write() per station
    MaxNoise,       \* bound: characters lost or spoilt
    MaxUpsets       \* bound: frames that receive() leaves too early, time-outs
                    \* that come while characters are on the line

ASSUME Rl3964RAssumption ==
    /\ MaxTelegrams \in Nat
    /\ MaxNoise \in Nat
    /\ MaxUpsets \in Nat

Stations == {"high", "low"}
Other(s) == IF s = "high" THEN "low" ELSE "high"

\* A character on the line: a control character, the text of telegram n (one
\* character stands for all), its checksum, or a spoilt one.  (Two spoilt
\* characters differ: equal ones are beyond a checksum of one byte.)  Zero is a
\* byte of the text that ends the loop of receive(): 0, or the one that fills
\* tel_receive.
STX == <<"STX", 0>>
DLE == <<"DLE", 0>>
ETX == <<"ETX", 0>>
NAK == <<"NAK", 0>>
Zero == <<"zero", 0>>
Spoilt(i) == <<"spoilt", i>>
Text(n) == <<"text", n>>
Bcc(n)  == <<"bcc", n>>
Char == {STX, DLE, ETX, NAK, Zero}
        \cup {Spoilt(i) : i \in 1 .. MaxNoise}
        \cup {Text(n) : n \in 1 .. MaxTelegrams}
        \cup {Bcc(n) : n \in 1 .. MaxTelegrams}

VARIABLES
    pc,         \* the receiver thread: "select", "locked" with a character of
                \* the main loop, "receive", "escape" (after a DLE), "bcc", "ack"
    c,          \* the character the main loop has read
    heard,      \* what receive() has put into tel_receive
    wants,      \* state = WANT_TO_SEND
    line,       \* the characters on their way to each station
    waiting,    \* the application is in write(), behind the unlock
    written,    \* calls of write(); the number of the telegram in tel_send
    sem,        \* the receiver thread's semaphore
    result,     \* send_result = 0
    returned,   \* the last write() reported success
    delivered,  \* per sender, what its partner's callback got
    noise,      \* characters lost or spoilt so far
    upsets      \* history: zeros sent and time-outs too early so far

app  == <<waiting, written, sem, result, returned>>
vars == <<pc, c, heard, wants, line, app, delivered, noise, upsets>>

TypeOK ==
    /\ pc \in [Stations -> {"select", "locked", "receive", "escape", "bcc", "ack"}]
    /\ c \in [Stations -> Char \cup {<<>>}]
    /\ heard \in [Stations -> Seq(Char)]
    /\ wants \in [Stations -> BOOLEAN]
    /\ line \in [Stations -> Seq(Char)]
    /\ waiting \in [Stations -> BOOLEAN]
    /\ written \in [Stations -> 0 .. MaxTelegrams]
    /\ sem \in [Stations -> 0 .. 1]
    /\ result \in [Stations -> BOOLEAN]
    /\ returned \in [Stations -> BOOLEAN]
    /\ delivered \in [Stations -> Seq(0 .. MaxTelegrams)]
    /\ noise \in 0 .. MaxNoise
    /\ upsets \in 0 .. MaxUpsets

Init ==
    /\ pc = [s \in Stations |-> "select"]
    /\ c = [s \in Stations |-> <<>>]
    /\ heard = [s \in Stations |-> <<>>]
    /\ wants = [s \in Stations |-> FALSE]
    /\ line = [s \in Stations |-> <<>>]
    /\ waiting = [s \in Stations |-> FALSE]
    /\ written = [s \in Stations |-> 0]
    /\ sem = [s \in Stations |-> 0]
    /\ result = [s \in Stations |-> TRUE]
    /\ returned = [s \in Stations |-> FALSE]
    /\ delivered = [s \in Stations |-> <<>>]
    /\ noise = 0
    /\ upsets = 0

Goto(s, l) == pc' = [pc EXCEPT ![s] = l]

Transmit(s, chars) == line' = [line EXCEPT ![Other(s)] = @ \o chars]

Arrived(s) == line[s] # <<>>

\* s reads a character, and answers.
ReadAnd(s, chars) ==
    line' = [line EXCEPT ![s] = Tail(@), ![Other(s)] = @ \o chars]

Upset == upsets < MaxUpsets /\ upsets' = upsets + 1

----------------------------------------------------------------------------
(* write() *)

Locked(s) == pc[s] \notin {"select", "locked"}

\* The telegram is stored and STX sent, under the lock.
Write(s) ==
    /\ ~waiting[s]
    /\ ~Locked(s)
    /\ written[s] < MaxTelegrams
    /\ written' = [written EXCEPT ![s] = @ + 1]
    /\ waiting' = [waiting EXCEPT ![s] = TRUE]
    /\ wants' = [wants EXCEPT ![s] = TRUE]
    /\ Transmit(s, <<STX>>)
    /\ UNCHANGED <<pc, c, heard, sem, result, returned, delivered, noise, upsets>>

\* write() passes the semaphore and looks at send_result.
WriteReturns(s) ==
    /\ waiting[s]
    /\ sem[s] > 0
    /\ sem' = [sem EXCEPT ![s] = @ - 1]
    /\ waiting' = [waiting EXCEPT ![s] = FALSE]
    /\ returned' = [returned EXCEPT ![s] = result[s]]
    /\ UNCHANGED <<pc, c, heard, wants, line, written, result, delivered, noise, upsets>>

----------------------------------------------------------------------------
(* receiverThread *)

\* A character is read before the lock is taken.
Take(s) ==
    /\ pc[s] = "select"
    /\ Arrived(s)
    /\ c' = [c EXCEPT ![s] = Head(line[s])]
    /\ line' = [line EXCEPT ![s] = Tail(@)]
    /\ Goto(s, "locked")
    /\ UNCHANGED <<heard, wants, app, delivered, noise, upsets>>

\* The partner wants to send: a station that does not, or that has low
\* priority, lets it.
AnswerStx(s) ==
    /\ pc[s] = "locked"
    /\ c[s] = STX
    /\ wants[s] => s = "low"
    /\ c' = [c EXCEPT ![s] = <<>>]
    /\ heard' = [heard EXCEPT ![s] = <<>>]
    /\ Transmit(s, <<DLE>>)
    /\ Goto(s, "receive")
    /\ UNCHANGED <<wants, app, delivered, noise, upsets>>

\* With high priority it insists.
Insist(s) ==
    /\ pc[s] = "locked"
    /\ c[s] = STX
    /\ wants[s] /\ s = "high"
    /\ c' = [c EXCEPT ![s] = <<>>]
    /\ Transmit(s, <<NAK, STX>>)
    /\ Goto(s, "select")
    /\ UNCHANGED <<heard, wants, app, delivered, noise, upsets>>

\* send(): the partner is ready.
Send(s) ==
    /\ pc[s] = "locked"
    /\ c[s] = DLE
    /\ wants[s]
    /\ c' = [c EXCEPT ![s] = <<>>]
    /\ Transmit(s, <<Text(written[s]), DLE, ETX, Bcc(written[s])>>)
    /\ Goto(s, "ack")
    /\ UNCHANGED <<heard, wants, app, delivered, noise, upsets>>

\* A text with a zero, at its start or later.  What follows the zero is left
\* on the line, and may look like a request: the checksum of 0, 17 is STX.
SendZero(s) ==
    /\ pc[s] = "locked"
    /\ c[s] = DLE
    /\ wants[s]
    /\ c' = [c EXCEPT ![s] = <<>>]
    /\ \E text \in {<<Zero, Text(written[s])>>, <<Text(written[s]), Zero>>},
          bcc \in {Bcc(written[s]), STX} :
         Transmit(s, text \o <<DLE, ETX, bcc>>)
    /\ Goto(s, "ack")
    /\ Upset
    /\ UNCHANGED <<heard, wants, app, delivered, noise>>

\* NAK and every other character change nothing: send_retry is 0 for ever, so
\* STX is not sent again and write() not given up.  (So does the 0xff that
\* stands for a second without a character.)
Ignore(s) ==
    /\ pc[s] = "locked"
    /\ c[s] # STX
    /\ ~(c[s] = DLE /\ wants[s])
    /\ c' = [c EXCEPT ![s] = <<>>]
    /\ Goto(s, "select")
    /\ UNCHANGED <<heard, wants, line, app, delivered, noise, upsets>>

----------------------------------------------------------------------------
(* The end of send() *)

\* state = IDLE and incrementSemaphore
Finish(s, success) ==
    /\ result' = [result EXCEPT ![s] = success]
    /\ wants' = [wants EXCEPT ![s] = FALSE]
    /\ sem' = [sem EXCEPT ![s] = @ + 1]
    /\ Goto(s, "select")

\* Mutant: any answer is a good answer.
AckAny(s) ==
    /\ pc[s] = "ack"
    /\ Arrived(s)
    /\ ReadAnd(s, <<>>)
    /\ Finish(s, TRUE)
    /\ UNCHANGED <<c, heard, waiting, written, returned, delivered, noise, upsets>>

\* Mutant: the semaphore is not incremented.
AckSilent(s) ==
    /\ pc[s] = "ack"
    /\ Arrived(s)
    /\ ReadAnd(s, <<>>)
    /\ result' = [result EXCEPT ![s] = (Head(line[s]) = DLE)]
    /\ wants' = [wants EXCEPT ![s] = FALSE]
    /\ Goto(s, "select")
    /\ UNCHANGED <<c, heard, waiting, written, sem, returned, delivered, noise, upsets>>

Ack(s) ==
    /\ pc[s] = "ack"
    /\ Arrived(s)
    /\ ReadAnd(s, <<>>)
    /\ Finish(s, Head(line[s]) = DLE)
    /\ UNCHANGED <<c, heard, waiting, written, returned, delivered, noise, upsets>>

\* No character is on the line and the partner has none to deal with.
Silence(s) ==
    /\ line = [x \in Stations |-> <<>>]
    /\ pc[Other(s)] # "locked"

\* A second ends without a character: nothing was coming, or it comes too late.
SecondEnds(s) == (Silence(s) /\ UNCHANGED upsets) \/ (~Silence(s) /\ Upset)

AckTimeout(s) ==
    /\ pc[s] = "ack"
    /\ SecondEnds(s)
    /\ Finish(s, FALSE)
    /\ UNCHANGED <<c, heard, line, waiting, written, returned, delivered, noise>>

----------------------------------------------------------------------------
(* receive() *)

\* An ordinary character goes into tel_receive and the checksum.
Hear(s) ==
    /\ pc[s] = "receive"
    /\ Arrived(s)
    /\ Head(line[s]) \notin {DLE, Zero}
    /\ heard' = [heard EXCEPT ![s] = Append(@, Head(line[s]))]
    /\ ReadAnd(s, <<>>)
    /\ UNCHANGED <<pc, c, wants, app, delivered, noise, upsets>>

HearDle(s) ==
    /\ pc[s] = "receive"
    /\ Arrived(s)
    /\ Head(line[s]) = DLE
    /\ ReadAnd(s, <<>>)
    /\ Goto(s, "escape")
    /\ UNCHANGED <<c, heard, wants, app, delivered, noise, upsets>>

\* After DLE the code waits for the next character without a timeout.
HearEscaped(s) ==
    /\ pc[s] = "escape"
    /\ Arrived(s)
    /\ ReadAnd(s, <<>>)
    /\ IF Head(line[s]) = ETX
       THEN Goto(s, "bcc") /\ UNCHANGED heard
       ELSE /\ heard' = [heard EXCEPT ![s] = Append(@, Head(line[s]))]
            /\ Goto(s, "receive")
    /\ UNCHANGED <<c, wants, app, delivered, noise, upsets>>

\* The characters that are left of the exclusive or of all that was heard.
Parity(s) ==
    {x \in Char : Cardinality({i \in DOMAIN heard[s] : heard[s][i] = x}) % 2 = 1}

\* What the callback gets: a telegram of the partner, or 0 for anything else.
Contents(s) == IF Len(heard[s]) = 1 THEN heard[s][1][2] ELSE 0

\* A zero leaves the loop.  received_bcc is still 0: when nothing has been heard,
\* or what was heard cancels out, this is a success and the callback is called.
HearZero(s) ==
    /\ pc[s] = "receive"
    /\ Arrived(s)
    /\ Head(line[s]) = Zero
    /\ IF Parity(s) = {}
       THEN /\ ReadAnd(s, <<DLE>>)
            /\ delivered' = [delivered EXCEPT ![Other(s)] = Append(@, 0)]
       ELSE /\ ReadAnd(s, <<NAK>>)
            /\ UNCHANGED delivered
    /\ heard' = [heard EXCEPT ![s] = <<>>]
    /\ Goto(s, "select")
    /\ UNCHANGED <<c, wants, app, noise, upsets>>

\* The checksum agrees: DLE is sent and the callback called, under the lock.
HearBcc(s) ==
    /\ pc[s] = "bcc"
    /\ Arrived(s)
    /\ \E n \in 1 .. MaxTelegrams :
         Head(line[s]) = Bcc(n) /\ Parity(s) = {Text(n)}
    /\ ReadAnd(s, <<DLE>>)
    /\ delivered' = [delivered EXCEPT ![Other(s)] = Append(@, Contents(s))]
    /\ heard' = [heard EXCEPT ![s] = <<>>]
    /\ Goto(s, "select")
    /\ UNCHANGED <<c, wants, app, noise, upsets>>

HearBadBcc(s) ==
    /\ pc[s] = "bcc"
    /\ Arrived(s)
    /\ \A n \in 1 .. MaxTelegrams :
         ~(Head(line[s]) = Bcc(n) /\ Parity(s) = {Text(n)})
    /\ ReadAnd(s, <<NAK>>)
    /\ heard' = [heard EXCEPT ![s] = <<>>]
    /\ Goto(s, "select")
    /\ UNCHANGED <<c, wants, app, delivered, noise, upsets>>

\* Mutant: receive() gives up like send() does.
ReceiveTimeoutPosts(s) ==
    /\ pc[s] = "receive"
    /\ SecondEnds(s)
    /\ heard' = [heard EXCEPT ![s] = <<>>]
    /\ Finish(s, FALSE)
    /\ UNCHANGED <<c, line, waiting, written, returned, delivered, noise>>

\* A second without a character: receive() gives up and answers nothing.
ReceiveTimeout(s) ==
    /\ pc[s] = "receive"
    /\ SecondEnds(s)
    /\ heard' = [heard EXCEPT ![s] = <<>>]
    /\ Goto(s, "select")
    /\ UNCHANGED <<c, wants, line, app, delivered, noise>>

----------------------------------------------------------------------------
(* The line *)

Lose(s) ==
    /\ Arrived(s)
    /\ noise < MaxNoise
    /\ noise' = noise + 1
    /\ line' = [line EXCEPT ![s] = Tail(@)]
    /\ UNCHANGED <<pc, c, heard, wants, app, delivered, upsets>>

Spoil(s) ==
    /\ Arrived(s)
    /\ Head(line[s])[1] # "spoilt"
    /\ noise < MaxNoise
    /\ noise' = noise + 1
    /\ line' = [line EXCEPT ![s] = <<Spoilt(noise')>> \o Tail(@)]
    /\ UNCHANGED <<pc, c, heard, wants, app, delivered, upsets>>

----------------------------------------------------------------------------
Receiver(s) ==
    \/ Take(s) \/ AnswerStx(s) \/ Insist(s) \/ Send(s) \/ SendZero(s) \/ Ignore(s)
    \/ Ack(s) \/ AckTimeout(s)
    \/ Hear(s) \/ HearDle(s) \/ HearEscaped(s)
    \/ HearZero(s) \/ HearBcc(s) \/ HearBadBcc(s) \/ ReceiveTimeout(s)

Next ==
    \E s \in Stations :
        Receiver(s) \/ Write(s) \/ WriteReturns(s) \/ Lose(s) \/ Spoil(s)

Spec == Init /\ [][Next]_vars

\* Both threads of a station run.
FairSpec ==
    /\ Spec
    /\ \A s \in Stations : WF_vars(Receiver(s)) /\ WF_vars(WriteReturns(s))

----------------------------------------------------------------------------
(* Properties *)

\* No text held a zero or filled the buffer of the receiver, and no second
\* ended while characters were on their way.
Benign == upsets = 0

\* As long as that is so, the users see telegrams that arrive unchanged, in
\* order and at most once, and a success only for what has arrived, although
\* requests to send collide and characters get lost: the states of the two
\* stations never drift so far apart that an old answer or telegram is taken
\* for a new one.  (Afterwards it is false: see SendZero, HearZero, SecondEnds.)
Abstract == INSTANCE TelegramSpec WITH offered <- written, busy <- waiting
DeliversTelegrams ==
    Abstract!Init /\ [][Benign' => Abstract!Next]_(Abstract!vars)

\* On a line without noise, write() of the station with high priority returns,
\* and that of the other one when the two never want to send at the same time.
\* (After a collision it waits for ever, after the loss of STX or of its answer
\* either does.)
Alone == wants # [s \in Stations |-> TRUE]

WriteEnds ==
    []Benign /\ [](noise = 0) =>
        /\ waiting["high"] ~> ~waiting["high"]
        /\ []Alone => (waiting["low"] ~> ~waiting["low"])
=============================================================================
