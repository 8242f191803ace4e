-------------------------- MODULE EventLoopProofs --------------------------
(***************************************************************************)
(* Proofs about the event loop of a client thread, for any sleep time,     *)
(* minute, handlers and behaviour of the client.                           *)
(*                                                                         *)
(* SilentClientLeaves bounds the time since a client fell silent by the    *)
(* number of timeouts the thread has counted, which is hello_counter in    *)
(* units of Sleep, and the number of user events the application has sent  *)
(* itself.  The inductive invariant Waited bounds that time in every       *)
(* state: what has passed and what is still to be done before select       *)
(* begins (ToDo) is never more than Reached(k) + MaxWork after k timeouts. *)
(* A user event that is sent adds nothing until it is returned; then it    *)
(* raises the bound by its own work and that of one null event, which can  *)
(* fall due only once until the next event is taken or select begins.      *)
(***************************************************************************)
EXTENDS EventLoop, SequenceTheorems, TLAPS

\* The work on the event in hand.
InHand == IF pc = "app" THEN budget ELSE 0

\* The time until select begins, user events apart: the event in hand, a null
\* event if it is due by then, a line left by pvWait and another null event.
ToDo ==
    InHand + (IF Elapsed + InHand >= Sleep THEN MaxWork ELSE 0)
           + (IF mytext \in Line THEN 2 * MaxWork ELSE 0)

\* The latest time of the k-th timeout.
Reached(k) == k * (Sleep + MaxWork) + 3 * MaxWork + 2 * MaxWork * posted

Waited(k) ==
    /\ pc \in {"app", "poll"} => silence + ToDo <= Reached(k) + MaxWork
    /\ pc = "select" => silence + budget <= Reached(k) + MaxWork + Sleep

\* Silence is counted when nothing more will come.
OnlySilent == silence > 0 => quiet /\ NoLine

\* No text is left when select begins.
TextUsed == pc \in {"select", "recv"} => mytext = "none"

\* What is left of the time to handle an event.
InTime == pc \in {"app", "wait"} => budget <= MaxWork

Simple ==
    /\ TypeOK /\ OnlySilent /\ TextUsed /\ InTime
    /\ pc # "dead" => hello_counter <= HelloMax

SilenceInv ==
    /\ Simple
    /\ MaxWork < Sleep /\ posted < MaxSilence =>
         \E k \in Nat : hello_counter = k * Sleep /\ Waited(k)

----------------------------------------------------------------------------
(* Arithmetic *)

\* The numbers among the constants.
LEMMA Bounds ==
    /\ Sleep \in Nat /\ Sleep > 0 /\ Minute \in Nat /\ Minute > 0 /\ HelloMax \in Nat
    /\ MaxWork \in Nat /\ MaxWork > 0 /\ MaxInbox \in Nat /\ MaxSilence \in Nat
BY EventLoopAssumption

\* The clock goes on by one, or starts again from zero.
LEMMA ClockTicks ==
    ASSUME NEW c \in 0 .. Minute - 1
    PROVE  (c + 1) % Minute \in 0 .. Minute - 1 /\ (c + 1) % Minute <= c + 1
<1>1. CASE c + 1 < Minute
  BY <1>1, EventLoopAssumption
<1>2. CASE c + 1 = Minute
  BY <1>2, EventLoopAssumption
<1> QED  BY <1>1, <1>2, EventLoopAssumption

\* What the user events have added, and a round of select.
LEMMA Products ==
    ASSUME TypeOK, NEW k \in Nat
    PROVE  /\ 2 * MaxWork * posted \in Nat
           /\ 2 * MaxWork * (posted + 1) = 2 * MaxWork * posted + 2 * MaxWork
           /\ k * (Sleep + MaxWork) \in Nat
           /\ (k + 1) * (Sleep + MaxWork) = k * (Sleep + MaxWork) + Sleep + MaxWork
<1> DEFINE d == Sleep + MaxWork
           w == 2 * MaxWork
<1>1. d \in Nat /\ w \in Nat /\ posted \in Nat
  BY Bounds DEF TypeOK
<1>2. /\ w * posted \in Nat /\ w * (posted + 1) = w * posted + w
      /\ k * d \in Nat /\ (k + 1) * d = k * d + d
  <2> HIDE DEF d, w
  <2> QED  BY <1>1
<1> QED  BY <1>1, <1>2, Bounds

LEMMA ReachedNext ==
    ASSUME TypeOK, NEW k \in Nat
    PROVE  /\ Reached(k) \in Nat
           /\ Reached(k + 1) = Reached(k) + Sleep + MaxWork
           /\ Reached(k) >= 3 * MaxWork
BY Products, Bounds DEF Reached

ReachedLater == \A k \in Nat : Reached(k) \in Nat /\ Reached(k) >= 3 * MaxWork

LEMMA ReachedNat == TypeOK => ReachedLater
BY ReachedNext DEF ReachedLater

LEMMA ReachedAfter == TypeOK' => ReachedLater'
BY ReachedNat, PTL

\* The same numbers after a step.
LEMMA ReachedSame ==
    ASSUME TypeOK, NEW k \in Nat, posted' = posted
    PROVE  Reached(k)' = Reached(k) /\ Reached(k) \in Nat
BY ReachedNext DEF Reached

\* As long as the thread lives it has counted fewer timeouts than it takes.
LEMMA FewTimeouts ==
    ASSUME TypeOK, NEW k \in Nat, k * Sleep <= HelloMax
    PROVE  Reached(k) + Sleep + MaxWork <= Patience /\ Patience \in Nat
<1> DEFINE d == Sleep + MaxWork
           q == HelloMax \div Sleep
<1>1. d \in Nat /\ MaxWork \in Nat /\ Sleep \in Nat \ {0} /\ HelloMax \in Nat
  BY EventLoopAssumption
<1>2. q \in Nat /\ HelloMax < (q + 1) * Sleep
  BY <1>1
<1>3. k <= q
  <2> SUFFICES ASSUME k >= q + 1 PROVE FALSE
    BY <1>2
  <2> HIDE DEF q
  <2>1. (q + 1) * Sleep <= k * Sleep
    BY <1>1, <1>2
  <2> QED  BY <1>1, <1>2, <2>1
<1>4. (k + 1) * d <= (q + 1) * d /\ (k + 1) * d \in Nat /\ (q + 1) * d \in Nat
  <2> HIDE DEF q, d
  <2> QED  BY <1>1, <1>2, <1>3
<1> DEFINE p == 2 * MaxWork * posted
<1>5. p \in Nat /\ Reached(k) + Sleep + MaxWork = (k + 1) * d + 3 * MaxWork + p
  <2>1. Reached(k) = k * d + 3 * MaxWork + p
    BY DEF Reached
  <2>2. p \in Nat /\ k * d \in Nat /\ (k + 1) * d = k * d + Sleep + MaxWork
    BY Products
  <2> HIDE DEF d, p
  <2> QED  BY <1>1, <2>1, <2>2
<1>6. Patience = (q + 1) * d + 3 * MaxWork + p
  BY DEF Patience
<1> QED
  <2> HIDE DEF q, d, p
  <2> QED  BY <1>1, <1>4, <1>5, <1>6

----------------------------------------------------------------------------
(* Types, and the texts *)

\* Taking a line from the inbox.
LEMMA TakesLine ==
    ASSUME TypeOK, inbox # <<>>
    PROVE  /\ Head(inbox) \in Received
           /\ Tail(inbox) \in Seq(Received)
           /\ Len(Tail(inbox)) <= MaxInbox
<1>1. inbox \in Seq(Received) /\ Len(inbox) <= MaxInbox
  BY DEF TypeOK
<1>2. /\ Len(Tail(inbox)) = Len(inbox) - 1 /\ Tail(inbox) \in Seq(Received)
      /\ Head(inbox) \in Received /\ Len(inbox) \in Nat
  BY <1>1
<1> QED  BY <1>1, <1>2, Bounds

\* Something arrives.
LEMMA PutsLine ==
    ASSUME TypeOK, Begun \/ Len(inbox) < MaxInbox, NEW x \in Received, Arrives(x)
    PROVE  inbox' \in Seq(Received) /\ Len(inbox') <= MaxInbox
<1> DEFINE s == IF Begun THEN Front(inbox) ELSE inbox
<1>1. inbox \in Seq(Received) /\ Len(inbox) <= MaxInbox /\ Len(inbox) \in Nat
  BY DEF TypeOK
<1>2. s \in Seq(Received) /\ Len(s) < MaxInbox
  <2>1. CASE Begun
    <3>1. inbox # <<>> /\ Len(inbox) > 0
      BY <1>1, <2>1 DEF Begun
    <3>2. Front(inbox) = SubSeq(inbox, 1, Len(inbox) - 1)
      BY DEF Front
    <3> DEFINE m == Len(inbox) - 1
    <3>3. m \in Int /\ \A i \in 1 .. m : inbox[i] \in Received
      BY <1>1
    <3>4. Front(inbox) \in Seq(Received) /\ Len(Front(inbox)) = m
      <4>1. m \in Nat
        BY <1>1, <3>1
      <4> HIDE DEF m
      <4>2. /\ SubSeq(inbox, 1, m) \in Seq(Received)
            /\ Len(SubSeq(inbox, 1, m)) = IF 1 <= m THEN m - 1 + 1 ELSE 0
        BY <3>3, SubSeqProperties
      <4>3. (IF 1 <= m THEN m - 1 + 1 ELSE 0) = m
        BY <4>1
      <4>4. Front(inbox) = SubSeq(inbox, 1, m)
        BY <3>2 DEF m
      <4> QED  BY <4>2, <4>3, <4>4, Zenon
    <3> QED  BY <1>1, <2>1, <3>4, Bounds
  <2>2. CASE ~Begun
    BY <1>1, <2>2
  <2> QED  BY <2>1, <2>2
<1>3. inbox' = Append(s, x)
  BY DEF Arrives
<1> HIDE DEF s
<1>4. Append(s, x) \in Seq(Received) /\ Len(Append(s, x)) = Len(s) + 1 /\ Len(s) \in Nat
  BY <1>2
<1> QED  BY <1>2, <1>3, <1>4, Bounds

\* A line at the head: silence is not counted.
LEMMA LineThere ==
    ASSUME Simple, inbox # <<>>, Head(inbox) \in Line
    PROVE  ~NoLine /\ silence = 0
<1>1. inbox # <<"part">>
  BY DEF Line
<1> QED  BY <1>1 DEF NoLine, Simple, OnlySilent, TypeOK

LEMMA InitSimple == Init => Simple
<1> SUFFICES ASSUME Init PROVE Simple
  OBVIOUS
<1>1. inbox \in Seq(Received) /\ Len(inbox) = 0
  BY DEF Init
<1>2. TypeOK
  <2>1. /\ clock \in 0 .. Minute - 1 /\ local \in 0 .. Minute - 1 /\ budget \in Nat
        /\ hello_counter \in 0 .. HelloMax + Sleep /\ silence \in 0 .. MaxSilence
        /\ Len(inbox) <= MaxInbox /\ posted \in 0 .. MaxSilence
    BY <1>1, Bounds DEF Init
  <2> QED  BY <1>1, <2>1 DEF Init, TypeOK
<1> QED
  BY <1>2, Bounds DEF Init, Simple, OnlySilent, TextUsed, InTime

LEMMA NextSimple == Simple /\ [Next]_vars => Simple'
<1> SUFFICES ASSUME Simple, [Next]_vars PROVE Simple'
  OBVIOUS
<1> USE Bounds DEF Simple
<1>1. CASE ForceNullEvent \/ BeginSelect \/ Poll
  <2>1. TypeOK'
    BY <1>1 DEF ForceNullEvent, BeginSelect, Poll, Deliver, Select, TypeOK, client
  <2>2. OnlySilent' /\ TextUsed' /\ InTime' /\ hello_counter' = hello_counter
    BY <1>1 DEF ForceNullEvent, BeginSelect, Poll, Deliver, Select, TypeOK,
                OnlySilent, NoLine, TextUsed, InTime, client, Line
  <2> QED  BY <1>1, <2>1, <2>2 DEF ForceNullEvent, BeginSelect, Poll
<1>2. CASE TakeMytext
  <2>1. TypeOK'
    <3>1. posted' \in 0 .. MaxSilence
      BY <1>2 DEF TakeMytext, TypeOK
    <3> QED  BY <1>2, <3>1 DEF TakeMytext, Deliver, TypeOK
  <2>2. OnlySilent' /\ TextUsed' /\ InTime' /\ hello_counter' = hello_counter
    BY <1>2 DEF TakeMytext, Deliver, OnlySilent, NoLine, TextUsed, InTime
  <2> QED  BY <1>2, <2>1, <2>2 DEF TakeMytext
<1>3. CASE SelectTimeout
  <2>1. TypeOK'
    BY <1>3 DEF SelectTimeout, Deliver, Select, TypeOK, client
  <2>2. OnlySilent' /\ TextUsed' /\ InTime' /\ (pc' # "dead" => hello_counter' <= HelloMax)
    BY <1>3 DEF SelectTimeout, Deliver, Select, TypeOK, OnlySilent, NoLine, TextUsed, InTime,
                client
  <2> QED  BY <2>1, <2>2
<1>4. CASE Readable
  <2>1. TypeOK'
    BY <1>4 DEF Readable, TypeOK, client
  <2> QED
    BY <1>4, <2>1 DEF Readable, OnlySilent, NoLine, TextUsed, InTime, TypeOK, client
<1>5. CASE Receive
  <2>1. Head(inbox) \in Line /\ silence = 0
    BY <1>5, LineThere DEF Receive
  <2>2. TypeOK'
    <3>1. /\ inbox' \in Seq(Received) /\ Len(inbox') <= MaxInbox
          /\ UNCHANGED <<clock, local, hello_counter, mytext, quiet, sent, silence, posted>>
      BY <1>5, TakesLine DEF Receive, client
    <3>2. pause' \in BOOLEAN
      BY <1>5, <2>1 DEF Receive, PauseAfter, TypeOK
    <3>3. /\ pc' \in {"select", "app"} /\ budget' \in Nat
          /\ event' \in Line \cup {"none", "null", "user"}
      BY <1>5, <2>1 DEF Receive, Deliver, Select, TypeOK
    <3> QED  BY <3>1, <3>2, <3>3 DEF TypeOK
  <2>3. silence' = 0 /\ hello_counter' = hello_counter /\ pc # "dead" /\ mytext' = mytext
    BY <1>5, <2>1 DEF Receive, client
  <2>4. OnlySilent' /\ InTime'
    BY <1>5, <2>1, <2>3 DEF Receive, Deliver, Select, OnlySilent, InTime
  <2>5. TextUsed'
    BY <1>5, <2>3 DEF Receive, TextUsed
  <2> QED  BY <2>2, <2>3, <2>4, <2>5
<1>6. CASE ReceiveEof
  <2>1. TypeOK'
    BY <1>6, TakesLine DEF ReceiveEof, TypeOK, client
  <2>2. silence = 0
    <3>1. inbox # <<"part">>
      BY <1>6 DEF ReceiveEof
    <3> QED  BY <1>6, <3>1 DEF ReceiveEof, OnlySilent, NoLine, TypeOK
  <2> QED
    BY <1>6, <2>1, <2>2 DEF ReceiveEof, OnlySilent, TextUsed, InTime, client
<1>7. CASE SendUserEvent \/ BeginWait
  <2>1. TypeOK'
    BY <1>7 DEF SendUserEvent, BeginWait, TypeOK, client
  <2> QED
    BY <1>7, <2>1 DEF SendUserEvent, BeginWait, OnlySilent, NoLine, TextUsed, InTime, client
<1>8. CASE WaitReceive
  <2>1. Head(inbox) \in Line /\ silence = 0
    BY <1>8, LineThere DEF WaitReceive
  <2>2. TypeOK'
    BY <1>8, <2>1, TakesLine DEF WaitReceive, TypeOK, client
  <2>3. silence' = 0 /\ hello_counter' = hello_counter
    BY <1>8, <2>1 DEF WaitReceive, client
  <2>4. TextUsed' /\ OnlySilent' /\ pc' # "dead" /\ pc # "dead"
    BY <1>8, <2>3 DEF WaitReceive, OnlySilent, TextUsed
  <2>5. InTime'
    BY <1>8 DEF WaitReceive, InTime
  <2> QED  BY <2>2, <2>3, <2>4, <2>5
<1>9. CASE ClientCloses \/ ClientBegins \/ \E l \in Line : ClientSends(l)
  <2>1. inbox' \in Seq(Received) /\ Len(inbox') <= MaxInbox
    BY <1>9, PutsLine DEF ClientCloses, ClientBegins, ClientSends, Received
  <2>2. /\ UNCHANGED <<clock, local, hello_counter, pause, mytext, pc, budget, event,
                       silence, posted>>
        /\ quiet' \in BOOLEAN /\ sent' \in BOOLEAN /\ ~quiet
    BY <1>9 DEF ClientCloses, ClientBegins, ClientSends, TypeOK, client
  <2>3. TypeOK'
    BY <2>1, <2>2 DEF TypeOK
  <2>4. silence = 0
    BY <2>2 DEF OnlySilent, TypeOK
  <2> QED
    BY <2>2, <2>3, <2>4 DEF OnlySilent, TextUsed, InTime
<1>10. CASE ClientFallsSilent
  <2>1. TypeOK'
    BY <1>10 DEF ClientFallsSilent, TypeOK
  <2> QED
    BY <1>10, <2>1 DEF ClientFallsSilent, OnlySilent, NoLine, TextUsed, InTime, TypeOK
<1>11. CASE Tick
  <2>1. TypeOK'
    <3>1. clock' \in 0 .. Minute - 1
      BY <1>11, ClockTicks DEF Tick, TypeOK
    <3>2. budget \in Nat /\ budget' \in Nat
      BY <1>11 DEF Tick, TypeOK
    <3>3. silence' \in 0 .. MaxSilence
      BY <1>11 DEF Tick, TypeOK
    <3> QED  BY <1>11, <3>1, <3>2, <3>3 DEF Tick, TypeOK
  <2>2. OnlySilent'
    BY <1>11 DEF Tick, OnlySilent, NoLine, TypeOK
  <2> QED
    BY <1>11, <2>1, <2>2 DEF Tick, TextUsed, InTime, TypeOK
<1>12. CASE UNCHANGED vars
  BY <1>12 DEF vars, client, TypeOK, OnlySilent, NoLine, TextUsed, InTime
<1> QED
  BY <1>1, <1>2, <1>3, <1>4, <1>5, <1>6, <1>7, <1>8, <1>9, <1>10, <1>11, <1>12
  DEF Next, ThreadStep

----------------------------------------------------------------------------
(* How long a silent client is waited for *)

\* What is left to do before select begins.
Cases ==
    /\ budget \in Nat /\ silence \in Nat /\ Elapsed \in Int
    /\ InHand \in Nat /\ ToDo \in Nat

LEMMA Work == Simple => Cases
<1> SUFFICES ASSUME Simple PROVE Cases
  OBVIOUS
<1>1. budget \in Nat /\ silence \in Nat /\ Elapsed \in Int
  BY Bounds DEF Simple, TypeOK, Elapsed
<1>2. InHand \in Nat
  BY <1>1 DEF InHand
<1>3. ToDo \in Nat
  BY <1>1, <1>2, Bounds DEF ToDo
<1> QED  BY <1>1, <1>2, <1>3 DEF Cases

LEMMA WorkAfter == Simple' => Cases'
BY Work, PTL

\* The arithmetic of an event that has just been returned.
LEMMA AddsUp ==
    ASSUME NEW b \in 1 .. MaxWork, NEW n \in Nat, NEW e \in Int
    PROVE  /\ b + 0 + n <= MaxWork + n
           /\ b + (IF e + b >= Sleep THEN MaxWork ELSE 0) + 0 <= 2 * MaxWork
           /\ e = 0 /\ MaxWork < Sleep => ~(e + b >= Sleep)
<1>1. b \in Nat /\ b <= MaxWork
  BY Bounds
<1>2. b + 0 + n <= MaxWork + n
  BY <1>1, Bounds
<1>3. b + (IF e + b >= Sleep THEN MaxWork ELSE 0) + 0 <= 2 * MaxWork
  BY <1>1, Bounds
<1>4. e = 0 /\ MaxWork < Sleep => ~(e + b >= Sleep)
  BY <1>1, Bounds
<1> QED  BY <1>2, <1>3, <1>4

\* When a line has just been received everything is within the bound.
LEMMA JustHeard ==
    ASSUME Simple, silence = 0, pc # "select", NEW k \in Nat
    PROVE  Waited(k)
<1>1. /\ pc = "app" => budget <= MaxWork
      /\ Reached(k) \in Nat /\ Reached(k) >= 3 * MaxWork
  BY ReachedNext DEF Simple, InTime
<1>2. InHand <= MaxWork
  BY <1>1, Bounds DEF InHand
<1>3. ToDo <= 4 * MaxWork
  BY <1>2, Work, Bounds DEF Cases, ToDo
<1> QED  BY <1>1, <1>3, Work, Bounds DEF Cases, Waited

LEMMA HeardAfter ==
    ASSUME Simple', silence' = 0, pc' # "select", NEW k \in Nat
    PROVE  Waited(k)'
<1>1. /\ pc' = "app" => budget' <= MaxWork
      /\ Reached(k)' \in Nat /\ Reached(k)' >= 3 * MaxWork
  <2>1. TypeOK' /\ InTime'
    BY DEF Simple
  <2> QED  BY <2>1, ReachedAfter DEF InTime, ReachedLater
<1>2. InHand' <= MaxWork
  BY <1>1, Bounds DEF InHand
<1>3. ToDo' <= 4 * MaxWork
  BY <1>2, WorkAfter, Bounds DEF Cases, ToDo
<1> QED  BY <1>1, <1>3, WorkAfter, Bounds DEF Cases, Waited

\* A step that changes neither the time nor what is left to do.
LEMMA NothingChanges ==
    ASSUME UNCHANGED <<pc, budget, event, mytext, clock, local, silence, posted>>,
           NEW k \in Nat, Waited(k)
    PROVE  Waited(k)'
BY DEF Waited, ToDo, InHand, Elapsed, Reached

\* A null event falls due only when it has been allowed for.
LEMMA NullEventWaited ==
    ASSUME Simple, Simple', MaxWork < Sleep, NEW k \in Nat, Waited(k), ForceNullEvent
    PROVE  Waited(k)'
<1>1. /\ pc = "poll" /\ pc' = "app" /\ silence' = silence /\ Elapsed >= Sleep
      /\ Elapsed' = 0 /\ budget' \in 1 .. MaxWork /\ mytext' = mytext /\ posted' = posted
  <2>1. local' = clock /\ clock' = clock /\ clock \in Int
    BY DEF ForceNullEvent, Simple, TypeOK
  <2> QED  BY <2>1 DEF ForceNullEvent, Deliver, Elapsed, client
<1> DEFINE L == IF mytext \in Line THEN 2 * MaxWork ELSE 0
<1>2. L \in Nat
  BY Bounds
<1>3. ToDo = MaxWork + L
  BY <1>1, Work, Bounds DEF ToDo, InHand, Cases
<1>4. ToDo' <= MaxWork + L
  <2>1. InHand' = budget'
    BY <1>1 DEF InHand
  <2>2. ~(Elapsed' + budget' >= Sleep)
    BY <1>1, AddsUp
  <2>3. ToDo' = budget' + 0 + L
    BY <1>1, <2>1, <2>2 DEF ToDo
  <2> HIDE DEF L
  <2> QED  BY <1>1, <1>2, <2>3, AddsUp
<1> HIDE DEF L
<1>5. silence + ToDo <= Reached(k) + MaxWork /\ Reached(k)' = Reached(k) /\ Reached(k) \in Nat
  BY <1>1, ReachedSame DEF Waited, Simple
<1>6. silence' + ToDo' <= Reached(k)' + MaxWork
  BY <1>1, <1>2, <1>3, <1>4, <1>5, Work, WorkAfter, Bounds DEF Cases
<1> QED  BY <1>1, <1>6 DEF Waited

\* A text is returned.  A line left by pvWait has been allowed for; a user event
\* raises the bound, or is returned before the silence is counted.
LEMMA TextWaited ==
    ASSUME Simple, Simple', NEW k \in Nat, Waited(k), TakeMytext, posted < MaxSilence
    PROVE  Waited(k)'
<1>1. /\ pc = "poll" /\ pc' = "app" /\ silence' = silence /\ Elapsed' = Elapsed
      /\ budget' \in 1 .. MaxWork /\ mytext' = "none" /\ mytext # "none"
      /\ mytext \in Line \cup {"none", "user"}
  BY DEF TakeMytext, Deliver, Elapsed, Simple, TypeOK
<1>2. CASE silence = 0
  BY <1>1, <1>2, HeardAfter
<1>3. CASE silence # 0
  <2>1. silence > 0 /\ TypeOK
    BY <1>3, Work DEF Cases, Simple
  <2>2. silence + ToDo <= Reached(k) + MaxWork
    BY <1>1 DEF Waited
  <2>3. ToDo' <= 2 * MaxWork
    <3>1. InHand' = budget' /\ "none" \notin Line
      BY <1>1 DEF InHand, Line
    <3>2. ToDo' = budget' + (IF Elapsed' + budget' >= Sleep THEN MaxWork ELSE 0) + 0
      BY <1>1, <3>1 DEF ToDo
    <3> QED  BY <1>1, <3>2, AddsUp, WorkAfter DEF Cases
  <2>4. CASE mytext = "user"
    <3>1. posted' = posted + 1
      BY <2>1, <2>4 DEF TakeMytext
    <3>2. Reached(k)' = Reached(k) + 2 * MaxWork /\ Reached(k) \in Nat
      <4>1. Reached(k)' = k * (Sleep + MaxWork) + 3 * MaxWork + 2 * MaxWork * (posted + 1)
        BY <3>1 DEF Reached
      <4>2. Reached(k) = k * (Sleep + MaxWork) + 3 * MaxWork + 2 * MaxWork * posted
        BY DEF Reached
      <4> DEFINE a == k * (Sleep + MaxWork)
                 b == 2 * MaxWork * posted
                 c == 2 * MaxWork * (posted + 1)
      <4>3. a \in Nat /\ b \in Nat /\ c = b + 2 * MaxWork
        BY <2>1, Products
      <4> HIDE DEF a, b, c
      <4>4. Reached(k)' = a + 3 * MaxWork + c /\ Reached(k) = a + 3 * MaxWork + b
        BY <4>1, <4>2 DEF a, b, c
      <4> QED  BY <4>3, <4>4, Bounds
    <3>3. silence' + ToDo' <= Reached(k)' + MaxWork
      BY <1>1, <2>2, <2>3, <3>2, Work, WorkAfter, Bounds DEF Cases
    <3> QED  BY <1>1, <3>3 DEF Waited
  <2>5. CASE mytext # "user"
    <3>1. posted' = posted /\ mytext \in Line
      BY <1>1, <2>5 DEF TakeMytext
    <3>2. Reached(k)' = Reached(k) /\ Reached(k) \in Nat
      BY <2>1, <3>1, ReachedSame
    <3>3. ToDo >= 2 * MaxWork
      BY <3>1, Work, Bounds DEF Cases, ToDo
    <3>4. silence' + ToDo' <= Reached(k)' + MaxWork
      BY <1>1, <2>2, <2>3, <3>2, <3>3, Work, WorkAfter, Bounds DEF Cases
    <3> QED  BY <1>1, <3>4 DEF Waited
  <2> QED  BY <2>4, <2>5
<1> QED  BY <1>2, <1>3

\* The application polls, sends itself an event, or waits.
LEMMA AppWaited ==
    ASSUME Simple, Simple', NEW k \in Nat, Waited(k), Poll \/ SendUserEvent \/ BeginWait
    PROVE  Waited(k)'
<1>1. CASE BeginWait
  BY <1>1 DEF BeginWait, Waited
<1>2. CASE Poll \/ SendUserEvent
  <2>1. /\ pc = "app" /\ pc' \in {"app", "poll"} /\ silence' = silence
        /\ Elapsed' = Elapsed /\ posted' = posted
        /\ (pc' = "poll" => budget = 0) /\ budget' = budget
        /\ mytext' = mytext \/ mytext' = "user"
    BY <1>2 DEF Poll, SendUserEvent, Elapsed, client
  <2>2. InHand' = InHand /\ "user" \notin Line
    BY <2>1, Work DEF InHand, Cases, Line
  <2>3. ToDo' <= ToDo
    <3>1. CASE mytext' = mytext
      BY <2>1, <2>2, <3>1, Work, Bounds DEF Cases, ToDo
    <3>2. CASE mytext' = "user"
      BY <2>1, <2>2, <3>2, Work, Bounds DEF Cases, ToDo
    <3> QED  BY <2>1, <3>1, <3>2
  <2>4. /\ silence + ToDo <= Reached(k) + MaxWork
        /\ Reached(k)' = Reached(k) /\ Reached(k) \in Nat
    BY <2>1, ReachedSame DEF Waited, Simple
  <2>5. silence' + ToDo' <= Reached(k)' + MaxWork
    BY <2>1, <2>3, <2>4, Work, WorkAfter, Bounds DEF Cases
  <2> QED  BY <2>1, <2>5 DEF Waited
<1> QED  BY <1>1, <1>2

\* select begins when nothing is left to do.
LEMMA SelectWaited ==
    ASSUME Simple, Simple', NEW k \in Nat, Waited(k), BeginSelect
    PROVE  Waited(k)'
<1>1. /\ pc = "poll" /\ pc' = "select" /\ silence' = silence /\ budget' = Sleep
      /\ posted' = posted
  BY DEF BeginSelect, Select, client
<1>2. Reached(k)' = Reached(k) /\ Reached(k) \in Nat
  BY <1>1, ReachedSame DEF Simple
<1>3. silence + ToDo <= Reached(k) + MaxWork
  BY <1>1 DEF Waited
<1>4. silence' + budget' <= Reached(k)' + MaxWork + Sleep
  BY <1>1, <1>2, <1>3, Work, Bounds DEF Cases
<1> QED  BY <1>1, <1>4 DEF Waited

\* Time passes, and there is less left to do.
LEMMA TickWaited ==
    ASSUME Simple, Simple', NEW k \in Nat, Waited(k), Tick
    PROVE  Waited(k)'
<1>1. /\ silence' <= silence + 1 /\ pc' = pc /\ Elapsed' <= Elapsed + 1
      /\ UNCHANGED <<mytext, event, posted>>
      /\ pc \in {"app", "select"} => budget' = budget - 1
      /\ pc # "poll"
  <2>1. clock' <= clock + 1 /\ local' = local
    BY ClockTicks DEF Tick, Simple, TypeOK
  <2>2. clock \in Int /\ local \in Int /\ silence \in Int /\ clock' \in Int
    BY Bounds DEF Simple, TypeOK
  <2>3. Elapsed' <= Elapsed + 1
    <3>1. Elapsed = clock - local /\ Elapsed' = clock' - local
      BY <2>1 DEF Elapsed
    <3>2. \A a, b, c \in Int : a <= b + 1 => a - c <= (b - c) + 1
      OBVIOUS
    <3> QED  BY <2>1, <2>2, <3>1, <3>2, Zenon
  <2> QED  BY <2>2, <2>3 DEF Tick
<1>2. Reached(k)' = Reached(k) /\ Reached(k) \in Nat
  BY <1>1, ReachedSame DEF Simple
<1>3. CASE pc = "app"
  <2>1. InHand' = InHand - 1
    BY <1>1, <1>3, Work DEF Cases, InHand
  <2>2. ToDo' <= ToDo - 1
    <3> DEFINE L == IF mytext \in Line THEN 2 * MaxWork ELSE 0
               D == IF Elapsed + InHand >= Sleep THEN MaxWork ELSE 0
               E == IF Elapsed' + InHand' >= Sleep THEN MaxWork ELSE 0
    <3>1. ToDo = InHand + D + L /\ ToDo' = InHand' + E + L
      BY <1>1 DEF ToDo
    <3>2. E <= D /\ E \in Nat /\ D \in Nat /\ L \in Nat
      <4>1. Elapsed' + InHand' <= Elapsed + InHand
        BY <1>1, <2>1, Work, WorkAfter DEF Cases
      <4>2. Elapsed' + InHand' \in Int /\ Elapsed + InHand \in Int
        BY Work, WorkAfter DEF Cases
      <4> QED  BY <4>1, <4>2, Bounds
    <3> HIDE DEF L, D, E
    <3> QED  BY <2>1, <3>1, <3>2, Work DEF Cases
  <2>3. silence + ToDo <= Reached(k) + MaxWork
    BY <1>3 DEF Waited
  <2>4. silence' + ToDo' <= Reached(k)' + MaxWork
    BY <1>1, <1>2, <2>2, <2>3, Work, WorkAfter, Bounds DEF Cases
  <2> QED  BY <1>1, <1>3, <2>4 DEF Waited
<1>4. CASE pc = "select"
  <2>1. silence + budget <= Reached(k) + MaxWork + Sleep
    BY <1>4 DEF Waited
  <2>2. silence' + budget' <= Reached(k)' + MaxWork + Sleep
    BY <1>1, <1>2, <1>4, <2>1, Work, WorkAfter, Bounds DEF Cases
  <2> QED  BY <1>1, <1>4, <2>2 DEF Waited
<1>5. CASE pc \notin {"app", "select"}
  BY <1>1, <1>5 DEF Waited
<1> QED  BY <1>3, <1>4, <1>5

\* A timeout of select is counted: the bound goes on by one round.
LEMMA TimeoutWaited ==
    ASSUME Simple, Simple', MaxWork < Sleep, NEW k \in Nat, Waited(k), SelectTimeout
    PROVE  Waited(k + 1)'
<1>1. /\ pc = "select" /\ budget = 0 /\ silence' = silence /\ mytext' = "none"
      /\ Elapsed' = 0 /\ posted' = posted
  <2>1. local' = clock /\ clock' = clock /\ clock \in Int
    BY DEF SelectTimeout, Simple, TypeOK
  <2> QED  BY <2>1 DEF SelectTimeout, Elapsed, client, Simple, TextUsed
<1>2. /\ Reached(k + 1)' = Reached(k) + Sleep + MaxWork /\ Reached(k) \in Nat
      /\ silence <= Reached(k) + MaxWork + Sleep
  <2>1. Reached(k + 1)' = Reached(k + 1)
    BY <1>1 DEF Reached
  <2>2. silence + budget <= Reached(k) + MaxWork + Sleep
    BY <1>1 DEF Waited
  <2> QED  BY <1>1, <2>1, <2>2, ReachedNext, Work DEF Cases, Simple
<1>3. CASE pc' = "app"
  <2>1. budget' \in 1 .. MaxWork
    BY <1>3 DEF SelectTimeout, Deliver, Select
  <2>2. ToDo' <= MaxWork
    <3>1. InHand' = budget'
      BY <1>3 DEF InHand
    <3>2. ~(Elapsed' + budget' >= Sleep)
      BY <1>1, <2>1, AddsUp
    <3>3. ToDo' = budget' + 0 + 0
      BY <1>1, <3>1, <3>2 DEF ToDo, Line
    <3>4. budget' + 0 + 0 <= MaxWork + 0
      BY <2>1, AddsUp
    <3> QED  BY <3>3, <3>4, Bounds
  <2>3. silence' + ToDo' <= Reached(k + 1)' + MaxWork
    BY <1>1, <1>2, <2>2, Work, WorkAfter, Bounds DEF Cases
  <2> QED  BY <1>3, <2>3 DEF Waited
<1>4. CASE pc' = "select"
  <2>1. budget' = Sleep
    BY <1>4 DEF SelectTimeout, Deliver, Select
  <2>2. silence' + budget' <= Reached(k + 1)' + MaxWork + Sleep
    BY <1>1, <1>2, <2>1, Work, Bounds DEF Cases
  <2> QED  BY <1>4, <2>2 DEF Waited
<1>5. pc' \in {"dead", "app", "select"}
  BY DEF SelectTimeout, Deliver, Select
<1> QED  BY <1>3, <1>4, <1>5 DEF Waited

\* A line ends the silence; while it is paused the client is waited for at once.
LEMMA HeardWaited ==
    ASSUME Simple, Simple', Receive, NEW k \in Nat
    PROVE  Waited(k)'
<1>1. silence' = 0
  BY LineThere DEF Receive, client
<1>2. CASE pc' = "select"
  <2>1. budget' = Sleep
    BY <1>2 DEF Receive, Deliver, Select
  <2>2. Reached(k)' \in Nat
    BY ReachedAfter DEF Simple, ReachedLater
  <2> QED  BY <1>1, <1>2, <2>1, <2>2, Bounds DEF Waited
<1>3. CASE pc' = "app"
  BY <1>1, <1>3, HeardAfter
<1> QED  BY <1>2, <1>3 DEF Receive, Deliver, Select

LEMMA InitSilence == Init => SilenceInv
<1> SUFFICES ASSUME Init PROVE SilenceInv
  OBVIOUS
<1>1. Simple
  BY InitSimple
<1>2. Waited(0)
  BY <1>1, JustHeard DEF Init
<1>3. hello_counter = 0 * Sleep
  BY Bounds DEF Init
<1> QED  BY <1>1, <1>2, <1>3 DEF SilenceInv

\* No step counts fewer user events.
LEMMA PostedGrows == Simple /\ [Next]_vars => posted <= posted'
<1> SUFFICES ASSUME Simple, [Next]_vars PROVE posted <= posted'
  OBVIOUS
<1>1. posted \in Nat /\ (posted' = posted \/ posted' = posted + 1)
  BY DEF Simple, TypeOK, Next, ThreadStep, ForceNullEvent, TakeMytext, BeginSelect,
         SelectTimeout, Readable, Receive, ReceiveEof, Poll, WaitReceive, SendUserEvent,
         BeginWait, ClientSends, ClientBegins, ClientCloses, ClientFallsSilent, Tick,
         vars, client
<1> QED  BY <1>1

LEMMA NextSilence == SilenceInv /\ [Next]_vars => SilenceInv'
<1> SUFFICES ASSUME SilenceInv, [Next]_vars PROVE SilenceInv'
  OBVIOUS
<1>1. Simple /\ Simple'
  BY NextSimple DEF SilenceInv
<1>2. ASSUME MaxWork < Sleep, posted' < MaxSilence
      PROVE  \E k \in Nat : hello_counter' = k * Sleep /\ Waited(k)'
  <2>0. posted < MaxSilence
    BY <1>1, <1>2, PostedGrows, Bounds DEF Simple, TypeOK
  <2>1. PICK k \in Nat : hello_counter = k * Sleep /\ Waited(k)
    BY <1>2, <2>0 DEF SilenceInv
  <2>2. CASE SelectTimeout
    <3>1. Waited(k + 1)'
      BY <1>1, <1>2, <2>1, <2>2, TimeoutWaited
    <3>2. hello_counter' = (k + 1) * Sleep
      <4>1. hello_counter' = k * Sleep + Sleep
        BY <2>1, <2>2 DEF SelectTimeout
      <4> QED  BY <4>1, Bounds
    <3> QED  BY <3>1, <3>2
  <2>3. CASE Readable
    <3>1. Waited(0)' /\ hello_counter' = 0
      BY <2>3 DEF Readable, Waited
    <3>2. 0 = 0 * Sleep
      BY Bounds
    <3> QED  BY <3>1, <3>2
  <2>4. CASE ~SelectTimeout /\ ~Readable
    <3>1. hello_counter' = hello_counter
      BY <2>4
      DEF Next, ThreadStep, ForceNullEvent, TakeMytext, BeginSelect, Receive, ReceiveEof,
          Poll, WaitReceive, SendUserEvent, BeginWait, ClientSends, ClientBegins,
          ClientCloses, ClientFallsSilent, Tick, vars
    <3>2. Waited(k)'
      <4>1. CASE ForceNullEvent
        BY <1>1, <1>2, <2>1, <4>1, NullEventWaited
      <4>2. CASE TakeMytext
        BY <1>1, <2>0, <2>1, <4>2, TextWaited
      <4>3. CASE Poll \/ SendUserEvent \/ BeginWait
        BY <1>1, <2>1, <4>3, AppWaited
      <4>4. CASE BeginSelect
        BY <1>1, <2>1, <4>4, SelectWaited
      <4>5. CASE Tick
        BY <1>1, <2>1, <4>5, TickWaited
      <4>6. CASE ReceiveEof
        BY <4>6 DEF ReceiveEof, Waited
      <4>7. CASE WaitReceive
        <5>1. silence' = 0 /\ pc' # "select"
          BY <1>1, <4>7, LineThere DEF WaitReceive, client
        <5> QED  BY <1>1, <5>1, HeardAfter
      <4>8. CASE Receive
        BY <1>1, <4>8, HeardWaited
      <4>9. CASE \/ ClientCloses \/ ClientBegins \/ ClientFallsSilent \/ UNCHANGED vars
                 \/ \E l \in Line : ClientSends(l)
        <5>1. UNCHANGED <<pc, budget, event, mytext, clock, local, silence, posted>>
          BY <4>9 DEF ClientCloses, ClientBegins, ClientFallsSilent, ClientSends, vars, client
        <5> QED  BY <2>1, <5>1, NothingChanges
      <4> QED
        BY <2>4, <4>1, <4>2, <4>3, <4>4, <4>5, <4>6, <4>7, <4>8, <4>9 DEF Next, ThreadStep
    <3> QED  BY <2>1, <3>1, <3>2
  <2> QED  BY <2>2, <2>3, <2>4
<1> QED  BY <1>1, <1>2 DEF SilenceInv

\* The types hold for any times and any behaviour of the client.
THEOREM TypeCorrect == Spec => []TypeOK
<1>1. Simple => TypeOK
  BY DEF Simple
<1> QED  BY <1>1, InitSimple, NextSimple, PTL DEF Spec

\* pvPollEvent ends the thread of a client that crashed, hangs or was cut off in
\* Patience at the latest, for any sleep time and any handlers shorter than it,
\* whatever null events, pauses and lines left by pvWait come between, however
\* many events the application sends itself (each adds its share), and although
\* the clock starts again every minute; unless the thread is inside pvWait or
\* receives a line whose rest does not come.
THEOREM SilentLeave == Spec => []SilentClientLeaves
<1>1. SilenceInv => SilentClientLeaves
  <2> SUFFICES ASSUME SilenceInv, MaxWork < Sleep, pc \notin {"dead", "wait", "recv"}
               PROVE  ~(silence > Patience)
    BY DEF SilentClientLeaves
  <2>1. Simple /\ pc \in {"app", "poll", "select"} /\ posted \in Nat /\ posted <= MaxSilence
    BY Bounds DEF SilenceInv, Simple, TypeOK
  <2>2. CASE posted < MaxSilence
    <3>1. PICK k \in Nat : hello_counter = k * Sleep /\ Waited(k)
      BY <2>2 DEF SilenceInv
    <3>2. Reached(k) + Sleep + MaxWork <= Patience /\ Patience \in Nat
      BY <2>1, <3>1, FewTimeouts DEF Simple
    <3>3. Reached(k) \in Nat
      BY <2>1, ReachedNext DEF Simple
    <3>4. silence <= Reached(k) + Sleep + MaxWork
      <4>1. CASE pc = "select"
        BY <2>1, <3>1, <3>3, <4>1, Work, Bounds DEF Waited, Cases
      <4>2. CASE pc \in {"app", "poll"}
        <5>1. silence + ToDo <= Reached(k) + MaxWork
          BY <3>1, <4>2 DEF Waited
        <5> QED  BY <2>1, <3>3, <5>1, Work, Bounds DEF Cases
      <4> QED  BY <2>1, <4>1, <4>2
    <3> QED  BY <2>1, <3>2, <3>3, <3>4, Work, Bounds DEF Cases
  <2>3. CASE posted = MaxSilence
    <3> DEFINE p == 2 * MaxWork * posted
               r == (HelloMax \div Sleep + 1) * (Sleep + MaxWork)
    <3>1. p \in Nat /\ p >= posted
      <4>1. 2 * MaxWork \in Nat /\ 2 * MaxWork >= 1
        BY Bounds
      <4>2. \A a, b \in Nat : a >= 1 => a * b \in Nat /\ a * b >= b
        OBVIOUS
      <4> QED  BY <2>1, <4>1, <4>2
    <3>2. r \in Nat
      <4>1. HelloMax \div Sleep + 1 \in Nat /\ Sleep + MaxWork \in Nat
        BY Bounds
      <4>2. \A a, b \in Nat : a * b \in Nat
        OBVIOUS
      <4> QED  BY <4>1, <4>2
    <3>3. Patience = r + 3 * MaxWork + p
      BY DEF Patience
    <3>4. silence \in Nat /\ silence <= MaxSilence
      BY Bounds DEF SilenceInv, Simple, TypeOK
    <3> HIDE DEF p, r
    <3> QED  BY <2>1, <2>3, <3>1, <3>2, <3>3, <3>4, Bounds
  <2>4. posted < MaxSilence \/ posted = MaxSilence
    BY <2>1, Bounds
  <2> QED  BY <2>2, <2>3, <2>4
<1> QED  BY <1>1, InitSilence, NextSilence, PTL DEF Spec
=============================================================================
