---------------------------- MODULE Rl3964RProofs ----------------------------
(***************************************************************************)
(* Two stations keep the promise of TelegramSpec, for any number of        *)
(* telegrams and any amount of noise, as long as receive() leaves no frame *)
(* early and no second ends too soon (Benign); the types hold for good.    *)
(*                                                                         *)
(* Tokens, which needs no hypothesis, keeps the semaphore and write() in   *)
(* step.  The invariant Protocol, of a Benign past, relates what each station believes to what is on *)
(* the two lines.  A station p is Asking while its STX, and Going while    *)
(* the partner's DLE, has not been dealt with.  The argument: while p      *)
(* waits in send() for the answer (pc = "ack"), what the partner has heard *)
(* or will hear comes from p's last frame (Sending), without repetition,   *)
(* so a checksum that agrees is that of p's last telegram; and while p is  *)
(* not in send(), no text, ETX or checksum is on its way (Quiet), so an    *)
(* old frame is never completed.  Before p may send, the partner is in     *)
(* receive() and has heard nothing but requests and noise (Permitted).     *)
(* Requests and Order say who can be where after a collision: the high     *)
(* station never receives while it wants to send; the low one, when it     *)
(* receives with its own request on its way, has heard only noise so far.  *)
(***************************************************************************)
EXTENDS Rl3964R, FiniteSetTheorems, SequenceTheorems, TLAPS

On(q) == {q[i] : i \in DOMAIN q}

Distinct(q) == \A i, j \in DOMAIN q : q[i] = q[j] => i = j

\* At most one STX; after the first one no character twice.
OneStx(q) == \A i, j \in DOMAIN q : q[i] = STX /\ q[j] = STX => i = j

AfterStx(q) ==
    \A i, j, k \in DOMAIN q : q[i] = STX /\ i < j /\ i < k /\ q[j] = q[k] => j = k

\* After ETX there is a checksum at most, and after DLE nothing.
EtxEnds(q) == \A i \in DOMAIN q : q[i] = ETX => Len(q) <= i + 1

DleLast(q) == \A i \in DOMAIN q : q[i] = DLE => i = Len(q)

Noises == {Spoilt(i) : i \in 1 .. MaxNoise}

\* After the first character only a request to send.
Plain(q) == \A i \in DOMAIN q : i > 1 => q[i] \in {STX} \cup Noises

----------------------------------------------------------------------------
\* The last telegram of p that was delivered.
Last(p) == IF delivered[p] = <<>> THEN 0 ELSE delivered[p][Len(delivered[p])]

\* p is in receive().
Listening(p) == pc[p] \in {"receive", "escape", "bcc"}

\* The partner has not yet dealt with p's request to send.
Asking(p) == STX \in On(line[Other(p)]) \/ c[Other(p)] = STX

\* The partner has let p send, and p does not know yet.
Going(p) == pc[p] \in {"select", "locked"} /\ (DLE \in On(line[p]) \/ c[p] = DLE)

\* What is heard of a partner that is not sending, and of one that is.
Idle == {STX, NAK} \cup Noises
Signs(p) == Idle \cup {DLE, ETX, Text(written[p]), Bcc(written[p])}

\* What s has heard in this call of receive() and is still to hear; no
\* character of it comes twice.
Before(s) == On(line[s]) \cup On(heard[s])

Apart(s) ==
    /\ Distinct(line[s])
    /\ Distinct(heard[s])
    /\ On(line[s]) \cap On(heard[s]) = {}

\* At most one request to send is before p.
One(p) == OneStx(line[p]) /\ (c[p] = STX => STX \notin On(line[p]))

\* Spoilt characters are numbered in the order they come.
Fresh(p) == \A i \in 1 .. MaxNoise :
    Spoilt(i) \in On(line[p]) \cup On(heard[p]) => i <= noise

\* One write() at a time: its request, its token, and what its success means.
Local(p) ==
    /\ pc[p] = "locked" <=> c[p] # <<>>
    /\ wants[p] => waiting[p] /\ sem[p] = 0
    /\ waiting[p] /\ ~wants[p] => sem[p] = 1
    /\ ~waiting[p] => sem[p] = 0 /\ ~wants[p]
    /\ pc[p] = "ack" => wants[p]
    /\ Last(p) <= written[p]
    /\ wants[p] /\ pc[p] # "ack" => Last(p) < written[p]
    /\ sem[p] = 1 /\ result[p] => Last(p) = written[p]
    /\ Fresh(p)

\* p waits for the answer to its frame.
Sending(p) ==
    pc[p] = "ack" =>
      /\ pc[Other(p)] = "select" \/ Listening(Other(p))
      /\ Listening(Other(p)) =>
           /\ line[p] = <<>>
           /\ Last(p) < written[p]
           /\ Before(Other(p)) \subseteq Signs(p)
           /\ Apart(Other(p))
           /\ EtxEnds(line[Other(p)])
      /\ pc[Other(p)] = "select" =>
           /\ line[Other(p)] = <<>>
           /\ Plain(line[p])
           /\ DLE \in On(line[p]) => Last(p) = written[p]

\* p may send and is about to.
Permitted(p) ==
    Going(p) =>
      /\ pc[Other(p)] = "receive"
      /\ wants[p]
      /\ DleLast(line[p])
      /\ c[p] = DLE => line[p] = <<>>
      /\ Before(Other(p)) \subseteq Idle
      /\ Apart(Other(p))

\* Outside send() nothing of a frame is on its way.
Quiet(p) ==
    pc[p] # "ack" =>
      /\ On(line[Other(p)]) \subseteq Idle \cup {DLE}
      /\ Listening(Other(p)) => DLE \notin On(line[Other(p)])

\* Who can have asked whom.
Requests(p) ==
    /\ Asking(p) => wants[p]
    /\ NAK \in On(line[p]) => wants[p]
    /\ Listening(p) /\ line[p] # <<>> => wants[Other(p)]
    /\ p = "high" /\ Listening(p) => ~wants[p]
    /\ p = "low" /\ Listening(p) /\ Asking(p) => wants[Other(p)] /\ pc[p] = "receive"
    /\ ~(Listening(p) /\ Listening(Other(p)))

\* How characters can follow each other.
Order(p) ==
    /\ pc[p] = "bcc" => Len(line[p]) <= 1
    /\ AfterStx(line[p])
    /\ c[p] = STX => Distinct(line[p])
    /\ p = "high" \/ ~wants[p] \/ pc[p] = "ack" \/ Asking(p) => One(p)
    /\ p = "low" /\ Asking(p) =>
         /\ NAK \notin On(line[p])
         /\ Listening(p) => Before(p) \subseteq Noises

\* What does not depend on the line: the token of a write().
Tokens(p) ==
    /\ wants[p] => waiting[p] /\ sem[p] = 0 /\ written[p] # 0
    /\ waiting[p] /\ ~wants[p] => sem[p] = 1
    /\ ~waiting[p] => sem[p] = 0 /\ ~wants[p]
    /\ pc[p] = "ack" => wants[p]

Protocol(p) ==
    Local(p) /\ Sending(p) /\ Permitted(p) /\ Quiet(p) /\ Requests(p) /\ Order(p)

----------------------------------------------------------------------------
(* Characters and sequences of them. *)

LEMMA Characters ==
    /\ {STX, DLE, ETX, NAK, Zero} \cup Noises \subseteq Char
    /\ \A x \in Char : x # <<>>
    /\ STX # DLE /\ STX # ETX /\ STX # NAK /\ DLE # ETX /\ DLE # NAK /\ ETX # NAK
    /\ STX \notin Noises /\ DLE \notin Noises /\ ETX \notin Noises /\ NAK \notin Noises
    /\ Zero \notin Noises \cup {STX, DLE, ETX, NAK} /\ \A n : Zero # Text(n) /\ Zero # Bcc(n)
<1> QED  BY DEF Char, Noises, Spoilt, STX, DLE, ETX, NAK, Zero, Text, Bcc

LEMMA Telegrams ==
    /\ \A n : Text(n) \notin Idle \cup {DLE, ETX} /\ Bcc(n) \notin Idle \cup {DLE, ETX}
    /\ \A m, n : Text(m) # Bcc(n)
    /\ \A m, n : Text(m) = Text(n) => m = n
    /\ \A m, n : Bcc(m) = Bcc(n) => m = n
    /\ \A n : Text(n)[2] = n
    /\ \A n \in 1 .. MaxTelegrams : Text(n) \in Char /\ Bcc(n) \in Char
<1> QED  BY DEF Char, Idle, Noises, Spoilt, STX, DLE, ETX, NAK, Zero, Text, Bcc

\* The first character of q is read or lost.
LEMMA Popped ==
    ASSUME NEW q \in Seq(Char), q # <<>>
    PROVE  /\ Tail(q) \in Seq(Char) /\ Head(q) \in Char
           /\ On(q) = {Head(q)} \cup On(Tail(q))
           /\ Len(Tail(q)) = Len(q) - 1 /\ Len(q) \in Nat
           /\ Distinct(q) => Distinct(Tail(q)) /\ Head(q) \notin On(Tail(q))
           /\ OneStx(q) => OneStx(Tail(q)) /\ (Head(q) = STX => STX \notin On(Tail(q)))
           /\ AfterStx(q) => AfterStx(Tail(q)) /\ (Head(q) = STX => Distinct(Tail(q)))
           /\ EtxEnds(q) => EtxEnds(Tail(q)) /\ (Head(q) = ETX => Len(Tail(q)) <= 1)
           /\ DleLast(q) => DleLast(Tail(q)) /\ (Head(q) = DLE => Tail(q) = <<>>)
           /\ Plain(q) => Plain(Tail(q)) /\ On(Tail(q)) \subseteq {STX} \cup Noises
<1> DEFINE r == Tail(q)
<1>1. /\ r \in Seq(Char) /\ Head(q) \in Char /\ Len(r) = Len(q) - 1 /\ Len(q) \in Nat \ {0}
      /\ Head(q) = q[1]
      /\ DOMAIN q = 1 .. Len(q) /\ DOMAIN r = 1 .. Len(r)
      /\ \A i \in 1 .. Len(r) : r[i] = q[i + 1]
  OBVIOUS
<1>2. \A i \in DOMAIN r : i + 1 \in DOMAIN q /\ i + 1 > 1 /\ r[i] = q[i + 1] /\ i \in Nat /\ i >= 1
  BY <1>1
<1>3. \A i \in DOMAIN q : i = 1 \/ (i - 1 \in DOMAIN r /\ r[i - 1] = q[i])
  BY <1>1
<1>4. 1 \in DOMAIN q
  BY <1>1
<1> HIDE DEF r
<1>5. On(q) = {Head(q)} \cup On(r)
  <2>1. ASSUME NEW x \in On(q) PROVE x = Head(q) \/ x \in On(r)
    BY <1>1, <1>3 DEF On
  <2>2. ASSUME NEW x \in On(r) PROVE x \in On(q)
    BY <1>2 DEF On
  <2>3. Head(q) \in On(q)
    BY <1>1, <1>4 DEF On
  <2> QED  BY <2>1, <2>2, <2>3
<1>6. ASSUME Distinct(q) PROVE Distinct(r) /\ Head(q) \notin On(r)
  <2>1. Distinct(r)
    <3> SUFFICES ASSUME NEW i \in DOMAIN r, NEW j \in DOMAIN r, r[i] = r[j]
                 PROVE  i = j
      BY DEF Distinct
    <3>1. i + 1 = j + 1
      BY <1>2, <1>6 DEF Distinct
    <3> QED  BY <1>2, <3>1
  <2>2. Head(q) \notin On(r)
    <3> SUFFICES ASSUME NEW i \in DOMAIN r, r[i] = Head(q)
                 PROVE  FALSE
      BY DEF On
    <3>1. i + 1 = 1
      BY <1>1, <1>2, <1>4, <1>6 DEF Distinct
    <3> QED  BY <1>2, <3>1
  <2> QED  BY <2>1, <2>2
<1>7. ASSUME OneStx(q) PROVE OneStx(r) /\ (Head(q) = STX => STX \notin On(r))
  <2>1. OneStx(r)
    <3> SUFFICES ASSUME NEW i \in DOMAIN r, NEW j \in DOMAIN r, r[i] = STX, r[j] = STX
                 PROVE  i = j
      BY DEF OneStx
    <3>1. i + 1 = j + 1
      BY <1>2, <1>7 DEF OneStx
    <3> QED  BY <1>2, <3>1
  <2>2. ASSUME Head(q) = STX, NEW i \in DOMAIN r, r[i] = STX
        PROVE  FALSE
    <3>1. i + 1 = 1
      BY <1>1, <1>2, <1>4, <1>7, <2>2 DEF OneStx
    <3> QED  BY <1>2, <3>1
  <2> QED  BY <2>1, <2>2 DEF On
<1>8. ASSUME AfterStx(q) PROVE AfterStx(r) /\ (Head(q) = STX => Distinct(r))
  <2>1. AfterStx(r)
    <3> SUFFICES ASSUME NEW i \in DOMAIN r, NEW j \in DOMAIN r, NEW n \in DOMAIN r,
                        r[i] = STX, i < j, i < n, r[j] = r[n]
                 PROVE  j = n
      BY DEF AfterStx
    <3>1. i + 1 < j + 1 /\ i + 1 < n + 1
      BY <1>2
    <3>2. j + 1 = n + 1
      BY <1>2, <1>8, <3>1 DEF AfterStx
    <3> QED  BY <1>2, <3>2
  <2>2. ASSUME Head(q) = STX, NEW j \in DOMAIN r, NEW n \in DOMAIN r, r[j] = r[n]
        PROVE  j = n
    <3>1. q[1] = STX /\ 1 < j + 1 /\ 1 < n + 1 /\ q[j + 1] = q[n + 1]
      BY <1>1, <1>2, <2>2
    <3>2. j + 1 = n + 1
      BY <1>2, <1>4, <1>8, <3>1 DEF AfterStx
    <3> QED  BY <1>2, <3>2
  <2> QED  BY <2>1, <2>2 DEF Distinct
<1>9. ASSUME EtxEnds(q) PROVE EtxEnds(r) /\ (Head(q) = ETX => Len(r) <= 1)
  <2>1. ASSUME NEW i \in DOMAIN r, r[i] = ETX PROVE Len(r) <= i + 1
    <3>1. Len(q) <= (i + 1) + 1
      BY <1>2, <1>9, <2>1 DEF EtxEnds
    <3> QED  BY <1>1, <1>2, <3>1
  <2>2. Head(q) = ETX => Len(q) <= 1 + 1
    BY <1>1, <1>4, <1>9 DEF EtxEnds
  <2> QED  BY <1>1, <2>1, <2>2 DEF EtxEnds
<1>10. ASSUME DleLast(q) PROVE DleLast(r) /\ (Head(q) = DLE => r = <<>>)
  <2>1. ASSUME NEW i \in DOMAIN r, r[i] = DLE PROVE i = Len(r)
    <3>1. i + 1 = Len(q)
      BY <1>2, <1>10, <2>1 DEF DleLast
    <3> QED  BY <1>1, <1>2, <3>1
  <2>2. Head(q) = DLE => 1 = Len(q)
    BY <1>1, <1>4, <1>10 DEF DleLast
  <2> QED  BY <1>1, <2>1, <2>2 DEF DleLast
<1>11. ASSUME Plain(q) PROVE Plain(r) /\ On(r) \subseteq {STX} \cup Noises
  <2>1. \A i \in DOMAIN r : r[i] \in {STX} \cup Noises
    BY <1>2, <1>11 DEF Plain
  <2> QED  BY <2>1 DEF Plain, On
<1> QED  BY <1>1, <1>5, <1>6, <1>7, <1>8, <1>9, <1>10, <1>11 DEF r

\* One character is sent.
Push(q, x) == q \o <<x>>

LEMMA Pushed ==
    ASSUME NEW q \in Seq(Char), NEW x \in Char
    PROVE  /\ Push(q, x) \in Seq(Char) /\ Push(q, x) # <<>> /\ Len(Push(q, x)) \in Nat /\ (q = <<>> => Len(Push(q, x)) = 1)
           /\ On(Push(q, x)) = On(q) \cup {x}
           /\ Distinct(q) /\ x \notin On(q) => Distinct(Push(q, x))
           /\ OneStx(q) /\ (x = STX => STX \notin On(q)) => OneStx(Push(q, x))
           /\ AfterStx(q) /\ (STX \notin On(q) \/ x \notin On(q)) => AfterStx(Push(q, x))
           /\ AfterStx(q) /\ OneStx(q) /\ x = STX => AfterStx(Push(q, x))
           /\ DLE \notin On(q) => DleLast(Push(q, x))
           /\ Plain(q) /\ (q = <<>> \/ x = STX) => Plain(Push(q, x))
           /\ ETX \notin On(q) => EtxEnds(Push(q, x))
<1> DEFINE r == Push(q, x)
<1>1. /\ r \in Seq(Char) /\ Len(r) = Len(q) + 1 /\ Len(q) \in Nat
      /\ DOMAIN q = 1 .. Len(q) /\ DOMAIN r = 1 .. Len(r)
      /\ r[Len(r)] = x
      /\ \A i \in 1 .. Len(q) : r[i] = q[i]
  BY DEF Push
<1> HIDE DEF r
<1>2. r # <<>> /\ (q = <<>> => Len(r) = 1)
  BY <1>1
<1>3. \A i \in DOMAIN r : /\ i \in Nat /\ i >= 1 /\ i <= Len(r)
                          /\ \/ i = Len(r) /\ r[i] = x
                             \/ i \in DOMAIN q /\ r[i] = q[i] /\ i < Len(r)
  BY <1>1
<1>4. Len(r) \in DOMAIN r /\ \A i \in DOMAIN q : i \in DOMAIN r /\ r[i] = q[i]
  BY <1>1
<1>5. On(r) = On(q) \cup {x}
  <2>1. On(r) \subseteq On(q) \cup {x}
    BY <1>3 DEF On
  <2>2. On(q) \subseteq On(r)
    BY <1>4 DEF On
  <2>3. x \in On(r)
    BY <1>1, <1>4 DEF On
  <2> QED  BY <2>1, <2>2, <2>3
<1>6. \A i \in DOMAIN r : r[i] \notin On(q) => i = Len(r) /\ r[i] = x
  BY <1>3 DEF On
<1>7. ASSUME Distinct(q), x \notin On(q) PROVE Distinct(r)
  <2> SUFFICES ASSUME NEW i \in DOMAIN r, NEW j \in DOMAIN r, r[i] = r[j]
               PROVE  i = j
    BY DEF Distinct
  <2>1. CASE r[i] = x
    BY <1>3, <1>7, <2>1 DEF On
  <2>2. CASE r[i] # x
    BY <1>3, <1>7, <2>2 DEF Distinct
  <2> QED  BY <2>1, <2>2
<1>8. ASSUME OneStx(q), x = STX => STX \notin On(q) PROVE OneStx(r)
  <2> SUFFICES ASSUME NEW i \in DOMAIN r, NEW j \in DOMAIN r, r[i] = STX, r[j] = STX
               PROVE  i = j
    BY DEF OneStx
  <2>1. CASE x = STX
    BY <1>3, <1>8, <2>1 DEF On
  <2>2. CASE x # STX
    BY <1>3, <1>8, <2>2 DEF OneStx
  <2> QED  BY <2>1, <2>2
<1>9. ASSUME AfterStx(q), STX \notin On(q) \/ x \notin On(q) PROVE AfterStx(r)
  <2> SUFFICES ASSUME NEW i \in DOMAIN r, NEW j \in DOMAIN r, NEW n \in DOMAIN r,
                      r[i] = STX, i < j, i < n, r[j] = r[n]
               PROVE  j = n
    BY DEF AfterStx
  <2>1. i \in DOMAIN q /\ q[i] = STX
    BY <1>3
  <2>2. x \notin On(q)
    BY <1>9, <2>1 DEF On
  <2>3. CASE r[j] = x
    BY <1>3, <2>2, <2>3 DEF On
  <2>4. CASE r[j] # x
    BY <1>3, <1>9, <2>1, <2>4 DEF AfterStx
  <2> QED  BY <2>3, <2>4
<1>13. ASSUME AfterStx(q), OneStx(q), x = STX PROVE AfterStx(r)
  <2> SUFFICES ASSUME NEW i \in DOMAIN r, NEW j \in DOMAIN r, NEW n \in DOMAIN r,
                      r[i] = STX, i < j, i < n, r[j] = r[n]
               PROVE  j = n
    BY DEF AfterStx
  <2>1. i \in DOMAIN q /\ q[i] = STX
    BY <1>3
  <2>2. \A l \in DOMAIN q : i < l => q[l] # STX
    BY <1>3, <1>4, <1>13, <2>1 DEF OneStx
  <2>3. CASE r[j] = STX
    BY <1>3, <2>2, <2>3
  <2>4. CASE r[j] # STX
    BY <1>3, <1>13, <2>1, <2>4 DEF AfterStx
  <2> QED  BY <2>3, <2>4
<1>10. ASSUME DLE \notin On(q) PROVE DleLast(r)
  BY <1>3, <1>10 DEF DleLast, On
<1>11. ASSUME Plain(q), q = <<>> \/ x = STX PROVE Plain(r)
  <2>1. CASE q = <<>>
    BY <1>1, <2>1 DEF Plain
  <2>2. CASE x = STX
    BY <1>3, <1>11, <2>2 DEF Plain
  <2> QED  BY <1>11, <2>1, <2>2
<1>12. ASSUME ETX \notin On(q) PROVE EtxEnds(r)
  BY <1>1, <1>3, <1>12 DEF EtxEnds, On
<1> QED  BY <1>1, <1>2, <1>5, <1>7, <1>8, <1>9, <1>10, <1>11, <1>12, <1>13 DEF r

LEMMA PushedTwo ==
    ASSUME NEW q \in Seq(Char), NEW x \in Char, NEW y \in Char
    PROVE  q \o <<x, y>> = Push(Push(q, x), y)
<1> DEFINE r == q \o <<x, y>>
           m == q \o <<x>>
           n == m \o <<y>>
<1>1. /\ r \in Seq(Char) /\ Len(r) = Len(q) + 2 /\ Len(q) \in Nat
      /\ r[Len(q) + 1] = x /\ r[Len(q) + 2] = y /\ \A i \in 1 .. Len(q) : r[i] = q[i]
  OBVIOUS
<1>2. /\ m \in Seq(Char) /\ Len(m) = Len(q) + 1 /\ m[Len(q) + 1] = x
      /\ \A i \in 1 .. Len(q) : m[i] = q[i]
  OBVIOUS
<1> HIDE DEF m
<1>3. /\ n \in Seq(Char) /\ Len(n) = Len(m) + 1 /\ n[Len(m) + 1] = y
      /\ \A i \in 1 .. Len(m) : n[i] = m[i]
  BY <1>2
<1> HIDE DEF r, n
<1>4. Len(r) = Len(n) /\ \A i \in 1 .. Len(r) : r[i] = n[i]
  BY <1>1, <1>2, <1>3, SMTT(30)
<1>5. r = n
  BY <1>1, <1>3, <1>4, SeqEqual
<1> QED  BY <1>5 DEF r, m, n, Push

Frame(q, x, y, u, v) == q \o <<x, y, u, v>>

LEMMA PushedFour ==
    ASSUME NEW q \in Seq(Char), NEW x \in Char, NEW y \in Char, NEW u \in Char, NEW v \in Char
    PROVE  Frame(q, x, y, u, v) = Push(Push(Push(Push(q, x), y), u), v)
<1> DEFINE m == q \o <<x, y>>
<1>1. <<x, y, u, v>> = <<x, y>> \o <<u, v>>
  OBVIOUS
<1>2. <<x, y>> \in Seq(Char) /\ <<u, v>> \in Seq(Char)
  OBVIOUS
<1>3. q \o <<x, y, u, v>> = m \o <<u, v>>
  BY <1>1, <1>2, ConcatAssociative
<1>4. m = Push(Push(q, x), y) /\ m \in Seq(Char)
  BY <1>2, PushedTwo
<1> HIDE DEF m
<1>5. m \o <<u, v>> = Push(Push(m, u), v)
  BY <1>4, PushedTwo
<1> QED  BY <1>3, <1>4, <1>5 DEF Frame

\* The first character is spoilt.
Damage(q, x) == <<x>> \o Tail(q)

LEMMA Damaged ==
    ASSUME NEW q \in Seq(Char), q # <<>>, NEW x \in Noises, x \notin On(q)
    PROVE  /\ Damage(q, x) \in Seq(Char) /\ Damage(q, x) # <<>> /\ Len(Damage(q, x)) = Len(q)
           /\ On(Damage(q, x)) \subseteq {x} \cup On(q)
           /\ Distinct(q) => Distinct(Damage(q, x))
           /\ OneStx(q) => OneStx(Damage(q, x))
           /\ AfterStx(q) => AfterStx(Damage(q, x))
           /\ EtxEnds(q) => EtxEnds(Damage(q, x))
           /\ DleLast(q) => DleLast(Damage(q, x))
           /\ Plain(q) => Plain(Damage(q, x))
<1> DEFINE r == Damage(q, x)
<1> x \in Char /\ x # STX /\ x # DLE /\ x # ETX
  BY Characters
<1>1. /\ r \in Seq(Char) /\ Len(r) = Len(q) /\ Len(q) \in Nat \ {0}
      /\ DOMAIN q = 1 .. Len(q) /\ DOMAIN r = DOMAIN q
      /\ r[1] = x
      /\ \A i \in DOMAIN q : i # 1 => r[i] = q[i]
  <2>1. Tail(q) \in Seq(Char) /\ Len(Tail(q)) = Len(q) - 1 /\ Len(q) \in Nat \ {0}
        /\ \A i \in 1 .. Len(Tail(q)) : Tail(q)[i] = q[i + 1]
    OBVIOUS
  <2>2. <<x>> \in Seq(Char) /\ Len(<<x>>) = 1 /\ <<x>>[1] = x
    OBVIOUS
  <2> DEFINE u == Tail(q)
             v == <<x>>
  <2>0. r = v \o u
    BY DEF Damage
  <2> HIDE DEF u, v, r
  <2>3. /\ r = v \o u /\ u \in Seq(Char) /\ v \in Seq(Char) /\ Len(u) = Len(q) - 1
        /\ Len(v) = 1 /\ v[1] = x /\ \A i \in 1 .. Len(u) : u[i] = q[i + 1]
    BY <2>0, <2>1, <2>2 DEF u, v
  <2>4. /\ r \in Seq(Char) /\ Len(r) = Len(q) /\ r[1] = x
        /\ \A i \in 1 .. Len(q) : i # 1 => r[i] = u[i - 1]
    <3>0. u \in Seq(Char) /\ v \in Seq(Char)
      BY <2>3
    <3>1. Len(v \o u) = Len(v) + Len(u) /\ v \o u \in Seq(Char)
          /\ \A i \in 1 .. Len(v) + Len(u) :
               (v \o u)[i] = IF i <= Len(v) THEN v[i] ELSE u[i - Len(v)]
      BY <3>0, ConcatProperties
    <3>2. r \in Seq(Char) /\ Len(r) = Len(q)
      BY <2>1, <2>3, <3>1
    <3>3. \A i \in 1 .. Len(q) : r[i] = IF i <= 1 THEN v[i] ELSE u[i - 1]
      BY <2>1, <2>3, <3>1
    <3> QED  BY <2>1, <2>3, <3>2, <3>3
  <2>5. \A i \in 1 .. Len(q) : i # 1 => u[i - 1] = q[i]
    BY <2>1, <2>3
  <2> QED  BY <2>1, <2>4, <2>5
<1> HIDE DEF r
<1>2. r # <<>>
  BY <1>1
<1>3. \A i \in DOMAIN r : i \in DOMAIN q /\ i \in Nat /\ i >= 1
                          /\ ((i = 1 /\ r[i] = x) \/ (i > 1 /\ r[i] = q[i] /\ r[i] # x))
  BY <1>1 DEF On
<1>4. On(q) = {Head(q)} \cup On(Tail(q))
  BY Popped
<1>5. On(r) = {x} \cup On(Tail(q))
  <2>1. On(Tail(q)) = {q[i] : i \in {j \in DOMAIN q : j > 1}}
    <3>1. Tail(q) \in Seq(Char) /\ Len(Tail(q)) = Len(q) - 1 /\ Len(q) \in Nat \ {0}
          /\ \A i \in 1 .. Len(Tail(q)) : Tail(q)[i] = q[i + 1]
      OBVIOUS
    <3>2. DOMAIN Tail(q) = 1 .. Len(q) - 1
      BY <3>1
    <3>3. ASSUME NEW i \in DOMAIN Tail(q)
          PROVE  i + 1 \in {j \in DOMAIN q : j > 1} /\ Tail(q)[i] = q[i + 1]
      BY <1>1, <3>1, <3>2
    <3>4. ASSUME NEW i \in {j \in DOMAIN q : j > 1}
          PROVE  i - 1 \in DOMAIN Tail(q) /\ Tail(q)[i - 1] = q[i]
      BY <1>1, <3>1, <3>2
    <3> QED  BY <3>3, <3>4 DEF On
  <2>2. ASSUME NEW y \in On(r) PROVE y \in {x} \cup On(Tail(q))
    BY <1>3, <2>1 DEF On
  <2>3. ASSUME NEW y \in On(Tail(q)) PROVE y \in On(r)
    <3>1. PICK j \in DOMAIN q : j > 1 /\ y = q[j]
      BY <2>1, <2>3
    <3>2. j \in DOMAIN r /\ r[j] = y
      BY <1>1, <3>1
    <3> QED  BY <3>2 DEF On
  <2>4. x \in On(r)
    BY <1>1 DEF On
  <2> QED  BY <2>2, <2>3, <2>4
<1>6. Distinct(q) => Distinct(r)
  BY <1>3 DEF Distinct
<1>7. OneStx(q) => OneStx(r)
  BY <1>3 DEF OneStx
<1>8. AfterStx(q) => AfterStx(r)
  BY <1>3 DEF AfterStx
<1>9. EtxEnds(q) => EtxEnds(r)
  BY <1>1, <1>3 DEF EtxEnds
<1>10. DleLast(q) => DleLast(r)
  BY <1>1, <1>3 DEF DleLast
<1>11. Plain(q) => Plain(r)
  BY <1>3 DEF Plain
<1> QED  BY <1>1, <1>2, <1>4, <1>5, <1>6, <1>7, <1>8, <1>9, <1>10, <1>11 DEF r

\* Nothing is on an empty line.
LEMMA Empty ==
    /\ <<>> \in Seq(Char) /\ On(<<>>) = {} /\ Len(<<>>) = 0
    /\ Distinct(<<>>) /\ OneStx(<<>>) /\ AfterStx(<<>>) /\ EtxEnds(<<>>) /\ DleLast(<<>>)
    /\ Plain(<<>>)
    /\ \A q \in Seq(Char) : q # <<>> => On(q) # {} /\ Head(q) \in On(q)
<1>1. \A q \in Seq(Char) : q # <<>> => Head(q) \in On(q)
  BY Popped
<1>2. <<>> \in Seq(Char)
  OBVIOUS
<1> QED  BY <1>1, <1>2 DEF On, Distinct, OneStx, AfterStx, EtxEnds, DleLast, Plain

\* Distinct implies the two weaker orders.
LEMMA Ordered ==
    ASSUME NEW q, Distinct(q)
    PROVE  OneStx(q) /\ AfterStx(q)
<1> QED  BY DEF Distinct, OneStx, AfterStx

LEMMA LastOf ==
    ASSUME NEW S, NEW q \in Seq(S), q # <<>>
    PROVE  q[Len(q)] \in S
<1> QED  OBVIOUS

\* Spoilt characters are no signs.
LEMMA Clean ==
    \A i \in 1 .. MaxNoise : /\ Spoilt(i) \in Noises
                            /\ Spoilt(i) \notin {STX, DLE, ETX, NAK}
<1> QED  BY Characters DEF Noises
----------------------------------------------------------------------------
(* Every action preserves the invariant of both stations. *)

PInv == TypeOK /\ \A p \in Stations : Protocol(p)

LEMMA Pair ==
    ASSUME NEW t \in Stations
    PROVE  /\ Other(t) \in Stations /\ Other(t) # t /\ Other(Other(t)) = t
           /\ Stations = {t, Other(t)}
           /\ t = "high" \/ t = "low"
           /\ t = "high" <=> Other(t) = "low"
<1> QED  BY DEF Stations, Other

LEMMA LastType ==
    ASSUME TypeOK, NEW t \in Stations
    PROVE  Last(t) \in Nat
<1>1. delivered[t] \in Seq(0 .. MaxTelegrams)
  BY DEF TypeOK
<1>2. delivered[t] # <<>> => delivered[t][Len(delivered[t])] \in 0 .. MaxTelegrams
  BY <1>1, LastOf
<1> QED  BY <1>2, Rl3964RAssumption DEF Last

LEMMA TakeStep ==
    ASSUME PInv, NEW t \in Stations, NEW o \in Stations, o = Other(t), t = Other(o), o # t,
           Take(t)
    PROVE  Protocol(t)' /\ Protocol(o)'
<1> USE DEF PInv
<1>1. /\ pc[t] = "select" /\ line[t] # <<>> /\ line[t] \in Seq(Char)
      /\ pc'[t] = "locked" /\ pc'[o] = pc[o]
      /\ c'[t] = Head(line[t]) /\ c'[o] = c[o]
      /\ line'[t] = Tail(line[t]) /\ line'[o] = line[o]
      /\ UNCHANGED <<heard, wants, waiting, written, sem, result, delivered, noise>>
  BY DEF Take, Goto, Arrived, app, TypeOK
<1>2. /\ Head(line[t]) \in Char /\ Head(line[t]) # <<>>
      /\ On(line[t]) = {Head(line[t])} \cup On(Tail(line[t]))
      /\ Distinct(line[t]) => Distinct(Tail(line[t])) /\ Head(line[t]) \notin On(Tail(line[t]))
      /\ OneStx(line[t]) => OneStx(Tail(line[t])) /\ (Head(line[t]) = STX => STX \notin On(Tail(line[t])))
      /\ AfterStx(line[t]) => AfterStx(Tail(line[t])) /\ (Head(line[t]) = STX => Distinct(Tail(line[t])))
      /\ DleLast(line[t]) => DleLast(Tail(line[t])) /\ (Head(line[t]) = DLE => Tail(line[t]) = <<>>)
  BY <1>1, Popped, Characters
<1>3. Protocol(t) /\ Protocol(o)
  OBVIOUS
<1>4. c[t] = <<>> /\ c[t] # STX /\ c[t] # DLE
  BY <1>1, <1>3, Characters DEF Protocol, Local
<1>5. Local(t)' /\ Local(o)'
  BY <1>1, <1>2, <1>3 DEF Protocol, Local, Fresh, Last
<1>6. pc[o] # "ack"
  BY <1>1, <1>3 DEF Protocol, Sending
<1>7. Sending(t)' /\ Sending(o)'
  BY <1>1, <1>6 DEF Sending
<1>8. Permitted(t)' /\ Permitted(o)'
  BY <1>1, <1>2, <1>3, <1>4 DEF Protocol, Permitted, Going, Before, Apart, Idle
<1>9. Quiet(t)' /\ Quiet(o)'
  BY <1>1, <1>2, <1>3 DEF Protocol, Quiet, Listening
<1>10. Requests(t)' /\ Requests(o)'
  BY <1>1, <1>2, <1>3, <1>4 DEF Protocol, Requests, Listening, Asking
<1>11. Order(t)' /\ Order(o)'
  BY <1>1, <1>2, <1>3, <1>4 DEF Protocol, Order, Listening, Asking, One, Before
<1> QED  BY <1>5, <1>7, <1>8, <1>9, <1>10, <1>11 DEF Protocol

LEMMA IgnoreStep ==
    ASSUME PInv, NEW t \in Stations, NEW o \in Stations, o = Other(t), t = Other(o), o # t,
           Ignore(t)
    PROVE  Protocol(t)' /\ Protocol(o)'
<1> USE DEF PInv
<1>1. /\ pc[t] = "locked" /\ c[t] # STX /\ ~(c[t] = DLE /\ wants[t])
      /\ pc'[t] = "select" /\ pc'[o] = pc[o]
      /\ c'[t] = <<>> /\ c'[o] = c[o]
      /\ UNCHANGED <<heard, wants, line, waiting, written, sem, result, delivered, noise>>
  BY DEF Ignore, Goto, app, TypeOK
<1>3. Protocol(t) /\ Protocol(o)
  OBVIOUS
<1>4. c'[t] # STX /\ c'[t] # DLE
  BY <1>1, Characters
<1>5. Local(t)' /\ Local(o)'
  BY <1>1, <1>3 DEF Protocol, Local, Fresh, Last
<1>6. pc[o] # "ack"
  BY <1>1, <1>3 DEF Protocol, Sending, Listening
<1>7. Sending(t)' /\ Sending(o)'
  BY <1>1, <1>6 DEF Sending
<1>8. Permitted(t)' /\ Permitted(o)'
  BY <1>1, <1>3, <1>4 DEF Protocol, Permitted, Going, Before, Apart
<1>9. Quiet(t)' /\ Quiet(o)'
  BY <1>1, <1>3 DEF Protocol, Quiet, Listening
<1>10. Requests(t)' /\ Requests(o)'
  BY <1>1, <1>3, <1>4 DEF Protocol, Requests, Listening, Asking
<1>11. Order(t)' /\ Order(o)'
  BY <1>1, <1>3, <1>4 DEF Protocol, Order, Listening, Asking, One, Before
<1> QED  BY <1>5, <1>7, <1>8, <1>9, <1>10, <1>11 DEF Protocol

LEMMA WriteReturnsStep ==
    ASSUME PInv, NEW t \in Stations, NEW o \in Stations, o = Other(t), t = Other(o), o # t,
           WriteReturns(t)
    PROVE  Protocol(t)' /\ Protocol(o)'
<1> USE DEF PInv
<1>1. /\ waiting[t] /\ sem[t] > 0 /\ sem[t] \in 0 .. 1
      /\ sem'[t] = sem[t] - 1 /\ sem'[o] = sem[o]
      /\ ~waiting'[t] /\ waiting'[o] = waiting[o]
      /\ UNCHANGED <<pc, c, heard, wants, line, written, result, delivered, noise>>
  BY DEF WriteReturns, TypeOK
<1>3. Protocol(t) /\ Protocol(o)
  OBVIOUS
<1>5. Local(t)' /\ Local(o)'
  BY <1>1, <1>3 DEF Protocol, Local, Fresh, Last
<1>7. Sending(t)' /\ Sending(o)'
  BY <1>1, <1>3 DEF Protocol, Sending, Listening, Before, Signs, Apart, Last
<1>8. Permitted(t)' /\ Permitted(o)'
  BY <1>1, <1>3 DEF Protocol, Permitted, Going, Before, Apart
<1>9. Quiet(t)' /\ Quiet(o)'
  BY <1>1, <1>3 DEF Protocol, Quiet, Listening
<1>10. Requests(t)' /\ Requests(o)'
  BY <1>1, <1>3 DEF Protocol, Requests, Listening, Asking
<1>11. Order(t)' /\ Order(o)'
  BY <1>1, <1>3 DEF Protocol, Order, Listening, Asking, One, Before
<1> QED  BY <1>5, <1>7, <1>8, <1>9, <1>10, <1>11 DEF Protocol

LEMMA WriteStep ==
    ASSUME PInv, NEW t \in Stations, NEW o \in Stations, o = Other(t), t = Other(o), o # t,
           Write(t)
    PROVE  Protocol(t)' /\ Protocol(o)'
<1> USE DEF PInv
<1>1. /\ ~waiting[t] /\ pc[t] \in {"select", "locked"} /\ line[o] \in Seq(Char)
      /\ written[t] \in Nat /\ written'[t] = written[t] + 1 /\ written'[o] = written[o]
      /\ waiting'[t] /\ waiting'[o] = waiting[o]
      /\ wants'[t] /\ wants'[o] = wants[o]
      /\ line'[o] = Push(line[o], STX) /\ line'[t] = line[t]
      /\ UNCHANGED <<pc, c, heard, sem, result, delivered, noise>>
  BY DEF Write, Locked, Transmit, TypeOK, Push
<1> DEFINE r == Push(line[o], STX)
<1>2. /\ On(r) = On(line[o]) \cup {STX} /\ r # <<>> /\ Len(r) \in Nat /\ (line[o] = <<>> => Len(r) = 1)
      /\ Distinct(line[o]) /\ STX \notin On(line[o]) => Distinct(r)
      /\ OneStx(line[o]) /\ STX \notin On(line[o]) => OneStx(r)
      /\ AfterStx(line[o]) /\ STX \notin On(line[o]) => AfterStx(r)
      /\ Plain(line[o]) => Plain(r)
      /\ STX # DLE /\ STX # NAK /\ STX # ETX /\ STX \notin Noises
  <2>1. STX \in Char /\ STX # DLE /\ STX # NAK /\ STX # ETX /\ STX \notin Noises
    BY Characters
  <2> QED  BY <1>1, <2>1, Pushed
<1> HIDE DEF r
<1>0. line'[o] = r
  BY <1>1 DEF r
<1>3. Protocol(t) /\ Protocol(o)
  OBVIOUS
<1>4. ~wants[t] /\ sem[t] = 0 /\ STX \notin On(line[o]) /\ c[o] # STX /\ pc[t] # "ack"
  BY <1>1, <1>3 DEF Protocol, Local, Requests, Asking
<1>5. Local(t)' /\ Local(o)'
  <2>1. Last(t) \in Nat /\ Last(t)' = Last(t) /\ Last(o)' = Last(o)
    BY <1>1, LastType DEF Last
  <2>2. Fresh(t) /\ Fresh(o)
    BY <1>3 DEF Protocol, Local
  <2>3. Fresh(t)' /\ Fresh(o)'
    BY <1>0, <1>1, <1>2, <2>2, Clean DEF Fresh
  <2> QED  BY <1>1, <1>3, <1>4, <2>1, <2>3 DEF Protocol, Local
<1>7. Sending(t)' /\ Sending(o)'
  <2>1. pc[t] = "select" \/ pc[o] # "ack"
    BY <1>1, <1>3 DEF Protocol, Sending, Listening
  <2>2. Last(o)' = Last(o)
    BY <1>1 DEF Last
  <2> QED  BY <1>0, <1>1, <1>2, <1>3, <2>1, <2>2 DEF Protocol, Sending, Listening
<1>8. Permitted(t)' /\ Permitted(o)'
  BY <1>0, <1>1, <1>2, <1>3, <1>4 DEF Protocol, Permitted, Going, Before, Apart
<1>9. Quiet(t)' /\ Quiet(o)'
  BY <1>0, <1>1, <1>2, <1>3 DEF Protocol, Quiet, Listening, Idle
<1>10. Requests(t)' /\ Requests(o)'
  BY <1>0, <1>1, <1>2, <1>3, <1>4 DEF Protocol, Requests, Listening, Asking
<1>11. Order(t)' /\ Order(o)'
  <2>1. Order(t)'
    BY <1>0, <1>1, <1>2, <1>3, <1>4 DEF Protocol, Order, Listening, One, Requests
  <2>2. pc[o] = "bcc" => line[o] = <<>>
    BY <1>3, <1>4 DEF Protocol, Requests, Listening
  <2>3. (Asking(o)' <=> Asking(o)) /\ (o = "low" /\ Listening(o) => ~Asking(o))
    BY <1>1, <1>3, <1>4 DEF Protocol, Requests, Asking
  <2>4. One(o) => One(o)'
    BY <1>0, <1>1, <1>2, <1>4 DEF One
  <2>5. Order(o)'
    <3>1. pc[o] = "bcc" => Len(r) <= 1
      BY <1>2, <2>2
    <3>2. o = "low" /\ Asking(o) => NAK \notin On(r)
      BY <1>2, <1>3 DEF Protocol, Order
    <3> QED  BY <1>0, <1>1, <1>2, <1>3, <1>4, <2>3, <2>4, <3>1, <3>2 DEF Protocol, Order, Listening
  <2> QED  BY <2>1, <2>5
<1> QED  BY <1>5, <1>7, <1>8, <1>9, <1>10, <1>11 DEF Protocol

LEMMA AnswerStep ==
    ASSUME PInv, NEW t \in Stations, NEW o \in Stations, o = Other(t), t = Other(o), o # t,
           AnswerStx(t)
    PROVE  Protocol(t)' /\ Protocol(o)'
<1> USE DEF PInv
<1>1. /\ pc[t] = "locked" /\ c[t] = STX /\ (wants[t] => t = "low") /\ line[o] \in Seq(Char)
      /\ c'[t] = <<>> /\ c'[o] = c[o]
      /\ heard'[t] = <<>> /\ heard'[o] = heard[o]
      /\ line'[o] = Push(line[o], DLE) /\ line'[t] = line[t]
      /\ pc'[t] = "receive" /\ pc'[o] = pc[o]
      /\ UNCHANGED <<wants, waiting, written, sem, result, delivered, noise>>
  BY DEF AnswerStx, Goto, Transmit, app, TypeOK, Push
<1> DEFINE r == Push(line[o], DLE)
<1>2. /\ On(r) = On(line[o]) \cup {DLE} /\ r # <<>> /\ Len(r) \in Nat /\ (line[o] = <<>> => Len(r) = 1)
      /\ Distinct(line[o]) /\ DLE \notin On(line[o]) => Distinct(r)
      /\ OneStx(line[o]) => OneStx(r)
      /\ AfterStx(line[o]) /\ DLE \notin On(line[o]) => AfterStx(r)
      /\ DLE \notin On(line[o]) => DleLast(r)
      /\ STX # DLE /\ NAK # DLE /\ DLE \notin Noises /\ DLE # <<>> /\ STX # <<>>
      /\ STX \notin Noises
      /\ Distinct(<<>>) /\ On(<<>>) = {}
  <2>1. /\ STX # DLE /\ NAK # DLE /\ DLE \notin Noises /\ DLE # <<>> /\ STX # <<>>
        /\ STX \notin Noises /\ DLE \in Char
    BY Characters
  <2>2. Distinct(<<>>) /\ On(<<>>) = {}
    BY Empty
  <2> QED  BY <1>1, <2>1, <2>2, Pushed
<1> HIDE DEF r
<1>0. line'[o] = r
  BY <1>1 DEF r
<1>3. Protocol(t) /\ Protocol(o)
  OBVIOUS
<1>4. wants[o]
  BY <1>1, <1>3 DEF Protocol, Requests, Asking
<1>5. Local(t)' /\ Local(o)'
  <2>1. Fresh(t) /\ Fresh(o)
    BY <1>3 DEF Protocol, Local
  <2>2. Fresh(t)' /\ Fresh(o)'
    BY <1>0, <1>1, <1>2, <2>1, Clean DEF Fresh
  <2> QED  BY <1>1, <1>3, <2>2 DEF Protocol, Local, Last
<1>6. pc[o] \in {"select", "locked"}
  <2>1. pc[o] # "ack"
    BY <1>1, <1>3 DEF Protocol, Sending, Listening
  <2>2. ~Listening(o)
    BY <1>1, <1>3, <1>4, Pair DEF Protocol, Requests, Asking
  <2>3. pc[o] \in {"select", "locked", "receive", "escape", "bcc", "ack"}
    BY DEF TypeOK
  <2> QED  BY <2>1, <2>2, <2>3 DEF Listening
<1>7. Sending(t)' /\ Sending(o)'
  BY <1>1, <1>6 DEF Sending
<1>8. DLE \notin On(line[o]) /\ c[o] # DLE /\ DLE \notin On(line[t])
  BY <1>1, <1>3, <1>6 DEF Protocol, Permitted, Going
<1>9. Permitted(t)' /\ Permitted(o)'
  <2>1. On(line[t]) \subseteq Idle
    BY <1>3, <1>6, <1>8 DEF Protocol, Quiet
  <2>2. Distinct(line[t])
    BY <1>1, <1>3 DEF Protocol, Order
  <2> QED  BY <1>0, <1>1, <1>2, <1>4, <1>6, <1>8, <2>1, <2>2 DEF Permitted, Going, Before, Apart
<1>10. Quiet(t)' /\ Quiet(o)'
  BY <1>0, <1>1, <1>2, <1>3, <1>6, <1>8 DEF Protocol, Quiet, Listening
<1>11. Requests(t)' /\ Requests(o)'
  <2>1. (Asking(t)' <=> Asking(t)) /\ (Asking(o)' => Asking(o)) /\ ~Listening(o)'
    BY <1>0, <1>1, <1>2, <1>6 DEF Asking, Listening
  <2> QED  BY <1>0, <1>1, <1>2, <1>3, <1>4, <1>6, <2>1, Pair DEF Protocol, Requests, Listening
<1>12. Order(t)' /\ Order(o)'
  <2>1. Order(o)'
    BY <1>0, <1>1, <1>2, <1>3, <1>4, <1>6, <1>8 DEF Protocol, Order, Listening, Asking, One, Before
  <2>2. t = "low" /\ Asking(t) => Before(t)' \subseteq Noises
    <3>1. t = "low" /\ Asking(t) => NAK \notin On(line[t]) /\ STX \notin On(line[t])
      BY <1>1, <1>3 DEF Protocol, Order, One
    <3>2. On(line[t]) \subseteq {STX, NAK} \cup Noises
      BY <1>3, <1>6, <1>8 DEF Protocol, Quiet, Idle
    <3> QED  BY <1>1, <1>2, <3>1, <3>2 DEF Before
  <2>3. Asking(t)' <=> Asking(t)
    BY <1>0, <1>1, <1>2 DEF Asking
  <2>4. One(t) => One(t)'
    BY <1>1, <1>2 DEF One
  <2>5. Order(t)'
    BY <1>1, <1>2, <1>3, <2>2, <2>3, <2>4 DEF Protocol, Order
  <2> QED  BY <2>1, <2>5
<1> QED  BY <1>5, <1>7, <1>9, <1>10, <1>11, <1>12 DEF Protocol

LEMMA InsistStep ==
    ASSUME PInv, NEW t \in Stations, NEW o \in Stations, o = Other(t), t = Other(o), o # t,
           Insist(t)
    PROVE  Protocol(t)' /\ Protocol(o)'
<1> USE DEF PInv
<1>1. /\ pc[t] = "locked" /\ c[t] = STX /\ wants[t] /\ t = "high" /\ line[o] \in Seq(Char)
      /\ c'[t] = <<>> /\ c'[o] = c[o]
      /\ line'[o] = line[o] \o <<NAK, STX>> /\ line'[t] = line[t]
      /\ pc'[t] = "select" /\ pc'[o] = pc[o]
      /\ UNCHANGED <<heard, wants, waiting, written, sem, result, delivered, noise>>
  BY DEF Insist, Goto, Transmit, app, TypeOK
<1> DEFINE m == Push(line[o], NAK)
           r == Push(m, STX)
<1>2. /\ NAK \in Char /\ STX \in Char /\ STX # DLE /\ NAK # DLE /\ NAK # STX
      /\ STX # <<>> /\ DLE # <<>>
  BY Characters
<1>3. line'[o] = r
  BY <1>1, <1>2, PushedTwo
<1>4. /\ m \in Seq(Char) /\ m # <<>> /\ On(m) = On(line[o]) \cup {NAK}
      /\ Distinct(line[o]) /\ NAK \notin On(line[o]) => Distinct(m)
      /\ OneStx(line[o]) => OneStx(m)
      /\ AfterStx(line[o]) /\ NAK \notin On(line[o]) => AfterStx(m)
  BY <1>1, <1>2, Pushed
<1> HIDE DEF m
<1>5. /\ r # <<>> /\ On(r) = On(m) \cup {STX}
      /\ Distinct(m) /\ STX \notin On(m) => Distinct(r)
      /\ OneStx(m) /\ STX \notin On(m) => OneStx(r)
      /\ AfterStx(m) /\ OneStx(m) => AfterStx(r)
  BY <1>2, <1>4, Pushed
<1>0. line'[o] = r
  BY <1>3
<1> HIDE DEF r
<1>6. Protocol(t) /\ Protocol(o)
  OBVIOUS
<1>7. o = "low" /\ Asking(o) /\ wants[o] /\ pc[o] # "ack" /\ ~Listening(t)
      /\ NAK \notin On(line[o]) /\ One(o) /\ STX \notin On(line[t])
      /\ (Listening(o) => Before(o) \subseteq Noises /\ pc[o] = "receive")
  BY <1>1, <1>6, Pair DEF Protocol, Requests, Order, Asking, Sending, Listening, One
<1>8. ~Asking(o)' /\ (Asking(t)' <=> TRUE)
  BY <1>0, <1>1, <1>2, <1>5, <1>7 DEF Asking
<1>9. On(r) = On(line[o]) \cup {NAK, STX}
  BY <1>4, <1>5
<1>10. Local(t)' /\ Local(o)'
  <2>1. Fresh(t)' /\ Fresh(o)'
    <3>1. Fresh(t) /\ Fresh(o)
      BY <1>6 DEF Protocol, Local
    <3>2. \A i \in 1 .. MaxNoise : Spoilt(i) \in On(r) => Spoilt(i) \in On(line[o])
      BY <1>9, Clean
    <3> QED  BY <1>0, <1>1, <3>1, <3>2 DEF Fresh
  <2> QED  BY <1>1, <1>6, <2>1 DEF Protocol, Local, Last
<1>11. Sending(t)' /\ Sending(o)'
  BY <1>1, <1>7 DEF Sending
<1>12. Permitted(t)' /\ Permitted(o)'
  <2>1. Going(o)' => Going(o)
    BY <1>0, <1>1, <1>2, <1>9 DEF Going
  <2>2. ~Going(o)
    BY <1>1, <1>6 DEF Protocol, Permitted
  <2>3. Permitted(o)'
    BY <2>1, <2>2 DEF Permitted
  <2>4. Going(t)' => Going(t) /\ c'[t] # DLE
    BY <1>1, <1>2 DEF Going
  <2>5. SUFFICES ASSUME Going(t)
                 PROVE  pc'[o] = "receive" /\ wants'[t] /\ DleLast(line'[t])
                        /\ Before(o)' \subseteq Idle /\ Apart(o)'
    BY <1>1, <2>3, <2>4 DEF Permitted
  <2>6. pc[o] = "receive" /\ DleLast(line[t]) /\ Before(o) \subseteq Noises /\ Apart(o)
        /\ Before(o) \subseteq Idle
    BY <1>6, <1>7, <2>5 DEF Protocol, Permitted, Listening
  <2>7. STX \notin Before(o) /\ NAK \notin Before(o) /\ STX \notin On(m)
    BY <1>2, <1>4, <2>6, Characters DEF Before
  <2>8. Apart(o)'
    <3>1. Distinct(line[o]) /\ Distinct(heard[o]) /\ On(line[o]) \cap On(heard[o]) = {}
      BY <2>6 DEF Apart
    <3>2. Distinct(r)
      BY <1>4, <1>5, <1>7, <2>7, <3>1
    <3>3. On(r) \cap On(heard[o]) = {}
      BY <1>9, <2>7, <3>1 DEF Before
    <3> QED  BY <1>0, <1>1, <3>1, <3>2, <3>3 DEF Apart
  <2> QED  BY <1>0, <1>1, <1>9, <2>6, <2>8 DEF Before, Idle
<1>13. Quiet(t)' /\ Quiet(o)'
  <2>1. On(line'[o]) = On(line[o]) \cup {NAK, STX}
    BY <1>0, <1>9
  <2> QED  BY <1>1, <1>2, <1>6, <1>7, <2>1 DEF Protocol, Quiet, Listening, Idle
<1>14. Requests(t)' /\ Requests(o)'
  BY <1>0, <1>1, <1>2, <1>6, <1>7, <1>8, <1>9 DEF Protocol, Requests, Listening
<1>15. Order(t)' /\ Order(o)'
  <2>1. Order(t)'
    BY <1>1, <1>2, <1>6, <1>8 DEF Protocol, Order, Listening, One
  <2>2. AfterStx(r)
    BY <1>4, <1>5, <1>6, <1>7 DEF Protocol, Order, One
  <2>3. c[o] = STX => Distinct(r)
    <3>1. c[o] = STX => Distinct(line[o]) /\ STX \notin On(line[o])
      BY <1>6, <1>7 DEF Protocol, Order, One
    <3>2. c[o] = STX => STX \notin On(m)
      BY <1>2, <1>4, <3>1
    <3> QED  BY <1>4, <1>5, <1>7, <3>1, <3>2
  <2>4. Order(o)'
    BY <1>0, <1>1, <1>7, <1>8, <2>2, <2>3 DEF Order, Listening
  <2> QED  BY <2>1, <2>4
<1> QED  BY <1>10, <1>11, <1>12, <1>13, <1>14, <1>15 DEF Protocol

LEMMA SendStep ==
    ASSUME PInv, NEW t \in Stations, NEW o \in Stations, o = Other(t), t = Other(o), o # t,
           Send(t)
    PROVE  Protocol(t)' /\ Protocol(o)'
<1> USE DEF PInv
<1>1. /\ pc[t] = "locked" /\ c[t] = DLE /\ wants[t] /\ line[o] \in Seq(Char)
      /\ c'[t] = <<>> /\ c'[o] = c[o]
      /\ line'[o] = Frame(line[o], Text(written[t]), DLE, ETX, Bcc(written[t]))
      /\ line'[t] = line[t]
      /\ pc'[t] = "ack" /\ pc'[o] = pc[o]
      /\ UNCHANGED <<heard, wants, waiting, written, sem, result, delivered, noise>>
  BY DEF Send, Goto, Transmit, app, TypeOK, Frame
<1>2. Protocol(t) /\ Protocol(o)
  OBVIOUS
<1>3. /\ pc[o] = "receive" /\ line[t] = <<>> /\ Before(o) \subseteq Idle /\ Apart(o)
      /\ Last(t) < written[t]
  BY <1>1, <1>2 DEF Protocol, Permitted, Going, Local
<1> DEFINE w == written[t]
<1>4. Text(w) \in Char /\ Bcc(w) \in Char /\ DLE \in Char /\ ETX \in Char
  <2>1. w \in 1 .. MaxTelegrams
    BY <1>3, LastType DEF TypeOK
  <2> QED  BY <2>1, Telegrams, Characters
<1>5. /\ Text(w) \notin Idle /\ Bcc(w) \notin Idle /\ DLE \notin Idle /\ ETX \notin Idle
      /\ Text(w) # DLE /\ Text(w) # ETX /\ Text(w) # Bcc(w) /\ Bcc(w) # DLE /\ Bcc(w) # ETX
      /\ DLE # ETX /\ STX # DLE
  BY Telegrams, Characters DEF Idle
<1> DEFINE r1 == Push(line[o], Text(w))
           r2 == Push(r1, DLE)
           r3 == Push(r2, ETX)
           r  == Push(r3, Bcc(w))
<1>6. On(line[o]) \subseteq Idle /\ Distinct(line[o])
  BY <1>3 DEF Before, Apart
<1>7. line'[o] = r
  BY <1>1, <1>4, PushedFour
<1>8. r1 \in Seq(Char) /\ Distinct(r1) /\ On(r1) = On(line[o]) \cup {Text(w)}
  BY <1>1, <1>4, <1>5, <1>6, Pushed
<1> HIDE DEF r1
<1>9. r2 \in Seq(Char) /\ Distinct(r2) /\ On(r2) = On(r1) \cup {DLE}
  <2>1. DLE \notin On(r1)
    BY <1>5, <1>6, <1>8
  <2> QED  BY <1>4, <1>8, <2>1, Pushed
<1> HIDE DEF r2
<1>10. r3 \in Seq(Char) /\ Distinct(r3) /\ On(r3) = On(r2) \cup {ETX} /\ r3 # <<>>
       /\ Len(r3) \in Nat /\ r3[Len(r3)] = ETX
  <2>1. ETX \notin On(r2)
    BY <1>5, <1>6, <1>8, <1>9
  <2>2. r3[Len(r3)] = ETX
    BY <1>4, <1>9 DEF Push
  <2> QED  BY <1>4, <1>9, <2>1, <2>2, Pushed
<1> HIDE DEF r3
<1>11. r \in Seq(Char) /\ Distinct(r) /\ On(r) = On(r3) \cup {Bcc(w)} /\ r # <<>>
       /\ Len(r) = Len(r3) + 1 /\ r[Len(r3)] = ETX /\ Len(r3) \in DOMAIN r
  <2>1. Bcc(w) \notin On(r3)
    BY <1>5, <1>6, <1>8, <1>9, <1>10
  <2>2. Len(r) = Len(r3) + 1 /\ r[Len(r3)] = ETX /\ Len(r3) \in DOMAIN r
    <3>1. Len(r3) \in 1 .. Len(r3)
      BY <1>10
    <3> QED  BY <1>4, <1>10, <3>1 DEF Push
  <2> QED  BY <1>4, <1>10, <2>1, <2>2, Pushed
<1> HIDE DEF r
<1>12. On(r) = On(line[o]) \cup {Text(w), DLE, ETX, Bcc(w)}
  BY <1>8, <1>9, <1>10, <1>11
<1>13. EtxEnds(r)
  <2> SUFFICES ASSUME NEW i \in DOMAIN r, r[i] = ETX
               PROVE  Len(r) <= i + 1
    BY DEF EtxEnds
  <2>1. i = Len(r3)
    BY <1>11 DEF Distinct
  <2> QED  BY <1>10, <1>11, <2>1
<1>14. Local(t)' /\ Local(o)'
  <2>1. \A i \in 1 .. MaxNoise : Spoilt(i) \notin {Text(w), DLE, ETX, Bcc(w)}
    BY <1>5, Clean DEF Idle
  <2>2. Fresh(t) /\ Fresh(o)
    BY <1>2 DEF Protocol, Local
  <2>3. Fresh(t)' /\ Fresh(o)'
    BY <1>1, <1>7, <1>12, <2>1, <2>2 DEF Fresh
  <2>4. c'[t] = <<>> /\ c[t] # <<>>
    BY <1>1, Characters
  <2>5. Last(t)' = Last(t) /\ Last(o)' = Last(o)
    BY <1>1 DEF Last
  <2> QED  BY <1>1, <1>2, <2>3, <2>4, <2>5 DEF Protocol, Local
<1>15. Sending(t)' /\ Sending(o)'
  <2>1. pc[o] # "ack"
    BY <1>3
  <2>2. Before(o)' \subseteq Signs(t)'
    BY <1>1, <1>3, <1>7, <1>12 DEF Before, Signs
  <2>3. Apart(o)'
    <3>1. On(heard[o]) \subseteq Idle /\ Distinct(heard[o]) /\ On(line[o]) \cap On(heard[o]) = {}
      BY <1>3 DEF Before, Apart
    <3>2. On(r) \cap On(heard[o]) = {}
      BY <1>5, <1>12, <3>1
    <3> QED  BY <1>1, <1>7, <1>11, <3>1, <3>2 DEF Apart
  <2>4. Last(t)' = Last(t)
    BY <1>1 DEF Last
  <2> QED  BY <1>1, <1>3, <1>7, <1>13, <2>1, <2>2, <2>3, <2>4 DEF Sending, Listening
<1>16. Permitted(t)' /\ Permitted(o)'
  BY <1>1, <1>3 DEF Permitted, Going
<1>17. Quiet(t)' /\ Quiet(o)'
  BY <1>1, <1>2, <1>3 DEF Protocol, Quiet, Listening
<1>18. (Asking(t)' <=> Asking(t)) /\ ~Asking(o)' /\ On(line[t]) = {}
  <2>1. c'[t] # STX /\ On(<<>>) = {} /\ Text(w) # STX /\ Bcc(w) # STX /\ STX # ETX
    BY <1>1, <1>5, Characters, Empty DEF Idle
  <2> QED  BY <1>1, <1>3, <1>5, <1>7, <1>12, <2>1 DEF Asking
<1>19. Requests(t)' /\ Requests(o)'
  <2>1. Text(w) # NAK /\ Bcc(w) # NAK /\ NAK # DLE /\ NAK # ETX
    BY <1>5, Characters DEF Idle
  <2> QED  BY <1>1, <1>2, <1>3, <1>7, <1>12, <1>18, <2>1 DEF Protocol, Requests, Listening
<1>20. Order(t)' /\ Order(o)'
  <2>1. One(o)'
    <3>1. OneStx(r) /\ AfterStx(r)
      BY <1>11, Ordered
    <3>2. c[o] = <<>>
      BY <1>2, <1>3 DEF Protocol, Local
    <3> QED  BY <1>1, <1>7, <3>1, <3>2, Characters DEF One
  <2>2. AfterStx(r) /\ Distinct(r)
    BY <1>11, Ordered
  <2>3. AfterStx(<<>>) /\ Distinct(<<>>) /\ OneStx(<<>>)
    BY Empty
  <2>4. Order(o)'
    BY <1>1, <1>3, <1>7, <1>18, <2>1, <2>2 DEF Order
  <2>5. Order(t)'
    BY <1>1, <1>3, <1>18, <2>3 DEF Order, One, Listening
  <2> QED  BY <2>4, <2>5
<1> QED  BY <1>14, <1>15, <1>16, <1>17, <1>19, <1>20 DEF Protocol

\* A character is lost or spoilt.
LEMMA NoiseStep ==
    ASSUME PInv, NEW t \in Stations, NEW o \in Stations, o = Other(t), t = Other(o), o # t,
           Lose(t) \/ Spoil(t)
    PROVE  Protocol(t)' /\ Protocol(o)'
<1> USE DEF PInv
<1>1. /\ line[t] # <<>> /\ line[t] \in Seq(Char) /\ line'[o] = line[o]
      /\ noise \in Nat /\ noise' = noise + 1 /\ noise' \in 1 .. MaxNoise
      /\ line'[t] = Tail(line[t]) \/ line'[t] = <<Spoilt(noise')>> \o Tail(line[t])
      /\ UNCHANGED <<pc, c, heard, wants, waiting, written, sem, result, delivered>>
  BY Rl3964RAssumption DEF Lose, Spoil, Arrived, app, TypeOK
<1>2. Protocol(t) /\ Protocol(o)
  OBVIOUS
<1> DEFINE x == Spoilt(noise')
<1>3. x \in Noises /\ x # STX /\ x # DLE /\ x # NAK /\ x # ETX
  BY <1>1, Clean
<1>4. x \notin On(line[t]) /\ x \notin On(heard[t])
  <2>1. Fresh(t)
    BY <1>2 DEF Protocol, Local
  <2> QED  BY <1>1, <2>1 DEF Fresh
<1>5. Spoilt(noise') = x
  OBVIOUS
<1> HIDE DEF x
<1>6. /\ On(line'[t]) \subseteq On(line[t]) \cup {x}
      /\ Distinct(line[t]) => Distinct(line'[t])
      /\ OneStx(line[t]) => OneStx(line'[t])
      /\ AfterStx(line[t]) => AfterStx(line'[t])
      /\ EtxEnds(line[t]) => EtxEnds(line'[t])
      /\ DleLast(line[t]) => DleLast(line'[t])
      /\ Plain(line[t]) => Plain(line'[t])
      /\ Len(line[t]) <= 1 => Len(line'[t]) <= 1
  <2>1. CASE line'[t] = Tail(line[t])
    <3>1. Len(Tail(line[t])) = Len(line[t]) - 1 /\ Len(line[t]) \in Nat
      BY <1>1, Popped
    <3>2. Len(line[t]) <= 1 => Len(line'[t]) <= 1
      BY <2>1, <3>1
    <3> QED  BY <1>1, <2>1, <3>2, Popped
  <2>2. CASE line'[t] = <<x>> \o Tail(line[t])
    <3>1. line'[t] = Damage(line[t], x)
      BY <2>2 DEF Damage
    <3>2. Len(line'[t]) = Len(line[t])
      BY <1>1, <1>3, <1>4, <3>1, Damaged
    <3> QED  BY <1>1, <1>3, <1>4, <3>1, <3>2, Damaged
  <2> QED  BY <1>1, <1>5, <2>1, <2>2
<1>7. Local(t)' /\ Local(o)'
  <2>1. Fresh(t) /\ Fresh(o)
    BY <1>2 DEF Protocol, Local
  <2>2. \A i \in 1 .. MaxNoise : Spoilt(i) = x => i = noise'
    BY <1>1, <1>5 DEF Spoilt
  <2>3. \A i \in 1 .. MaxNoise : i <= noise => i <= noise'
    BY <1>1
  <2>4. noise' <= noise'
    BY <1>1
  <2>5. Fresh(t)'
    BY <1>1, <1>6, <2>1, <2>2, <2>3, <2>4 DEF Fresh
  <2>6. Fresh(o)'
    BY <1>1, <2>1, <2>3 DEF Fresh
  <2> QED  BY <1>1, <1>2, <2>5, <2>6 DEF Protocol, Local, Last
<1>8. Before(t)' \subseteq Before(t) \cup {x} /\ Before(o)' = Before(o)
      /\ (Apart(t) => Apart(t)') /\ (Apart(o) => Apart(o)')
  <2>1. Before(t)' \subseteq Before(t) \cup {x} /\ Before(o)' = Before(o)
    BY <1>1, <1>6 DEF Before
  <2>2. Apart(t) => Apart(t)'
    BY <1>1, <1>4, <1>6 DEF Apart
  <2>3. Apart(o) => Apart(o)'
    BY <1>1 DEF Apart
  <2> QED  BY <2>1, <2>2, <2>3
<1>9. x \in Idle /\ x \in Signs(t) /\ x \in Signs(o)
  BY <1>3 DEF Idle, Signs
<1>10. Sending(t)' /\ Sending(o)'
  <2>1. Signs(t)' = Signs(t) /\ Signs(o)' = Signs(o) /\ Last(t)' = Last(t) /\ Last(o)' = Last(o)
    BY <1>1 DEF Signs, Last
  <2>2. (DLE \in On(line'[t]) => DLE \in On(line[t]))
    BY <1>3, <1>6
  <2>3. Sending(t)'
    BY <1>1, <1>2, <1>6, <2>1, <2>2 DEF Protocol, Sending, Listening
  <2>4. Sending(o)'
    BY <1>1, <1>2, <1>6, <1>8, <1>9, <2>1 DEF Protocol, Sending, Listening
  <2> QED  BY <2>3, <2>4
<1>11. Permitted(t)' /\ Permitted(o)'
  <2>1. (Going(t)' => Going(t)) /\ (Going(o)' => Going(o))
    BY <1>1, <1>3, <1>6 DEF Going
  <2>2. Permitted(t)'
    BY <1>1, <1>2, <1>6, <1>8, <2>1 DEF Protocol, Permitted
  <2>3. Permitted(o)'
    BY <1>1, <1>2, <1>8, <1>9, <2>1 DEF Protocol, Permitted
  <2> QED  BY <2>2, <2>3
<1>12. Quiet(t)' /\ Quiet(o)'
  BY <1>1, <1>2, <1>3, <1>6, <1>9 DEF Protocol, Quiet, Listening
<1>13. (Asking(t)' <=> Asking(t)) /\ (Asking(o)' => Asking(o))
  BY <1>1, <1>3, <1>6 DEF Asking
<1>14. Requests(t)' /\ Requests(o)'
  BY <1>1, <1>2, <1>3, <1>6, <1>13 DEF Protocol, Requests, Listening
<1>15. Order(t)' /\ Order(o)'
  <2>1. (One(t) => One(t)') /\ (One(o) => One(o)')
    BY <1>1, <1>3, <1>6 DEF One
  <2>2. NAK \notin On(line[t]) => NAK \notin On(line'[t])
    BY <1>3, <1>6
  <2>3. Before(t) \subseteq Noises => Before(t)' \subseteq Noises
    BY <1>3, <1>8
  <2>4. Order(t)'
    BY <1>1, <1>2, <1>6, <1>13, <2>1, <2>2, <2>3 DEF Protocol, Order, Listening
  <2>5. Order(o)'
    BY <1>1, <1>2, <1>8, <1>13, <2>1 DEF Protocol, Order, Listening
  <2> QED  BY <2>4, <2>5
<1> QED  BY <1>7, <1>10, <1>11, <1>12, <1>14, <1>15 DEF Protocol

LEMMA AckStep ==
    ASSUME PInv, NEW t \in Stations, NEW o \in Stations, o = Other(t), t = Other(o), o # t,
           Ack(t)
    PROVE  Protocol(t)' /\ Protocol(o)'
<1> USE DEF PInv
<1>1. /\ pc[t] = "ack" /\ line[t] # <<>> /\ line[t] \in Seq(Char) /\ line[o] \in Seq(Char)
      /\ line'[t] = Tail(line[t]) /\ line'[o] = line[o] \o <<>>
      /\ (result'[t] <=> Head(line[t]) = DLE) /\ result'[o] = result[o]
      /\ ~wants'[t] /\ wants'[o] = wants[o]
      /\ sem'[t] = sem[t] + 1 /\ sem'[o] = sem[o]
      /\ pc'[t] = "select" /\ pc'[o] = pc[o]
      /\ UNCHANGED <<c, heard, waiting, written, delivered, noise>>
  BY DEF Ack, Goto, ReadAnd, Finish, Arrived, TypeOK
<1>2. line'[o] = line[o]
  BY <1>1
<1>3. Protocol(t) /\ Protocol(o)
  OBVIOUS
<1>4. /\ pc[o] = "select" /\ ~Listening(o) /\ line[o] = <<>> /\ Plain(line[t]) /\ wants[t]
      /\ DLE \in On(line[t]) => Last(t) = written[t]
  BY <1>1, <1>3 DEF Protocol, Sending, Local, Listening
<1>5. /\ On(line[t]) = {Head(line[t])} \cup On(Tail(line[t]))
      /\ OneStx(line[t]) => OneStx(Tail(line[t]))
      /\ AfterStx(line[t]) => AfterStx(Tail(line[t]))
      /\ On(Tail(line[t])) \subseteq {STX} \cup Noises
  BY <1>1, <1>4, Popped
<1>6. c[t] = <<>> /\ c[o] = <<>> /\ c[t] # DLE /\ c[t] # STX /\ c[o] # DLE /\ c[o] # STX
  BY <1>1, <1>3, <1>4, Characters DEF Protocol, Local
<1>7. NAK \notin On(Tail(line[t])) /\ DLE \notin On(Tail(line[t]))
  BY <1>5, Characters
<1>8. On(line[o]) = {}
  BY <1>4, Empty
<1>9. Local(t)' /\ Local(o)'
  <2>1. Fresh(t)'
    BY <1>1, <1>3, <1>5 DEF Protocol, Local, Fresh
  <2>2. Fresh(o)'
    BY <1>1, <1>2, <1>3 DEF Protocol, Local, Fresh
  <2>3. Last(t)' = Last(t) /\ Last(o)' = Last(o)
    BY <1>1 DEF Last
  <2>4. sem[t] = 0 /\ waiting[t] /\ (Head(line[t]) = DLE => Last(t) = written[t])
    BY <1>1, <1>3, <1>4, <1>5 DEF Protocol, Local
  <2>5. Local(t)'
    BY <1>1, <1>3, <1>4, <1>6, <2>1, <2>3, <2>4 DEF Protocol, Local
  <2>6. Local(o)'
    BY <1>1, <1>2, <1>3, <1>6, <2>2, <2>3 DEF Protocol, Local
  <2> QED  BY <2>5, <2>6
<1>10. Sending(t)' /\ Sending(o)'
  BY <1>1, <1>4 DEF Sending
<1>11. Permitted(t)' /\ Permitted(o)'
  BY <1>1, <1>2, <1>6, <1>7, <1>8 DEF Permitted, Going
<1>12. Quiet(t)' /\ Quiet(o)'
  BY <1>1, <1>2, <1>3, <1>4, <1>5, <1>8 DEF Protocol, Quiet, Listening
<1>13. ~Asking(t)' /\ (Asking(o)' => Asking(o))
  BY <1>1, <1>2, <1>5, <1>6, <1>8 DEF Asking
<1>14. Requests(t)' /\ Requests(o)'
  BY <1>1, <1>2, <1>3, <1>4, <1>7, <1>8, <1>13 DEF Protocol, Requests, Listening
<1>15. Order(t)' /\ Order(o)'
  <2>1. One(t)'
    BY <1>1, <1>3, <1>5, <1>6 DEF Protocol, Order, One
  <2>2. One(o) => One(o)'
    BY <1>1, <1>2 DEF One
  <2>3. Order(t)'
    BY <1>1, <1>3, <1>5, <1>6, <1>13, <2>1 DEF Protocol, Order
  <2>4. Order(o)'
    BY <1>1, <1>2, <1>3, <1>4, <1>6, <1>13, <2>2 DEF Protocol, Order, Listening
  <2> QED  BY <2>3, <2>4
<1> QED  BY <1>9, <1>10, <1>11, <1>12, <1>14, <1>15 DEF Protocol

\* A second without a character ends send() or receive().
LEMMA TimeoutStep ==
    ASSUME PInv, NEW t \in Stations, NEW o \in Stations, o = Other(t), t = Other(o), o # t,
           AckTimeout(t) \/ ReceiveTimeout(t), Benign'
    PROVE  Protocol(t)' /\ Protocol(o)'
<1> USE DEF PInv
<1>0. Silence(t)
  <2>1. upsets \in Nat /\ upsets' = 0
    BY Rl3964RAssumption DEF TypeOK, Benign
  <2>2. upsets' # upsets + 1
    BY <2>1
  <2> QED  BY <2>2 DEF AckTimeout, ReceiveTimeout, SecondEnds, Upset
<1>1. /\ pc[t] \in {"ack", "receive"} /\ line[t] = <<>> /\ line[o] = <<>> /\ pc[o] # "locked"
      /\ pc'[t] = "select" /\ pc'[o] = pc[o]
      /\ pc[t] = "ack" => /\ ~wants'[t] /\ ~result'[t] /\ sem'[t] = sem[t] + 1
                          /\ heard'[t] = heard[t]
      /\ pc[t] = "receive" => /\ wants'[t] = wants[t] /\ result'[t] = result[t]
                              /\ sem'[t] = sem[t] /\ heard'[t] = <<>>
      /\ wants'[o] = wants[o] /\ result'[o] = result[o] /\ sem'[o] = sem[o]
      /\ heard'[o] = heard[o]
      /\ UNCHANGED <<c, line, waiting, written, delivered, noise>>
  BY <1>0, Pair DEF AckTimeout, ReceiveTimeout, Finish, Silence, Goto, app, TypeOK
<1>2. Protocol(t) /\ Protocol(o)
  OBVIOUS
<1>3. On(<<>>) = {} /\ Plain(<<>>) /\ AfterStx(<<>>) /\ Distinct(<<>>) /\ OneStx(<<>>) /\ Len(<<>>) <= 1
  BY Empty
<1>4. c[t] = <<>> /\ c[o] = <<>> /\ c[t] # DLE /\ c[t] # STX /\ c[o] # DLE /\ c[o] # STX
  BY <1>1, <1>2, Characters DEF Protocol, Local
<1>5. Local(t)' /\ Local(o)'
  <2>1. Fresh(t)' /\ Fresh(o)'
    BY <1>1, <1>2, <1>3 DEF Protocol, Local, Fresh
  <2> QED  BY <1>1, <1>2, <1>4, <2>1 DEF Protocol, Local, Last
<1>6. Sending(t)' /\ Sending(o)'
  <2>1. pc[o] = "ack" => pc[t] = "receive"
    BY <1>1, <1>2 DEF Protocol, Sending, Listening
  <2> QED  BY <1>1, <1>3, <2>1 DEF Sending, Listening
<1>7. Permitted(t)' /\ Permitted(o)'
  BY <1>1, <1>3, <1>4 DEF Permitted, Going
<1>8. Quiet(t)' /\ Quiet(o)'
  BY <1>1, <1>3 DEF Quiet
<1>9. ~Asking(t)' /\ ~Asking(o)'
  BY <1>1, <1>3, <1>4 DEF Asking
<1>10. Requests(t)' /\ Requests(o)'
  BY <1>1, <1>2, <1>3, <1>9 DEF Protocol, Requests, Listening
<1>11. Order(t)' /\ Order(o)'
  BY <1>1, <1>3, <1>4, <1>9 DEF Order, One
<1> QED  BY <1>5, <1>6, <1>7, <1>8, <1>10, <1>11 DEF Protocol

\* receive() takes a character that is not the checksum.
LEMMA HearStep ==
    ASSUME PInv, NEW t \in Stations, NEW o \in Stations, o = Other(t), t = Other(o), o # t,
           Hear(t) \/ HearDle(t) \/ HearEscaped(t)
    PROVE  Protocol(t)' /\ Protocol(o)'
<1> USE DEF PInv
<1>1. /\ pc[t] \in {"receive", "escape"} /\ line[t] # <<>>
      /\ line[t] \in Seq(Char) /\ line[o] \in Seq(Char) /\ heard[t] \in Seq(Char)
      /\ line'[t] = Tail(line[t]) /\ line'[o] = line[o] \o <<>>
      /\ pc'[o] = pc[o] /\ heard'[o] = heard[o]
      /\ UNCHANGED <<c, wants, waiting, written, sem, result, delivered, noise>>
      /\ \/ pc'[t] = "receive" /\ heard'[t] = Append(heard[t], Head(line[t]))
         \/ Head(line[t]) = DLE /\ pc'[t] = "escape" /\ heard'[t] = heard[t]
         \/ Head(line[t]) = ETX /\ pc'[t] = "bcc" /\ heard'[t] = heard[t]
  BY DEF Hear, HearDle, HearEscaped, Goto, ReadAnd, Arrived, app, TypeOK
<1>2. line'[o] = line[o]
  BY <1>1
<1>3. Append(heard[t], Head(line[t])) = Push(heard[t], Head(line[t]))
  <2>1. Head(line[t]) \in Char
    BY <1>1, Popped
  <2> QED  BY <1>1, <2>1, AppendIsConcat DEF Push
<1>4. Protocol(t) /\ Protocol(o)
  OBVIOUS
<1>5. /\ Head(line[t]) \in Char
      /\ On(line[t]) = {Head(line[t])} \cup On(line'[t])
      /\ Distinct(line[t]) => Distinct(line'[t]) /\ Head(line[t]) \notin On(line'[t])
      /\ OneStx(line[t]) => OneStx(line'[t])
      /\ AfterStx(line[t]) => AfterStx(line'[t])
      /\ EtxEnds(line[t]) => EtxEnds(line'[t]) /\ (Head(line[t]) = ETX => Len(line'[t]) <= 1)
  BY <1>1, Popped
<1>6. /\ \/ heard'[t] = heard[t] /\ On(heard'[t]) = On(heard[t])
         \/ /\ On(heard'[t]) = On(heard[t]) \cup {Head(line[t])}
            /\ Distinct(heard[t]) /\ Head(line[t]) \notin On(heard[t]) => Distinct(heard'[t])
  <2>1. CASE heard'[t] = heard[t]
    BY <2>1
  <2>2. CASE heard'[t] = Push(heard[t], Head(line[t]))
    BY <1>1, <1>5, <2>2, Pushed
  <2> QED  BY <1>1, <1>3, <2>1, <2>2
<1>7. /\ Listening(t) /\ Listening(t)' /\ ~Listening(o) /\ ~Listening(o)'
      /\ wants[o] /\ pc[t] # "ack" /\ pc'[t] # "ack"
      /\ pc'[t] # "locked" /\ pc'[t] # "select"
      /\ c[t] = <<>> /\ c[t] # DLE /\ c[t] # STX
  BY <1>1, <1>4, Characters DEF Listening, Protocol, Requests, Local
<1>8. Before(t)' \subseteq Before(t) /\ Before(o)' = Before(o) /\ Head(line[t]) \in Before(t)
  BY <1>1, <1>2, <1>5, <1>6 DEF Before
<1>9. (Apart(t) => Apart(t)') /\ (Apart(o) => Apart(o)')
  BY <1>1, <1>2, <1>5, <1>6 DEF Apart
<1>10. Signs(t)' = Signs(t) /\ Signs(o)' = Signs(o) /\ Last(t)' = Last(t) /\ Last(o)' = Last(o)
  BY <1>1 DEF Signs, Last
<1>11. Local(t)' /\ Local(o)'
  <2>1. Fresh(t)'
    BY <1>1, <1>4, <1>8 DEF Protocol, Local, Fresh, Before
  <2>2. Fresh(o)'
    BY <1>1, <1>2, <1>4 DEF Protocol, Local, Fresh
  <2>3. Local(t)'
    BY <1>1, <1>4, <1>7, <1>10, <2>1 DEF Protocol, Local
  <2>4. Local(o)'
    BY <1>1, <1>4, <1>10, <2>2 DEF Protocol, Local
  <2> QED  BY <2>3, <2>4
<1>12. Sending(t)' /\ Sending(o)'
  BY <1>1, <1>2, <1>4, <1>5, <1>7, <1>8, <1>9, <1>10 DEF Protocol, Sending
<1>13. (Before(t) \subseteq Idle \/ Before(t) \subseteq Noises) => pc'[t] = "receive"
  BY <1>1, <1>8, Characters DEF Idle
<1>14. Permitted(t)' /\ Permitted(o)'
  <2>1. ~Going(t)' /\ (Going(o)' => Going(o))
    BY <1>1, <1>2, <1>7 DEF Going
  <2>2. Permitted(t)'
    BY <2>1 DEF Permitted
  <2>3. Permitted(o)'
    BY <1>1, <1>2, <1>4, <1>8, <1>9, <1>13, <2>1 DEF Protocol, Permitted
  <2> QED  BY <2>2, <2>3
<1>15. Quiet(t)' /\ Quiet(o)'
  BY <1>1, <1>2, <1>4, <1>5, <1>7 DEF Protocol, Quiet
<1>16. (Asking(t)' <=> Asking(t)) /\ (Asking(o)' => Asking(o))
  BY <1>1, <1>2, <1>5 DEF Asking
<1>17. t = "low" /\ Asking(t) => pc'[t] = "receive" /\ Before(t)' \subseteq Noises
  BY <1>4, <1>7, <1>8, <1>13 DEF Protocol, Order
<1>18. Requests(t)' /\ Requests(o)'
  BY <1>1, <1>2, <1>4, <1>5, <1>7, <1>16, <1>17 DEF Protocol, Requests
<1>19. Order(t)' /\ Order(o)'
  <2>1. (One(t) => One(t)') /\ (One(o) => One(o)')
    BY <1>1, <1>2, <1>5 DEF One
  <2>2. Head(line[t]) = ETX => Len(line'[t]) <= 1
    <3>1. ETX \notin Idle \cup {DLE}
      BY Characters DEF Idle
    <3>2. Head(line[t]) = ETX => pc[o] = "ack"
      BY <1>4, <1>5, <3>1 DEF Protocol, Quiet
    <3> QED  BY <1>4, <1>5, <1>7, <3>2 DEF Protocol, Sending
  <2>3. pc'[t] = "bcc" => Len(line'[t]) <= 1
    BY <1>1, <2>2
  <2>4. Order(t)'
    BY <1>1, <1>4, <1>5, <1>7, <1>16, <1>17, <2>1, <2>3 DEF Protocol, Order
  <2>5. Order(o)'
    BY <1>1, <1>2, <1>4, <1>7, <1>16, <2>1 DEF Protocol, Order
  <2> QED  BY <2>4, <2>5
<1> QED  BY <1>11, <1>12, <1>14, <1>15, <1>18, <1>19 DEF Protocol

\* When no character was heard twice, a checksum that agrees is that of the
\* only character heard.
LEMMA Checked ==
    ASSUME NEW t \in Stations, heard[t] \in Seq(Char), Distinct(heard[t]),
           NEW n \in 1 .. MaxTelegrams, Parity(t) = {Text(n)}
    PROVE  Contents(t) = n
<1> DEFINE q == heard[t]
           At(x) == {i \in DOMAIN q : q[i] = x}
<1>1. q \in Seq(Char) /\ Distinct(q) /\ DOMAIN q = 1 .. Len(q) /\ Len(q) \in Nat
  OBVIOUS
<1>2. \A x : x \in Char => (x \in Parity(t) <=> Cardinality(At(x)) % 2 = 1)
  BY DEF Parity
<1>3. \A i \in DOMAIN q : q[i] \in Char
  BY <1>1
<1>4. Text(n) \in Parity(t) /\ Text(n) \in Char
  BY Telegrams
<1> HIDE DEF q
<1>5. PICK i \in DOMAIN q : q[i] = Text(n)
  <2>1. At(Text(n)) # {}
    <3> SUFFICES ASSUME At(Text(n)) = {} PROVE FALSE
      OBVIOUS
    <3>1. Cardinality(At(Text(n))) = 0
      BY FS_EmptySet
    <3> QED  BY <1>2, <1>4, <3>1
  <2> QED  BY <2>1
<1>6. ASSUME NEW j \in DOMAIN q PROVE j = i
  <2>1. At(q[j]) = {j}
    BY <1>1 DEF Distinct
  <2>2. Cardinality(At(q[j])) = 1
    BY <2>1, FS_Singleton
  <2>3. q[j] \in Parity(t)
    BY <1>2, <1>3, <2>2
  <2>4. q[j] = q[i]
    BY <1>5, <2>3
  <2> QED  BY <1>1, <2>4 DEF Distinct
<1>7. Len(q) = 1 /\ i = 1
  <2>1. 1 \in DOMAIN q /\ Len(q) \in DOMAIN q
    BY <1>1
  <2> QED  BY <1>6, <2>1
<1>8. Contents(t) = q[1][2]
  BY <1>7 DEF Contents, q
<1> QED  BY <1>5, <1>7, <1>8, Telegrams

\* Whatever was heard, the callback gets the number of a telegram or 0.
LEMMA ContentsType ==
    ASSUME NEW t \in Stations, heard[t] \in Seq(Char),
           NEW n \in 1 .. MaxTelegrams, Parity(t) = {Text(n)}
    PROVE  Contents(t) \in 0 .. MaxTelegrams
<1>1. MaxTelegrams \in Nat
  BY Rl3964RAssumption
<1>2. CASE Len(heard[t]) # 1
  BY <1>1, <1>2 DEF Contents
<1>3. CASE Len(heard[t]) = 1
  <2> DEFINE x == heard[t][1]
  <2>1. DOMAIN heard[t] = {1} /\ x \in Char
    BY <1>3
  <2>2. {i \in DOMAIN heard[t] : heard[t][i] = x} = {1}
    BY <2>1
  <2>3. Cardinality({1}) = 1
    BY FS_Singleton
  <2>4. Cardinality({i \in DOMAIN heard[t] : heard[t][i] = x}) % 2 = 1
    <3>1. Cardinality({i \in DOMAIN heard[t] : heard[t][i] = x}) = 1
      BY <2>2, <2>3
    <3> QED  BY <3>1
  <2>5. x \in Parity(t)
    BY <2>1, <2>4 DEF Parity
  <2>6. x[2] = n
    BY <2>5, Telegrams
  <2> QED  BY <1>1, <1>3, <2>6 DEF Contents
<1> QED  BY <1>2, <1>3

\* In a Benign past no zero is on its way to receive().
LEMMA NoZero ==
    ASSUME PInv, NEW t \in Stations, NEW o \in Stations, o = Other(t), t = Other(o), o # t
    PROVE  ~HearZero(t)
<1> SUFFICES ASSUME HearZero(t) PROVE FALSE
  OBVIOUS
<1>1. /\ pc[t] = "receive" /\ line[t] # <<>> /\ line[t] \in Seq(Char) /\ Head(line[t]) = Zero
      /\ Protocol(o)
  BY DEF HearZero, Arrived, PInv, TypeOK
<1>2. Zero \in On(line[t])
  BY <1>1, Popped
<1>3. Zero \notin Idle \cup {DLE} /\ Zero \notin Signs(o)
  BY Characters DEF Idle, Signs
<1>4. On(line[t]) \subseteq Idle \cup {DLE} \/ On(line[t]) \subseteq Signs(o)
  BY <1>1 DEF Protocol, Quiet, Sending, Listening, Before
<1> QED  BY <1>2, <1>3, <1>4

\* What t knows when the checksum comes.
LEMMA Checksum ==
    ASSUME PInv, NEW t \in Stations, NEW o \in Stations, o = Other(t), t = Other(o), o # t,
           pc[t] = "bcc", Arrived(t)
    PROVE  /\ Tail(line[t]) = <<>> /\ line[t] # <<>> /\ Head(line[t]) \in On(line[t])
           /\ Listening(t) /\ ~Listening(o) /\ wants[o] /\ ~Asking(t) /\ ~Going(o)
           /\ c[t] = <<>> /\ c[t] # STX /\ c[t] # DLE /\ c[o] # STX
           /\ STX \notin On(line[o])
           /\ pc[o] = "ack" => line[o] = <<>>
<1> USE DEF PInv
<1>1. /\ line[t] # <<>> /\ line[t] \in Seq(Char)
      /\ Protocol(t) /\ Protocol(o)
  BY DEF Arrived, TypeOK
<1>2. Tail(line[t]) \in Seq(Char) /\ Len(Tail(line[t])) = Len(line[t]) - 1 /\ Len(line[t]) \in Nat
      /\ Head(line[t]) \in On(line[t])
  BY <1>1, Popped
<1>3. Len(line[t]) <= 1
  BY <1>1 DEF Protocol, Order
<1>4. Len(Tail(line[t])) = 0
  <2>1. Len(Tail(line[t])) \in Nat
    BY <1>2
  <2>2. \A m, n \in Nat : m = n - 1 /\ n <= 1 => m = 0
    OBVIOUS
  <2> QED  BY <1>2, <1>3, <2>1, <2>2, Zenon
<1>5. Tail(line[t]) = <<>>
  BY <1>2, <1>4, EmptySeq
<1>6. Listening(t) /\ ~Listening(o) /\ wants[o] /\ c[t] = <<>>
  BY <1>1 DEF Listening, Protocol, Requests, Local
<1>7. ~Asking(t)
  BY <1>1, <1>6 DEF Protocol, Requests, Stations
<1>8. ~Going(o)
  BY <1>1 DEF Protocol, Permitted
<1>9. pc[o] = "ack" => line[o] = <<>>
  BY <1>1, <1>6 DEF Protocol, Sending
<1> QED  BY <1>1, <1>2, <1>5, <1>6, <1>7, <1>8, <1>9, Characters DEF Asking

\* The checksum agrees: the partner's telegram is delivered.
LEMMA BccStep ==
    ASSUME PInv, NEW t \in Stations, NEW o \in Stations, o = Other(t), t = Other(o), o # t,
           HearBcc(t)
    PROVE  /\ Protocol(t)' /\ Protocol(o)'
           /\ Contents(t) = written[o] /\ Last(o) < written[o] /\ waiting[o]
           /\ delivered[o] \in Seq(0 .. MaxTelegrams)
           /\ written[o] \in 1 .. MaxTelegrams
           /\ delivered' = [delivered EXCEPT ![o] = Append(@, written[o])]
<1> USE DEF PInv
<1>1. /\ pc[t] = "bcc" /\ Arrived(t) /\ line[o] \in Seq(Char)
      /\ line'[t] = Tail(line[t]) /\ line'[o] = Push(line[o], DLE)
      /\ delivered' = [delivered EXCEPT ![o] = Append(@, Contents(t))]
      /\ delivered \in [Stations -> Seq(0 .. MaxTelegrams)]
      /\ heard'[t] = <<>> /\ heard'[o] = heard[o] /\ heard[t] \in Seq(Char)
      /\ pc'[t] = "select" /\ pc'[o] = pc[o]
      /\ written[o] \in 0 .. MaxTelegrams
      /\ UNCHANGED <<c, wants, waiting, written, sem, result, noise>>
  BY DEF HearBcc, Goto, ReadAnd, app, TypeOK, Push
<1>2. Protocol(t) /\ Protocol(o)
  OBVIOUS
<1>3. /\ line'[t] = <<>> /\ Head(line[t]) \in On(line[t])
      /\ Listening(t) /\ ~Listening(o) /\ wants[o] /\ ~Asking(t) /\ ~Going(o)
      /\ c[t] = <<>> /\ c[t] # STX /\ c[t] # DLE /\ c[o] # STX
      /\ pc[o] = "ack" => line[o] = <<>>
  BY <1>1, Checksum
<1>4. PICK n \in 1 .. MaxTelegrams : Head(line[t]) = Bcc(n) /\ Parity(t) = {Text(n)}
  BY DEF HearBcc
<1>5. Bcc(n) \notin Idle \cup {DLE, ETX}
  BY Telegrams
<1>6. pc[o] = "ack"
  BY <1>2, <1>3, <1>4, <1>5 DEF Protocol, Quiet
<1>7. line[o] = <<>> /\ Last(o) < written[o] /\ Before(t) \subseteq Signs(o) /\ Distinct(heard[t])
  BY <1>2, <1>3, <1>6 DEF Protocol, Sending, Apart
<1>8. written[o] = n
  <2>1. Bcc(n) \in Signs(o)
    BY <1>3, <1>4, <1>7 DEF Before
  <2>2. Bcc(n) # Text(written[o]) /\ (Bcc(n) = Bcc(written[o]) => n = written[o])
    BY Telegrams
  <2> QED  BY <1>5, <2>1, <2>2 DEF Signs
<1>9. Contents(t) = written[o]
  BY <1>1, <1>4, <1>7, <1>8, Checked
<1>10. waiting[o] /\ sem[o] = 0
  BY <1>2, <1>3 DEF Protocol, Local
<1>11. delivered[o] \in Seq(0 .. MaxTelegrams) /\ written[o] \in 1 .. MaxTelegrams
  BY <1>1, <1>8
<1>12. delivered' = [delivered EXCEPT ![o] = Append(@, written[o])]
  BY <1>1, <1>9
<1>13. Last(t)' = Last(t) /\ Last(o)' = written[o]
  <2>1. delivered'[o] = Append(delivered[o], written[o]) /\ delivered'[t] = delivered[t]
    BY <1>1, <1>12
  <2>2. delivered'[o] # <<>> /\ Len(delivered'[o]) = Len(delivered[o]) + 1
        /\ delivered'[o][Len(delivered[o]) + 1] = written[o]
    <3>1. written[o] \in 0 .. MaxTelegrams
      BY <1>1
    <3> QED  BY <1>11, <2>1, <3>1, AppendProperties
  <2> QED  BY <2>1, <2>2 DEF Last
<1>14. /\ On(line'[o]) = {DLE} /\ AfterStx(line'[o]) /\ OneStx(line'[o]) /\ Plain(line'[o])
       /\ On(line'[t]) = {} /\ AfterStx(line'[t]) /\ OneStx(line'[t])
       /\ DLE # STX /\ DLE # NAK /\ On(heard'[t]) = {}
  <2>1. On(<<>>) = {} /\ AfterStx(<<>>) /\ OneStx(<<>>) /\ Plain(<<>>)
    BY Empty
  <2>2. DLE \in Char /\ DLE # STX /\ DLE # NAK
    BY Characters
  <2>3. On(line'[o]) = {DLE} /\ AfterStx(line'[o]) /\ OneStx(line'[o]) /\ Plain(line'[o])
    BY <1>1, <1>7, <2>1, <2>2, Pushed
  <2> QED  BY <1>1, <1>3, <2>1, <2>2, <2>3
<1>15. Local(t)' /\ Local(o)'
  <2>1. Fresh(t)'
    BY <1>1, <1>14 DEF Fresh
  <2>2. Fresh(o)'
    BY <1>1, <1>2, <1>14, Clean DEF Protocol, Local, Fresh
  <2>3. Local(t)'
    BY <1>1, <1>2, <1>3, <1>13, <2>1 DEF Protocol, Local
  <2>4. Local(o)'
    BY <1>1, <1>2, <1>6, <1>10, <1>11, <1>13, <2>2 DEF Protocol, Local
  <2> QED  BY <2>3, <2>4
<1>16. Sending(t)' /\ Sending(o)'
  BY <1>1, <1>3, <1>13, <1>14 DEF Sending, Listening
<1>17. Permitted(t)' /\ Permitted(o)'
  BY <1>1, <1>3, <1>6, <1>14 DEF Permitted, Going
<1>18. Quiet(t)' /\ Quiet(o)'
  BY <1>1, <1>3, <1>6, <1>14 DEF Quiet, Listening
<1>19. ~Asking(t)' /\ ~Asking(o)'
  BY <1>1, <1>3, <1>14 DEF Asking
<1>20. Requests(t)' /\ Requests(o)'
  BY <1>1, <1>3, <1>14, <1>19 DEF Requests, Listening
<1>21. Order(t)' /\ Order(o)'
  <2>1. Order(t)'
    BY <1>1, <1>3, <1>14, <1>19 DEF Order, One
  <2>2. Order(o)'
    BY <1>1, <1>3, <1>6, <1>14, <1>19 DEF Order, One
  <2> QED  BY <2>1, <2>2
<1> QED  BY <1>7, <1>9, <1>10, <1>11, <1>12, <1>15, <1>16, <1>17, <1>18, <1>20, <1>21 DEF Protocol

\* It does not.
LEMMA BadBccStep ==
    ASSUME PInv, NEW t \in Stations, NEW o \in Stations, o = Other(t), t = Other(o), o # t,
           HearBadBcc(t)
    PROVE  Protocol(t)' /\ Protocol(o)'
<1> USE DEF PInv
<1>1. /\ pc[t] = "bcc" /\ Arrived(t) /\ line[o] \in Seq(Char)
      /\ line'[t] = Tail(line[t]) /\ line'[o] = Push(line[o], NAK)
      /\ heard'[t] = <<>> /\ heard'[o] = heard[o]
      /\ pc'[t] = "select" /\ pc'[o] = pc[o]
      /\ UNCHANGED <<c, wants, waiting, written, sem, result, delivered, noise>>
  BY DEF HearBadBcc, Goto, ReadAnd, app, TypeOK, Push
<1>2. Protocol(t) /\ Protocol(o)
  OBVIOUS
<1>3. /\ line'[t] = <<>>
      /\ Listening(t) /\ ~Listening(o) /\ wants[o] /\ ~Asking(t) /\ ~Going(o)
      /\ c[t] = <<>> /\ c[t] # STX /\ c[t] # DLE /\ c[o] # STX /\ STX \notin On(line[o])
      /\ pc[o] = "ack" => line[o] = <<>>
  BY <1>1, Checksum
<1>4. NAK \in Char /\ NAK # STX /\ NAK # DLE /\ NAK \in Idle
  BY Characters DEF Idle
<1>5. /\ On(line'[o]) = On(line[o]) \cup {NAK}
      /\ AfterStx(line[o]) => AfterStx(line'[o])
      /\ OneStx(line[o]) => OneStx(line'[o])
      /\ line[o] = <<>> => Plain(line'[o])
  <2>1. Plain(<<>>)
    BY Empty
  <2> QED  BY <1>1, <1>3, <1>4, <2>1, Pushed
<1>6. /\ On(line'[t]) = {} /\ AfterStx(line'[t]) /\ OneStx(line'[t])
      /\ On(heard'[t]) = {} /\ (line[o] = <<>> => On(line[o]) = {})
  BY <1>1, <1>3, Empty
<1>7. Local(t)' /\ Local(o)'
  <2>1. Fresh(t)'
    BY <1>1, <1>6 DEF Fresh
  <2>2. Fresh(o)'
    BY <1>1, <1>2, <1>5, Clean DEF Protocol, Local, Fresh
  <2>3. Last(t)' = Last(t) /\ Last(o)' = Last(o)
    BY <1>1 DEF Last
  <2>4. Local(t)'
    BY <1>1, <1>2, <1>3, <2>1, <2>3 DEF Protocol, Local
  <2>5. Local(o)'
    BY <1>1, <1>2, <2>2, <2>3 DEF Protocol, Local
  <2> QED  BY <2>4, <2>5
<1>8. Sending(t)' /\ Sending(o)'
  BY <1>1, <1>3, <1>4, <1>5, <1>6 DEF Sending, Listening
<1>9. Permitted(t)' /\ Permitted(o)'
  <2>1. ~Going(t)' /\ ~Going(o)'
    BY <1>1, <1>3, <1>4, <1>5, <1>6 DEF Going
  <2> QED  BY <2>1 DEF Permitted
<1>10. Quiet(t)' /\ Quiet(o)'
  BY <1>1, <1>2, <1>3, <1>4, <1>5, <1>6 DEF Protocol, Quiet, Listening
<1>11. ~Asking(t)' /\ ~Asking(o)'
  BY <1>1, <1>3, <1>4, <1>5, <1>6 DEF Asking
<1>12. Requests(t)' /\ Requests(o)'
  BY <1>1, <1>3, <1>6, <1>11 DEF Requests, Listening
<1>13. Order(t)' /\ Order(o)'
  <2>1. pc[o] # "bcc" /\ AfterStx(line[o]) /\ (One(o) => One(o)') /\ (Asking(o)' => Asking(o))
    BY <1>1, <1>2, <1>3, <1>4, <1>5, <1>11 DEF Protocol, Order, One, Listening
  <2>2. Order(t)'
    BY <1>1, <1>3, <1>6, <1>11 DEF Order, One
  <2>3. Order(o)'
    BY <1>1, <1>2, <1>3, <1>5, <1>11, <2>1 DEF Protocol, Order
  <2> QED  BY <2>2, <2>3
<1> QED  BY <1>7, <1>8, <1>9, <1>10, <1>12, <1>13 DEF Protocol

----------------------------------------------------------------------------
(* Types *)

LEMMA LineType ==
    ASSUME TypeOK, NEW t \in Stations, NEW chars \in Seq(Char),
           Transmit(t, chars) \/ (Arrived(t) /\ ReadAnd(t, chars))
    PROVE  line' \in [Stations -> Seq(Char)]
<1>1. line \in [Stations -> Seq(Char)] /\ Other(t) \in Stations /\ Other(t) # t
  BY Pair DEF TypeOK
<1>2. line[t] \in Seq(Char) /\ line[Other(t)] \in Seq(Char)
  BY <1>1
<1>3. line[Other(t)] \o chars \in Seq(Char)
  BY <1>2
<1>4. line[t] # <<>> => Tail(line[t]) \in Seq(Char)
  BY <1>2
<1>5. CASE Transmit(t, chars)
  BY <1>1, <1>3, <1>5 DEF Transmit
<1>6. CASE Arrived(t) /\ ReadAnd(t, chars)
  BY <1>1, <1>3, <1>4, <1>6 DEF Arrived, ReadAnd
<1> QED  BY <1>5, <1>6

Always == TypeOK /\ \A p \in Stations : Tokens(p)

LEMMA TypeStep ==
    ASSUME Always, NEW t \in Stations,
           Receiver(t) \/ Write(t) \/ WriteReturns(t) \/ Lose(t) \/ Spoil(t)
    PROVE  TypeOK'
<1> USE DEF Always
<1> DEFINE o == Other(t)
<1>1. o \in Stations /\ o # t /\ Other(o) = t
  BY Pair
<1>2. Tokens(t)
  OBVIOUS
<1>3. {STX, DLE, ETX, NAK, Zero} \cup Noises \subseteq Char
  BY Characters
<1>4. <<>> \in Seq(Char) /\ <<STX>> \in Seq(Char) /\ <<DLE>> \in Seq(Char) /\ <<NAK>> \in Seq(Char)
      /\ <<NAK, STX>> \in Seq(Char)
  BY <1>3
<1>5. line[t] \in Seq(Char) /\ heard[t] \in Seq(Char)
  BY DEF TypeOK
<1>6. line[t] # <<>> => /\ Head(line[t]) \in Char /\ Tail(line[t]) \in Seq(Char)
                        /\ Append(heard[t], Head(line[t])) \in Seq(Char)
  BY <1>5
<1>7. noise \in Nat /\ sem[t] \in 0 .. 1 /\ written[t] \in 0 .. MaxTelegrams
      /\ MaxTelegrams \in Nat /\ MaxNoise \in Nat
  BY Rl3964RAssumption DEF TypeOK
<1>0. upsets' \in 0 .. MaxUpsets
  <2>1. upsets' = upsets \/ (upsets < MaxUpsets /\ upsets' = upsets + 1)
    BY DEF Receiver, Take, AnswerStx, Insist, Send, SendZero, Ignore, Ack, AckTimeout, Hear,
      HearDle, HearEscaped, HearZero, HearBcc, HearBadBcc, ReceiveTimeout, Write, WriteReturns,
      Lose, Spoil, SecondEnds, Upset
  <2> QED  BY <2>1, Rl3964RAssumption DEF TypeOK
<1>01. written[t] # 0 => Text(written[t]) \in Char /\ Bcc(written[t]) \in Char
  <2>1. written[t] # 0 => written[t] \in 1 .. MaxTelegrams
    BY <1>7
  <2> QED  BY <2>1, Telegrams
<1>8. CASE Take(t)
  BY <1>6, <1>8 DEF Take, Arrived, Goto, TypeOK, app
<1>9. CASE AnswerStx(t)
  <2>1. line' \in [Stations -> Seq(Char)]
    BY <1>4, <1>9, LineType DEF AnswerStx
  <2> QED  BY <1>4, <1>9, <2>1 DEF AnswerStx, Goto, TypeOK, app
<1>10. CASE Insist(t)
  <2>1. line' \in [Stations -> Seq(Char)]
    BY <1>4, <1>10, LineType DEF Insist
  <2> QED  BY <1>10, <2>1 DEF Insist, Goto, TypeOK, app
<1>11. CASE Send(t)
  <2>4. Text(written[t]) \in Char /\ Bcc(written[t]) \in Char
    BY <1>2, <1>01, <1>11 DEF Send, Tokens
  <2>5. <<Text(written[t]), DLE, ETX, Bcc(written[t])>> \in Seq(Char)
    BY <1>3, <2>4
  <2>6. line' \in [Stations -> Seq(Char)]
    BY <1>11, <2>5, LineType DEF Send
  <2> QED  BY <1>11, <2>6 DEF Send, Goto, TypeOK, app
<1>22. CASE SendZero(t)
  <2>1. Text(written[t]) \in Char /\ Bcc(written[t]) \in Char
    BY <1>2, <1>01, <1>22 DEF SendZero, Tokens
  <2>2. PICK text \in {<<Zero, Text(written[t])>>, <<Text(written[t]), Zero>>},
             bcc \in {Bcc(written[t]), STX} : Transmit(t, text \o <<DLE, ETX, bcc>>)
    BY <1>22 DEF SendZero
  <2>3. text \in Seq(Char) /\ <<DLE, ETX, bcc>> \in Seq(Char)
    <3>1. <<Zero, Text(written[t])>> \in Seq(Char) /\ <<Text(written[t]), Zero>> \in Seq(Char)
      BY <1>3, <2>1
    <3>2. bcc \in Char
      BY <1>3, <2>1
    <3>3. DLE \in Char /\ ETX \in Char
      BY <1>3
    <3>4. <<DLE, ETX, bcc>> \in Seq(Char)
      BY <3>2, <3>3
    <3> QED  BY <3>1, <3>4
  <2>4. text \o <<DLE, ETX, bcc>> \in Seq(Char)
    BY <2>3
  <2>5. line' \in [Stations -> Seq(Char)]
    BY <2>2, <2>4, LineType
  <2> QED  BY <1>0, <1>22, <2>5 DEF SendZero, Goto, TypeOK, app
<1>12. CASE Ignore(t)
  BY <1>12 DEF Ignore, Goto, TypeOK, app
<1>13. CASE Ack(t) \/ AckTimeout(t)
  <2>1. sem[t] = 0
    BY <1>2, <1>13 DEF Ack, AckTimeout, Tokens
  <2>2. sem' \in [Stations -> 0 .. 1]
    <3>1. sem' = [sem EXCEPT ![t] = sem[t] + 1]
      BY <1>13 DEF Ack, AckTimeout, Finish
    <3>2. sem[t] + 1 \in 0 .. 1
      BY <2>1
    <3>3. sem \in [Stations -> 0 .. 1]
      BY DEF TypeOK
    <3> QED  BY <3>1, <3>2, <3>3
  <2>3. line' \in [Stations -> Seq(Char)]
    <3>1. CASE Ack(t)
      BY <1>4, <3>1, LineType DEF Ack
    <3>2. CASE AckTimeout(t)
      BY <3>2 DEF AckTimeout, TypeOK
    <3> QED  BY <1>13, <3>1, <3>2
  <2>4. /\ pc' \in [Stations -> {"select", "locked", "receive", "escape", "bcc", "ack"}]
        /\ wants' \in [Stations -> BOOLEAN]
    BY <1>13 DEF Ack, AckTimeout, Finish, Goto, TypeOK
  <2>5. result' \in [Stations -> BOOLEAN]
    <3>1. CASE Ack(t)
      <4>1. result' = [result EXCEPT ![t] = (Head(line[t]) = DLE)]
        BY <3>1 DEF Ack, Finish
      <4>2. (Head(line[t]) = DLE) \in BOOLEAN
        OBVIOUS
      <4> DEFINE b == (Head(line[t]) = DLE)
      <4> HIDE DEF b
      <4>3. b \in BOOLEAN /\ result' = [result EXCEPT ![t] = b]
        BY <4>1, <4>2 DEF b
      <4> QED  BY <4>3 DEF TypeOK
    <3>2. CASE AckTimeout(t)
      BY <3>2 DEF AckTimeout, Finish, TypeOK
    <3> QED  BY <1>13, <3>1, <3>2
  <2> QED  BY <1>0, <1>13, <2>2, <2>3, <2>4, <2>5 DEF Ack, AckTimeout, TypeOK
<1>14. CASE Hear(t) \/ HearDle(t) \/ HearEscaped(t)
  <2>1. line' \in [Stations -> Seq(Char)]
    BY <1>4, <1>14, LineType DEF Hear, HearDle, HearEscaped
  <2>2. heard' \in [Stations -> Seq(Char)]
    BY <1>6, <1>14 DEF Hear, HearDle, HearEscaped, Arrived, TypeOK
  <2>3. pc' \in [Stations -> {"select", "locked", "receive", "escape", "bcc", "ack"}]
    BY <1>14 DEF Hear, HearDle, HearEscaped, Goto, TypeOK
  <2> QED  BY <1>14, <2>1, <2>2, <2>3 DEF Hear, HearDle, HearEscaped, TypeOK, app
<1>15. CASE HearBcc(t)
  <2>1. line' \in [Stations -> Seq(Char)]
    BY <1>4, <1>15, LineType DEF HearBcc
  <2>2. Contents(t) \in 0 .. MaxTelegrams
    BY <1>5, <1>15, ContentsType DEF HearBcc
  <2>3. delivered' = [delivered EXCEPT ![o] = Append(@, Contents(t))]
    BY <1>15 DEF HearBcc
  <2>4. Append(delivered[o], Contents(t)) \in Seq(0 .. MaxTelegrams)
    BY <1>1, <2>2 DEF TypeOK
  <2>5. delivered' \in [Stations -> Seq(0 .. MaxTelegrams)]
    BY <1>1, <2>3, <2>4 DEF TypeOK
  <2> QED  BY <1>4, <1>15, <2>1, <2>5 DEF HearBcc, Goto, TypeOK, app
<1>23. CASE HearZero(t)
  <2>1. line' \in [Stations -> Seq(Char)]
    <3>1. Arrived(t) /\ (ReadAnd(t, <<DLE>>) \/ ReadAnd(t, <<NAK>>))
      BY <1>23 DEF HearZero
    <3> QED  BY <1>4, <3>1, LineType
  <2>2. 0 \in 0 .. MaxTelegrams
    BY <1>7
  <2>3. Append(delivered[o], 0) \in Seq(0 .. MaxTelegrams)
    BY <1>1, <2>2 DEF TypeOK
  <2>4. delivered' \in [Stations -> Seq(0 .. MaxTelegrams)]
    <3>1. delivered' = [delivered EXCEPT ![o] = Append(delivered[o], 0)] \/ delivered' = delivered
      BY <1>23 DEF HearZero
    <3>2. delivered \in [Stations -> Seq(0 .. MaxTelegrams)]
      BY DEF TypeOK
    <3> QED  BY <1>1, <2>3, <3>1, <3>2
  <2>5. pc' \in [Stations -> {"select", "locked", "receive", "escape", "bcc", "ack"}]
    BY <1>23 DEF HearZero, Goto, TypeOK
  <2>6. heard' \in [Stations -> Seq(Char)]
    BY <1>4, <1>23 DEF HearZero, TypeOK
  <2> QED  BY <1>23, <2>1, <2>4, <2>5, <2>6 DEF HearZero, TypeOK, app
<1>16. CASE HearBadBcc(t)
  <2>1. line' \in [Stations -> Seq(Char)]
    BY <1>4, <1>16, LineType DEF HearBadBcc
  <2> QED  BY <1>4, <1>16, <2>1 DEF HearBadBcc, Goto, TypeOK, app
<1>17. CASE ReceiveTimeout(t)
  BY <1>0, <1>4, <1>17 DEF ReceiveTimeout, Goto, TypeOK, app
<1>18. CASE Write(t)
  <2>1. line' \in [Stations -> Seq(Char)]
    BY <1>4, <1>18, LineType DEF Write
  <2>2. written' \in [Stations -> 0 .. MaxTelegrams]
    BY <1>7, <1>18 DEF Write, TypeOK
  <2> QED  BY <1>18, <2>1, <2>2 DEF Write, TypeOK
<1>19. CASE WriteReturns(t)
  <2>1. sem' \in [Stations -> 0 .. 1]
    BY <1>7, <1>19 DEF WriteReturns, TypeOK
  <2>2. waiting' \in [Stations -> BOOLEAN] /\ returned' \in [Stations -> BOOLEAN]
    BY <1>19 DEF WriteReturns, TypeOK
  <2> QED  BY <1>19, <2>1, <2>2 DEF WriteReturns, TypeOK
<1>20. CASE Lose(t)
  <2>1. noise' \in 0 .. MaxNoise
    BY <1>7, <1>20 DEF Lose
  <2> QED  BY <1>6, <1>20, <2>1 DEF Lose, Arrived, TypeOK, app
<1>21. CASE Spoil(t)
  <2>1. noise' \in 1 .. MaxNoise
    BY <1>7, <1>21 DEF Spoil
  <2>2. Spoilt(noise') \in Char
    BY <1>3, <2>1, Clean
  <2>3. <<Spoilt(noise')>> \o Tail(line[t]) \in Seq(Char)
    BY <1>6, <1>21, <2>2 DEF Spoil, Arrived
  <2>4. line' \in [Stations -> Seq(Char)]
    BY <1>21, <2>3 DEF Spoil, TypeOK
  <2> QED  BY <1>21, <2>1, <2>4 DEF Spoil, TypeOK, app
<1> QED
  BY <1>8, <1>9, <1>10, <1>11, <1>12, <1>13, <1>14, <1>15, <1>16, <1>17, <1>18, <1>19, <1>20, <1>21,
     <1>22, <1>23
  DEF Receiver

\* The token of a write() does not depend on what the line does.
LEMMA TokenStep ==
    ASSUME Always, NEW t \in Stations,
           Receiver(t) \/ Write(t) \/ WriteReturns(t) \/ Lose(t) \/ Spoil(t)
    PROVE  \A p \in Stations : Tokens(p)'
<1> SUFFICES ASSUME NEW p \in Stations PROVE Tokens(p)'
  OBVIOUS
<1>1. Tokens(p) /\ Tokens(t)
  BY DEF Always
<1>2. /\ wants \in [Stations -> BOOLEAN] /\ waiting \in [Stations -> BOOLEAN]
      /\ sem \in [Stations -> 0 .. 1] /\ written \in [Stations -> Nat]
      /\ pc \in [Stations -> {"select", "locked", "receive", "escape", "bcc", "ack"}]
  BY Rl3964RAssumption DEF Always, TypeOK
<1>3. CASE Ack(t) \/ AckTimeout(t)
  <2>1. /\ wants' = [wants EXCEPT ![t] = FALSE] /\ sem' = [sem EXCEPT ![t] = @ + 1]
        /\ pc' = [pc EXCEPT ![t] = "select"] /\ pc[t] = "ack"
        /\ UNCHANGED <<waiting, written>>
    BY <1>3 DEF Ack, AckTimeout, Finish, Goto
  <2> QED  BY <1>1, <1>2, <2>1 DEF Tokens
<1>4. CASE Write(t)
  <2>1. /\ wants' = [wants EXCEPT ![t] = TRUE] /\ waiting' = [waiting EXCEPT ![t] = TRUE]
        /\ written' = [written EXCEPT ![t] = @ + 1] /\ ~waiting[t]
        /\ pc[t] # "ack" /\ UNCHANGED <<pc, sem>>
    BY <1>2, <1>4 DEF Write, Locked
  <2>2. \A n \in Nat : n + 1 # 0
    OBVIOUS
  <2> QED  BY <1>1, <1>2, <2>1, <2>2 DEF Tokens
<1>5. CASE WriteReturns(t)
  <2>1. /\ waiting' = [waiting EXCEPT ![t] = FALSE] /\ sem' = [sem EXCEPT ![t] = @ - 1]
        /\ waiting[t] /\ sem[t] > 0 /\ UNCHANGED <<pc, wants, written>>
    BY <1>5 DEF WriteReturns
  <2> QED  BY <1>1, <1>2, <2>1 DEF Tokens
<1>6. CASE Send(t) \/ SendZero(t)
  <2>1. /\ pc' = [pc EXCEPT ![t] = "ack"] /\ wants[t]
        /\ UNCHANGED <<wants, waiting, sem, written>>
    BY <1>6 DEF Send, SendZero, Goto, app
  <2> QED  BY <1>1, <1>2, <2>1 DEF Tokens
<1>7. CASE /\ pc' = pc \/ \E l \in {"select", "locked", "receive", "escape", "bcc"} : Goto(t, l)
           /\ UNCHANGED <<wants, waiting, sem, written>>
  BY <1>1, <1>2, <1>7 DEF Tokens, Goto
<1>8. ASSUME ~(Ack(t) \/ AckTimeout(t)), ~Write(t), ~WriteReturns(t), ~(Send(t) \/ SendZero(t))
      PROVE  /\ pc' = pc \/ \E l \in {"select", "locked", "receive", "escape", "bcc"} : Goto(t, l)
             /\ UNCHANGED <<wants, waiting, sem, written>>
  BY <1>8
  DEF Receiver, Take, AnswerStx, Insist, Ignore, Hear, HearDle, HearEscaped, HearZero, HearBcc,
      HearBadBcc, ReceiveTimeout, Lose, Spoil, app
<1> QED  BY <1>3, <1>4, <1>5, <1>6, <1>7, <1>8

----------------------------------------------------------------------------
(* Every behaviour *)

LEMMA ProtocolStep ==
    ASSUME PInv, NEW t \in Stations, Benign',
           Receiver(t) \/ Write(t) \/ WriteReturns(t) \/ Lose(t) \/ Spoil(t)
    PROVE  \A p \in Stations : Protocol(p)'
<1> DEFINE o == Other(t)
<1>1. o \in Stations /\ o # t /\ t = Other(o) /\ Stations = {t, o}
  BY Pair
<1> HIDE DEF o
<1>2. o = Other(t)
  BY DEF o
<1>4. ~SendZero(t)
  <2>1. upsets \in Nat /\ upsets' = 0
    BY Rl3964RAssumption DEF PInv, TypeOK, Benign
  <2>2. upsets' # upsets + 1
    BY <2>1
  <2> QED  BY <2>2 DEF SendZero, Upset
<1>3. Protocol(t)' /\ Protocol(o)'
  BY <1>1, <1>2, <1>4, NoZero, TakeStep, AnswerStep, InsistStep, SendStep, IgnoreStep, AckStep, TimeoutStep,
     HearStep, BccStep, BadBccStep, WriteStep, WriteReturnsStep, NoiseStep
  DEF Receiver
<1> QED  BY <1>1, <1>3

Inv == Always /\ (Benign => \A p \in Stations : Protocol(p))

LEMMA InitInv == Init => Inv
<1> SUFFICES ASSUME Init PROVE Inv
  OBVIOUS
<1> USE DEF Init
<1>1. MaxTelegrams \in Nat /\ MaxNoise \in Nat /\ MaxUpsets \in Nat /\ <<>> \in Seq(Char) /\ <<>> \in Seq(0 .. MaxTelegrams)
  BY Rl3964RAssumption
<1>2. TypeOK
  BY <1>1 DEF TypeOK
<1>3. ASSUME NEW p \in Stations PROVE Protocol(p)
  <2>1. Other(p) \in Stations
    BY Pair
  <2>2. /\ On(<<>>) = {} /\ AfterStx(<<>>) /\ OneStx(<<>>) /\ Len(<<>>) <= 1
        /\ <<>> # STX /\ <<>> # DLE
    BY Empty, Characters
  <2>3. Local(p)
    BY <2>2 DEF Local, Last, Fresh
  <2>4. Sending(p) /\ Permitted(p) /\ Quiet(p) /\ Requests(p) /\ Order(p)
    BY <2>1, <2>2
    DEF Sending, Permitted, Quiet, Requests, Order, One, Going, Asking, Listening
  <2> QED  BY <2>3, <2>4 DEF Protocol
<1>4. \A p \in Stations : Tokens(p)
  BY DEF Tokens
<1> QED  BY <1>2, <1>3, <1>4 DEF Inv, Always

LEMMA Unchanged ==
    ASSUME Inv, UNCHANGED vars
    PROVE  Inv'
<1>1. TypeOK' /\ (Benign' <=> Benign)
  BY DEF Inv, Always, TypeOK, Benign, vars, app
<1>3. \A p \in Stations : Tokens(p)'
  BY DEF Inv, Always, Tokens, vars, app
<1>2. ASSUME NEW p \in Stations, Benign PROVE Protocol(p)'
  <2>1. Protocol(p)
    BY <1>2 DEF Inv
  <2> QED
    BY <2>1
    DEF vars, app, Protocol, Local, Sending, Permitted, Quiet, Requests, Order, One, Going,
        Asking, Listening, Before, Apart, Fresh, Signs, Last
<1> QED  BY <1>1, <1>2, <1>3 DEF Inv, Always

\* What was upset stays so.
LEMMA Past ==
    ASSUME TypeOK, [Next]_vars, Benign'
    PROVE  Benign
<1>1. upsets \in Nat
  BY Rl3964RAssumption DEF TypeOK
<1>2. upsets' = upsets \/ upsets' = upsets + 1
  BY DEF Next, vars, Receiver, Take, AnswerStx, Insist, Send, SendZero, Ignore, Ack, AckTimeout,
      Hear, HearDle, HearEscaped, HearZero, HearBcc, HearBadBcc, ReceiveTimeout, Write,
      WriteReturns, Lose, Spoil, SecondEnds, Upset
<1> QED  BY <1>1, <1>2 DEF Benign

LEMMA Inductive == Spec => []Inv
<1>1. Inv /\ [Next]_vars => Inv'
  <2> SUFFICES ASSUME Inv, [Next]_vars PROVE Inv'
    OBVIOUS
  <2>1. CASE UNCHANGED vars
    BY <2>1, Unchanged
  <2>2. CASE Next
    <3>1. PICK t \in Stations :
              Receiver(t) \/ Write(t) \/ WriteReturns(t) \/ Lose(t) \/ Spoil(t)
      BY <2>2 DEF Next
    <3>2. TypeOK' /\ \A p \in Stations : Tokens(p)'
      BY <3>1, TypeStep, TokenStep DEF Inv
    <3>3. ASSUME Benign' PROVE \A p \in Stations : Protocol(p)'
      <4>1. PInv
        BY <3>3, Past DEF Inv, Always, PInv
      <4> QED  BY <3>1, <3>3, <4>1, ProtocolStep
    <3> QED  BY <3>2, <3>3 DEF Inv, Always
  <2> QED  BY <2>1, <2>2
<1> QED  BY <1>1, InitInv, PTL DEF Spec

\* Whatever collides, is lost or spoilt, comes late or is cut at a zero, the semaphore holds at most one
\* token, and the callback gets only numbers of telegrams.
THEOREM TypeCorrect == Spec => []TypeOK
<1>1. Inv => TypeOK
  BY DEF Inv, Always
<1> QED  BY <1>1, Inductive, PTL

----------------------------------------------------------------------------
(* The users see what TelegramSpec promises. *)

LEMMA StepRefines ==
    Inv /\ [Next]_vars => [Benign' => Abstract!Next]_(Abstract!vars)
<1> SUFFICES ASSUME Inv, [Next]_vars, Benign' PROVE [Abstract!Next]_(Abstract!vars)
  OBVIOUS
<1>0. PInv
  BY Past DEF Inv, Always, PInv
<1>1. CASE UNCHANGED vars
  BY <1>1 DEF vars, app, Abstract!vars
<1>2. ASSUME NEW t \in Stations,
             Receiver(t) \/ Write(t) \/ WriteReturns(t) \/ Lose(t) \/ Spoil(t)
      PROVE  [Abstract!Next]_(Abstract!vars)
  <2>1. CASE Write(t)
    <3>1. Abstract!Offer(t)
      BY <2>1 DEF Write, Abstract!Offer
    <3> QED  BY <3>1 DEF Abstract!Next
  <2>2. CASE WriteReturns(t)
    <3>1. sem[t] = 1 /\ result[t] \in BOOLEAN /\ Local(t)
      BY <1>0, <2>2 DEF WriteReturns, PInv, TypeOK, Protocol
    <3>2. result[t] => Abstract!Last(t) = written[t]
      BY <3>1 DEF Local, Last, Abstract!Last
    <3>3. Abstract!Return(t, result[t])
      BY <2>2, <3>2 DEF WriteReturns, Abstract!Return
    <3> QED  BY <3>1, <3>3 DEF Abstract!Next
  <2>3. CASE HearBcc(t)
    <3> DEFINE o == Other(t)
    <3>1. o \in Stations /\ o # t /\ t = Other(o)
      BY Pair
    <3>2. Last(o) < written[o] /\ waiting[o]
          /\ delivered' = [delivered EXCEPT ![o] = Append(@, written[o])]
      BY <1>0, <2>3, <3>1, BccStep
    <3>3. Abstract!Last(o) < written[o]
      BY <3>2 DEF Last, Abstract!Last
    <3>4. Abstract!Deliver(o)
      BY <2>3, <3>2, <3>3 DEF HearBcc, app, Abstract!Deliver
    <3> QED  BY <3>1, <3>4 DEF Abstract!Next
  <2>4. ASSUME ~Write(t), ~WriteReturns(t), ~HearBcc(t)
        PROVE  UNCHANGED Abstract!vars
    <3>1. ~SendZero(t)
      <4>1. upsets \in Nat /\ upsets' = 0
        BY <1>0, Rl3964RAssumption DEF PInv, TypeOK, Benign
      <4>2. upsets' # upsets + 1
        BY <4>1
      <4> QED  BY <4>2 DEF SendZero, Upset
    <3>2. ~HearZero(t)
      BY <1>0, NoZero, Pair
    <3> QED  BY <1>2, <2>4, <3>1, <3>2
      DEF Receiver, Take, AnswerStx, Insist, Send, Ignore, Ack, AckTimeout, Finish, Hear, HearDle,
        HearEscaped, HearBadBcc, ReceiveTimeout, Lose, Spoil, app, Abstract!vars
  <2> QED  BY <2>1, <2>2, <2>3, <2>4
<1> QED  BY <1>1, <1>2 DEF Next

\* As long as no text holds a zero or fills tel_receive and no second ends while
\* characters are on the line, two stations deliver telegrams as TelegramSpec
\* promises, for any number of telegrams, any noise and any collisions:
\* unchanged, in order, at most once, and a write() that reports success has
\* delivered.
THEOREM Refinement == Spec => DeliversTelegrams
<1>1. Init => Abstract!Init
  BY DEF Init, Abstract!Init
<1> QED  BY <1>1, StepRefines, Inductive, PTL DEF Spec, DeliversTelegrams
==============================================================================
