------------------------- MODULE DataProviderProofs -------------------------
(***************************************************************************)
(* What rlDataProvider and its clients promise, for any number of clients, *)
(* threads, values, faults and time-outs.                                  *)
(*                                                                         *)
(* The invariant has two halves.  LineInv says what can be on a connection *)
(* that is up: nothing to be answered when its client waits for nothing,   *)
(* exactly the get it waits for otherwise.  It follows that the answer a   *)
(* client reads is its own.  ValueInv, on top of it, follows every value   *)
(* through lines, hands, the integer and the clients.                      *)
(***************************************************************************)
EXTENDS DataProvider, FiniteSetTheorems, SequenceTheorems, WellFoundedInduction, TLAPS

----------------------------------------------------------------------------
(* The inductive invariant *)

\* No two clients share a connection.
Apart ==
    \A c, d \in Clients : conn[c] = conn[d] /\ conn[c] # 0 => c = d

\* Only a client that has a connection waits for an answer.
AskedOnLine == \A c \in Clients : conn[c] = 0 => asked[c] = None

\* Nothing is on a connection without a thread.
DeadIsEmpty ==
    \A k \in Threads \ alive :
        requests[k] = <<>> /\ answers[k] = <<>> /\ doing[k] = None

\* The next three are about a connection with the lines req on their way to
\* the thread, ans on their way back, and do in the thread's hands.

\* No get is among the lines sent.
NoGets(req) == \A i \in 1 .. Len(req) : req[i] \notin Gets

\* Nobody is to be answered.
Quiet(req, ans, do) == ans = <<>> /\ do \notin Gets /\ NoGets(req)

\* The get g, and no other, is to be answered: the answer is there, or the
\* thread waits with g, or g is the last line sent.
Pending(req, ans, do, g) ==
    \/ /\ Len(ans) = 1 /\ do \notin Gets /\ NoGets(req)
       /\ g = <<"wait">> => ans[1] = Empty
    \/ ans = <<>> /\ do = g /\ NoGets(req)
    \/ /\ ans = <<>> /\ do \notin Gets
       /\ req # <<>> /\ req[Len(req)] = g
       /\ \A i \in 1 .. Len(req) - 1 : req[i] \notin Gets

\* On a connection that is up, client and thread agree, except after a
\* time-out that keeps the connection.
Agreed ==
    \A c \in Clients : conn[c] \in Up /\ c \notin late =>
        IF asked[c] = None
        THEN Quiet(requests[conn[c]], answers[conn[c]], doing[conn[c]])
        ELSE Pending(requests[conn[c]], answers[conn[c]], doing[conn[c]], asked[c])

\* Until a call times out or a connection breaks all connections are up.
CalmIsUp ==
    ~disturbed => shut = {} /\ late = {} /\ \A c \in Clients : conn[c] \in alive \cup {0}

LineInv == TypeOK /\ Apart /\ AskedOnLine /\ DeadIsEmpty /\ Agreed /\ CalmIsUp

\* x is in s; it is there once at most.
Has(s, x) == \E i \in 1 .. Len(s) : s[i] = x
Unique(s, x) == \A i, j \in 1 .. Len(s) : s[i] = x /\ s[j] = x => i = j

\* The value v is somewhere on a connection; it is not there twice.
On(req, ans, do, v) ==
    do = <<"put", v>> \/ Has(req, <<"put", v>>) \/ Has(ans, v)
OnceOn(req, ans, do, v) ==
    /\ Unique(req, <<"put", v>>) /\ Unique(ans, v)
    /\ do = <<"put", v>> => ~Has(req, <<"put", v>>) /\ ~Has(ans, v)
    /\ ~(Has(req, <<"put", v>>) /\ Has(ans, v))

\* The value v is in the integer, has been taken or is on a connection.
Somewhere(v) ==
    \/ slot = v \/ taken[v] # 0
    \/ \E k \in Threads : On(requests[k], answers[k], doing[k], v)

\* And it is in no two places.
Single(v) ==
    /\ taken[v] <= 1 /\ ~(slot = v /\ taken[v] # 0)
    /\ \A k \in Threads : OnceOn(requests[k], answers[k], doing[k], v)
    /\ \A k \in Threads : On(requests[k], answers[k], doing[k], v) =>
         /\ slot # v /\ taken[v] = 0
         /\ \A l \in Threads \ {k} : ~On(requests[l], answers[l], doing[l], v)

\* A value that was not put yet is nowhere, and no client remembers it.
NotYet ==
    /\ \A v \in Values : v > puts => ~Somewhere(v)
    /\ \A c \in Clients : last[c] <= puts

Once == ~stale => \A v \in Values : Single(v)

NotLost == ~disturbed => \A v \in 0 .. puts : Somewhere(v)

IInv == LineInv /\ NotYet /\ Once /\ NotLost

----------------------------------------------------------------------------
(* Constants and connections *)

LEMMA ThreadsAreNumbers ==
    /\ Threads \subseteq Nat \ {0}
    /\ MaxPuts \in Nat /\ MaxWaits \in Nat /\ MaxNews \in Nat /\ MaxFaults \in Nat
    /\ Values \subseteq Nat /\ Empty \notin Values /\ 0 \in Values
    /\ None \notin Request
<1>1. Cardinality(Threads) \in Nat
  BY SemaphoreAssumption, FS_CardinalityType
<1>2. \A k \in Threads : k \in 1 .. Cardinality(Threads)
  BY DataProviderAssumption
<1>3. Threads \subseteq Nat \ {0}
  BY <1>1, <1>2
<1>4. MaxPuts \in Nat /\ MaxWaits \in Nat /\ MaxNews \in Nat /\ MaxFaults \in Nat
  BY DataProviderAssumption
<1>5. Values \subseteq Nat /\ Empty \notin Values /\ 0 \in Values
  BY <1>4 DEF Values, Empty
<1>6. None \notin Request
  BY DEF Request, Gets, None
<1> QED  BY <1>3, <1>4, <1>5, <1>6

\* The connection that is used next is one nobody uses.
LEMMA Fresh ==
    ASSUME Unused # {}
    PROVE  (CHOOSE i \in Unused : \A j \in Unused : i <= j) \in Unused
<1>1. Unused \subseteq Nat
  BY ThreadsAreNumbers DEF Unused
<1>2. \E i \in Unused : \A j \in Unused : i <= j
  <2> DEFINE R == OpToRel(<, Nat)
  <2>1. \E i \in Unused : \A j \in Unused : ~ (<<j, i>> \in R)
    <3>1. IsWellFoundedOn(R, Nat)
      BY NatLessThanWellFounded
    <3> HIDE DEF R
    <3> QED  BY <1>1, <3>1, WFMin
  <2>2. \A i, j \in Nat : j < i => <<j, i>> \in R
    BY DEF OpToRel
  <2>3. \A i, j \in Nat : ~ (j < i) => i <= j
    OBVIOUS
  <2> HIDE DEF R
  <2> QED  BY <1>1, <2>1, <2>2, <2>3
<1> QED  BY <1>2

----------------------------------------------------------------------------
(* What happens on one connection *)

\* Lines sent.
LEMMA SendLine ==
    ASSUME NEW req \in Seq(Request), NEW ans, NEW do, NEW q \in Request,
           Quiet(req, ans, do)
    PROVE  IF q \in Gets THEN Pending(Append(req, q), ans, do, q)
                         ELSE Quiet(Append(req, q), ans, do)
BY AppendProperties DEF Quiet, Pending, NoGets

\* A line received.
LEMMA ReceiveLine ==
    ASSUME NEW req \in Seq(Request), NEW ans, req # <<>>,
           NEW g \in Gets
    PROVE  /\ Quiet(req, ans, None) => Quiet(Tail(req), ans, Head(req))
           /\ Pending(req, ans, None, g) => Pending(Tail(req), ans, Head(req), g)
<1>1. /\ Len(req) \in Nat /\ Len(req) >= 1 /\ Head(req) = req[1]
      /\ Tail(req) \in Seq(Request) /\ Len(Tail(req)) = Len(req) - 1
      /\ \A i \in 1 .. Len(Tail(req)) : Tail(req)[i] = req[i + 1]
  BY HeadTailProperties, LenProperties, EmptySeq
<1>2. None \notin Gets
  BY DEF Gets, None
<1>3. Quiet(req, ans, None) => Quiet(Tail(req), ans, Head(req))
  BY <1>1 DEF Quiet, NoGets
<1>4. Pending(req, ans, None, g) => Pending(Tail(req), ans, Head(req), g)
  <2>1. CASE Len(ans) = 1 /\ NoGets(req) /\ (g = <<"wait">> => ans[1] = Empty)
    BY <1>1, <2>1 DEF Pending, NoGets
  <2>2. CASE /\ ans = <<>> /\ req[Len(req)] = g
             /\ \A i \in 1 .. Len(req) - 1 : req[i] \notin Gets
    <3>1. CASE Len(req) = 1
      <4>1. Head(req) = g /\ NoGets(Tail(req))
        BY <1>1, <2>2, <3>1 DEF NoGets
      <4> QED  BY <2>2, <4>1 DEF Pending
    <3>2. CASE Len(req) > 1
      <4>1. Tail(req)[Len(Tail(req))] = g /\ Tail(req) # <<>>
        <5>1. /\ Len(Tail(req)) \in 1 .. Len(Tail(req))
              /\ Len(Tail(req)) # 0 /\ Len(Tail(req)) + 1 = Len(req)
          BY <1>1, <3>2
        <5>2. Tail(req)[Len(Tail(req))] = req[Len(req)]
          BY <1>1, <5>1
        <5>3. Tail(req) # <<>>
          BY <1>1, <5>1, EmptySeq
        <5> QED  BY <2>2, <5>2, <5>3
      <4>2. \A i \in 1 .. Len(Tail(req)) - 1 : Tail(req)[i] \notin Gets
        BY <1>1, <2>2, <3>2
      <4> QED  BY <1>1, <2>2, <3>2, <4>1, <4>2 DEF Pending
    <3> QED  BY <1>1, <3>1, <3>2
  <2> QED  BY <1>2, <2>1, <2>2 DEF Pending
<1> QED  BY <1>3, <1>4

\* getIntAndReset received and answered.
LEMMA AnswerTake ==
    ASSUME NEW req \in Seq(Request), NEW ans, req # <<>>, Head(req) = <<"take">>,
           NEW v
    PROVE  /\ ~Quiet(req, ans, None)
           /\ \A g \in Gets : Pending(req, ans, None, g)
                => Pending(Tail(req), Append(ans, v), None, g)
<1>1. /\ Len(req) \in Nat /\ Len(req) >= 1 /\ Head(req) = req[1]
      /\ Tail(req) \in Seq(Request) /\ Len(Tail(req)) = Len(req) - 1
  BY HeadTailProperties, LenProperties, EmptySeq
<1>2. None \notin Gets /\ <<"take">> \in Gets /\ <<"take">> # <<"wait">>
  BY DEF Gets, None
<1>3. ~NoGets(req)
  BY <1>1, <1>2 DEF NoGets
<1>4. ASSUME NEW g \in Gets, Pending(req, ans, None, g)
      PROVE  Pending(Tail(req), Append(ans, v), None, g)
  <2>1. /\ ans = <<>> /\ req[Len(req)] = g
        /\ \A i \in 1 .. Len(req) - 1 : req[i] \notin Gets
    BY <1>2, <1>3, <1>4 DEF Pending
  <2>2. Len(req) = 1 /\ g = <<"take">>
    BY <1>1, <1>2, <2>1
  <2>3. Len(Append(ans, v)) = 1
    BY <2>1
  <2>4. NoGets(Tail(req))
    BY <1>1, <2>2 DEF NoGets
  <2> QED  BY <1>2, <2>2, <2>3, <2>4 DEF Pending
<1> QED  BY <1>3, <1>4 DEF Quiet

\* A wait answered.
LEMMA AnswerWait ==
    ASSUME NEW req, NEW ans
    PROVE  /\ ~Quiet(req, ans, <<"wait">>)
           /\ \A g \in Gets : Pending(req, ans, <<"wait">>, g)
                => Pending(req, Append(ans, Empty), None, g)
<1>1. None \notin Gets /\ <<"wait">> \in Gets
  BY DEF Gets, None
<1>2. ASSUME NEW g \in Gets, Pending(req, ans, <<"wait">>, g)
      PROVE  Pending(req, Append(ans, Empty), None, g)
  <2>1. ans = <<>> /\ NoGets(req)
    BY <1>1, <1>2 DEF Pending
  <2>2. Len(Append(ans, Empty)) = 1 /\ Append(ans, Empty)[1] = Empty
    BY <2>1
  <2> QED  BY <1>1, <2>1, <2>2 DEF Pending
<1> QED  BY <1>1, <1>2 DEF Quiet

\* A put done.
LEMMA PutDone ==
    ASSUME NEW req, NEW ans, NEW do, do \notin Gets, NEW g \in Gets
    PROVE  /\ Quiet(req, ans, do) => Quiet(req, ans, None)
           /\ Pending(req, ans, do, g) => Pending(req, ans, None, g)
<1>1. None \notin Gets
  BY DEF Gets, None
<1> QED  BY <1>1 DEF Quiet, Pending

\* An answer read.
LEMMA ReadAnswer ==
    ASSUME NEW req, NEW ans \in Seq(Values \cup {Empty}), NEW do, NEW g \in Gets,
           ans # <<>>, Pending(req, ans, do, g)
    PROVE  /\ Quiet(req, Tail(ans), do)
           /\ g = <<"wait">> => Head(ans) = Empty
<1>1. /\ Len(ans) = 1 /\ do \notin Gets /\ NoGets(req)
      /\ g = <<"wait">> => ans[1] = Empty
  BY DEF Pending
<1>2. Tail(ans) = <<>> /\ Head(ans) = ans[1]
  <2>1. Tail(ans) \in Seq(Values \cup {Empty}) /\ Len(Tail(ans)) = 0 /\ Head(ans) = ans[1]
    BY <1>1, HeadTailProperties
  <2> QED  BY <2>1, EmptySeq
<1> QED  BY <1>1, <1>2 DEF Quiet

----------------------------------------------------------------------------
(* The steps of the clients *)

LEMMA InitLine == Init => LineInv
<1> SUFFICES ASSUME Init PROVE LineInv
  OBVIOUS
<1>1. TypeOK
  BY ThreadsAreNumbers DEF Init, TypeOK, SemInit, SemTypeOK
<1> QED
  BY <1>1
  DEF Init, LineInv, Apart, AskedOnLine, DeadIsEmpty, Agreed, CalmIsUp, Up

LEMMA ConnectLine ==
    ASSUME LineInv, NEW c \in Clients, Connect(c)
    PROVE  LineInv'
<1> USE DEF LineInv
<1>1. PICK k \in Unused :
        /\ conn' = [conn EXCEPT ![c] = k]
        /\ alive' = alive \cup {k}
  BY Fresh DEF Connect
<1>2. /\ conn[c] = 0 /\ late' = late \ {c}
      /\ UNCHANGED <<asked, last, taken, stale, shut, disturbed, requests, answers,
                     doing, slot, counts, semVars>>
  BY DEF Connect
<1>3. k \in Threads /\ k \notin alive /\ k # 0 /\ \A d \in Clients : conn[d] # k
  BY <1>1, ThreadsAreNumbers DEF Unused
<1>4. \A d \in Clients : conn'[d] = IF d = c THEN k ELSE conn[d]
  BY <1>1 DEF TypeOK
<1>5. TypeOK'
  BY <1>1, <1>2, <1>3 DEF TypeOK, SemTypeOK, semVars, counts
<1>6. Apart' /\ AskedOnLine' /\ DeadIsEmpty' /\ CalmIsUp'
  BY <1>1, <1>2, <1>3, <1>4 DEF Apart, AskedOnLine, DeadIsEmpty, CalmIsUp
<1>7. Agreed'
  <2> SUFFICES ASSUME NEW d \in Clients, (conn[d] \in Up /\ d \notin late)'
               PROVE  IF asked[d] = None
                      THEN Quiet(requests[conn'[d]], answers[conn'[d]], doing[conn'[d]])
                      ELSE Pending(requests[conn'[d]], answers[conn'[d]],
                                   doing[conn'[d]], asked[d])
    BY <1>2 DEF Agreed
  <2>1. CASE d = c
    <3>1. asked[d] = None /\ conn'[d] = k
      BY <1>2, <1>4, <2>1 DEF AskedOnLine
    <3>2. requests[k] = <<>> /\ answers[k] = <<>> /\ doing[k] = None
      BY <1>3 DEF DeadIsEmpty
    <3> QED  BY <3>1, <3>2 DEF Quiet, NoGets, None, Gets
  <2>2. CASE d # c
    BY <1>1, <1>2, <1>3, <1>4, <2>2 DEF Agreed, Up
  <2> QED  BY <2>1, <2>2
<1> QED  BY <1>5, <1>6, <1>7

\* A line q of client c is sent or lost.
LEMMA SentLine ==
    ASSUME LineInv, NEW c \in Clients, NEW q \in Request,
           conn[c] # 0, asked[c] = None, Sent(conn[c], q),
           asked' = IF q \in Gets THEN [asked EXCEPT ![c] = q] ELSE asked,
           UNCHANGED <<conn, late, alive, shut, disturbed, answers, doing>>
    PROVE  /\ Apart' /\ AskedOnLine' /\ DeadIsEmpty' /\ Agreed' /\ CalmIsUp'
           /\ requests' \in [Threads -> Seq(Request)]
           /\ asked' \in [Clients -> Gets \cup {None}]
<1> USE DEF LineInv
<1>1. conn[c] \in Threads
  BY DEF TypeOK
<1>2. requests' \in [Threads -> Seq(Request)]
  BY <1>1, AppendProperties DEF TypeOK, Sent
<1>3. asked' \in [Clients -> Gets \cup {None}]
  BY DEF TypeOK
<1>4. \A k \in Threads : requests'[k] = IF k = conn[c] /\ k \in Up
                                        THEN Append(requests[k], q) ELSE requests[k]
  BY <1>1 DEF TypeOK, Sent
<1>5. \A d \in Clients : asked'[d] = IF d = c /\ q \in Gets THEN q ELSE asked[d]
  BY DEF TypeOK
<1>6. Apart' /\ AskedOnLine' /\ CalmIsUp'
  BY <1>5 DEF Apart, AskedOnLine, CalmIsUp
<1>7. DeadIsEmpty'
  BY <1>4 DEF DeadIsEmpty, Up
<1>8. Agreed'
  <2> SUFFICES ASSUME NEW d \in Clients, conn[d] \in Up, d \notin late
               PROVE  IF asked'[d] = None
                      THEN Quiet(requests'[conn[d]], answers[conn[d]], doing[conn[d]])
                      ELSE Pending(requests'[conn[d]], answers[conn[d]],
                                   doing[conn[d]], asked'[d])
    BY DEF Agreed, Up
  <2>1. conn[d] \in Threads /\ requests[conn[d]] \in Seq(Request)
    BY DEF Up, TypeOK
  <2>2. CASE d = c
    <3>1. Quiet(requests[conn[d]], answers[conn[d]], doing[conn[d]])
      BY <2>2 DEF Agreed
    <3>2. requests'[conn[d]] = Append(requests[conn[d]], q)
      BY <1>4, <2>1, <2>2
    <3>3. asked'[d] = IF q \in Gets THEN q ELSE None
      BY <1>5, <2>2
    <3>4. q # None
      BY ThreadsAreNumbers
    <3> QED  BY <2>1, <3>1, <3>2, <3>3, <3>4, SendLine
  <2>3. CASE d # c
    <3>1. conn[d] # conn[c] /\ asked'[d] = asked[d]
      BY <1>5, <2>3 DEF Apart
    <3> QED  BY <1>4, <2>1, <3>1 DEF Agreed
  <2> QED  BY <2>2, <2>3
<1> QED  BY <1>2, <1>3, <1>6, <1>7, <1>8

LEMMA PutLine ==
    ASSUME LineInv, NEW c \in Clients, Put(c)
    PROVE  LineInv'
<1> USE DEF LineInv
<1>1. /\ conn[c] # 0 /\ asked[c] = None /\ puts < MaxPuts /\ puts' = puts + 1
      /\ Sent(conn[c], <<"put", puts + 1>>)
      /\ UNCHANGED <<semVars, clientof, alive, shut, disturbed, answers, doing, slot,
                     waits, news, faults>>
  BY DEF Put
<1>2. puts' \in 0 .. MaxPuts /\ puts + 1 \in Values
  BY <1>1, ThreadsAreNumbers DEF TypeOK, Values
<1>3. <<"put", puts + 1>> \in Request /\ <<"put", puts + 1>> \notin Gets
  BY <1>2 DEF Request, Gets
<1>4. /\ Apart' /\ AskedOnLine' /\ DeadIsEmpty' /\ Agreed' /\ CalmIsUp'
      /\ requests' \in [Threads -> Seq(Request)]
  BY <1>1, <1>3, SentLine DEF clientof
<1>5. TypeOK'
  BY <1>1, <1>2, <1>4 DEF TypeOK, SemTypeOK, semVars, clientof
<1> QED  BY <1>4, <1>5

LEMMA AskLine ==
    ASSUME LineInv, NEW c \in Clients, NEW kind \in {"take", "wait"}, Ask(c, kind)
    PROVE  LineInv'
<1> USE DEF LineInv
<1>1. /\ conn[c] # 0 /\ asked[c] = None
      /\ kind = "wait" => waits < MaxWaits
      /\ waits' = IF kind = "wait" THEN waits + 1 ELSE waits
      /\ asked' = [asked EXCEPT ![c] = <<kind>>]
      /\ Sent(conn[c], <<kind>>)
      /\ UNCHANGED <<semVars, conn, last, taken, late, stale, alive, shut, disturbed,
                     answers, doing, slot, puts, news, faults>>
  BY DEF Ask
<1>2. <<kind>> \in Request /\ <<kind>> \in Gets
  BY DEF Request, Gets
<1>3. /\ Apart' /\ AskedOnLine' /\ DeadIsEmpty' /\ Agreed' /\ CalmIsUp'
      /\ requests' \in [Threads -> Seq(Request)]
      /\ asked' \in [Clients -> Gets \cup {None}]
  BY <1>1, <1>2, SentLine
<1>4. waits' \in 0 .. MaxWaits
  BY <1>1, ThreadsAreNumbers DEF TypeOK
<1>5. TypeOK'
  BY <1>1, <1>3, <1>4 DEF TypeOK, SemTypeOK, semVars
<1> QED  BY <1>3, <1>5

\* A client loses a connection that is not up.
LEMMA LeaveLine ==
    ASSUME LineInv, NEW c \in Clients, conn[c] \notin Up \cup {0},
           conn' = [conn EXCEPT ![c] = 0],
           asked' = [asked EXCEPT ![c] = None],
           UNCHANGED <<late, line, doing>>
    PROVE  /\ Apart' /\ AskedOnLine' /\ DeadIsEmpty' /\ Agreed' /\ CalmIsUp'
           /\ conn' \in [Clients -> {0} \cup Threads]
           /\ asked' \in [Clients -> Gets \cup {None}]
<1> USE DEF LineInv
<1>1. /\ conn' \in [Clients -> {0} \cup Threads]
      /\ asked' \in [Clients -> Gets \cup {None}]
      /\ \A d \in Clients : /\ conn'[d] = IF d = c THEN 0 ELSE conn[d]
                            /\ asked'[d] = IF d = c THEN None ELSE asked[d]
  BY DEF TypeOK
<1>2. Apart' /\ AskedOnLine' /\ DeadIsEmpty' /\ CalmIsUp'
  BY <1>1 DEF Apart, AskedOnLine, DeadIsEmpty, CalmIsUp, line
<1>3. 0 \notin Up
  BY ThreadsAreNumbers DEF TypeOK, Up
<1>4. Agreed'
  BY <1>1, <1>3 DEF Agreed, line, Up
<1> QED  BY <1>1, <1>2, <1>4

LEMMA SendFailsLine ==
    ASSUME LineInv, NEW c \in Clients, NEW kind \in {"take", "wait"}, SendFails(c, kind)
    PROVE  LineInv'
<1> USE DEF LineInv
<1>1. /\ conn[c] \notin Up \cup {0} /\ asked[c] = None
      /\ conn' = [conn EXCEPT ![c] = 0]
      /\ asked' = asked /\ UNCHANGED <<semVars, last, late, line, doing, slot, counts>>
  BY DEF SendFails
<1>2. asked' = [asked EXCEPT ![c] = None]
  BY <1>1 DEF TypeOK
<1>3. /\ Apart' /\ AskedOnLine' /\ DeadIsEmpty' /\ Agreed' /\ CalmIsUp'
      /\ conn' \in [Clients -> {0} \cup Threads]
      /\ asked' \in [Clients -> Gets \cup {None}]
  BY <1>1, <1>2, LeaveLine
<1>4. taken' \in [Values -> Nat] /\ stale' \in BOOLEAN
  <2>1. CASE kind = "take" /\ last[c] # Empty
    <3>1. taken' = [taken EXCEPT ![last[c]] = @ + 1] /\ stale' = TRUE
      BY <2>1 DEF SendFails
    <3>2. last[c] \in Values
      BY <2>1 DEF TypeOK
    <3> QED  BY <3>1, <3>2 DEF TypeOK
  <2>2. CASE ~(kind = "take" /\ last[c] # Empty)
    BY <2>2 DEF SendFails, TypeOK
  <2> QED  BY <2>1, <2>2
<1>5. TypeOK'
  BY <1>1, <1>3, <1>4 DEF TypeOK, SemTypeOK, semVars, line, counts
<1> QED  BY <1>3, <1>5

LEMMA ReadFailsLine ==
    ASSUME LineInv, NEW c \in Clients, ReadFails(c)
    PROVE  LineInv'
<1> USE DEF LineInv
<1>1. /\ Apart' /\ AskedOnLine' /\ DeadIsEmpty' /\ Agreed' /\ CalmIsUp'
      /\ conn' \in [Clients -> {0} \cup Threads]
      /\ asked' \in [Clients -> Gets \cup {None}]
  BY LeaveLine DEF ReadFails
<1>2. TypeOK'
  BY <1>1 DEF ReadFails, TypeOK, SemTypeOK, semVars, line, counts
<1> QED  BY <1>1, <1>2

LEMMA AnsweredLine ==
    ASSUME LineInv, NEW c \in Clients, Answered(c)
    PROVE  LineInv'
<1> USE DEF LineInv
<1> DEFINE k == conn[c]
<1>1. /\ asked[c] # None /\ k \in Threads /\ asked[c] \in Gets
      /\ answers[k] # <<>> /\ answers[k] \in Seq(Values \cup {Empty})
  BY DEF Answered, TypeOK
<1>2. /\ Head(answers[k]) \in Values \cup {Empty}
      /\ Tail(answers[k]) \in Seq(Values \cup {Empty})
  BY <1>1, HeadTailProperties
<1>3. /\ answers' = [answers EXCEPT ![k] = Tail(answers[k])]
      /\ asked' = [asked EXCEPT ![c] = None]
      /\ last' = [last EXCEPT ![c] = Head(answers[k])]
      /\ taken' = IF asked[c][1] = "take" /\ Head(answers[k]) # Empty
                  THEN [taken EXCEPT ![Head(answers[k])] = @ + 1] ELSE taken
      /\ UNCHANGED <<semVars, conn, late, stale, alive, shut, disturbed, requests,
                     doing, slot, counts>>
  BY DEF Answered
<1>4. TypeOK'
  <2>1. taken' \in [Values -> Nat]
    <3>1. CASE asked[c][1] = "take" /\ Head(answers[k]) # Empty
      <4>1. Head(answers[k]) \in Values
        BY <1>2, <3>1
      <4> QED  BY <1>3, <3>1, <4>1 DEF TypeOK
    <3> QED  BY <1>3, <3>1 DEF TypeOK
  <2>2. /\ answers' \in [Threads -> Seq(Values \cup {Empty})]
        /\ asked' \in [Clients -> Gets \cup {None}]
        /\ last' \in [Clients -> Values \cup {Empty}]
    BY <1>2, <1>3 DEF TypeOK
  <2> QED  BY <1>3, <2>1, <2>2 DEF TypeOK, SemTypeOK, semVars, counts
<1>5. \A d \in Clients : asked'[d] = IF d = c THEN None ELSE asked[d]
  BY <1>3 DEF TypeOK
<1>6. \A l \in Threads : answers'[l] = IF l = k THEN Tail(answers[l]) ELSE answers[l]
  BY <1>3 DEF TypeOK
<1>7. Apart' /\ AskedOnLine' /\ CalmIsUp'
  BY <1>3, <1>5 DEF Apart, AskedOnLine, CalmIsUp
<1>8. DeadIsEmpty'
  BY <1>1, <1>3, <1>6 DEF DeadIsEmpty
<1>9. Agreed'
  <2> SUFFICES ASSUME NEW d \in Clients, conn[d] \in Up, d \notin late
               PROVE  IF asked'[d] = None
                      THEN Quiet(requests[conn[d]], answers'[conn[d]], doing[conn[d]])
                      ELSE Pending(requests[conn[d]], answers'[conn[d]],
                                   doing[conn[d]], asked'[d])
    BY <1>3 DEF Agreed, Up
  <2>1. conn[d] \in Threads
    BY DEF Up, TypeOK
  <2>2. CASE d = c
    <3>1. Pending(requests[k], answers[k], doing[k], asked[c])
      BY <1>1, <2>2 DEF Agreed
    <3>2. Quiet(requests[k], Tail(answers[k]), doing[k])
      BY <1>1, <3>1, ReadAnswer
    <3> QED  BY <1>5, <1>6, <2>1, <2>2, <3>2
  <2>3. CASE d # c
    <3>1. conn[d] # k
      BY <1>1, <2>3, ThreadsAreNumbers DEF Apart
    <3> QED  BY <1>5, <1>6, <2>1, <2>3, <3>1 DEF Agreed
  <2> QED  BY <2>2, <2>3
<1> QED  BY <1>4, <1>7, <1>8, <1>9

LEMMA FaultCount ==
    ASSUME TypeOK, Fault
    PROVE  faults' \in 0 .. MaxFaults
BY ThreadsAreNumbers DEF TypeOK, Fault

LEMMA TimeoutLine ==
    ASSUME LineInv, NEW c \in Clients, Timeout(c)
    PROVE  LineInv'
<1> USE DEF LineInv
<1> DEFINE old == conn[c]
<1>1. PICK k \in Unused :
        /\ conn' = [conn EXCEPT ![c] = k]
        /\ alive' = alive \cup {k}
  BY Fresh DEF Timeout
<1>2. /\ asked' = [asked EXCEPT ![c] = None]
      /\ shut' = shut \cup ({old} \cap alive)
      /\ disturbed' = TRUE
      /\ answers' = [answers EXCEPT ![old] = <<>>]
      /\ late' = late \ {c}
      /\ UNCHANGED <<semVars, last, taken, stale, requests, doing, slot, puts, waits, news>>
  BY DEF Timeout
<1>3. old \in Threads
  BY DEF Timeout, MayTimeOut, TypeOK
<1>4. k \in Threads /\ k \notin alive /\ k # 0 /\ \A d \in Clients : conn[d] # k
  BY <1>1, ThreadsAreNumbers DEF Unused
<1>5. \A d \in Clients : /\ conn'[d] = IF d = c THEN k ELSE conn[d]
                         /\ asked'[d] = IF d = c THEN None ELSE asked[d]
  BY <1>1, <1>2 DEF TypeOK
<1>6. \A l \in Threads : answers'[l] = IF l = old THEN <<>> ELSE answers[l]
  BY <1>2 DEF TypeOK
<1>7. TypeOK'
  <2>1. faults' \in 0 .. MaxFaults
    BY FaultCount DEF Timeout, MayTimeOut, TypeOK
  <2>2. answers' \in [Threads -> Seq(Values \cup {Empty})]
    BY <1>2, EmptySeq DEF TypeOK
  <2> QED  BY <1>1, <1>2, <1>4, <2>1, <2>2 DEF TypeOK, SemTypeOK, semVars
<1>8. Apart' /\ AskedOnLine' /\ DeadIsEmpty' /\ CalmIsUp'
  BY <1>1, <1>2, <1>4, <1>5, <1>6 DEF Apart, AskedOnLine, DeadIsEmpty, CalmIsUp
<1>9. Agreed'
  <2> SUFFICES ASSUME NEW d \in Clients, (conn[d] \in Up /\ d \notin late)'
               PROVE  IF asked'[d] = None
                      THEN Quiet(requests[conn'[d]], answers'[conn'[d]], doing[conn'[d]])
                      ELSE Pending(requests[conn'[d]], answers'[conn'[d]],
                                   doing[conn'[d]], asked'[d])
    BY <1>2 DEF Agreed
  <2>1. CASE d = c
    <3>1. asked'[d] = None /\ conn'[d] = k
      BY <1>5, <2>1
    <3>2. requests[k] = <<>> /\ answers'[k] = <<>> /\ doing[k] = None
      BY <1>4, <1>6 DEF DeadIsEmpty
    <3> QED  BY <3>1, <3>2 DEF Quiet, NoGets, None, Gets
  <2>2. CASE d # c
    <3>1. conn'[d] = conn[d] /\ asked'[d] = asked[d] /\ conn[d] # k
      BY <1>4, <1>5, <2>2
    <3>2. conn[d] \in Up /\ conn[d] # old /\ conn[d] \in Threads /\ d \notin late
      BY <1>1, <1>2, <1>3, <2>2, <3>1, ThreadsAreNumbers DEF Up, Apart, TypeOK
    <3> QED  BY <1>6, <3>1, <3>2 DEF Agreed
  <2> QED  BY <2>1, <2>2
<1> QED  BY <1>7, <1>8, <1>9

LEMMA WaitTimeoutLine ==
    ASSUME LineInv, NEW c \in Clients, WaitTimeout(c)
    PROVE  LineInv'
<1> USE DEF LineInv
<1>1. /\ asked' = [asked EXCEPT ![c] = None]
      /\ late' = late \cup {c} /\ disturbed' = TRUE
      /\ UNCHANGED <<semVars, conn, last, taken, stale, alive, shut,
                     requests, answers, doing, slot, puts, waits, news>>
  BY DEF WaitTimeout
<1>2. \A d \in Clients : asked'[d] = IF d = c THEN None ELSE asked[d]
  BY <1>1 DEF TypeOK
<1>3. TypeOK'
  <2>1. faults' \in 0 .. MaxFaults
    BY FaultCount DEF WaitTimeout, MayTimeOut, TypeOK
  <2> QED  BY <1>1, <2>1 DEF TypeOK, SemTypeOK, semVars
<1>4. Apart' /\ AskedOnLine' /\ DeadIsEmpty' /\ CalmIsUp'
  BY <1>1, <1>2 DEF Apart, AskedOnLine, DeadIsEmpty, CalmIsUp
<1>5. Agreed'
  BY <1>1, <1>2 DEF Agreed, Up
<1> QED  BY <1>3, <1>4, <1>5

LEMMA BreakLine ==
    ASSUME LineInv, NEW c \in Clients, Break(c)
    PROVE  LineInv'
<1> USE DEF LineInv
<1> DEFINE k == conn[c]
<1>1. /\ k \in Up /\ shut' = shut \cup {k} /\ disturbed' = TRUE
      /\ answers' \in {answers, [answers EXCEPT ![k] = <<>>]}
      /\ UNCHANGED <<semVars, clientof, alive, requests, doing, slot, puts, waits, news>>
  BY DEF Break
<1>2. k \in alive /\ k \in Threads
  BY <1>1 DEF Up, TypeOK
<1>3. /\ \A l \in Threads : answers'[l] = answers[l] \/ (l = k /\ answers'[l] = <<>>)
      /\ answers' \in [Threads -> Seq(Values \cup {Empty})]
  <2>0. answers \in [Threads -> Seq(Values \cup {Empty})]
    BY DEF TypeOK
  <2> HIDE DEF k
  <2>1. CASE answers' = answers
    BY <2>0, <2>1
  <2>2. CASE answers' = [answers EXCEPT ![k] = <<>>]
    <3>1. \A l \in Threads : answers'[l] = IF l = k THEN <<>> ELSE answers[l]
      BY <2>0, <2>2
    <3>2. answers' \in [Threads -> Seq(Values \cup {Empty})]
      BY <2>0, <2>2, EmptySeq
    <3> QED  BY <3>1, <3>2
  <2> QED  BY <1>1, <2>1, <2>2
<1>4. TypeOK'
  <2>1. faults' \in 0 .. MaxFaults
    BY FaultCount DEF Break
  <2> QED  BY <1>1, <1>2, <1>3, <2>1 DEF TypeOK, SemTypeOK, semVars, clientof
<1>5. Apart' /\ AskedOnLine' /\ DeadIsEmpty' /\ CalmIsUp'
  BY <1>1, <1>2, <1>3 DEF Apart, AskedOnLine, DeadIsEmpty, CalmIsUp, clientof
<1>6. Agreed'
  <2> SUFFICES ASSUME NEW d \in Clients, conn[d] \in alive \ shut', d \notin late
               PROVE  IF asked[d] = None
                      THEN Quiet(requests[conn[d]], answers'[conn[d]], doing[conn[d]])
                      ELSE Pending(requests[conn[d]], answers'[conn[d]],
                                   doing[conn[d]], asked[d])
    BY <1>1 DEF Agreed, Up, clientof
  <2>1. conn[d] \in Up /\ conn[d] # k /\ conn[d] \in Threads
    BY <1>1 DEF Up, TypeOK
  <2> QED  BY <1>3, <2>1 DEF Agreed
<1> QED  BY <1>4, <1>5, <1>6

----------------------------------------------------------------------------
(* The steps of the provider *)

\* A thread with something in its hands or to receive is alive.
LEMMA BusyIsAlive ==
    ASSUME DeadIsEmpty, NEW k \in Threads, doing[k] # None \/ requests[k] # <<>>
    PROVE  k \in alive
BY DEF DeadIsEmpty

\* What a step of thread k has to keep: the agreement on connection k.
LEMMA WorkerLine ==
    ASSUME LineInv, NEW k \in Threads, k \in alive,
           UNCHANGED <<clientof, alive, shut, disturbed>>,
           requests' \in [Threads -> Seq(Request)],
           answers' \in [Threads -> Seq(Values \cup {Empty})],
           doing' \in [Threads -> Request \cup {None}],
           \A l \in Threads \ {k} : /\ requests'[l] = requests[l]
                                    /\ answers'[l] = answers[l]
                                    /\ doing'[l] = doing[l],
           k \in Up /\ Quiet(requests[k], answers[k], doing[k])
             => Quiet(requests'[k], answers'[k], doing'[k]),
           \A g \in Gets : k \in Up /\ Pending(requests[k], answers[k], doing[k], g)
             => Pending(requests'[k], answers'[k], doing'[k], g)
    PROVE  Apart' /\ AskedOnLine' /\ DeadIsEmpty' /\ Agreed' /\ CalmIsUp'
<1> USE DEF LineInv
<1>1. Apart' /\ AskedOnLine' /\ DeadIsEmpty' /\ CalmIsUp'
  BY DEF Apart, AskedOnLine, DeadIsEmpty, CalmIsUp, clientof
<1>2. Agreed'
  <2> SUFFICES ASSUME NEW d \in Clients, conn[d] \in Up, d \notin late
               PROVE  IF asked[d] = None
                      THEN Quiet(requests'[conn[d]], answers'[conn[d]], doing'[conn[d]])
                      ELSE Pending(requests'[conn[d]], answers'[conn[d]],
                                   doing'[conn[d]], asked[d])
    BY DEF Agreed, Up, clientof
  <2>1. conn[d] \in Threads /\ asked[d] \in Gets \cup {None}
    BY DEF Up, TypeOK
  <2>2. IF asked[d] = None
        THEN Quiet(requests[conn[d]], answers[conn[d]], doing[conn[d]])
        ELSE Pending(requests[conn[d]], answers[conn[d]], doing[conn[d]], asked[d])
    BY DEF Agreed
  <2>3. CASE conn[d] = k
    BY <2>1, <2>2, <2>3
  <2>4. CASE conn[d] # k
    BY <2>1, <2>2, <2>4
  <2> QED  BY <2>3, <2>4
<1> QED  BY <1>1, <1>2

\* A reply reaches the line only when the connection is open.
LEMMA ReplyLine ==
    ASSUME TypeOK, NEW k \in Threads, NEW v \in Values \cup {Empty}, Reply(k, v)
    PROVE  /\ answers' \in [Threads -> Seq(Values \cup {Empty})]
           /\ \A l \in Threads : answers'[l] = IF l = k /\ k \notin shut
                                               THEN Append(answers[l], v) ELSE answers[l]
BY AppendProperties DEF TypeOK, Reply

LEMMA ReceiveStep ==
    ASSUME LineInv, NEW k \in Threads, Receive(k)
    PROVE  LineInv'
<1> USE DEF LineInv
<1>1. /\ doing[k] = None /\ requests[k] # <<>>
      /\ doing' = [doing EXCEPT ![k] = Head(requests[k])]
      /\ requests' = [requests EXCEPT ![k] = Tail(requests[k])]
      /\ UNCHANGED <<semVars, clientof, alive, shut, disturbed, answers, slot, counts>>
  BY DEF Receive
<1>2. /\ requests[k] \in Seq(Request) /\ Head(requests[k]) \in Request
      /\ Tail(requests[k]) \in Seq(Request)
  BY <1>1, HeadTailProperties DEF TypeOK
<1>3. /\ requests' \in [Threads -> Seq(Request)]
      /\ doing' \in [Threads -> Request \cup {None}]
      /\ requests'[k] = Tail(requests[k]) /\ doing'[k] = Head(requests[k])
      /\ \A l \in Threads \ {k} : requests'[l] = requests[l] /\ doing'[l] = doing[l]
  BY <1>1, <1>2 DEF TypeOK
<1>4. /\ Quiet(requests[k], answers[k], doing[k])
           => Quiet(requests'[k], answers'[k], doing'[k])
      /\ \A g \in Gets : Pending(requests[k], answers[k], doing[k], g)
           => Pending(requests'[k], answers'[k], doing'[k], g)
  <2>1. <<"wait">> \in Gets
    BY DEF Gets
  <2> QED  BY <1>1, <1>2, <1>3, <2>1, ReceiveLine
<1>5. Apart' /\ AskedOnLine' /\ DeadIsEmpty' /\ Agreed' /\ CalmIsUp'
  <2>1. k \in alive
    BY <1>1, BusyIsAlive
  <2>2. answers' \in [Threads -> Seq(Values \cup {Empty})]
    BY <1>1 DEF TypeOK
  <2> QED  BY <1>1, <1>3, <1>4, <2>1, <2>2, WorkerLine
<1>6. TypeOK'
  BY <1>1, <1>3 DEF TypeOK, SemTypeOK, semVars, clientof, counts
<1> QED  BY <1>5, <1>6

LEMMA TakeStep ==
    ASSUME LineInv, NEW k \in Threads, TakeAndReset(k)
    PROVE  LineInv'
<1> USE DEF LineInv
<1>1. /\ doing[k] = None /\ requests[k] # <<>> /\ Head(requests[k]) = <<"take">>
      /\ requests' = [requests EXCEPT ![k] = Tail(requests[k])]
      /\ Reply(k, slot) /\ slot' = Empty
      /\ UNCHANGED <<semVars, clientof, alive, shut, disturbed, doing, counts>>
  BY DEF TakeAndReset
<1>2. /\ requests[k] \in Seq(Request) /\ Tail(requests[k]) \in Seq(Request)
      /\ slot \in Values \cup {Empty}
  BY <1>1, HeadTailProperties DEF TypeOK
<1>3. /\ requests' \in [Threads -> Seq(Request)]
      /\ requests'[k] = Tail(requests[k])
      /\ \A l \in Threads \ {k} : requests'[l] = requests[l]
  BY <1>1, <1>2 DEF TypeOK
<1>4. /\ answers' \in [Threads -> Seq(Values \cup {Empty})]
      /\ \A l \in Threads : answers'[l] = IF l = k /\ k \notin shut
                                          THEN Append(answers[l], slot) ELSE answers[l]
  BY <1>1, <1>2, ReplyLine
<1>5. k \in Up => answers'[k] = Append(answers[k], slot)
  BY <1>4 DEF Up
<1>6. /\ ~Quiet(requests[k], answers[k], doing[k])
      /\ \A g \in Gets : k \in Up /\ Pending(requests[k], answers[k], doing[k], g)
           => Pending(requests'[k], answers'[k], doing'[k], g)
  <2>1. /\ ~Quiet(requests[k], answers[k], None)
        /\ \A g \in Gets : Pending(requests[k], answers[k], None, g)
             => Pending(Tail(requests[k]), Append(answers[k], slot), None, g)
    BY <1>1, <1>2, AnswerTake
  <2>2. requests'[k] = Tail(requests[k]) /\ doing'[k] = None /\ doing[k] = None
    BY <1>1, <1>2, <1>3
  <2> QED  BY <1>5, <2>1, <2>2
<1>7. Apart' /\ AskedOnLine' /\ DeadIsEmpty' /\ Agreed' /\ CalmIsUp'
  <2>1. k \in alive
    BY <1>1, BusyIsAlive
  <2>2. doing' \in [Threads -> Request \cup {None}]
    BY <1>1 DEF TypeOK
  <2> QED  BY <1>1, <1>3, <1>4, <1>6, <2>1, <2>2, WorkerLine
<1>8. TypeOK'
  BY <1>1, <1>3, <1>4 DEF TypeOK, SemTypeOK, semVars, clientof, counts
<1> QED  BY <1>7, <1>8

LEMMA StoreStep ==
    ASSUME LineInv, NEW k \in Threads, Store(k)
    PROVE  LineInv'
<1> USE DEF LineInv
<1>1. /\ doing[k] # None /\ doing[k][1] = "put" /\ slot' = doing[k][2]
      /\ doing' = [doing EXCEPT ![k] = None]
      /\ UNCHANGED <<semVars, clientof, line, counts>>
  BY DEF Store, Doing
<1>2. doing[k] \notin Gets /\ doing[k][2] \in Values
  BY <1>1 DEF TypeOK, Request, Gets
<1>3. /\ doing' \in [Threads -> Request \cup {None}] /\ doing'[k] = None
      /\ \A l \in Threads \ {k} : doing'[l] = doing[l]
  BY <1>1 DEF TypeOK
<1>4. /\ Quiet(requests[k], answers[k], doing[k])
           => Quiet(requests'[k], answers'[k], doing'[k])
      /\ \A g \in Gets : Pending(requests[k], answers[k], doing[k], g)
           => Pending(requests'[k], answers'[k], doing'[k], g)
  <2>1. <<"wait">> \in Gets
    BY DEF Gets
  <2> QED  BY <1>1, <1>2, <1>3, <2>1, PutDone DEF line
<1>5. Apart' /\ AskedOnLine' /\ DeadIsEmpty' /\ Agreed' /\ CalmIsUp'
  <2>1. k \in alive
    BY <1>1, BusyIsAlive
  <2>2. /\ requests' \in [Threads -> Seq(Request)]
        /\ answers' \in [Threads -> Seq(Values \cup {Empty})]
        /\ UNCHANGED <<alive, shut, disturbed, requests, answers>>
    BY <1>1 DEF TypeOK, line
  <2> QED  BY <1>1, <1>3, <1>4, <2>1, <2>2, WorkerLine
<1>6. TypeOK'
  BY <1>1, <1>2, <1>3 DEF TypeOK, SemTypeOK, semVars, clientof, counts, line
<1> QED  BY <1>5, <1>6

LEMMA PassStep ==
    ASSUME LineInv, NEW k \in Threads, PassSemaphore(k)
    PROVE  LineInv'
<1> USE DEF LineInv
<1>1. /\ doing[k] # None /\ doing[k][1] = "wait" /\ Pass(k) /\ Reply(k, Empty)
      /\ doing' = [doing EXCEPT ![k] = None]
      /\ UNCHANGED <<clientof, alive, shut, disturbed, requests, slot, counts>>
  BY DEF PassSemaphore, Doing
<1>2. doing[k] = <<"wait">>
  BY <1>1 DEF TypeOK, Request, Gets
<1>3. /\ doing' \in [Threads -> Request \cup {None}] /\ doing'[k] = None
      /\ \A l \in Threads \ {k} : doing'[l] = doing[l]
  BY <1>1 DEF TypeOK
<1>4. /\ answers' \in [Threads -> Seq(Values \cup {Empty})]
      /\ \A l \in Threads : answers'[l] = IF l = k /\ k \notin shut
                                          THEN Append(answers[l], Empty) ELSE answers[l]
  BY <1>1, ReplyLine
<1>5. k \in Up => answers'[k] = Append(answers[k], Empty)
  BY <1>4 DEF Up
<1>6. /\ ~Quiet(requests[k], answers[k], doing[k])
      /\ \A g \in Gets : k \in Up /\ Pending(requests[k], answers[k], doing[k], g)
           => Pending(requests'[k], answers'[k], doing'[k], g)
  <2>1. /\ ~Quiet(requests[k], answers[k], <<"wait">>)
        /\ \A g \in Gets : Pending(requests[k], answers[k], <<"wait">>, g)
             => Pending(requests[k], Append(answers[k], Empty), None, g)
    BY <1>1, <1>2, AnswerWait
  <2>2. requests'[k] = requests[k] /\ doing'[k] = None /\ doing[k] = <<"wait">>
    BY <1>1, <1>2, <1>3
  <2> QED  BY <1>5, <2>1, <2>2
<1>7. Apart' /\ AskedOnLine' /\ DeadIsEmpty' /\ Agreed' /\ CalmIsUp'
  <2>1. k \in alive
    BY <1>1, BusyIsAlive
  <2>2. requests' \in [Threads -> Seq(Request)]
    BY <1>1 DEF TypeOK
  <2> QED  BY <1>1, <1>3, <1>4, <1>6, <2>1, <2>2, WorkerLine
<1>8. TypeOK'
  BY <1>1, <1>3, <1>4 DEF TypeOK, SemTypeOK, Pass, clientof, counts
<1> QED  BY <1>7, <1>8

LEMMA EndStep ==
    ASSUME LineInv, NEW k \in Threads, WorkerEnds(k)
    PROVE  LineInv'
<1> USE DEF LineInv
<1>1. /\ k \in shut /\ doing[k] = None
      /\ alive' = alive \ {k} /\ shut' = shut \ {k}
      /\ requests' = [requests EXCEPT ![k] = <<>>]
      /\ answers' = [answers EXCEPT ![k] = <<>>]
      /\ UNCHANGED <<semVars, clientof, disturbed, doing, slot, counts>>
  BY DEF WorkerEnds
<1>2. \A l \in Threads : /\ requests'[l] = IF l = k THEN <<>> ELSE requests[l]
                         /\ answers'[l] = IF l = k THEN <<>> ELSE answers[l]
  BY <1>1 DEF TypeOK
<1>3. TypeOK'
  BY <1>1, EmptySeq DEF TypeOK, SemTypeOK, semVars, clientof, counts
<1>4. Apart' /\ AskedOnLine' /\ DeadIsEmpty' /\ CalmIsUp'
  BY <1>1, <1>2 DEF Apart, AskedOnLine, DeadIsEmpty, CalmIsUp, clientof
<1>5. Agreed'
  <2> SUFFICES ASSUME NEW d \in Clients, conn[d] \in alive' \ shut', d \notin late
               PROVE  IF asked[d] = None
                      THEN Quiet(requests'[conn[d]], answers'[conn[d]], doing[conn[d]])
                      ELSE Pending(requests'[conn[d]], answers'[conn[d]],
                                   doing[conn[d]], asked[d])
    BY <1>1 DEF Agreed, Up, clientof
  <2>1. conn[d] \in Up /\ conn[d] # k /\ conn[d] \in Threads
    BY <1>1 DEF Up, TypeOK
  <2> QED  BY <1>2, <2>1 DEF Agreed
<1> QED  BY <1>3, <1>4, <1>5

LEMMA IncrementType ==
    ASSUME SemTypeOK, Increment
    PROVE  SemTypeOK'
BY SemaphoreAssumption
   DEF SemTypeOK, Increment, PosixIncrement, Win32Increment, Signal

\* The semaphore is not on any line.
LEMMA SemaphoreStep ==
    ASSUME LineInv, \/ SetInt0Semaphore
                    \/ \E k \in Threads : SleepOnSemaphore(k)
                    \/ UNCHANGED vars
    PROVE  LineInv'
<1> USE DEF LineInv
<1>1. UNCHANGED <<clientof, line, doing, slot, puts, waits, faults>>
  BY DEF SetInt0Semaphore, SleepOnSemaphore, vars, counts
<1>2. SemTypeOK' /\ news' \in 0 .. MaxNews
  <2>1. CASE SetInt0Semaphore
    BY <2>1, IncrementType, ThreadsAreNumbers DEF SetInt0Semaphore, TypeOK
  <2>2. CASE \E k \in Threads : SleepOnSemaphore(k)
    BY <2>2 DEF SleepOnSemaphore, Sleep, SpuriousWakeup, TypeOK, SemTypeOK, counts
  <2>3. CASE UNCHANGED vars
    BY <2>3 DEF vars, TypeOK, SemTypeOK, semVars, counts
  <2> QED  BY <2>1, <2>2, <2>3
<1>3. TypeOK'
  BY <1>1, <1>2 DEF TypeOK, clientof, line
<1>4. Apart' /\ AskedOnLine' /\ DeadIsEmpty' /\ Agreed' /\ CalmIsUp'
  BY <1>1 DEF Apart, AskedOnLine, DeadIsEmpty, Agreed, CalmIsUp, Up, clientof, line
<1> QED  BY <1>3, <1>4

LEMMA NextLine == LineInv /\ [Next]_vars => LineInv'
BY ConnectLine, PutLine, AskLine, SendFailsLine, AnsweredLine, ReadFailsLine,
   TimeoutLine, WaitTimeoutLine, BreakLine, ReceiveStep, TakeStep, StoreStep,
   PassStep, EndStep, SemaphoreStep
   DEF Next, Worker

\* What is on the connections, whatever breaks and times out.
THEOREM LinesInductive == Spec => []LineInv
BY InitLine, NextLine, PTL DEF Spec

----------------------------------------------------------------------------
(* Where a value is on a connection *)

LEMMA AppendHas ==
    ASSUME NEW S, NEW s \in Seq(S), NEW y \in S, NEW x
    PROVE  /\ Has(Append(s, y), x) <=> Has(s, x) \/ y = x
           /\ Unique(s, x) /\ (y = x => ~Has(s, x)) => Unique(Append(s, y), x)
<1>1. /\ Len(s) \in Nat /\ Len(Append(s, y)) = Len(s) + 1
      /\ Append(s, y)[Len(s) + 1] = y
      /\ \A i \in 1 .. Len(s) : Append(s, y)[i] = s[i]
  BY AppendProperties, LenProperties
<1>2. \A i \in 1 .. Len(s) + 1 : i \in 1 .. Len(s) \/ i = Len(s) + 1
  BY <1>1
<1>3. \A i \in 1 .. Len(s) : i \in 1 .. Len(s) + 1
  BY <1>1
<1>4. Len(s) + 1 \in 1 .. Len(s) + 1
  BY <1>1
<1> QED  BY <1>1, <1>2, <1>3, <1>4 DEF Has, Unique

LEMMA TailHas ==
    ASSUME NEW S, NEW s \in Seq(S), s # <<>>, NEW x
    PROVE  /\ Has(s, x) <=> Has(Tail(s), x) \/ Head(s) = x
           /\ Unique(s, x) => Unique(Tail(s), x) /\ (Head(s) = x => ~Has(Tail(s), x))
<1>1. /\ Len(s) \in Nat /\ Len(s) >= 1 /\ Head(s) = s[1]
      /\ Len(Tail(s)) = Len(s) - 1
      /\ \A i \in 1 .. Len(Tail(s)) : Tail(s)[i] = s[i + 1]
  BY HeadTailProperties, LenProperties, EmptySeq
<1>2. Has(s, x) => Has(Tail(s), x) \/ Head(s) = x
  <2>1. \A i \in 1 .. Len(s) : i = 1 \/ (i - 1 \in 1 .. Len(Tail(s)) /\ s[i] = Tail(s)[i - 1])
    BY <1>1
  <2> QED  BY <1>1, <2>1 DEF Has
<1>3. /\ \A i \in 1 .. Len(Tail(s)) : i + 1 \in 1 .. Len(s) /\ i + 1 # 1
      /\ 1 \in 1 .. Len(s)
      /\ \A i, j \in 1 .. Len(Tail(s)) : i + 1 = j + 1 => i = j
  BY <1>1
<1> QED  BY <1>1, <1>2, <1>3 DEF Has, Unique

LEMMA EmptyHas ==
    ASSUME NEW x
    PROVE  ~Has(<<>>, x) /\ Unique(<<>>, x)
BY DEF Has, Unique

\* A line received.
LEMMA OnReceived ==
    ASSUME NEW req \in Seq(Request), NEW ans, req # <<>>, NEW v
    PROVE  /\ On(Tail(req), ans, Head(req), v) <=> On(req, ans, None, v)
           /\ OnceOn(req, ans, None, v) => OnceOn(Tail(req), ans, Head(req), v)
<1>1. None # <<"put", v>>
  BY DEF None
<1> QED  BY <1>1, TailHas DEF On, OnceOn

\* Nothing is lost or added when a line is sent that is not the put of v, or
\* when a thread is done with a line that is not.
LEMMA OnSent ==
    ASSUME NEW req \in Seq(Request), NEW ans, NEW do, NEW q \in Request, NEW v
    PROVE  /\ On(Append(req, q), ans, do, v) <=> On(req, ans, do, v) \/ q = <<"put", v>>
           /\ OnceOn(req, ans, do, v) /\ ~(q = <<"put", v>> /\ On(req, ans, do, v))
                => OnceOn(Append(req, q), ans, do, v)
BY AppendHas DEF On, OnceOn

LEMMA OnReplied ==
    ASSUME NEW req, NEW ans \in Seq(Values \cup {Empty}), NEW do,
           NEW a \in Values \cup {Empty}, NEW v
    PROVE  /\ On(req, Append(ans, a), do, v) <=> On(req, ans, do, v) \/ a = v
           /\ OnceOn(req, ans, do, v) /\ ~(a = v /\ On(req, ans, do, v))
                => OnceOn(req, Append(ans, a), do, v)
BY AppendHas DEF On, OnceOn

LEMMA OnRead ==
    ASSUME NEW req, NEW ans \in Seq(Values \cup {Empty}), ans # <<>>, NEW do, NEW v
    PROVE  /\ On(req, ans, do, v) <=> On(req, Tail(ans), do, v) \/ Head(ans) = v
           /\ OnceOn(req, ans, do, v) =>
                OnceOn(req, Tail(ans), do, v) /\ (Head(ans) = v => ~On(req, Tail(ans), do, v))
BY TailHas DEF On, OnceOn

LEMMA OnDone ==
    ASSUME NEW req, NEW ans, NEW do, NEW v
    PROVE  /\ On(req, ans, do, v) <=> On(req, ans, None, v) \/ do = <<"put", v>>
           /\ OnceOn(req, ans, do, v) =>
                OnceOn(req, ans, None, v) /\ (do = <<"put", v>> => ~On(req, ans, None, v))
<1>1. None # <<"put", v>>
  BY DEF None
<1> QED  BY <1>1 DEF On, OnceOn

\* Lines that are dropped take values with them and bring none.
LEMMA OnDropped ==
    ASSUME NEW req, NEW ans, NEW do, NEW v
    PROVE  /\ On(req, <<>>, do, v) => On(req, ans, do, v)
           /\ On(<<>>, <<>>, do, v) => On(req, ans, do, v)
           /\ OnceOn(req, ans, do, v) => OnceOn(req, <<>>, do, v)
           /\ OnceOn(req, ans, do, v) => OnceOn(<<>>, <<>>, do, v)
BY EmptyHas DEF On, OnceOn

----------------------------------------------------------------------------
(* Where a value is *)

ValueInv == NotYet /\ Once /\ NotLost

LEMMA InitValues == Init => ValueInv
<1> SUFFICES ASSUME Init PROVE ValueInv
  OBVIOUS
<1>1. /\ slot = 0 /\ puts = 0 /\ \A v \in Values : taken[v] = 0
      /\ \A c \in Clients : last[c] = Empty
      /\ \A k \in Threads : requests[k] = <<>> /\ answers[k] = <<>> /\ doing[k] = None
  BY DEF Init
<1>2. \A v : ~On(<<>>, <<>>, None, v) /\ OnceOn(<<>>, <<>>, None, v)
  BY EmptyHas DEF On, OnceOn, None
<1>3. \A v \in Values : (Somewhere(v) <=> v = 0) /\ Single(v)
  BY <1>1, <1>2 DEF Somewhere, Single
<1>4. \A v \in 0 .. puts : v \in Values /\ v = 0
  BY <1>1, ThreadsAreNumbers
<1> QED
  BY <1>1, <1>3, <1>4, ThreadsAreNumbers DEF ValueInv, NotYet, Once, NotLost, Empty

\* A step that brings no value anywhere, and takes none away while nothing
\* is disturbed.
LEMMA NothingNew ==
    ASSUME TypeOK, TypeOK', ValueInv,
           UNCHANGED <<slot, taken, puts, stale>>,
           \A c \in Clients : last'[c] <= puts,
           \A k \in Threads, v \in Values :
             /\ On(requests'[k], answers'[k], doing'[k], v)
                  => On(requests[k], answers[k], doing[k], v)
             /\ OnceOn(requests[k], answers[k], doing[k], v)
                  => OnceOn(requests'[k], answers'[k], doing'[k], v)
             /\ ~disturbed' /\ On(requests[k], answers[k], doing[k], v)
                  => On(requests'[k], answers'[k], doing'[k], v),
           disturbed => disturbed'
    PROVE  ValueInv'
<1> USE DEF ValueInv
<1>1. \A v \in Values : Somewhere(v)' => Somewhere(v)
  BY DEF Somewhere
<1>2. \A v \in Values : Single(v) => Single(v)'
  BY DEF Single
<1>3. ~disturbed' => \A v \in Values : Somewhere(v) => Somewhere(v)'
  BY DEF Somewhere
<1>4. NotYet'
  BY <1>1 DEF NotYet
<1>5. Once'
  BY <1>2 DEF Once
<1>6. NotLost'
  <2>1. \A v \in 0 .. puts : v \in Values
    BY ThreadsAreNumbers DEF TypeOK, Values
  <2> QED  BY <1>3, <2>1 DEF NotLost
<1> QED  BY <1>4, <1>5, <1>6

\* Steps that leave every line where it is.
LEMMA LinesStay ==
    ASSUME LineInv, LineInv', ValueInv, UNCHANGED <<requests, answers, doing>>,
           UNCHANGED <<slot, taken, puts, stale>>,
           \A c \in Clients : last'[c] \in {last[c], Empty},
           disturbed => disturbed'
    PROVE  ValueInv'
<1>1. \A c \in Clients : last'[c] <= puts
  BY ThreadsAreNumbers DEF ValueInv, NotYet, Empty, LineInv, TypeOK
<1>2. TypeOK /\ TypeOK'
  BY DEF LineInv
<1> QED  BY <1>1, <1>2, NothingNew

LEMMA AskValues ==
    ASSUME LineInv, LineInv', ValueInv,
           NEW c \in Clients, NEW kind \in {"take", "wait"}, Ask(c, kind)
    PROVE  ValueInv'
<1>1. /\ conn[c] \in Threads /\ Sent(conn[c], <<kind>>)
      /\ UNCHANGED <<last, taken, stale, disturbed, answers, doing, slot, puts>>
  BY DEF Ask, LineInv, TypeOK
<1>2. <<kind>> \in Request /\ \A v : <<kind>> # <<"put", v>>
  BY DEF Request, Gets
<1>3. \A k \in Threads : /\ requests[k] \in Seq(Request)
                         /\ requests'[k] \in {requests[k], Append(requests[k], <<kind>>)}
  BY <1>1 DEF Sent, LineInv, TypeOK
<1>4. \A k \in Threads, v \in Values :
        /\ On(requests'[k], answers'[k], doing'[k], v)
             <=> On(requests[k], answers[k], doing[k], v)
        /\ OnceOn(requests[k], answers[k], doing[k], v)
             => OnceOn(requests'[k], answers'[k], doing'[k], v)
  <2> SUFFICES ASSUME NEW k \in Threads, NEW v \in Values
               PROVE  /\ On(requests'[k], answers[k], doing[k], v)
                           <=> On(requests[k], answers[k], doing[k], v)
                      /\ OnceOn(requests[k], answers[k], doing[k], v)
                           => OnceOn(requests'[k], answers[k], doing[k], v)
    BY <1>1
  <2>1. CASE requests'[k] = requests[k]
    BY <2>1
  <2>2. CASE requests'[k] = Append(requests[k], <<kind>>)
    <3>1. <<kind>> # <<"put", v>>
      BY <1>2
    <3> QED  BY <1>2, <1>3, <2>2, <3>1, OnSent
  <2> QED  BY <1>3, <2>1, <2>2
<1>5. \A d \in Clients : last'[d] <= puts
  BY <1>1 DEF ValueInv, NotYet
<1> QED  BY <1>1, <1>4, <1>5, NothingNew DEF LineInv

\* A connection is closed, and what is on it may be lost.
LEMMA DropValues ==
    ASSUME LineInv, LineInv', ValueInv,
           \/ \E c \in Clients : Timeout(c) \/ Break(c)
           \/ \E k \in Threads : WorkerEnds(k)
    PROVE  ValueInv'
<1>1. /\ disturbed' /\ disturbed \in BOOLEAN
      /\ UNCHANGED <<last, taken, stale, doing, slot, puts>>
      /\ \A k \in Threads :
           \/ requests'[k] = requests[k] /\ answers'[k] \in {answers[k], <<>>}
           \/ requests'[k] = <<>> /\ answers'[k] = <<>>
  <2>1. CASE \E c \in Clients : Timeout(c)
    BY <2>1 DEF Timeout, LineInv, TypeOK
  <2>2. CASE \E c \in Clients : Break(c)
    <3>1. PICK c \in Clients : Break(c)
      BY <2>2
    <3>2. answers \in [Threads -> Seq(Values \cup {Empty})]
      BY DEF LineInv, TypeOK
    <3>3. \A k \in Threads : answers'[k] \in {answers[k], <<>>}
      BY <3>1, <3>2 DEF Break
    <3> QED  BY <3>1, <3>3 DEF Break, clientof, LineInv, TypeOK
  <2>3. CASE \E k \in Threads : WorkerEnds(k)
    BY <2>3 DEF WorkerEnds, clientof, counts, CalmIsUp, LineInv, TypeOK
  <2> QED  BY <2>1, <2>2, <2>3
<1>2. \A k \in Threads, v \in Values :
        /\ On(requests'[k], answers'[k], doing'[k], v)
             => On(requests[k], answers[k], doing[k], v)
        /\ OnceOn(requests[k], answers[k], doing[k], v)
             => OnceOn(requests'[k], answers'[k], doing'[k], v)
  BY <1>1, OnDropped
<1>3. \A d \in Clients : last'[d] <= puts
  BY <1>1 DEF ValueInv, NotYet
<1> QED  BY <1>1, <1>2, <1>3, NothingNew DEF LineInv

LEMMA ReceiveValues ==
    ASSUME LineInv, LineInv', ValueInv, NEW k \in Threads, Receive(k)
    PROVE  ValueInv'
<1>1. /\ doing[k] = None /\ requests[k] # <<>> /\ requests[k] \in Seq(Request)
      /\ UNCHANGED <<last, taken, stale, disturbed, answers, slot, puts>>
      /\ \A l \in Threads :
           /\ requests'[l] = IF l = k THEN Tail(requests[l]) ELSE requests[l]
           /\ doing'[l] = IF l = k THEN Head(requests[l]) ELSE doing[l]
  BY DEF Receive, clientof, counts, LineInv, TypeOK
<1>2. \A l \in Threads, v \in Values :
        /\ On(requests'[l], answers'[l], doing'[l], v)
             <=> On(requests[l], answers[l], doing[l], v)
        /\ OnceOn(requests[l], answers[l], doing[l], v)
             => OnceOn(requests'[l], answers'[l], doing'[l], v)
  BY <1>1, OnReceived
<1>3. \A d \in Clients : last'[d] <= puts
  BY <1>1 DEF ValueInv, NotYet
<1> QED  BY <1>1, <1>2, <1>3, NothingNew DEF LineInv

LEMMA PassValues ==
    ASSUME LineInv, LineInv', ValueInv, NEW k \in Threads, PassSemaphore(k)
    PROVE  ValueInv'
<1>1. /\ doing[k] # None /\ doing[k][1] = "wait" /\ Reply(k, Empty)
      /\ UNCHANGED <<last, taken, stale, disturbed, requests, slot, puts>>
      /\ \A l \in Threads : doing'[l] = IF l = k THEN None ELSE doing[l]
  BY DEF PassSemaphore, Doing, clientof, counts, LineInv, TypeOK
<1>2. doing[k] = <<"wait">>
  BY <1>1 DEF LineInv, TypeOK, Request, Gets
<1>3. \A l \in Threads : /\ answers[l] \in Seq(Values \cup {Empty})
                         /\ answers'[l] \in {answers[l], Append(answers[l], Empty)}
  BY <1>1, ReplyLine DEF LineInv, TypeOK
<1>4. \A l \in Threads, v \in Values :
        /\ On(requests'[l], answers'[l], doing'[l], v)
             <=> On(requests[l], answers[l], doing[l], v)
        /\ OnceOn(requests[l], answers[l], doing[l], v)
             => OnceOn(requests'[l], answers'[l], doing'[l], v)
  <2> SUFFICES ASSUME NEW l \in Threads, NEW v \in Values
               PROVE  /\ On(requests[l], answers'[l], doing'[l], v)
                           <=> On(requests[l], answers[l], doing[l], v)
                      /\ OnceOn(requests[l], answers[l], doing[l], v)
                           => OnceOn(requests[l], answers'[l], doing'[l], v)
    BY <1>1
  <2>1. /\ On(requests[l], answers'[l], doing[l], v)
             <=> On(requests[l], answers[l], doing[l], v)
        /\ OnceOn(requests[l], answers[l], doing[l], v)
             => OnceOn(requests[l], answers'[l], doing[l], v)
    <3>1. CASE answers'[l] = answers[l]
      BY <3>1
    <3>2. CASE answers'[l] = Append(answers[l], Empty)
      <4>1. Empty # v
        BY ThreadsAreNumbers
      <4> QED  BY <1>3, <3>2, <4>1, OnReplied
    <3> QED  BY <1>3, <3>1, <3>2
  <2>2. CASE l = k
    <3>1. <<"wait">> # <<"put", v>>
      OBVIOUS
    <3> QED  BY <1>1, <1>2, <2>1, <2>2, <3>1, OnDone
  <2>3. CASE l # k
    BY <1>1, <2>1, <2>3
  <2> QED  BY <2>2, <2>3
<1>5. \A d \in Clients : last'[d] <= puts
  BY <1>1 DEF ValueInv, NotYet
<1> QED  BY <1>1, <1>4, <1>5, NothingNew DEF LineInv

----------------------------------------------------------------------------
(* Steps that move values *)

LEMMA LastIsNumber ==
    ASSUME LineInv
    PROVE  \A c \in Clients : last[c] \in Int
<1>1. Values \cup {Empty} \subseteq Int
  BY ThreadsAreNumbers DEF Empty
<1> QED  BY <1>1 DEF LineInv, TypeOK

LEMMA PutValues ==
    ASSUME LineInv, LineInv', ValueInv, NEW c \in Clients, Put(c)
    PROVE  ValueInv'
<1>0. PICK w \in Values : w = puts + 1
  BY ThreadsAreNumbers DEF Put, LineInv, TypeOK, Values
<1> DEFINE q == <<"put", w>>
           k == conn[c]
<1>1. /\ k \in Threads /\ puts' = w /\ puts < MaxPuts /\ puts \in Nat
      /\ Sent(k, q)
      /\ UNCHANGED <<last, taken, stale, disturbed, answers, doing, slot>>
  BY <1>0, ThreadsAreNumbers DEF Put, clientof, LineInv, TypeOK
<1>2. w \in Values /\ q \in Request /\ \A v \in Values : q = <<"put", v>> => v = w
  BY DEF Request
<1>3. ~Somewhere(w)
  BY <1>0, <1>1, <1>2 DEF ValueInv, NotYet
<1>4. \A l \in Threads : /\ requests[l] \in Seq(Request)
                         /\ requests'[l] = IF l = k /\ k \in Up
                                           THEN Append(requests[l], q) ELSE requests[l]
  BY <1>1 DEF Sent, LineInv, TypeOK
<1> HIDE DEF q, k
<1>5. \A l \in Threads, v \in Values :
        /\ On(requests'[l], answers[l], doing[l], v) <=>
             \/ On(requests[l], answers[l], doing[l], v)
             \/ v = w /\ l = k /\ k \in Up
        /\ OnceOn(requests[l], answers[l], doing[l], v)
             => OnceOn(requests'[l], answers[l], doing[l], v)
  <2> SUFFICES ASSUME NEW l \in Threads, NEW v \in Values
               PROVE  /\ On(requests'[l], answers[l], doing[l], v) <=>
                           \/ On(requests[l], answers[l], doing[l], v)
                           \/ v = w /\ l = k /\ k \in Up
                      /\ OnceOn(requests[l], answers[l], doing[l], v)
                           => OnceOn(requests'[l], answers[l], doing[l], v)
    OBVIOUS
  <2>1. CASE l = k /\ k \in Up
    <3>1. requests'[l] = Append(requests[l], q)
      BY <1>4, <2>1
    <3>2. q = <<"put", v>> <=> v = w
      BY <1>2 DEF q
    <3>3. v = w => ~On(requests[l], answers[l], doing[l], v)
      BY <1>3 DEF Somewhere
    <3> QED  BY <1>2, <1>4, <2>1, <3>1, <3>2, <3>3, OnSent
  <2>2. CASE ~(l = k /\ k \in Up)
    BY <1>4, <2>2
  <2> QED  BY <2>1, <2>2
<1>6. \A v \in Values : v # w => (Somewhere(v)' <=> Somewhere(v)) /\ (Single(v) => Single(v)')
  BY <1>1, <1>5 DEF Somewhere, Single
<1>7. Single(w) => Single(w)'
  <2>1. slot # w /\ taken[w] = 0 /\ \A l \in Threads : ~On(requests[l], answers[l], doing[l], w)
    BY <1>3 DEF Somewhere
  <2>2. \A l \in Threads : On(requests'[l], answers[l], doing[l], w) => l = k
    BY <1>2, <1>5, <2>1
  <2>3. \A l \in Threads : OnceOn(requests[l], answers[l], doing[l], w)
                             => OnceOn(requests'[l], answers[l], doing[l], w)
    BY <1>2, <1>5
  <2> QED  BY <1>1, <2>1, <2>2, <2>3 DEF Single
<1>8. ~disturbed => Somewhere(w)'
  <2>1. ~disturbed => k \in Up
    BY DEF Put, LineInv, CalmIsUp, Up, k
  <2>2. k \in Up => On(requests'[k], answers[k], doing[k], w)
    BY <1>1, <1>2, <1>5
  <2> QED  BY <1>1, <2>1, <2>2 DEF Somewhere
<1>9. w \in Nat /\ w = puts + 1
  BY <1>0, <1>1
<1>10. NotYet'
  <2>1. \A v \in Values : v > w => v > puts /\ v # w
    BY <1>1, <1>9, ThreadsAreNumbers
  <2>2. ASSUME NEW v \in Values, v > w  PROVE ~Somewhere(v)'
    BY <1>6, <2>1, <2>2 DEF NotYet, ValueInv
  <2>3. ASSUME NEW d \in Clients  PROVE last[d] <= w
    <3>1. last[d] \in Int
      BY LastIsNumber
    <3>2. last[d] <= puts
      BY DEF NotYet, ValueInv
    <3> QED  BY <1>1, <1>9, <3>1, <3>2
  <2> QED  BY <1>1, <2>2, <2>3 DEF NotYet
<1>11. Once'
  <2>1. ASSUME ~stale, NEW v \in Values  PROVE Single(v)'
    <3>1. Single(v)
      BY <2>1 DEF Once, ValueInv
    <3> QED  BY <1>6, <1>7, <3>1
  <2> QED  BY <1>1, <2>1 DEF Once
<1>12. NotLost'
  <2>1. ASSUME ~disturbed, NEW v \in 0 .. w  PROVE Somewhere(v)'
    <3>1. v \in Values /\ (v = w \/ v \in 0 .. puts)
      BY <1>1, <1>9, ThreadsAreNumbers DEF Values
    <3>2. CASE v = w
      BY <1>8, <2>1, <3>2
    <3>3. CASE v # w
      <4>1. Somewhere(v)
        BY <2>1, <3>1, <3>3 DEF NotLost, ValueInv
      <4> QED  BY <1>6, <3>1, <3>3, <4>1
    <3> QED  BY <3>2, <3>3
  <2> QED  BY <1>1, <2>1 DEF NotLost
<1> QED  BY <1>10, <1>11, <1>12 DEF ValueInv

\* The answer before is taken again.
LEMMA SendFailsValues ==
    ASSUME LineInv, LineInv', ValueInv,
           NEW c \in Clients, NEW kind \in {"take", "wait"}, SendFails(c, kind)
    PROVE  ValueInv'
<1>1. UNCHANGED <<last, line, doing, slot, counts, requests, answers, puts, disturbed>>
  BY DEF SendFails, line, counts
<1>2. CASE kind = "take" /\ last[c] # Empty
  <2>1. /\ taken' = [taken EXCEPT ![last[c]] = @ + 1] /\ stale' = TRUE
        /\ last[c] \in Values /\ last[c] <= puts
    BY <1>2 DEF SendFails, LineInv, TypeOK, ValueInv, NotYet
  <2>2. \A v \in Values : Somewhere(v) => Somewhere(v)'
    BY <1>1, <2>1 DEF Somewhere, LineInv, TypeOK
  <2>3. \A v \in Values : v > puts => (Somewhere(v)' => Somewhere(v))
    BY <1>1, <2>1, ThreadsAreNumbers DEF Somewhere, LineInv, TypeOK
  <2>4. \A v \in 0 .. puts : v \in Values
    BY ThreadsAreNumbers DEF Values, LineInv, TypeOK
  <2> QED  BY <1>1, <2>1, <2>2, <2>3, <2>4 DEF ValueInv, NotYet, Once, NotLost
<1>3. CASE ~(kind = "take" /\ last[c] # Empty)
  <2>1. UNCHANGED <<taken, stale>>
    BY <1>3 DEF SendFails
  <2> QED  BY <1>1, <2>1, LinesStay
<1> QED  BY <1>2, <1>3

\* A step that moves the value w, if it is one, and no other.
LEMMA MoveOne ==
    ASSUME LineInv, LineInv', ValueInv, NEW w \in Values \cup {Empty},
           UNCHANGED <<puts, stale>>, disturbed => disturbed',
           \A v \in Values \ {w} : (slot' = v <=> slot = v) /\ taken'[v] = taken[v],
           \A v \in Values \ {w}, k \in Threads :
             /\ On(requests'[k], answers'[k], doing'[k], v)
                  <=> On(requests[k], answers[k], doing[k], v)
             /\ OnceOn(requests[k], answers[k], doing[k], v)
                  => OnceOn(requests'[k], answers'[k], doing'[k], v),
           w \in Values => /\ Somewhere(w)
                           /\ Single(w) => Single(w)'
                           /\ ~disturbed' => Somewhere(w)',
           \A c \in Clients : last'[c] <= puts
    PROVE  ValueInv'
<1>1. \A v \in Values \ {w} : (Somewhere(v)' <=> Somewhere(v)) /\ (Single(v) => Single(v)')
  BY DEF Somewhere, Single
<1>2. \A v \in Values : /\ Somewhere(v)' => Somewhere(v)
                        /\ Single(v) => Single(v)'
                        /\ ~disturbed' /\ Somewhere(v) => Somewhere(v)'
  BY <1>1
<1>3. \A v \in 0 .. puts : v \in Values
  BY ThreadsAreNumbers DEF LineInv, TypeOK, Values
<1> QED  BY <1>2, <1>3 DEF ValueInv, NotYet, Once, NotLost

\* An answer is read: what the client is given is taken.
LEMMA AnsweredValues ==
    ASSUME LineInv, LineInv', ValueInv, NEW c \in Clients, Answered(c)
    PROVE  ValueInv'
<1>0. PICK k \in Threads : k = conn[c]
  BY DEF Answered, LineInv, TypeOK
<1>1. /\ answers[k] # <<>> /\ answers[k] \in Seq(Values \cup {Empty})
      /\ asked[c] \in Gets
  BY <1>0 DEF Answered, LineInv, TypeOK
<1>2. PICK w \in Values \cup {Empty} : w = Head(answers[k])
  BY <1>1, HeadTailProperties
<1>3. /\ \A l \in Threads : answers'[l] = IF l = k THEN Tail(answers[k]) ELSE answers[l]
      /\ \A d \in Clients : last'[d] = IF d = c THEN w ELSE last[d]
      /\ UNCHANGED <<puts, stale, disturbed, slot, requests, doing>>
  BY <1>0, <1>2 DEF Answered, LineInv, TypeOK, counts
<1>4. /\ asked[c] = <<"take">> /\ w # Empty =>
           \A v \in Values : taken'[v] = IF v = w THEN taken[v] + 1 ELSE taken[v]
      /\ asked[c] # <<"take">> => taken' = taken
      /\ w = Empty => taken' = taken
  <2>1. asked[c][1] = "take" <=> asked[c] = <<"take">>
    BY <1>1 DEF Gets
  <2> QED  BY <1>0, <1>2, <2>1 DEF Answered, LineInv, TypeOK
<1>5. \A v \in Values :
        /\ On(requests[k], answers[k], doing[k], v)
             <=> On(requests[k], Tail(answers[k]), doing[k], v) \/ w = v
        /\ OnceOn(requests[k], answers[k], doing[k], v) =>
             /\ OnceOn(requests[k], Tail(answers[k]), doing[k], v)
             /\ w = v => ~On(requests[k], Tail(answers[k]), doing[k], v)
  BY <1>1, <1>2, OnRead
<1>6. \A v \in Values \ {w} : (slot' = v <=> slot = v) /\ taken'[v] = taken[v]
  BY <1>1, <1>3, <1>4
<1>7. \A v \in Values \ {w}, l \in Threads :
        /\ On(requests'[l], answers'[l], doing'[l], v)
             <=> On(requests[l], answers[l], doing[l], v)
        /\ OnceOn(requests[l], answers[l], doing[l], v)
             => OnceOn(requests'[l], answers'[l], doing'[l], v)
  BY <1>3, <1>5
<1>8. ASSUME w \in Values
      PROVE  /\ Somewhere(w)
             /\ Single(w) => Single(w)'
             /\ ~disturbed' => Somewhere(w)'
  <2>1. On(requests[k], answers[k], doing[k], w)
    BY <1>5, <1>8
  <2>2. Somewhere(w)
    BY <2>1 DEF Somewhere
  <2>3. ASSUME Single(w)  PROVE Single(w)'
    <3>1. /\ slot # w /\ taken[w] = 0
          /\ \A l \in Threads \ {k} : ~On(requests[l], answers[l], doing[l], w)
          /\ \A l \in Threads : OnceOn(requests[l], answers[l], doing[l], w)
      BY <2>1, <2>3 DEF Single
    <3>2. \A l \in Threads : /\ ~On(requests'[l], answers'[l], doing'[l], w)
                             /\ OnceOn(requests'[l], answers'[l], doing'[l], w)
      BY <1>3, <1>5, <1>8, <3>1
    <3>3. slot' # w /\ taken'[w] \in {0, 1}
      BY <1>3, <1>4, <1>8, <3>1
    <3> QED  BY <3>2, <3>3 DEF Single
  <2>4. ASSUME ~disturbed  PROVE Somewhere(w)'
    <3>1. conn[c] \in Up /\ c \notin late
      BY <1>0, <2>4, ThreadsAreNumbers DEF LineInv, CalmIsUp, Up
    <3>2. Pending(requests[k], answers[k], doing[k], asked[c])
      BY <1>0, <3>1 DEF LineInv, Agreed, Answered
    <3>3. asked[c] # <<"wait">>
      <4>1. asked[c] = <<"wait">> => w = Empty
        BY <1>1, <1>2, <3>2, ReadAnswer
      <4> QED  BY <1>8, <4>1, ThreadsAreNumbers
    <3>4. asked[c] = <<"take">> /\ w # Empty
      BY <1>1, <1>8, <3>3, ThreadsAreNumbers DEF Gets
    <3>5. taken'[w] = taken[w] + 1 /\ taken[w] \in Nat
      BY <1>4, <1>8, <3>4 DEF LineInv, TypeOK
    <3>6. taken'[w] # 0
      BY <3>5
    <3> QED  BY <3>6 DEF Somewhere
  <2> QED  BY <1>3, <2>2, <2>3, <2>4
<1>9. \A d \in Clients : last'[d] <= puts
  <2>1. w <= puts
    <3>1. CASE w = Empty
      BY <3>1, ThreadsAreNumbers DEF Empty, LineInv, TypeOK
    <3>2. CASE w \in Values
      <4>1. ~(w > puts)
        BY <1>8, <3>2 DEF ValueInv, NotYet
      <4> QED  BY <3>2, <4>1, ThreadsAreNumbers DEF LineInv, TypeOK
    <3> QED  BY <3>1, <3>2
  <2> QED  BY <1>3, <2>1 DEF ValueInv, NotYet
<1>10. UNCHANGED <<puts, stale, disturbed>>
  BY <1>3
<1> QED  BY <1>6, <1>7, <1>8, <1>9, <1>10, MoveOne

\* A put is stored.
LEMMA StoreValues ==
    ASSUME LineInv, LineInv', ValueInv, NEW k \in Threads, Store(k)
    PROVE  ValueInv'
<1>1. PICK w \in Values : doing[k] = <<"put", w>>
  <2>1. doing[k] \in Request /\ doing[k][1] = "put"
    BY DEF Store, Doing, LineInv, TypeOK
  <2>2. doing[k] \notin Gets
    BY <2>1 DEF Gets
  <2> QED  BY <2>1, <2>2 DEF Request
<1>2. /\ slot = Empty /\ slot' = w
      /\ \A l \in Threads : doing'[l] = IF l = k THEN None ELSE doing[l]
      /\ UNCHANGED <<taken, puts, stale, disturbed, last, requests, answers>>
  BY <1>1 DEF Store, LineInv, TypeOK, clientof, line, counts
<1>3. \A v \in Values :
        /\ On(requests[k], answers[k], doing[k], v)
             <=> On(requests[k], answers[k], None, v) \/ v = w
        /\ OnceOn(requests[k], answers[k], doing[k], v) =>
             /\ OnceOn(requests[k], answers[k], None, v)
             /\ v = w => ~On(requests[k], answers[k], None, v)
  <2> SUFFICES ASSUME NEW v \in Values
               PROVE  /\ On(requests[k], answers[k], doing[k], v)
                           <=> On(requests[k], answers[k], None, v) \/ v = w
                      /\ OnceOn(requests[k], answers[k], doing[k], v) =>
                           /\ OnceOn(requests[k], answers[k], None, v)
                           /\ v = w => ~On(requests[k], answers[k], None, v)
    OBVIOUS
  <2>1. doing[k] = <<"put", v>> <=> v = w
    BY <1>1
  <2> QED  BY <2>1, OnDone
<1>4. \A v \in Values \ {w} : (slot' = v <=> slot = v) /\ taken'[v] = taken[v]
  BY <1>2, ThreadsAreNumbers
<1>5. \A v \in Values \ {w}, l \in Threads :
        /\ On(requests'[l], answers'[l], doing'[l], v)
             <=> On(requests[l], answers[l], doing[l], v)
        /\ OnceOn(requests[l], answers[l], doing[l], v)
             => OnceOn(requests'[l], answers'[l], doing'[l], v)
  BY <1>2, <1>3
<1>6. On(requests[k], answers[k], doing[k], w)
  BY <1>3
<1>7. Somewhere(w) /\ Somewhere(w)'
  BY <1>2, <1>6 DEF Somewhere
<1>8. ASSUME Single(w)  PROVE Single(w)'
  <2>1. /\ taken[w] = 0
        /\ \A l \in Threads \ {k} : ~On(requests[l], answers[l], doing[l], w)
        /\ \A l \in Threads : OnceOn(requests[l], answers[l], doing[l], w)
    BY <1>6, <1>8 DEF Single
  <2>2. \A l \in Threads : /\ ~On(requests'[l], answers'[l], doing'[l], w)
                           /\ OnceOn(requests'[l], answers'[l], doing'[l], w)
    BY <1>2, <1>3, <2>1
  <2>3. taken'[w] = 0
    BY <1>2, <2>1
  <2> QED  BY <2>2, <2>3 DEF Single
<1>9. \A d \in Clients : last'[d] <= puts
  BY <1>2 DEF ValueInv, NotYet
<1>10. UNCHANGED <<puts, stale, disturbed>>
  BY <1>2
<1> QED  BY <1>4, <1>5, <1>7, <1>8, <1>9, <1>10, MoveOne

\* getIntAndReset empties the integer and sends what was in it.
LEMMA TakeValues ==
    ASSUME LineInv, LineInv', ValueInv, NEW k \in Threads, TakeAndReset(k)
    PROVE  ValueInv'
<1>0. PICK w \in Values \cup {Empty} : w = slot
  BY DEF LineInv, TypeOK
<1>1. /\ requests[k] # <<>> /\ requests[k] \in Seq(Request)
      /\ answers[k] \in Seq(Values \cup {Empty})
      /\ doing[k] = None /\ Head(requests[k]) = <<"take">>
  BY DEF TakeAndReset, LineInv, TypeOK
<1>2. /\ slot' = Empty
      /\ \A l \in Threads :
           /\ requests'[l] = IF l = k THEN Tail(requests[k]) ELSE requests[l]
           /\ answers'[l] = IF l = k /\ k \notin shut THEN Append(answers[k], w) ELSE answers[l]
      /\ UNCHANGED <<taken, puts, stale, disturbed, last, doing>>
  BY <1>0 DEF TakeAndReset, Reply, LineInv, TypeOK, clientof, counts
<1>3. \A v :
        /\ On(Tail(requests[k]), answers[k], None, v) <=> On(requests[k], answers[k], None, v)
        /\ OnceOn(requests[k], answers[k], None, v)
             => OnceOn(Tail(requests[k]), answers[k], None, v)
  <2> TAKE v
  <2>1. <<"take">> # <<"put", v>>
    OBVIOUS
  <2>2. /\ On(Tail(requests[k]), answers[k], <<"take">>, v)
             <=> On(requests[k], answers[k], None, v)
        /\ OnceOn(requests[k], answers[k], None, v)
             => OnceOn(Tail(requests[k]), answers[k], <<"take">>, v)
    BY <1>1, OnReceived
  <2> QED  BY <2>1, <2>2, OnDone
<1>4. Tail(requests[k]) \in Seq(Request)
  BY <1>1, HeadTailProperties
<1>5. \A v \in Values :
        /\ On(requests'[k], answers'[k], doing'[k], v) <=>
             On(requests[k], answers[k], doing[k], v) \/ (w = v /\ k \notin shut)
        /\ OnceOn(requests[k], answers[k], doing[k], v)
           /\ ~(w = v /\ On(requests[k], answers[k], doing[k], v))
             => OnceOn(requests'[k], answers'[k], doing'[k], v)
  <2> SUFFICES ASSUME NEW v \in Values
               PROVE  /\ On(requests'[k], answers'[k], None, v) <=>
                           On(requests[k], answers[k], None, v) \/ (w = v /\ k \notin shut)
                      /\ OnceOn(requests[k], answers[k], None, v)
                         /\ ~(w = v /\ On(requests[k], answers[k], None, v))
                           => OnceOn(requests'[k], answers'[k], None, v)
    BY <1>1, <1>2
  <2>1. CASE k \in shut
    BY <1>2, <1>3, <2>1
  <2>2. CASE k \notin shut
    <3>1. requests'[k] = Tail(requests[k]) /\ answers'[k] = Append(answers[k], w)
      BY <1>2, <2>2
    <3>2. /\ On(Tail(requests[k]), Append(answers[k], w), None, v)
               <=> On(Tail(requests[k]), answers[k], None, v) \/ w = v
          /\ OnceOn(Tail(requests[k]), answers[k], None, v)
             /\ ~(w = v /\ On(Tail(requests[k]), answers[k], None, v))
               => OnceOn(Tail(requests[k]), Append(answers[k], w), None, v)
      BY <1>1, OnReplied
    <3> QED  BY <1>3, <2>2, <3>1, <3>2
  <2> QED  BY <2>1, <2>2
<1>6. \A v \in Values \ {w} : (slot' = v <=> slot = v) /\ taken'[v] = taken[v]
  BY <1>0, <1>2, ThreadsAreNumbers
<1>7. \A v \in Values \ {w}, l \in Threads :
        /\ On(requests'[l], answers'[l], doing'[l], v)
             <=> On(requests[l], answers[l], doing[l], v)
        /\ OnceOn(requests[l], answers[l], doing[l], v)
             => OnceOn(requests'[l], answers'[l], doing'[l], v)
  BY <1>2, <1>5
<1>8. ASSUME w \in Values
      PROVE  /\ Somewhere(w)
             /\ Single(w) => Single(w)'
             /\ ~disturbed' => Somewhere(w)'
  <2>1. Somewhere(w)
    BY <1>0 DEF Somewhere
  <2>2. ASSUME Single(w)  PROVE Single(w)'
    <3>1. /\ taken[w] = 0
          /\ \A l \in Threads : /\ ~On(requests[l], answers[l], doing[l], w)
                               /\ OnceOn(requests[l], answers[l], doing[l], w)
      BY <1>0, <1>8, <2>2 DEF Single, LineInv, TypeOK
    <3>2. \A l \in Threads : /\ OnceOn(requests'[l], answers'[l], doing'[l], w)
                             /\ On(requests'[l], answers'[l], doing'[l], w) => l = k
      BY <1>2, <1>5, <1>8, <3>1
    <3>3. slot' # w /\ taken'[w] = 0
      BY <1>2, <1>8, <3>1, ThreadsAreNumbers
    <3> QED  BY <3>2, <3>3 DEF Single
  <2>3. ASSUME ~disturbed  PROVE Somewhere(w)'
    <3>1. k \notin shut
      BY <2>3 DEF LineInv, CalmIsUp
    <3>2. On(requests'[k], answers'[k], doing'[k], w)
      BY <1>5, <1>8, <3>1
    <3> QED  BY <3>2 DEF Somewhere
  <2> QED  BY <1>2, <2>1, <2>2, <2>3
<1>9. \A d \in Clients : last'[d] <= puts
  BY <1>2 DEF ValueInv, NotYet
<1>10. UNCHANGED <<puts, stale, disturbed>>
  BY <1>2
<1> QED  BY <1>6, <1>7, <1>8, <1>9, <1>10, MoveOne

----------------------------------------------------------------------------
(* The invariant holds *)

LEMMA NextValues ==
    ASSUME LineInv, LineInv', ValueInv, [Next]_vars
    PROVE  ValueInv'
<1>1. CASE UNCHANGED vars
  BY <1>1, LinesStay DEF vars, line, clientof, counts
<1>2. ASSUME NEW c \in Clients, Connect(c)  PROVE ValueInv'
  BY <1>2, LinesStay DEF Connect, counts
<1>3. ASSUME NEW c \in Clients, ReadFails(c)  PROVE ValueInv'
  <2>1. \A d \in Clients : last'[d] \in {last[d], Empty}
    BY <1>3 DEF ReadFails, LineInv, TypeOK
  <2> QED  BY <1>3, <2>1, LinesStay DEF ReadFails, counts, line
<1>4. ASSUME NEW c \in Clients, WaitTimeout(c)  PROVE ValueInv'
  BY <1>4, LinesStay DEF WaitTimeout
<1>5. CASE SetInt0Semaphore
  BY <1>5, LinesStay DEF SetInt0Semaphore, line, clientof
<1>6. ASSUME NEW k \in Threads, SleepOnSemaphore(k)  PROVE ValueInv'
  BY <1>6, LinesStay DEF SleepOnSemaphore, line, clientof, counts
<1>7. ASSUME NEW c \in Clients,
             \/ Put(c)
             \/ \E kind \in {"take", "wait"} : Ask(c, kind) \/ SendFails(c, kind)
             \/ Answered(c) \/ Timeout(c) \/ Break(c)
      PROVE  ValueInv'
  BY <1>7, PutValues, AskValues, SendFailsValues, AnsweredValues, DropValues
<1>8. ASSUME NEW k \in Threads, Worker(k)  PROVE ValueInv'
  BY <1>8, ReceiveValues, StoreValues, TakeValues, PassValues, DropValues DEF Worker
<1> QED
  BY <1>1, <1>2, <1>3, <1>4, <1>5, <1>6, <1>7, <1>8 DEF Next

\* The inductive invariant: what is on the connections and where the values are.
THEOREM Inductive == Spec => []IInv
<1>1. Init => IInv
  BY InitLine, InitValues DEF IInv, ValueInv
<1>2. IInv /\ [Next]_vars => IInv'
  BY NextLine, NextValues DEF IInv, ValueInv
<1> QED  BY <1>1, <1>2, PTL DEF Spec

\* The state stays in its type; in particular the semaphore of integer 0 never
\* goes below zero although each thread takes from it.
THEOREM TypeCorrect == Spec => []TypeOK
<1>1. LineInv => TypeOK
  BY DEF LineInv
<1> QED  BY <1>1, LinesInductive, PTL

----------------------------------------------------------------------------
(* Every client gets the answer to what it has asked *)

LEMMA DueIs ==
    ASSUME NEW k, NEW p
    PROVE  p \in Due(k) <=>
             \/ \E i \in DOMAIN answers[k] : p = <<"answer", i>>
             \/ doing[k] \in Gets /\ p = <<"doing", doing[k]>>
             \/ \E i \in DOMAIN requests[k] :
                  requests[k][i] \in Gets /\ p = <<"request", i>>
<1>1. p \in {"answer"} \X DOMAIN answers[k]
        <=> \E i \in DOMAIN answers[k] : p = <<"answer", i>>
  OBVIOUS
<1>2. p \in {"doing"} \X ({doing[k]} \cap Gets)
        <=> doing[k] \in Gets /\ p = <<"doing", doing[k]>>
  <2>1. p \in {"doing"} \X ({doing[k]} \cap Gets)
          <=> \E g \in {doing[k]} \cap Gets : p = <<"doing", g>>
    OBVIOUS
  <2> QED  BY <2>1
<1>3. p \in {"request"} \X {i \in DOMAIN requests[k] : requests[k][i] \in Gets}
        <=> \E i \in DOMAIN requests[k] : requests[k][i] \in Gets /\ p = <<"request", i>>
  <2>1. p \in {"request"} \X {i \in DOMAIN requests[k] : requests[k][i] \in Gets}
          <=> \E i \in {i \in DOMAIN requests[k] : requests[k][i] \in Gets} :
                p = <<"request", i>>
    OBVIOUS
  <2> QED  BY <2>1
<1> QED  BY <1>1, <1>2, <1>3 DEF Due

LEMMA QuietIsDone ==
    ASSUME TypeOK, NEW k \in Threads, Quiet(requests[k], answers[k], doing[k])
    PROVE  Cardinality(Due(k)) = 0
<1>1. DOMAIN requests[k] = 1 .. Len(requests[k]) /\ DOMAIN answers[k] = {}
  BY DEF TypeOK, Quiet
<1>2. Due(k) = {}
  BY <1>1, DueIs DEF Quiet, NoGets
<1> QED  BY <1>2, FS_EmptySet

LEMMA PendingIsOne ==
    ASSUME TypeOK, NEW k \in Threads, NEW g \in Gets,
           Pending(requests[k], answers[k], doing[k], g)
    PROVE  Cardinality(Due(k)) = 1
<1>1. /\ DOMAIN requests[k] = 1 .. Len(requests[k])
      /\ DOMAIN answers[k] = 1 .. Len(answers[k])
      /\ requests[k] \in Seq(Request)
  BY DEF TypeOK
<1>2. \E p : Due(k) = {p}
  <2>1. CASE Len(answers[k]) = 1 /\ doing[k] \notin Gets /\ NoGets(requests[k])
    <3>1. Due(k) = {<<"answer", 1>>}
      BY <1>1, <2>1, DueIs DEF NoGets
    <3> QED  BY <3>1
  <2>2. CASE answers[k] = <<>> /\ doing[k] = g /\ NoGets(requests[k])
    <3>1. Due(k) = {<<"doing", g>>}
      BY <1>1, <2>2, DueIs DEF NoGets
    <3> QED  BY <3>1
  <2>3. CASE /\ answers[k] = <<>> /\ doing[k] \notin Gets
             /\ requests[k] # <<>> /\ requests[k][Len(requests[k])] = g
             /\ \A i \in 1 .. Len(requests[k]) - 1 : requests[k][i] \notin Gets
    <3>1. Len(requests[k]) \in 1 .. Len(requests[k])
      BY <1>1, <2>3, EmptySeq, LenProperties
    <3>2. \A i \in 1 .. Len(requests[k]) : requests[k][i] \in Gets <=> i = Len(requests[k])
      BY <1>1, <2>3, <3>1
    <3>3. Due(k) = {<<"request", Len(requests[k])>>}
      BY <1>1, <2>3, <3>1, <3>2, DueIs
    <3> QED  BY <3>3
  <2> QED  BY <2>1, <2>2, <2>3 DEF Pending
<1> QED  BY <1>2, FS_Singleton

\* getIntAndReset and getInt0Semaphore return the answer to their own request,
\* because readStr's time-out leaves the connection and no client has two
\* requests on its way; except after getInt0Semaphore has timed out.
THEOREM AnswersCorrect == Spec => []AnswerMatches
<1>1. LineInv => AnswerMatches
  <2> SUFFICES ASSUME LineInv, NEW c \in Clients, conn[c] \in Up, c \notin late
               PROVE  Cardinality(Due(conn[c])) = IF asked[c] = None THEN 0 ELSE 1
    BY DEF AnswerMatches
  <2>1. conn[c] \in Threads /\ TypeOK /\ asked[c] \in Gets \cup {None}
    BY DEF LineInv, TypeOK, Up
  <2>2. IF asked[c] = None
        THEN Quiet(requests[conn[c]], answers[conn[c]], doing[conn[c]])
        ELSE Pending(requests[conn[c]], answers[conn[c]], doing[conn[c]], asked[c])
    BY DEF LineInv, Agreed
  <2> QED  BY <2>1, <2>2, QuietIsDone, PendingIsOne
<1> QED  BY <1>1, LinesInductive, PTL

----------------------------------------------------------------------------
(* A value is in one place *)

\* The place p of the value v is the integer, a getIntAndReset that is over, the
\* hands of thread k, or a line on its connection.
Here(v, p) == slot = v /\ p = <<"slot", v, 0>>
Took(v, p) == \E i \in 1 .. taken[v] : p = <<"taken", v, i>>
Held(v, k, p) == doing[k] = <<"put", v>> /\ p = <<"doing", k, 0>>
Req(v, k, p) == \E i \in 1 .. Len(requests[k]) :
                  requests[k][i] = <<"put", v>> /\ p = <<"request", k, i>>
Ans(v, k, p) == \E i \in 1 .. Len(answers[k]) :
                  answers[k][i] = v /\ p = <<"answer", k, i>>

LEMMA PlaceIs ==
    ASSUME TypeOK, NEW v, NEW p
    PROVE  p \in Places(v) <=>
             \/ Here(v, p) \/ Took(v, p)
             \/ \E k \in Threads : Held(v, k, p) \/ Req(v, k, p) \/ Ans(v, k, p)
<1> DEFINE R(k) == In(requests[k], <<"put", v>>)
           A(k) == In(answers[k], v)
<1>1. p \in {"slot"} \X ({slot} \cap {v}) \X {0} <=> Here(v, p)
  <2>1. p \in {"slot"} \X ({slot} \cap {v}) \X {0}
          <=> \E x \in {slot} \cap {v} : p = <<"slot", x, 0>>
    OBVIOUS
  <2> QED  BY <2>1 DEF Here
<1>2. p \in {"taken"} \X {v} \X (1 .. taken[v]) <=> Took(v, p)
  <2> DEFINE N == 1 .. taken[v]
  <2> HIDE DEF N
  <2>1. p \in {"taken"} \X {v} \X N <=> \E i \in N : p = <<"taken", v, i>>
    OBVIOUS
  <2> QED  BY <2>1 DEF N, Took
<1>3. p \in {"doing"} \X In(doing, <<"put", v>>) \X {0} <=> \E k \in Threads : Held(v, k, p)
  <2> DEFINE N == In(doing, <<"put", v>>)
  <2>1. \A k : k \in N <=> k \in Threads /\ doing[k] = <<"put", v>>
    BY DEF In, TypeOK
  <2> HIDE DEF N
  <2>2. p \in {"doing"} \X N \X {0} <=> \E k \in N : p = <<"doing", k, 0>>
    OBVIOUS
  <2> QED  BY <2>1, <2>2 DEF N, Held
<1>4. \A k \in Threads : p \in {"request"} \X {k} \X R(k) <=> Req(v, k, p)
  <2> TAKE k \in Threads
  <2>1. \A i : i \in R(k) <=> i \in 1 .. Len(requests[k]) /\ requests[k][i] = <<"put", v>>
    BY DEF In, TypeOK
  <2> HIDE DEF R
  <2>2. p \in {"request"} \X {k} \X R(k) <=> \E i \in R(k) : p = <<"request", k, i>>
    OBVIOUS
  <2> QED  BY <2>1, <2>2 DEF Req
<1>5. \A k \in Threads : p \in {"answer"} \X {k} \X A(k) <=> Ans(v, k, p)
  <2> TAKE k \in Threads
  <2>1. \A i : i \in A(k) <=> i \in 1 .. Len(answers[k]) /\ answers[k][i] = v
    BY DEF In, TypeOK
  <2> HIDE DEF A
  <2>2. p \in {"answer"} \X {k} \X A(k) <=> \E i \in A(k) : p = <<"answer", k, i>>
    OBVIOUS
  <2> QED  BY <2>1, <2>2 DEF Ans
<1>6. p \in UNION {{"request"} \X {k} \X R(k) : k \in Threads}
        <=> \E k \in Threads : p \in {"request"} \X {k} \X R(k)
  <2> HIDE DEF R
  <2> QED  OBVIOUS
<1>7. p \in UNION {{"answer"} \X {k} \X A(k) : k \in Threads}
        <=> \E k \in Threads : p \in {"answer"} \X {k} \X A(k)
  <2> HIDE DEF A
  <2> QED  OBVIOUS
<1>8. p \in Places(v) <=>
        \/ p \in {"slot"} \X ({slot} \cap {v}) \X {0}
        \/ p \in {"taken"} \X {v} \X (1 .. taken[v])
        \/ p \in {"doing"} \X In(doing, <<"put", v>>) \X {0}
        \/ p \in UNION {{"request"} \X {k} \X R(k) : k \in Threads}
        \/ p \in UNION {{"answer"} \X {k} \X A(k) : k \in Threads}
  BY DEF Places
<1> HIDE DEF R, A
<1> QED  BY <1>1, <1>2, <1>3, <1>4, <1>5, <1>6, <1>7, <1>8, Zenon

LEMMA NowhereIsLost ==
    ASSUME TypeOK, NEW v \in Values, Places(v) = {}
    PROVE  ~Somewhere(v)
<1>1. ASSUME NEW p
      PROVE  /\ ~Here(v, p) /\ ~Took(v, p)
             /\ \A k \in Threads : ~Held(v, k, p) /\ ~Req(v, k, p) /\ ~Ans(v, k, p)
  BY PlaceIs
<1>2. slot # v /\ taken[v] = 0
  <2>1. slot # v
    BY <1>1 DEF Here
  <2>2. taken[v] # 0 => 1 \in 1 .. taken[v]
    BY DEF TypeOK
  <2> QED  BY <1>1, <2>1, <2>2 DEF Took
<1>3. ASSUME NEW k \in Threads  PROVE ~On(requests[k], answers[k], doing[k], v)
  <2>1. doing[k] # <<"put", v>>
    BY <1>1 DEF Held
  <2>2. ~Has(requests[k], <<"put", v>>)
    BY <1>1 DEF Req, Has
  <2>3. ~Has(answers[k], v)
    BY <1>1 DEF Ans, Has
  <2> QED  BY <2>1, <2>2, <2>3 DEF On
<1> QED  BY <1>2, <1>3 DEF Somewhere

LEMMA SingleIsOnce ==
    ASSUME TypeOK, NEW v \in Values, Single(v)
    PROVE  Cardinality(Places(v)) <= 1
<1>1. ASSUME NEW p \in Places(v)
      PROVE  \/ Here(v, p) \/ Took(v, p)
             \/ \E k \in Threads : Held(v, k, p) \/ Req(v, k, p) \/ Ans(v, k, p)
  BY PlaceIs
<1>2. ASSUME NEW k, NEW p, Held(v, k, p) \/ Req(v, k, p) \/ Ans(v, k, p)
      PROVE  On(requests[k], answers[k], doing[k], v)
  BY <1>2 DEF On, Has, Held, Req, Ans
<1>3. ASSUME NEW k \in Threads, NEW p, NEW q,
             Held(v, k, p) \/ Req(v, k, p) \/ Ans(v, k, p),
             Held(v, k, q) \/ Req(v, k, q) \/ Ans(v, k, q)
      PROVE  p = q
  <2>1. OnceOn(requests[k], answers[k], doing[k], v)
    BY DEF Single
  <2>2. Req(v, k, p) => Has(requests[k], <<"put", v>>)
    BY DEF Has, Req
  <2>3. Req(v, k, q) => Has(requests[k], <<"put", v>>)
    BY DEF Has, Req
  <2>4. (Ans(v, k, p) => Has(answers[k], v)) /\ (Ans(v, k, q) => Has(answers[k], v))
    BY DEF Has, Ans
  <2>5. Req(v, k, p) /\ Req(v, k, q) => p = q
    BY <2>1 DEF OnceOn, Unique, Req
  <2>6. Ans(v, k, p) /\ Ans(v, k, q) => p = q
    BY <2>1 DEF OnceOn, Unique, Ans
  <2>7. Held(v, k, p) /\ Held(v, k, q) => p = q
    BY DEF Held
  <2>8. Held(v, k, p) \/ Held(v, k, q) => doing[k] = <<"put", v>>
    BY DEF Held
  <2> QED  BY <1>3, <2>1, <2>2, <2>3, <2>4, <2>5, <2>6, <2>7, <2>8 DEF OnceOn
<1>4. taken[v] \in {0, 1} /\ ~(slot = v /\ taken[v] # 0)
  BY DEF Single, TypeOK
<1>5. ASSUME NEW p, NEW q, Here(v, p) \/ Took(v, p), Here(v, q) \/ Took(v, q)
      PROVE  p = q
  <2>1. Took(v, p) => p = <<"taken", v, 1>> /\ taken[v] # 0
    BY <1>4 DEF Took
  <2>2. Took(v, q) => q = <<"taken", v, 1>> /\ taken[v] # 0
    BY <1>4 DEF Took
  <2> QED  BY <1>4, <1>5, <2>1, <2>2 DEF Here
<1>6. \A p : Here(v, p) \/ Took(v, p) => slot = v \/ taken[v] # 0
  <2>1. taken[v] = 0 => 1 .. taken[v] = {}
    OBVIOUS
  <2> QED  BY <2>1 DEF Here, Took
<1>7. \A k \in Threads : On(requests[k], answers[k], doing[k], v) =>
        /\ slot # v /\ taken[v] = 0
        /\ \A l \in Threads : On(requests[l], answers[l], doing[l], v) => l = k
  BY DEF Single
<1>8. ASSUME NEW p \in Places(v), NEW q \in Places(v)  PROVE p = q
  <2>1. CASE (Here(v, p) \/ Took(v, p)) /\ (Here(v, q) \/ Took(v, q))
    BY <1>5, <2>1
  <2>2. CASE /\ \E k \in Threads : Held(v, k, p) \/ Req(v, k, p) \/ Ans(v, k, p)
             /\ \E k \in Threads : Held(v, k, q) \/ Req(v, k, q) \/ Ans(v, k, q)
    <3>1. PICK k \in Threads : Held(v, k, p) \/ Req(v, k, p) \/ Ans(v, k, p)
      BY <2>2
    <3>2. PICK l \in Threads : Held(v, l, q) \/ Req(v, l, q) \/ Ans(v, l, q)
      BY <2>2
    <3>3. l = k
      BY <1>2, <1>7, <3>1, <3>2
    <3> QED  BY <1>3, <3>1, <3>2, <3>3
  <2>3. CASE /\ Here(v, p) \/ Took(v, p)
             /\ \E k \in Threads : Held(v, k, q) \/ Req(v, k, q) \/ Ans(v, k, q)
    BY <1>2, <1>6, <1>7, <2>3
  <2>4. CASE /\ Here(v, q) \/ Took(v, q)
             /\ \E k \in Threads : Held(v, k, p) \/ Req(v, k, p) \/ Ans(v, k, p)
    BY <1>2, <1>6, <1>7, <2>4
  <2> QED  BY <1>1, <2>1, <2>2, <2>3, <2>4
<1>9. Places(v) = {} \/ \E p : Places(v) = {p}
  BY <1>8
<1>10. Cardinality(Places(v)) = 0 \/ Cardinality(Places(v)) = 1
  BY <1>9, FS_EmptySet, FS_Singleton
<1> QED  BY <1>10

\* No value of setIntAndWaitForReset is returned twice by getIntAndReset, and none
\* is lost before a time-out or a broken connection; except for the answer that
\* getIntAndReset finds in its line again when its send fails.
THEOREM OnceOnly == Spec => []ExactlyOnce
<1>1. IInv => ExactlyOnce
  <2> SUFFICES ASSUME IInv, NEW v \in 0 .. puts
               PROVE  /\ ~stale => Cardinality(Places(v)) <= 1
                      /\ Places(v) = {} => disturbed
    BY DEF ExactlyOnce
  <2>1. TypeOK /\ v \in Values
    BY ThreadsAreNumbers DEF IInv, LineInv, TypeOK, Values
  <2>2. ~stale => Single(v)
    BY <2>1 DEF IInv, Once
  <2>3. ~disturbed => Somewhere(v)
    BY DEF IInv, NotLost
  <2> QED  BY <2>1, <2>2, <2>3, SingleIsOnce, NowhereIsLost
<1> QED  BY <1>1, Inductive, PTL
=============================================================================
