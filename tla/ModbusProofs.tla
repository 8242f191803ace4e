---------------------------- MODULE ModbusProofs ----------------------------
(***************************************************************************)
(* Proofs about the Modbus daemon for any number of cycles, commands and   *)
(* faults, and any size of the mailbox.                                    *)
(*                                                                         *)
(* AnswerMatches is inductive together with the lock (Locked: who is in a  *)
(* transaction holds it, so there is one at most), with what can be on the *)
(* line at every point of a transaction (LineOK: one request, or its       *)
(* answer, or nothing; nothing at all outside of one, since every error    *)
(* closes the connection) and with what the main thread holds (GotOK).     *)
(* NoStaleCommand needs that the mailbox is fresh once it is cleared, and  *)
(* TornOnlyByOwnUnlock who holds the lock of the shared memory: the        *)
(* pvserver, as long as none of its threads has joined another one.        *)
(* The bounds in TypeOK come from TInv, which counts the commands in every *)
(* place they can be in (Counted) and the restarts (Restarted).            *)
(***************************************************************************)
EXTENDS ModbusDaemon, FiniteSetTheorems, TLAPS

Actors == {"main", "reader", "client"}

Places == {"round", "lock", "request", "head", "body", "hung", "store", "copy",
           "clear", "read", "ended", "idle", "send"}

\* The places of a transaction.
Busy == {"request", "head", "body", "hung"}

Types ==
    /\ pc \in [Actors -> Places]
    /\ k \in Regions
    /\ lock \in Daemon \cup {Nobody}
    /\ request = [t \in Daemon |-> request[t]]
    /\ shm = [r \in Regions |-> shm[r]]
    /\ starts \in Nat
    /\ mailbox \in Seq(Sizes \X Targets \X Nat)
    /\ pc["client"] = "send" => writing \in Sizes \X Targets

Locked == \A t \in Daemon : pc[t] \in Busy <=> lock = t

\* What is on the line when t waits for the first bytes of its answer ...
Awaiting(t) ==
    \/ asked = <<request[t]>> /\ answers = <<>>
    \/ asked = <<>> /\ answers = <<>>
    \/ asked = <<>> /\ answers = << <<request[t], "exception", 0>> >>
    \/ /\ asked = <<>>
       /\ \E v : answers = << <<request[t], "head", 0>>, <<request[t], "body", v>> >>

\* ... and for the rest.
Reading(t) ==
    /\ asked = <<>>
    /\ \E v : answers = << <<request[t], "body", v>> >>

LineOK ==
    /\ \A t \in Daemon : pc[t] = "head" => Awaiting(t)
    /\ \A t \in Daemon : pc[t] = "body" => Reading(t)
    /\ (\A t \in Daemon : pc[t] \notin {"head", "body"}) => asked = <<>> /\ answers = <<>>

\* The main thread asks for the region of its cycle and holds a value of it.
GotOK ==
    /\ pc["main"] \in {"request", "head", "body"} => request["main"][2] = k
    /\ pc["main"] \notin {"store", "copy"} => got = None
    /\ got # None => got[1] = k
    /\ \A r \in Regions : shm[r] # None => shm[r][1] = r

Fresh ==
    /\ pc["reader"] # "clear" => \A i \in DOMAIN mailbox : mailbox[i][3] = starts
    /\ NoStaleCommand

FlockOK ==
    /\ viewing \in Nat
    /\ viewing > 1 => shared
    /\ viewing > 0 /\ ~shared => flock = "pvserver"
    /\ pc["main"] = "copy" /\ ~writeErrors => flock = "daemon"
    /\ pc["reader"] \in {"store", "copy"} => writeErrors

IInv == Types /\ Locked /\ LineOK /\ GotOK /\ Fresh /\ FlockOK

\* The daemon threads' part of TypeOK, with what a thread asks for ...
Holding == {"lock", "request", "head", "body", "hung"}

Held ==
    /\ request \in [Daemon -> Request \cup {None}]
    /\ pc["main"] \in Busy => request["main"] \in {"read"} \X Regions \X {0, 1}
    /\ pc["reader"] \in Busy => request["reader"] \in Request
    /\ command \in Command \cup {None}
    /\ pc["reader"] \in Holding => command \in Command
    /\ got \in Value \cup {None}
    /\ shm \in [Regions -> Value \cup {None}]

\* ... that of the connection ...
OnLine ==
    /\ connected \in BOOLEAN
    /\ serial \in {0, 1}
    /\ asked \in Seq(Request)
    /\ answers \in Seq(Part)

\* ... and of the processes.
Around ==
    /\ mailbox \in Seq(Command)
    /\ writing \in (Sizes \X Targets) \cup {None}
    /\ flock \in {"daemon", "pvserver", Nobody}
    /\ viewing \in 0 .. Viewers /\ shared \in BOOLEAN
    /\ writeErrors \in BOOLEAN

Numbers ==
    /\ late \in [Regions -> Nat]
    /\ reg \in [Regions -> Nat]
    /\ starts \in Nat
    /\ queued \in 0 .. MaxCommands
    /\ faults \in 0 .. MaxFaults

\* A command is in one place at a time: in the client's hands, in the mailbox,
\* in the reader's hands or on the line, on an old connection, or written.
InClient == IF pc["client"] = "send" THEN 1 ELSE 0

InReader ==
    IF \/ pc["reader"] \in {"lock", "request", "hung"}
       \/ pc["reader"] = "head" /\ asked # <<>>
    THEN 1 ELSE 0

Counted ==
    \A r \in Regions :
        reg[r] + late[r] + InReader + Len(mailbox) + InClient <= queued

\* Every restart follows a fault of its own: a connect() that does not return.
Hanging == IF pc["main"] = "hung" \/ pc["reader"] = "hung" THEN 1 ELSE 0

Restarted == starts + Hanging <= faults

TInv == Held /\ OnLine /\ Around /\ Numbers /\ Counted /\ Restarted

----------------------------------------------------------------------------
\* What is in a sequence after something is appended.
LEMMA Appended ==
    ASSUME NEW S, NEW s \in Seq(S), NEW e \in S
    PROVE  \A i \in DOMAIN Append(s, e) :
             Append(s, e)[i] = e \/ (i \in DOMAIN s /\ Append(s, e)[i] = s[i])
<1>1. DOMAIN Append(s, e) = 1 .. Len(s) + 1 /\ DOMAIN s = 1 .. Len(s) /\ Len(s) \in Nat
  OBVIOUS
<1>2. Append(s, e)[Len(s) + 1] = e
  OBVIOUS
<1>3. \A i \in 1 .. Len(s) : Append(s, e)[i] = s[i]
  OBVIOUS
<1>4. \A i \in 1 .. (Len(s) + 1) : i = Len(s) + 1 \/ i \in 1 .. Len(s)
  BY <1>1
<1>5. SUFFICES ASSUME NEW i \in 1 .. (Len(s) + 1)
               PROVE  Append(s, e)[i] = e \/ (i \in DOMAIN s /\ Append(s, e)[i] = s[i])
  BY <1>1, Zenon
<1>6. CASE i = Len(s) + 1
  BY <1>2, <1>6, Zenon
<1>7. CASE i \in 1 .. Len(s)
  BY <1>1, <1>3, <1>7, Zenon
<1> QED  BY <1>4, <1>6, <1>7, Zenon

LEMMA InitIInv == Init => IInv
<1> SUFFICES ASSUME Init
             PROVE  IInv
  OBVIOUS
<1> USE DEF Init
<1>1. /\ pc["main"] = "round" /\ pc["reader"] = "clear" /\ pc["client"] = "idle" /\ pc \in [Actors -> Places]
  BY DEF Actors, Places
<1>2. Types
  BY <1>1, ModbusAssumption DEF Types, Regions, Daemon
<1>3. Locked /\ LineOK /\ GotOK /\ Fresh
  BY <1>1 DEF Locked, LineOK, GotOK, Fresh, NoStaleCommand, Busy, Daemon, Nobody
<1>4. FlockOK
  <2>1. viewing \in Nat /\ ~(viewing > 1) /\ ~(viewing > 0)
    OBVIOUS
  <2> QED  BY <1>1, <2>1, Zenon DEF FlockOK
<1> QED  BY <1>2, <1>3, <1>4 DEF IInv

\* The shared memory.
LEMMA MemoryIInv ==
    ASSUME IInv,
           StoreBegins \/ StoreEnds \/ CountBegins \/ CountEnds \/ ViewBegins \/ ViewEnds
    PROVE  IInv'
<1> USE DEF IInv, Types, Goto
<1>0. UNCHANGED <<lock, request, command, starts, client, line, reg, writeErrors>>
  BY DEF StoreBegins, StoreEnds, CountBegins, CountEnds, ViewBegins, ViewEnds
<1>1. pc' \in [Actors -> Places]
  BY DEF StoreBegins, StoreEnds, CountBegins, CountEnds, ViewBegins, ViewEnds,
         Actors, Places
<1>2. /\ pc'["client"] = pc["client"]
      /\ \A t \in Daemon : \/ pc'[t] = pc[t]
                           \/ /\ pc[t] \in {"store", "copy"}
                              /\ pc'[t] \in {"copy", "lock", "round", "read"}
      /\ pc'["reader"] # "lock"  \/ pc'["reader"] = pc["reader"]
  BY DEF StoreBegins, StoreEnds, CountBegins, CountEnds, ViewBegins, ViewEnds,
         Actors, Places, Daemon
<1>3. k' \in Regions /\ shm' = [r \in Regions |-> shm'[r]]
  BY ModbusAssumption
     DEF StoreBegins, StoreEnds, CountBegins, CountEnds, ViewBegins, ViewEnds,
         Regions
<1>4. Types'
  BY <1>0, <1>1, <1>2, <1>3 DEF client
<1>5. Locked'
  BY <1>0, <1>2 DEF Locked, Busy
<1>6. LineOK'
  BY <1>0, <1>2 DEF LineOK, line, Awaiting, Reading
<1>7. GotOK'
  <2>1. CASE StoreEnds
    BY <1>0, <2>1 DEF GotOK, StoreEnds, Actors, Daemon, None
  <2>2. CASE ~StoreEnds
    <3>1. UNCHANGED <<got, k, shm>>
      BY <2>2 DEF StoreBegins, CountBegins, CountEnds, ViewBegins, ViewEnds
    <3>2. /\ pc'["main"] \in {"store", "copy"} <=> pc["main"] \in {"store", "copy"}
          /\ pc'["main"] \in {"request", "head", "body"} => pc'["main"] = pc["main"]
      BY <2>2 DEF StoreBegins, CountBegins, CountEnds, ViewBegins, ViewEnds, Actors
    <3> QED  BY <1>0, <3>1, <3>2 DEF GotOK
  <2> QED  BY <2>1, <2>2
<1>8. Fresh'
  <2>1. /\ pc'["reader"] = "clear" <=> pc["reader"] = "clear"
        /\ pc'["reader"] \in {"lock", "request", "head", "body", "hung"} =>
             pc'["reader"] = pc["reader"]
    BY <1>2 DEF Daemon
  <2> QED  BY <1>0, <2>1 DEF Fresh, NoStaleCommand, client
<1>9. FlockOK'
  <2>1. CASE StoreBegins \/ StoreEnds
    BY <1>0, <2>1 DEF FlockOK, StoreBegins, StoreEnds, FlockGranted, FlockReleased,
                      Actors, Nobody, views
  <2>2. CASE CountBegins \/ CountEnds
    BY <1>0, <2>2 DEF FlockOK, CountBegins, CountEnds, FlockGranted, FlockReleased,
                      Actors, Nobody, views
  <2>3. CASE ViewBegins
    <3>1. pc' = pc /\ viewing \in Nat /\ viewing' = viewing + 1 /\ flock' = "pvserver"
          /\ flock # "daemon" /\ shared' = (viewing # 0)
      BY <2>3 DEF ViewBegins, FlockOK, FlockGranted, Nobody
    <3>2. viewing' \in Nat /\ (viewing' > 1 => viewing # 0)
      BY <3>1
    <3>3. viewing' > 1 => shared'
      BY <3>1, <3>2, Zenon
    <3>4. /\ pc'["main"] = "copy" /\ ~writeErrors' => flock' = "daemon"
          /\ pc'["reader"] \in {"store", "copy"} => writeErrors'
      BY <1>0, <3>1 DEF FlockOK
    <3> QED  BY <3>1, <3>2, <3>3, <3>4, Zenon DEF FlockOK
  <2>4. CASE ViewEnds
    <3>1. pc' = pc /\ viewing > 0 /\ viewing \in Nat /\ viewing' = viewing - 1
          /\ flock' = FlockReleased("pvserver") /\ shared' = (shared /\ viewing # 1)
          /\ (viewing > 1 => shared)
      BY <2>4 DEF ViewEnds, FlockOK
    <3>2. viewing' \in Nat
      BY <3>1
    <3>3. (viewing' > 1 => shared') /\ ~(viewing' > 0 /\ ~shared')
      <4>1. \A x \in {0, 1} : viewing' > x => viewing > 1 /\ viewing # 1
        BY <3>1
      <4> QED  BY <3>1, <4>1, Zenon
    <3>4. /\ pc'["main"] = "copy" /\ ~writeErrors' => flock' = "daemon"
          /\ pc'["reader"] \in {"store", "copy"} => writeErrors'
      BY <1>0, <3>1 DEF FlockOK, FlockReleased
    <3> QED  BY <3>2, <3>3, <3>4 DEF FlockOK
  <2> QED  BY <2>1, <2>2, <2>3, <2>4
<1> QED  BY <1>4, <1>5, <1>6, <1>7, <1>8, <1>9

\* The clients and the mailbox.
LEMMA MailboxIInv ==
    ASSUME IInv,
           \/ \E size \in Sizes, r \in Targets : ClientWrites(size, r)
           \/ MsgSnd \/ ClearDrops \/ ClearEnds \/ MbxRead
    PROVE  IInv'
<1> USE DEF IInv, Goto
<1>0. UNCHANGED <<lock, request, starts, line, reg, writeErrors, k, got, shm, flock, viewing, shared>>
  BY DEF ClientWrites, MsgSnd, ClearDrops, ClearEnds, MbxRead, memory, views
<1>1. /\ pc' \in [Actors -> Places]
      /\ pc'["main"] = pc["main"]
      /\ \/ pc'["reader"] = pc["reader"]
         \/ /\ pc["reader"] \in {"clear", "read"}
            /\ pc'["reader"] \in {"read", "lock", "ended"}
  BY DEF ClientWrites, MsgSnd, ClearDrops, ClearEnds, MbxRead, Types, Actors, Places
<1>2. Types'
  <2>1. CASE \E size \in Sizes, r \in Targets : ClientWrites(size, r)
    BY <1>0, <1>1, <2>1 DEF ClientWrites, Types, Actors
  <2>2. CASE MsgSnd
    <3>1. <<writing[1], writing[2], starts>> \in Sizes \X Targets \X Nat
      BY <2>2 DEF MsgSnd, Types
    <3>2. mailbox' \in Seq(Sizes \X Targets \X Nat)
      BY <2>2, <3>1 DEF MsgSnd, Types
    <3>3. pc'["client"] = "idle"
      BY <2>2 DEF MsgSnd, Types, Actors
    <3> QED  BY <1>0, <1>1, <3>2, <3>3 DEF Types
  <2>3. CASE ClearDrops \/ ClearEnds \/ MbxRead
    <3>1. mailbox' = mailbox \/ (mailbox # <<>> /\ mailbox' = Tail(mailbox))
      BY <2>3 DEF ClearDrops, ClearEnds, MbxRead, client
    <3>2. mailbox' \in Seq(Sizes \X Targets \X Nat)
      <4> DEFINE S == Sizes \X Targets \X Nat
      <4>1. mailbox \in Seq(S)
        BY DEF Types
      <4> HIDE DEF S
      <4>2. mailbox' \in Seq(S)
        BY <3>1, <4>1
      <4> QED  BY <4>2 DEF S
    <3>3. pc'["client"] = pc["client"] /\ writing' = writing
      BY <2>3 DEF ClearDrops, ClearEnds, MbxRead, client, Types, Actors
    <3> QED  BY <1>0, <1>1, <3>2, <3>3 DEF Types
  <2> QED  BY <2>1, <2>2, <2>3
<1>3. Locked'
  BY <1>0, <1>1 DEF Locked, Busy, Daemon
<1>4. LineOK'
  BY <1>0, <1>1 DEF LineOK, line, Awaiting, Reading, Daemon
<1>5. GotOK'
  BY <1>0, <1>1 DEF GotOK
<1>6. Fresh'
  <2> mailbox \in Seq(Sizes \X Targets \X Nat)
    BY DEF Types
  <2>1. CASE \E size \in Sizes, r \in Targets : ClientWrites(size, r)
    BY <1>0, <2>1 DEF ClientWrites, Fresh, NoStaleCommand, Types, Actors
  <2>2. CASE MsgSnd
    <3>1. pc'["reader"] = pc["reader"] /\ command' = command
          /\ mailbox' = Append(mailbox, <<writing[1], writing[2], starts>>)
      BY <2>2 DEF MsgSnd, Types, Actors
    <3>2. \A i \in DOMAIN mailbox' : mailbox'[i] = <<writing[1], writing[2], starts>>
                                     \/ (i \in DOMAIN mailbox /\ mailbox'[i] = mailbox[i])
      <4> DEFINE S == Sizes \X Targets \X Nat
                 e == <<writing[1], writing[2], starts>>
      <4>1. mailbox \in Seq(S) /\ e \in S /\ mailbox' = Append(mailbox, e)
        BY <2>2, <3>1 DEF MsgSnd, Types
      <4> HIDE DEF S, e
      <4>2. \A i \in DOMAIN mailbox' : mailbox'[i] = e \/ (i \in DOMAIN mailbox /\ mailbox'[i] = mailbox[i])
        BY <4>1, Appended
      <4> QED  BY <4>2 DEF e
    <3>3. <<writing[1], writing[2], starts>>[3] = starts
      OBVIOUS
    <3>4. pc["reader"] # "clear" => \A i \in DOMAIN mailbox' : mailbox'[i][3] = starts
      BY <3>2, <3>3 DEF Fresh
    <3> QED  BY <1>0, <3>1, <3>4 DEF Fresh, NoStaleCommand
  <2>3. CASE ClearDrops
    BY <1>0, <2>3 DEF ClearDrops, Fresh, NoStaleCommand
  <2>4. CASE ClearEnds
    BY <1>0, <2>4 DEF ClearEnds, Fresh, NoStaleCommand, Types, Actors, client
  <2>5. CASE MbxRead
    <3>1. pc["reader"] = "read" /\ mailbox # <<>>
          /\ \A i \in DOMAIN mailbox : mailbox[i][3] = starts
      BY <2>5 DEF MbxRead, Fresh
    <3>2. CASE Head(mailbox)[1] = "long"
      BY <1>0, <2>5, <3>1, <3>2 DEF MbxRead, Fresh, NoStaleCommand, Types, Actors
    <3>3. CASE Head(mailbox)[1] # "long"
      <4>1. mailbox' = Tail(mailbox) /\ command' = Head(mailbox)
        BY <2>5, <3>3 DEF MbxRead
      <4>2. command'[3] = starts /\ \A i \in DOMAIN mailbox' : mailbox'[i][3] = starts
        BY <3>1, <4>1
      <4> QED  BY <1>0, <4>2 DEF Fresh, NoStaleCommand
    <3> QED  BY <3>2, <3>3
  <2> QED  BY <2>1, <2>2, <2>3, <2>4, <2>5
<1>7. FlockOK'
  BY <1>0, <1>1 DEF FlockOK
<1> QED  BY <1>2, <1>3, <1>4, <1>5, <1>6, <1>7

\* A new round, and the lock.
LEMMA LockIInv ==
    ASSUME IInv, NEW t \in Daemon, NewRound \/ Lock(t)
    PROVE  IInv'
<1> USE DEF IInv, Goto
<1>0. UNCHANGED <<starts, client, asked, answers, reg, got, shm, writeErrors, command>>
  BY DEF NewRound, Lock, line, memory
<1>1. CASE NewRound
  <2>0. /\ pc["main"] = "round" /\ pc' = [pc EXCEPT !["main"] = "lock"] /\ k' = 1
        /\ flock' = Nobody /\ FlockGranted("daemon")
        /\ UNCHANGED <<request, lock, views>>
    BY <1>1 DEF NewRound
  <2>1. pc' \in [Actors -> Places] /\ pc'["main"] = "lock"
        /\ \A a \in {"reader", "client"} : pc'[a] = pc[a]
    BY <2>0 DEF Types, Actors, Places
  <2>2. Types'
    BY <1>0, <2>0, <2>1, ModbusAssumption DEF Types, Regions, client
  <2>3. Locked'
    BY <2>0, <2>1 DEF Locked, Busy, Daemon
  <2>4. LineOK'
    BY <1>0, <2>0, <2>1 DEF LineOK, Awaiting, Reading, Daemon
  <2>5. GotOK'
    BY <1>0, <2>0, <2>1 DEF GotOK, None
  <2>6. Fresh'
    BY <1>0, <2>1 DEF Fresh, NoStaleCommand, client
  <2>7. FlockOK'
    BY <1>0, <2>0, <2>1 DEF FlockOK, FlockGranted, Nobody, views
  <2> QED  BY <2>2, <2>3, <2>4, <2>5, <2>6, <2>7
<1>2. CASE Lock(t)
  <2>0. /\ pc[t] = "lock" /\ lock = Nobody /\ lock' = t
        /\ request' = [request EXCEPT ![t] = Wanted(t)]
        /\ pc' = [pc EXCEPT ![t] = "request"]
        /\ UNCHANGED <<k, flock, views>>
    BY <1>2 DEF Lock, memory
  <2>1. pc' \in [Actors -> Places] /\ pc'[t] = "request"
        /\ \A a \in Actors : a # t => pc'[a] = pc[a]
    BY <2>0 DEF Types, Actors, Places, Daemon
  <2>2. Types'
    BY <1>0, <2>0, <2>1 DEF Types, client, Actors, Daemon
  <2>3. Locked'
    BY <2>0, <2>1 DEF Locked, Busy, Daemon, Nobody, Actors
  <2>4. LineOK'
    BY <1>0, <2>0, <2>1 DEF LineOK, Awaiting, Reading, Daemon, Actors, Locked, Busy, Nobody
  <2>5. GotOK'
    BY <1>0, <2>0, <2>1 DEF GotOK, Types, Wanted, Daemon, Actors
  <2>6. Fresh'
    BY <1>0, <2>0, <2>1 DEF Fresh, NoStaleCommand, client, Daemon, Actors
  <2>7. FlockOK'
    BY <1>0, <2>0, <2>1 DEF FlockOK, Daemon, Actors, views
  <2> QED  BY <2>2, <2>3, <2>4, <2>5, <2>6, <2>7
<1> QED  BY <1>1, <1>2

\* The end of a transaction, with or without an error: whoever was on the line
\* is off it.
LEMMA FailIInv ==
    ASSUME IInv, NEW t \in Daemon, pc[t] \in Busy, Fail(t),
           UNCHANGED <<k, got, client, memory, starts, reg>>
    PROVE  IInv'
<1> USE DEF IInv, Fail, Unlock, Goto
<1>1. /\ pc' \in [Actors -> Places] /\ pc'[t] = "store"
      /\ \A a \in Actors : a # t => pc'[a] = pc[a]
  BY DEF Types, Actors, Places, Daemon
<1>2. \A u \in Daemon : u # t => pc[u] \notin Busy /\ lock # u
  BY DEF Locked
<1>3. \A u \in Daemon : pc'[u] \notin Busy
  BY <1>1, <1>2 DEF Busy, Daemon, Actors
<1>4. Types'
  BY <1>1 DEF Types, client, memory, Actors, Daemon
<1>5. Locked'
  BY <1>3 DEF Locked, Nobody, Daemon
<1>6. LineOK'
  BY <1>3 DEF LineOK, Disconnect, Busy
<1>7. GotOK'
  <2>1. pc["main"] \notin {"store", "copy"} => got = None
    BY DEF GotOK
  <2>2. pc'["main"] \notin {"store", "copy"} => pc["main"] \notin {"store", "copy"}
    BY <1>1 DEF Actors, Daemon
  <2>3. pc'["main"] \notin {"request", "head", "body"}
    BY <1>3 DEF Busy, Daemon
  <2> QED  BY <2>1, <2>2, <2>3 DEF GotOK, memory
<1>8. Fresh'
  BY <1>1, <1>3, <1>2 DEF Fresh, NoStaleCommand, client, Actors, Daemon, Busy
<1>9. FlockOK'
  BY <1>1 DEF FlockOK, memory, views, Actors, Daemon, Busy
<1> QED  BY <1>4, <1>5, <1>6, <1>7, <1>8, <1>9

\* A request is sent, or not.
LEMMA SendIInv ==
    ASSUME IInv, NEW t \in Daemon,
           Send(t) \/ SendFails(t) \/ SendNothing(t) \/ ConnectHangs(t) \/ ConnectGivesUp(t)
    PROVE  IInv'
<1>1. CASE SendFails(t) \/ ConnectGivesUp(t) \/ (SendNothing(t) /\ ~connected)
  BY <1>1, FailIInv DEF SendFails, ConnectGivesUp, SendNothing, Busy
<1>2. CASE Send(t) \/ (SendNothing(t) /\ connected) \/ ConnectHangs(t)
  <2> USE DEF IInv, Goto
  <2>0. /\ pc[t] = "request"
        /\ UNCHANGED <<k, request, got, command, lock, answers, client, memory,
                       writeErrors, reg, starts>>
    BY <1>2 DEF Send, SendNothing, ConnectHangs, line
  <2>1. /\ pc' \in [Actors -> Places] /\ pc'[t] \in {"head", "hung"}
        /\ \A a \in Actors : a # t => pc'[a] = pc[a]
    BY <1>2 DEF Send, SendNothing, ConnectHangs, Types, Actors, Places, Daemon
  <2>2. lock = t /\ \A u \in Daemon : u # t => pc[u] \notin Busy
    BY <2>0 DEF Locked, Busy
  <2>3. asked = <<>> /\ answers = <<>>
    BY <2>0, <2>2 DEF LineOK, Busy, Daemon
  <2>4. /\ asked' = IF Send(t) THEN <<request[t]>> ELSE <<>>
        /\ Send(t) => pc'[t] = "head"
    BY <1>2, <2>3, <2>1 DEF Send, SendNothing, ConnectHangs, line, Types, Actors, Daemon, TooBig
  <2>5. Types'
    BY <2>0, <2>1 DEF Types, client, memory, Actors, Daemon
  <2>6. Locked'
    BY <2>0, <2>1, <2>2 DEF Locked, Busy, Actors, Daemon
  <2>7. LineOK'
    <3>1. \A u \in Daemon : u # t => pc'[u] \notin {"head", "body"}
      BY <2>1, <2>2 DEF Busy, Actors, Daemon
    <3>2. pc'[t] = "head" => Awaiting(t)'
      BY <2>0, <2>3, <2>4 DEF Awaiting
    <3>3. pc'[t] # "head" => asked' = <<>> /\ answers' = <<>>
      BY <2>0, <2>3, <2>4
    <3> QED  BY <2>1, <3>1, <3>2, <3>3 DEF LineOK
  <2>8. GotOK'
    BY <2>0, <2>1 DEF GotOK, memory, Actors, Daemon
  <2>9. Fresh'
    BY <2>0, <2>1 DEF Fresh, NoStaleCommand, client, Actors, Daemon
  <2>10. FlockOK'
    BY <2>0, <2>1 DEF FlockOK, memory, views, Actors, Daemon
  <2> QED  BY <2>5, <2>6, <2>7, <2>8, <2>9, <2>10
<1> QED  BY <1>1, <1>2 DEF SendNothing

\* The answer is read, or does not come.
LEMMA ReadIInv ==
    ASSUME IInv, NEW t \in Daemon, ReadHead(t) \/ ReadBody(t) \/ Timeout(t)
    PROVE  IInv'
<1>1. CASE Timeout(t) \/ (ReadHead(t) /\ Head(answers)[2] = "exception")
  BY <1>1, FailIInv DEF Timeout, ReadHead, Busy
<1>2. CASE ReadHead(t) /\ Head(answers)[2] # "exception"
  <2> USE DEF IInv, Goto
  <2>0. /\ pc[t] = "head" /\ answers # <<>> /\ answers' = Tail(answers)
        /\ pc' = [pc EXCEPT ![t] = "body"]
        /\ UNCHANGED <<k, request, got, command, lock, asked, client, memory,
                       writeErrors, reg, starts>>
    BY <1>2 DEF ReadHead
  <2>1. /\ pc' \in [Actors -> Places] /\ pc'[t] = "body"
        /\ \A a \in Actors : a # t => pc'[a] = pc[a]
    BY <2>0 DEF Types, Actors, Places, Daemon
  <2>2. lock = t /\ \A u \in Daemon : u # t => pc[u] \notin Busy
    BY <2>0 DEF Locked, Busy
  <2>3. Reading(t)'
    <3>1. Awaiting(t)
      BY <2>0 DEF LineOK
    <3>2. PICK v :
            asked = <<>> /\ answers = << <<request[t], "head", 0>>, <<request[t], "body", v>> >>
      <4>1. answers # << <<request[t], "exception", 0>> >>
        BY <1>2
      <4> QED  BY <2>0, <3>1, <4>1 DEF Awaiting
    <3>3. answers' = << <<request[t], "body", v>> >>
      BY <2>0, <3>2
    <3> QED  BY <2>0, <3>2, <3>3 DEF Reading
  <2>5. Types'
    BY <2>0, <2>1 DEF Types, client, memory, Actors, Daemon
  <2>6. Locked'
    BY <2>0, <2>1, <2>2 DEF Locked, Busy, Actors, Daemon
  <2>7. LineOK'
    <3>1. \A u \in Daemon : u # t => pc'[u] \notin {"head", "body"}
      BY <2>1, <2>2 DEF Busy, Actors, Daemon
    <3> QED  BY <2>1, <2>3, <3>1 DEF LineOK
  <2>8. GotOK'
    BY <2>0, <2>1 DEF GotOK, memory, Actors, Daemon
  <2>9. Fresh'
    BY <2>0, <2>1 DEF Fresh, NoStaleCommand, client, Actors, Daemon
  <2>10. FlockOK'
    BY <2>0, <2>1 DEF FlockOK, memory, views, Actors, Daemon
  <2> QED  BY <2>5, <2>6, <2>7, <2>8, <2>9, <2>10
<1>3. CASE ReadBody(t)
  <2> USE DEF IInv, Goto
  <2>0. /\ pc[t] = "body" /\ answers # <<>> /\ Unlock(t)
        /\ UNCHANGED <<k, client, memory, writeErrors, reg, starts>>
    BY <1>3 DEF ReadBody
  <2>1. PICK v : asked = <<>> /\ answers = << <<request[t], "body", v>> >>
    BY <2>0 DEF LineOK, Reading
  <2>2. asked' = <<>> /\ answers' = <<>>
    <3>1. Tail(answers) = <<>>
      BY <2>1
    <3> QED  BY <1>3, <2>1, <3>1 DEF ReadBody, Disconnect
  <2>3. /\ pc' \in [Actors -> Places]
        /\ pc'[t] = IF t = "main" THEN "store" ELSE "read"
        /\ \A a \in Actors : a # t => pc'[a] = pc[a]
    BY <1>3 DEF ReadBody, Types, Actors, Places, Daemon
  <2>4. \A u \in Daemon : u # t => pc[u] \notin Busy /\ lock # u
    BY <2>0 DEF Locked, Busy
  <2>5. \A u \in Daemon : pc'[u] \notin Busy
    BY <2>3, <2>4 DEF Busy, Daemon, Actors
  <2>6. Types'
    BY <2>0, <2>3 DEF Types, Unlock, client, memory, Actors, Daemon
  <2>7. Locked'
    BY <2>0, <2>5 DEF Locked, Unlock, Nobody, Daemon
  <2>8. LineOK'
    BY <2>0, <2>2, <2>5 DEF LineOK, Busy
  <2>9. GotOK'
    <3>1. pc'["main"] \notin {"request", "head", "body"}
      BY <2>5 DEF Busy, Daemon
    <3>2. CASE t = "main"
      <4>1. Head(answers) = <<request[t], "body", v>>
        BY <2>1
      <4>2. got'[1] = request["main"][2]
        BY <1>3, <3>2, <4>1 DEF ReadBody
      <4>3. request["main"][2] = k
        BY <2>0, <3>2 DEF GotOK
      <4> QED  BY <2>0, <2>3, <3>1, <3>2, <4>2, <4>3 DEF GotOK, memory
    <3>3. CASE t # "main"
      <4>1. got' = got /\ pc'["main"] = pc["main"]
        BY <1>3, <2>3, <3>3 DEF ReadBody, Actors
      <4> QED  BY <2>0, <3>1, <4>1 DEF GotOK, memory
    <3> QED  BY <3>2, <3>3
  <2>10. Fresh'
    BY <2>0, <2>3, <2>5 DEF Fresh, NoStaleCommand, Unlock, client, Actors, Daemon, Busy
  <2>11. FlockOK'
    BY <2>0, <2>3 DEF FlockOK, memory, views, Actors, Daemon
  <2> QED  BY <2>6, <2>7, <2>8, <2>9, <2>10, <2>11
<1> QED  BY <1>1, <1>2, <1>3 DEF ReadHead

\* The PLC: there is a request on the line only while one thread waits for the
\* answer to it.
LEMMA PlcIInv ==
    ASSUME IInv, PlcAnswers \/ PlcRefuses \/ \E r \in Regions : PlcExecutesLate(r)
    PROVE  IInv'
<1> USE DEF IInv
<1>0. UNCHANGED <<pc, k, request, got, command, lock, client, memory, writeErrors, starts>>
  BY DEF PlcAnswers, PlcRefuses, PlcExecutesLate
<1>1. Types' /\ Locked' /\ GotOK' /\ Fresh' /\ FlockOK'
  BY <1>0 DEF Types, Locked, GotOK, Fresh, NoStaleCommand, FlockOK, client, memory, views
<1>2. LineOK'
  <2>1. CASE \E r \in Regions : PlcExecutesLate(r)
    <3>1. UNCHANGED <<asked, answers>>
      BY <2>1 DEF PlcExecutesLate
    <3> QED  BY <1>0, <3>1 DEF LineOK, Awaiting, Reading
  <2>2. CASE PlcAnswers \/ PlcRefuses
    <3>1. asked # <<>>
      BY <2>2 DEF PlcAnswers, PlcRefuses
    <3>2. PICK t \in Daemon : pc[t] = "head"
      BY <3>1 DEF LineOK, Reading
    <3>3. \A u \in Daemon : u # t => pc[u] \notin {"head", "body"}
      BY <3>2 DEF Locked, Busy
    <3>4. asked = <<request[t]>> /\ answers = <<>>
      BY <3>1, <3>2 DEF LineOK, Awaiting
    <3>5. Head(asked) = request[t] /\ Tail(asked) = <<>>
      BY <3>4
    <3>6. Awaiting(t)'
      <4>1. CASE PlcRefuses
        BY <1>0, <3>4, <3>5, <4>1 DEF PlcRefuses, Awaiting
      <4>2. CASE PlcAnswers
        BY <1>0, <3>4, <3>5, <4>2 DEF PlcAnswers, Awaiting
      <4> QED  BY <2>2, <4>1, <4>2
    <3> QED  BY <1>0, <3>2, <3>3, <3>6 DEF LineOK
  <2> QED  BY <2>1, <2>2
<1> QED  BY <1>1, <1>2

\* The watchdog.
LEMMA WatchIInv ==
    ASSUME IInv, Restart
    PROVE  IInv'
<1> USE DEF IInv
<1>1. /\ pc' \in [Actors -> Places]
      /\ pc'["main"] = "round" /\ pc'["reader"] = "clear"
      /\ pc'["client"] = pc["client"] 
  BY DEF Restart, Types, Actors, Places
<1>2. Types'
  <2>1. k' \in Regions /\ lock' \in Daemon \cup {Nobody} /\ starts' \in Nat
    BY ModbusAssumption DEF Restart, Types, Regions
  <2>2. UNCHANGED <<mailbox, writing, shm>> /\ request' = [t \in Daemon |-> None]
    BY DEF Restart, client, memory
  <2>3. request' = [t \in Daemon |-> request'[t]]
    BY <2>2
  <2> QED  BY <1>1, <2>1, <2>2, <2>3 DEF Types
<1>3. Locked' /\ GotOK' /\ FlockOK'
  BY <1>1 DEF Restart, Locked, Busy, GotOK, FlockOK, Daemon, Nobody, memory, views
<1>4. LineOK' /\ Fresh'
  BY <1>1 DEF Restart, Disconnect, LineOK, Fresh, NoStaleCommand, Daemon
<1> QED  BY <1>2, <1>3, <1>4

LEMMA NextIInv == IInv /\ [Next]_vars => IInv'
<1> SUFFICES ASSUME IInv, [Next]_vars
             PROVE  IInv'
  OBVIOUS
<1>0. "main" \in Daemon /\ "reader" \in Daemon
  BY DEF Daemon
<1>1. CASE StoreBegins \/ StoreEnds \/ CountBegins \/ CountEnds \/ ViewBegins \/ ViewEnds
  BY <1>1, MemoryIInv
<1>2. CASE \/ \E size \in Sizes, r \in Targets : ClientWrites(size, r)
           \/ MsgSnd \/ ClearDrops \/ ClearEnds \/ MbxRead
  BY <1>2, MailboxIInv
<1>3. CASE NewRound \/ Lock("main") \/ Lock("reader")
  BY <1>0, <1>3, LockIInv
<1>4. CASE \E t \in Daemon : SendFails(t) \/ ConnectHangs(t) \/ ConnectGivesUp(t)
  BY <1>4, SendIInv
<1>5. ASSUME NEW t \in Daemon, Transaction(t)
      PROVE  IInv'
  BY <1>5, SendIInv, ReadIInv DEF Transaction
<1>6. CASE PlcAnswers \/ PlcRefuses \/ \E r \in Regions : PlcExecutesLate(r)
  BY <1>6, PlcIInv
<1>7. CASE Restart
  BY <1>7, WatchIInv
<1>8. CASE UNCHANGED vars
  BY <1>8 DEF IInv, Types, Locked, LineOK, Awaiting, Reading, GotOK, Fresh,
              NoStaleCommand, FlockOK, vars, line, client, memory, views
<1> QED
  BY <1>0, <1>1, <1>2, <1>3, <1>4, <1>5, <1>6, <1>7, <1>8 DEF Next, MainStep, ReaderStep

LEMMA Invariant == Spec => []IInv
<1> QED  BY InitIInv, NextIInv, PTL DEF Spec

----------------------------------------------------------------------------
\* rlModbus::request and response, rlSocket: telegrams have no identifier, but
\* what is read from the connection is never the late or torn answer to another
\* request, and a region of the shared memory never holds another one's value.
THEOREM AnswersCorrect == Spec => []AnswerMatches
<1>1. IInv => AnswerMatches
  <2> SUFFICES ASSUME IInv
               PROVE  AnswerMatches
    OBVIOUS
  <2>1. ASSUME NEW t \in Daemon, pc[t] \in {"head", "body"}
        PROVE  /\ \A i \in DOMAIN asked : asked[i] = request[t]
               /\ \A i \in DOMAIN answers : answers[i][1] = request[t]
    <3>1. Awaiting(t) \/ Reading(t)
      BY <2>1 DEF IInv, LineOK
    <3>2. CASE asked = <<request[t]>> /\ answers = <<>>
      BY <3>2
    <3>3. CASE asked = <<>> /\ answers = <<>>
      BY <3>3
    <3>4. CASE asked = <<>> /\ answers = << <<request[t], "exception", 0>> >>
      BY <3>4
    <3>5. ASSUME NEW v, asked = <<>>,
                 answers = << <<request[t], "head", 0>>, <<request[t], "body", v>> >>
          PROVE  \A i \in DOMAIN answers : answers[i][1] = request[t]
      BY <3>5
    <3>6. CASE Reading(t)
      BY <3>6 DEF Reading
    <3> QED  BY <3>1, <3>2, <3>3, <3>4, <3>5, <3>6 DEF Awaiting
  <2>2. \A r \in Regions : shm[r] # None => shm[r][1] = r
    BY DEF IInv, GotOK
  <2> QED  BY <2>1, <2>2 DEF AnswerMatches
<1> QED  BY <1>1, Invariant, PTL

\* The reader thread clears the mailbox before it reads from it: no command
\* that was queued before a restart of the daemon is sent to the PLC.
THEOREM CommandsFresh == Spec => []NoStaleCommand
<1>1. IInv => NoStaleCommand
  BY DEF IInv, Fresh
<1> QED  BY <1>1, Invariant, PTL

\* rlSharedMemory: the daemon writes a region while a pvserver copies it only when
\* a process has unlocked what another of its threads had locked: the daemon after
\* an error of the reader thread, or the pvserver when two of its threads copied
\* together.
THEOREM MemoryWhole == Spec => []TornOnlyByOwnUnlock
<1>1. IInv => TornOnlyByOwnUnlock
  BY DEF IInv, FlockOK, TornOnlyByOwnUnlock
<1> QED  BY <1>1, Invariant, PTL
----------------------------------------------------------------------------
(* TypeOK: the bounds come from where the commands and the restarts come from. *)

\* The empty sequence is one of any elements.
LEMMA Nothing == ASSUME NEW S PROVE <<>> \in Seq(S)
<1> QED  OBVIOUS

LEMMA InitTInv == Init => TInv
<1> SUFFICES ASSUME Init
             PROVE  TInv
  OBVIOUS
<1>1. /\ pc["main"] = "round" /\ pc["reader"] = "clear" /\ pc["client"] = "idle"
  BY DEF Init
<1>2. Held
  BY <1>1 DEF Init, Held, Busy, Holding, Daemon
<1>3. OnLine /\ Around
  <2>1. <<>> \in Seq(Request) /\ <<>> \in Seq(Part) /\ <<>> \in Seq(Command)
    BY Nothing
  <2>2. 0 \in 0 .. Viewers
    BY ModbusAssumption
  <2> QED  BY <2>1, <2>2 DEF Init, OnLine, Around
<1>4. Numbers
  BY ModbusAssumption DEF Init, Numbers
<1>5. Counted
  <2>1. InReader = 0 /\ InClient = 0
    BY <1>1 DEF InReader, InClient
  <2> QED  BY <2>1 DEF Counted, Init
<1>6. Restarted
  BY <1>1 DEF Restarted, Hanging, Init
<1> QED  BY <1>2, <1>3, <1>4, <1>5, <1>6 DEF TInv

\* A sum whose parts only move stays below its bound.
LEMMA Moved ==
    ASSUME NEW a \in Nat, NEW b \in Nat, NEW c \in Nat, NEW d \in Nat, NEW e \in Nat,
           NEW bb \in Nat, NEW cc \in Nat, NEW m \in Nat,
           a + b + c + d + e <= m, bb + cc <= b + c
    PROVE  a + bb + cc + d + e <= m
<1> QED  OBVIOUS

LEMMA Below ==
    ASSUME NEW s \in Nat, NEW h \in Nat, NEW hh \in Nat, NEW m \in Nat, s + h <= m, hh <= h
    PROVE  s + hh <= m
<1> QED  OBVIOUS

LEMMA Traded ==
    ASSUME NEW a \in Nat, NEW b \in Nat, NEW c \in Nat, NEW d \in Nat, NEW e \in Nat,
           NEW cc \in Nat, NEW dd \in Nat, NEW ee \in Nat, NEW m \in Nat,
           a + b + c + d + e <= m, cc + dd + ee <= c + d + e
    PROVE  a + b + cc + dd + ee <= m
<1> QED  OBVIOUS

\* Whatever leaves the numbers, the mailbox and the line alone.
LEMMA Still ==
    ASSUME TInv, UNCHANGED <<late, reg, starts, queued, faults>>,
           InReader' + Len(mailbox)' + InClient' <= InReader + Len(mailbox) + InClient,
           Hanging' <= Hanging, mailbox' \in Seq(Command)
    PROVE  Numbers' /\ Counted' /\ Restarted'
<1> USE DEF TInv
<1>1. InReader \in 0 .. 1 /\ InReader' \in 0 .. 1 /\ InClient \in 0 .. 1 /\ InClient' \in 0 .. 1
      /\ Hanging \in 0 .. 1 /\ Hanging' \in 0 .. 1
  BY DEF InReader, InClient, Hanging
<1>2. Len(mailbox) \in Nat /\ Len(mailbox)' \in Nat
  BY DEF Around
<1>3. Numbers'
  BY DEF Numbers
<1>4. Restarted'
  <2>1. starts \in Nat /\ faults \in Nat /\ starts + Hanging <= faults
    BY ModbusAssumption DEF Restarted, Numbers
  <2>2. Hanging \in Nat /\ Hanging' \in Nat /\ Hanging' <= Hanging
    BY <1>1
  <2>3. starts + Hanging' <= faults
    BY <2>1, <2>2, Below
  <2> QED  BY <2>3 DEF Restarted
<1>5. Counted'
  <2> SUFFICES ASSUME NEW r \in Regions
               PROVE  reg'[r] + late'[r] + InReader' + Len(mailbox)' + InClient' <= queued'
    BY DEF Counted
  <2>1. reg[r] + late[r] + InReader + Len(mailbox) + InClient <= queued
    BY DEF Counted
  <2>2. reg[r] \in Nat /\ late[r] \in Nat /\ queued \in Nat
    BY DEF Numbers
  <2>3. /\ InReader \in Nat /\ InReader' \in Nat /\ InClient \in Nat /\ InClient' \in Nat
        /\ InReader' + Len(mailbox)' + InClient' <= InReader + Len(mailbox) + InClient
    BY <1>1
  <2>4. reg[r] + late[r] + InReader' + Len(mailbox)' + InClient' <= queued
    BY <1>2, <2>1, <2>2, <2>3, Traded
  <2>5. reg'[r] = reg[r] /\ late'[r] = late[r] /\ queued' = queued
    OBVIOUS
  <2> HIDE DEF TInv
  <2> QED  BY <2>4, <2>5
<1> QED  BY <1>3, <1>4, <1>5

LEMMA MemoryTInv ==
    ASSUME IInv, TInv,
           StoreBegins \/ StoreEnds \/ CountBegins \/ CountEnds \/ ViewBegins \/ ViewEnds
    PROVE  TInv'
<1> USE DEF TInv, Goto
<1>0. UNCHANGED <<lock, request, command, starts, client, line, reg, writeErrors, faults>>
  BY DEF StoreBegins, StoreEnds, CountBegins, CountEnds, ViewBegins, ViewEnds
<1>1. pc \in [Actors -> Places]
  BY DEF IInv, Types
<1>2. /\ pc'["client"] = pc["client"]
      /\ \A t \in Daemon : \/ pc'[t] = pc[t]
                           \/ /\ pc[t] \in {"store", "copy"}
                              /\ pc'[t] \in {"copy", "lock", "round", "read"}
      /\ pc'["reader"] # "lock"  \/ pc'["reader"] = pc["reader"]
  BY <1>1 DEF StoreBegins, StoreEnds, CountBegins, CountEnds, ViewBegins, ViewEnds,
         Actors, Places, Daemon
<1>3. got' \in Value \cup {None} /\ shm' \in [Regions -> Value \cup {None}]
  BY DEF StoreBegins, StoreEnds, CountBegins, CountEnds, ViewBegins, ViewEnds, Held
<1>4. Held'
  BY <1>0, <1>2, <1>3 DEF Held, Busy, Holding, Daemon
<1>5. OnLine'
  BY <1>0 DEF OnLine, line
<1>6. flock' \in {"daemon", "pvserver", Nobody} /\ viewing' \in 0 .. Viewers
      /\ shared' \in BOOLEAN
  <2>1. viewing' \in 0 .. Viewers
    BY ModbusAssumption
       DEF StoreBegins, StoreEnds, CountBegins, CountEnds, ViewBegins, ViewEnds, Around, views
  <2>2. shared' \in BOOLEAN
    <3>1. CASE StoreBegins \/ StoreEnds \/ CountBegins \/ CountEnds
      BY <3>1, Zenon DEF StoreBegins, StoreEnds, CountBegins, CountEnds, Around, views
    <3>2. CASE ViewBegins \/ ViewEnds
      <4>1. \/ shared' = TRUE \/ shared' = FALSE
        BY <3>2, Zenon DEF ViewBegins, ViewEnds
      <4> QED  BY <4>1
    <3> QED  BY <3>1, <3>2, Zenon
  <2> QED
    BY <2>1, <2>2 DEF StoreBegins, StoreEnds, CountBegins, CountEnds, ViewBegins, ViewEnds,
                      Around, FlockReleased
<1>7. Around'
  BY <1>0, <1>6 DEF Around, client
<1>8. InReader' = InReader /\ InClient' = InClient /\ Hanging' = Hanging
  BY <1>0, <1>2 DEF InReader, InClient, Hanging, Daemon, line
<1>9. Numbers' /\ Counted' /\ Restarted'
  <2>1. InReader \in Nat /\ InClient \in Nat /\ Len(mailbox) \in Nat /\ Hanging \in Nat
    BY DEF InReader, InClient, Around, Hanging
  <2> QED  BY <1>0, <1>7, <1>8, <2>1, Still DEF client, line, Around
<1> QED  BY <1>4, <1>5, <1>7, <1>9

LEMMA MailboxTInv ==
    ASSUME IInv, TInv,
           \/ \E size \in Sizes, r \in Targets : ClientWrites(size, r)
           \/ MsgSnd \/ ClearDrops \/ ClearEnds \/ MbxRead
    PROVE  TInv'
<1> USE DEF TInv, Goto
<1>0. UNCHANGED <<lock, request, starts, line, reg, writeErrors, got, memory, faults>>
  BY DEF ClientWrites, MsgSnd, ClearDrops, ClearEnds, MbxRead
<1>1. pc \in [Actors -> Places]
  BY DEF IInv, Types
<1>2. /\ pc'["main"] = pc["main"]
      /\ \/ pc'["reader"] = pc["reader"]
         \/ /\ pc["reader"] \in {"clear", "read"}
            /\ pc'["reader"] \in {"read", "lock", "ended"}
  BY <1>1 DEF ClientWrites, MsgSnd, ClearDrops, ClearEnds, MbxRead, Actors, Places
<1>3. Hanging' = Hanging
  BY <1>2 DEF Hanging
<1>4. OnLine'
  BY <1>0 DEF OnLine, line
<1>5. mailbox \in Seq(Command) /\ Len(mailbox) \in Nat
  BY DEF Around
<1>6. InReader \in 0 .. 1 /\ InClient \in 0 .. 1 /\ Hanging \in 0 .. 1
  BY DEF InReader, InClient, Hanging
<1>7. CASE \E size \in Sizes, r \in Targets : ClientWrites(size, r)
  <2>1. PICK size \in Sizes, r \in Targets : ClientWrites(size, r)
    BY <1>7
  <2>2. UNCHANGED <<command, mailbox>> /\ pc'["reader"] = pc["reader"]
        /\ pc["client"] = "idle" /\ pc'["client"] = "send"
        /\ queued' = queued + 1 /\ queued < MaxCommands /\ writing' = <<size, r>>
    BY <1>1, <2>1 DEF ClientWrites, Actors
  <2>3. Held'
    BY <1>0, <1>2, <2>2 DEF Held, memory, Busy, Holding
  <2>4. Around'
    BY <1>0, <2>2 DEF Around, memory, views
  <2>5. Numbers'
    BY <1>0, <2>2, ModbusAssumption DEF Numbers, line
  <2>6. InReader' = InReader /\ InClient = 0 /\ InClient' = 1
    BY <1>0, <2>2 DEF InReader, InClient, line
  <2>7. Counted'
    <3> SUFFICES ASSUME NEW q \in Regions
                 PROVE  reg'[q] + late'[q] + InReader' + Len(mailbox)' + InClient' <= queued'
      BY DEF Counted
    <3>1. reg[q] + late[q] + InReader + Len(mailbox) + InClient <= queued
      BY DEF Counted
    <3>2. reg[q] \in Nat /\ late[q] \in Nat /\ queued \in Nat
      BY DEF Numbers
    <3> QED  BY <1>0, <1>5, <1>6, <2>2, <2>6, <3>1, <3>2 DEF line
  <2>8. Restarted'
    BY <1>0, <1>3 DEF Restarted
  <2> QED  BY <1>4, <2>3, <2>4, <2>5, <2>7, <2>8
<1>8. CASE MsgSnd
  <2>1. /\ UNCHANGED command /\ pc'["reader"] = pc["reader"]
        /\ pc["client"] = "send" /\ pc'["client"] = "idle"
        /\ UNCHANGED queued /\ writing' = None
        /\ mailbox' = Append(mailbox, <<writing[1], writing[2], starts>>)
    BY <1>1, <1>8 DEF MsgSnd, Actors
  <2>2. <<writing[1], writing[2], starts>> \in Command
    <3>1. writing \in Sizes \X Targets
      BY <2>1 DEF IInv, Types
    <3>2. starts \in 0 .. MaxFaults
      BY <1>6, ModbusAssumption DEF Restarted, Numbers
    <3> QED  BY <3>1, <3>2 DEF Command
  <2>3. mailbox' \in Seq(Command) /\ Len(mailbox') = Len(mailbox) + 1
    <3> DEFINE e == <<writing[1], writing[2], starts>>
    <3>1. e \in Command /\ mailbox' = Append(mailbox, e)
      BY <2>1, <2>2
    <3> HIDE DEF e
    <3> QED  BY <1>5, <3>1
  <2>4. Held'
    BY <1>0, <1>2, <2>1 DEF Held, memory, Busy, Holding
  <2>5. Around'
    BY <1>0, <2>1, <2>3 DEF Around, memory, views
  <2>6. InReader' = InReader /\ InClient = 1 /\ InClient' = 0
    BY <1>0, <2>1 DEF InReader, InClient, line
  <2> QED  BY <1>0, <1>3, <1>4, <1>5, <1>6, <2>1, <2>3, <2>4, <2>5, <2>6, Still DEF line
<1>9. CASE ClearDrops \/ ClearEnds \/ MbxRead
  <2>1. UNCHANGED <<queued, writing>> /\ pc'["client"] = pc["client"]
    BY <1>1, <1>9 DEF ClearDrops, ClearEnds, MbxRead, client, Actors
  <2>2. \/ UNCHANGED <<mailbox, command>> /\ InReader' = InReader
           /\ (pc'["reader"] \in Holding => pc["reader"] \in Holding)
        \/ /\ mailbox # <<>> /\ mailbox' = Tail(mailbox)
           /\ \/ UNCHANGED command /\ InReader' = InReader /\ pc'["reader"] = pc["reader"]
              \/ command' = Head(mailbox) /\ InReader = 0
    BY <1>0, <1>1, <1>9 DEF ClearDrops, ClearEnds, MbxRead, client, Actors, InReader, line, Holding
  <2>3. InReader' \in 0 .. 1
    BY DEF InReader
  <2>4. mailbox' \in Seq(Command)
        /\ InReader' + Len(mailbox') <= InReader + Len(mailbox)
    <3>1. CASE UNCHANGED mailbox
      BY <1>5, <1>6, <2>2, <2>3, <3>1
    <3>2. CASE mailbox # <<>> /\ mailbox' = Tail(mailbox)
      <4>1. mailbox' \in Seq(Command) /\ Len(mailbox') = Len(mailbox) - 1
        BY <1>5, <3>2
      <4> QED  BY <1>5, <1>6, <2>2, <2>3, <4>1
    <3> QED  BY <2>2, <3>1, <3>2
  <2>5. mailbox # <<>> => Head(mailbox) \in Command
    BY <1>5
  <2>6. command' \in Command \cup {None}
        /\ (pc'["reader"] \in Holding => command' \in Command)
    BY <2>2, <2>5 DEF Held
  <2>7. Held'
    BY <1>0, <1>2, <2>6 DEF Held, memory, Busy
  <2>8. Around'
    BY <1>0, <2>1, <2>4 DEF Around, memory, views
  <2>9. InClient' = InClient /\ Len(mailbox') \in Nat
    BY <2>1, <2>4 DEF InClient
  <2> QED  BY <1>0, <1>3, <1>4, <1>5, <1>6, <2>1, <2>3, <2>4, <2>7, <2>8, <2>9, Still DEF line
<1> QED  BY <1>7, <1>8, <1>9

LEMMA LockTInv ==
    ASSUME IInv, TInv, NEW t \in Daemon, NewRound \/ Lock(t)
    PROVE  TInv'
<1> USE DEF TInv, Goto
<1>0. UNCHANGED <<starts, client, asked, answers, reg, got, shm, writeErrors, command,
                  connected, late, faults>>
  BY DEF NewRound, Lock, line, memory
<1>1. pc \in [Actors -> Places] /\ k \in Regions
  BY DEF IInv, Types
<1>2. /\ pc'["client"] = pc["client"]
      /\ \A u \in Daemon : \/ pc'[u] = pc[u] /\ request'[u] = request[u]
                           \/ pc[u] = "round" /\ pc'[u] = "lock" /\ u = "main"
                              /\ request'[u] = request[u]
                           \/ pc[u] = "lock" /\ pc'[u] = "request"
                              /\ request'[u] = Wanted(u)
      /\ request' \in [Daemon -> {request["main"], request["reader"], Wanted(t)}]
  <2>1. request \in [Daemon -> {request["main"], request["reader"]}]
    BY DEF Held, Daemon
  <2> QED  BY <1>1, <2>1 DEF NewRound, Lock, Actors, Places, Daemon, Held
<1>3. InReader' = InReader /\ InClient' = InClient /\ Hanging' = Hanging
  BY <1>0, <1>2 DEF InReader, InClient, Hanging, Daemon
<1>4. Wanted("main") \in {"read"} \X Regions \X {0, 1}
  BY <1>1 DEF Wanted, OnLine
<1>5. pc["reader"] = "lock" => Wanted("reader") \in Request
  <2>1. pc["reader"] = "lock" => command[2] \in Regions
    BY ModbusAssumption DEF Held, Holding, Command, Regions
  <2> QED  BY <2>1 DEF Wanted, OnLine, Request
<1>6. {"read"} \X Regions \X {0, 1} \subseteq Request
  BY DEF Request
<1>7. request' \in [Daemon -> Request \cup {None}]
  <2>1. CASE NewRound
    BY <2>1 DEF NewRound, Held
  <2>2. CASE Lock(t)
    <3>1. pc[t] = "lock" /\ request' = [request EXCEPT ![t] = Wanted(t)]
      BY <2>2 DEF Lock
    <3>2. Wanted(t) \in Request
      BY <1>4, <1>5, <1>6, <3>1 DEF Daemon
    <3> QED  BY <3>1, <3>2 DEF Held
  <2> QED  BY <2>1, <2>2
<1>8. /\ pc'["main"] \in Busy => request'["main"] \in {"read"} \X Regions \X {0, 1}
      /\ pc'["reader"] \in Busy => request'["reader"] \in Request
      /\ pc'["reader"] \in Holding => pc["reader"] \in Holding
  BY <1>2, <1>4, <1>5 DEF Daemon, Held, Busy, Holding
<1>9. Held'
  BY <1>0, <1>7, <1>8 DEF Held
<1>10. OnLine'
  <2>1. serial' \in {0, 1}
    BY DEF NewRound, Lock, OnLine, line
  <2> QED  BY <1>0, <2>1 DEF OnLine
<1>11. Around'
  <2>1. flock' \in {"daemon", "pvserver", Nobody} /\ viewing' \in 0 .. Viewers
      /\ shared' \in BOOLEAN
    BY DEF NewRound, Lock, Around, memory, views
  <2> QED  BY <1>0, <2>1 DEF Around, client
<1>12. Numbers' /\ Counted' /\ Restarted'
  <2>1. InReader \in Nat /\ InClient \in Nat /\ Len(mailbox) \in Nat /\ Hanging \in Nat
    BY DEF InReader, InClient, Around, Hanging
  <2> QED  BY <1>0, <1>3, <2>1, <1>11, Still DEF client, Around
<1> QED  BY <1>9, <1>10, <1>11, <1>12

\* What a closed connection leaves with the PLC: the command on the line.
LEMMA Closed ==
    ASSUME IInv, TInv, Disconnect, UNCHANGED reg
    PROVE  /\ late' \in [Regions -> Nat]
           /\ \A r \in Regions : late'[r] <= late[r] + InReader
           /\ OnLine'
<1>1. OnLine'
  <2>1. <<>> \in Seq(Request) /\ <<>> \in Seq(Part)
    BY Nothing
  <2> QED  BY <2>1 DEF Disconnect, OnLine, TInv
<1> DEFINE Kept(r) == {i \in DOMAIN asked : asked[i][1] = "command" /\ asked[i][2] = r}
<1>2. late' = [r \in Regions |-> late[r] + Cardinality(Kept(r))]
  BY DEF Disconnect
<1>3. InReader \in 0 .. 1 /\ late \in [Regions -> Nat]
  BY DEF InReader, TInv, Numbers
<1>4. ASSUME NEW r \in Regions
      PROVE  Cardinality(Kept(r)) \in Nat /\ Cardinality(Kept(r)) <= InReader
  <2>1. CASE Kept(r) = {}
    <3>1. Cardinality(Kept(r)) = 0
      BY <2>1, FS_EmptySet
    <3> QED  BY <1>3, <3>1
  <2>2. CASE Kept(r) # {}
    <3>1. asked # <<>>
      BY <2>2
    <3>2. PICK t \in Daemon : pc[t] = "head" /\ asked = <<request[t]>>
      BY <3>1 DEF IInv, LineOK, Awaiting, Reading
    <3>3. Kept(r) = {1}
      BY <2>2, <3>2
    <3>4. request[t][1] = "command"
      BY <3>2, <3>3
    <3>5. t = "reader"
      <4>1. t = "main" => request[t][1] = "read"
        BY <3>2 DEF TInv, Held, Busy
      <4> QED  BY <3>4, <4>1 DEF Daemon
    <3>6. InReader = 1
      BY <3>1, <3>2, <3>5 DEF InReader
    <3>7. Cardinality(Kept(r)) = 1
      BY <3>3, FS_Singleton
    <3> QED  BY <3>6, <3>7
  <2> QED  BY <2>1, <2>2
<1> HIDE DEF Kept
<1> QED  BY <1>1, <1>2, <1>3, <1>4

LEMMA FailTInv ==
    ASSUME IInv, TInv, NEW t \in Daemon, pc[t] \in Busy, Fail(t),
           UNCHANGED <<k, got, client, memory, reg, starts>>,
           \/ UNCHANGED faults
           \/ faults' = faults + 1 /\ faults < MaxFaults
    PROVE  TInv'
<1> USE DEF TInv, Fail, Unlock, Goto
<1>1. /\ pc'[t] = "store"
      /\ \A a \in Actors : a # t => pc'[a] = pc[a]
  BY DEF IInv, Types, Actors, Places, Daemon
<1>2. \A u \in Daemon : u # t => pc[u] \notin Busy
  BY DEF IInv, Locked
<1>3. OnLine' /\ late' \in [Regions -> Nat] /\ \A r \in Regions : late'[r] <= late[r] + InReader
  BY Closed
<1>4. Held'
  <2>1. request' \in [Daemon -> Request \cup {None}]
    BY DEF Held
  <2>2. pc'["main"] \notin Busy /\ pc'["reader"] \notin Busy
    BY <1>1, <1>2 DEF Busy, Actors, Daemon
  <2>3. command' \in Command \cup {None} /\ (pc'["reader"] \in Holding => command' \in Command)
    BY <1>1 DEF Held, Holding, Actors, Daemon
  <2> QED  BY <2>1, <2>2, <2>3 DEF Held, memory
<1>5. Around'
  BY DEF Around, client, memory, views
<1>6. Numbers'
  BY <1>3, ModbusAssumption DEF Numbers, client
<1>7. /\ InReader \in 0 .. 1 /\ InReader' \in 0 .. 1 /\ InReader' <= InReader
      /\ InClient' = InClient /\ InClient \in 0 .. 1
      /\ Hanging \in 0 .. 1 /\ Hanging' \in 0 .. 1 /\ Hanging' <= Hanging
  BY <1>1, <1>2 DEF InReader, InClient, Hanging, Daemon, Actors, Busy, Disconnect
<1>9. Counted'
  <2> SUFFICES ASSUME NEW r \in Regions
               PROVE  reg'[r] + late'[r] + InReader' + Len(mailbox)' + InClient' <= queued'
    BY DEF Counted
  <2>1. reg[r] + late[r] + InReader + Len(mailbox) + InClient <= queued
    BY DEF Counted
  <2>2. reg[r] \in Nat /\ late[r] \in Nat /\ late'[r] \in Nat /\ queued \in Nat
        /\ Len(mailbox) \in Nat
    BY <1>3 DEF Numbers, Around
  <2>3. late'[r] + InReader' <= late[r] + InReader
    <3>1. CASE InReader' = 0
      BY <1>3, <1>7, <2>2, <3>1
    <3>2. CASE InReader' # 0
      <4>1. pc["reader"] = "lock"
        BY <1>1, <1>2, <3>2 DEF InReader, Busy, Actors, Daemon, Disconnect
      <4>2. t = "main" /\ pc["reader"] \notin {"head", "body"}
        BY <1>1, <4>1, <3>2 DEF InReader, Busy, Daemon
      <4>3. late'[r] = late[r]
        <5> DEFINE Kept == {i \in DOMAIN asked : asked[i][1] = "command" /\ asked[i][2] = r}
        <5>1. late'[r] = late[r] + Cardinality(Kept)
          BY DEF Disconnect
        <5>2. Kept = {}
          <6>1. CASE asked = <<>>
            BY <6>1
          <6>2. CASE asked # <<>>
            <7>1. asked = <<request["main"]>>
              BY <4>2, <6>2 DEF IInv, LineOK, Awaiting, Reading, Daemon
            <7>2. pc["main"] = "head"
              BY <4>2, <6>2 DEF IInv, LineOK, Reading, Daemon
            <7>3. request["main"][1] = "read"
              BY <7>2 DEF Held, Busy
            <7> QED  BY <7>1, <7>3
          <6> QED  BY <6>1, <6>2
        <5>3. Cardinality(Kept) = 0
          BY <5>2, FS_EmptySet
        <5> QED  BY <2>2, <5>1, <5>3
      <4> QED  BY <1>7, <2>2, <4>3
    <3> QED  BY <3>1, <3>2
  <2>4. reg'[r] = reg[r] /\ Len(mailbox)' = Len(mailbox) /\ queued' = queued
    BY DEF client
  <2>5. InReader \in Nat /\ InReader' \in Nat /\ InClient \in Nat
    BY <1>7
  <2>6. reg[r] + late'[r] + InReader' + Len(mailbox) + InClient <= queued
    BY <2>1, <2>2, <2>3, <2>5, Moved
  <2> QED  BY <1>7, <2>4, <2>6
<1>10. Restarted'
  BY <1>7, ModbusAssumption DEF Restarted, Numbers
<1> QED  BY <1>3, <1>4, <1>5, <1>6, <1>9, <1>10

LEMMA SendTInv ==
    ASSUME IInv, TInv, NEW t \in Daemon,
           Send(t) \/ SendFails(t) \/ SendNothing(t) \/ ConnectHangs(t) \/ ConnectGivesUp(t)
    PROVE  TInv'
<1>1. CASE SendFails(t) \/ ConnectGivesUp(t) \/ (SendNothing(t) /\ ~connected)
  BY <1>1, FailTInv DEF SendFails, ConnectGivesUp, SendNothing, Busy, Fault
<1>2. CASE Send(t) \/ (SendNothing(t) /\ connected) \/ ConnectHangs(t)
  <2> USE DEF TInv, Goto
  <2>0. /\ pc[t] = "request"
        /\ UNCHANGED <<k, request, got, command, lock, answers, client, memory,
                       writeErrors, reg, starts, late, serial>>
    BY <1>2 DEF Send, SendNothing, ConnectHangs, line
  <2>1. /\ pc'[t] \in {"head", "hung"} /\ (pc'[t] = "hung" <=> ConnectHangs(t))
        /\ \A a \in Actors : a # t => pc'[a] = pc[a]
    BY <1>2 DEF Send, SendNothing, ConnectHangs, IInv, Types, Actors, Places, Daemon
  <2>2. \A u \in Daemon : u # t => pc[u] \notin Busy
    BY <2>0 DEF IInv, Locked, Busy
  <2>3. asked = <<>> /\ answers = <<>>
    BY <2>0, <2>2 DEF IInv, LineOK, Busy, Daemon
  <2>4. asked' = <<request[t]>> \/ asked' = <<>>
    BY <1>2, <2>3 DEF Send, SendNothing, ConnectHangs, line
  <2>5. Held'
    BY <2>0, <2>1 DEF Held, memory, Busy, Holding, Actors, Daemon
  <2>6. OnLine'
    <3>1. request[t] \in Request
      BY <2>0 DEF Held, Busy, Daemon, Request
    <3>2. asked' \in Seq(Request)
      <4>1. <<request[t]>> \in Seq(Request) /\ <<>> \in Seq(Request)
        BY <3>1, Nothing
      <4> QED  BY <2>4, <4>1
    <3>3. connected' \in BOOLEAN
      BY <1>2 DEF Send, SendNothing, ConnectHangs, OnLine, line
    <3> QED  BY <2>0, <3>2, <3>3 DEF OnLine
  <2>7. Around'
    BY <2>0 DEF Around, memory, views, client
  <2>8. faults' = IF ConnectHangs(t) THEN faults + 1 ELSE faults
    BY <1>2, <2>1 DEF Send, SendNothing, ConnectHangs, Fault
  <2>9. faults' <= MaxFaults
    BY <2>8, ModbusAssumption DEF ConnectHangs, Fault, Numbers
  <2>10. Numbers'
    BY <2>0, <2>8, <2>9, ModbusAssumption DEF Numbers, client
  <2>11. Restarted'
    <3>1. Hanging = 0
      BY <2>0, <2>2 DEF Hanging, Busy, Daemon
    <3>2. Hanging' = IF ConnectHangs(t) THEN 1 ELSE 0
      BY <2>1, <2>2 DEF Hanging, Busy, Daemon, Actors
    <3> QED  BY <2>0, <2>8, <3>1, <3>2, ModbusAssumption DEF Restarted, Numbers
  <2>12. InReader \in 0 .. 1 /\ InReader' \in 0 .. 1 /\ InReader' <= InReader
         /\ InClient' = InClient /\ InClient \in 0 .. 1
    <3>1. InReader \in 0 .. 1 /\ InReader' \in 0 .. 1 /\ InClient' = InClient /\ InClient \in 0 .. 1
      BY <2>1 DEF InReader, InClient, Actors, Daemon
    <3>2. InReader' = 1 => InReader = 1
      <4>1. CASE t = "reader"
        BY <2>0, <4>1 DEF InReader
      <4>2. CASE t = "main"
        BY <2>0, <2>1, <2>2, <4>2 DEF InReader, Actors, Daemon, Busy
      <4> QED  BY <4>1, <4>2 DEF Daemon
    <3> QED  BY <3>1, <3>2
  <2>13. Counted'
    <3> SUFFICES ASSUME NEW r \in Regions
                 PROVE  reg'[r] + late'[r] + InReader' + Len(mailbox)' + InClient' <= queued'
      BY DEF Counted
    <3>1. reg[r] + late[r] + InReader + Len(mailbox) + InClient <= queued
      BY DEF Counted
    <3>2. reg[r] \in Nat /\ late[r] \in Nat /\ queued \in Nat /\ Len(mailbox) \in Nat
      BY DEF Numbers, Around
    <3>3. reg'[r] = reg[r] /\ late'[r] = late[r] /\ Len(mailbox)' = Len(mailbox)
          /\ queued' = queued
      BY <2>0 DEF client
    <3> QED  BY <2>12, <3>1, <3>2, <3>3
  <2> QED  BY <2>5, <2>6, <2>7, <2>10, <2>11, <2>13
<1> QED  BY <1>1, <1>2 DEF SendNothing

LEMMA ReadTInv ==
    ASSUME IInv, TInv, NEW t \in Daemon, ReadHead(t) \/ ReadBody(t) \/ Timeout(t)
    PROVE  TInv'
<1>1. CASE Timeout(t) \/ (ReadHead(t) /\ Head(answers)[2] = "exception")
  BY <1>1, FailTInv DEF Timeout, ReadHead, Busy, Fault
<1>2. CASE (ReadHead(t) /\ Head(answers)[2] # "exception") \/ ReadBody(t)
  <2> USE DEF TInv, Goto
  <2>0. /\ pc[t] \in {"head", "body"} /\ answers # <<>>
        /\ UNCHANGED <<k, client, memory, reg, starts, faults, writeErrors>>
        /\ request' = request \/ request' = [request EXCEPT ![t] = None]
        /\ command' = command \/ (t = "reader" /\ command' = None /\ pc'[t] = "read")
    BY <1>2 DEF ReadHead, ReadBody, Unlock, IInv, Types, Actors, Daemon
  <2>1. /\ pc'[t] \in {"body", "store", "read"}
        /\ pc'[t] \in Busy => request' = request
        /\ t = "reader" /\ pc'[t] \in Holding => command' = command
        /\ \A a \in Actors : a # t => pc'[a] = pc[a]
    BY <1>2 DEF ReadHead, ReadBody, IInv, Types, Actors, Places, Daemon, Busy, Holding
  <2>2. \A u \in Daemon : u # t => pc[u] \notin Busy
    BY <2>0 DEF IInv, Locked, Busy
  <2>3. answers \in Seq(Part) /\ Head(answers) \in Part
    BY <2>0 DEF OnLine
  <2>4. got' \in Value \cup {None}
    <3>1. Head(answers)[1][2] \in Regions /\ Head(answers)[3] \in 0 .. MaxCommands
      BY <2>3 DEF Part, Request
    <3>2. <<Head(answers)[1][2], Head(answers)[3]>> \in Value
      BY <3>1 DEF Value
    <3> QED  BY <1>2, <3>2 DEF ReadHead, ReadBody, Held
  <2>5. Held'
    <3>1. request' \in [Daemon -> Request \cup {None}]
      BY <2>0 DEF Held
    <3>2. /\ pc'["main"] \in Busy => pc["main"] \in Busy /\ request' = request
          /\ pc'["reader"] \in Busy => pc["reader"] \in Busy /\ request' = request
      BY <2>0, <2>1, <2>2 DEF Busy, Daemon, Actors
    <3>3. command' \in Command \cup {None} /\ (pc'["reader"] \in Holding => command' \in Command)
      BY <2>0, <2>1 DEF Held, Holding, Actors, Daemon
    <3> QED  BY <2>0, <2>4, <3>1, <3>2, <3>3 DEF Held, memory
  <2>6. Around'
    BY <2>0 DEF Around, client, memory, views
  <2>7. InClient' = InClient /\ Hanging' = Hanging
    BY <2>0, <2>1 DEF InClient, Hanging, Actors, Daemon
  <2>8. InReader' <= InReader
    BY <2>0, <2>1, <2>2 DEF InReader, Actors, Daemon, Busy
  <2>9. OnLine' /\ late' = late
    <3>1. CASE ReadBody(t) /\ t # "main"
      <4>1. asked = <<>>
        BY <3>1 DEF ReadBody, IInv, LineOK, Reading
      <4>2. \A r \in Regions : {i \in DOMAIN asked : asked[i][1] = "command" /\ asked[i][2] = r} = {}
        BY <4>1
      <4>3. late' = [r \in Regions |-> late[r] + 0]
        BY <3>1, <4>2, FS_EmptySet DEF ReadBody, Disconnect
      <4>4. late' = late
        BY <4>3 DEF Numbers
      <4>5. <<>> \in Seq(Request) /\ <<>> \in Seq(Part)
        BY Nothing
      <4> QED  BY <3>1, <4>4, <4>5 DEF ReadBody, Disconnect, OnLine
    <3>2. CASE ReadHead(t) \/ (ReadBody(t) /\ t = "main")
      <4>1. UNCHANGED <<connected, asked, late, serial>> /\ answers' = Tail(answers)
        BY <1>2, <3>2 DEF ReadHead, ReadBody
      <4>2. answers' \in Seq(Part)
        BY <2>0, <2>3, <4>1
      <4> QED  BY <4>1, <4>2 DEF OnLine
    <3> QED  BY <1>2, <3>1, <3>2
  <2>10. InReader \in Nat /\ InReader' \in Nat /\ InClient \in Nat /\ Len(mailbox) \in Nat
         /\ Hanging \in Nat
    BY DEF InReader, InClient, Hanging, Around
  <2>11. mailbox' = mailbox /\ queued' = queued /\ mailbox' \in Seq(Command)
    BY <2>0 DEF client, Around
  <2>12. Len(mailbox)' = Len(mailbox)
    BY <2>11
  <2>13. InReader' + Len(mailbox)' + InClient' <= InReader + Len(mailbox) + InClient
    BY <2>7, <2>8, <2>10, <2>12
  <2>14. Numbers' /\ Counted' /\ Restarted'
    BY <2>0, <2>7, <2>9, <2>10, <2>11, <2>13, Still
  <2> QED  BY <2>5, <2>6, <2>9, <2>14
<1> QED  BY <1>1, <1>2 DEF ReadHead

LEMMA PlcTInv ==
    ASSUME IInv, TInv, PlcAnswers \/ PlcRefuses \/ \E r \in Regions : PlcExecutesLate(r)
    PROVE  TInv'
<1> USE DEF TInv
<1>0. UNCHANGED <<pc, k, request, got, command, lock, client, memory, writeErrors, starts,
                  connected, serial>>
  BY DEF PlcAnswers, PlcRefuses, PlcExecutesLate
<1>1. Held' /\ Around'
  BY <1>0 DEF Held, Around, client, memory, views
<1>2. InClient' = InClient /\ InClient \in Nat /\ Len(mailbox) \in Nat /\ Hanging' = Hanging
      /\ Hanging \in Nat /\ queued' = queued /\ Len(mailbox)' = Len(mailbox)
  BY <1>0 DEF InClient, Hanging, client, Around
<1>3. InReader \in 0 .. 1 /\ InReader' \in 0 .. 1
  BY DEF InReader
<1>4. CASE \E r \in Regions : PlcExecutesLate(r)
  <2>1. PICK r \in Regions : PlcExecutesLate(r)
    BY <1>4
  <2>2. UNCHANGED <<asked, answers, faults>>
        /\ late[r] > 0 /\ late' = [late EXCEPT ![r] = @ - 1] /\ reg' = [reg EXCEPT ![r] = @ + 1]
    BY <2>1 DEF PlcExecutesLate
  <2>3. Numbers'
    BY <1>0, <2>2 DEF Numbers, client
  <2>4. \A q \in Regions : reg'[q] + late'[q] = reg[q] + late[q]
    BY <2>2 DEF Numbers
  <2>5. InReader' = InReader
    BY <1>0, <2>2 DEF InReader
  <2>6. Counted'
    <3> SUFFICES ASSUME NEW q \in Regions
                 PROVE  reg'[q] + late'[q] + InReader' + Len(mailbox)' + InClient' <= queued'
      BY DEF Counted
    <3>1. reg[q] + late[q] + InReader + Len(mailbox) + InClient <= queued
      BY DEF Counted
    <3> QED  BY <1>2, <2>4, <2>5, <3>1
  <2> QED  BY <1>0, <1>1, <1>2, <2>2, <2>3, <2>6 DEF OnLine, Restarted
<1>5. CASE PlcAnswers \/ PlcRefuses
  <2>1. asked # <<>>
    BY <1>5 DEF PlcAnswers, PlcRefuses
  <2>2. PICK t \in Daemon : pc[t] = "head" /\ asked = <<request[t]>> /\ answers = <<>>
    BY <2>1 DEF IInv, LineOK, Awaiting, Reading
  <2>3. \A u \in Daemon : u # t => pc[u] \notin Busy
    BY <2>2 DEF IInv, Locked, Busy
  <2>4. Head(asked) = request[t] /\ Tail(asked) = <<>> /\ asked' = <<>>
    BY <1>5, <2>2 DEF PlcAnswers, PlcRefuses
  <2>5. request[t] \in Request /\ request[t][2] \in Regions
    BY <2>1, <2>4 DEF OnLine, Request
  <2>6. IF t = "reader" THEN InReader' = 0 ELSE InReader' = InReader
    BY <1>0, <2>2, <2>3, <2>4 DEF InReader, Busy, Daemon
  <2>7. t = "main" => request[t][1] = "read"
    BY <2>2 DEF Held, Busy
  <2>8. t = "reader" => InReader = 1
    BY <2>1, <2>2 DEF InReader
  <2>9. late' = late /\ reg' \in [Regions -> Nat]
        /\ \A q \in Regions : reg[q] \in Nat /\ late[q] \in Nat /\ reg'[q] \in Nat
                             /\ reg'[q] + InReader' <= reg[q] + InReader
    <3>1. late' = late /\ (reg' = reg \/ Execute(request[t]))
      BY <1>5, <2>4 DEF PlcAnswers, PlcRefuses
    <3>2. \A q \in Regions : reg[q] \in Nat /\ late[q] \in Nat
      BY DEF Numbers
    <3>3. CASE reg' = reg
      <4>1. InReader' <= InReader
        BY <1>3, <2>6
      <4> QED  BY <1>3, <3>1, <3>2, <3>3, <4>1 DEF Numbers
    <3>4. CASE reg' = [reg EXCEPT ![request[t][2]] = @ + 1] /\ request[t][1] = "command"
      <4>1. InReader = 1 /\ InReader' = 0
        BY <2>6, <2>7, <2>8, <3>4 DEF Daemon
      <4> DEFINE x == request[t][2]
      <4>2. reg' = [reg EXCEPT ![x] = @ + 1] /\ reg \in [Regions -> Nat] /\ x \in Regions
        BY <2>5, <3>4 DEF Numbers
      <4> HIDE DEF x
      <4>3. reg' \in [Regions -> Nat] /\ \A q \in Regions : reg'[q] \in Nat /\ reg'[q] <= reg[q] + 1
        BY <4>2
      <4> QED  BY <3>1, <3>2, <4>1, <4>3
    <3> QED  BY <3>1, <3>3, <3>4 DEF Execute
  <2>10. faults' \in 0 .. MaxFaults /\ (starts + Hanging <= faults => starts + Hanging <= faults')
    BY <1>2, <1>5, ModbusAssumption DEF PlcAnswers, PlcRefuses, Fault, Numbers
  <2>11. Numbers' /\ Restarted'
    BY <1>0, <1>2, <2>9, <2>10 DEF Numbers, Restarted, client
  <2>12. ASSUME NEW r \in Regions
         PROVE  reg'[r] + late[r] + InReader' + Len(mailbox) + InClient <= queued
    <3>1. reg[r] + late[r] + InReader + Len(mailbox) + InClient <= queued
      BY DEF Counted
    <3>2. InReader \in Nat /\ InReader' \in Nat
      BY <1>3
    <3>3. reg'[r] + InReader' <= reg[r] + InReader /\ reg[r] \in Nat /\ reg'[r] \in Nat
          /\ late[r] \in Nat /\ queued \in Nat
      BY <2>9 DEF Numbers
    <3>4. late[r] + reg[r] + InReader + Len(mailbox) + InClient <= queued
      BY <1>2, <3>1, <3>2, <3>3
    <3>5. late[r] + reg'[r] + InReader' + Len(mailbox) + InClient <= queued
      BY <1>2, <3>2, <3>3, <3>4, Moved
    <3> QED  BY <1>2, <3>2, <3>3, <3>5
  <2>13. Counted'
    BY <1>2, <2>9, <2>12 DEF Counted
  <2>14. reg'[request[t][2]] \in 0 .. MaxCommands
    <3> DEFINE r == request[t][2]
    <3>1. reg'[r] + late[r] + InReader' + Len(mailbox) + InClient <= queued
      BY <2>5, <2>12
    <3>2. queued \in 0 .. MaxCommands /\ reg'[r] \in Nat /\ late[r] \in Nat
      BY <2>5, <2>9 DEF Numbers
    <3> HIDE DEF r
    <3>3. reg'[r] \in 0 .. MaxCommands
      BY <1>2, <1>3, <3>1, <3>2, ModbusAssumption
    <3> QED  BY <3>3 DEF r
  <2>15. answers' \in Seq(Part)
    <3>1. <<request[t], "exception", 0>> \in Part /\ <<request[t], "head", 0>> \in Part
          /\ <<request[t], "body", reg'[request[t][2]]>> \in Part
      BY <2>5, <2>14, ModbusAssumption DEF Part
    <3>2. CASE PlcRefuses
      <4>1. answers' = << <<request[t], "exception", 0>> >>
        BY <2>2, <2>4, <3>2 DEF PlcRefuses
      <4> QED  BY <3>1, <4>1
    <3>3. CASE PlcAnswers
      <4>1. answers' = << <<request[t], "head", 0>>, <<request[t], "body", reg'[request[t][2]]>> >>
        BY <2>2, <2>4, <3>3 DEF PlcAnswers
      <4> QED  BY <3>1, <4>1
    <3> QED  BY <1>5, <3>2, <3>3
  <2>16. OnLine'
    <3>1. asked' \in Seq(Request)
      BY <2>4, Nothing
    <3> QED  BY <1>0, <2>15, <3>1 DEF OnLine
  <2> QED  BY <1>1, <2>11, <2>13, <2>16
<1> QED  BY <1>4, <1>5

LEMMA WatchTInv ==
    ASSUME IInv, TInv, Restart
    PROVE  TInv'
<1> USE DEF TInv
<1>1. /\ pc'["main"] = "round" /\ pc'["reader"] = "clear" /\ pc'["client"] = pc["client"]
      /\ UNCHANGED <<client, memory, reg, faults>> /\ Stuck /\ Disconnect
      /\ request' = [t \in Daemon |-> None] /\ command' = None /\ got' = None
      /\ starts' = starts + 1 /\ writeErrors' = FALSE
  BY DEF Restart, IInv, Types, Actors
<1>2. OnLine' /\ late' \in [Regions -> Nat] /\ \A r \in Regions : late'[r] <= late[r] + InReader
  BY <1>1, Closed
<1>3. Held'
  BY <1>1 DEF Held, memory, Busy, Holding
<1>4. Around'
  BY <1>1 DEF Around, client, memory, views
<1>5. Numbers'
  BY <1>1, <1>2 DEF Numbers, client
<1>6. Hanging = 1 /\ Hanging' = 0
  BY <1>1 DEF Hanging, Stuck
<1>7. Restarted'
  BY <1>1, <1>6, ModbusAssumption DEF Restarted, Numbers
<1>8. InReader' = 0 /\ InReader \in 0 .. 1 /\ InClient' = InClient /\ InClient \in Nat
      /\ Len(mailbox) \in Nat /\ Len(mailbox)' = Len(mailbox)
      /\ queued' = queued
  BY <1>1 DEF InReader, InClient, Around, client
<1>9. Counted'
  <2> SUFFICES ASSUME NEW r \in Regions
               PROVE  reg'[r] + late'[r] + InReader' + Len(mailbox)' + InClient' <= queued'
    BY DEF Counted
  <2>1. reg[r] + late[r] + InReader + Len(mailbox) + InClient <= queued
    BY DEF Counted
  <2>2. reg[r] \in Nat /\ late[r] \in Nat /\ queued \in Nat /\ late'[r] \in Nat
        /\ reg'[r] = reg[r] /\ late'[r] <= late[r] + InReader
    BY <1>1, <1>2 DEF Numbers
  <2>3. InReader \in Nat /\ InReader' \in Nat /\ late'[r] + InReader' <= late[r] + InReader
    BY <1>8, <2>2
  <2> HIDE DEF TInv
  <2>4. reg[r] + late'[r] + InReader' + Len(mailbox) + InClient <= queued
    BY <1>8, <2>1, <2>2, <2>3, Moved
  <2> QED  BY <1>8, <2>2, <2>4
<1> QED  BY <1>2, <1>3, <1>4, <1>5, <1>7, <1>9

LEMMA NextTInv == IInv /\ TInv /\ [Next]_vars => TInv'
<1> SUFFICES ASSUME IInv, TInv, [Next]_vars
             PROVE  TInv'
  OBVIOUS
<1>0. "main" \in Daemon /\ "reader" \in Daemon
  BY DEF Daemon
<1>1. CASE StoreBegins \/ StoreEnds \/ CountBegins \/ CountEnds \/ ViewBegins \/ ViewEnds
  BY <1>1, MemoryTInv
<1>2. CASE \/ \E size \in Sizes, r \in Targets : ClientWrites(size, r)
           \/ MsgSnd \/ ClearDrops \/ ClearEnds \/ MbxRead
  BY <1>2, MailboxTInv
<1>3. CASE NewRound \/ Lock("main") \/ Lock("reader")
  BY <1>0, <1>3, LockTInv
<1>4. CASE \E t \in Daemon : SendFails(t) \/ ConnectHangs(t) \/ ConnectGivesUp(t)
  BY <1>4, SendTInv
<1>5. ASSUME NEW t \in Daemon, Transaction(t)
      PROVE  TInv'
  BY <1>5, SendTInv, ReadTInv DEF Transaction
<1>6. CASE PlcAnswers \/ PlcRefuses \/ \E r \in Regions : PlcExecutesLate(r)
  BY <1>6, PlcTInv
<1>7. CASE Restart
  BY <1>7, WatchTInv
<1>8. CASE UNCHANGED vars
  BY <1>8 DEF TInv, Held, OnLine, Around, Numbers, Counted, Restarted, InReader, InClient,
              Hanging, vars, line, client, memory, views
<1> QED
  BY <1>0, <1>1, <1>2, <1>3, <1>4, <1>5, <1>6, <1>7, <1>8 DEF Next, MainStep, ReaderStep

\* The PLC's registers are written as often as commands were queued at most,
\* through restarts and late executions on old connections (a command is in one
\* place at a time), and the watchdog restarts the daemon as often as a
\* connect() hangs at most.
THEOREM TypeCorrect == Spec => []TypeOK
<1>1. IInv /\ TInv => TypeOK
  <2> SUFFICES ASSUME IInv, TInv
               PROVE  TypeOK
    OBVIOUS
  <2>1. ASSUME NEW r \in Regions
        PROVE  reg[r] \in 0 .. MaxCommands /\ late[r] \in 0 .. MaxCommands
    <3>1. reg[r] + late[r] + InReader + Len(mailbox) + InClient <= queued
      BY DEF TInv, Counted
    <3>2. reg[r] \in Nat /\ late[r] \in Nat /\ queued \in 0 .. MaxCommands
      BY DEF TInv, Numbers
    <3>3. InReader \in Nat /\ InClient \in Nat /\ Len(mailbox) \in Nat
      BY DEF TInv, Around, InReader, InClient
    <3> QED  BY <3>1, <3>2, <3>3, ModbusAssumption
  <2>2. reg \in [Regions -> 0 .. MaxCommands] /\ late \in [Regions -> 0 .. MaxCommands]
    BY <2>1 DEF TInv, Numbers
  <2>3. starts \in 0 .. MaxFaults
    <3>1. Hanging \in Nat
      BY DEF Hanging
    <3> QED  BY <3>1, ModbusAssumption DEF TInv, Numbers, Restarted
  <2>4. pc \in [{"main", "reader", "client"} ->
                 {"round", "lock", "request", "head", "body", "hung", "store",
                  "copy", "clear", "read", "ended", "idle", "send"}]
        /\ k \in Regions /\ lock \in Daemon \cup {Nobody}
    BY DEF IInv, Types, Actors, Places
  <2>5. Held /\ OnLine /\ Around /\ Numbers
    BY DEF TInv
  <2>6. request \in [Daemon -> Request \cup {None}] /\ command \in Command \cup {None}
        /\ got \in Value \cup {None} /\ shm \in [Regions -> Value \cup {None}]
    BY <2>5 DEF Held
  <2> QED  BY <2>2, <2>3, <2>4, <2>5, <2>6, Zenon DEF TypeOK, OnLine, Around, Numbers
<1> QED  BY <1>1, InitIInv, NextIInv, InitTInv, NextTInv, PTL DEF Spec
=============================================================================
