------------------------- MODULE DataReceiver_proofs -------------------------
(***************************************************************************)
(* For any connections, bounds and user code: a closed DataReceiver leaves *)
(* nothing behind, and it implements EventStream.                          *)
(***************************************************************************)
EXTENDS DataReceiverInv, SequenceTheorems, TLAPS

\* What the steps of the threads that touch no connection leave alone.
Still == UNCHANGED <<run, server, phase, born, sent, to, state, qu, last, hails>>

StillStep ==
  \/ CallListen \/ CallStopListen \/ StopListenReturns \/ StopListenThrows
  \/ ReceivingEnds \/ ForwardingGoesOn \/ WaitForEvents \/ Wake \/ Oversleep
  \/ ForwardingEnds \/ ForwardingEndsBadly
  \/ DeamonLooks \/ WatchReceiving \/ WatchForwarding \/ CloseReceiving

ConnStep(c) ==
  \/ Open(c) \/ SendName(c) \/ SendEvent(c) \/ Close(c)
  \/ HandleConnect(c) \/ HandleName(c) \/ HandleEvent(c) \/ HandleDisconnect(c)
  \/ OnReceive(c) \/ OnConnect(c) \/ OnDisconnect(c)

\* The steps sorted by what they touch.
LEMMA NextCases ==
  Next <=> StillStep \/ Listen \/ CloseForwarding \/ \E c \in Conns : ConnStep(c)
BY DEF Next, StillStep, ConnStep, CommandStep, Forwarding, Deamon, Sender, DataHandler

LEMMA StillIsStill == StillStep => Still
BY DEF StillStep, Still, lifeVars, sendVars, userVars,
       CallListen, CallStopListen, StopListenReturns, StopListenThrows, ReceivingEnds,
       ForwardingGoesOn, WaitForEvents, Wake, Oversleep, ForwardingEnds, ForwardingEndsBadly,
       DeamonLooks, WatchReceiving, WatchForwarding, CloseReceiving

-----------------------------------------------------------------------------
(***************************************************************************)
(* Types.                                                                  *)
(***************************************************************************)

\* TypeOK in two parts, for the flags and everything else are proved apart.
TypeFlags ==
  /\ listening \in BOOLEAN /\ server \in BOOLEAN
  /\ rcvReturn \in BOOLEAN /\ awake \in BOOLEAN /\ full \in BOOLEAN

TypeData ==
  /\ cmd \in {"idle", "listen", "stop"}
  /\ calls \in 0 .. MaxCalls
  /\ run \in Nat
  /\ rcv \in {"none", "run", "ended", "threw"}
  /\ fwd \in FwdAlive \cup {"none", "ended", "threw"}
  /\ dm \in {"top", "watchRcv", "watchFwd", "closeRcv", "closeFwd"}
  /\ phase \in [Conns -> {"absent", "calling", "greeted", "naming", "up", "gone"}]
  /\ born \in [Conns -> Nat]
  /\ sent \in [Conns -> 0 .. MaxEvents]
  /\ to \in [Conns -> Seq(Packets)]
  /\ state \in [Conns -> {0, 1}]
  /\ known \in SUBSET Conns
  /\ qu \in Seq(Conns \X (0 .. MaxEvents))
  /\ last \in [Conns -> 0 .. MaxEvents]
  /\ hails \in [Conns -> Nat]
  /\ byes \in [Conns -> Nat]

LEMMA TypeParts == TypeOK <=> TypeFlags /\ TypeData
BY Zenon DEF TypeOK, TypeFlags, TypeData

LEMMA TypePartsNext == TypeOK' <=> TypeFlags' /\ TypeData'
BY Zenon DEF TypeOK, TypeFlags, TypeData

LEMMA TypeInit == Init => TypeOK
<1>1. Init => TypeFlags
  BY DEF Init, TypeFlags
<1>2. Init => TypeData
  BY DataReceiverAssumption DEF Init, TypeData, FwdAlive
<1> QED BY <1>1, <1>2, TypeParts

LEMMA FlagsStep ==
  ASSUME TypeFlags, Next
  PROVE  TypeFlags'
<1> USE Zenon DEF TypeFlags, lifeVars, sendVars, userVars
<1>1. CASE StillStep
  <2>1. CASE CallListen \/ CallStopListen \/ StopListenReturns \/ StopListenThrows
    BY <2>1 DEF CallListen, CallStopListen, StopListenReturns, StopListenThrows
  <2>2. CASE ReceivingEnds \/ ForwardingGoesOn \/ WaitForEvents \/ Wake \/ Oversleep
    BY <2>2 DEF ReceivingEnds, ForwardingGoesOn, WaitForEvents, Wake, Oversleep
  <2>3. CASE ForwardingEnds \/ ForwardingEndsBadly
    BY <2>3 DEF ForwardingEnds, ForwardingEndsBadly
  <2>4. CASE DeamonLooks \/ WatchReceiving \/ WatchForwarding \/ CloseReceiving
    BY <2>4 DEF DeamonLooks, WatchReceiving, WatchForwarding, CloseReceiving
  <2> QED BY <1>1, <2>1, <2>2, <2>3, <2>4 DEF StillStep
<1>2. CASE Listen
  BY <1>2 DEF Listen
<1>3. CASE CloseForwarding
  BY <1>3 DEF CloseForwarding
<1>4. ASSUME NEW c \in Conns, ConnStep(c)
      PROVE  TypeFlags'
  <2>1. CASE Open(c) \/ SendName(c) \/ SendEvent(c) \/ Close(c)
    BY <2>1 DEF Open, SendName, SendEvent, Close
  <2>2. CASE HandleConnect(c) \/ HandleName(c)
    BY <2>2 DEF HandleConnect, HandleName, Notify
  <2>3. CASE HandleEvent(c) \/ HandleDisconnect(c)
    BY <2>3 DEF HandleEvent, HandleDisconnect, Notify
  <2>4. CASE OnReceive(c) \/ OnConnect(c) \/ OnDisconnect(c)
    BY <2>4 DEF OnReceive, OnConnect, OnDisconnect
  <2> QED BY <1>4, <2>1, <2>2, <2>3, <2>4 DEF ConnStep
<1> QED BY <1>1, <1>2, <1>3, <1>4, NextCases

LEMMA PacketType ==
  ASSUME TypeData, NEW c \in Conns, NEW k, NEW n, Packet(c, k, n)
  PROVE  to' \in [Conns -> Seq(Packets)]
<1>1. to[c] \in Seq(Packets) /\ to[c] # <<>>
  BY DEF Packet, TypeData
<1>2. Tail(to[c]) \in Seq(Packets)
  BY <1>1
<1> QED BY <1>2 DEF Packet, TypeData

Entries == Conns \X (0 .. MaxEvents)

LEMMA TakeType ==
  ASSUME TypeData, NEW c \in Conns, NEW e, Take(c, e)
  PROVE  qu' \in Seq(Entries) /\ e \in 0 .. MaxEvents
<1>1. qu \in Seq(Entries) /\ qu # <<>> /\ Head(qu) = <<c, e>> /\ qu' = Tail(qu)
  BY DEF Take, TypeData, Entries
<1>2. Head(qu) \in Entries
  BY <1>1
<1> QED BY <1>1, <1>2 DEF Entries

LEMMA PushType ==
  ASSUME TypeData, NEW c \in Conns, NEW e \in 0 .. MaxEvents
  PROVE  Append(qu, <<c, e>>) \in Seq(Entries) /\ Append(qu, <<c, e>>) # <<>>
<1>1. qu \in Seq(Entries) /\ <<c, e>> \in Entries
  BY DEF TypeData, Entries
<1> QED BY <1>1

LEMMA DataStep ==
  ASSUME TypeData, Next
  PROVE  TypeData'
<1> USE DataReceiverAssumption DEF TypeData, FwdAlive
<1>2. CASE StillStep
  <2>1. CASE CallListen \/ CallStopListen
    BY <2>1 DEF CallListen, CallStopListen, lifeVars, sendVars, userVars
  <2>2. CASE StopListenReturns \/ StopListenThrows \/ ReceivingEnds
    BY <2>2 DEF StopListenReturns, StopListenThrows, ReceivingEnds, lifeVars, sendVars, userVars
  <2>3. CASE ForwardingGoesOn \/ WaitForEvents \/ Wake \/ Oversleep
    BY <2>3 DEF ForwardingGoesOn, WaitForEvents, Wake, Oversleep, lifeVars, sendVars, userVars
  <2>4. CASE ForwardingEnds
    <3>1. byes' \in [Conns -> Nat] /\ known' = {} /\ fwd' = "ended"
      BY <2>4 DEF ForwardingEnds
    <3>2. UNCHANGED <<cmd, calls, run, rcv, dm, phase, born, sent, to, state, qu, last, hails>>
      BY <2>4 DEF ForwardingEnds, lifeVars, sendVars
    <3> QED BY <3>1, <3>2
  <2>5. CASE ForwardingEndsBadly
    <3>1. byes' \in [Conns -> Nat] /\ fwd' = "threw"
      BY <2>5 DEF ForwardingEndsBadly
    <3>2. UNCHANGED <<cmd, calls, run, rcv, dm, phase, born, sent, to, state, known, qu, last, hails>>
      BY <2>5 DEF ForwardingEndsBadly, lifeVars, sendVars
    <3> QED BY <3>1, <3>2
  <2>6. CASE DeamonLooks \/ WatchReceiving \/ WatchForwarding \/ CloseReceiving
    BY <2>6 DEF DeamonLooks, WatchReceiving, WatchForwarding, CloseReceiving,
                lifeVars, sendVars, userVars
  <2> QED BY <1>2, <2>1, <2>2, <2>3, <2>4, <2>5, <2>6 DEF StillStep
<1>3. CASE Listen
  BY <1>3 DEF Listen, lifeVars, sendVars, userVars
<1>4. CASE CloseForwarding
  <2>1. UNCHANGED <<cmd, calls, run, rcv, born, sent, state, known, last, hails, byes>>
        /\ fwd' = "none" /\ dm' = "top"
    BY <1>4 DEF CloseForwarding, userVars
  <2>2. UNCHANGED <<phase, to, qu>> \/ (qu' = <<>> /\ Disconnected)
    BY <1>4 DEF CloseForwarding
  <2>3. phase' \in [Conns -> {"absent", "calling", "greeted", "naming", "up", "gone"}]
    BY <2>2 DEF Disconnected
  <2>4. to' \in [Conns -> Seq(Packets)]
    <3>1. <<>> \in Seq(Packets)
      OBVIOUS
    <3> QED BY <2>2, <3>1 DEF Disconnected
  <2>5. qu' \in Seq(Conns \X (0 .. MaxEvents))
    <3>1. <<>> \in Seq(Conns \X (0 .. MaxEvents))
      OBVIOUS
    <3> QED BY <2>2, <3>1
  <2> QED BY <2>1, <2>3, <2>4, <2>5
<1>5. ASSUME NEW c \in Conns, ConnStep(c)
      PROVE  TypeData'
  <2>1. CASE Open(c)
    <3>1. <<"CONNECT", 0>> \in Packets
      BY DEF Packets, Events
    <3> QED BY <2>1, <3>1 DEF Open, lifeVars, userVars
  <2>2. CASE SendName(c) \/ Close(c)
    <3>1. <<"NAME", 0>> \in Packets /\ <<"BYE", 0>> \in Packets
      BY DEF Packets
    <3>2. to' \in [Conns -> Seq(Packets)]
      <4>1. /\ Append(to[c], <<"NAME", 0>>) \in Seq(Packets)
            /\ Append(to[c], <<"BYE", 0>>) \in Seq(Packets)
        BY <3>1
      <4> QED BY <2>2, <4>1 DEF SendName, Close
    <3>3. phase' \in [Conns -> {"absent", "calling", "greeted", "naming", "up", "gone"}]
      BY <2>2 DEF SendName, Close
    <3>4. UNCHANGED <<cmd, calls, run, rcv, fwd, dm, born, sent, state, known, qu, last, hails, byes>>
      BY <2>2 DEF SendName, Close, lifeVars, userVars
    <3> QED BY <3>2, <3>3, <3>4
  <2>3. CASE SendEvent(c)
    <3>1. <<"EVENT", sent[c] + 1>> \in Packets
      BY <2>3 DEF SendEvent, Packets
    <3> QED BY <2>3, <3>1 DEF SendEvent, lifeVars, userVars
  <2>4. CASE HandleConnect(c)
    <3>1. to' \in [Conns -> Seq(Packets)]
      BY <2>4, PacketType DEF HandleConnect
    <3>2. /\ phase' \in [Conns -> {"absent", "calling", "greeted", "naming", "up", "gone"}]
          /\ rcv' \in {"none", "run", "ended", "threw"}
      BY <2>4 DEF HandleConnect, AnswerFails
    <3>3. UNCHANGED <<cmd, calls, run, fwd, dm, born, sent, state, known, qu, last, hails, byes>>
      BY <2>4 DEF HandleConnect, lifeVars, userVars
    <3> QED BY <3>1, <3>2, <3>3
  <2>5. CASE HandleName(c)
    <3>1. to' \in [Conns -> Seq(Packets)]
      BY <2>5, PacketType DEF HandleName
    <3>2. qu' \in Seq(Entries)
      <4>1. Append(qu, <<c, 0>>) \in Seq(Entries) /\ qu \in Seq(Entries)
        BY PushType DEF Entries
      <4> QED BY <2>5, <4>1 DEF HandleName
    <3>3. /\ phase' \in [Conns -> {"absent", "calling", "greeted", "naming", "up", "gone"}]
          /\ rcv' \in {"none", "run", "ended", "threw"}
          /\ state' \in [Conns -> {0, 1}]
          /\ known' \in SUBSET Conns
      BY <2>5 DEF HandleName, AnswerFails
    <3>4. UNCHANGED <<cmd, calls, run, fwd, dm, born, sent, last, hails, byes>>
      BY <2>5 DEF HandleName, lifeVars, userVars
    <3> QED BY <3>1, <3>2, <3>3, <3>4 DEF Entries
  <2>6. CASE HandleEvent(c)
    <3>1. PICK e \in Events :
            /\ Packet(c, "EVENT", e)
            /\ qu' = IF Len(Append(qu, <<c, e>>)) > Cap
                     THEN Tail(Append(qu, <<c, e>>)) ELSE Append(qu, <<c, e>>)
      BY <2>6 DEF HandleEvent
    <3> DEFINE q == Append(qu, <<c, e>>)
    <3>2. q \in Seq(Entries) /\ q # <<>>
      <4>1. e \in 0 .. MaxEvents
        BY DEF Events
      <4> QED BY <4>1, PushType
    <3>3. qu' = q \/ qu' = Tail(q)
      BY <3>1
    <3> HIDE DEF q
    <3>4. qu' \in Seq(Entries)
      <4>1. Tail(q) \in Seq(Entries)
        BY <3>2
      <4> QED BY <3>2, <3>3, <4>1
    <3>5. to' \in [Conns -> Seq(Packets)]
      BY <3>1, PacketType
    <3>6. UNCHANGED <<cmd, calls, run, rcv, fwd, dm, phase, born, sent, state, known, last, hails, byes>>
      BY <2>6 DEF HandleEvent, lifeVars, sendVars, userVars
    <3> QED BY <3>4, <3>5, <3>6 DEF Entries
  <2>7. CASE HandleDisconnect(c)
    <3>1. to' \in [Conns -> Seq(Packets)]
      BY <2>7, PacketType DEF HandleDisconnect
    <3>2. qu' \in Seq(Entries)
      <4>1. Append(qu, <<c, 0>>) \in Seq(Entries) /\ qu \in Seq(Entries)
        BY PushType DEF Entries
      <4> QED BY <2>7, <4>1 DEF HandleDisconnect
    <3>3. /\ rcv' \in {"none", "run", "ended", "threw"}
          /\ state' \in [Conns -> {0, 1}]
          /\ known' \in SUBSET Conns
      BY <2>7 DEF HandleDisconnect
    <3>4. UNCHANGED <<cmd, calls, run, fwd, dm, phase, born, sent, last, hails, byes>>
      BY <2>7 DEF HandleDisconnect, lifeVars, sendVars, userVars
    <3> QED BY <3>1, <3>2, <3>3, <3>4 DEF Entries
  <2>8. CASE OnReceive(c)
    <3>1. PICK e \in Events : Take(c, e) /\ last' = [last EXCEPT ![c] = e]
      BY <2>8 DEF OnReceive
    <3>2. qu' \in Seq(Entries) /\ e \in 0 .. MaxEvents
      BY <3>1, TakeType
    <3>3. last' \in [Conns -> 0 .. MaxEvents]
      BY <3>1, <3>2
    <3>4. fwd' \in FwdAlive \cup {"none", "ended", "threw"}
      BY <2>8 DEF OnReceive, AfterCallback
    <3>5. UNCHANGED <<cmd, calls, run, rcv, dm, phase, born, sent, to, state, known, hails, byes>>
      BY <2>8 DEF OnReceive, lifeVars, sendVars
    <3> QED BY <3>2, <3>3, <3>4, <3>5 DEF Entries
  <2>9. CASE OnConnect(c) \/ OnDisconnect(c)
    <3>1. qu' \in Seq(Entries)
      BY <2>9, TakeType DEF OnConnect, OnDisconnect
    <3>2. hails' \in [Conns -> Nat] /\ byes' \in [Conns -> Nat]
      <4>1. CASE OnConnect(c)
        BY <4>1 DEF OnConnect
      <4>2. CASE OnDisconnect(c)
        BY <4>2 DEF OnDisconnect
      <4> QED BY <2>9, <4>1, <4>2
    <3>3. fwd' \in FwdAlive \cup {"none", "ended", "threw"}
      BY <2>9 DEF OnConnect, OnDisconnect, AfterCallback
    <3>4. UNCHANGED <<cmd, calls, run, rcv, dm, phase, born, sent, to, state, known, last>>
      BY <2>9 DEF OnConnect, OnDisconnect, lifeVars, sendVars
    <3> QED BY <3>1, <3>2, <3>3, <3>4 DEF Entries
  <2> QED BY <1>5, <2>1, <2>2, <2>3, <2>4, <2>5, <2>6, <2>7, <2>8, <2>9 DEF ConnStep
<1> QED BY <1>2, <1>3, <1>4, <1>5, NextCases

LEMMA TypeStep == TypeOK /\ [Next]_vars => TypeOK'
<1>1. CASE TypeOK /\ Next
  BY <1>1, FlagsStep, DataStep, TypeParts, TypePartsNext
<1>2. CASE TypeOK /\ UNCHANGED vars
  <2>1. TypeFlags'
    BY Zenon, <1>2, TypeParts DEF TypeFlags, vars, lifeVars
  <2>2. TypeData'
    BY <1>2, TypeParts DEF TypeData, vars, lifeVars, sendVars, userVars
  <2> QED BY <2>1, <2>2, TypePartsNext
<1> QED BY <1>1, <1>2

\* The variables keep their types, for any connections and bounds.
THEOREM ReceiverTyping == Spec => []TypeOK
BY TypeInit, TypeStep, PTL DEF Spec

-----------------------------------------------------------------------------
(***************************************************************************)
(* The queue and the packets, as sequences.                                *)
(***************************************************************************)

LEMMA QueueTail ==
  ASSUME NEW q \in Seq(Entries), q # <<>>, NEW c, NEW t, NEW s, NEW l, InQueue(q, c, t, s, l)
  PROVE  InQueue(Tail(q), c, t, s, l)
<1>1. \A i \in DOMAIN Tail(q) : i + 1 \in DOMAIN q /\ Tail(q)[i] = q[i + 1] /\ i \in Nat
  OBVIOUS
<1> QED BY <1>1 DEF InQueue

LEMMA QueueAppend ==
  ASSUME NEW q \in Seq(Entries), NEW x \in Entries, NEW c, NEW t, NEW s, NEW l,
         InQueue(q, c, t, s, l),
         x[1] = c => /\ x[2] <= s
                     /\ x[2] > 0 => l < x[2]
                     /\ \A k \in DOMAIN t : IsEvent(t[k]) => x[2] < t[k][2]
                     /\ \A i \in DOMAIN q : q[i][1] = c /\ x[2] > 0 => q[i][2] < x[2]
  PROVE  InQueue(Append(q, x), c, t, s, l)
<1> DEFINE r == Append(q, x)
<1>1. DOMAIN r = 1 .. Len(q) + 1 /\ DOMAIN q = 1 .. Len(q) /\ Len(q) \in Nat
      /\ r[Len(q) + 1] = x /\ \A i \in DOMAIN q : r[i] = q[i]
  OBVIOUS
<1> HIDE DEF r
<1>2. \A i \in DOMAIN r : i \in DOMAIN q \/ i = Len(q) + 1
  BY <1>1
<1>3. ASSUME NEW i \in DOMAIN r, r[i][1] = c
      PROVE  /\ r[i][2] <= s
             /\ r[i][2] > 0 => l < r[i][2]
             /\ \A k \in DOMAIN t : IsEvent(t[k]) => r[i][2] < t[k][2]
  BY <1>1, <1>2, <1>3 DEF InQueue
<1>4. ASSUME NEW i \in DOMAIN r, NEW j \in DOMAIN r,
             r[i][1] = c, r[j][1] = c, i < j, r[j][2] > 0
      PROVE  r[i][2] < r[j][2]
  <2>1. i \in DOMAIN q
    BY <1>1, <1>4
  <2>2. CASE j \in DOMAIN q
    BY <1>1, <1>4, <2>1, <2>2 DEF InQueue
  <2>3. CASE j = Len(q) + 1
    BY <1>1, <1>4, <2>1, <2>3
  <2> QED BY <1>2, <2>2, <2>3
<1>5. InQueue(r, c, t, s, l)
  BY <1>3, <1>4 DEF InQueue
<1> QED BY <1>5 DEF r

\* Fewer packets, or one more that is no event or a later one.
LEMMA PacketsTail ==
  ASSUME NEW t \in Seq(Packets), t # <<>>, NEW s, NEW l, InPackets(t, s, l)
  PROVE  /\ InPackets(Tail(t), s, l)
         /\ \A q, c : InQueue(q, c, t, s, l) => InQueue(q, c, Tail(t), s, l)
<1>1. \A i \in DOMAIN Tail(t) : i + 1 \in DOMAIN t /\ Tail(t)[i] = t[i + 1] /\ i \in Nat
  OBVIOUS
<1> QED BY <1>1 DEF InPackets, InQueue

LEMMA PacketsAppend ==
  ASSUME NEW t \in Seq(Packets), NEW p \in Packets, NEW s \in Nat, NEW r \in Nat, NEW l \in Nat,
         InPackets(t, s, l), s <= r,
         IsEvent(p) => s < p[2] /\ p[2] <= r
  PROVE  /\ InPackets(Append(t, p), r, l)
         /\ \A c : \A q \in Seq(Entries) : InQueue(q, c, t, s, l) => InQueue(q, c, Append(t, p), r, l)
<1> DEFINE u == Append(t, p)
<1>1. DOMAIN u = 1 .. Len(t) + 1 /\ DOMAIN t = 1 .. Len(t) /\ Len(t) \in Nat
      /\ u[Len(t) + 1] = p /\ \A i \in DOMAIN t : u[i] = t[i]
  OBVIOUS
<1>2. p[2] \in Nat /\ \A i \in DOMAIN t : t[i][2] \in Nat
  BY DEF Packets
<1> HIDE DEF u
<1>3. \A i \in DOMAIN u : i \in DOMAIN t \/ i = Len(t) + 1
  BY <1>1
<1>4. \A i \in DOMAIN u : IsEvent(u[i]) => l < u[i][2] /\ u[i][2] <= r
  BY <1>1, <1>2, <1>3 DEF InPackets
<1>5. ASSUME NEW i \in DOMAIN u, NEW j \in DOMAIN u, IsEvent(u[i]), IsEvent(u[j]), i < j
      PROVE  u[i][2] < u[j][2]
  <2>1. i \in DOMAIN t
    BY <1>1, <1>5
  <2>2. CASE j \in DOMAIN t
    BY <1>1, <1>5, <2>1, <2>2 DEF InPackets
  <2>3. CASE j = Len(t) + 1
    BY <1>1, <1>2, <1>5, <2>1, <2>3 DEF InPackets
  <2> QED BY <1>3, <2>2, <2>3
<1>6. InPackets(u, r, l)
  BY <1>4, <1>5 DEF InPackets
<1>7. ASSUME NEW c, NEW q \in Seq(Entries), InQueue(q, c, t, s, l)
      PROVE  InQueue(q, c, u, r, l)
  <2>1. \A i \in DOMAIN q : q[i][2] \in Nat
    BY DEF Entries
  <2>2. ASSUME NEW i \in DOMAIN q, q[i][1] = c, NEW k \in DOMAIN u, IsEvent(u[k])
        PROVE  q[i][2] < u[k][2]
    <3>1. CASE k \in DOMAIN t
      BY <1>1, <1>7, <2>2, <3>1 DEF InQueue
    <3>2. CASE k = Len(t) + 1
      BY <1>1, <1>2, <1>7, <2>1, <2>2, <3>2 DEF InQueue
    <3> QED BY <1>3, <3>1, <3>2
  <2>3. \A i \in DOMAIN q : q[i][1] = c => q[i][2] <= r
    BY <1>7, <2>1 DEF InQueue
  <2> QED BY <1>7, <2>2, <2>3 DEF InQueue
<1> QED BY <1>6, <1>7 DEF u

\* An event given to OnReceive: what is left is later.
LEMMA QueueGiven ==
  ASSUME NEW q \in Seq(Entries), q # <<>>, NEW c, NEW e \in Nat, e > 0, Head(q) = <<c, e>>,
         NEW t \in Seq(Packets), NEW s \in Nat, NEW l \in Nat,
         InQueue(q, c, t, s, l), InPackets(t, s, l)
  PROVE  l < e /\ e <= s /\ InQueue(Tail(q), c, t, s, e) /\ InPackets(t, s, e)
<1>1. 1 \in DOMAIN q /\ q[1] = <<c, e>>
      /\ \A i \in DOMAIN Tail(q) : i + 1 \in DOMAIN q /\ Tail(q)[i] = q[i + 1] /\ 1 < i + 1
  OBVIOUS
<1>2. l < e /\ e <= s /\ \A k \in DOMAIN t : IsEvent(t[k]) => e < t[k][2]
  BY <1>1 DEF InQueue
<1>3. InPackets(t, s, e)
  BY <1>2 DEF InPackets
<1>4. InQueue(Tail(q), c, t, s, l)
  BY QueueTail
<1>5. ASSUME NEW i \in DOMAIN Tail(q), Tail(q)[i][1] = c, Tail(q)[i][2] > 0
      PROVE  e < Tail(q)[i][2]
  <2>1. i + 1 \in DOMAIN q /\ q[i + 1][1] = c /\ q[i + 1][2] > 0 /\ q[1][1] = c /\ 1 < i + 1
    BY <1>1, <1>5
  <2>2. q[1][2] < q[i + 1][2]
    BY <1>1, <2>1 DEF InQueue
  <2> QED BY <1>1, <2>2
<1>6. InQueue(Tail(q), c, t, s, e)
  BY <1>4, <1>5 DEF InQueue
<1> QED BY <1>2, <1>3, <1>6

-----------------------------------------------------------------------------
(***************************************************************************)
(* The steps.                                                              *)
(***************************************************************************)

ConnInv(c) ==
  /\ Born(c)
  /\ InPackets(to[c], sent[c], last[c])
  /\ InQueue(qu, c, to[c], sent[c], last[c])

LEMMA InvParts == ReceiverInv <=> TypeOK /\ Life /\ \A c \in Conns : ConnInv(c)
BY DEF ReceiverInv, ConnInv

LEMMA InvInit == Init => ReceiverInv
<1> SUFFICES ASSUME Init
             PROVE  ReceiverInv
  OBVIOUS
<1>1. Life
  BY DEF Init, Life, CleanSlate
<1>2. ASSUME NEW c \in Conns
      PROVE  ConnInv(c)
  <2>1. to[c] = <<>> /\ qu = <<>> /\ sent[c] = 0 /\ last[c] = 0 /\ born[c] = 0 /\ run = 0
        /\ phase[c] = "absent"
    BY DEF Init
  <2>2. DOMAIN to[c] = {} /\ DOMAIN qu = {}
    BY <2>1
  <2> QED BY <2>1, <2>2 DEF ConnInv, Born, InPackets, InQueue
<1> QED BY <1>1, <1>2, TypeInit, InvParts

LEMMA LifeStep ==
  ASSUME ReceiverInv, Next
  PROVE  Life'
<1> USE DEF Life, CleanSlate, FwdAlive
<1>0. TypeOK /\ Life /\ \A c \in Conns : ConnInv(c)
  BY InvParts
<1>1. CASE StillStep
  <2>1. CASE CallListen \/ CallStopListen \/ StopListenReturns \/ StopListenThrows
    BY <1>0, <2>1 DEF CallListen, CallStopListen, StopListenReturns, StopListenThrows, lifeVars
  <2>2. CASE ReceivingEnds \/ ForwardingGoesOn \/ WaitForEvents \/ Wake \/ Oversleep
    BY <1>0, <2>2 DEF ReceivingEnds, ForwardingGoesOn, WaitForEvents, Wake, Oversleep, lifeVars
  <2>3. CASE ForwardingEnds \/ ForwardingEndsBadly
    BY <1>0, <2>3 DEF ForwardingEnds, ForwardingEndsBadly, lifeVars
  <2>4. CASE DeamonLooks \/ WatchReceiving \/ WatchForwarding \/ CloseReceiving
    BY <1>0, <2>4 DEF DeamonLooks, WatchReceiving, WatchForwarding, CloseReceiving, lifeVars
  <2> QED BY <1>1, <2>1, <2>2, <2>3, <2>4 DEF StillStep
<1>2. CASE Listen
  <2>1. dm' = "top" /\ UNCHANGED <<qu, to>>
    BY <1>2 DEF Listen
  <2>2. CASE server
    <3>1. UNCHANGED <<server, listening, run, rcv, fwd>>
      BY <1>2, <2>2 DEF Listen, lifeVars
    <3> QED BY <1>0, <2>1, <2>2, <3>1
  <2>3. CASE ~server
    <3>1. server' /\ listening'
      BY Zenon, <1>2, <2>3 DEF Listen
    <3>2. run' = run + 1 /\ run \in Nat
      BY <1>0, <1>2, <2>3 DEF Listen, TypeOK
    <3> QED BY <2>1, <3>1, <3>2
  <2> QED BY <2>2, <2>3
<1>3. CASE CloseForwarding
  <2>1. rcv' = "none" /\ fwd' = "none" /\ dm' = "top" /\ ~listening' /\ run' = run
    BY <1>0, <1>3 DEF CloseForwarding
  <2>2. \/ server' = server /\ UNCHANGED <<phase, to, qu>>
        \/ ~server' /\ qu' = <<>> /\ Disconnected
    BY <1>3 DEF CloseForwarding
  <2> QED BY <1>0, <2>1, <2>2 DEF Disconnected
<1>4. ASSUME NEW c \in Conns, ConnStep(c)
      PROVE  Life'
  <2>1. UNCHANGED <<listening, server, run, dm>>
    BY <1>4 DEF ConnStep, lifeVars, Open, SendName, SendEvent, Close, HandleConnect, HandleName,
                HandleEvent, HandleDisconnect, OnReceive, OnConnect, OnDisconnect
  <2>2. server
    <3>1. CASE Open(c)
      BY <3>1 DEF Open
    <3>2. CASE SendName(c) \/ SendEvent(c) \/ Close(c)
      <4>1. phase[c] \notin {"absent", "gone"}
        BY <3>2 DEF SendName, SendEvent, Close
      <4> QED BY <1>0, <4>1 DEF ConnInv, Born
    <3>3. CASE HandleConnect(c) \/ HandleName(c) \/ HandleEvent(c) \/ HandleDisconnect(c)
      <4>1. rcv = "run"
        BY <3>3 DEF HandleConnect, HandleName, HandleEvent, HandleDisconnect, Packet
      <4> QED BY <1>0, <4>1
    <3>4. CASE OnReceive(c) \/ OnConnect(c) \/ OnDisconnect(c)
      <4>1. fwd = "go"
        BY <3>4 DEF OnReceive, OnConnect, OnDisconnect, Take
      <4> QED BY <1>0, <4>1
    <3> QED BY <1>4, <3>1, <3>2, <3>3, <3>4 DEF ConnStep
  <2>3. rcv' = rcv \/ rcv = "run"
    BY <1>4 DEF ConnStep, Open, SendName, SendEvent, Close, HandleConnect, HandleName,
                HandleEvent, HandleDisconnect, OnReceive, OnConnect, OnDisconnect, Packet
  <2> QED BY <1>0, <2>1, <2>2, <2>3
<1> QED BY <1>1, <1>2, <1>3, <1>4, NextCases

LEMMA StillConnStep ==
  ASSUME NEW c \in Conns, ConnInv(c), Still
  PROVE  ConnInv(c)'
BY DEF Still, ConnInv, Born, InPackets, InQueue

LEMMA ListenConnStep ==
  ASSUME ReceiverInv, Listen, NEW c \in Conns
  PROVE  ConnInv(c)'
<1>0. TypeOK /\ Life /\ ConnInv(c)
  BY InvParts
<1>1. CASE server
  BY <1>0, <1>1, StillConnStep DEF Listen, Still, lifeVars, sendVars, userVars
<1>2. CASE ~server
  <2>1. to[c] = <<>> /\ qu = <<>> /\ phase[c] \in {"absent", "gone"}
    BY <1>0, <1>2 DEF Life, CleanSlate, ConnInv, Born
  <2>2. run' = run + 1 /\ UNCHANGED <<phase, born, sent, to, qu, last>>
    BY <1>2 DEF Listen, sendVars, userVars
  <2>3. Born(c)'
    BY <1>0, <2>1, <2>2 DEF ConnInv, Born, TypeOK
  <2> QED BY <1>0, <2>2, <2>3 DEF ConnInv, InPackets, InQueue
<1> QED BY <1>1, <1>2

LEMMA CloseConnStep ==
  ASSUME ReceiverInv, CloseForwarding, NEW c \in Conns
  PROVE  ConnInv(c)'
<1>0. TypeOK /\ Life /\ ConnInv(c)
  BY InvParts
<1>1. UNCHANGED <<run, born, sent, last, hails, state>>
  BY DEF CloseForwarding, userVars
<1>2. CASE UNCHANGED <<server, phase, to, qu>>
  BY <1>0, <1>1, <1>2, StillConnStep DEF Still
<1>3. CASE qu' = <<>> /\ Disconnected
  <2>1. to'[c] = <<>> /\ phase'[c] \in {"absent", "gone"} /\ (phase'[c] = "absent" <=> phase[c] = "absent")
    BY <1>3 DEF Disconnected
  <2>2. DOMAIN to'[c] = {} /\ DOMAIN qu' = {}
    BY <1>3, <2>1
  <2>3. Born(c)'
    BY <1>0, <1>1, <2>1, <2>2 DEF ConnInv, Born
  <2>4. last[c] <= sent[c]
    BY <1>0 DEF ConnInv, InPackets
  <2> QED BY <1>1, <2>2, <2>3, <2>4 DEF ConnInv, InPackets, InQueue
<1> QED BY <1>2, <1>3 DEF CloseForwarding

\* Of another connection, the queue at most loses its oldest entry.
LEMMA OtherConnStep ==
  ASSUME ReceiverInv, NEW c \in Conns, ConnStep(c), NEW d \in Conns, d # c
  PROVE  ConnInv(d)'
<1>0. TypeOK /\ ConnInv(d)
  BY InvParts
<1>1. /\ phase'[d] = phase[d] /\ born'[d] = born[d] /\ sent'[d] = sent[d]
      /\ to'[d] = to[d] /\ last'[d] = last[d]
      /\ UNCHANGED <<server, run>>
  <2>1. CASE Open(c) \/ SendName(c) \/ SendEvent(c) \/ Close(c)
    BY <1>0, <2>1 DEF TypeOK, Open, SendName, SendEvent, Close, lifeVars, userVars
  <2>2. CASE HandleConnect(c) \/ HandleName(c) \/ HandleEvent(c) \/ HandleDisconnect(c)
    BY <1>0, <2>2 DEF TypeOK, HandleConnect, HandleName, HandleEvent, HandleDisconnect, Packet,
                      lifeVars, sendVars, userVars
  <2>3. CASE OnReceive(c) \/ OnConnect(c) \/ OnDisconnect(c)
    BY <1>0, <2>3 DEF TypeOK, OnReceive, OnConnect, OnDisconnect, lifeVars, sendVars
  <2> QED BY <2>1, <2>2, <2>3 DEF ConnStep
<1>2. qu \in Seq(Entries)
  BY <1>0 DEF TypeOK, Entries
<1>3. \/ qu' = qu
      \/ qu # <<>> /\ qu' = Tail(qu)
      \/ \E e \in 0 .. MaxEvents : qu' = Append(qu, <<c, e>>) \/ qu' = Tail(Append(qu, <<c, e>>))
  <2> USE DataReceiverAssumption
  <2>1. CASE Open(c) \/ SendName(c) \/ SendEvent(c) \/ Close(c) \/ HandleConnect(c)
    BY <2>1 DEF Open, SendName, SendEvent, Close, HandleConnect
  <2>2. CASE HandleName(c) \/ HandleDisconnect(c)
    BY <2>2 DEF HandleName, HandleDisconnect
  <2>3. CASE HandleEvent(c)
    <3>1. PICK e \in Events :
            qu' = IF Len(Append(qu, <<c, e>>)) > Cap
                  THEN Tail(Append(qu, <<c, e>>)) ELSE Append(qu, <<c, e>>)
      BY <2>3 DEF HandleEvent
    <3>2. e \in 0 .. MaxEvents
      BY DEF Events
    <3> QED BY <3>1, <3>2
  <2>4. CASE OnReceive(c) \/ OnConnect(c) \/ OnDisconnect(c)
    BY <2>4 DEF OnReceive, OnConnect, OnDisconnect, Take
  <2> QED BY <2>1, <2>2, <2>3, <2>4 DEF ConnStep
<1> DEFINE Fits(q) == /\ InQueue(q, d, to[d], sent[d], last[d])
                      /\ \A i \in DOMAIN q : q[i][1] = d => born[d] = run
<1>4. Fits(qu)
  BY <1>0 DEF ConnInv, Born
<1>5. ASSUME NEW q \in Seq(Entries), q # <<>>, Fits(q)
      PROVE  Fits(Tail(q))
  <2>1. InQueue(Tail(q), d, to[d], sent[d], last[d])
    BY <1>5, QueueTail
  <2>2. \A i \in DOMAIN Tail(q) : i + 1 \in DOMAIN q /\ Tail(q)[i] = q[i + 1]
    BY <1>5
  <2> QED BY <1>5, <2>1, <2>2
<1>6. ASSUME NEW e \in 0 .. MaxEvents
      PROVE  Append(qu, <<c, e>>) \in Seq(Entries) /\ Append(qu, <<c, e>>) # <<>> /\ Fits(Append(qu, <<c, e>>))
  <2>1. <<c, e>> \in Entries
    BY DEF Entries
  <2>2. InQueue(Append(qu, <<c, e>>), d, to[d], sent[d], last[d])
    BY <1>2, <1>4, <2>1, QueueAppend
  <2>3. ASSUME NEW i \in DOMAIN Append(qu, <<c, e>>), Append(qu, <<c, e>>)[i][1] = d
        PROVE  born[d] = run
    <3>1. \/ i \in DOMAIN qu /\ Append(qu, <<c, e>>)[i] = qu[i]
          \/ Append(qu, <<c, e>>)[i] = <<c, e>>
      BY <1>2, <2>1
    <3>2. i \in DOMAIN qu /\ qu[i][1] = d
      BY <2>3, <3>1
    <3> QED BY <1>4, <3>2
  <2>4. Append(qu, <<c, e>>) \in Seq(Entries) /\ Append(qu, <<c, e>>) # <<>>
    BY <1>2, <2>1
  <2> QED BY <2>2, <2>3, <2>4
<1>7. Fits(qu')
  BY <1>2, <1>3, <1>4, <1>5, <1>6
<1> QED BY <1>0, <1>1, <1>7 DEF ConnInv, Born

LEMMA AppendIsFull ==
  ASSUME NEW q \in Seq(Entries), NEW x \in Entries
  PROVE  Append(q, x) # <<>>
<1>1. Len(Append(q, x)) = Len(q) + 1 /\ Len(q) \in Nat
  OBVIOUS
<1>2. Len(Append(q, x)) # Len(<<>>)
  BY <1>1, EmptySeq
<1> QED BY <1>2

\* What a packet taken from a connection, or an entry put into the queue, needs.
LEMMA OwnQueue ==
  ASSUME ReceiverInv, NEW c \in Conns, NEW e \in 0 .. MaxEvents, NEW t \in Seq(Packets),
         InPackets(t, sent[c], last[c]), InQueue(qu, c, t, sent[c], last[c]),
         born[c] = run, e <= sent[c],
         e > 0 => /\ last[c] < e
                  /\ \A k \in DOMAIN t : IsEvent(t[k]) => e < t[k][2]
                  /\ \A i \in DOMAIN qu : qu[i][1] = c => qu[i][2] < e
  PROVE  /\ Append(qu, <<c, e>>) \in Seq(Entries) /\ Append(qu, <<c, e>>) # <<>>
         /\ InQueue(Append(qu, <<c, e>>), c, t, sent[c], last[c])
<1>1. qu \in Seq(Entries) /\ <<c, e>> \in Entries /\ last[c] \in Nat
  BY InvParts, DataReceiverAssumption DEF TypeOK, Entries
<1>2. \A k \in DOMAIN t : IsEvent(t[k]) => e < t[k][2]
  <2>1. CASE e > 0
    BY <2>1
  <2>2. CASE e = 0
    <3>1. ASSUME NEW k \in DOMAIN t, IsEvent(t[k])
          PROVE  e < t[k][2]
      <4>1. last[c] < t[k][2]
        BY <3>1 DEF InPackets
      <4>2. t[k] \in Packets
        OBVIOUS
      <4>3. t[k][2] \in Nat
        BY <4>2, DataReceiverAssumption DEF Packets
      <4> QED BY <1>1, <2>2, <4>1, <4>3
    <3> QED BY <3>1
  <2>3. e = 0 \/ e > 0
    BY DataReceiverAssumption
  <2> QED BY <2>1, <2>2, <2>3
<1>3. InQueue(Append(qu, <<c, e>>), c, t, sent[c], last[c])
  BY <1>1, <1>2, QueueAppend
<1>4. Append(qu, <<c, e>>) \in Seq(Entries)
  BY <1>1
<1>5. Append(qu, <<c, e>>) # <<>>
  BY <1>1, AppendIsFull
<1> QED BY <1>3, <1>4, <1>5

LEMMA OwnConnStep ==
  ASSUME ReceiverInv, NEW c \in Conns, ConnStep(c)
  PROVE  ConnInv(c)'
<1> USE DataReceiverAssumption
<1>0. TypeOK /\ Life /\ ConnInv(c)
  BY InvParts
<1>1. /\ qu \in Seq(Entries) /\ to[c] \in Seq(Packets)
      /\ sent[c] \in Nat /\ last[c] \in Nat /\ born[c] \in Nat /\ run \in Nat
  BY <1>0 DEF TypeOK, Entries
<1>2. InPackets(to[c], sent[c], last[c]) /\ InQueue(qu, c, to[c], sent[c], last[c])
  BY <1>0 DEF ConnInv
<1>3. CASE Open(c)
  <2>1. /\ server /\ phase[c] = "absent" /\ phase'[c] = "calling" /\ born'[c] = run
        /\ to'[c] = <<<<"CONNECT", 0>>>>
        /\ UNCHANGED <<server, run, sent, last, qu>>
    BY <1>0, <1>3 DEF Open, TypeOK, lifeVars, userVars
  <2>2. to[c] = <<>> /\ born[c] = 0 /\ run > 0
    BY <1>0, <2>1 DEF ConnInv, Born, Life
  <2>3. Born(c)'
    BY <1>0, <1>1, <2>1, <2>2 DEF ConnInv, Born
  <2>4. <<"CONNECT", 0>> \in Packets /\ ~IsEvent(<<"CONNECT", 0>>)
    BY DEF Packets, IsEvent
  <2>5. to'[c] = Append(to[c], <<"CONNECT", 0>>)
    BY <2>1, <2>2
  <2>6. InPackets(to'[c], sent[c], last[c]) /\ InQueue(qu, c, to'[c], sent[c], last[c])
    BY <1>1, <1>2, <2>4, <2>5, PacketsAppend
  <2> QED BY <2>1, <2>3, <2>6 DEF ConnInv
<1>4. CASE SendName(c) \/ Close(c)
  <2>1. PICK p \in {<<"NAME", 0>>, <<"BYE", 0>>} :
          /\ to'[c] = Append(to[c], p)
          /\ phase[c] \notin {"absent", "gone"} /\ phase'[c] # "absent"
          /\ UNCHANGED <<server, run, born, sent, last, qu>>
    BY <1>0, <1>4 DEF SendName, Close, TypeOK, lifeVars, userVars
  <2>2. Born(c)'
    BY <1>0, <2>1 DEF ConnInv, Born
  <2>3. p \in Packets /\ ~IsEvent(p)
    BY DEF Packets, IsEvent
  <2>4. InPackets(to'[c], sent[c], last[c]) /\ InQueue(qu, c, to'[c], sent[c], last[c])
    BY <1>1, <1>2, <2>1, <2>3, PacketsAppend
  <2> QED BY <2>1, <2>2, <2>4 DEF ConnInv
<1>5. CASE SendEvent(c)
  <2> DEFINE p == <<"EVENT", sent[c] + 1>>
  <2>1. /\ to'[c] = Append(to[c], p) /\ sent'[c] = sent[c] + 1
        /\ phase[c] = "up" /\ sent[c] < MaxEvents
        /\ UNCHANGED <<server, run, phase, born, last, qu>>
    BY <1>0, <1>5 DEF SendEvent, TypeOK, lifeVars, userVars
  <2>2. Born(c)'
    BY <1>0, <2>1 DEF ConnInv, Born
  <2>3. p \in Packets /\ p[2] = sent[c] + 1
    BY <1>1, <2>1 DEF Packets
  <2>4. sent[c] + 1 \in Nat /\ sent[c] <= sent[c] + 1 /\ (IsEvent(p) => sent[c] < p[2] /\ p[2] <= sent[c] + 1)
    BY <1>1, <2>3
  <2> HIDE DEF p
  <2>5. InPackets(to'[c], sent'[c], last[c]) /\ InQueue(qu, c, to'[c], sent'[c], last[c])
    BY <1>1, <1>2, <2>1, <2>3, <2>4, PacketsAppend
  <2> QED BY <2>1, <2>2, <2>5 DEF ConnInv
<1>6. CASE HandleConnect(c) \/ HandleName(c) \/ HandleEvent(c) \/ HandleDisconnect(c)
  <2>1. PICK k \in {"CONNECT", "NAME", "EVENT", "BYE"}, e \in 0 .. MaxEvents :
          /\ Packet(c, k, e)
          /\ k # "EVENT" => e = 0
          /\ k = "EVENT" => e > 0
          /\ \/ qu' = qu
             \/ qu' = Append(qu, <<c, e>>)
             \/ qu' = Tail(Append(qu, <<c, e>>))
    <3>1. CASE HandleConnect(c)
      BY <3>1 DEF HandleConnect
    <3>2. CASE HandleName(c)
      <4>1. Packet(c, "NAME", 0) /\ (qu' = qu \/ qu' = Append(qu, <<c, 0>>))
        BY <3>2 DEF HandleName
      <4>2. 0 \in 0 .. MaxEvents /\ "NAME" # "EVENT"
        OBVIOUS
      <4> QED BY <4>1, <4>2
    <3>3. CASE HandleEvent(c)
      <4>1. PICK e \in Events :
              /\ Packet(c, "EVENT", e)
              /\ qu' = IF Len(Append(qu, <<c, e>>)) > Cap
                       THEN Tail(Append(qu, <<c, e>>)) ELSE Append(qu, <<c, e>>)
        BY <3>3 DEF HandleEvent
      <4>2. e \in 0 .. MaxEvents /\ e > 0
        BY DEF Events
      <4> QED BY <4>1, <4>2
    <3>4. CASE HandleDisconnect(c)
      <4>1. Packet(c, "BYE", 0) /\ (qu' = qu \/ qu' = Append(qu, <<c, 0>>))
        BY <3>4 DEF HandleDisconnect
      <4>2. 0 \in 0 .. MaxEvents /\ "BYE" # "EVENT"
        OBVIOUS
      <4> QED BY <4>1, <4>2
    <3> QED BY <1>6, <3>1, <3>2, <3>3, <3>4
  <2>2. /\ UNCHANGED <<server, run, born, sent, last>>
        /\ phase'[c] = phase[c] \/ {phase[c], phase'[c]} \cap {"absent", "gone"} = {}
    BY <1>0, <1>6 DEF HandleConnect, HandleName, HandleEvent, HandleDisconnect, TypeOK,
                      lifeVars, sendVars, userVars
  <2>3. to[c] # <<>> /\ Head(to[c]) = <<k, e>> /\ to'[c] = Tail(to[c])
    BY <1>0, <2>1 DEF Packet, TypeOK
  <2>4. Tail(to[c]) \in Seq(Packets) /\ born[c] = run
    BY <1>0, <1>1, <2>3 DEF ConnInv, Born
  <2>5. InPackets(to'[c], sent[c], last[c]) /\ InQueue(qu, c, to'[c], sent[c], last[c])
    BY <1>1, <1>2, <2>3, PacketsTail
  <2>6. 1 \in DOMAIN to[c] /\ to[c][1] = <<k, e>>
        /\ \A i \in DOMAIN Tail(to[c]) : i + 1 \in DOMAIN to[c] /\ Tail(to[c])[i] = to[c][i + 1] /\ 1 < i + 1
    BY <1>1, <2>3
  <2>7. e <= sent[c]
    <3>1. CASE k = "EVENT"
      BY <1>2, <2>6, <3>1 DEF InPackets, IsEvent
    <3>2. CASE k # "EVENT"
      BY <1>1, <2>1, <3>2
    <3> QED BY <3>1, <3>2
  <2>8. ASSUME e > 0
        PROVE  /\ last[c] < e
               /\ \A i \in DOMAIN Tail(to[c]) : IsEvent(Tail(to[c])[i]) => e < Tail(to[c])[i][2]
               /\ \A i \in DOMAIN qu : qu[i][1] = c => qu[i][2] < e
    <3>1. k = "EVENT" /\ IsEvent(to[c][1]) /\ to[c][1][2] = e
      BY <2>1, <2>6, <2>8 DEF IsEvent
    <3>2. last[c] < e
      BY <1>2, <2>6, <3>1 DEF InPackets
    <3>3. ASSUME NEW i \in DOMAIN Tail(to[c]), IsEvent(Tail(to[c])[i])
          PROVE  e < Tail(to[c])[i][2]
      BY <1>2, <2>6, <3>1, <3>3 DEF InPackets
    <3>4. \A i \in DOMAIN qu : qu[i][1] = c => qu[i][2] < e
      BY <1>2, <2>6, <3>1 DEF InQueue
    <3> QED BY <3>2, <3>3, <3>4
  <2> DEFINE q == Append(qu, <<c, e>>)
  <2>9. q \in Seq(Entries) /\ q # <<>> /\ InQueue(q, c, to'[c], sent[c], last[c])
    BY <2>3, <2>4, <2>5, <2>7, <2>8, OwnQueue
  <2>10. qu' = qu \/ qu' = q \/ qu' = Tail(q)
    BY <2>1
  <2> HIDE DEF q
  <2>11. InQueue(Tail(q), c, to'[c], sent[c], last[c])
    BY <2>9, QueueTail
  <2>12. InQueue(qu', c, to'[c], sent[c], last[c])
    BY <2>5, <2>9, <2>10, <2>11
  <2>13. Born(c)'
    BY <1>0, <2>2, <2>3, <2>4 DEF ConnInv, Born
  <2> QED BY <2>2, <2>5, <2>12, <2>13 DEF ConnInv
<1>7. CASE OnReceive(c) \/ OnConnect(c) \/ OnDisconnect(c)
  <2>1. PICK e \in 0 .. MaxEvents :
          /\ Take(c, e)
          /\ last'[c] = IF e = 0 THEN last[c] ELSE e
    <3>1. CASE OnReceive(c)
      <4>1. PICK e \in Events : Take(c, e) /\ last' = [last EXCEPT ![c] = e]
        BY <3>1 DEF OnReceive
      <4>2. e \in 0 .. MaxEvents /\ e # 0 /\ last'[c] = e
        BY <1>0, <4>1 DEF Events, TypeOK
      <4> QED BY <4>1, <4>2
    <3>2. CASE OnConnect(c) \/ OnDisconnect(c)
      <4>1. Take(c, 0) /\ last' = last /\ 0 \in 0 .. MaxEvents
        BY <3>2 DEF OnConnect, OnDisconnect
      <4> QED BY <4>1
    <3> QED BY <1>7, <3>1, <3>2
  <2>2. UNCHANGED <<server, run, phase, born, sent, to>>
    BY <1>7 DEF OnReceive, OnConnect, OnDisconnect, lifeVars, sendVars
  <2>3. qu # <<>> /\ Head(qu) = <<c, e>> /\ qu' = Tail(qu)
    BY <2>1 DEF Take
  <2>4. InQueue(qu', c, to[c], sent[c], last'[c]) /\ InPackets(to[c], sent[c], last'[c])
    <3>1. CASE e = 0
      BY <1>1, <1>2, <2>1, <2>3, <3>1, QueueTail
    <3>2. CASE e # 0
      <4>1. e \in Nat /\ e > 0 /\ last'[c] = e
        BY <2>1, <3>2
      <4>2. /\ InQueue(Tail(qu), c, to[c], sent[c], e)
            /\ InPackets(to[c], sent[c], e)
        BY <1>1, <1>2, <2>3, <4>1, QueueGiven
      <4> QED BY <2>3, <4>1, <4>2
    <3> QED BY <3>1, <3>2
  <2>5. \A i \in DOMAIN Tail(qu) : i + 1 \in DOMAIN qu /\ Tail(qu)[i] = qu[i + 1]
    BY <1>1, <2>3
  <2>6. Born(c)'
    BY <1>0, <2>2, <2>3, <2>5 DEF ConnInv, Born
  <2> QED BY <2>2, <2>4, <2>6 DEF ConnInv
<1> QED BY <1>3, <1>4, <1>5, <1>6, <1>7 DEF ConnStep

LEMMA InvStep == ReceiverInv /\ [Next]_vars => ReceiverInv'
<1> SUFFICES ASSUME ReceiverInv, [Next]_vars
             PROVE  ReceiverInv'
  OBVIOUS
<1>0. TypeOK /\ Life /\ \A c \in Conns : ConnInv(c)
  BY InvParts
<1>1. CASE UNCHANGED vars
  BY <1>1 DEF vars, lifeVars, sendVars, userVars, ReceiverInv, TypeOK, Life, CleanSlate, Born,
              InPackets, InQueue
<1>2. CASE Next
  <2>1. ASSUME NEW c \in Conns
        PROVE  ConnInv(c)'
    <3>1. CASE StillStep
      BY <1>0, <3>1, StillIsStill, StillConnStep
    <3>2. CASE Listen
      BY <3>2, ListenConnStep
    <3>3. CASE CloseForwarding
      BY <3>3, CloseConnStep
    <3>4. ASSUME NEW d \in Conns, ConnStep(d)
          PROVE  ConnInv(c)'
      BY <3>4, OwnConnStep, OtherConnStep
    <3> QED BY <1>2, <3>1, <3>2, <3>3, <3>4, NextCases
  <2>2. TypeOK'
    BY <1>0, <1>2, TypeStep
  <2>3. Life'
    BY <1>2, LifeStep
  <2> QED BY <2>1, <2>2, <2>3 DEF ReceiverInv, ConnInv
<1> QED BY <1>1, <1>2

-----------------------------------------------------------------------------
(***************************************************************************)
(* OnConnect at most once.                                                 *)
(***************************************************************************)

HailConn(c) ==
  /\ Naming(to[c], phase[c])
  /\ Markers(qu, c, state[c], hails[c], Unnamed(to[c], phase[c]))

LEMMA HailParts == HailInv <=> \A c \in Conns : HailConn(c)
BY DEF HailInv, HailConn

\* What is left of packets and queue when their first element is taken.
LEMMA NamingTail ==
  ASSUME NEW t \in Seq(Packets), t # <<>>, NEW p, Naming(t, p)
  PROVE  /\ Naming(Tail(t), p)
         /\ Unnamed(Tail(t), p) => Unnamed(t, p)
         /\ IsName(Head(t)) => ~Unnamed(Tail(t), p)
         /\ Head(t)[1] = "BYE" => p = "gone" /\ Tail(t) = <<>>
<1>1. /\ 1 \in DOMAIN t /\ Head(t) = t[1]
      /\ Len(Tail(t)) = Len(t) - 1
      /\ \A i \in DOMAIN Tail(t) : i + 1 \in DOMAIN t /\ Tail(t)[i] = t[i + 1] /\ i + 1 # 1
  OBVIOUS
<1>2. Naming(Tail(t), p)
  <2>1. p \in Early => \A i \in DOMAIN Tail(t) : ~IsName(Tail(t)[i])
    BY <1>1 DEF Naming
  <2>2. ASSUME NEW i \in DOMAIN Tail(t), NEW j \in DOMAIN Tail(t), IsName(Tail(t)[i]), IsName(Tail(t)[j])
        PROVE  i = j
    <3>1. i + 1 = j + 1
      BY <1>1, <2>2 DEF Naming
    <3> QED BY <3>1
  <2>3. ASSUME NEW i \in DOMAIN Tail(t), Tail(t)[i][1] = "BYE"
        PROVE  p = "gone" /\ i = Len(Tail(t))
    <3>1. p = "gone" /\ i + 1 = Len(t)
      BY <1>1, <2>3 DEF Naming
    <3> QED BY <1>1, <3>1
  <2> QED BY <2>1, <2>2, <2>3 DEF Naming
<1>3. Unnamed(Tail(t), p) => Unnamed(t, p)
  BY <1>1 DEF Unnamed
<1>4. ASSUME IsName(Head(t))
      PROVE  ~Unnamed(Tail(t), p)
  BY <1>1, <1>4 DEF Naming, Unnamed
<1>5. ASSUME Head(t)[1] = "BYE"
      PROVE  p = "gone" /\ Tail(t) = <<>>
  <2>1. p = "gone" /\ Len(t) = 1
    BY <1>1, <1>5 DEF Naming
  <2>2. Tail(t) \in Seq(Packets) /\ Len(Tail(t)) = 0
    BY <1>1, <2>1
  <2>3. Tail(t) # <<>> => Len(Tail(t)) # 0
    BY <2>2, EmptySeq
  <2> QED BY <2>1, <2>2, <2>3
<1> QED BY <1>2, <1>3, <1>4, <1>5

LEMMA MarkersTail ==
  ASSUME NEW q \in Seq(Entries), q # <<>>, NEW c, NEW s, NEW h, NEW u, NEW v,
         v => u, Markers(q, c, s, h, u)
  PROVE  Markers(Tail(q), c, s, h, v)
<1>1. \A i \in DOMAIN Tail(q) : i + 1 \in DOMAIN q /\ Tail(q)[i] = q[i + 1]
  OBVIOUS
<1>2. v => s = 0 /\ h = 0 /\ \A i \in DOMAIN Tail(q) : Tail(q)[i] # <<c, 0>>
  BY <1>1 DEF Markers
<1>3. ASSUME s = 1, NEW i \in DOMAIN Tail(q), NEW j \in DOMAIN Tail(q),
             Tail(q)[i] = <<c, 0>>, Tail(q)[j] = <<c, 0>>
      PROVE  i = j /\ h = 0
  <2>1. i + 1 = j + 1 /\ h = 0
    BY <1>1, <1>3 DEF Markers
  <2> QED BY <2>1
<1> QED BY <1>2, <1>3 DEF Markers

LEMMA MarkersAppend ==
  ASSUME NEW q \in Seq(Entries), NEW x \in Entries, NEW c, x # <<c, 0>>, NEW s, NEW h, NEW u, NEW v,
         v => u, Markers(q, c, s, h, u)
  PROVE  Markers(Append(q, x), c, s, h, v)
<1>1. \A i \in DOMAIN Append(q, x) :
        \/ i \in DOMAIN q /\ Append(q, x)[i] = q[i]
        \/ i \notin DOMAIN q /\ Append(q, x)[i] = x
  OBVIOUS
<1> QED BY <1>1 DEF Markers

LEMMA HailInit == Init => HailInv
<1> SUFFICES ASSUME Init, NEW c \in Conns
             PROVE  HailConn(c)
  BY HailParts
<1>1. to[c] = <<>> /\ qu = <<>> /\ state[c] = 0 /\ hails[c] = 0
  BY DEF Init
<1>2. DOMAIN to[c] = {} /\ DOMAIN qu = {}
  BY <1>1
<1> QED BY <1>1, <1>2 DEF HailConn, Naming, Markers

\* The steps of another connection d touch the queue alone.
LEMMA HailOther ==
  ASSUME TypeOK, NEW c \in Conns, HailConn(c), NEW d \in Conns, ConnStep(d), d # c
  PROVE  HailConn(c)'
<1> USE DataReceiverAssumption
<1>0. qu \in Seq(Entries)
  BY DEF TypeOK, Entries
<1>1. /\ to'[c] = to[c] /\ phase'[c] = phase[c] /\ state'[c] = state[c] /\ hails'[c] = hails[c]
  BY DEF ConnStep, TypeOK, lifeVars, sendVars, userVars, Open, SendName, SendEvent, Close, Packet,
         HandleConnect, HandleName, HandleEvent, HandleDisconnect, OnReceive, OnConnect, OnDisconnect,
         AnswerFails
<1>2. \/ qu' = qu
      \/ qu # <<>> /\ qu' = Tail(qu)
      \/ \E e \in 0 .. MaxEvents : qu' = Append(qu, <<d, e>>) \/ qu' = Tail(Append(qu, <<d, e>>))
  <2>1. CASE Open(d) \/ SendName(d) \/ SendEvent(d) \/ Close(d) \/ HandleConnect(d)
    BY <2>1 DEF Open, SendName, SendEvent, Close, HandleConnect
  <2>2. CASE HandleName(d) \/ HandleDisconnect(d)
    <3>1. (qu' = qu \/ qu' = Append(qu, <<d, 0>>)) /\ 0 \in 0 .. MaxEvents
      BY <2>2 DEF HandleName, HandleDisconnect
    <3> QED BY <3>1
  <2>3. CASE HandleEvent(d)
    <3>1. PICK e \in Events : qu' = IF Len(Append(qu, <<d, e>>)) > Cap
                                    THEN Tail(Append(qu, <<d, e>>)) ELSE Append(qu, <<d, e>>)
      BY <2>3 DEF HandleEvent
    <3>2. e \in 0 .. MaxEvents
      BY DEF Events
    <3>3. qu' = Append(qu, <<d, e>>) \/ qu' = Tail(Append(qu, <<d, e>>))
      BY <3>1
    <3> QED BY <3>2, <3>3
  <2>4. CASE OnReceive(d) \/ OnConnect(d) \/ OnDisconnect(d)
    BY <2>4 DEF OnReceive, OnConnect, OnDisconnect, Take
  <2> QED BY <2>1, <2>2, <2>3, <2>4 DEF ConnStep
<1>3. Markers(qu, c, state[c], hails[c], Unnamed(to[c], phase[c]))
  BY DEF HailConn
<1>4. CASE qu # <<>> /\ qu' = Tail(qu)
  BY <1>0, <1>1, <1>3, <1>4, MarkersTail DEF HailConn
<1>5. ASSUME NEW e \in 0 .. MaxEvents
      PROVE  LET q == Append(qu, <<d, e>>) IN
             /\ Markers(q, c, state[c], hails[c], Unnamed(to[c], phase[c]))
             /\ Markers(Tail(q), c, state[c], hails[c], Unnamed(to[c], phase[c]))
  <2> DEFINE q == Append(qu, <<d, e>>)
  <2>1. <<d, e>> \in Entries /\ <<d, e>> # <<c, 0>>
    BY DEF Entries
  <2>2. Markers(q, c, state[c], hails[c], Unnamed(to[c], phase[c]))
    BY <1>0, <1>3, <2>1, MarkersAppend
  <2>3. q \in Seq(Entries)
    BY <1>0, <2>1
  <2>4. q # <<>>
    BY <1>0, <2>1, AppendIsFull
  <2> HIDE DEF q
  <2>5. Markers(Tail(q), c, state[c], hails[c], Unnamed(to[c], phase[c]))
    BY <2>2, <2>3, <2>4, MarkersTail
  <2> QED BY <2>2, <2>5 DEF q
<1> QED BY <1>1, <1>2, <1>3, <1>4, <1>5 DEF HailConn

LEMMA HailOwn ==
  ASSUME TypeOK, NEW c \in Conns, HailConn(c), ConnStep(c)
  PROVE  HailConn(c)'
<1> USE DataReceiverAssumption
<1>0. /\ qu \in Seq(Entries) /\ to[c] \in Seq(Packets)
      /\ Naming(to[c], phase[c])
      /\ Markers(qu, c, state[c], hails[c], Unnamed(to[c], phase[c]))
  BY DEF TypeOK, Entries, HailConn
<1>1. CASE Open(c)
  <2>1. /\ phase[c] = "absent" /\ phase'[c] = "calling" /\ to'[c] = <<<<"CONNECT", 0>>>>
        /\ qu' = qu /\ state'[c] = state[c] /\ hails'[c] = hails[c]
    BY <1>1 DEF Open, TypeOK, userVars
  <2>2. DOMAIN to'[c] = {1} /\ to'[c][1] = <<"CONNECT", 0>>
    BY <2>1
  <2>3. Naming(to'[c], phase'[c]) /\ Unnamed(to[c], phase[c])
    BY <2>1, <2>2 DEF Naming, IsName, Unnamed, Early
  <2> QED BY <1>0, <2>1, <2>3 DEF HailConn, Markers
<1>2. CASE SendName(c) \/ SendEvent(c) \/ Close(c)
  <2>1. PICK p \in Packets :
          /\ to'[c] = Append(to[c], p)
          /\ phase[c] # "gone"
          /\ p[1] = "NAME" => phase[c] = "greeted" /\ phase'[c] = "naming"
          /\ p[1] = "BYE" => phase'[c] = "gone"
          /\ p[1] \in {"NAME", "BYE", "EVENT"}
          /\ p[1] = "EVENT" => phase'[c] = phase[c]
          /\ qu' = qu /\ state'[c] = state[c] /\ hails'[c] = hails[c]
    <3>1. CASE SendName(c)
      <4>1. <<"NAME", 0>> \in Packets
        BY DEF Packets
      <4> QED BY <3>1, <4>1 DEF SendName, TypeOK, userVars
    <3>2. CASE SendEvent(c)
      <4>1. <<"EVENT", sent[c] + 1>> \in Packets
        BY <3>2 DEF Packets, SendEvent, TypeOK
      <4> QED BY <3>2, <4>1 DEF SendEvent, TypeOK, userVars
    <3>3. CASE Close(c)
      <4>1. <<"BYE", 0>> \in Packets
        BY DEF Packets
      <4> QED BY <3>3, <4>1 DEF Close, TypeOK, userVars
    <3> QED BY <1>2, <3>1, <3>2, <3>3
  <2>2. \A i \in DOMAIN to'[c] : \/ i \in DOMAIN to[c] /\ to'[c][i] = to[c][i]
                                 \/ i = Len(to'[c]) /\ to'[c][i] = p
    BY <1>0, <2>1
  <2>3. \A i \in DOMAIN to[c] : to[c][i][1] # "BYE"
    BY <1>0, <2>1 DEF Naming
  <2>4. Naming(to'[c], phase'[c])
    <3>1. CASE p[1] = "NAME"
      BY <1>0, <2>1, <2>2, <2>3, <3>1 DEF Naming, IsName, Early
    <3>2. CASE p[1] = "BYE"
      BY <1>0, <2>1, <2>2, <2>3, <3>2 DEF Naming, IsName, Early
    <3>3. CASE p[1] = "EVENT"
      BY <1>0, <2>1, <2>2, <2>3, <3>3 DEF Naming, IsName, Early
    <3> QED BY <2>1, <3>1, <3>2, <3>3
  <2>5. Unnamed(to'[c], phase'[c]) => Unnamed(to[c], phase[c])
    BY <2>1, <2>2 DEF Unnamed, IsName, Early
  <2> QED BY <1>0, <2>1, <2>4, <2>5 DEF HailConn, Markers
<1>3. ASSUME to[c] # <<>>, to'[c] = Tail(to[c])
      PROVE  /\ Naming(to'[c], phase[c])
             /\ Unnamed(to'[c], phase[c]) => Unnamed(to[c], phase[c])
             /\ IsName(Head(to[c])) => Unnamed(to[c], phase[c]) /\ ~Unnamed(to'[c], phase[c])
             /\ Head(to[c])[1] = "BYE" => phase[c] = "gone" /\ to'[c] = <<>>
  <2>1. 1 \in DOMAIN to[c] /\ Head(to[c]) = to[c][1]
    BY <1>0, <1>3
  <2> QED BY <1>0, <1>3, <2>1, NamingTail DEF Unnamed
<1>4. CASE HandleConnect(c)
  <2>1. /\ to[c] # <<>> /\ to'[c] = Tail(to[c])
        /\ qu' = qu /\ state'[c] = state[c] /\ hails'[c] = hails[c]
    BY <1>4 DEF HandleConnect, Packet, TypeOK, userVars
  <2>3. \/ phase'[c] = phase[c]
        \/ phase[c] = "calling" /\ phase'[c] = "greeted"
    <3>1. phase' = phase \/ phase' = [phase EXCEPT ![c] = IF @ = "calling" THEN "greeted" ELSE @]
      BY <1>4 DEF HandleConnect
    <3>2. phase \in [Conns -> {"absent", "calling", "greeted", "naming", "up", "gone"}]
      BY DEF TypeOK
    <3> QED BY <3>1, <3>2
  <2>2. Naming(to'[c], phase'[c]) /\ (Unnamed(to'[c], phase'[c]) => Unnamed(to[c], phase[c]))
    BY <1>3, <2>1, <2>3 DEF Naming, Unnamed, Early
  <2> QED BY <1>0, <2>1, <2>2 DEF HailConn, Markers
<1>5. CASE HandleName(c)
  <2>1. /\ to[c] # <<>> /\ to'[c] = Tail(to[c]) /\ IsName(Head(to[c])) /\ hails'[c] = hails[c]
    BY <1>5 DEF HandleName, Packet, TypeOK, userVars, IsName
  <2>2. /\ Unnamed(to[c], phase[c]) /\ phase[c] \notin Early
        /\ \A i \in DOMAIN to'[c] : ~IsName(to'[c][i])
    BY <1>3, <2>1 DEF Unnamed
  <2>3. state[c] = 0 /\ hails[c] = 0 /\ \A i \in DOMAIN qu : qu[i] # <<c, 0>>
    BY <1>0, <2>2 DEF Markers
  <2>4. \/ phase'[c] = phase[c]
        \/ phase'[c] = "up" /\ phase[c] = "naming"
    <3>1. phase' = phase \/ phase' = [phase EXCEPT ![c] = IF @ = "naming" THEN "up" ELSE @]
      BY <1>5 DEF HandleName
    <3>2. phase \in [Conns -> {"absent", "calling", "greeted", "naming", "up", "gone"}]
      BY DEF TypeOK
    <3> QED BY <3>1, <3>2
  <2>5. Naming(to'[c], phase'[c]) /\ ~Unnamed(to'[c], phase'[c])
    BY <1>3, <2>1, <2>2, <2>4 DEF Naming, Unnamed, Early
  <2>6. \/ qu' = qu /\ state'[c] = state[c]
        \/ qu' = Append(qu, <<c, 0>>)
    BY <1>5 DEF HandleName
  <2>7. CASE qu' = qu /\ state'[c] = state[c]
    BY <2>1, <2>3, <2>5, <2>7 DEF HailConn, Markers
  <2>8. CASE qu' = Append(qu, <<c, 0>>)
    <3>1. <<c, 0>> \in Entries
      BY DEF Entries
    <3>2. \A i \in DOMAIN qu' : qu'[i] = <<c, 0>> => i = Len(qu) + 1
      BY <1>0, <2>3, <2>8, <3>1
    <3> QED BY <2>1, <2>3, <2>5, <3>2 DEF HailConn, Markers
  <2> QED BY <2>6, <2>7, <2>8
<1>6. CASE HandleEvent(c)
  <2>1. PICK e \in Events :
          /\ Packet(c, "EVENT", e)
          /\ qu' = IF Len(Append(qu, <<c, e>>)) > Cap
                   THEN Tail(Append(qu, <<c, e>>)) ELSE Append(qu, <<c, e>>)
    BY <1>6 DEF HandleEvent
  <2>2. /\ to[c] # <<>> /\ to'[c] = Tail(to[c])
        /\ phase'[c] = phase[c] /\ state'[c] = state[c] /\ hails'[c] = hails[c]
    BY <1>6 DEF HandleEvent, Packet, TypeOK, sendVars, userVars
  <2> DEFINE q == Append(qu, <<c, e>>)
  <2>3. <<c, e>> \in Entries /\ <<c, e>> # <<c, 0>>
    BY DEF Entries, Events
  <2>4. q \in Seq(Entries)
    BY <1>0, <2>3
  <2>8. q # <<>>
    BY <1>0, <2>3, AppendIsFull
  <2>5. Markers(q, c, state[c], hails[c], Unnamed(to'[c], phase[c]))
    BY <1>0, <1>3, <2>2, <2>3, MarkersAppend
  <2>6. qu' = q \/ qu' = Tail(q)
    BY <2>1
  <2> HIDE DEF q
  <2>7. Markers(Tail(q), c, state[c], hails[c], Unnamed(to'[c], phase[c]))
    BY <2>4, <2>8, <2>5, MarkersTail
  <2> QED BY <1>3, <2>2, <2>5, <2>6, <2>7 DEF HailConn
<1>7. CASE HandleDisconnect(c)
  <2>1. /\ to[c] # <<>> /\ to'[c] = Tail(to[c]) /\ Head(to[c])[1] = "BYE"
        /\ phase'[c] = phase[c] /\ state'[c] = 0
    BY <1>7 DEF HandleDisconnect, Packet, TypeOK, sendVars
  <2>2. phase'[c] = "gone" /\ to'[c] = <<>> /\ Naming(to'[c], phase'[c])
    BY <1>3, <2>1
  <2>3. ~Unnamed(to'[c], phase'[c])
    BY <2>2 DEF Unnamed, Early
  <2> QED BY <2>1, <2>2, <2>3 DEF HailConn, Markers
<1>8. CASE OnReceive(c) \/ OnConnect(c) \/ OnDisconnect(c)
  <2>1. /\ to'[c] = to[c] /\ phase'[c] = phase[c] /\ state'[c] = state[c]
        /\ qu # <<>> /\ qu' = Tail(qu)
    BY <1>8 DEF OnReceive, OnConnect, OnDisconnect, Take, sendVars
  <2>2. Markers(qu', c, state'[c], hails[c], Unnamed(to'[c], phase'[c]))
    BY <1>0, <2>1, MarkersTail
  <2>3. CASE hails'[c] = hails[c]
    BY <1>0, <2>1, <2>2, <2>3 DEF HailConn
  <2>4. CASE OnConnect(c)
    <3>1. Head(qu) = <<c, 0>> /\ state[c] = 1
      BY <2>4 DEF OnConnect, Take
    <3>2. 1 \in DOMAIN qu /\ qu[1] = <<c, 0>>
          /\ \A i \in DOMAIN qu' : i + 1 \in DOMAIN qu /\ qu'[i] = qu[i + 1] /\ i + 1 # 1
      BY <1>0, <2>1, <3>1
    <3>3. \A i \in DOMAIN qu' : qu'[i] # <<c, 0>>
      BY <1>0, <3>1, <3>2 DEF Markers
    <3>4. ~Unnamed(to[c], phase[c])
      BY <1>0, <3>2 DEF Markers
    <3> QED BY <1>0, <2>1, <3>3, <3>4 DEF HailConn, Markers
  <2>5. CASE OnReceive(c) \/ OnDisconnect(c)
    BY <2>3, <2>5 DEF OnReceive, OnDisconnect
  <2> QED BY <1>8, <2>4, <2>5
<1> QED BY <1>1, <1>2, <1>4, <1>5, <1>6, <1>7, <1>8 DEF ConnStep

LEMMA HailStep == TypeOK /\ HailInv /\ [Next]_vars => HailInv'
<1> SUFFICES ASSUME TypeOK, HailInv, [Next]_vars, NEW c \in Conns
             PROVE  HailConn(c)'
  BY HailParts DEF HailInv, HailConn
<1>0. HailConn(c)
  BY HailParts
<1>1. CASE UNCHANGED <<to, phase, qu, state, hails>>
  BY <1>0, <1>1 DEF HailConn
<1>2. CASE UNCHANGED vars
  BY <1>1, <1>2 DEF vars, sendVars, userVars
<1>3. CASE StillStep \/ Listen
  BY <1>1, <1>3, StillIsStill DEF Still, Listen, sendVars, userVars
<1>4. CASE CloseForwarding
  <2>1. /\ state' = state /\ hails' = hails
        /\ \/ UNCHANGED <<phase, to, qu>>
           \/ qu' = <<>> /\ Disconnected
    BY <1>4 DEF CloseForwarding, userVars
  <2>2. CASE qu' = <<>> /\ Disconnected
    <3>1. /\ to'[c] = <<>> /\ phase'[c] \in {"absent", "gone"}
          /\ phase'[c] = "absent" => phase[c] = "absent"
      BY <2>2 DEF Disconnected
    <3>2. DOMAIN to'[c] = {} /\ DOMAIN qu' = {}
      BY <2>2, <3>1
    <3>3. Unnamed(to'[c], phase'[c]) => Unnamed(to[c], phase[c])
      BY <3>1, <3>2 DEF Unnamed, Early
    <3> QED BY <1>0, <2>1, <3>1, <3>2, <3>3 DEF HailConn, Naming, Markers
  <2> QED BY <1>1, <2>1, <2>2
<1>5. ASSUME NEW d \in Conns, ConnStep(d)
      PROVE  HailConn(c)'
  BY <1>0, <1>5, HailOther, HailOwn
<1> QED BY <1>2, <1>3, <1>4, <1>5, NextCases

\* A connection is announced once at most (DataReceiver.cc:39-53, 86-92, 145-150).
THEOREM HailedOnce == Spec => []HailInv
<1>1. TypeOK /\ HailInv /\ [Next]_vars => HailInv'
  BY HailStep
<1> QED BY <1>1, HailInit, ReceiverTyping, PTL DEF Spec

\* The invariant behind the next two theorems holds in every behaviour.
THEOREM ReceiverInvariant == Spec => []ReceiverInv
BY InvInit, InvStep, PTL DEF Spec

\* Whatever a run leaves in queue and sockets, and whatever threw in it, the next
\* Listen finds none of it (DataReceiver.cc:162-185, 219-235).
THEOREM SlateIsClean == Spec => []CleanSlate
<1>1. ReceiverInv => CleanSlate
  BY DEF ReceiverInv, Life
<1> QED BY <1>1, ReceiverInvariant, PTL

LEMMA LaterEvent ==
  ASSUME ReceiverInv, NEW c \in Conns, OnReceive(c)
  PROVE  \E e \in Events :
           /\ Take(c, e) /\ last' = [last EXCEPT ![c] = e]
           /\ last[c] < e /\ e <= sent[c] /\ e \in Nat /\ last[c] \in Nat /\ sent[c] \in Nat
           /\ qu \in Seq(Entries) /\ qu # <<>> /\ Head(qu) = <<c, e>>
<1>0. TypeOK /\ Life /\ \A d \in Conns : ConnInv(d)
  BY InvParts
<1>1. PICK e \in Events : Take(c, e) /\ last' = [last EXCEPT ![c] = e]
  BY DEF OnReceive
<1>2. qu \in Seq(Entries) /\ to[c] \in Seq(Packets)
  BY <1>0 DEF TypeOK, Entries
<1>3. qu # <<>> /\ Head(qu) = <<c, e>>
  BY <1>1 DEF Take
<1>4. sent[c] \in Nat /\ last[c] \in Nat /\ e \in Nat /\ e > 0
  BY <1>0, DataReceiverAssumption DEF TypeOK, Events
<1>5. qu \in Seq(Entries) /\ qu # <<>> /\ Head(qu) = <<c, e>>
      /\ to[c] \in Seq(Packets) /\ sent[c] \in Nat /\ last[c] \in Nat /\ e \in Nat /\ e > 0
  BY <1>2, <1>3, <1>4
<1>6. last[c] < e /\ e <= sent[c]
  BY <1>0, <1>5, QueueGiven DEF ConnInv
<1> QED BY <1>1, <1>5, <1>6

\* A DataReceiver gives its user the stream that EventStream describes
\* (DataReceiver.cc:105-117, 136-141).
THEOREM ReceiverImplementsStream == Spec => StreamSpec
<1>1. Init => Stream!Init
  BY DEF Init, Stream!Init
<1>2. ReceiverInv /\ HailInv /\ [Next]_vars => [Stream!Next]_(Stream!vars)
  <2> SUFFICES ASSUME ReceiverInv, HailInv, Next
               PROVE  Stream!Next \/ UNCHANGED <<run, born, sent, last, hails>>
    BY DEF vars, lifeVars, sendVars, userVars, Stream!vars
  <2>0. TypeOK /\ Life /\ \A c \in Conns : ConnInv(c)
    BY InvParts
  <2>1. CASE StillStep
    BY <2>1, StillIsStill DEF Still
  <2>2. CASE Listen
    BY <2>2 DEF Listen, lifeVars, sendVars, userVars, Stream!Next, Stream!Listen
  <2>3. CASE CloseForwarding
    BY <2>3 DEF CloseForwarding, userVars
  <2>4. ASSUME NEW c \in Conns, ConnStep(c)
        PROVE  Stream!Next \/ UNCHANGED <<run, born, sent, last, hails>>
    <3>1. CASE Open(c)
      <4>1. born[c] = 0
        BY <2>0, <3>1 DEF Open, ConnInv, Born
      <4> QED BY <3>1, <4>1 DEF Open, lifeVars, userVars, Stream!Next, Stream!Open
    <3>2. CASE SendEvent(c)
      <4>1. born[c] > 0
        BY <2>0, <3>2 DEF SendEvent, ConnInv, Born, TypeOK
      <4> QED BY <3>2, <4>1 DEF SendEvent, lifeVars, userVars, Stream!Next, Stream!Send
    <3>3. CASE OnReceive(c)
      <4>1. PICK e \in Events :
              /\ Take(c, e) /\ last' = [last EXCEPT ![c] = e]
              /\ last[c] < e /\ e <= sent[c] /\ e \in Nat /\ last[c] \in Nat /\ sent[c] \in Nat
              /\ qu \in Seq(Entries) /\ qu # <<>> /\ Head(qu) = <<c, e>>
        BY <3>3, LaterEvent
      <4>7. born[c] = run
        <5>1. 1 \in DOMAIN qu /\ qu[1][1] = c
          BY <4>1
        <5> QED BY <2>0, <5>1 DEF ConnInv, Born
      <4>8. e \in last[c] + 1 .. sent[c]
        BY <4>1
      <4>9. UNCHANGED <<run, born, sent, hails>>
        BY <3>3 DEF OnReceive, lifeVars, sendVars
      <4> QED BY <4>1, <4>7, <4>8, <4>9 DEF Stream!Next, Stream!OnReceive
    <3>4. CASE OnConnect(c)
      <4>1. state[c] = 1 /\ qu # <<>> /\ Head(qu) = <<c, 0>> /\ hails' = [hails EXCEPT ![c] = @ + 1]
            /\ UNCHANGED <<run, born, sent, last>>
        BY <3>4 DEF OnConnect, Take, lifeVars, sendVars
      <4>2. qu \in Seq(Entries)
        BY <2>0 DEF TypeOK, Entries
      <4>3. 1 \in DOMAIN qu /\ qu[1] = <<c, 0>>
        BY <4>1, <4>2
      <4>4. born[c] = run
        BY <2>0, <4>3 DEF ConnInv, Born
      <4>5. hails[c] = 0
        BY <4>1, <4>3 DEF HailInv, Markers
      <4>6. hails' = [hails EXCEPT ![c] = 1]
        BY <4>1, <4>5
      <4> QED BY <4>1, <4>4, <4>5, <4>6 DEF Stream!Next, Stream!OnConnect
    <3>5. CASE SendName(c) \/ Close(c) \/ HandleConnect(c) \/ HandleName(c) \/ HandleEvent(c)
                 \/ HandleDisconnect(c) \/ OnDisconnect(c)
      BY <3>5 DEF SendName, Close, HandleConnect, HandleName, HandleEvent, HandleDisconnect,
                  OnDisconnect, lifeVars, sendVars, userVars
    <3> QED BY <2>4, <3>1, <3>2, <3>3, <3>4, <3>5 DEF ConnStep
  <2> QED BY <2>1, <2>2, <2>3, <2>4, NextCases
<1>3. ReceiverInv /\ [Next]_vars
        => [\A c \in Conns : OnReceive(c) => last'[c] > last[c]]_vars
  <2> SUFFICES ASSUME ReceiverInv, NEW c \in Conns, OnReceive(c) PROVE last'[c] > last[c]
    OBVIOUS
  <2>1. PICK e \in Events : last' = [last EXCEPT ![c] = e] /\ last[c] < e
    BY LaterEvent
  <2>2. last'[c] = e
    BY <2>1 DEF ReceiverInv, TypeOK
  <2> QED BY <2>1, <2>2
<1> QED BY <1>1, <1>2, <1>3, ReceiverInvariant, HailedOnce, PTL DEF Spec, StreamSpec, Stream!Spec
-----------------------------------------------------------------------------
(***************************************************************************)
(* A farewell waits.                                                       *)
(***************************************************************************)

FarewellConn(c) ==
  server /\ ~full /\ born[c] = run =>
    /\ state[c] = 1 /\ fwd \in FwdAlive => c \in known
    /\ hails[c] > 0 => Waits(c)

LEMMA FarewellParts == FarewellInv <=> \A c \in Conns : FarewellConn(c)
BY DEF FarewellInv, FarewellConn

\* A marker in q.
Queued(q, c) == \E i \in DOMAIN q : q[i] = <<c, 0>>

LEMMA QueuedAppend ==
  ASSUME NEW q \in Seq(Entries), NEW x \in Entries, NEW c
  PROVE  /\ Queued(q, c) => Queued(Append(q, x), c)
         /\ x = <<c, 0>> => Queued(Append(q, x), c)
<1>1. /\ \A i \in DOMAIN q : i \in DOMAIN Append(q, x) /\ Append(q, x)[i] = q[i]
      /\ Len(q) + 1 \in DOMAIN Append(q, x) /\ Append(q, x)[Len(q) + 1] = x
  OBVIOUS
<1> QED BY <1>1 DEF Queued

LEMMA QueuedTail ==
  ASSUME NEW q \in Seq(Entries), q # <<>>, NEW c, Head(q) # <<c, 0>>, Queued(q, c)
  PROVE  Queued(Tail(q), c)
<1>1. PICK i \in DOMAIN q : q[i] = <<c, 0>>
  BY DEF Queued
<1>2. i # 1
  BY <1>1
<1>3. i - 1 \in DOMAIN Tail(q) /\ Tail(q)[i - 1] = q[i]
  BY <1>2
<1> QED BY <1>1, <1>3 DEF Queued

\* What a step must keep for c.
LEMMA FarewellKept ==
  ASSUME NEW c \in Conns, FarewellConn(c),
         server' => server, full => full', run' = run, born'[c] = born[c],
         state'[c] = state[c], hails'[c] = hails[c],
         fwd' \in FwdAlive => fwd \in FwdAlive /\ (c \in known => c \in known'),
         ~full' => (Waits(c) => Waits(c)')
  PROVE  FarewellConn(c)'
BY DEF FarewellConn

LEMMA FarewellInit == Init => FarewellInv
BY DEF Init, FarewellInv

LEMMA FarewellStill ==
  ASSUME TypeOK, StillStep, NEW c \in Conns, FarewellConn(c)
  PROVE  FarewellConn(c)'
<1>1. UNCHANGED <<run, server, born, state, qu, hails>>
  BY StillIsStill DEF Still
<1>2. CASE ForwardingEnds
  <2>1. fwd' \notin FwdAlive /\ full' = full
    BY <1>2 DEF ForwardingEnds, FwdAlive
  <2>2. byes'[c] = IF c \in known THEN byes[c] + 1 ELSE byes[c]
    BY <1>2 DEF ForwardingEnds
  <2>3. byes[c] \in Nat
    BY DEF TypeOK
  <2>4. Waits(c) => Waits(c)'
    BY <1>1, <2>2, <2>3 DEF Waits
  <2> QED BY <1>1, <2>1, <2>4, FarewellKept
<1>3. CASE ForwardingEndsBadly
  <2>1. fwd' \notin FwdAlive /\ full' = full /\ known' = known
    BY <1>3 DEF ForwardingEndsBadly, FwdAlive
  <2>2. byes'[c] = byes[c] \/ byes'[c] = byes[c] + 1
    BY <1>3 DEF ForwardingEndsBadly
  <2>3. byes[c] \in Nat
    BY DEF TypeOK
  <2>4. Waits(c) => Waits(c)'
    BY <1>1, <2>1, <2>2, <2>3 DEF Waits
  <2> QED BY <1>1, <2>1, <2>4, FarewellKept
<1>4. CASE ~ForwardingEnds /\ ~ForwardingEndsBadly
  <2>1. UNCHANGED <<full, known, byes>> /\ (fwd' \in FwdAlive => fwd \in FwdAlive)
    <3>1. CASE CallListen \/ CallStopListen \/ StopListenReturns \/ StopListenThrows
      BY <3>1 DEF CallListen, CallStopListen, StopListenReturns, StopListenThrows, userVars
    <3>2. CASE ReceivingEnds \/ ForwardingGoesOn \/ WaitForEvents \/ Wake \/ Oversleep
      BY <3>2 DEF ReceivingEnds, ForwardingGoesOn, WaitForEvents, Wake, Oversleep, userVars, FwdAlive
    <3>3. CASE DeamonLooks \/ WatchReceiving \/ WatchForwarding \/ CloseReceiving
      BY <3>3 DEF DeamonLooks, WatchReceiving, WatchForwarding, CloseReceiving, userVars, FwdAlive
    <3> QED BY <1>4, <3>1, <3>2, <3>3 DEF StillStep
  <2>2. Waits(c) => Waits(c)'
    BY <1>1, <2>1 DEF Waits
  <2> QED BY <1>1, <2>1, <2>2, FarewellKept
<1> QED BY <1>2, <1>3, <1>4

LEMMA FarewellListen ==
  ASSUME ReceiverInv, Listen, NEW c \in Conns, FarewellConn(c)
  PROVE  FarewellConn(c)'
<1>1. CASE server
  <2>1. UNCHANGED <<run, server, fwd, full, born, state, qu, known, hails, byes>>
    BY <1>1 DEF Listen, lifeVars, sendVars, userVars
  <2>2. Waits(c) => Waits(c)'
    BY <2>1 DEF Waits
  <2> QED BY <2>1, <2>2, FarewellKept
<1>2. CASE ~server
  <2>1. run' = run + 1 /\ born' = born
    BY <1>2 DEF Listen, sendVars
  <2>2. born[c] <= run /\ born[c] \in Nat /\ run \in Nat
    BY InvParts DEF ConnInv, Born, TypeOK
  <2>3. born'[c] # run'
    BY <2>1, <2>2
  <2> QED BY <2>3 DEF FarewellConn
<1> QED BY <1>1, <1>2

LEMMA FarewellClose ==
  ASSUME CloseForwarding, NEW c \in Conns, FarewellConn(c)
  PROVE  FarewellConn(c)'
<1>1. fwd' \notin FwdAlive /\ UNCHANGED <<run, full, born, state, known, hails, byes>>
  BY DEF CloseForwarding, FwdAlive, userVars
<1>2. CASE ~server'
  BY <1>2 DEF FarewellConn
<1>3. CASE server' = server /\ qu' = qu
  <2>1. Waits(c) => Waits(c)'
    BY <1>1, <1>3 DEF Waits
  <2> QED BY <1>1, <1>3, <2>1, FarewellKept
<1>4. (server' = server /\ qu' = qu) \/ ~server'
  BY DEF CloseForwarding
<1> QED BY <1>2, <1>3, <1>4

\* The steps of another connection d leave the markers of c in the queue, unless it
\* overflows.
LEMMA FarewellOther ==
  ASSUME TypeOK, NEW c \in Conns, FarewellConn(c), NEW d \in Conns, ConnStep(d), d # c
  PROVE  FarewellConn(c)'
<1> USE DataReceiverAssumption
<1>0. qu \in Seq(Entries)
  BY DEF TypeOK, Entries
<1>1. /\ run' = run /\ server' = server /\ born'[c] = born[c] /\ state'[c] = state[c]
      /\ hails'[c] = hails[c] /\ byes'[c] = byes[c] /\ (c \in known' <=> c \in known)
      /\ fwd' \in FwdAlive => fwd \in FwdAlive
  <2>1. CASE Open(d) \/ SendName(d) \/ SendEvent(d) \/ Close(d)
    BY <2>1 DEF TypeOK, Open, SendName, SendEvent, Close, lifeVars, userVars
  <2>2. CASE HandleConnect(d) \/ HandleName(d) \/ HandleEvent(d) \/ HandleDisconnect(d)
    BY <2>2 DEF TypeOK, HandleConnect, HandleName, HandleEvent, HandleDisconnect, lifeVars, sendVars, userVars
  <2>3. CASE OnReceive(d) \/ OnConnect(d) \/ OnDisconnect(d)
    BY <2>3 DEF TypeOK, OnReceive, OnConnect, OnDisconnect, Take, lifeVars, sendVars, FwdAlive
  <2> QED BY <2>1, <2>2, <2>3 DEF ConnStep
<1>2. /\ full => full'
      /\ ~full' => (Queued(qu, c) => Queued(qu', c))
  <2>1. CASE Open(d) \/ SendName(d) \/ SendEvent(d) \/ Close(d) \/ HandleConnect(d)
    BY <2>1 DEF Open, SendName, SendEvent, Close, HandleConnect
  <2>2. CASE HandleName(d) \/ HandleDisconnect(d)
    <3>1. full' = full /\ (qu' = qu \/ qu' = Append(qu, <<d, 0>>)) /\ <<d, 0>> \in Entries
      BY <2>2 DEF HandleName, HandleDisconnect, Entries
    <3> QED BY <1>0, <3>1, QueuedAppend
  <2>3. CASE HandleEvent(d)
    <3>1. PICK e \in Events :
            LET q == Append(qu, <<d, e>>) IN
            /\ qu' = IF Len(q) > Cap THEN Tail(q) ELSE q
            /\ full' = (full \/ Len(q) > Cap)
      BY <2>3 DEF HandleEvent
    <3>2. <<d, e>> \in Entries
      BY DEF Entries, Events
    <3>3. ~full' => qu' = Append(qu, <<d, e>>)
      BY <3>1
    <3>4. full => full'
      BY <3>1
    <3> QED BY <1>0, <3>2, <3>3, <3>4, QueuedAppend
  <2>4. CASE OnReceive(d) \/ OnConnect(d) \/ OnDisconnect(d)
    <3>1. PICK e : qu # <<>> /\ Head(qu) = <<d, e>> /\ qu' = Tail(qu)
      BY <2>4 DEF OnReceive, OnConnect, OnDisconnect, Take
    <3>2. Head(qu) # <<c, 0>>
      BY <3>1
    <3>3. full' = full
      BY <2>4 DEF OnReceive, OnConnect, OnDisconnect
    <3> QED BY <1>0, <3>1, <3>2, <3>3, QueuedTail
  <2> QED BY <2>1, <2>2, <2>3, <2>4 DEF ConnStep
<1>3. ~full' => (Waits(c) => Waits(c)')
  BY <1>1, <1>2 DEF Waits, Queued
<1> QED BY <1>1, <1>2, <1>3, FarewellKept

\* Its own steps: announced, it is known; forgotten or its marker used, the farewell
\* is queued or given.
LEMMA FarewellOwn ==
  ASSUME TypeOK, NEW c \in Conns, Born(c), HailConn(c), FarewellConn(c), ConnStep(c)
  PROVE  FarewellConn(c)'
<1> USE DataReceiverAssumption
<1>0. /\ qu \in Seq(Entries) /\ byes[c] \in Nat /\ state \in [Conns -> {0, 1}]
      /\ hails \in [Conns -> Nat] /\ byes \in [Conns -> Nat] /\ <<c, 0>> \in Entries
  BY DEF TypeOK, Entries
<1>1. CASE Open(c)
  <2>1. state[c] = 0 /\ hails[c] = 0
    BY <1>1 DEF Open, HailConn, Markers, Unnamed, Early
  <2>2. state' = state /\ hails' = hails
    BY <1>1 DEF Open, userVars
  <2> QED BY <2>1, <2>2 DEF FarewellConn
<1>2. CASE SendName(c) \/ SendEvent(c) \/ Close(c) \/ HandleConnect(c)
  <2>1. UNCHANGED <<run, server, fwd, full, born, state, qu, known, hails, byes>>
    BY <1>2 DEF SendName, SendEvent, Close, HandleConnect, lifeVars, userVars
  <2>2. Waits(c) => Waits(c)'
    BY <2>1 DEF Waits
  <2> QED BY <2>1, <2>2, FarewellKept
<1>3. CASE HandleName(c)
  <2>1. UNCHANGED <<run, server, fwd, full, born, hails, byes>>
    BY <1>3 DEF HandleName, lifeVars, userVars
  <2>2. CASE UNCHANGED <<state, known, qu>>
    <3>1. Waits(c) => Waits(c)'
      BY <2>1, <2>2 DEF Waits
    <3> QED BY <2>1, <2>2, <3>1, FarewellKept
  <2>3. CASE c \in known'
    BY <2>3 DEF FarewellConn, Waits
  <2> QED BY <1>3, <2>2, <2>3 DEF HandleName
<1>4. CASE HandleEvent(c)
  <2>1. UNCHANGED <<run, server, fwd, born, state, known, hails, byes>>
    BY <1>4 DEF HandleEvent, lifeVars, sendVars, userVars
  <2>2. PICK e \in Events :
          LET q == Append(qu, <<c, e>>) IN
          /\ qu' = IF Len(q) > Cap THEN Tail(q) ELSE q
          /\ full' = (full \/ Len(q) > Cap)
    BY <1>4 DEF HandleEvent
  <2>3. <<c, e>> \in Entries
    BY DEF Entries, Events
  <2>4. ~full' => qu' = Append(qu, <<c, e>>)
    BY <2>2
  <2>5. full => full'
    BY <2>2
  <2>6. ~full' => (Waits(c) => Waits(c)')
    <3>1. ~full' => (Queued(qu, c) => Queued(qu', c))
      BY <1>0, <2>3, <2>4, QueuedAppend
    <3> QED BY <2>1, <3>1 DEF Waits, Queued
  <2> QED BY <2>1, <2>5, <2>6, FarewellKept
<1>5. CASE HandleDisconnect(c)
  <2>1. state'[c] = 0 /\ UNCHANGED <<run, server, fwd, full, born, hails, byes>>
    BY <1>0, <1>5 DEF HandleDisconnect, lifeVars, sendVars, userVars
  <2>2. CASE c \in known
    <3>1. qu' = Append(qu, <<c, 0>>)
      BY <1>5, <2>2 DEF HandleDisconnect
    <3>2. Queued(qu', c)
      BY <1>0, <3>1, QueuedAppend
    <3>3. Waits(c)'
      BY <3>2 DEF Waits, Queued
    <3> QED BY <2>1, <3>3 DEF FarewellConn
  <2>3. CASE c \notin known
    <3>1. UNCHANGED <<known, qu>>
      BY <1>5, <2>3 DEF HandleDisconnect
    <3>2. Waits(c) => Waits(c)'
      BY <2>1, <3>1 DEF Waits
    <3> QED BY <2>1, <3>2 DEF FarewellConn
  <2> QED BY <2>2, <2>3
<1>6. CASE OnReceive(c)
  <2>1. UNCHANGED <<run, server, full, born, state, known, hails, byes>> /\ fwd \in FwdAlive
    BY <1>6 DEF OnReceive, Take, lifeVars, sendVars, FwdAlive
  <2>2. PICK e \in Events : qu # <<>> /\ Head(qu) = <<c, e>> /\ qu' = Tail(qu)
    BY <1>6 DEF OnReceive, Take
  <2>3. Head(qu) # <<c, 0>>
    BY <2>2 DEF Events
  <2>4. Queued(qu, c) => Queued(qu', c)
    BY <1>0, <2>2, <2>3, QueuedTail
  <2>5. Waits(c) => Waits(c)'
    BY <2>1, <2>4 DEF Waits, Queued
  <2> QED BY <2>1, <2>5, FarewellKept
<1>7. CASE OnConnect(c)
  <2>1. /\ UNCHANGED <<run, server, full, born, state, known, byes>>
        /\ fwd \in FwdAlive /\ state[c] = 1
    BY <1>7 DEF OnConnect, Take, lifeVars, sendVars, FwdAlive
  <2> QED BY <2>1 DEF FarewellConn, Waits
<1>8. CASE OnDisconnect(c)
  <2>1. state'[c] = 0
    BY <1>8 DEF OnDisconnect
  <2>2. byes'[c] > 0
    BY <1>0, <1>8 DEF OnDisconnect
  <2> QED BY <2>1, <2>2 DEF FarewellConn, Waits
<1> QED BY <1>1, <1>2, <1>3, <1>4, <1>5, <1>6, <1>7, <1>8 DEF ConnStep

LEMMA FarewellStep == ReceiverInv /\ HailInv /\ FarewellInv /\ [Next]_vars => FarewellInv'
<1> SUFFICES ASSUME ReceiverInv, HailInv, FarewellInv, [Next]_vars, NEW c \in Conns
             PROVE  FarewellConn(c)'
  BY DEF FarewellInv, FarewellConn
<1>0. TypeOK /\ FarewellConn(c) /\ HailConn(c) /\ Born(c)
  BY FarewellParts, HailParts, InvParts DEF ConnInv
<1>1. CASE UNCHANGED vars
  BY <1>0, <1>1 DEF FarewellConn, Waits, vars, lifeVars, sendVars, userVars
<1>2. CASE StillStep
  BY <1>0, <1>2, FarewellStill
<1>3. CASE Listen
  BY <1>0, <1>3, FarewellListen
<1>4. CASE CloseForwarding
  BY <1>0, <1>4, FarewellClose
<1>5. ASSUME NEW d \in Conns, ConnStep(d)
      PROVE  FarewellConn(c)'
  BY <1>0, <1>5, FarewellOther, FarewellOwn
<1> QED BY <1>1, <1>2, <1>3, <1>4, <1>5, NextCases

\* Whoever was announced is taken leave of, or the farewell waits where only the limit
\* of the queue and the end of the run lose it (DataReceiver.cc:39-53, 100-104, 145-158).
THEOREM FarewellIsOwed == Spec => []FarewellWaits
<1>1. FarewellInv => FarewellWaits
  BY DEF FarewellInv, FarewellWaits, Waits
<1>2. ReceiverInv /\ HailInv /\ FarewellInv /\ [Next]_vars => FarewellInv'
  BY FarewellStep
<1> QED BY <1>1, <1>2, FarewellInit, ReceiverInvariant, HailedOnce, PTL DEF Spec
-----------------------------------------------------------------------------
(***************************************************************************)
(* OnConnect comes first.                                                  *)
(***************************************************************************)

Names(t) == \E i \in DOMAIN t : IsName(t[i])

NameConn(c) ==
  /\ hails[c] \in {0, 1}
  /\ phase[c] = "up" => ~Names(to[c])
  /\ Unnamed(to[c], phase[c]) => sent[c] = 0

Ahead(c) ==
  server /\ ~full /\ born[c] = run /\ state[c] = 1 /\ hails[c] = 0 => Announced(qu, c)

LEMMA FirstParts == FirstInv <=> \A c \in Conns : NameConn(c) /\ Ahead(c)
BY DEF FirstInv, NameConn, Ahead, Names

LEMMA FirstInit == Init => FirstInv
<1> SUFFICES ASSUME Init, NEW c \in Conns
             PROVE  NameConn(c) /\ Ahead(c)
  BY FirstParts
<1> QED BY DEF Init, NameConn, Ahead

LEMMA AnnouncedAppend ==
  ASSUME NEW q \in Seq(Entries), NEW x \in Entries, NEW c, Announced(q, c)
  PROVE  Announced(Append(q, x), c)
<1> DEFINE r == Append(q, x)
<1>1. /\ \A i \in DOMAIN q : i \in DOMAIN r /\ r[i] = q[i] /\ i \in Nat /\ i <= Len(q)
      /\ \A j \in DOMAIN r : j \in DOMAIN q \/ j = Len(q) + 1
      /\ Len(q) \in Nat
  OBVIOUS
<1> HIDE DEF r
<1>2. PICK i \in DOMAIN q : q[i] = <<c, 0>> /\ \A j \in DOMAIN q : q[j][1] = c => i <= j
  BY DEF Announced
<1>3. \A j \in DOMAIN r : r[j][1] = c => i <= j
  BY <1>1, <1>2
<1>4. Announced(r, c)
  BY <1>1, <1>2, <1>3 DEF Announced
<1> QED BY <1>4 DEF r

LEMMA AnnouncedTail ==
  ASSUME NEW q \in Seq(Entries), q # <<>>, NEW c, Head(q)[1] # c, Announced(q, c)
  PROVE  Announced(Tail(q), c)
<1>1. PICK i \in DOMAIN q : q[i] = <<c, 0>> /\ \A j \in DOMAIN q : q[j][1] = c => i <= j
  BY DEF Announced
<1>2. i # 1
  BY <1>1
<1>3. i - 1 \in DOMAIN Tail(q) /\ Tail(q)[i - 1] = q[i] /\ i \in Nat
  BY <1>2
<1>4. \A j \in DOMAIN Tail(q) : j + 1 \in DOMAIN q /\ Tail(q)[j] = q[j + 1] /\ j \in Nat
  OBVIOUS
<1>5. \A j \in DOMAIN Tail(q) : Tail(q)[j][1] = c => i - 1 <= j
  BY <1>1, <1>3, <1>4
<1> QED BY <1>1, <1>3, <1>5 DEF Announced

\* What a step must keep for c.
LEMMA AheadKept ==
  ASSUME NEW c \in Conns, Ahead(c),
         server' => server, full => full', run' = run, born'[c] = born[c],
         state'[c] = state[c], hails'[c] = hails[c],
         ~full' => (Announced(qu, c) => Announced(qu', c))
  PROVE  Ahead(c)'
BY DEF Ahead

LEMMA AheadOther ==
  ASSUME TypeOK, NEW c \in Conns, Ahead(c), NEW d \in Conns, ConnStep(d), d # c
  PROVE  Ahead(c)'
<1> USE DataReceiverAssumption
<1>0. qu \in Seq(Entries)
  BY DEF TypeOK, Entries
<1>1. /\ run' = run /\ server' = server /\ born'[c] = born[c] /\ state'[c] = state[c]
      /\ hails'[c] = hails[c]
  <2>1. CASE Open(d) \/ SendName(d) \/ SendEvent(d) \/ Close(d)
    BY <2>1 DEF TypeOK, Open, SendName, SendEvent, Close, lifeVars, userVars
  <2>2. CASE HandleConnect(d) \/ HandleName(d) \/ HandleEvent(d) \/ HandleDisconnect(d)
    BY <2>2 DEF TypeOK, HandleConnect, HandleName, HandleEvent, HandleDisconnect, lifeVars, sendVars, userVars
  <2>3. CASE OnReceive(d) \/ OnConnect(d) \/ OnDisconnect(d)
    BY <2>3 DEF TypeOK, OnReceive, OnConnect, OnDisconnect, lifeVars, sendVars
  <2> QED BY <2>1, <2>2, <2>3 DEF ConnStep
<1>2. /\ full => full'
      /\ ~full' => (Announced(qu, c) => Announced(qu', c))
  <2>1. CASE Open(d) \/ SendName(d) \/ SendEvent(d) \/ Close(d) \/ HandleConnect(d)
    BY <2>1 DEF Open, SendName, SendEvent, Close, HandleConnect
  <2>2. CASE HandleName(d) \/ HandleDisconnect(d)
    <3>1. full' = full /\ (qu' = qu \/ qu' = Append(qu, <<d, 0>>)) /\ <<d, 0>> \in Entries
      BY <2>2 DEF HandleName, HandleDisconnect, Entries
    <3> QED BY <1>0, <3>1, AnnouncedAppend
  <2>3. CASE HandleEvent(d)
    <3>1. PICK e \in Events :
            LET q == Append(qu, <<d, e>>) IN
            /\ qu' = IF Len(q) > Cap THEN Tail(q) ELSE q
            /\ full' = (full \/ Len(q) > Cap)
      BY <2>3 DEF HandleEvent
    <3>2. <<d, e>> \in Entries
      BY DEF Entries, Events
    <3>3. ~full' => qu' = Append(qu, <<d, e>>)
      BY <3>1
    <3>4. full => full'
      BY <3>1
    <3> QED BY <1>0, <3>2, <3>3, <3>4, AnnouncedAppend
  <2>4. CASE OnReceive(d) \/ OnConnect(d) \/ OnDisconnect(d)
    <3>1. PICK e : qu # <<>> /\ Head(qu) = <<d, e>> /\ qu' = Tail(qu)
      BY <2>4 DEF OnReceive, OnConnect, OnDisconnect, Take
    <3>2. Head(qu)[1] # c
      BY <3>1
    <3>3. full' = full
      BY <2>4 DEF OnReceive, OnConnect, OnDisconnect
    <3> QED BY <1>0, <3>1, <3>2, <3>3, AnnouncedTail
  <2> QED BY <2>1, <2>2, <2>3, <2>4 DEF ConnStep
<1> QED BY <1>1, <1>2, AheadKept

\* An event of c at the head of the queue: its marker is not behind.
LEMMA HeadFirst ==
  ASSUME NEW q \in Seq(Entries), q # <<>>, NEW c, NEW e, e # 0, Head(q) = <<c, e>>
  PROVE  ~Announced(q, c)
<1>1. 1 \in DOMAIN q /\ q[1] = <<c, e>> /\ \A i \in DOMAIN q : i <= 1 => i = 1
  OBVIOUS
<1>2. q[1][1] = c /\ q[1] # <<c, 0>>
  BY <1>1
<1> QED BY <1>1, <1>2 DEF Announced

LEMMA AheadOwn ==
  ASSUME TypeOK, NEW c \in Conns, ConnInv(c), HailConn(c), NameConn(c), Ahead(c), ConnStep(c)
  PROVE  Ahead(c)'
<1> USE DataReceiverAssumption
<1>0. /\ qu \in Seq(Entries) /\ <<c, 0>> \in Entries /\ to[c] \in Seq(Packets)
      /\ state \in [Conns -> {0, 1}] /\ hails \in [Conns -> Nat] /\ to \in [Conns -> Seq(Packets)]
  BY DEF TypeOK, Entries
<1>1. CASE Open(c)
  <2>1. state[c] = 0 /\ state' = state
    BY <1>1 DEF Open, HailConn, Markers, Unnamed, Early
  <2> QED BY <2>1 DEF Ahead
<1>2. CASE SendName(c) \/ SendEvent(c) \/ Close(c) \/ HandleConnect(c)
  <2>1. UNCHANGED <<run, server, full, born, state, qu, hails>>
    BY <1>2 DEF SendName, SendEvent, Close, HandleConnect, lifeVars, userVars
  <2> QED BY <2>1, AheadKept
<1>3. CASE HandleName(c)
  <2>1. to[c] # <<>> /\ IsName(Head(to[c]))
    BY <1>3 DEF HandleName, Packet, IsName
  <2>2. 1 \in DOMAIN to[c] /\ Head(to[c]) = to[c][1]
    BY <1>0, <2>1
  <2>3. Unnamed(to[c], phase[c])
    BY <2>1, <2>2 DEF Unnamed
  <2>4. state[c] = 0 /\ \A i \in DOMAIN qu : qu[i] # <<c, 0>>
    BY <2>3 DEF HailConn, Markers
  <2>5. ASSUME NEW i \in DOMAIN qu
        PROVE  qu[i][1] # c
    <3>1. qu[i] \in Entries /\ qu[i] # <<c, 0>>
      BY <1>0, <2>4
    <3>2. qu[i][1] = c => qu[i][2] # 0
      BY <3>1 DEF Entries
    <3>3. qu[i][1] = c => qu[i][2] <= 0
      BY <2>3 DEF ConnInv, InQueue, NameConn
    <3>4. qu[i][2] \in Nat
      BY <3>1 DEF Entries
    <3> QED BY <3>2, <3>3, <3>4
  <2>6. CASE qu' = Append(qu, <<c, 0>>)
    <3>1. /\ Len(qu) + 1 \in DOMAIN qu' /\ qu'[Len(qu) + 1] = <<c, 0>>
          /\ \A j \in DOMAIN qu' : j = Len(qu) + 1 \/ (j \in DOMAIN qu /\ qu'[j] = qu[j])
          /\ Len(qu) + 1 <= Len(qu) + 1
      BY <1>0, <2>6
    <3>2. \A j \in DOMAIN qu' : qu'[j][1] = c => j = Len(qu) + 1
      BY <2>5, <3>1
    <3>3. Announced(qu', c)
      BY <3>1, <3>2 DEF Announced
    <3> QED BY <3>3 DEF Ahead
  <2>7. CASE state' = state
    BY <2>4, <2>7 DEF Ahead
  <2> QED BY <1>3, <2>6, <2>7 DEF HandleName
<1>4. CASE HandleEvent(c)
  <2>1. UNCHANGED <<run, server, born, state, hails>>
    BY <1>4 DEF HandleEvent, lifeVars, sendVars, userVars
  <2>2. PICK e \in Events :
          LET q == Append(qu, <<c, e>>) IN
          /\ qu' = IF Len(q) > Cap THEN Tail(q) ELSE q
          /\ full' = (full \/ Len(q) > Cap)
    BY <1>4 DEF HandleEvent
  <2>3. <<c, e>> \in Entries
    BY DEF Entries, Events
  <2>4. ~full' => qu' = Append(qu, <<c, e>>)
    BY <2>2
  <2>5. full => full'
    BY <2>2
  <2>6. ~full' => (Announced(qu, c) => Announced(qu', c))
    BY <1>0, <2>3, <2>4, AnnouncedAppend
  <2> QED BY <2>1, <2>5, <2>6, AheadKept
<1>5. CASE HandleDisconnect(c)
  <2>1. state'[c] = 0
    BY <1>0, <1>5 DEF HandleDisconnect
  <2> QED BY <2>1 DEF Ahead
<1>6. CASE OnReceive(c)
  <2>1. UNCHANGED <<run, server, full, born, state, hails>>
    BY <1>6 DEF OnReceive, lifeVars, sendVars
  <2>2. PICK e \in Events : qu # <<>> /\ Head(qu) = <<c, e>>
    BY <1>6 DEF OnReceive, Take
  <2>3. e # 0
    BY DEF Events
  <2>4. ~Announced(qu, c)
    BY <1>0, <2>2, <2>3, HeadFirst
  <2> QED BY <2>1, <2>4, AheadKept
<1>7. CASE OnConnect(c)
  <2>1. hails'[c] = hails[c] + 1 /\ hails[c] \in Nat
    BY <1>0, <1>7 DEF OnConnect
  <2>2. hails'[c] # 0
    BY <2>1
  <2> QED BY <2>2 DEF Ahead
<1>8. CASE OnDisconnect(c)
  <2>1. state[c] = 0 /\ state' = state
    BY <1>8 DEF OnDisconnect
  <2> QED BY <2>1 DEF Ahead
<1> QED BY <1>1, <1>2, <1>3, <1>4, <1>5, <1>6, <1>7, <1>8 DEF ConnStep

LEMMA NameOther ==
  ASSUME TypeOK, NEW c \in Conns, NameConn(c), NEW d \in Conns, ConnStep(d), d # c
  PROVE  NameConn(c)'
<1>1. /\ to'[c] = to[c] /\ phase'[c] = phase[c] /\ sent'[c] = sent[c] /\ hails'[c] = hails[c]
  BY DEF ConnStep, TypeOK, lifeVars, sendVars, userVars, Open, SendName, SendEvent, Close, Packet,
         HandleConnect, HandleName, HandleEvent, HandleDisconnect, OnReceive, OnConnect, OnDisconnect,
         AnswerFails
<1> QED BY <1>1 DEF NameConn, Names, Unnamed

LEMMA NameOwn ==
  ASSUME TypeOK, NEW c \in Conns, Born(c), HailConn(c), NameConn(c), ConnStep(c)
  PROVE  NameConn(c)'
<1> USE DataReceiverAssumption
<1>0. /\ qu \in Seq(Entries) /\ to[c] \in Seq(Packets) /\ Naming(to[c], phase[c])
      /\ to \in [Conns -> Seq(Packets)] /\ hails \in [Conns -> Nat]
      /\ phase \in [Conns -> {"absent", "calling", "greeted", "naming", "up", "gone"}]
      /\ sent \in [Conns -> 0 .. MaxEvents]
  BY DEF TypeOK, Entries, HailConn
<1>1. CASE Open(c)
  <2>1. /\ phase[c] = "absent" /\ phase'[c] = "calling"
        /\ sent' = sent /\ hails' = hails
    BY <1>0, <1>1 DEF Open, userVars
  <2>2. sent[c] = 0
    BY <2>1 DEF Born
  <2> QED BY <2>1, <2>2 DEF NameConn
<1>2. CASE SendName(c)
  <2>1. /\ phase[c] = "greeted" /\ phase'[c] = "naming"
        /\ sent' = sent /\ hails' = hails
    BY <1>0, <1>2 DEF SendName, userVars
  <2>2. sent[c] = 0
    BY <2>1 DEF NameConn, Unnamed, Early
  <2> QED BY <2>1, <2>2 DEF NameConn
<1>3. CASE SendEvent(c)
  <2> DEFINE p == <<"EVENT", sent[c] + 1>>
  <2>1. /\ phase[c] = "up" /\ phase' = phase /\ hails' = hails
        /\ to'[c] = Append(to[c], p) /\ p \in Packets /\ ~IsName(p)
    BY <1>0, <1>3 DEF SendEvent, userVars, Packets, IsName
  <2> HIDE DEF p
  <2>2. \A i \in DOMAIN to'[c] : \/ i \in DOMAIN to[c] /\ to'[c][i] = to[c][i]
                                 \/ to'[c][i] = p
    BY <1>0, <2>1
  <2>3. ~Names(to'[c])
    BY <2>1, <2>2 DEF NameConn, Names
  <2> QED BY <2>1, <2>3 DEF NameConn, Unnamed, Names, Early
<1>4. CASE Close(c)
  <2>1. /\ phase'[c] = "gone" /\ hails' = hails /\ sent' = sent
        /\ to'[c] = Append(to[c], <<"BYE", 0>>) /\ <<"BYE", 0>> \in Packets /\ ~IsName(<<"BYE", 0>>)
    BY <1>0, <1>4 DEF Close, userVars, Packets, IsName
  <2>2. \A i \in DOMAIN to'[c] : \/ i \in DOMAIN to[c] /\ to'[c][i] = to[c][i]
                                 \/ to'[c][i] = <<"BYE", 0>>
    BY <1>0, <2>1
  <2>3. Unnamed(to'[c], phase'[c]) => Unnamed(to[c], phase[c])
    BY <2>1, <2>2 DEF Unnamed, Early
  <2> QED BY <2>1, <2>3 DEF NameConn
<1>5. CASE HandleConnect(c) \/ HandleName(c) \/ HandleEvent(c) \/ HandleDisconnect(c)
  <2>1. /\ to[c] # <<>> /\ to'[c] = Tail(to[c]) /\ hails' = hails /\ sent' = sent
    BY <1>0, <1>5 DEF HandleConnect, HandleName, HandleEvent, HandleDisconnect, Packet, userVars, sendVars
  <2>2. /\ Unnamed(Tail(to[c]), phase[c]) => Unnamed(to[c], phase[c])
        /\ IsName(Head(to[c])) => ~Unnamed(Tail(to[c]), phase[c])
    BY <1>0, <2>1, NamingTail
  <2>3. \A i \in DOMAIN Tail(to[c]) : i + 1 \in DOMAIN to[c] /\ Tail(to[c])[i] = to[c][i + 1]
    BY <1>0, <2>1
  <2>4. Names(to'[c]) => Names(to[c])
    BY <2>1, <2>3 DEF Names
  <2>5. CASE phase'[c] = phase[c]
    BY <2>1, <2>2, <2>4, <2>5 DEF NameConn
  <2>6. CASE HandleConnect(c) /\ phase'[c] # phase[c]
    <3>1. phase[c] = "calling" /\ phase'[c] = "greeted"
      BY <1>0, <2>6 DEF HandleConnect
    <3> QED BY <2>1, <3>1 DEF NameConn, Unnamed, Early
  <2>7. CASE HandleName(c) /\ phase'[c] # phase[c]
    <3>1. phase'[c] = "up" /\ IsName(Head(to[c]))
      BY <1>0, <2>7 DEF HandleName, Packet, IsName
    <3>2. ~Unnamed(Tail(to[c]), phase[c])
      BY <2>2, <3>1
    <3> QED BY <2>1, <3>1, <3>2 DEF NameConn, Names, Unnamed, Early
  <2>8. HandleEvent(c) \/ HandleDisconnect(c) => phase' = phase
    BY DEF HandleEvent, HandleDisconnect, sendVars
  <2> QED BY <1>5, <2>5, <2>6, <2>7, <2>8
<1>6. CASE OnReceive(c) \/ OnDisconnect(c)
  BY <1>6 DEF OnReceive, OnDisconnect, sendVars, NameConn, Names, Unnamed
<1>7. CASE OnConnect(c)
  <2>1. /\ UNCHANGED <<to, phase, sent>> /\ hails'[c] = hails[c] + 1
        /\ state[c] = 1 /\ qu # <<>> /\ Head(qu) = <<c, 0>>
    BY <1>0, <1>7 DEF OnConnect, Take, sendVars
  <2>2. 1 \in DOMAIN qu /\ qu[1] = <<c, 0>>
    BY <1>0, <2>1
  <2>3. hails[c] = 0
    BY <2>1, <2>2 DEF HailConn, Markers
  <2> QED BY <2>1, <2>3 DEF NameConn, Names, Unnamed
<1> QED BY <1>1, <1>2, <1>3, <1>4, <1>5, <1>6, <1>7 DEF ConnStep

LEMMA FullStays ==
  ASSUME StillStep
  PROVE  full' = full
BY DEF StillStep, CallListen, CallStopListen, StopListenReturns, StopListenThrows, ReceivingEnds,
       ForwardingGoesOn, WaitForEvents, Wake, Oversleep, ForwardingEnds, ForwardingEndsBadly,
       DeamonLooks, WatchReceiving, WatchForwarding, CloseReceiving

LEMMA FirstStep == ReceiverInv /\ HailInv /\ FirstInv /\ [Next]_vars => FirstInv'
<1> SUFFICES ASSUME ReceiverInv, HailInv, FirstInv, [Next]_vars, NEW c \in Conns
             PROVE  NameConn(c)' /\ Ahead(c)'
  BY FirstParts DEF FirstInv, NameConn, Ahead, Names
<1>0. TypeOK /\ NameConn(c) /\ Ahead(c) /\ HailConn(c) /\ ConnInv(c) /\ Born(c)
  BY FirstParts, HailParts, InvParts DEF ConnInv
<1>1. CASE UNCHANGED <<to, phase, sent, hails, server, full, born, run, state, qu>>
  <2>1. NameConn(c)'
    BY <1>0, <1>1 DEF NameConn, Names, Unnamed
  <2> QED BY <1>0, <1>1, <2>1, AheadKept
<1>2. CASE UNCHANGED vars
  BY <1>1, <1>2 DEF vars, lifeVars, sendVars, userVars
<1>3. CASE StillStep
  BY <1>1, <1>3, StillIsStill, FullStays DEF Still
<1>4. CASE Listen
  <2>1. UNCHANGED <<to, phase, sent, hails, full, born, state, qu>>
    BY <1>4 DEF Listen, sendVars, userVars
  <2>2. CASE server
    BY <1>1, <1>4, <2>1, <2>2 DEF Listen, lifeVars
  <2>3. CASE ~server
    <3>1. run' = run + 1
      BY <1>4, <2>3 DEF Listen
    <3>2. born[c] <= run /\ born[c] \in Nat /\ run \in Nat
      BY <1>0 DEF Born, TypeOK
    <3>3. born'[c] # run'
      BY <2>1, <3>1, <3>2
    <3>4. NameConn(c)'
      BY <1>0, <2>1 DEF NameConn, Names, Unnamed
    <3> QED BY <3>3, <3>4 DEF Ahead
  <2> QED BY <2>2, <2>3
<1>5. CASE CloseForwarding
  <2>1. /\ UNCHANGED <<run, full, born, sent, state, hails>>
        /\ \/ UNCHANGED <<server, phase, to, qu>>
           \/ ~server' /\ Disconnected
    BY <1>5 DEF CloseForwarding, userVars
  <2>2. CASE ~server' /\ Disconnected
    <3>1. to'[c] = <<>> /\ phase'[c] \in {"absent", "gone"} /\ (phase'[c] = "absent" => phase[c] = "absent")
      BY <2>2 DEF Disconnected
    <3>2. DOMAIN to'[c] = {}
      BY <3>1
    <3>3. Unnamed(to'[c], phase'[c]) => Unnamed(to[c], phase[c])
      BY <3>1, <3>2 DEF Unnamed, Early
    <3>4. NameConn(c)'
      BY <1>0, <2>1, <3>1, <3>3 DEF NameConn
    <3> QED BY <2>2, <3>4 DEF Ahead
  <2> QED BY <1>1, <2>1, <2>2
<1>6. ASSUME NEW d \in Conns, ConnStep(d)
      PROVE  NameConn(c)' /\ Ahead(c)'
  BY <1>0, <1>6, NameOther, NameOwn, AheadOther, AheadOwn
<1> QED BY <1>2, <1>3, <1>4, <1>5, <1>6, NextCases

\* OnConnect comes before the first event of a connection, unless it has left already
\* or the queue was full in between (DataReceiver.cc:83-102, 136-151).
THEOREM HailComesFirst == Spec => HailedFirst
<1> DEFINE A == \A c \in Conns : last'[c] # last[c] => hails[c] = 1 \/ state[c] = 0 \/ full
<1>1. ReceiverInv /\ FirstInv /\ [Next]_vars => [A]_vars
  <2> SUFFICES ASSUME ReceiverInv, FirstInv, Next, NEW c \in Conns, last'[c] # last[c],
                      state[c] # 0, ~full
               PROVE  hails[c] = 1
    OBVIOUS
  <2>0. TypeOK /\ Life /\ ConnInv(c) /\ NameConn(c) /\ Ahead(c)
    BY FirstParts, InvParts
  <2>1. PICK d \in Conns : ConnStep(d)
    <3>1. StillStep => last' = last
      BY StillIsStill DEF Still
    <3>2. Listen \/ CloseForwarding => last' = last
      BY DEF Listen, CloseForwarding, userVars
    <3> QED BY <3>1, <3>2, NextCases
  <2>2. OnReceive(c)
    <3>1. ConnStep(d) /\ ~OnReceive(d) => last' = last
      BY DEF ConnStep, userVars, Open, SendName, SendEvent, Close, HandleConnect, HandleName,
             HandleEvent, HandleDisconnect, OnConnect, OnDisconnect
    <3>2. OnReceive(d) /\ d # c => last'[c] = last[c]
      BY <2>0 DEF OnReceive, TypeOK
    <3> QED BY <2>1, <3>1, <3>2
  <2>3. PICK e \in Events : fwd = "go" /\ qu # <<>> /\ Head(qu) = <<c, e>>
    BY <2>2 DEF OnReceive, Take
  <2>4. qu \in Seq(Entries) /\ e # 0
    BY <2>0 DEF TypeOK, Entries, Events
  <2>5. ~Announced(qu, c)
    BY <2>3, <2>4, HeadFirst
  <2>6. server
    BY <2>0, <2>3 DEF Life, CleanSlate
  <2>7. born[c] = run
    <3>1. 1 \in DOMAIN qu /\ qu[1][1] = c
      BY <2>3, <2>4
    <3> QED BY <2>0, <3>1 DEF ConnInv, Born
  <2>8. state[c] = 1 /\ hails[c] \in {0, 1}
    BY <2>0 DEF TypeOK, NameConn
  <2> QED BY <2>0, <2>5, <2>6, <2>7, <2>8 DEF Ahead
<1>2. ReceiverInv /\ HailInv /\ FirstInv /\ [Next]_vars => FirstInv'
  BY FirstStep
<1>3. Spec => []FirstInv
  BY <1>2, FirstInit, ReceiverInvariant, HailedOnce, PTL DEF Spec
<1> QED BY <1>1, <1>3, ReceiverInvariant, PTL DEF Spec, HailedFirst
=============================================================================
