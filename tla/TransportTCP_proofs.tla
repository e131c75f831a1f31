------------------------ MODULE TransportTCP_proofs ------------------------
(***************************************************************************)
(* For any connections, packets and pieces: the sockets match m_conn, a    *)
(* packet strays only from a closed connection, and what the callback is   *)
(* given implements PacketChannel.                                         *)
(***************************************************************************)
EXTENDS TransportTCPInv, SequenceTheorems, TLAPS

-----------------------------------------------------------------------------
(***************************************************************************)
(* Packets on the wire.                                                    *)
(***************************************************************************)

LEMMA HighOf ==
  ASSUME NEW n \in Nat
  PROVE  High(n) \in Nat /\ n % 256 \in Bytes /\ n = (n % 256) + 256 * High(n)
BY SMT DEF High, Bytes

LEMMA DigitsOfLength ==
  ASSUME NEW n \in Nat, Short(n)
  PROVE  /\ Digits(n) \in Seq(Bytes) /\ Len(Digits(n)) = Header
         /\ Length(Digits(n)) = n
<1>1. High(n) \in Nat /\ n % 256 \in Bytes /\ n = (n % 256) + 256 * High(n)
  BY HighOf
<1>2. /\ High(High(n)) \in Nat /\ High(n) % 256 \in Bytes
      /\ High(n) = (High(n) % 256) + 256 * High(High(n))
  BY <1>1, HighOf
<1>3. /\ High(High(High(n))) \in Nat /\ High(High(n)) % 256 \in Bytes
      /\ High(High(n)) = (High(High(n)) % 256) + 256 * High(High(High(n)))
  BY <1>2, HighOf
<1>4. High(High(High(n))) % 256 \in Bytes /\ High(High(High(n))) % 256 = High(High(High(n)))
  <2>1. \A m \in Nat : m < 128 => m % 256 = m /\ m \in Bytes
    BY SMT DEF Bytes
  <2> QED BY <2>1, <1>3 DEF Short
<1>5. Digits(n) \in Seq(Bytes) /\ Len(Digits(n)) = Header
  BY <1>1, <1>2, <1>3, <1>4, SMT DEF Digits, Header
<1>6. /\ Digits(n)[1] = n % 256 /\ Digits(n)[2] = High(n) % 256
      /\ Digits(n)[3] = High(High(n)) % 256 /\ Digits(n)[4] = High(High(High(n)))
  BY <1>4, SMT DEF Digits
<1>7. \A m \in Nat : m % 256 \in Nat
  BY SMT
<1> QED BY <1>1, <1>2, <1>3, <1>5, <1>6, <1>7, SMT DEF Length

\* A packet takes Header bytes more on the wire, and they tell its length.
LEMMA EncodeProperties ==
  ASSUME NEW p \in Packets
  PROVE  /\ p \in Seq(Bytes) /\ Short(Len(p))
         /\ Encode(p) \in Seq(Bytes) /\ Len(Encode(p)) = Header + Len(p)
         /\ \A j \in 1 .. Header : Encode(p)[j] = Digits(Len(p))[j]
         /\ \A j \in 1 .. Len(p) : Encode(p)[Header + j] = p[j]
<1> Header \in Nat
  BY DEF Header
<1>1. p \in Seq(Bytes) /\ Short(Len(p))
  BY TransportAssumption DEF Bytes, Short
<1>2. Digits(Len(p)) \in Seq(Bytes) /\ Len(Digits(Len(p))) = Header
  BY <1>1, DigitsOfLength
<1> QED BY <1>1, <1>2 DEF Encode

LEMMA LengthOfNat ==
  ASSUME NEW b \in Seq(Bytes)
  PROVE  LengthOf(b) \in Nat
<1>1. ASSUME Len(b) >= Header
      PROVE  Length(b) \in Nat
  <2>1. \A i \in 1 .. Header : b[i] \in Bytes
    BY <1>1, ElementOfSeq DEF Header
  <2>2. b[1] \in Nat /\ b[2] \in Nat /\ b[3] \in Nat /\ b[4] \in Nat
    <3>1. \A x \in Bytes : x \in Nat
      BY DEF Bytes
    <3> QED BY <2>1, <3>1 DEF Header
  <2>3. \A x, y \in Nat : x + 256 * y \in Nat
    OBVIOUS
  <2>4. b[3] + 256 * b[4] \in Nat
    BY <2>2, <2>3, Zenon
  <2>5. b[2] + 256 * (b[3] + 256 * b[4]) \in Nat
    BY <2>2, <2>3, <2>4, Zenon
  <2> QED BY <2>2, <2>3, <2>5, Zenon DEF Length
<1> QED BY <1>1 DEF LengthOf

\* The first bytes of a packet, if they are all there, tell its length.
LEMMA LengthOfEncoded ==
  ASSUME NEW p \in Packets, NEW b \in Seq(Bytes), Len(b) >= Header,
         \A j \in 1 .. Header : b[j] = Encode(p)[j]
  PROVE  LengthOf(b) = Len(p)
<1>1. Len(p) \in Nat /\ Short(Len(p)) /\ \A j \in 1 .. Header : b[j] = Digits(Len(p))[j]
  BY EncodeProperties
<1>2. b[1] = Digits(Len(p))[1] /\ b[2] = Digits(Len(p))[2]
      /\ b[3] = Digits(Len(p))[3] /\ b[4] = Digits(Len(p))[4]
  BY <1>1 DEF Header
<1>3. Length(b) = Length(Digits(Len(p)))
  BY <1>2 DEF Length
<1> QED BY <1>1, <1>3, DigitsOfLength DEF LengthOf

-----------------------------------------------------------------------------
(***************************************************************************)
(* Types, in parts that change together.                                   *)
(***************************************************************************)

Entries == [type : {"CONNECT", "RECEIVE", "DISCONNECT"}, packet : Seq(Bytes)]

Queued == Conns \X Nat

TypePeers ==
  /\ peer \in [Conns -> {"new", "up", "gone"}]
  /\ sent \in [Conns -> Seq(Packets)]
  /\ stream \in [Conns -> Seq(Bytes)]
  /\ ends \in [Conns -> Seq(Nat)]

TypeSockets ==
  /\ backlog \in Seq(Conns)
  /\ sock \in [Fds -> Conns \cup {NoConn}]
  /\ conn \subseteq Conns
  /\ fd \in [Conns -> Fds]

TypeBuffers ==
  /\ taken \in [Conns -> Nat]
  /\ buf \in [Conns -> Seq(Bytes)]
  /\ len \in [Conns -> Nat]

TypeEvents ==
  /\ events \in Seq(Queued)
  /\ log \in [Conns -> Seq(Entries)]
  /\ handled \in [Conns -> Nat]

TypeThread ==
  /\ pc \in {"select", "scan", "parse", "dispatch", "dead"}
  /\ ready \subseteq Fds
  /\ cur \in Conns \cup {NoConn} /\ (pc = "parse" => cur # NoConn)

TypeMail ==
  /\ state \in [Conns -> {0, 1}]
  /\ mail \subseteq Conns \X Conns
  /\ shut \subseteq Conns

LEMMA TypeParts ==
  TypeOK <=> /\ TypePeers /\ TypeSockets /\ TypeBuffers /\ TypeEvents
             /\ TypeThread /\ TypeMail /\ done \in BOOLEAN
BY Zenon DEF TypeOK, TypePeers, TypeSockets, TypeBuffers, TypeEvents, TypeThread, TypeMail,
             Entries, Queued

LEMMA TypePartsNext ==
  TypeOK' <=> /\ TypePeers' /\ TypeSockets' /\ TypeBuffers' /\ TypeEvents'
              /\ TypeThread' /\ TypeMail' /\ done' \in BOOLEAN
BY Zenon DEF TypeOK, TypePeers, TypeSockets, TypeBuffers, TypeEvents, TypeThread, TypeMail,
             Entries, Queued

LEMMA TypeInit == Init => TypeOK
<1> SUFFICES ASSUME Init PROVE TypeOK
  OBVIOUS
<1> USE TransportAssumption DEF Init
<1>1. TypePeers
  BY DEF TypePeers
<1>2. TypeSockets
  BY DEF TypeSockets
<1>3. TypeBuffers
  BY DEF TypeBuffers
<1>4. TypeEvents
  BY DEF TypeEvents
<1>5. TypeThread
  BY DEF TypeThread
<1>6. TypeMail
  BY DEF TypeMail
<1>7. done \in BOOLEAN
  BY Zenon
<1> QED BY <1>1, <1>2, <1>3, <1>4, <1>5, <1>6, <1>7, TypeParts

LEMMA PushTypes ==
  ASSUME TypeEvents, NEW c \in Conns, NEW event \in Entries, Push(c, event)
  PROVE  /\ events' \in Seq(Queued) /\ log' \in [Conns -> Seq(Entries)]
<1>1. <<c, Len(log[c]) + 1>> \in Queued /\ Append(log[c], event) \in Seq(Entries)
  BY DEF TypeEvents, Queued
<1>2. Append(events, <<c, Len(log[c]) + 1>>) \in Seq(Queued)
  BY <1>1 DEF TypeEvents
<1> QED BY <1>1, <1>2 DEF TypeEvents, Push

LEMMA ChannelEntries ==
  /\ Channel!Connect \in Entries /\ Channel!Disconnect \in Entries
  /\ \A p \in Seq(Bytes) : Channel!Receive(p) \in Entries
<1>1. <<>> \in Seq(Bytes)
  OBVIOUS
<1> QED BY <1>1 DEF Channel!Connect, Channel!Disconnect, Channel!Receive, Entries

LEMMA PopTypes ==
  ASSUME TypeEvents, NEW c \in Conns, NEW types, Pop(c, types)
  PROVE  TypeEvents'
<1>1. events # <<>> /\ events' = Tail(events) /\ log' = log
      /\ handled' = [handled EXCEPT ![c] = @ + 1]
  BY DEF Pop
<1>2. events' \in Seq(Queued)
  BY <1>1, HeadTailProperties DEF TypeEvents
<1> QED BY <1>1, <1>2 DEF TypeEvents

LEMMA CloseTypes ==
  ASSUME TypeSockets, NEW c \in Conns, Close(c)
  PROVE  /\ sock' \in [Fds -> Conns \cup {NoConn}]
         /\ conn' \subseteq Conns /\ fd' \in [Conns -> Fds]
BY DEF TypeSockets, Close

LEMMA MatchingTypes ==
  ASSUME TypeSockets, NEW c \in Conns
  PROVE  Matching(c) \subseteq Conns
BY DEF TypeSockets, Matching

LEMMA SendTypes ==
  ASSUME TypeSockets, TypeMail, NEW c \in Conns, NEW b, SendPacket(c, b)
  PROVE  mail' \subseteq Conns \X Conns
BY MatchingTypes DEF TypeMail, SendPacket, Recipients

\* The steps sorted by what they touch.
PeerStep ==
  \E c \in Conns :
    \/ PeerConnects(c)
    \/ \E p \in Packets : PeerSends(c, p) \/ \E n \in Cuts : PeerLeaves(c, p, n)

\* Only the thread's own variables.
ThreadStep == SelectTimesOut \/ Select \/ ParseEnds \/ RoundEnds \/ DispatchEnds

PopStep(c) ==
  \/ Greet(c) \/ Refuse(c) \/ Identify(c) \/ Deliver(c) \/ Forget(c) \/ CallbackThrows(c)

LEMMA NextCases ==
  Next <=> \/ PeerStep \/ ThreadStep \/ GetPacket
           \/ \E f \in Fds : SelectAccepts(f)
           \/ \E f \in Fds, c \in Conns : ReadSocket(f, c) \/ SocketEnds(f, c)
           \/ \E c \in Conns : PopStep(c) \/ SendCommand(c)
BY Zenon DEF Next, Poll, Dispatch, Peers, PeerStep, ThreadStep, PopStep

LEMMA ReadFrom ==
  ASSUME SocketsMatch, NEW f \in Fds, NEW c \in Conns, Turn(f, c)
  PROVE  sock[f] = c /\ c \in conn /\ fd[c] = f
BY DEF SocketsMatch, Turn

\* How many bytes one recv takes.
LEMMA TakenMore ==
  ASSUME TypePeers, TypeBuffers, NEW c \in Conns, NEW n \in Pieces,
         taken[c] < Len(stream[c])
  PROVE  LET t == Smaller(taken[c] + n, Len(stream[c]))
         IN  t \in Nat /\ taken[c] < t /\ t <= Len(stream[c])
             /\ SubSeq(stream[c], taken[c] + 1, t) \in Seq(Bytes)
<1>1. taken[c] \in Nat /\ stream[c] \in Seq(Bytes) /\ Len(stream[c]) \in Nat /\ n \in Nat \ {0}
  BY TransportAssumption DEF TypePeers, TypeBuffers
<1> DEFINE t == Smaller(taken[c] + n, Len(stream[c]))
<1>2. t \in Nat /\ taken[c] < t /\ t <= Len(stream[c])
  BY <1>1 DEF Smaller
<1>3. SubSeq(stream[c], taken[c] + 1, t) \in Seq(Bytes)
  <2>1. \A i \in taken[c] + 1 .. t : stream[c][i] \in Bytes
    BY <1>1, <1>2, ElementOfSeq
  <2> HIDE DEF t
  <2> QED BY <1>1, <1>2, <2>1, SubSeqProperties
<1> QED BY <1>2, <1>3

LEMMA PeersTypes ==
  ASSUME TypeOK, PeerStep
  PROVE  TypeOK'
<1> USE TypeParts
<1>1. TypePeers /\ TypeSockets
  OBVIOUS
<1>2. /\ UNCHANGED <<sock, conn, fd, taken, buf, len, events, log, handled, pc, ready, cur>>
      /\ UNCHANGED <<done, state, mail, shut>>
  BY DEF PeerStep, PeerConnects, PeerSends, PeerLeaves, connVars, bufVars, pollVars
<1>3. TypePeers' /\ backlog' \in Seq(Conns)
  <2>1. ASSUME NEW c \in Conns, PeerConnects(c)
        PROVE  TypePeers' /\ backlog' \in Seq(Conns)
    BY <1>1, <2>1 DEF PeerConnects, TypePeers, TypeSockets
  <2>2. ASSUME NEW c \in Conns, NEW p \in Packets, PeerSends(c, p)
        PROVE  TypePeers' /\ backlog' \in Seq(Conns)
    <3>1. Append(sent[c], p) \in Seq(Packets)
      BY <1>1 DEF TypePeers
    <3>2. stream[c] \o Encode(p) \in Seq(Bytes)
      BY <1>1, EncodeProperties DEF TypePeers
    <3>3. stream' \in [Conns -> Seq(Bytes)]
      BY <1>1, <2>2, <3>2 DEF PeerSends, TypePeers
    <3>4. Append(ends[c], Len(stream'[c])) \in Seq(Nat)
      BY <1>1, <3>3 DEF TypePeers
    <3> QED BY <1>1, <2>2, <3>1, <3>3, <3>4 DEF PeerSends, TypePeers, TypeSockets
  <2>3. ASSUME NEW c \in Conns, NEW p \in Packets, NEW n \in Cuts, PeerLeaves(c, p, n)
        PROVE  TypePeers' /\ backlog' \in Seq(Conns)
    <3>1. n \in Nat /\ n < Len(Encode(p)) /\ Encode(p) \in Seq(Bytes)
      BY <2>3, EncodeProperties, TransportAssumption DEF PeerLeaves
    <3>2. SubSeq(Encode(p), 1, n) \in Seq(Bytes)
      BY <3>1
    <3>3. stream[c] \o SubSeq(Encode(p), 1, n) \in Seq(Bytes)
      BY <1>1, <3>2 DEF TypePeers
    <3> QED BY <1>1, <2>3, <3>3 DEF PeerLeaves, TypePeers, TypeSockets
  <2> QED BY <2>1, <2>2, <2>3 DEF PeerStep
<1>4. TypeSockets'
  BY <1>1, <1>2, <1>3 DEF TypeSockets
<1>5. TypeBuffers' /\ TypeEvents' /\ TypeThread' /\ TypeMail' /\ done' \in BOOLEAN
  BY <1>2, Zenon DEF TypeBuffers, TypeEvents, TypeThread, TypeMail
<1> QED BY <1>3, <1>4, <1>5, TypePartsNext

LEMMA ThreadTypes ==
  ASSUME TypeOK, ThreadStep
  PROVE  TypeOK'
<1> USE TypeParts
<1>1. UNCHANGED <<peerVars, taken, backlog, connVars, state, bufVars, events, log, handled,
                  mail, shut>>
  BY Zenon DEF ThreadStep, SelectTimesOut, Select, ParseEnds, RoundEnds, DispatchEnds
<1>2. TypePeers' /\ TypeSockets' /\ TypeBuffers' /\ TypeEvents' /\ TypeMail'
  BY <1>1, Zenon DEF TypePeers, TypeSockets, TypeBuffers, TypeEvents, TypeMail,
                     peerVars, connVars, bufVars
<1>3. TypeThread'
  BY DEF TypeThread, ThreadStep, SelectTimesOut, Select, ParseEnds, RoundEnds, DispatchEnds,
         Readable
<1>4. done' \in BOOLEAN
  BY Zenon DEF ThreadStep, SelectTimesOut, Select, ParseEnds, RoundEnds, DispatchEnds
<1> QED BY <1>2, <1>3, <1>4, TypePartsNext

LEMMA AcceptTypes ==
  ASSUME TypeOK, NEW f \in Fds, SelectAccepts(f)
  PROVE  TypeOK'
<1> USE TypeParts
<1>1. /\ UNCHANGED <<peer, sent, stream, ends, taken, buf, len, handled, state, mail, shut>>
      /\ UNCHANGED <<cur, done>>
  BY DEF SelectAccepts, peerVars, bufVars
<1>2. TypePeers' /\ TypeBuffers' /\ TypeMail' /\ done' \in BOOLEAN
  BY <1>1, Zenon DEF TypePeers, TypeBuffers, TypeMail
<1>3. Head(backlog) \in Conns /\ Tail(backlog) \in Seq(Conns)
  BY HeadTailProperties DEF SelectAccepts, TypeSockets
<1>4. TypeSockets' /\ TypeThread'
  BY <1>3 DEF SelectAccepts, TypeSockets, TypeThread, Readable
<1>5. TypeEvents'
  BY <1>1, <1>3, PushTypes, ChannelEntries DEF SelectAccepts, TypeEvents
<1> QED BY <1>2, <1>4, <1>5, TypePartsNext

LEMMA ReadTypes ==
  ASSUME TypeOK, SocketsMatch, NEW f \in Fds, NEW c \in Conns, ReadSocket(f, c)
  PROVE  TypeOK'
<1> USE TypeParts
<1>1. /\ UNCHANGED <<peer, sent, stream, ends, backlog, sock, conn, fd, events, log, handled>>
      /\ UNCHANGED <<state, mail, shut, done>>
  BY DEF ReadSocket, peerVars, connVars
<1>2. TypePeers' /\ TypeSockets' /\ TypeEvents' /\ TypeMail' /\ done' \in BOOLEAN
  BY <1>1, Zenon DEF TypePeers, TypeSockets, TypeEvents, TypeMail
<1>3. TypeThread'
  BY TransportAssumption DEF ReadSocket, Turn, TypeThread
<1>4. sock[f] = c
  BY ReadFrom DEF ReadSocket
<1>5. TypeBuffers'
  <2>1. PICK n \in Pieces :
          LET t == Smaller(taken[c] + n, Len(stream[c]))
          IN  /\ taken' = [taken EXCEPT ![c] = t]
              /\ buf' = [buf EXCEPT ![c] = @ \o SubSeq(stream[c], taken[c] + 1, t)]
    BY <1>4 DEF ReadSocket
  <2> DEFINE t == Smaller(taken[c] + n, Len(stream[c]))
  <2>2. t \in Nat /\ SubSeq(stream[c], taken[c] + 1, t) \in Seq(Bytes)
    BY <1>4, TakenMore DEF ReadSocket, Available
  <2> HIDE DEF t
  <2>3. buf[c] \o SubSeq(stream[c], taken[c] + 1, t) \in Seq(Bytes)
    BY <2>2 DEF TypeBuffers
  <2>4. taken' \in [Conns -> Nat] /\ buf' \in [Conns -> Seq(Bytes)]
    BY <2>1, <2>2, <2>3 DEF TypeBuffers, t
  <2>5. UpdateLength(FALSE, len[c], buf'[c]) \in Nat
    BY <2>4, LengthOfNat DEF TypeBuffers, UpdateLength
  <2> QED BY <2>4, <2>5 DEF ReadSocket, TypeBuffers
<1> QED BY <1>2, <1>3, <1>5, TypePartsNext

LEMMA EndTypes ==
  ASSUME TypeOK, NEW f \in Fds, NEW c \in Conns, SocketEnds(f, c)
  PROVE  TypeOK'
<1> USE TypeParts
<1>1. /\ UNCHANGED <<peer, sent, stream, ends, taken, backlog, buf, len, handled, state>>
      /\ UNCHANGED <<pc, cur, done, mail, shut>>
  BY DEF SocketEnds, peerVars, bufVars
<1>2. TypePeers' /\ TypeBuffers' /\ TypeMail' /\ done' \in BOOLEAN
  BY <1>1, Zenon DEF TypePeers, TypeBuffers, TypeMail
<1>3. TypeSockets'
  BY <1>1, CloseTypes DEF SocketEnds, TypeSockets
<1>4. TypeEvents'
  BY <1>1, PushTypes, ChannelEntries DEF SocketEnds, TypeEvents
<1>5. TypeThread'
  BY <1>1 DEF TypeThread, SocketEnds, Turn
<1> QED BY <1>2, <1>3, <1>4, <1>5, TypePartsNext

\* The packet in the buffer, and the bytes after it.
LEMMA CutTypes ==
  ASSUME TypeBuffers, NEW c \in Conns, HavePacket(c)
  PROVE  /\ SubSeq(buf[c], Header + 1, Header + len[c]) \in Seq(Bytes)
         /\ SubSeq(buf[c], Header + len[c] + 1, Len(buf[c])) \in Seq(Bytes)
<1>1. Header \in Nat /\ len[c] \in Nat /\ buf[c] \in Seq(Bytes)
      /\ Len(buf[c]) \in Nat /\ Header + len[c] <= Len(buf[c])
  BY DEF TypeBuffers, HavePacket, Header
<1>2. \A i \in 1 .. Len(buf[c]) : buf[c][i] \in Bytes
  BY <1>1, ElementOfSeq
<1>3. \A i \in Header + 1 .. Header + len[c] : buf[c][i] \in Bytes
  BY <1>1, <1>2
<1>4. \A i \in Header + len[c] + 1 .. Len(buf[c]) : buf[c][i] \in Bytes
  BY <1>1, <1>2
<1> QED BY <1>1, <1>3, <1>4, SubSeqProperties

LEMMA GetTypes ==
  ASSUME TypeOK, GetPacket
  PROVE  TypeOK'
<1> USE TypeParts
<1>1. /\ UNCHANGED <<peer, sent, stream, ends, taken, backlog, sock, conn, fd, handled>>
      /\ UNCHANGED <<state, pc, ready, cur, mail, shut>>
  BY DEF GetPacket, peerVars, connVars
<1>2. TypePeers' /\ TypeSockets' /\ TypeThread' /\ TypeMail'
  BY <1>1, Zenon DEF TypePeers, TypeSockets, TypeThread, TypeMail
<1>3. done' \in BOOLEAN
  BY Zenon DEF GetPacket
<1>4. cur \in Conns /\ HavePacket(cur)
  BY DEF GetPacket, TypeThread
<1>5. TypeBuffers'
  <2>1. buf' \in [Conns -> Seq(Bytes)]
    BY <1>4, CutTypes DEF GetPacket, TypeBuffers
  <2>2. UpdateLength(TRUE, len[cur], buf'[cur]) \in Nat
    BY <1>4, <2>1, LengthOfNat DEF UpdateLength
  <2> QED BY <1>1, <1>4, <2>1, <2>2 DEF GetPacket, TypeBuffers
<1>6. TypeEvents'
  BY <1>1, <1>4, CutTypes, ChannelEntries, PushTypes DEF GetPacket, TypeEvents
<1> QED BY <1>2, <1>3, <1>5, <1>6, TypePartsNext

LEMMA PopStepTypes ==
  ASSUME TypeOK, NEW c \in Conns, PopStep(c)
  PROVE  TypeOK'
<1> USE TypeParts
<1>1. \E t : Pop(c, t)
  BY Zenon DEF PopStep, Greet, Refuse, Identify, Deliver, Forget, CallbackThrows
<1>2. /\ UNCHANGED <<peer, sent, stream, ends, taken, backlog, fd, buf, len, log, ready, cur>>
      /\ UNCHANGED done
  BY <1>1 DEF Pop, peerVars, bufVars
<1>3. TypePeers' /\ TypeBuffers' /\ TypeEvents' /\ done' \in BOOLEAN
  <2>1. TypePeers' /\ TypeBuffers' /\ done' \in BOOLEAN
    BY <1>2, Zenon DEF TypePeers, TypeBuffers
  <2> QED BY <1>1, <2>1, PopTypes
<1>4. TypeThread'
  BY <1>2 DEF TypeThread, PopStep, Greet, Refuse, Identify, Deliver, Forget, CallbackThrows, Pop
<1>5. TypeSockets'
  <2>1. CASE Refuse(c)
    BY <1>2, <2>1, CloseTypes DEF Refuse, TypeSockets
  <2>2. CASE UNCHANGED <<sock, conn>>
    BY <1>2, <2>2 DEF TypeSockets
  <2> QED BY <2>1, <2>2, Zenon DEF PopStep, Greet, Identify, Deliver, Forget, CallbackThrows
<1>6. TypeMail'
  <2>1. mail' \subseteq Conns \X Conns
    BY SendTypes DEF PopStep, Greet, Refuse, Identify, Deliver, Forget, CallbackThrows, TypeMail
  <2>2. state' \in [Conns -> {0, 1}]
    BY DEF PopStep, Greet, Refuse, Identify, Deliver, Forget, CallbackThrows, TypeMail
  <2>3. shut' \subseteq Conns
    BY MatchingTypes
       DEF PopStep, Greet, Refuse, Identify, Deliver, Forget, CallbackThrows, TypeMail
  <2> QED BY <2>1, <2>2, <2>3 DEF TypeMail
<1> QED BY <1>3, <1>4, <1>5, <1>6, TypePartsNext

LEMMA CommandTypes ==
  ASSUME TypeOK, NEW c \in Conns, SendCommand(c)
  PROVE  TypeOK'
<1> USE TypeParts
<1>1. UNCHANGED <<peerVars, taken, backlog, connVars, state, bufVars, events, log, handled,
                  pollVars, shut>>
  BY DEF SendCommand
<1>2. TypePeers' /\ TypeBuffers' /\ TypeEvents' /\ TypeThread' /\ TypeSockets'
      /\ done' \in BOOLEAN
  BY <1>1, Zenon DEF TypePeers, TypeBuffers, TypeEvents, TypeThread, TypeSockets,
                     peerVars, connVars, bufVars, pollVars
<1>3. TypeMail'
  BY <1>1, SendTypes DEF SendCommand, TypeMail
<1> QED BY <1>2, <1>3, TypePartsNext

LEMMA TypeStep ==
  ASSUME TypeOK, SocketsMatch, [Next]_vars
  PROVE  TypeOK'
<1>1. CASE Next
  BY <1>1, NextCases, PeersTypes, ThreadTypes, AcceptTypes, ReadTypes, EndTypes, GetTypes,
     PopStepTypes, CommandTypes
<1>2. CASE UNCHANGED vars
  BY <1>2, Zenon DEF vars, TypeOK, peerVars, connVars, bufVars, pollVars
<1> QED BY <1>1, <1>2

-----------------------------------------------------------------------------
(***************************************************************************)
(* The queue of events.                                                    *)
(***************************************************************************)

LEMMA InvInit == Init => TransportInv
<1> SUFFICES ASSUME Init PROVE TransportInv
  OBVIOUS
<1>1. \A c \in Conns : StreamShape(c) /\ LogShape(c)
  <2> TAKE c \in Conns
  <2>1. sent[c] = <<>> /\ stream[c] = <<>> /\ ends[c] = <<>> /\ log[c] = <<>>
    BY DEF Init
  <2>2. Start(c, 0) = 0 /\ Len(sent[c]) = 0 /\ Len(stream[c]) = 0 /\ Len(ends[c]) = 0
    BY <2>1 DEF Start, StartIn
  <2>3. StreamShape(c)
    BY <2>2 DEF StreamShape, Spells, Breaks, Start
  <2>4. LogShape(c)
    BY <2>1 DEF LogShape
  <2> QED BY <2>3, <2>4
<1>2. QueueShape
  BY DEF Init, QueueShape
<1>3. BacklogShape
  BY DEF Init, BacklogShape
<1>4. SocketsMatch /\ ReadyShape /\ MailShape /\ StraysAreStale /\ pc # "parse" /\ conn = {}
  BY DEF Init, SocketsMatch, ReadyShape, MailShape, StraysAreStale
<1> QED BY <1>1, <1>2, <1>3, <1>4 DEF TransportInv

\* The event that Process takes is the next one of its connection.
LEMMA PopNext ==
  ASSUME TypeEvents, QueueShape, NEW c \in Conns, NEW types, Pop(c, types)
  PROVE  /\ events # <<>> /\ events[1] = <<c, handled[c] + 1>>
         /\ handled[c] + 1 \in 1 .. Len(log[c])
         /\ log[c][handled[c] + 1].type \in types
<1>1. PICK n \in 1 .. Len(log[c]) : Head(events) = <<c, n>> /\ log[c][n].type \in types
  BY DEF Pop
<1>2. events # <<>> /\ Len(events) \in Nat /\ 1 \in 1 .. Len(events) /\ events[1] = <<c, n>>
  BY <1>1 DEF Pop, TypeEvents
<1>3. n \in handled[c] + 1 .. Len(log[c]) /\ handled[c] \in Nat /\ Len(log[c]) \in Nat
  BY <1>2 DEF QueueShape, TypeEvents
<1>4. CASE n # handled[c] + 1
  <2>1. handled[c] + 1 \in handled[c] + 1 .. Len(log[c])
    BY <1>3
  <2>2. PICK i \in 1 .. Len(events) : events[i] = <<c, handled[c] + 1>>
    BY <2>1 DEF QueueShape
  <2>3. 1 < i
    BY <2>2, <1>2, <1>4
  <2>4. n < handled[c] + 1
    BY <2>2, <2>3, <1>2 DEF QueueShape
  <2> QED BY <2>4, <1>3
<1> QED BY <1>1, <1>2, <1>3, <1>4

LEMMA PopKeepsQueue ==
  ASSUME TypeEvents, QueueShape, NEW c \in Conns, NEW types, Pop(c, types)
  PROVE  QueueShape'
<1>1. /\ events # <<>> /\ events[1] = <<c, handled[c] + 1>>
      /\ handled[c] + 1 \in 1 .. Len(log[c])
  BY PopNext
<1>2. log' = log /\ handled' = [handled EXCEPT ![c] = @ + 1] /\ events' = Tail(events)
  BY DEF Pop
<1>3. \A d \in Conns : /\ handled[d] \in Nat /\ Len(log[d]) \in Nat
                       /\ handled'[d] = IF d = c THEN handled[c] + 1 ELSE handled[d]
  BY <1>2 DEF TypeEvents
<1>4. /\ Len(events) \in Nat \ {0} /\ Len(events') = Len(events) - 1
      /\ \A i \in 1 .. Len(events') : i + 1 \in 1 .. Len(events) /\ events'[i] = events[i + 1]
  BY <1>1, <1>2, HeadTailProperties DEF TypeEvents
<1>5. \A i \in 1 .. Len(events) : events[i] = <<events[i][1], events[i][2]>>
                                  /\ events[i][1] \in Conns /\ events[i][2] \in Nat
  BY ElementOfSeq DEF TypeEvents, Queued
<1>6. ASSUME NEW d \in Conns, NEW n \in handled'[d] + 1 .. Len(log[d])
      PROVE  \E i \in 1 .. Len(events') : events'[i] = <<d, n>>
  <2>1. n \in handled[d] + 1 .. Len(log[d]) /\ <<d, n>> # events[1]
    BY <1>1, <1>3
  <2>2. PICK i \in 1 .. Len(events) : events[i] = <<d, n>>
    BY <2>1 DEF QueueShape
  <2>3. i - 1 \in 1 .. Len(events') /\ (i - 1) + 1 = i
    BY <2>1, <2>2, <1>4
  <2> QED BY <2>2, <2>3, <1>4
<1>7. ASSUME NEW i \in 1 .. Len(events')
      PROVE  events'[i][2] \in handled'[events'[i][1]] + 1 .. Len(log[events'[i][1]])
  <2>1. /\ i + 1 \in 1 .. Len(events) /\ 1 \in 1 .. Len(events) /\ 1 < i + 1
        /\ events'[i] = events[i + 1]
    BY <1>4
  <2> DEFINE d == events[i + 1][1]
  <2>2. events[i + 1][2] \in handled[d] + 1 .. Len(log[d]) /\ d \in Conns
    BY <2>1, <1>5 DEF QueueShape
  <2>3. d = c => handled[c] + 1 < events[i + 1][2]
    BY <2>1, <1>1 DEF QueueShape
  <2> QED BY <2>1, <2>2, <2>3, <1>3
<1>8. ASSUME NEW i \in 1 .. Len(events'), NEW j \in 1 .. Len(events'),
             i < j, events'[i][1] = events'[j][1]
      PROVE  events'[i][2] < events'[j][2]
  <2>1. /\ i + 1 \in 1 .. Len(events) /\ j + 1 \in 1 .. Len(events) /\ i + 1 < j + 1
        /\ events'[i] = events[i + 1] /\ events'[j] = events[j + 1]
    BY <1>4, <1>8
  <2> QED BY <2>1, <1>8 DEF QueueShape
<1>9. \A d \in Conns : handled'[d] <= Len(log[d])
  BY <1>1, <1>3 DEF QueueShape
<1> QED BY <1>2, <1>6, <1>7, <1>8, <1>9 DEF QueueShape

LEMMA PushKeepsQueue ==
  ASSUME TypeEvents, QueueShape, NEW c \in Conns, NEW event \in Entries, Push(c, event),
         UNCHANGED handled
  PROVE  QueueShape'
<1> DEFINE m == Len(log[c]) + 1
<1>1. /\ log' = [log EXCEPT ![c] = Append(log[c], event)] /\ events' = Append(events, <<c, m>>)
  BY DEF Push
<1>2. \A d \in Conns : /\ handled[d] \in Nat /\ Len(log[d]) \in Nat
                       /\ Len(log'[d]) = IF d = c THEN m ELSE Len(log[d])
  BY <1>1 DEF TypeEvents
<1>3. /\ Len(events) \in Nat /\ Len(events') = Len(events) + 1
      /\ events'[Len(events) + 1] = <<c, m>>
      /\ \A i \in 1 .. Len(events) : events'[i] = events[i]
  <2>1. <<c, m>> \in Queued
    BY <1>2 DEF Queued
  <2> QED BY <1>1, <2>1, AppendProperties DEF TypeEvents
<1>4. \A i \in 1 .. Len(events) : events[i][1] \in Conns /\ events[i][2] \in Nat
  BY ElementOfSeq DEF TypeEvents, Queued
<1> HIDE DEF m
<1>5. ASSUME NEW d \in Conns, NEW n \in handled[d] + 1 .. Len(log'[d])
      PROVE  \E i \in 1 .. Len(events') : events'[i] = <<d, n>>
  <2>1. CASE d = c /\ n = m
    BY <2>1, <1>3
  <2>2. CASE ~(d = c /\ n = m)
    <3>1. n \in handled[d] + 1 .. Len(log[d])
      BY <2>2, <1>2 DEF m
    <3>2. PICK i \in 1 .. Len(events) : events[i] = <<d, n>>
      BY <3>1 DEF QueueShape
    <3> QED BY <3>2, <1>3
  <2> QED BY <2>1, <2>2
<1>6. ASSUME NEW i \in 1 .. Len(events')
      PROVE  events'[i][2] \in handled[events'[i][1]] + 1 .. Len(log'[events'[i][1]])
  <2>1. CASE i = Len(events) + 1
    <3>1. handled[c] <= Len(log[c])
      BY DEF QueueShape
    <3> QED BY <2>1, <3>1, <1>2, <1>3 DEF m
  <2>2. CASE i \in 1 .. Len(events)
    <3>1. events[i][2] \in handled[events[i][1]] + 1 .. Len(log[events[i][1]])
      BY <2>2 DEF QueueShape
    <3> DEFINE d == events[i][1]
    <3>2. d \in Conns /\ events[i][2] \in Nat /\ events'[i] = events[i]
      BY <2>2, <1>3, <1>4
    <3>3. Len(log[d]) <= Len(log'[d]) /\ handled[d] \in Nat /\ Len(log[d]) \in Nat
          /\ Len(log'[d]) \in Nat
      BY <3>2, <1>2 DEF m
    <3> QED BY <3>1, <3>2, <3>3
  <2> QED BY <2>1, <2>2, <1>3
<1>7. ASSUME NEW i \in 1 .. Len(events'), NEW j \in 1 .. Len(events'),
             i < j, events'[i][1] = events'[j][1]
      PROVE  events'[i][2] < events'[j][2]
  <2>1. i \in 1 .. Len(events) /\ events'[i] = events[i]
    BY <1>3, <1>7
  <2>2. events[i][2] \in handled[events[i][1]] + 1 .. Len(log[events[i][1]])
    BY <2>1 DEF QueueShape
  <2>3. CASE j = Len(events) + 1
    BY <2>1, <2>2, <2>3, <1>2, <1>3, <1>7 DEF m
  <2>4. CASE j \in 1 .. Len(events)
    BY <2>1, <2>4, <1>3, <1>7 DEF QueueShape
  <2> QED BY <2>3, <2>4, <1>3
<1>8. \A d \in Conns : handled[d] <= Len(log'[d])
  BY <1>2 DEF QueueShape, m
<1> QED BY <1>5, <1>6, <1>7, <1>8 DEF QueueShape

-----------------------------------------------------------------------------
(***************************************************************************)
(* Sockets and m_conn.                                                     *)
(***************************************************************************)

\* As long as a connection is in m_conn, its socket is found for it and no other.
LEMMA MatchingSelf ==
  ASSUME SocketsMatch, NEW c \in conn
  PROVE  Matching(c) = {c}
BY DEF SocketsMatch, Matching

LEMMA CloseKeepsSockets ==
  ASSUME TypeSockets, SocketsMatch, NEW c \in Conns, Close(c)
  PROVE  SocketsMatch'
<1>1. /\ conn' = conn \ Matching(c) /\ fd' = fd
      /\ \A f \in Fds : sock'[f] = IF \E d \in Matching(c) : fd[d] = f THEN NoConn ELSE sock[f]
  BY DEF Close
<1>2. \A d \in conn : d \in Conns /\ fd[d] \in Fds /\ sock[fd[d]] = d
  BY DEF TypeSockets, SocketsMatch
<1>3. \A d \in Matching(c) : d \in conn
  BY DEF Matching
<1>4. ASSUME NEW d \in conn'
      PROVE  sock'[fd'[d]] = d
  <2>1. d \in conn /\ d \notin Matching(c)
    BY <1>1
  <2>2. ~ \E e \in Matching(c) : fd[e] = fd[d]
    BY <1>2, <1>3, <2>1
  <2> QED BY <1>1, <1>2, <2>1, <2>2
<1>5. ASSUME NEW f \in Fds, sock'[f] # NoConn
      PROVE  sock'[f] \in conn' /\ fd'[sock'[f]] = f
  <2>1. sock'[f] = sock[f] /\ ~ \E d \in Matching(c) : fd[d] = f
    BY <1>1, <1>5
  <2>2. sock[f] \in conn /\ fd[sock[f]] = f
    BY <1>5, <2>1 DEF SocketsMatch
  <2> QED BY <1>1, <2>1, <2>2
<1> QED BY <1>4, <1>5 DEF SocketsMatch

\* The connection that is accepted, and what is known of it.
LEMMA AcceptNew ==
  ASSUME TypeOK, TransportInv, NEW f \in Fds, SelectAccepts(f)
  PROVE  LET c == Head(backlog)
         IN  /\ c \in Conns /\ c \notin conn /\ c = backlog[1] /\ 1 \in 1 .. Len(backlog)
             /\ peer[c] # "new" /\ log[c] = <<>> /\ buf[c] = <<>> /\ len[c] = 0 /\ taken[c] = 0
<1>1. backlog \in Seq(Conns) /\ backlog # <<>>
  BY TypeParts DEF TypeSockets, SelectAccepts
<1>2. Head(backlog) = backlog[1] /\ 1 \in 1 .. Len(backlog) /\ backlog[1] \in Conns
  BY <1>1
<1>3. peer[backlog[1]] # "new" /\ log[backlog[1]] = <<>>
  BY <1>2 DEF TransportInv, BacklogShape
<1>4. backlog[1] \notin conn
  BY <1>3 DEF TransportInv, BufferShape
<1>5. buf[backlog[1]] = <<>> /\ len[backlog[1]] = 0 /\ taken[backlog[1]] = 0
  BY <1>2, <1>3 DEF TransportInv, BacklogShape
<1> QED BY <1>2, <1>3, <1>4, <1>5

LEMMA AcceptKeepsSockets ==
  ASSUME TypeOK, TransportInv, NEW f \in Fds, SelectAccepts(f)
  PROVE  SocketsMatch'
<1> DEFINE c == Head(backlog)
<1>1. c \in Conns /\ c \notin conn
  BY AcceptNew
<1> HIDE DEF c
<1>2. /\ sock' = [sock EXCEPT ![f] = c] /\ conn' = conn \cup {c} /\ fd' = [fd EXCEPT ![c] = f]
      /\ sock[f] = NoConn
  BY DEF SelectAccepts, c
<1>3. TypeSockets /\ SocketsMatch /\ NoConn \notin Conns
  BY TypeParts, TransportAssumption DEF TransportInv
<1>4. \A d \in conn : d \in Conns /\ fd[d] \in Fds /\ sock[fd[d]] = d /\ fd[d] # f /\ d # c
  BY <1>1, <1>2, <1>3 DEF TypeSockets, SocketsMatch
<1> QED BY <1>1, <1>2, <1>3, <1>4 DEF TypeSockets, SocketsMatch

LEMMA SocketsStep ==
  ASSUME TypeOK, TransportInv, Next
  PROVE  SocketsMatch'
<1>1. SocketsMatch /\ TypeSockets
  BY TypeParts DEF TransportInv
<1>2. CASE UNCHANGED connVars
  BY <1>1, <1>2 DEF SocketsMatch, connVars
<1>3. CASE \E f \in Fds : SelectAccepts(f)
  BY <1>3, AcceptKeepsSockets
<1>4. CASE \E f \in Fds, c \in Conns : ReadSocket(f, c) \/ SocketEnds(f, c)
  BY <1>1, <1>2, <1>4, CloseKeepsSockets DEF ReadSocket, SocketEnds
<1>5. CASE PeerStep \/ ThreadStep \/ GetPacket \/ \E c \in Conns : SendCommand(c)
  BY <1>2, <1>5, Zenon DEF PeerStep, PeerConnects, PeerSends, PeerLeaves, ThreadStep,
     SelectTimesOut, Select, ParseEnds, RoundEnds, DispatchEnds, GetPacket, SendCommand
<1>6. ASSUME NEW c \in Conns, PopStep(c)
      PROVE  SocketsMatch'
  <2>1. CASE Refuse(c)
    BY <1>1, <2>1, CloseKeepsSockets DEF Refuse
  <2>2. CASE ~Refuse(c)
    BY <1>2, <1>6, <2>2, Zenon DEF PopStep, Greet, Identify, Deliver, Forget, CallbackThrows,
       Pop, connVars
  <2> QED BY <2>1, <2>2
<1> QED BY <1>3, <1>4, <1>5, <1>6, NextCases

-----------------------------------------------------------------------------
(***************************************************************************)
(* What is sent to connections.                                            *)
(***************************************************************************)

\* A packet strays only if its connection has left m_conn.
LEMMA SendStrays ==
  ASSUME SocketsMatch, NEW c \in Conns, NEW b
  PROVE  \A d \in Recipients(c, b) : d # c => c \notin conn
BY MatchingSelf DEF Recipients, Matching

\* Logs only grow.
LEMMA LogStep ==
  ASSUME TypeOK, SocketsMatch, Next
  PROVE  \A c \in Conns : log[c] # <<>> => log'[c] # <<>>
<1>1. CASE UNCHANGED log
  BY <1>1
<1>2. ASSUME NEW c \in Conns, NEW event \in Entries, Push(c, event)
      PROVE  \A d \in Conns : log[d] # <<>> => log'[d] # <<>>
  <2>1. log[c] \in Seq(Entries)
    BY TypeParts DEF TypeEvents
  <2>2. Append(log[c], event) # <<>>
    BY <2>1
  <2> QED BY <1>2, <2>2, TypeParts DEF Push, TypeEvents
<1>3. CASE \E f \in Fds : SelectAccepts(f)
  <2>1. backlog # <<>> => Head(backlog) \in Conns
    BY TypeParts, HeadTailProperties DEF TypeSockets
  <2> QED BY <1>2, <1>3, <2>1, ChannelEntries DEF SelectAccepts
<1>4. CASE \E f \in Fds, c \in Conns : ReadSocket(f, c) \/ SocketEnds(f, c)
  BY <1>1, <1>2, <1>4, ChannelEntries DEF ReadSocket, SocketEnds
<1>5. CASE GetPacket
  <2>1. cur \in Conns /\ HavePacket(cur)
    BY <1>5, TypeParts DEF GetPacket, TypeThread
  <2>2. SubSeq(buf[cur], Header + 1, Header + len[cur]) \in Seq(Bytes)
    BY <2>1, CutTypes, TypeParts
  <2> QED BY <1>2, <1>5, <2>1, <2>2, ChannelEntries DEF GetPacket
<1>6. CASE PeerStep \/ ThreadStep \/ \E c \in Conns : PopStep(c) \/ SendCommand(c)
  BY <1>1, <1>6, Zenon DEF PeerStep, PeerConnects, PeerSends, PeerLeaves, ThreadStep,
     SelectTimesOut, Select, ParseEnds, RoundEnds, DispatchEnds, SendCommand,
     PopStep, Greet, Refuse, Identify, Deliver, Forget, CallbackThrows, Pop
<1> QED BY <1>3, <1>4, <1>5, <1>6, NextCases

LEMMA MailStep ==
  ASSUME TypeOK, TransportInv, Next
  PROVE  StraysAreStale' /\ MailShape'
<1>1. /\ SocketsMatch /\ StraysAreStale /\ MailShape /\ TypeSockets /\ TypeMail /\ TypeEvents
      /\ QueueShape
  BY TypeParts DEF TransportInv
<1>2. \A m \in mail : m \in Conns \X Conns
  BY <1>1 DEF TypeMail
<1>3. \A m \in mail : log'[m[1]] # <<>>
  BY <1>1, <1>2, LogStep DEF MailShape
<1>4. CASE UNCHANGED mail /\ conn' \subseteq conn
  BY <1>1, <1>3, <1>4 DEF StraysAreStale, MailShape
<1>5. CASE \E f \in Fds : SelectAccepts(f)
  <2>1. PICK f \in Fds : SelectAccepts(f)
    BY <1>5
  <2>2. /\ log[Head(backlog)] = <<>> /\ conn' = conn \cup {Head(backlog)} /\ mail' = mail
    BY <2>1, AcceptNew DEF SelectAccepts
  <2> QED BY <1>1, <1>3, <2>2 DEF StraysAreStale, MailShape
<1>6. ASSUME NEW c \in Conns, NEW b, SendPacket(c, b), log'[c] # <<>>, conn' \subseteq conn
      PROVE  StraysAreStale' /\ MailShape'
  <2>1. \A m \in mail' : m \in mail \/ (m[1] = c /\ (m[1] # m[2] => m[1] \notin conn))
    BY <1>1, <1>6, SendStrays DEF SendPacket
  <2> QED BY <1>1, <1>3, <1>6, <2>1 DEF StraysAreStale, MailShape
<1>7. ASSUME NEW c \in Conns, SendCommand(c)
      PROVE  StraysAreStale' /\ MailShape'
  <2>1. log'[c] # <<>> /\ conn' = conn
    BY <1>1, <1>7 DEF SendCommand, QueueShape, TypeEvents, connVars
  <2> QED BY <1>6, <1>7, <2>1 DEF SendCommand
<1>8. ASSUME NEW c \in Conns, PopStep(c)
      PROVE  StraysAreStale' /\ MailShape'
  <2>1. PICK types : Pop(c, types)
    BY <1>8, Zenon DEF PopStep, Greet, Refuse, Identify, Deliver, Forget, CallbackThrows
  <2>2. log'[c] # <<>>
    BY <1>1, <2>1, PopNext DEF Pop
  <2>3. conn' \subseteq conn
    BY <1>8 DEF PopStep, Greet, Refuse, Identify, Deliver, Forget, CallbackThrows, Close
  <2> QED BY <1>4, <1>6, <1>8, <2>2, <2>3, Zenon
          DEF PopStep, Greet, Refuse, Identify, Deliver, Forget, CallbackThrows
<1>9. CASE PeerStep \/ ThreadStep \/ GetPacket
  BY <1>4, <1>9 DEF PeerStep, PeerConnects, PeerSends, PeerLeaves, ThreadStep, connVars,
     SelectTimesOut, Select, ParseEnds, RoundEnds, DispatchEnds, GetPacket
<1>10. CASE \E f \in Fds, c \in Conns : ReadSocket(f, c) \/ SocketEnds(f, c)
  BY <1>4, <1>10 DEF ReadSocket, SocketEnds, Close, connVars
<1> QED BY <1>5, <1>7, <1>8, <1>9, <1>10, NextCases

-----------------------------------------------------------------------------
(***************************************************************************)
(* Connections that wait to be accepted, and what select has found.        *)
(***************************************************************************)

\* The connections that are read have been accepted.
LEMMA AcceptedLog ==
  ASSUME TransportInv, NEW c \in conn
  PROVE  log[c] # <<>>
BY DEF TransportInv, BufferShape

LEMMA BacklogStep ==
  ASSUME TypeOK, TransportInv, Next
  PROVE  BacklogShape'
<1>1. /\ BacklogShape /\ SocketsMatch /\ TypePeers /\ TypeSockets /\ TypeBuffers /\ TypeEvents
      /\ \A c \in Conns : log[c] # <<>> => log'[c] # <<>>
  BY TypeParts, LogStep DEF TransportInv
<1>2. backlog \in Seq(Conns) /\ \A i \in 1 .. Len(backlog) : backlog[i] \in Conns
  BY <1>1, ElementOfSeq DEF TypeSockets
<1>3. CASE UNCHANGED <<peer, taken, backlog, buf, len, log>>
  BY <1>1, <1>3, Zenon DEF BacklogShape
<1>4. CASE ThreadStep \/ \E c \in Conns : PopStep(c) \/ SendCommand(c)
  BY <1>3, <1>4, Zenon DEF ThreadStep, SelectTimesOut, Select, ParseEnds, RoundEnds, DispatchEnds,
     SendCommand, PopStep, Greet, Refuse, Identify, Deliver, Forget, CallbackThrows, Pop,
     peerVars, bufVars
<1>5. CASE PeerStep
  <2>1. UNCHANGED <<taken, buf, len, log>>
    BY <1>5 DEF PeerStep, PeerConnects, PeerSends, PeerLeaves, bufVars
  <2>2. ASSUME NEW c \in Conns, PeerConnects(c)
        PROVE  BacklogShape'
    <3>1. /\ peer[c] = "new" /\ log[c] = <<>> /\ peer' = [peer EXCEPT ![c] = "up"]
          /\ backlog' = Append(backlog, c)
      BY <1>1, <2>2 DEF PeerConnects, BacklogShape
    <3>2. /\ Len(backlog) \in Nat /\ Len(backlog') = Len(backlog) + 1
          /\ backlog'[Len(backlog) + 1] = c
          /\ \A i \in 1 .. Len(backlog) : backlog'[i] = backlog[i]
      BY <1>2, <3>1, AppendProperties
    <3>3. \A i \in 1 .. Len(backlog) : backlog[i] # c
      BY <1>1, <3>1 DEF BacklogShape
    <3>4. \A i \in 1 .. Len(backlog') : log'[backlog'[i]] = <<>> /\ peer'[backlog'[i]] # "new"
      <4>1. ASSUME NEW i \in 1 .. Len(backlog)
            PROVE  log'[backlog'[i]] = <<>> /\ peer'[backlog'[i]] # "new"
        BY <1>1, <1>2, <2>1, <3>1, <3>2 DEF BacklogShape, TypePeers
      <4>2. log'[c] = <<>> /\ peer'[c] # "new"
        BY <1>1, <2>1, <3>1 DEF TypePeers
      <4> QED BY <3>2, <4>1, <4>2
    <3>5. \A i, j \in 1 .. Len(backlog') : i # j => backlog'[i] # backlog'[j]
      BY <1>1, <3>2, <3>3 DEF BacklogShape
    <3>6. \A d \in Conns : peer'[d] = "new" => log'[d] = <<>>
      BY <1>1, <2>1, <3>1 DEF BacklogShape, TypePeers
    <3> QED BY <1>1, <2>1, <3>4, <3>5, <3>6 DEF BacklogShape
  <2>3. CASE /\ backlog' = backlog
             /\ \A d \in Conns : peer'[d] = peer[d] \/ (peer[d] # "new" /\ peer'[d] # "new")
    BY <1>1, <1>2, <2>1, <2>3 DEF BacklogShape
  <2>4. ASSUME NEW c \in Conns, NEW p, NEW n, PeerSends(c, p) \/ PeerLeaves(c, p, n)
        PROVE  BacklogShape'
    BY <1>1, <2>3, <2>4 DEF PeerSends, PeerLeaves, TypePeers
  <2> QED BY <1>5, <2>2, <2>4 DEF PeerStep
<1>6. ASSUME NEW c \in Conns, log[c] # <<>>, UNCHANGED <<peer, backlog>>,
             \A d \in Conns : d # c =>
               log'[d] = log[d] /\ buf'[d] = buf[d] /\ len'[d] = len[d] /\ taken'[d] = taken[d]
      PROVE  BacklogShape'
  <2>1. \A i \in 1 .. Len(backlog) : backlog[i] # c
    BY <1>1, <1>6 DEF BacklogShape
  <2> QED BY <1>1, <1>2, <1>6, <2>1 DEF BacklogShape
<1>7. ASSUME NEW f \in Fds, SelectAccepts(f)
      PROVE  BacklogShape'
  <2> DEFINE c == Head(backlog)
  <2>1. /\ c \in Conns /\ c = backlog[1] /\ 1 \in 1 .. Len(backlog) /\ peer[c] # "new"
        /\ backlog # <<>>
    BY <1>7, AcceptNew DEF SelectAccepts
  <2>2. /\ UNCHANGED <<peer, taken, buf, len>> /\ backlog' = Tail(backlog)
        /\ \A d \in Conns : d # c => log'[d] = log[d]
    BY <1>1, <1>7 DEF SelectAccepts, peerVars, bufVars, Push, TypeEvents
  <2>3. log'[c] # <<>>
    <3>1. Append(log[c], Channel!Connect) # <<>>
      BY <1>1, <2>1, ChannelEntries, AppendProperties DEF TypeEvents
    <3> QED BY <1>1, <1>7, <2>1, <3>1 DEF SelectAccepts, Push, TypeEvents
  <2>4. /\ Len(backlog') = Len(backlog) - 1 /\ Len(backlog) \in Nat
        /\ \A i \in 1 .. Len(backlog') : /\ i + 1 \in 1 .. Len(backlog) /\ i + 1 # 1
                                         /\ backlog'[i] = backlog[i + 1]
    BY <1>2, <2>1, <2>2, HeadTailProperties
  <2>5. \A i \in 1 .. Len(backlog') : backlog'[i] # c /\ backlog'[i] \in Conns
    BY <1>1, <1>2, <2>1, <2>4 DEF BacklogShape
  <2> HIDE DEF c
  <2>6. \A i \in 1 .. Len(backlog') : log'[backlog'[i]] = <<>> /\ peer'[backlog'[i]] # "new"
    BY <1>1, <2>2, <2>4, <2>5 DEF BacklogShape
  <2>7. ASSUME NEW i \in 1 .. Len(backlog'), NEW j \in 1 .. Len(backlog'), i # j
        PROVE  backlog'[i] # backlog'[j]
    <3>1. i + 1 # j + 1 /\ i + 1 \in 1 .. Len(backlog) /\ j + 1 \in 1 .. Len(backlog)
      BY <2>4, <2>7
    <3> QED BY <1>1, <2>4, <3>1 DEF BacklogShape
  <2>8. \A d \in Conns : log'[d] = <<>> => log[d] = <<>>
    BY <1>1
  <2>9. \A d \in Conns : peer'[d] = "new" => log'[d] = <<>>
    BY <1>1, <2>1, <2>2 DEF BacklogShape
  <2> QED BY <1>1, <2>2, <2>6, <2>7, <2>8, <2>9 DEF BacklogShape
<1>8. ASSUME NEW f \in Fds, NEW c \in Conns, ReadSocket(f, c) \/ SocketEnds(f, c)
      PROVE  BacklogShape'
  <2>1. c \in conn /\ log[c] # <<>> /\ (ReadSocket(f, c) => sock[f] = c)
    BY <1>1, <1>8, AcceptedLog, ReadFrom DEF ReadSocket, SocketEnds, Turn
  <2>2. UNCHANGED <<peer, backlog>>
    BY <1>8 DEF ReadSocket, SocketEnds, peerVars
  <2>3. \A d \in Conns : d # c =>
          log'[d] = log[d] /\ buf'[d] = buf[d] /\ len'[d] = len[d] /\ taken'[d] = taken[d]
    BY <1>1, <1>8, <2>1 DEF ReadSocket, SocketEnds, Push, bufVars,
       TypeBuffers, TypeEvents
  <2> QED BY <1>6, <2>1, <2>2, <2>3
<1>9. CASE GetPacket
  <2>1. cur \in Conns /\ cur \in conn
    BY <1>1, <1>9 DEF GetPacket, TransportInv, TypeSockets
  <2>2. \A d \in Conns : d # cur =>
          log'[d] = log[d] /\ buf'[d] = buf[d] /\ len'[d] = len[d] /\ taken'[d] = taken[d]
    BY <1>1, <1>9, <2>1 DEF GetPacket, Push, TypeBuffers, TypeEvents
  <2>3. UNCHANGED <<peer, backlog>>
    BY <1>9 DEF GetPacket, peerVars
  <2> QED BY <1>6, <2>1, <2>2, <2>3, AcceptedLog
<1> QED BY <1>4, <1>5, <1>7, <1>8, <1>9, NextCases

LEMMA ReadyStep ==
  ASSUME TypeOK, TransportInv, Next
  PROVE  ReadyShape'
<1>1. /\ ReadyShape /\ SocketsMatch /\ TypePeers /\ TypeSockets /\ TypeBuffers /\ TypeThread
  BY TypeParts DEF TransportInv
<1>2. \A f \in Fds : sock[f] # NoConn => sock[f] \in Conns
  BY <1>1 DEF TypeSockets
<1>3. CASE /\ ready' \subseteq ready /\ UNCHANGED <<taken, stream, peer>>
           /\ \A f \in Fds : sock'[f] = sock[f] \/ sock'[f] = NoConn
  BY <1>1, <1>3 DEF ReadyShape, Available, TypeThread
<1>4. CASE PeerStep
  <2>1. UNCHANGED <<taken, sock, ready>>
    BY <1>4 DEF PeerStep, PeerConnects, PeerSends, PeerLeaves, connVars, pollVars
  <2>2. \A c \in Conns : /\ Len(stream[c]) <= Len(stream'[c])
                         /\ (peer[c] = "gone" => peer'[c] = "gone")
    <3>1. ASSUME NEW c \in Conns, NEW s \in Seq(Bytes), stream' = [stream EXCEPT ![c] = @ \o s]
          PROVE  \A d \in Conns : Len(stream[d]) <= Len(stream'[d])
      BY <1>1, <3>1 DEF TypePeers
    <3>2. ASSUME NEW c \in Conns, PeerConnects(c)
          PROVE  \A d \in Conns : Len(stream[d]) <= Len(stream'[d])
      BY <1>1, <3>2 DEF PeerConnects, TypePeers
    <3>3. ASSUME NEW c \in Conns, NEW p \in Packets, PeerSends(c, p)
          PROVE  \A d \in Conns : Len(stream[d]) <= Len(stream'[d])
      BY <3>1, <3>3, EncodeProperties DEF PeerSends
    <3>4. ASSUME NEW c \in Conns, NEW p \in Packets, NEW n \in Cuts, PeerLeaves(c, p, n)
          PROVE  \A d \in Conns : Len(stream[d]) <= Len(stream'[d])
      <4>1. SubSeq(Encode(p), 1, n) \in Seq(Bytes)
        BY <3>4, EncodeProperties, TransportAssumption DEF PeerLeaves
      <4> QED BY <3>1, <3>4, <4>1 DEF PeerLeaves
    <3>5. \A c \in Conns : peer[c] = "gone" => peer'[c] = "gone"
      BY <1>1, <1>4 DEF PeerStep, PeerConnects, PeerSends, PeerLeaves, TypePeers
    <3> QED BY <1>4, <3>2, <3>3, <3>4, <3>5 DEF PeerStep
  <2>3. \A c \in Conns : taken[c] \in Nat /\ Len(stream[c]) \in Nat /\ Len(stream'[c]) \in Nat
    <3>1. TypePeers'
      BY <1>4, PeersTypes, TypePartsNext
    <3> QED BY <1>1, <3>1 DEF TypePeers, TypeBuffers
  <2> QED BY <1>1, <1>2, <2>1, <2>2, <2>3 DEF ReadyShape, Available, TypeThread
<1>5. CASE \E f \in Fds : SelectAccepts(f)
  BY <1>1, <1>5 DEF SelectAccepts, ReadyShape, Readable, Available, TypeSockets, peerVars
<1>6. CASE ThreadStep
  BY <1>1, <1>6 DEF ThreadStep, SelectTimesOut, Select, ParseEnds, RoundEnds, DispatchEnds,
     ReadyShape, Readable, Available, peerVars, connVars
<1>7. ASSUME NEW f \in Fds, NEW c \in Conns, ReadSocket(f, c)
      PROVE  ReadyShape'
  <2>1. sock[f] = c /\ c \in conn /\ fd[c] = f /\ ready' = ready \ {f}
    BY <1>1, <1>7, ReadFrom DEF ReadSocket, Turn
  <2>2. \A g \in ready' : sock[g] # c
    BY <1>1, <2>1, TransportAssumption DEF SocketsMatch, TypeThread
  <2>3. UNCHANGED <<stream, peer, sock>> /\ \A d \in Conns : d # c => taken'[d] = taken[d]
    BY <1>1, <1>7, <2>1 DEF ReadSocket, peerVars, connVars, TypeBuffers
  <2> QED BY <1>1, <1>2, <2>1, <2>2, <2>3 DEF ReadyShape, Available, TypeThread
<1>8. CASE \E f \in Fds, c \in Conns : SocketEnds(f, c)
  BY <1>3, <1>8 DEF SocketEnds, Turn, Close, peerVars
<1>9. CASE GetPacket \/ \E c \in Conns : PopStep(c) \/ SendCommand(c)
  BY <1>3, <1>9 DEF GetPacket, SendCommand, PopStep, Greet, Refuse, Identify, Deliver, Forget,
     CallbackThrows, Pop, Close, peerVars, connVars, pollVars
<1> QED BY <1>4, <1>5, <1>6, <1>7, <1>8, <1>9, NextCases

-----------------------------------------------------------------------------
(***************************************************************************)
(* What peers write.                                                       *)
(***************************************************************************)

LEMMA EncodeTypes ==
  ASSUME NEW p \in Packets
  PROVE  Encode(p) \in Seq(Bytes) /\ Len(Encode(p)) \in Nat /\ Header <= Len(Encode(p))
         /\ Header \in Nat
<1>1. Len(p) \in Nat /\ Header \in Nat
  BY EncodeProperties DEF Header
<1> QED BY <1>1, EncodeProperties

LEMMA Concat ==
  ASSUME NEW s \in Seq(Bytes), NEW t \in Seq(Bytes), NEW l, l = Len(s), NEW n, n = Len(t)
  PROVE  /\ s \o t \in Seq(Bytes) /\ Len(s \o t) = l + n
         /\ \A j \in 1 .. l : (s \o t)[j] = s[j]
         /\ \A j \in 1 .. n : (s \o t)[l + j] = t[j]
OBVIOUS

\* The bytes after the first m of b, up to the n-th.
LEMMA SubBytes ==
  ASSUME NEW b \in Seq(Bytes), NEW m \in Nat, NEW n \in Nat, m <= n, n <= Len(b)
  PROVE  /\ SubSeq(b, m + 1, n) \in Seq(Bytes) /\ Len(SubSeq(b, m + 1, n)) = n - m
         /\ \A j \in 1 .. n - m : SubSeq(b, m + 1, n)[j] = b[m + j]
<1> DEFINE r == SubSeq(b, m + 1, n)
<1>1. \A i \in m + 1 .. n : b[i] \in Bytes
  <2>1. \A i \in m + 1 .. n : i \in 1 .. Len(b)
    OBVIOUS
  <2> QED BY <2>1, ElementOfSeq
<1>2. /\ r \in Seq(Bytes) /\ Len(r) = IF m + 1 <= n THEN n - (m + 1) + 1 ELSE 0
      /\ \A j \in 1 .. n - (m + 1) + 1 : r[j] = b[(m + 1) + j - 1]
  BY <1>1, SubSeqProperties
<1>3. /\ n - (m + 1) + 1 = n - m /\ (~(m + 1 <= n) => n - m = 0)
      /\ \A j \in 1 .. n - m : (m + 1) + j - 1 = m + j
  OBVIOUS
<1> HIDE DEF r
<1>4. r \in Seq(Bytes) /\ Len(r) = n - m /\ \A j \in 1 .. n - m : r[j] = b[m + j]
  BY <1>2, <1>3
<1> QED BY <1>4 DEF r

LEMMA StartInNat ==
  ASSUME NEW ps \in Seq(Packets), NEW es \in Seq(Nat), NEW b, Spells(ps, es, b),
         NEW k \in 0 .. Len(ps)
  PROVE  StartIn(es, k) \in Nat /\ StartIn(es, k) <= StartIn(es, Len(ps))
<1>1. \A i \in 1 .. Len(ps) : es[i] \in Nat
  BY ElementOfSeq DEF Spells
<1>2. StartIn(es, k) \in Nat /\ StartIn(es, Len(ps)) \in Nat
  BY <1>1 DEF StartIn
<1>3. CASE k = 0
  BY <1>2, <1>3 DEF StartIn
<1>4. CASE k \in 1 .. Len(ps)
  BY <1>2, <1>4 DEF StartIn, Spells
<1> QED BY <1>2, <1>3, <1>4

\* Bytes that are added do not change where the packets are.
LEMMA SpellsLonger ==
  ASSUME NEW ps \in Seq(Packets), NEW es \in Seq(Nat), NEW b \in Seq(Bytes), Spells(ps, es, b),
         NEW d \in Seq(Bytes), Len(b) <= Len(d), \A j \in 1 .. Len(b) : d[j] = b[j]
  PROVE  Spells(ps, es, d)
<1>1. Len(b) \in Nat /\ Len(d) \in Nat /\ StartIn(es, Len(ps)) \in Nat
      /\ StartIn(es, Len(ps)) <= Len(b) /\ Len(ps) \in Nat
  <2>1. Len(ps) \in 0 .. Len(ps)
    OBVIOUS
  <2>2. StartIn(es, Len(ps)) \in Nat
    BY <2>1, StartInNat
  <2> QED BY <2>2 DEF Spells
<1>2. ASSUME NEW k \in 1 .. Len(ps), NEW j \in 1 .. Len(Encode(ps[k]))
      PROVE  d[StartIn(es, k - 1) + j] = Encode(ps[k])[j]
  <2>1. ps[k] \in Packets /\ k - 1 \in 0 .. Len(ps)
    BY ElementOfSeq
  <2>2. Len(Encode(ps[k])) \in Nat /\ StartIn(es, k - 1) \in Nat
    BY <2>1, EncodeTypes, StartInNat
  <2>3. StartIn(es, k - 1) + Len(Encode(ps[k])) <= Len(b)
    <3>1. StartIn(es, k - 1) + Len(Encode(ps[k])) = es[k] /\ es[k] <= StartIn(es, Len(ps))
      BY DEF Spells
    <3> QED BY <1>1, <2>2, <3>1
  <2>4. StartIn(es, k - 1) + j \in 1 .. Len(b)
    BY <1>1, <2>2, <2>3
  <2> QED BY <2>4 DEF Spells
<1>3. StartIn(es, Len(ps)) <= Len(d)
  BY <1>1
<1> QED BY <1>2, <1>3 DEF Spells

LEMMA SpellsMore ==
  ASSUME NEW ps \in Seq(Packets), NEW es \in Seq(Nat), NEW b \in Seq(Bytes), Spells(ps, es, b),
         Len(b) = StartIn(es, Len(ps)), NEW p \in Packets
  PROVE  /\ Spells(Append(ps, p), Append(es, Len(b \o Encode(p))), b \o Encode(p))
         /\ StartIn(Append(es, Len(b \o Encode(p))), Len(Append(ps, p))) = Len(b \o Encode(p))
<1> DEFINE d == b \o Encode(p)
           qs == Append(ps, p)
           fs == Append(es, Len(d))
           m == Len(ps)
<1>1. Encode(p) \in Seq(Bytes) /\ Len(Encode(p)) \in Nat /\ m \in Nat /\ Len(b) \in Nat
  BY EncodeTypes
<1>2. /\ d \in Seq(Bytes) /\ Len(d) = Len(b) + Len(Encode(p)) /\ Len(d) \in Nat
      /\ \A j \in 1 .. Len(b) : d[j] = b[j]
      /\ \A j \in 1 .. Len(Encode(p)) : d[Len(b) + j] = Encode(p)[j]
  BY <1>1, Concat
<1>3. /\ Len(qs) = m + 1 /\ qs[m + 1] = p /\ \A k \in 1 .. m : qs[k] = ps[k]
  BY AppendProperties
<1>4. Len(es) = m
  BY DEF Spells
<1>5. /\ Len(fs) = m + 1 /\ fs[m + 1] = Len(d) /\ \A k \in 1 .. m : fs[k] = es[k]
  BY <1>2, <1>4, AppendProperties
<1> HIDE DEF d, qs, fs
<1>6. StartIn(fs, m + 1) = Len(d) /\ \A k \in 0 .. m : StartIn(fs, k) = StartIn(es, k)
  BY <1>1, <1>5 DEF StartIn
<1>7. Spells(ps, es, d)
  <2>1. Len(b) <= Len(d)
    BY <1>1, <1>2
  <2> QED BY <1>2, <2>1, SpellsLonger
<1> HIDE DEF m
<1>8. ASSUME NEW k \in 1 .. m
      PROVE  /\ fs[k] = StartIn(fs, k - 1) + Len(Encode(qs[k]))
             /\ fs[k] <= Len(d)
             /\ \A j \in 1 .. Len(Encode(qs[k])) : d[StartIn(fs, k - 1) + j] = Encode(qs[k])[j]
  <2>1. k - 1 \in 0 .. m /\ k \in 0 .. m /\ StartIn(es, k) = es[k] /\ m \in 0 .. m
    BY <1>1, <1>8 DEF StartIn
  <2>2. StartIn(es, k) \in Nat /\ StartIn(es, k) <= Len(b)
    BY <2>1, StartInNat DEF m
  <2>3. /\ es[k] = StartIn(es, k - 1) + Len(Encode(ps[k]))
        /\ \A j \in 1 .. Len(Encode(ps[k])) : d[StartIn(es, k - 1) + j] = Encode(ps[k])[j]
    BY <1>7 DEF Spells, m
  <2>4. fs[k] = es[k] /\ qs[k] = ps[k] /\ StartIn(fs, k - 1) = StartIn(es, k - 1)
    BY <1>3, <1>5, <1>6, <2>1
  <2>5. es[k] <= Len(d)
    BY <1>1, <1>2, <2>1, <2>2
  <2> QED BY <2>3, <2>4, <2>5
<1>9. /\ fs[m + 1] = StartIn(fs, (m + 1) - 1) + Len(Encode(qs[m + 1]))
      /\ fs[m + 1] <= Len(d)
      /\ \A j \in 1 .. Len(Encode(qs[m + 1])) :
           d[StartIn(fs, (m + 1) - 1) + j] = Encode(qs[m + 1])[j]
  <2>1. (m + 1) - 1 = m /\ m \in 0 .. m
    BY <1>1
  <2>2. StartIn(fs, (m + 1) - 1) = Len(b)
    BY <1>6, <2>1 DEF m
  <2> QED BY <1>2, <1>3, <1>5, <2>2
<1>10. Spells(qs, fs, d)
  <2>1. Len(fs) = Len(qs) /\ StartIn(fs, Len(qs)) = Len(d) /\ Len(d) <= Len(d)
    BY <1>2, <1>3, <1>5, <1>6
  <2>2. \A k \in 1 .. Len(qs) : k \in 1 .. m \/ k = m + 1
    BY <1>1, <1>3
  <2> QED BY <1>8, <1>9, <2>1, <2>2 DEF Spells
<1> QED BY <1>3, <1>6, <1>10 DEF d, qs, fs

LEMMA StartNat ==
  ASSUME TypePeers, NEW c \in Conns, StreamShape(c), NEW k \in 0 .. Len(sent[c])
  PROVE  Start(c, k) \in Nat /\ Start(c, k) <= Len(stream[c])
<1>1. sent[c] \in Seq(Packets) /\ ends[c] \in Seq(Nat) /\ stream[c] \in Seq(Bytes)
  BY DEF TypePeers
<1>2. Spells(sent[c], ends[c], stream[c]) /\ Start(c, k) = StartIn(ends[c], k)
  BY DEF StreamShape, Start
<1>3. Len(sent[c]) \in Nat /\ Len(stream[c]) \in Nat /\ Len(sent[c]) \in 0 .. Len(sent[c])
  BY <1>1
<1>4. /\ StartIn(ends[c], k) \in Nat /\ StartIn(ends[c], Len(sent[c])) \in Nat
      /\ StartIn(ends[c], k) <= StartIn(ends[c], Len(sent[c]))
  BY <1>1, <1>2, <1>3, StartInNat
<1>5. StartIn(ends[c], Len(sent[c])) <= Len(stream[c])
  BY <1>2 DEF Spells
<1> QED BY <1>2, <1>3, <1>4, <1>5

\* What is there stays as it is.
PeerGrows(c) ==
  /\ Len(sent[c]) <= Len(sent'[c])
  /\ \A k \in 1 .. Len(sent[c]) : sent'[c][k] = sent[c][k] /\ ends'[c][k] = ends[c][k]
  /\ Len(stream[c]) <= Len(stream'[c])
  /\ \A j \in 1 .. Len(stream[c]) : stream'[c][j] = stream[c][j]
  /\ sent'[c] # sent[c] => peer[c] = "up"
  /\ peer[c] = "gone" => peer'[c] = "gone"

LEMMA SendsStream ==
  ASSUME TypeOK, NEW c \in Conns, StreamShape(c), NEW p \in Packets, PeerSends(c, p)
  PROVE  StreamShape(c)' /\ PeerGrows(c)
<1>1. TypePeers
  BY TypeParts
<1>2. /\ sent[c] \in Seq(Packets) /\ ends[c] \in Seq(Nat) /\ stream[c] \in Seq(Bytes)
      /\ Encode(p) \in Seq(Bytes) /\ Spells(sent[c], ends[c], stream[c])
      /\ Len(ends[c]) = Len(sent[c]) /\ Len(stream[c]) = StartIn(ends[c], Len(sent[c]))
  BY <1>1, EncodeTypes DEF TypePeers, StreamShape, PeerSends, Start, Spells
<1>3. /\ sent'[c] = Append(sent[c], p) /\ stream'[c] = stream[c] \o Encode(p)
      /\ ends'[c] = Append(ends[c], Len(stream'[c])) /\ peer'[c] = "up" /\ peer[c] = "up"
  BY <1>1 DEF PeerSends, TypePeers
<1>4. /\ Spells(sent'[c], ends'[c], stream'[c])
      /\ StartIn(ends'[c], Len(sent'[c])) = Len(stream'[c])
  <2> DEFINE d == stream[c] \o Encode(p)
  <2>1. /\ Spells(Append(sent[c], p), Append(ends[c], Len(d)), d)
        /\ StartIn(Append(ends[c], Len(d)), Len(Append(sent[c], p))) = Len(d)
    BY <1>2, SpellsMore
  <2>2. ends'[c] = Append(ends[c], Len(d))
    BY <1>3, Zenon
  <2> HIDE DEF d
  <2>3. stream'[c] = d
    BY <1>3 DEF d
  <2> QED BY <1>3, <2>1, <2>2, <2>3, Zenon
<1>5. StreamShape(c)'
  BY <1>3, <1>4 DEF StreamShape, Start, Breaks
<1>6. /\ Len(sent[c]) <= Len(sent'[c])
      /\ \A k \in 1 .. Len(sent[c]) : sent'[c][k] = sent[c][k]
  BY <1>2, <1>3, AppendProperties
<1>7. \A k \in 1 .. Len(ends[c]) : ends'[c][k] = ends[c][k]
  <2>1. Len(stream'[c]) \in Nat
    BY <1>2, <1>3, Concat
  <2> QED BY <1>2, <1>3, <2>1, AppendProperties
<1>8. /\ Len(stream[c]) <= Len(stream'[c])
      /\ \A j \in 1 .. Len(stream[c]) : stream'[c][j] = stream[c][j]
  BY <1>2, <1>3
<1> QED BY <1>2, <1>3, <1>5, <1>6, <1>7, <1>8 DEF PeerGrows

LEMMA LeavesStream ==
  ASSUME TypeOK, NEW c \in Conns, StreamShape(c), NEW p \in Packets, NEW n \in Cuts,
         PeerLeaves(c, p, n)
  PROVE  StreamShape(c)' /\ PeerGrows(c)
<1>1. TypePeers
  BY TypeParts
<1> DEFINE s == SubSeq(Encode(p), 1, n)
           L == Len(stream[c])
<1>2. /\ sent[c] \in Seq(Packets) /\ ends[c] \in Seq(Nat) /\ stream[c] \in Seq(Bytes)
      /\ Encode(p) \in Seq(Bytes) /\ Spells(sent[c], ends[c], stream[c])
      /\ n \in Nat /\ n < Len(Encode(p)) /\ L \in Nat /\ Len(Encode(p)) \in Nat
  BY <1>1, EncodeTypes, TransportAssumption DEF TypePeers, StreamShape, PeerLeaves
<1>3. L = Start(c, Len(sent[c]))
  BY DEF PeerLeaves, StreamShape
<1>4. s \in Seq(Bytes) /\ Len(s) = n /\ \A j \in 1 .. n : s[j] = Encode(p)[j]
  BY <1>2
<1>5. /\ sent' = sent /\ stream'[c] = stream[c] \o s /\ ends' = ends /\ peer'[c] = "gone"
      /\ peer[c] = "up"
  BY <1>1 DEF PeerLeaves, TypePeers
<1> HIDE DEF s, L
<1>6. /\ stream'[c] \in Seq(Bytes) /\ Len(stream'[c]) = L + n
      /\ \A j \in 1 .. L : stream'[c][j] = stream[c][j]
      /\ \A j \in 1 .. n : stream'[c][L + j] = s[j]
  <2>1. /\ stream[c] \o s \in Seq(Bytes) /\ Len(stream[c] \o s) = L + n
        /\ \A j \in 1 .. L : (stream[c] \o s)[j] = stream[c][j]
        /\ \A j \in 1 .. n : (stream[c] \o s)[L + j] = s[j]
    <3>1. stream[c] \in Seq(Bytes) /\ s \in Seq(Bytes) /\ L = Len(stream[c]) /\ n = Len(s)
      BY <1>2, <1>4 DEF L
    <3> QED BY ONLY <3>1, Concat
  <2> QED BY <1>5, <2>1, Zenon
<1>7. L <= Len(stream'[c]) /\ Len(stream'[c]) - L = n /\ Len(stream'[c]) < L + Len(Encode(p))
  BY <1>2, <1>6
<1>8. Spells(sent[c], ends[c], stream'[c])
  BY <1>2, <1>6, <1>7, SpellsLonger DEF L
<1>9. Breaks(L, stream'[c])
  BY <1>4, <1>6, <1>7 DEF Breaks
<1>10. Start(c, Len(sent[c]))' = L
  BY <1>3, <1>5 DEF Start
<1>11. StreamShape(c)'
  BY <1>5, <1>8, <1>9, <1>10, Zenon DEF StreamShape
<1>12. Len(sent[c]) <= Len(sent[c])
  BY <1>2
<1> QED BY <1>5, <1>6, <1>7, <1>11, <1>12 DEF PeerGrows, L

LEMMA StreamSame ==
  ASSUME TypePeers, NEW c \in Conns, StreamShape(c), sent'[c] = sent[c], stream'[c] = stream[c],
         ends'[c] = ends[c], peer'[c] = "gone" <=> peer[c] = "gone"
  PROVE  StreamShape(c)' /\ PeerGrows(c)
<1>1. StreamShape(c)'
  BY DEF StreamShape, Start
<1>2. Len(sent[c]) \in Nat /\ Len(stream[c]) \in Nat
  BY DEF TypePeers
<1> QED BY <1>1, <1>2 DEF PeerGrows

LEMMA PeersStream ==
  ASSUME TypeOK, NEW c \in Conns, StreamShape(c), PeerStep
  PROVE  StreamShape(c)' /\ PeerGrows(c)
<1>1. TypePeers
  BY TypeParts
<1>2. ASSUME NEW d \in Conns, PeerConnects(d)
      PROVE  StreamShape(c)' /\ PeerGrows(c)
  BY <1>1, <1>2, StreamSame DEF PeerConnects, TypePeers
<1>3. ASSUME NEW d \in Conns, NEW p \in Packets, PeerSends(d, p)
      PROVE  StreamShape(c)' /\ PeerGrows(c)
  <2>1. CASE c = d
    BY <1>3, <2>1, SendsStream
  <2>2. CASE c # d
    BY <1>1, <1>3, <2>2, StreamSame DEF PeerSends, TypePeers
  <2> QED BY <2>1, <2>2
<1>4. ASSUME NEW d \in Conns, NEW p \in Packets, NEW n \in Cuts, PeerLeaves(d, p, n)
      PROVE  StreamShape(c)' /\ PeerGrows(c)
  <2>1. CASE c = d
    BY <1>4, <2>1, LeavesStream
  <2>2. CASE c # d
    BY <1>1, <1>4, <2>2, StreamSame DEF PeerLeaves, TypePeers
  <2> QED BY <2>1, <2>2
<1> QED BY <1>2, <1>3, <1>4 DEF PeerStep

-----------------------------------------------------------------------------
(***************************************************************************)
(* What is in a buffer.                                                    *)
(***************************************************************************)

\* What the buffer of an open connection begins with, as numbers.
LEMMA BufferFacts ==
  ASSUME TypeOK, TransportInv, NEW c \in conn
  PROVE  /\ c \in Conns /\ StreamShape(c) /\ BufferShape(c)
         /\ buf[c] \in Seq(Bytes) /\ Len(buf[c]) \in Nat /\ len[c] \in Nat
         /\ taken[c] \in Nat /\ Len(stream[c]) \in Nat /\ Len(sent[c]) \in Nat
         /\ sent[c] \in Seq(Packets) /\ ends[c] \in Seq(Nat) /\ stream[c] \in Seq(Bytes)
         /\ Len(log[c]) - 1 \in 0 .. Len(sent[c]) /\ Len(log[c]) \in Nat
         /\ Start(c, Len(log[c]) - 1) \in Nat /\ Start(c, Len(sent[c])) \in Nat
<1>1. TypePeers /\ TypeSockets /\ TypeBuffers /\ TypeEvents
  BY TypeParts
<1>2. c \in Conns
  BY <1>1 DEF TypeSockets
<1>3. StreamShape(c) /\ BufferShape(c)
  BY <1>2 DEF TransportInv
<1>4. /\ buf[c] \in Seq(Bytes) /\ Len(buf[c]) \in Nat /\ len[c] \in Nat
      /\ taken[c] \in Nat /\ Len(stream[c]) \in Nat /\ Len(sent[c]) \in Nat
      /\ sent[c] \in Seq(Packets) /\ ends[c] \in Seq(Nat) /\ stream[c] \in Seq(Bytes)
      /\ Len(log[c]) \in Nat
  BY <1>1, <1>2 DEF TypePeers, TypeBuffers, TypeEvents
<1>5. Len(log[c]) - 1 \in 0 .. Len(sent[c]) /\ Len(sent[c]) \in 0 .. Len(sent[c])
  BY <1>3, <1>4 DEF BufferShape
<1>6. Start(c, Len(log[c]) - 1) \in Nat /\ Start(c, Len(sent[c])) \in Nat
  BY <1>1, <1>2, <1>3, <1>5, StartNat
<1> QED BY <1>2, <1>3, <1>4, <1>5, <1>6

\* The k-th packet in the stream.
LEMMA PacketAt ==
  ASSUME TypePeers, NEW c \in Conns, StreamShape(c), NEW k \in 1 .. Len(sent[c])
  PROVE  /\ sent[c][k] \in Packets
         /\ Start(c, k) = Start(c, k - 1) + Len(Encode(sent[c][k]))
         /\ Start(c, k) <= Start(c, Len(sent[c])) /\ Start(c, k) \in Nat
         /\ \A j \in 1 .. Len(Encode(sent[c][k])) :
              stream[c][Start(c, k - 1) + j] = Encode(sent[c][k])[j]
<1>1. sent[c][k] \in Packets /\ k \in 0 .. Len(sent[c]) /\ k # 0
  BY ElementOfSeq DEF TypePeers
<1>2. Start(c, k) = ends[c][k] /\ Start(c, k) \in Nat
  BY <1>1, StartNat DEF Start, StartIn
<1> QED BY <1>1, <1>2 DEF StreamShape, Spells, Start

\* A packet that can be taken out is one that was sent, and the next one.
LEMMA NextPacket ==
  ASSUME TypeOK, TransportInv, NEW c \in conn, HavePacket(c)
  PROVE  LET k == Len(log[c])
         IN  /\ k \in 1 .. Len(sent[c]) /\ sent[c][k] \in Packets
             /\ len[c] = Len(sent[c][k])
             /\ Start(c, k) = Start(c, k - 1) + Header + len[c]
             /\ SubSeq(buf[c], Header + 1, Header + len[c]) = sent[c][k]
<1> DEFINE k == Len(log[c])
           B == Start(c, k - 1)
<1>1. /\ c \in Conns /\ StreamShape(c) /\ BufferShape(c)
      /\ buf[c] \in Seq(Bytes) /\ Len(buf[c]) \in Nat /\ len[c] \in Nat
      /\ taken[c] \in Nat /\ Len(stream[c]) \in Nat /\ Len(sent[c]) \in Nat
      /\ k - 1 \in 0 .. Len(sent[c]) /\ B \in Nat /\ k \in Nat /\ TypePeers
  BY BufferFacts, TypeParts
<1>2. Header \in Nat \ {0} /\ Header + len[c] <= Len(buf[c])
  BY <1>1 DEF HavePacket, Header
<1>3. /\ Len(buf[c]) = taken[c] - B /\ taken[c] <= Len(stream[c]) /\ len[c] = LengthOf(buf[c])
      /\ \A j \in 1 .. Len(buf[c]) : buf[c][j] = stream[c][B + j]
  BY <1>1 DEF BufferShape
<1> HIDE DEF k, B
<1>4. Header <= Len(buf[c]) /\ B + Header + len[c] <= Len(stream[c])
  BY <1>1, <1>2, <1>3
<1>5. ASSUME NEW p \in Packets,
             \A j \in 1 .. Len(stream[c]) - B : j <= Len(Encode(p)) =>
               stream[c][B + j] = Encode(p)[j]
      PROVE  len[c] = Len(p)
  <2>1. Header <= Len(Encode(p)) /\ Len(Encode(p)) \in Nat
    BY EncodeTypes
  <2>2. \A j \in 1 .. Header : buf[c][j] = Encode(p)[j]
    <3>1. \A j \in 1 .. Header : j \in 1 .. Len(buf[c]) /\ j \in 1 .. Len(stream[c]) - B
                                 /\ j <= Len(Encode(p))
      BY <1>1, <1>2, <1>4, <2>1
    <3> QED BY <1>3, <1>5, <3>1
  <2> QED BY <1>1, <1>3, <1>4, <2>2, LengthOfEncoded
<1>6. CASE k - 1 = Len(sent[c])
  <2>1. B = Start(c, Len(sent[c])) /\ Len(stream[c]) # B
    BY <1>1, <1>2, <1>4, <1>6 DEF B
  <2>2. PICK p \in Packets :
          /\ Len(stream[c]) < B + Len(Encode(p))
          /\ \A j \in 1 .. Len(stream[c]) - B : stream[c][B + j] = Encode(p)[j]
    BY <1>1, <2>1 DEF StreamShape, Breaks
  <2>3. len[c] = Len(p) /\ Len(Encode(p)) = Header + Len(p)
    BY <1>5, <2>2, EncodeProperties
  <2> QED BY <1>1, <1>2, <1>4, <2>2, <2>3
<1>7. CASE k \in 1 .. Len(sent[c])
  <2> DEFINE q == sent[c][k]
  <2>1. /\ q \in Packets /\ Start(c, k) = B + Len(Encode(q))
        /\ \A j \in 1 .. Len(Encode(q)) : stream[c][B + j] = Encode(q)[j]
    BY <1>1, <1>7, PacketAt DEF B
  <2>2. q \in Seq(Bytes) /\ Len(Encode(q)) = Header + Len(q) /\ Len(q) \in Nat
        /\ \A j \in 1 .. Len(q) : Encode(q)[Header + j] = q[j]
    BY <2>1, EncodeProperties
  <2> HIDE DEF q
  <2>3. len[c] = Len(q)
    <3>1. \A j \in 1 .. Len(stream[c]) - B : j <= Len(Encode(q)) => j \in 1 .. Len(Encode(q))
      BY <1>1, <1>2, <2>2
    <3> QED BY <1>5, <2>1, <3>1
  <2>4. Start(c, k) = B + Header + len[c]
    BY <1>1, <1>2, <2>1, <2>2, <2>3
  <2>5. SubSeq(buf[c], Header + 1, Header + len[c]) = q
    <3> DEFINE s == SubSeq(buf[c], Header + 1, Header + len[c])
    <3>1. s \in Seq(Bytes) /\ Len(s) = len[c] /\ \A j \in 1 .. len[c] : s[j] = buf[c][Header + j]
      <4>1. /\ buf[c] \in Seq(Bytes) /\ Header \in Nat /\ Header + len[c] \in Nat
            /\ Header <= Header + len[c] /\ Header + len[c] <= Len(buf[c])
            /\ (Header + len[c]) - Header = len[c]
        BY <1>1, <1>2
      <4> DEFINE h == Header + len[c]
      <4> HIDE DEF h
      <4>2. /\ SubSeq(buf[c], Header + 1, h) \in Seq(Bytes)
            /\ Len(SubSeq(buf[c], Header + 1, h)) = h - Header
            /\ \A j \in 1 .. h - Header : SubSeq(buf[c], Header + 1, h)[j] = buf[c][Header + j]
        BY <4>1, SubBytes DEF h
      <4> QED BY <4>1, <4>2, Zenon DEF h
    <3> HIDE DEF s
    <3>2. ASSUME NEW j \in 1 .. Len(q)
          PROVE  s[j] = q[j]
      <4>1. Header + j \in 1 .. Len(buf[c]) /\ Header + j \in 1 .. Len(Encode(q))
        BY <1>1, <1>2, <2>2, <2>3
      <4> QED BY <1>3, <2>1, <2>2, <2>3, <3>1, <4>1
    <3>3. s = q
      BY <2>2, <2>3, <3>1, <3>2, SeqEqual
    <3> QED BY <3>3 DEF s
  <2> QED BY <1>7, <2>1, <2>3, <2>4, <2>5 DEF k, B, q
<1> QED BY <1>1, <1>6, <1>7

\* A packet that has come can be taken out.
LEMMA PacketCame ==
  ASSUME TypeOK, TransportInv, NEW c \in conn, Len(log[c]) <= Len(sent[c]),
         Start(c, Len(log[c])) <= taken[c]
  PROVE  HavePacket(c)
<1> DEFINE k == Len(log[c])
           B == Start(c, k - 1)
           q == sent[c][k]
<1>1. /\ c \in Conns /\ StreamShape(c) /\ BufferShape(c)
      /\ buf[c] \in Seq(Bytes) /\ Len(buf[c]) \in Nat /\ len[c] \in Nat
      /\ taken[c] \in Nat /\ Len(stream[c]) \in Nat /\ Len(sent[c]) \in Nat
      /\ k - 1 \in 0 .. Len(sent[c]) /\ B \in Nat /\ k \in Nat /\ TypePeers
  BY BufferFacts, TypeParts
<1>2. k \in 1 .. Len(sent[c])
  BY <1>1
<1>3. /\ q \in Packets /\ Start(c, k) = B + Len(Encode(q)) /\ Start(c, k) \in Nat
      /\ \A j \in 1 .. Len(Encode(q)) : stream[c][B + j] = Encode(q)[j]
  BY <1>1, <1>2, PacketAt
<1>4. Len(Encode(q)) = Header + Len(q) /\ Len(q) \in Nat /\ Header \in Nat
  BY <1>3, EncodeProperties, EncodeTypes
<1>5. /\ Len(buf[c]) = taken[c] - B /\ len[c] = LengthOf(buf[c])
      /\ \A j \in 1 .. Len(buf[c]) : buf[c][j] = stream[c][B + j]
  BY <1>1 DEF BufferShape
<1> HIDE DEF k, B, q
<1>6. Header + Len(q) <= Len(buf[c])
  BY <1>1, <1>3, <1>4, <1>5 DEF k
<1>7. \A j \in 1 .. Header : buf[c][j] = Encode(q)[j]
  <2>1. \A j \in 1 .. Header : j \in 1 .. Len(buf[c]) /\ j \in 1 .. Len(Encode(q))
    BY <1>1, <1>4, <1>6
  <2> QED BY <1>3, <1>5, <2>1
<1>8. Len(buf[c]) >= Header
  BY <1>1, <1>4, <1>6
<1>9. LengthOf(buf[c]) = Len(q)
  BY <1>1, <1>3, <1>7, <1>8, LengthOfEncoded
<1>10. Len(buf[c]) >= len[c] + Header
  BY <1>1, <1>4, <1>5, <1>6, <1>9
<1> QED BY <1>10 DEF HavePacket

-----------------------------------------------------------------------------
(***************************************************************************)
(* Events and buffers.                                                     *)
(***************************************************************************)

LEMMA LogSame ==
  ASSUME TypeOK, NEW c \in Conns, LogShape(c), PeerGrows(c), log'[c] = log[c]
  PROVE  LogShape(c)'
<1>1. Len(log[c]) \in Nat /\ Len(sent[c]) \in Nat
  BY TypeParts DEF TypeEvents, TypePeers
<1>2. CASE sent'[c] = sent[c]
  BY <1>2 DEF LogShape, PeerGrows, Entry
<1>3. CASE sent'[c] # sent[c]
  <2>1. Len(log[c]) <= Len(sent[c]) + 1 /\ Len(sent[c]) <= Len(sent'[c])
        /\ \A k \in 1 .. Len(sent[c]) : sent'[c][k] = sent[c][k]
    BY <1>1, <1>3 DEF PeerGrows, LogShape
  <2>2. Len(log'[c]) # Len(sent'[c]) + 2 /\ Len(log'[c]) <= Len(sent'[c]) + 2
    <3>1. Len(sent'[c]) \in Nat \/ Len(sent'[c]) \notin Nat
      OBVIOUS
    <3> QED BY <1>1, <2>1
  <2>3. ASSUME NEW n \in 1 .. Len(log[c])
        PROVE  Entry(c, n)' = Entry(c, n)
    <3>1. CASE n = 1
      BY <3>1 DEF Entry
    <3>2. CASE n # 1
      <4>1. n - 1 \in 1 .. Len(sent[c]) /\ n <= Len(sent[c]) + 1 /\ n <= Len(sent'[c]) + 1
        BY <1>1, <2>1, <3>2
      <4> QED BY <2>1, <3>2, <4>1 DEF Entry
    <3> QED BY <3>1, <3>2
  <2> QED BY <2>2, <2>3 DEF LogShape
<1> QED BY <1>2, <1>3

LEMMA LogPushed ==
  ASSUME TypeOK, NEW c \in Conns, LogShape(c), NEW event \in Entries, Push(c, event),
         event = Entry(c, Len(log[c]) + 1), UNCHANGED <<peer, sent>>,
         Len(log[c]) <= Len(sent[c]) + 1, Len(log[c]) = Len(sent[c]) + 1 => peer[c] = "gone"
  PROVE  LogShape(c)' /\ Len(log'[c]) = Len(log[c]) + 1
<1>1. log[c] \in Seq(Entries) /\ Len(log[c]) \in Nat /\ Len(sent[c]) \in Nat
  BY TypeParts DEF TypeEvents, TypePeers
<1>2. log'[c] = Append(log[c], event)
  BY TypeParts DEF Push, TypeEvents
<1>3. /\ Len(log'[c]) = Len(log[c]) + 1 /\ log'[c][Len(log[c]) + 1] = event
      /\ \A n \in 1 .. Len(log[c]) : log'[c][n] = log[c][n]
  BY <1>1, <1>2, AppendProperties
<1>4. \A n : Entry(c, n)' = Entry(c, n)
  BY DEF Entry
<1>5. \A n \in 1 .. Len(log'[c]) : log'[c][n] = Entry(c, n)
  <2>1. \A n \in 1 .. Len(log'[c]) : n \in 1 .. Len(log[c]) \/ n = Len(log[c]) + 1
    BY <1>1, <1>3
  <2> QED BY <1>3, <2>1 DEF LogShape
<1>6. Len(log'[c]) <= Len(sent[c]) + 2 /\ (Len(log'[c]) = Len(sent[c]) + 2 => peer[c] = "gone")
  BY <1>1, <1>3
<1> QED BY <1>3, <1>4, <1>5, <1>6 DEF LogShape

LEMMA BufferSame ==
  ASSUME TypeOK, TransportInv, NEW c \in conn, PeerGrows(c), log'[c] = log[c], buf'[c] = buf[c],
         len'[c] = len[c], taken'[c] = taken[c], HavePacket(c) => pc' = "parse" /\ cur' = c
  PROVE  BufferShape(c)'
<1> DEFINE k == Len(log[c]) - 1
           B == Start(c, k)
<1>1. /\ c \in Conns /\ StreamShape(c) /\ BufferShape(c) /\ k \in 0 .. Len(sent[c])
      /\ Len(buf[c]) \in Nat /\ taken[c] \in Nat /\ B \in Nat /\ Len(sent[c]) \in Nat
      /\ Len(stream[c]) \in Nat /\ Len(log[c]) \in Nat
  BY BufferFacts
<1>2. B' = B
  <2>1. k' = k
    OBVIOUS
  <2> HIDE DEF k
  <2>2. k # 0 => k \in 1 .. Len(sent[c])
    <3>1. k \in 0 .. Len(sent[c]) /\ Len(sent[c]) \in Nat
      BY <1>1
    <3> QED BY ONLY <3>1
  <2>3. k # 0 => ends'[c][k] = ends[c][k]
    BY <2>2 DEF PeerGrows
  <2> QED BY <2>1, <2>3 DEF Start, StartIn
<1>3. /\ Len(log[c]) \in 1 .. Len(sent[c]) + 1 /\ B <= taken[c] /\ taken[c] <= Len(stream[c])
      /\ Len(buf[c]) = taken[c] - B /\ len[c] = LengthOf(buf[c])
      /\ \A j \in 1 .. Len(buf[c]) : buf[c][j] = stream[c][B + j]
  BY <1>1 DEF BufferShape
<1>4. Len(log[c]) \in 1 .. Len(sent'[c]) + 1
  <2>1. sent'[c] = sent[c] \/ sent'[c] # sent[c]
    OBVIOUS
  <2> QED BY <1>1, <1>3 DEF PeerGrows
<1> HIDE DEF k, B
<1>5. \A j \in 1 .. Len(buf[c]) : B + j \in 1 .. Len(stream[c])
  BY <1>1, <1>3
<1>6. \A j \in 1 .. Len(buf[c]) : buf[c][j] = stream'[c][B + j]
  BY <1>3, <1>5 DEF PeerGrows
<1>7. taken[c] <= Len(stream'[c])
  BY <1>1, <1>3 DEF PeerGrows
<1>8. HavePacket(c)' = HavePacket(c)
  BY DEF HavePacket
<1> QED BY <1>2, <1>3, <1>4, <1>6, <1>7, <1>8 DEF BufferShape, k, B

Shapes ==
  /\ \A c \in Conns : StreamShape(c) /\ LogShape(c)
  /\ \A c \in conn : BufferShape(c)

\* Peers write.
LEMMA ShapesPeers ==
  ASSUME TypeOK, TransportInv, PeerStep
  PROVE  Shapes'
<1>1. UNCHANGED <<log, buf, len, taken, conn, pc, cur>>
  BY DEF PeerStep, PeerConnects, PeerSends, PeerLeaves, bufVars, connVars, pollVars
<1>2. \A c \in Conns : StreamShape(c)' /\ PeerGrows(c) /\ LogShape(c)'
  BY <1>1, PeersStream, LogSame DEF TransportInv
<1>3. ASSUME NEW c \in conn
      PROVE  BufferShape(c)'
  <2>1. c \in Conns /\ BufferShape(c)
    BY BufferFacts
  <2>2. HavePacket(c) => pc' = "parse" /\ cur' = c
    BY <1>1, <2>1 DEF BufferShape
  <2> QED BY <1>1, <1>2, <2>1, <2>2, BufferSame
<1> QED BY <1>1, <1>2, <1>3 DEF Shapes

\* Nothing is received.
LEMMA ShapesStill ==
  ASSUME TypeOK, TransportInv, UNCHANGED <<peerVars, log, buf, len, taken>>, conn' \subseteq conn,
         \A c \in conn : HavePacket(c) => pc' = "parse" /\ cur' = c
  PROVE  Shapes'
<1>1. \A c \in Conns : StreamShape(c)' /\ PeerGrows(c) /\ LogShape(c)'
  BY TypeParts, StreamSame, LogSame DEF TransportInv, peerVars
<1>2. \A c \in conn : c \in Conns /\ BufferShape(c)'
  BY <1>1, BufferFacts, BufferSame
<1> QED BY <1>1, <1>2 DEF Shapes

LEMMA ShapesThread ==
  ASSUME TypeOK, TransportInv,
         ThreadStep \/ \E c \in Conns : PopStep(c) \/ SendCommand(c)
  PROVE  Shapes'
<1>1. UNCHANGED <<peerVars, log, buf, len, taken>>
  BY Zenon DEF ThreadStep, SelectTimesOut, Select, ParseEnds, RoundEnds, DispatchEnds,
     SendCommand, PopStep, Greet, Refuse, Identify, Deliver, Forget, CallbackThrows, Pop, bufVars
<1>2. conn' \subseteq conn
  BY DEF ThreadStep, SelectTimesOut, Select, ParseEnds, RoundEnds, DispatchEnds,
     SendCommand, PopStep, Greet, Refuse, Identify, Deliver, Forget, CallbackThrows, Close, connVars
<1>3. ASSUME NEW c \in conn, HavePacket(c)
      PROVE  pc' = "parse" /\ cur' = c
  <2>1. pc = "parse" /\ cur = c
    BY <1>3, BufferFacts DEF BufferShape
  <2> QED BY <1>3, <2>1 DEF ThreadStep, SelectTimesOut, Select, ParseEnds, RoundEnds, DispatchEnds,
          SendCommand, PopStep, Greet, Refuse, Identify, Deliver, Forget, CallbackThrows, Pop,
          pollVars
<1> QED BY <1>1, <1>2, <1>3, ShapesStill

\* The shapes of connections that a step of another one does not touch.
LEMMA ShapesOthers ==
  ASSUME TypeOK, TransportInv, NEW c \in Conns, UNCHANGED peerVars,
         conn' \subseteq conn \cup {c},
         \A d \in Conns : d # c =>
           log'[d] = log[d] /\ buf'[d] = buf[d] /\ len'[d] = len[d] /\ taken'[d] = taken[d],
         pc = "parse" => cur = c,
         LogShape(c)', c \in conn' => BufferShape(c)'
  PROVE  Shapes'
<1>1. \A d \in Conns : StreamShape(d)' /\ PeerGrows(d)
  BY TypeParts, StreamSame DEF TransportInv, peerVars
<1>2. \A d \in Conns : LogShape(d)'
  BY <1>1, LogSame DEF TransportInv
<1>3. ASSUME NEW d \in conn, d # c
      PROVE  BufferShape(d)'
  <2>1. d \in Conns /\ ~HavePacket(d)
    BY <1>3, BufferFacts DEF BufferShape
  <2> QED BY <1>1, <1>3, <2>1, BufferSame
<1> QED BY <1>1, <1>2, <1>3 DEF Shapes

LEMMA ShapesAccept ==
  ASSUME TypeOK, TransportInv, NEW f \in Fds, SelectAccepts(f)
  PROVE  Shapes'
<1>1. PICK c \in Conns :
        /\ c = Head(backlog) /\ c \notin conn /\ peer[c] # "new"
        /\ log[c] = <<>> /\ buf[c] = <<>> /\ len[c] = 0 /\ taken[c] = 0
  BY AcceptNew
<1>2. /\ UNCHANGED <<peerVars, taken, buf, len>> /\ conn' = conn \cup {c} /\ pc = "select"
      /\ Push(c, Channel!Connect)
  BY <1>1 DEF SelectAccepts, bufVars
<1>3. TypePeers /\ TypeEvents /\ LogShape(c) /\ StreamShape(c) /\ Channel!Connect \in Entries
  BY <1>1, TypeParts, ChannelEntries DEF TransportInv
<1>4. Len(log[c]) = 0 /\ Len(buf[c]) = 0 /\ Len(sent[c]) \in Nat /\ Len(stream[c]) \in Nat
      /\ Channel!Connect = Entry(c, Len(log[c]) + 1)
  BY <1>1, <1>3 DEF TypePeers, Entry
<1>5. Len(log[c]) <= Len(sent[c]) + 1 /\ (Len(log[c]) = Len(sent[c]) + 1 => peer[c] = "gone")
      /\ UNCHANGED <<peer, sent>>
  BY <1>2, <1>4 DEF peerVars
<1>6. LogShape(c)' /\ Len(log'[c]) = 1
  <2>1. LogShape(c)' /\ Len(log'[c]) = Len(log[c]) + 1
    BY <1>1, <1>2, <1>3, <1>4, <1>5, LogPushed
  <2> QED BY <2>1, <1>4
<1>7. BufferShape(c)'
  <2>1. buf'[c] = <<>> /\ len'[c] = 0 /\ taken'[c] = 0 /\ sent'[c] = sent[c] /\ stream'[c] = stream[c]
    BY <1>1, <1>2 DEF peerVars
  <2>2. Len(log'[c]) - 1 = 0
    BY <1>6
  <2>3. Start(c, Len(log[c]) - 1)' = 0
    BY <2>2 DEF Start, StartIn
  <2>4. ~(Len(buf'[c]) >= Header) /\ ~(Len(buf'[c]) >= len'[c] + Header)
    BY <2>1, <1>4 DEF Header
  <2>5. LengthOf(buf'[c]) = 0 /\ ~HavePacket(c)'
    BY <2>4, Zenon DEF LengthOf, HavePacket
  <2>6. /\ Len(log'[c]) \in 1 .. Len(sent'[c]) + 1 /\ 0 <= Len(stream'[c])
        /\ Len(buf'[c]) = 0 - 0 /\ \A j \in 1 .. Len(buf'[c]) : FALSE
    BY <1>4, <1>6, <2>1
  <2> QED BY <2>1, <2>3, <2>5, <2>6 DEF BufferShape
<1>8. \A d \in Conns : d # c =>
        log'[d] = log[d] /\ buf'[d] = buf[d] /\ len'[d] = len[d] /\ taken'[d] = taken[d]
  BY <1>2, <1>3 DEF Push, TypeEvents
<1>9. conn' \subseteq conn \cup {c} /\ UNCHANGED peerVars /\ pc # "parse"
  BY <1>2
<1> QED BY <1>1, <1>6, <1>7, <1>8, <1>9, ShapesOthers

LEMMA ShapesEnds ==
  ASSUME TypeOK, TransportInv, NEW f \in Fds, NEW c \in Conns, SocketEnds(f, c)
  PROVE  Shapes'
<1>1. /\ c \in conn /\ sock[f] = c /\ f \in ready /\ pc = "scan" /\ ~Available(f)
      /\ SocketsMatch /\ TypeEvents
  BY ReadFrom, TypeParts DEF SocketEnds, Turn, TransportInv
<1>2. /\ UNCHANGED <<peerVars, taken, buf, len>> /\ Push(c, Channel!Disconnect) /\ Close(c)
  BY DEF SocketEnds, bufVars
<1>3. conn' \subseteq conn /\ c \notin conn'
  BY <1>1, <1>2 DEF Close, Matching
<1>4. peer[c] = "gone" /\ Len(stream[c]) <= taken[c]
  <2>1. Len(stream[c]) \in Nat /\ taken[c] \in Nat /\ c # NoConn
    BY <1>1, BufferFacts, TransportAssumption
  <2>2. peer[c] = "gone"
    BY <1>1, <2>1 DEF TransportInv, ReadyShape
  <2> QED BY <1>1, <2>1, <2>2 DEF Available
<1>5. Len(log[c]) = Len(sent[c]) + 1
  <2>1. /\ BufferShape(c) /\ StreamShape(c) /\ Len(log[c]) \in Nat /\ Len(sent[c]) \in Nat
        /\ TypePeers /\ Len(stream[c]) \in Nat /\ taken[c] \in Nat
    BY <1>1, BufferFacts, TypeParts
  <2>2. ~HavePacket(c) /\ Len(log[c]) \in 1 .. Len(sent[c]) + 1
    BY <1>1, <2>1 DEF BufferShape
  <2>3. CASE Len(log[c]) <= Len(sent[c])
    <3>1. Len(log[c]) \in 0 .. Len(sent[c])
      BY <2>1, <2>3
    <3>2. Start(c, Len(log[c])) \in Nat /\ Start(c, Len(log[c])) <= Len(stream[c])
      BY <2>1, <3>1, StartNat
    <3>3. Start(c, Len(log[c])) <= taken[c]
      BY <1>4, <2>1, <3>2
    <3> QED BY <1>1, <2>2, <2>3, <3>3, PacketCame
  <2> QED BY <2>1, <2>2, <2>3
<1>6. LogShape(c)'
  <2>1. Channel!Disconnect = Entry(c, Len(log[c]) + 1)
    <3>1. Len(sent[c]) \in Nat
      BY <1>1, BufferFacts
    <3>2. Len(log[c]) + 1 # 1 /\ ~(Len(log[c]) + 1 <= Len(sent[c]) + 1)
      BY <1>5, <3>1
    <3> QED BY <3>2 DEF Entry
  <2>2. Len(log[c]) <= Len(sent[c]) + 1 /\ UNCHANGED <<peer, sent>> /\ LogShape(c)
    <3>1. Len(sent[c]) \in Nat
      BY <1>1, BufferFacts
    <3> QED BY <1>2, <1>5, <3>1 DEF peerVars, TransportInv
  <2> QED BY <1>2, <1>4, <2>1, <2>2, ChannelEntries, LogPushed
<1>7. \A d \in Conns : d # c =>
        log'[d] = log[d] /\ buf'[d] = buf[d] /\ len'[d] = len[d] /\ taken'[d] = taken[d]
  BY <1>1, <1>2 DEF Push, TypeEvents
<1> QED BY <1>1, <1>2, <1>3, <1>6, <1>7, ShapesOthers

\* Once the length of a packet is known it does not change with what comes after it.
LEMMA LengthKnown ==
  ASSUME NEW b \in Seq(Bytes), NEW d \in Seq(Bytes), Len(b) <= Len(d),
         \A j \in 1 .. Len(b) : d[j] = b[j]
  PROVE  UpdateLength(FALSE, LengthOf(b), d) = LengthOf(d)
<1>1. CASE Len(b) >= Header
  <2>1. Len(d) >= Header /\ Header \in Nat /\ Len(b) \in Nat /\ Len(d) \in Nat
    <3>1. Header \in Nat
      BY DEF Header
    <3> QED BY <1>1, <3>1
  <2>2. \A j \in 1 .. Header : d[j] = b[j]
    BY <1>1, <2>1
  <2>3. d[1] = b[1] /\ d[2] = b[2] /\ d[3] = b[3] /\ d[4] = b[4]
    BY <2>2 DEF Header
  <2>4. Length(d) = Length(b)
    BY <2>3 DEF Length
  <2> QED BY <1>1, <2>1, <2>4, Zenon DEF LengthOf, UpdateLength
<1>2. CASE ~(Len(b) >= Header)
  BY <1>2, Zenon DEF LengthOf, UpdateLength
<1> QED BY <1>1, <1>2

LEMMA ShapesRead ==
  ASSUME TypeOK, TransportInv, NEW f \in Fds, NEW c \in Conns, ReadSocket(f, c)
  PROVE  Shapes'
<1>1. c \in conn /\ sock[f] = c /\ pc = "scan" /\ Available(f) /\ TypePeers /\ TypeBuffers
  BY ReadFrom, TypeParts DEF ReadSocket, Turn, TransportInv
<1>2. PICK n \in Pieces :
        LET t == Smaller(taken[c] + n, Len(stream[c]))
        IN  /\ taken' = [taken EXCEPT ![c] = t]
            /\ buf' = [buf EXCEPT ![c] = @ \o SubSeq(stream[c], taken[c] + 1, t)]
  BY <1>1 DEF ReadSocket
<1> DEFINE t == Smaller(taken[c] + n, Len(stream[c]))
           r == SubSeq(stream[c], taken[c] + 1, t)
           B == Start(c, Len(log[c]) - 1)
<1>3. t \in Nat /\ taken[c] < t /\ t <= Len(stream[c]) /\ r \in Seq(Bytes)
  BY <1>1, TakenMore DEF Available
<1>4. /\ taken'[c] = t /\ buf'[c] = buf[c] \o r
      /\ \A d \in Conns : d # c => taken'[d] = taken[d] /\ buf'[d] = buf[d]
  BY <1>1, <1>2 DEF TypeBuffers
<1> HIDE DEF t
<1>5. /\ len'[c] = UpdateLength(FALSE, len[c], buf'[c]) /\ pc' = "parse" /\ cur' = c
      /\ \A d \in Conns : d # c => len'[d] = len[d]
      /\ UNCHANGED <<peerVars, conn, log>>
  BY <1>1 DEF ReadSocket, TypeBuffers, connVars
<1>6. /\ StreamShape(c) /\ BufferShape(c) /\ LogShape(c) /\ B \in Nat
      /\ buf[c] \in Seq(Bytes) /\ Len(buf[c]) \in Nat /\ taken[c] \in Nat
      /\ stream[c] \in Seq(Bytes) /\ Len(stream[c]) \in Nat
  BY <1>1, BufferFacts DEF TransportInv
<1>7. Len(r) = t - taken[c] /\ \A j \in 1 .. t - taken[c] : r[j] = stream[c][taken[c] + j]
  <2>1. /\ stream[c] \in Seq(Bytes) /\ taken[c] \in Nat /\ t \in Nat
        /\ taken[c] <= t /\ t <= Len(stream[c])
    BY <1>3, <1>6
  <2> QED BY ONLY <2>1, SubBytes DEF r
<1> HIDE DEF r, B
<1>8. /\ Len(buf[c]) = taken[c] - B /\ B <= taken[c] /\ len[c] = LengthOf(buf[c])
      /\ \A j \in 1 .. Len(buf[c]) : buf[c][j] = stream[c][B + j]
      /\ Len(log[c]) \in 1 .. Len(sent[c]) + 1
  BY <1>6 DEF BufferShape, B
<1>9. /\ buf'[c] \in Seq(Bytes) /\ Len(buf'[c]) = Len(buf[c]) + Len(r)
      /\ \A j \in 1 .. Len(buf[c]) : buf'[c][j] = buf[c][j]
      /\ \A j \in 1 .. Len(r) : buf'[c][Len(buf[c]) + j] = r[j]
  <2>1. /\ buf[c] \o r \in Seq(Bytes) /\ Len(buf[c] \o r) = Len(buf[c]) + Len(r)
        /\ \A j \in 1 .. Len(buf[c]) : (buf[c] \o r)[j] = buf[c][j]
        /\ \A j \in 1 .. Len(r) : (buf[c] \o r)[Len(buf[c]) + j] = r[j]
    BY <1>3, <1>6, Concat
  <2> QED BY <1>4, <2>1, Zenon
<1>10. Len(buf'[c]) = t - B /\ Len(buf[c]) <= Len(buf'[c])
  BY <1>3, <1>6, <1>7, <1>8, <1>9
<1>11. ASSUME NEW j \in 1 .. Len(buf'[c])
       PROVE  buf'[c][j] = stream[c][B + j]
  <2>1. CASE j <= Len(buf[c])
    BY <2>1, <1>6, <1>8, <1>9
  <2>2. CASE ~(j <= Len(buf[c]))
    <3> DEFINE i == j - Len(buf[c])
    <3>1. i \in 1 .. Len(r) /\ Len(buf[c]) + i = j /\ taken[c] + i = B + j
      <4>1. /\ t \in Nat /\ Len(buf[c]) \in Nat /\ taken[c] \in Nat /\ B \in Nat
            /\ Len(r) = t - taken[c] /\ Len(buf[c]) = taken[c] - B /\ j \in 1 .. t - B
            /\ ~(j <= Len(buf[c]))
        BY <2>2, <1>3, <1>6, <1>7, <1>8, <1>10
      <4>3. j - Len(buf[c]) \in 1 .. t - taken[c] /\ Len(buf[c]) + (j - Len(buf[c])) = j
            /\ taken[c] + (j - Len(buf[c])) = B + j
        <5>1. j - Len(buf[c]) \in 1 .. t - taken[c]
          BY ONLY <4>1
        <5>2. Len(buf[c]) + (j - Len(buf[c])) = j
          BY ONLY <4>1
        <5>3. taken[c] + (j - Len(buf[c])) = B + j
          BY ONLY <4>1
        <5> QED BY <5>1, <5>2, <5>3
      <4> QED BY <4>1, <4>3, Zenon
    <3> HIDE DEF i
    <3> QED BY <1>7, <1>9, <3>1
  <2> QED BY <2>1, <2>2
<1>12. len'[c] = LengthOf(buf'[c])
  BY <1>5, <1>6, <1>8, <1>9, <1>10, LengthKnown
<1>13. BufferShape(c)'
  <2>1. Start(c, Len(log[c]) - 1)' = B /\ log' = log /\ sent' = sent /\ stream' = stream
    BY <1>5 DEF Start, peerVars, B
  <2>2. B <= t
    BY <1>3, <1>6, <1>8
  <2> QED BY <1>3, <1>4, <1>5, <1>8, <1>10, <1>11, <1>12, <2>1, <2>2 DEF BufferShape
<1>14. LogShape(c)'
  BY <1>5, <1>6 DEF LogShape, Entry, peerVars
<1>15. conn' \subseteq conn \cup {c} /\ pc # "parse" /\ UNCHANGED peerVars /\ log' = log
  BY <1>1, <1>5
<1> QED BY <1>4, <1>5, <1>13, <1>14, <1>15, ShapesOthers

LEMMA ShapesGet ==
  ASSUME TypeOK, TransportInv, GetPacket
  PROVE  Shapes'
<1>1. PICK c \in conn : c = cur
  BY DEF GetPacket, TransportInv
<1>2. HavePacket(c) /\ pc = "parse"
  BY <1>1 DEF GetPacket
<1>3. /\ c \in Conns /\ StreamShape(c) /\ BufferShape(c) /\ LogShape(c) /\ TypeBuffers /\ TypeEvents
      /\ TypePeers /\ buf[c] \in Seq(Bytes) /\ Len(buf[c]) \in Nat /\ len[c] \in Nat
      /\ taken[c] \in Nat /\ Len(sent[c]) \in Nat /\ Len(log[c]) \in Nat
      /\ Start(c, Len(log[c]) - 1) \in Nat
  BY BufferFacts, TypeParts DEF TransportInv
<1> DEFINE k == Len(log[c])
           B == Start(c, k - 1)
           l == Header + len[c]
<1>4. /\ k \in 1 .. Len(sent[c]) /\ sent[c][k] \in Packets /\ Start(c, k) = B + Header + len[c]
      /\ SubSeq(buf[c], Header + 1, Header + len[c]) = sent[c][k]
  BY <1>2, NextPacket
<1>5. Header \in Nat /\ l \in Nat /\ l <= Len(buf[c]) /\ Start(c, k) = B + l
  <2>1. Header \in Nat
    BY <1>4, EncodeTypes
  <2>2. Len(buf[c]) >= len[c] + Header
    BY <1>2 DEF HavePacket
  <2>3. B \in Nat /\ len[c] \in Nat /\ Len(buf[c]) \in Nat /\ Start(c, k) = B + Header + len[c]
    BY <1>3, <1>4
  <2> HIDE DEF B, k
  <2> QED BY ONLY <2>1, <2>2, <2>3
<1>6. /\ Push(c, Channel!Receive(sent[c][k]))
      /\ buf' = [buf EXCEPT ![c] = SubSeq(@, l + 1, Len(@))]
      /\ len' = [len EXCEPT ![c] = UpdateLength(TRUE, @, buf'[c])]
      /\ UNCHANGED <<peerVars, taken, conn, pc, cur>>
  BY <1>1, <1>4 DEF GetPacket, connVars
<1>7. /\ Len(buf[c]) = taken[c] - B /\ taken[c] <= Len(stream[c])
      /\ \A j \in 1 .. Len(buf[c]) : buf[c][j] = stream[c][B + j]
  BY <1>3 DEF BufferShape
<1> DEFINE r == SubSeq(buf[c], l + 1, Len(buf[c]))
<1>8. /\ buf'[c] = r /\ len'[c] = LengthOf(r)
      /\ \A d \in Conns : d # c => buf'[d] = buf[d] /\ len'[d] = len[d] /\ taken'[d] = taken[d]
      /\ \A d \in Conns : d # c => log'[d] = log[d]
  BY <1>3, <1>6 DEF TypeBuffers, TypeEvents, UpdateLength, Push
<1> HIDE DEF l, B
<1>9. Len(r) = Len(buf[c]) - l /\ \A j \in 1 .. Len(buf[c]) - l : r[j] = buf[c][l + j]
  <2>1. /\ buf[c] \in Seq(Bytes) /\ Len(buf[c]) \in Nat /\ l \in Nat
        /\ l <= Len(buf[c]) /\ Len(buf[c]) <= Len(buf[c])
    BY <1>3, <1>5
  <2>2. /\ Len(SubSeq(buf[c], l + 1, Len(buf[c]))) = Len(buf[c]) - l
        /\ \A j \in 1 .. Len(buf[c]) - l :
             SubSeq(buf[c], l + 1, Len(buf[c]))[j] = buf[c][l + j]
    BY ONLY <2>1, SubBytes
  <2> QED BY ONLY <2>2
<1> HIDE DEF r
<1>10. Len(r) = taken[c] - (B + l) /\ B + l <= taken[c] /\ B \in Nat
  BY <1>3, <1>5, <1>7, <1>9 DEF B
<1>11. ASSUME NEW j \in 1 .. Len(r)
       PROVE  r[j] = stream[c][(B + l) + j]
  <2>1. l + j \in 1 .. Len(buf[c]) /\ B + (l + j) = (B + l) + j /\ j \in 1 .. Len(buf[c]) - l
    BY <1>3, <1>5, <1>9, <1>10
  <2> QED BY <1>7, <1>9, <2>1
<1>12. LogShape(c)' /\ Len(log'[c]) = k + 1
  <2>1. Channel!Receive(sent[c][k]) = Entry(c, k + 1)
    <3>1. k + 1 # 1 /\ k + 1 <= Len(sent[c]) + 1 /\ (k + 1) - 1 = k
      BY <1>3, <1>4
    <3> QED BY <3>1 DEF Entry
  <2>2. sent[c][k] \in Seq(Bytes)
    BY <1>4, EncodeProperties
  <2>3. Channel!Receive(sent[c][k]) \in Entries
    BY <2>2, ChannelEntries
  <2>4. k <= Len(sent[c]) + 1 /\ k # Len(sent[c]) + 1 /\ UNCHANGED <<peer, sent>>
    BY <1>3, <1>4, <1>6 DEF peerVars
  <2> QED BY <1>3, <1>6, <2>1, <2>3, <2>4, LogPushed
<1>13. Start(c, Len(log[c]) - 1)' = B + l
  <2>1. Len(log'[c]) - 1 = k /\ ends' = ends
    BY <1>3, <1>6, <1>12 DEF peerVars
  <2> HIDE DEF k
  <2> QED BY <1>5, <2>1 DEF Start
<1>14. BufferShape(c)'
  <2>1. /\ sent' = sent /\ stream' = stream /\ taken' = taken /\ pc' = "parse" /\ cur' = c
    BY <1>1, <1>2, <1>6 DEF peerVars
  <2>2. Len(log'[c]) \in 1 .. Len(sent[c]) + 1
    BY <1>3, <1>4, <1>12
  <2> HIDE DEF k
  <2> QED BY <1>7, <1>8, <1>10, <1>11, <1>13, <2>1, <2>2 DEF BufferShape
<1>15. conn' \subseteq conn \cup {c} /\ UNCHANGED peerVars
  BY <1>6
<1> QED BY <1>1, <1>3, <1>8, <1>12, <1>14, <1>15, ShapesOthers

LEMMA ShapesStep ==
  ASSUME TypeOK, TransportInv, Next
  PROVE  Shapes'
BY NextCases, ShapesPeers, ShapesThread, ShapesAccept, ShapesRead, ShapesEnds, ShapesGet

LEMMA CurStep ==
  ASSUME TypeOK, TransportInv, Next
  PROVE  pc' = "parse" => cur' \in conn'
<1>1. CASE pc' # "parse"
  BY <1>1
<1>2. CASE pc' = pc /\ cur' = cur /\ conn \subseteq conn'
  BY <1>2 DEF TransportInv
<1>3. CASE PeerStep \/ ThreadStep \/ GetPacket \/ \E c \in Conns : PopStep(c) \/ SendCommand(c)
  BY <1>1, <1>2, <1>3 DEF PeerStep, PeerConnects, PeerSends, PeerLeaves, pollVars, connVars,
     ThreadStep, SelectTimesOut, Select, ParseEnds, RoundEnds, DispatchEnds, GetPacket,
     SendCommand, PopStep, Greet, Refuse, Identify, Deliver, Forget, CallbackThrows, Pop
<1>4. CASE \E f \in Fds : SelectAccepts(f)
  BY <1>1, <1>4 DEF SelectAccepts
<1>5. CASE \E f \in Fds, c \in Conns : ReadSocket(f, c) \/ SocketEnds(f, c)
  BY <1>1, <1>5 DEF ReadSocket, SocketEnds, Turn, connVars
<1> QED BY <1>3, <1>4, <1>5, NextCases

LEMMA QueueStep ==
  ASSUME TypeOK, TransportInv, Next
  PROVE  QueueShape'
<1>1. TypeEvents /\ TypeSockets /\ QueueShape
  BY TypeParts DEF TransportInv
<1>2. CASE UNCHANGED <<events, log, handled>>
  BY <1>1, <1>2, Zenon DEF QueueShape
<1>3. CASE \E f \in Fds : SelectAccepts(f)
  <2>1. PICK f \in Fds : SelectAccepts(f)
    BY <1>3
  <2>2. Head(backlog) \in Conns /\ Push(Head(backlog), Channel!Connect) /\ UNCHANGED handled
    BY <2>1, AcceptNew DEF SelectAccepts
  <2> QED BY <1>1, <2>2, ChannelEntries, PushKeepsQueue
<1>4. ASSUME NEW f \in Fds, NEW c \in Conns, ReadSocket(f, c) \/ SocketEnds(f, c)
      PROVE  QueueShape'
  BY <1>1, <1>2, <1>4, ChannelEntries, PushKeepsQueue DEF ReadSocket, SocketEnds
<1>5. CASE GetPacket
  <2>1. cur \in Conns /\ HavePacket(cur) /\ UNCHANGED handled
    BY <1>5, TypeParts DEF GetPacket, TypeThread
  <2>2. SubSeq(buf[cur], Header + 1, Header + len[cur]) \in Seq(Bytes)
    BY <2>1, CutTypes, TypeParts
  <2> QED BY <1>1, <1>5, <2>1, <2>2, ChannelEntries, PushKeepsQueue DEF GetPacket
<1>6. ASSUME NEW c \in Conns, PopStep(c)
      PROVE  QueueShape'
  <2>1. PICK types : Pop(c, types)
    BY <1>6, Zenon DEF PopStep, Greet, Refuse, Identify, Deliver, Forget, CallbackThrows
  <2> QED BY <1>1, <2>1, PopKeepsQueue
<1>7. CASE PeerStep \/ ThreadStep \/ \E c \in Conns : SendCommand(c)
  BY <1>2, <1>7, Zenon DEF PeerStep, PeerConnects, PeerSends, PeerLeaves, ThreadStep,
     SelectTimesOut, Select, ParseEnds, RoundEnds, DispatchEnds, SendCommand
<1> QED BY <1>3, <1>4, <1>5, <1>6, <1>7, NextCases

LEMMA InvStep ==
  ASSUME TypeOK, TransportInv, [Next]_vars
  PROVE  TransportInv'
<1>1. CASE Next
  <2>1. Shapes' /\ (pc' = "parse" => cur' \in conn')
    BY <1>1, ShapesStep, CurStep
  <2>2. QueueShape' /\ BacklogShape' /\ SocketsMatch' /\ ReadyShape' /\ MailShape' /\ StraysAreStale'
    BY <1>1, QueueStep, BacklogStep, SocketsStep, ReadyStep, MailStep
  <2> QED BY <2>1, <2>2 DEF TransportInv, Shapes
<1>2. CASE UNCHANGED vars
  <2>1. Shapes'
    <3>1. \A c \in conn : HavePacket(c) => pc' = "parse" /\ cur' = c
      BY <1>2, BufferFacts DEF BufferShape, vars, pollVars
    <3>2. UNCHANGED <<peerVars, log, buf, len, taken>> /\ conn' \subseteq conn
      BY <1>2 DEF vars, bufVars, connVars
    <3> QED BY <3>1, <3>2, ShapesStill
  <2>2. QueueShape' /\ BacklogShape' /\ SocketsMatch' /\ MailShape' /\ StraysAreStale'
    <3>1. QueueShape /\ BacklogShape /\ SocketsMatch /\ MailShape /\ StraysAreStale
      BY DEF TransportInv
    <3>2. UNCHANGED <<peer, taken, backlog, sock, conn, fd, buf, len, events, log, handled, mail>>
      BY <1>2 DEF vars, peerVars, connVars, bufVars
    <3>3. QueueShape'
      BY <3>1, <3>2, Zenon DEF QueueShape
    <3>4. BacklogShape'
      BY <3>1, <3>2, Zenon DEF BacklogShape
    <3>5. SocketsMatch'
      BY <3>1, <3>2 DEF SocketsMatch
    <3>6. MailShape' /\ StraysAreStale'
      BY <3>1, <3>2 DEF MailShape, StraysAreStale
    <3> QED BY <3>3, <3>4, <3>5, <3>6
  <2>3. ReadyShape' /\ (pc' = "parse" => cur' \in conn')
    BY <1>2 DEF TransportInv, vars, peerVars, connVars, pollVars, ReadyShape, Available
  <2> QED BY <2>1, <2>2, <2>3 DEF TransportInv, Shapes
<1> QED BY <1>1, <1>2

-----------------------------------------------------------------------------
(***************************************************************************)
(* Theorems.                                                               *)
(***************************************************************************)

Inductive == TypeOK /\ TransportInv

LEMMA Invariance == Spec => []Inductive
<1>1. Init => Inductive
  BY TypeInit, InvInit DEF Inductive
<1>2. Inductive /\ [Next]_vars => Inductive'
  <2> SUFFICES ASSUME Inductive, [Next]_vars PROVE Inductive'
    OBVIOUS
  <2>1. TypeOK /\ TransportInv /\ SocketsMatch
    BY DEF Inductive, TransportInv
  <2> QED BY <2>1, TypeStep, InvStep DEF Inductive
<1> QED BY <1>1, <1>2, PTL DEF Spec

\* The variables keep their types; the length of a packet is never negative
\* (TransportTCP.cc:167-194).
THEOREM Typing == Spec => []TypeOK
<1>1. Inductive => TypeOK
  BY DEF Inductive
<1> QED BY <1>1, Invariance, PTL

\* Every byte a peer wrote is in its stream, in the buffer of its own connection or in
\* an event, in order (TransportTCP.cc:167-194, 282-374).
THEOREM TransportInvariant == Spec => []TransportInv
<1>1. Inductive => TransportInv
  BY DEF Inductive
<1> QED BY <1>1, Invariance, PTL

\* m_conn and the sockets that are open fit together (TransportTCP.cc:240-269, 315-327).
THEOREM Matched == Spec => []SocketsMatch
<1>1. TransportInv => SocketsMatch
  BY DEF TransportInv
<1> QED BY <1>1, TransportInvariant, PTL

\* A packet that reaches another connection was sent for one that had been closed
\* (TransportTCP.cc:152-158, 271-280).
THEOREM Strays == Spec => []StraysAreStale
<1>1. TransportInv => StraysAreStale
  BY DEF TransportInv
<1> QED BY <1>1, TransportInvariant, PTL

-----------------------------------------------------------------------------
(***************************************************************************)
(* TransportTCP implements PacketChannel.                                  *)
(***************************************************************************)

\* Events are added to a log and never changed.
LogGrows(c) ==
  /\ log'[c] \in Seq(Entries) /\ Len(log[c]) <= Len(log'[c])
  /\ \A n \in 1 .. Len(log[c]) : log'[c][n] = log[c][n]

LEMMA LogsGrow ==
  ASSUME TypeOK, TransportInv, Next
  PROVE  \A c \in Conns : LogGrows(c)
<1>1. /\ TypeEvents
      /\ \A c \in Conns : log[c] \in Seq(Entries) /\ Len(log[c]) \in Nat
  BY TypeParts DEF TypeEvents
<1>2. CASE UNCHANGED log
  BY <1>1, <1>2 DEF LogGrows
<1>3. ASSUME NEW c \in Conns, NEW event \in Entries, Push(c, event)
      PROVE  \A d \in Conns : LogGrows(d)
  <2>1. /\ Append(log[c], event) \in Seq(Entries) /\ Len(log[c]) <= Len(Append(log[c], event))
        /\ \A n \in 1 .. Len(log[c]) : Append(log[c], event)[n] = log[c][n]
    BY <1>1, AppendProperties
  <2>2. log'[c] = Append(log[c], event) /\ \A d \in Conns : d # c => log'[d] = log[d]
    BY <1>1, <1>3 DEF Push, TypeEvents
  <2>3. ASSUME NEW d \in Conns
        PROVE  LogGrows(d)
    <3>1. CASE d = c
      BY <2>1, <2>2, <3>1 DEF LogGrows
    <3>2. CASE d # c
      <4>1. log'[d] = log[d]
        BY <2>2, <3>2
      <4> QED BY <1>1, <4>1 DEF LogGrows
    <3> QED BY <3>1, <3>2
  <2> QED BY <2>3
<1>4. CASE \E f \in Fds : SelectAccepts(f)
  <2>1. PICK f \in Fds : SelectAccepts(f)
    BY <1>4
  <2>2. Head(backlog) \in Conns /\ Push(Head(backlog), Channel!Connect)
    BY <2>1, AcceptNew DEF SelectAccepts
  <2> QED BY <1>3, <2>2, ChannelEntries
<1>5. CASE \E f \in Fds, c \in Conns : ReadSocket(f, c) \/ SocketEnds(f, c)
  BY <1>2, <1>3, <1>5, ChannelEntries DEF ReadSocket, SocketEnds
<1>6. CASE GetPacket
  <2>1. cur \in Conns /\ HavePacket(cur)
    BY <1>6, TypeParts DEF GetPacket, TypeThread
  <2>2. SubSeq(buf[cur], Header + 1, Header + len[cur]) \in Seq(Bytes)
    BY <2>1, CutTypes, TypeParts
  <2> QED BY <1>3, <1>6, <2>1, <2>2, ChannelEntries DEF GetPacket
<1>7. CASE PeerStep \/ ThreadStep \/ \E c \in Conns : PopStep(c) \/ SendCommand(c)
  BY <1>2, <1>7, Zenon DEF PeerStep, PeerConnects, PeerSends, PeerLeaves, ThreadStep,
     SelectTimesOut, Select, ParseEnds, RoundEnds, DispatchEnds, SendCommand,
     PopStep, Greet, Refuse, Identify, Deliver, Forget, CallbackThrows, Pop
<1> QED BY <1>4, <1>5, <1>6, <1>7, NextCases

\* What was heard of a connection does not change when its log grows.
LEMMA HeardSame ==
  ASSUME TypeOK, TransportInv, NEW c \in Conns, LogGrows(c), handled'[c] = handled[c]
  PROVE  Heard'[c] = Heard[c] /\ Heard[c] \in Seq(Entries) /\ Len(Heard[c]) = handled[c]
<1> DEFINE h == handled[c]
<1>1. h \in Nat /\ h <= Len(log[c]) /\ log[c] \in Seq(Entries) /\ Len(log[c]) \in Nat
  BY TypeParts DEF TypeEvents, TransportInv, QueueShape
<1>2. log'[c] \in Seq(Entries) /\ Len(log'[c]) \in Nat /\ h <= Len(log'[c])
      /\ \A n \in 1 .. h : log'[c][n] = log[c][n]
  BY <1>1 DEF LogGrows
<1>3. Heard[c] = SubSeq(log[c], 1, h) /\ Heard'[c] = SubSeq(log'[c], 1, h)
  BY DEF Heard
<1> HIDE DEF h
<1>4. ASSUME NEW s \in Seq(Entries), h <= Len(s)
      PROVE  /\ SubSeq(s, 1, h) \in Seq(Entries) /\ Len(SubSeq(s, 1, h)) = h
             /\ \A n \in 1 .. h : SubSeq(s, 1, h)[n] = s[n]
  <2>1. \A n \in 1 .. h : n \in 1 .. Len(s)
    BY <1>1, <1>4
  <2>2. \A n \in 1 .. h : s[n] \in Entries
    BY <2>1, ElementOfSeq
  <2>3. /\ SubSeq(s, 1, h) \in Seq(Entries)
        /\ Len(SubSeq(s, 1, h)) = IF 1 <= h THEN h - 1 + 1 ELSE 0
        /\ \A n \in 1 .. h - 1 + 1 : SubSeq(s, 1, h)[n] = s[1 + n - 1]
    BY <1>1, <2>2, SubSeqProperties
  <2>4. h - 1 + 1 = h /\ (~(1 <= h) => h = 0) /\ \A n \in 1 .. h : 1 + n - 1 = n
    BY <1>1
  <2> QED BY <2>3, <2>4
<1>5. /\ SubSeq(log[c], 1, h) \in Seq(Entries) /\ Len(SubSeq(log[c], 1, h)) = h
      /\ \A n \in 1 .. h : SubSeq(log[c], 1, h)[n] = log[c][n]
  BY <1>1, <1>4
<1>6. /\ SubSeq(log'[c], 1, h) \in Seq(Entries) /\ Len(SubSeq(log'[c], 1, h)) = h
      /\ \A n \in 1 .. h : SubSeq(log'[c], 1, h)[n] = log'[c][n]
  BY <1>2, <1>4
<1>7. SubSeq(log'[c], 1, h) = SubSeq(log[c], 1, h)
  <2>1. \A n \in 1 .. Len(SubSeq(log'[c], 1, h)) :
          SubSeq(log'[c], 1, h)[n] = SubSeq(log[c], 1, h)[n]
    BY <1>2, <1>5, <1>6
  <2> QED BY <1>5, <1>6, <2>1, SeqEqual
<1> QED BY <1>3, <1>5, <1>7 DEF h

\* An event that is handled is heard.
LEMMA HeardMore ==
  ASSUME TypeOK, TransportInv, NEW c \in Conns, NEW types, Pop(c, types)
  PROVE  /\ Heard' = [Heard EXCEPT ![c] = Append(@, Entry(c, handled[c] + 1))]
         /\ Heard[c] \in Seq(Entries) /\ Len(Heard[c]) = handled[c]
        /\ handled[c] + 1 \in 1 .. Len(log[c])
<1>1. /\ handled[c] + 1 \in 1 .. Len(log[c]) /\ handled[c] \in Nat /\ log[c] \in Seq(Entries)
      /\ TypeEvents /\ LogShape(c)
  BY PopNext, TypeParts DEF TypeEvents, TransportInv
<1>2. log' = log /\ handled' = [handled EXCEPT ![c] = @ + 1]
  BY DEF Pop
<1> DEFINE h == handled[c]
<1>3. \A d \in Conns : d # c => Heard'[d] = Heard[d]
  BY <1>1, <1>2 DEF TypeEvents, Heard
<1>4. Heard[c] = SubSeq(log[c], 1, h) /\ Heard'[c] = SubSeq(log[c], 1, h + 1)
  BY <1>1, <1>2 DEF TypeEvents, Heard
<1>5. log[c][h + 1] = Entry(c, h + 1) /\ log[c][h + 1] \in Entries
  BY <1>1, ElementOfSeq DEF LogShape
<1> HIDE DEF h
<1>6. SubSeq(log[c], 1, h) \in Seq(Entries) /\ Len(SubSeq(log[c], 1, h)) = h
  <2>2. \A n \in 1 .. h : log[c][n] \in Entries
    <3>1. \A n \in 1 .. h : n \in 1 .. Len(log[c])
      BY <1>1 DEF h
    <3> QED BY <1>1, <3>1, ElementOfSeq
  <2>3. h \in Nat /\ h - 1 + 1 = h /\ (~(1 <= h) => h = 0)
    BY <1>1 DEF h
  <2>4. /\ SubSeq(log[c], 1, h) \in Seq(Entries)
        /\ Len(SubSeq(log[c], 1, h)) = IF 1 <= h THEN h - 1 + 1 ELSE 0
    BY <2>2, <2>3, SubSeqProperties
  <2> QED BY <2>3, <2>4
<1>7. SubSeq(log[c], 1, h + 1) = SubSeq(log[c], 1, h) \o <<log[c][h + 1]>>
  <2>1. h + 1 \in 1 .. Len(log[c]) /\ 1 \in 1 .. Len(log[c]) /\ (h + 1) - 1 = h
    BY <1>1 DEF h
  <2>2. SubSeq(log[c], 1, h + 1) = SubSeq(log[c], 1, (h + 1) - 1) \o <<log[c][h + 1]>>
    BY <1>1, <2>1, SubSeqRecursiveSecond
  <2> QED BY <2>1, <2>2
<1>8. SubSeq(log[c], 1, h + 1) = Append(SubSeq(log[c], 1, h), log[c][h + 1])
  BY <1>5, <1>6, <1>7, AppendIsConcat
<1>9. Heard'[c] = Append(Heard[c], Entry(c, h + 1))
  BY <1>4, <1>5, <1>8
<1>10. Heard' = [Heard EXCEPT ![c] = Append(@, Entry(c, h + 1))]
  <2>1. Heard = [d \in Conns |-> Heard[d]] /\ Heard' = [d \in Conns |-> Heard'[d]]
    BY DEF Heard
  <2> QED BY <1>3, <1>9, <2>1
<1> QED BY <1>1, <1>4, <1>6, <1>10 DEF h

\* A step of any thread, or of a peer, is one of PacketChannel or changes nothing in it.
ChannelStep == [Channel!Next]_(Channel!vars)

LEMMA InitRefines == Init => Channel!Init
<1> SUFFICES ASSUME Init PROVE Heard = [c \in Conns |-> <<>>]
  BY DEF Init, Channel!Init
<1>1. \A c \in Conns : SubSeq(log[c], 1, handled[c]) = <<>>
  <2> TAKE c \in Conns
  <2>1. log[c] = <<>> /\ handled[c] = 0
    BY DEF Init
  <2>2. 0 \in Int /\ 1 \in Int /\ 0 < 1
    OBVIOUS
  <2> QED BY <2>1, <2>2, SubSeqEmpty
<1> QED BY <1>1 DEF Heard

LEMMA QuietStep ==
  ASSUME TypeOK, TransportInv, Next, UNCHANGED handled
  PROVE  Heard' = Heard
<1>1. \A c \in Conns : Heard'[c] = Heard[c]
  BY LogsGrow, HeardSame
<1> QED BY <1>1 DEF Heard

LEMMA SendRefines ==
  ASSUME TypeOK, TransportInv, Next, NEW c \in Conns, NEW p \in Packets, PeerSends(c, p)
  PROVE  Channel!Send(c, p)
<1>1. Heard' = Heard
  BY QuietStep DEF PeerSends
<1>2. Len(Heard[c]) = handled[c]
  BY LogsGrow, HeardSame DEF PeerSends
<1>3. handled[c] <= Len(log[c]) /\ Len(log[c]) <= Len(sent[c]) + 2
      /\ (Len(log[c]) = Len(sent[c]) + 2 => peer[c] = "gone")
  BY DEF TransportInv, QueueShape, LogShape
<1>4. peer[c] = "up" /\ sent' = [sent EXCEPT ![c] = Append(@, p)]
  BY DEF PeerSends
<1>5. handled[c] \in Nat /\ Len(log[c]) \in Nat /\ Len(sent[c]) \in Nat
  BY TypeParts DEF TypeEvents, TypePeers
<1>6. Len(Heard[c]) < Len(sent[c]) + 2
  BY <1>2, <1>3, <1>4, <1>5
<1> QED BY <1>1, <1>4, <1>6 DEF Channel!Send

LEMMA PopRefines ==
  ASSUME TypeOK, TransportInv, NEW c \in Conns, NEW types, Pop(c, types)
  PROVE  Channel!Next
<1>1. /\ Heard' = [Heard EXCEPT ![c] = Append(@, Entry(c, handled[c] + 1))]
      /\ Heard[c] \in Seq(Entries) /\ Len(Heard[c]) = handled[c]
      /\ handled[c] + 1 \in 1 .. Len(log[c])
  BY HeardMore
<1>2. sent' = sent
  BY DEF Pop, peerVars
<1>3. Len(log[c]) <= Len(sent[c]) + 2
  BY DEF TransportInv, LogShape
<1>4. handled[c] \in Nat /\ Len(log[c]) \in Nat /\ Len(sent[c]) \in Nat
  BY TypeParts DEF TypeEvents, TypePeers
<1>5. CASE handled[c] = 0
  <2>1. Entry(c, handled[c] + 1) = Channel!Connect
    BY <1>5 DEF Entry
  <2>2. Heard[c] = <<>>
    BY <1>1, <1>5, EmptySeq
  <2>3. Channel!TellConnect(c)
    BY <1>1, <1>2, <2>1, <2>2 DEF Channel!TellConnect, Channel!Tell
  <2> QED BY <2>3 DEF Channel!Next
<1>6. CASE handled[c] \in 1 .. Len(sent[c])
  <2>1. Entry(c, handled[c] + 1) = Channel!Receive(sent[c][handled[c]])
    <3>1. handled[c] + 1 # 1 /\ handled[c] + 1 <= Len(sent[c]) + 1 /\ (handled[c] + 1) - 1 = handled[c]
      BY <1>4, <1>6
    <3> QED BY <3>1 DEF Entry
  <2>2. Channel!TellReceive(c)
    BY <1>1, <1>2, <1>6, <2>1 DEF Channel!TellReceive, Channel!Tell
  <2> QED BY <2>2 DEF Channel!Next
<1>7. CASE handled[c] = Len(sent[c]) + 1
  <2>1. Entry(c, handled[c] + 1) = Channel!Disconnect
    <3>1. handled[c] + 1 # 1 /\ ~(handled[c] + 1 <= Len(sent[c]) + 1)
      BY <1>4, <1>7
    <3> QED BY <3>1 DEF Entry
  <2>2. Channel!TellDisconnect(c)
    BY <1>1, <1>2, <1>7, <2>1 DEF Channel!TellDisconnect, Channel!Tell
  <2> QED BY <2>2 DEF Channel!Next
<1>8. handled[c] = 0 \/ handled[c] \in 1 .. Len(sent[c]) \/ handled[c] = Len(sent[c]) + 1
  BY <1>1, <1>3, <1>4
<1> QED BY <1>5, <1>6, <1>7, <1>8

LEMMA StepRefines ==
  ASSUME TypeOK, TransportInv, [Next]_vars
  PROVE  ChannelStep
<1>1. CASE UNCHANGED vars
  BY <1>1 DEF ChannelStep, Channel!vars, vars, peerVars, Heard
<1>2. ASSUME NEW c \in Conns, PopStep(c)
      PROVE  ChannelStep
  <2>1. PICK types : Pop(c, types)
    BY <1>2, Zenon DEF PopStep, Greet, Refuse, Identify, Deliver, Forget, CallbackThrows
  <2> QED BY <2>1, PopRefines DEF ChannelStep
<1>3. ASSUME NEW c \in Conns, NEW p \in Packets, PeerSends(c, p), Next
      PROVE  ChannelStep
  <2>1. Channel!Send(c, p)
    BY <1>3, SendRefines
  <2> QED BY <2>1 DEF ChannelStep, Channel!Next
<1>4. ASSUME Next, UNCHANGED <<sent, handled>>
      PROVE  ChannelStep
  BY <1>4, QuietStep DEF ChannelStep, Channel!vars
<1>5. CASE Next /\ UNCHANGED <<sent, handled>>
  BY <1>4, <1>5
<1>6. ASSUME Next
      PROVE  ChannelStep
  <2>1. CASE \E f \in Fds : SelectAccepts(f)
    BY <1>5, <1>6, <2>1, Zenon DEF SelectAccepts, peerVars
  <2>2. CASE \E f \in Fds, c \in Conns : ReadSocket(f, c) \/ SocketEnds(f, c)
    BY <1>5, <1>6, <2>2, Zenon DEF ReadSocket, SocketEnds, peerVars
  <2>3. CASE GetPacket
    BY <1>5, <1>6, <2>3, Zenon DEF GetPacket, peerVars
  <2>4. CASE ThreadStep \/ \E c \in Conns : SendCommand(c)
    BY <1>5, <1>6, <2>4, Zenon DEF ThreadStep, SelectTimesOut, Select, ParseEnds,
       RoundEnds, DispatchEnds, SendCommand, peerVars
  <2>5. CASE PeerStep
    BY <1>3, <1>5, <1>6, <2>5, Zenon DEF PeerStep, PeerConnects, PeerLeaves, peerVars
  <2> QED BY <1>2, <1>6, <2>1, <2>2, <2>3, <2>4, <2>5, NextCases
<1> QED BY <1>1, <1>6

\* TCPServer gives its callback what PacketChannel promises: of each connection that it
\* is there, all packets in order and whole, and the end after them
\* (TransportTCP.cc:167-194, 282-374, TransportBase.cc:29-44).
THEOREM ImplementsChannel == Spec => ChannelSpec
<1>1. Inductive /\ [Next]_vars => ChannelStep
  BY StepRefines DEF Inductive
<1> QED BY <1>1, InitRefines, Invariance, PTL DEF Spec, ChannelSpec, Channel!Spec, ChannelStep
=============================================================================
