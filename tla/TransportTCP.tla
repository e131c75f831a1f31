---------------------------- MODULE TransportTCP ----------------------------
(***************************************************************************)
(* TCPServer: the listening end of every connection between processes, of  *)
(* commands, of data and of log messages.  One thread calls Process again  *)
(* and again: it polls the sockets, cuts the bytes that arrive into        *)
(* packets, queues events, and then gives them to the callback one by one. *)
(* Other threads send packets meanwhile.  The other ends are TCPClients.   *)
(*                                                                         *)
(* An element of Conns is a connection, and the ConnectionInfo that stands *)
(* for it once it is accepted.  Of the callback it is modelled how         *)
(* RunControl, LogCollector and DataReceiver use the transport in it.      *)
(***************************************************************************)
EXTENDS Integers, Sequences

CONSTANTS Conns,        \* connections, each made once
          NoConn,       \* no connection
          Fds,          \* numbers that a socket may get
          Packets,      \* what is sent over them: sequences of bytes
          MaxPackets,   \* bound: packets sent on each connection
          Cuts,         \* bound: bytes written of a packet when its sender leaves
          Pieces        \* how many bytes may have arrived, MAX_BUFFER_SIZE at most

High(n) == n \div 256

\* Lengths that can be told in four bytes, and are not negative as an int.
Short(n) == High(High(High(n))) < 128

ASSUME TransportAssumption ==
  /\ NoConn \notin Conns
  /\ Fds \subseteq Nat /\ Fds # {}
  /\ \A p \in Packets : p \in Seq(0 .. 255) /\ Short(Len(p))
  /\ MaxPackets \in [Conns -> Nat]
  /\ Cuts \subseteq Nat /\ Pieces \subseteq Nat \ {0}

VARIABLES
  peer,      \* the other end: "new", connected and "up", or "gone"
  sent,      \* packets it has sent
  stream,    \* the bytes of these, and of one it may have been in the middle of
  ends,      \* how many of them there are up to the end of each packet
  taken,     \* how many of them were received
  backlog,   \* connections to accept
  sock,      \* the connection behind each socket, NoConn if it is not open
  conn,      \* m_conn
  fd,        \* m_fd of each ConnectionInfo; of no meaning before it is accepted
  state,     \* GetState(): 1 once identified
  buf,       \* m_buf: bytes of an incomplete packet
  len,       \* m_len: the length of that packet, 0 as long as it is not known
  events,    \* m_events; <<c, n>> is the n-th event of c
  log,       \* the events of each connection so far
  handled,   \* how many of them the callback was given
  pc,        \* where the thread is, "dead" if it has ended by an exception
  ready,     \* the sockets that select has found and that are still to be read
  cur,       \* the connection whose bytes are parsed
  done,      \* a packet has come in this ProcessEvents
  mail,      \* <<c, d>>: a packet for c was sent on the socket of d
  shut       \* connections that the server itself has closed

peerVars == <<peer, sent, stream, ends>>
connVars == <<sock, conn, fd>>
bufVars  == <<buf, len>>
pollVars == <<pc, ready, cur, done>>
vars == <<peerVars, taken, backlog, connVars, state, bufVars, events, log, handled,
          pollVars, mail, shut>>

-----------------------------------------------------------------------------
(***************************************************************************)
(* Packets on the wire: four bytes with the length, the low one first.     *)
(***************************************************************************)

Bytes == 0 .. 255

Digits(n) ==
  <<n % 256, High(n) % 256, High(High(n)) % 256, High(High(High(n))) % 256>>

Length(b) == b[1] + 256 * (b[2] + 256 * (b[3] + 256 * b[4]))

Header == 4

Encode(p) == Digits(Len(p)) \o p

\* Mutant: a length that is not known is -1.
LengthOrNone(b) == IF Len(b) >= Header THEN Length(b) ELSE -1

LengthOf(b) ==
  IF Len(b) >= Header THEN Length(b) ELSE 0

\* Mutant: the length of the last packet is kept.
UpdateLengthOnce(force, old, b) == IF old = 0 THEN LengthOf(b) ELSE old

UpdateLength(force, old, b) ==
  IF force \/ old = 0 THEN LengthOf(b) ELSE old

\* The events that the callback was given of each connection.
Heard == [c \in Conns |-> SubSeq(log[c], 1, handled[c])]

Channel == INSTANCE PacketChannel WITH heard <- Heard

TypeOK ==
  /\ peer \in [Conns -> {"new", "up", "gone"}]
  /\ sent \in [Conns -> Seq(Packets)]
  /\ stream \in [Conns -> Seq(Bytes)]
  /\ ends \in [Conns -> Seq(Nat)]
  /\ taken \in [Conns -> Nat]
  /\ backlog \in Seq(Conns)
  /\ sock \in [Fds -> Conns \cup {NoConn}]
  /\ conn \subseteq Conns
  /\ fd \in [Conns -> Fds]
  /\ state \in [Conns -> {0, 1}]
  /\ buf \in [Conns -> Seq(Bytes)]
  /\ len \in [Conns -> Nat]
  /\ events \in Seq(Conns \X Nat)
  /\ log \in [Conns -> Seq([type : {"CONNECT", "RECEIVE", "DISCONNECT"}, packet : Seq(Bytes)])]
  /\ handled \in [Conns -> Nat]
  /\ pc \in {"select", "scan", "parse", "dispatch", "dead"}
  /\ ready \subseteq Fds
  /\ cur \in Conns \cup {NoConn} /\ (pc = "parse" => cur # NoConn)
  /\ done \in BOOLEAN
  /\ mail \subseteq Conns \X Conns
  /\ shut \subseteq Conns

Init ==
  /\ peer = [c \in Conns |-> "new"]
  /\ sent = [c \in Conns |-> <<>>]
  /\ stream = [c \in Conns |-> <<>>]
  /\ ends = [c \in Conns |-> <<>>]
  /\ taken = [c \in Conns |-> 0]
  /\ backlog = <<>>
  /\ sock = [f \in Fds |-> NoConn]
  /\ conn = {}
  /\ fd = [c \in Conns |-> CHOOSE f \in Fds : TRUE]
  /\ state = [c \in Conns |-> 0]
  /\ buf = [c \in Conns |-> <<>>]
  /\ len = [c \in Conns |-> 0]
  /\ events = <<>>
  /\ log = [c \in Conns |-> <<>>]
  /\ handled = [c \in Conns |-> 0]
  /\ pc = "select" /\ ready = {} /\ cur = NoConn /\ done = FALSE
  /\ mail = {} /\ shut = {}

-----------------------------------------------------------------------------
(***************************************************************************)
(* The other ends.  The socket of one that is gone still holds what it     *)
(* wrote.  It may leave while it sends.                                    *)
(***************************************************************************)

PeerConnects(c) ==
  /\ peer[c] = "new"
  /\ peer' = [peer EXCEPT ![c] = "up"]
  /\ backlog' = Append(backlog, c)
  /\ UNCHANGED <<sent, stream, ends, taken, connVars, state, bufVars, events, log, handled,
                 pollVars, mail, shut>>

PeerSends(c, p) ==
  /\ peer[c] = "up" /\ Len(sent[c]) < MaxPackets[c]
  /\ sent' = [sent EXCEPT ![c] = Append(@, p)]
  /\ stream' = [stream EXCEPT ![c] = @ \o Encode(p)]
  /\ ends' = [ends EXCEPT ![c] = Append(@, Len(stream'[c]))]
  /\ UNCHANGED <<peer, taken, backlog, connVars, state, bufVars, events, log, handled,
                 pollVars, mail, shut>>

PeerLeaves(c, p, n) ==
  /\ peer[c] = "up" /\ n < Len(Encode(p))
  /\ peer' = [peer EXCEPT ![c] = "gone"]
  /\ stream' = [stream EXCEPT ![c] = @ \o SubSeq(Encode(p), 1, n)]
  /\ UNCHANGED <<sent, ends, taken, backlog, connVars, state, bufVars, events, log, handled,
                 pollVars, mail, shut>>

-----------------------------------------------------------------------------
(***************************************************************************)
(* What the callback, and other threads, do to connections.  A connection  *)
(* is named by its ConnectionInfo but found by the number of its socket.   *)
(***************************************************************************)

Matching(c) == {d \in conn : fd[d] = fd[c]}

\* Mutant: the slot of m_conn is not emptied.
CloseSocket(c) ==
  /\ sock' = [f \in Fds |-> IF \E d \in Matching(c) : fd[d] = f THEN NoConn ELSE sock[f]]
  /\ UNCHANGED <<conn, fd>>

Close(c) ==
  /\ sock' = [f \in Fds |-> IF \E d \in Matching(c) : fd[d] = f THEN NoConn ELSE sock[f]]
  /\ conn' = conn \ Matching(c)
  /\ UNCHANGED fd

\* The sockets that a packet for c is sent on.
Recipients(c, duringconnect) == {d \in Matching(c) : state[d] > 0 \/ duringconnect}

SendPacket(c, duringconnect) ==
  mail' = mail \cup {<<c, d>> : d \in Recipients(c, duringconnect)}

\* To write to a socket whose other end is gone may be an error, and throw.
MayThrow(c) == \E d \in Matching(c) : peer[d] = "gone"

\* Any other thread that has the ConnectionInfo from an event.  A packet for all is one
\* for each connection in turn.
SendCommand(c) ==
  /\ pc # "dead" /\ handled[c] > 0
  /\ SendPacket(c, FALSE)
  /\ UNCHANGED <<peerVars, taken, backlog, connVars, state, bufVars, events, log, handled,
                 pollVars, shut>>

-----------------------------------------------------------------------------
(***************************************************************************)
(* ProcessEvents.                                                          *)
(***************************************************************************)

Push(c, event) ==
  /\ log' = [log EXCEPT ![c] = Append(@, event)]
  /\ events' = Append(events, <<c, Len(log[c]) + 1>>)

Available(f) == taken[sock[f]] < Len(stream[sock[f]])

Readable == {f \in Fds : sock[f] # NoConn /\ (Available(f) \/ peer[sock[f]] = "gone")}

SelectTimesOut ==
  /\ pc = "select" /\ Readable = {} /\ backlog = <<>>
  /\ pc' = "dispatch"
  /\ UNCHANGED <<peerVars, taken, backlog, connVars, state, bufVars, events, log, handled,
                 ready, cur, done, mail, shut>>

Select ==
  /\ pc = "select" /\ Readable # {} /\ backlog = <<>>
  /\ pc' = "scan"
  /\ ready' = Readable
  /\ UNCHANGED <<peerVars, taken, backlog, connVars, state, bufVars, events, log, handled,
                 cur, done, mail, shut>>

\* One connection at a time, before the sockets that were readable are looked at.
SelectAccepts(f) ==
  /\ pc = "select" /\ backlog # <<>> /\ sock[f] = NoConn
  /\ pc' = "scan"
  /\ ready' = Readable
  /\ LET c == Head(backlog)
     IN  /\ sock' = [sock EXCEPT ![f] = c]
         /\ conn' = conn \cup {c}
         /\ fd' = [fd EXCEPT ![c] = f]
         /\ Push(c, Channel!Connect)
  /\ backlog' = Tail(backlog)
  /\ UNCHANGED <<peerVars, taken, state, bufVars, handled, cur, done, mail, shut>>

Smaller(m, n) == IF m <= n THEN m ELSE n

\* The sockets are read in the order of their numbers, and the connection is looked
\* up in m_conn by the number.
Turn(f, c) ==
  /\ pc = "scan" /\ f \in ready /\ \A g \in ready : f <= g
  /\ c \in conn /\ fd[c] = f
  /\ ready' = ready \ {f}

ReadSocket(f, c) ==
  /\ Turn(f, c) /\ Available(f)
  /\ \E n \in Pieces :
       LET s == sock[f]
           t == Smaller(taken[s] + n, Len(stream[s]))
       IN  /\ taken' = [taken EXCEPT ![s] = t]
           /\ buf' = [buf EXCEPT ![c] = @ \o SubSeq(stream[s], taken[s] + 1, t)]
  /\ len' = [len EXCEPT ![c] = UpdateLength(FALSE, @, buf'[c])]
  /\ pc' = "parse" /\ cur' = c
  /\ UNCHANGED <<peerVars, backlog, connVars, state, events, log, handled, done, mail, shut>>

SocketEnds(f, c) ==
  /\ Turn(f, c) /\ ~Available(f)
  /\ Push(c, Channel!Disconnect)
  /\ Close(c)
  /\ UNCHANGED <<peerVars, taken, backlog, state, bufVars, handled, pc, cur, done, mail, shut>>

\* Mutant: a packet is complete when more has come.
HavePacketLate(c) == Len(buf[c]) > len[c] + Header

HavePacket(c) ==
  Len(buf[c]) >= len[c] + Header

GetPacket ==
  /\ pc = "parse" /\ HavePacket(cur)
  /\ Push(cur, Channel!Receive(SubSeq(buf[cur], Header + 1, Header + len[cur])))
  /\ buf' = [buf EXCEPT ![cur] = SubSeq(@, Header + len[cur] + 1, Len(@))]
  /\ len' = [len EXCEPT ![cur] = UpdateLength(TRUE, @, buf'[cur])]
  /\ done' = TRUE
  /\ UNCHANGED <<peerVars, taken, backlog, connVars, state, handled, pc, ready, cur, mail, shut>>

ParseEnds ==
  /\ pc = "parse" /\ ~HavePacket(cur)
  /\ pc' = "scan" /\ cur' = NoConn
  /\ UNCHANGED <<peerVars, taken, backlog, connVars, state, bufVars, events, log, handled,
                 ready, done, mail, shut>>

\* The poll goes on until a packet has come or the time is over.
RoundEnds ==
  /\ pc = "scan" /\ ready = {}
  /\ \/ pc' = "dispatch" /\ done' = FALSE
     \/ ~done /\ pc' = "select" /\ UNCHANGED done
  /\ UNCHANGED <<peerVars, taken, backlog, connVars, state, bufVars, events, log, handled,
                 ready, cur, mail, shut>>

-----------------------------------------------------------------------------
(***************************************************************************)
(* Process gives the events to the callback.                               *)
(***************************************************************************)

DispatchEnds ==
  /\ pc = "dispatch" /\ events = <<>>
  /\ pc' = "select"
  /\ UNCHANGED <<peerVars, taken, backlog, connVars, state, bufVars, events, log, handled,
                 ready, cur, done, mail, shut>>

Pop(c, types) ==
  /\ pc = "dispatch" /\ events # <<>>
  /\ \E n \in 1 .. Len(log[c]) : Head(events) = <<c, n>> /\ log[c][n].type \in types
  /\ events' = Tail(events)
  /\ handled' = [handled EXCEPT ![c] = @ + 1]
  /\ UNCHANGED <<peerVars, taken, backlog, fd, bufVars, log, ready, cur, done>>

\* With GetState() = 0 the first packet is taken for the identification, and may be none.
Greet(c) ==
  /\ Pop(c, {"CONNECT"})
  /\ SendPacket(c, TRUE)
  /\ UNCHANGED <<sock, conn, state, pc, shut>>

Refuse(c) ==
  /\ Pop(c, {"CONNECT"})
  /\ SendPacket(c, TRUE)
  /\ Close(c)
  /\ shut' = shut \cup Matching(c)
  /\ UNCHANGED <<state, pc>>

Identify(c) ==
  /\ Pop(c, {"RECEIVE"}) /\ state[c] = 0
  /\ SendPacket(c, TRUE)
  /\ \E s \in {0, 1} : state' = [state EXCEPT ![c] = s]
  /\ UNCHANGED <<sock, conn, pc, shut>>

Deliver(c) ==
  /\ Pop(c, {"RECEIVE"}) /\ state[c] = 1
  /\ UNCHANGED <<sock, conn, state, pc, mail, shut>>

Forget(c) ==
  /\ Pop(c, {"DISCONNECT"})
  /\ UNCHANGED <<sock, conn, state, pc, mail, shut>>

\* The exception of a SendPacket in the callback ends the thread.
CallbackThrows(c) ==
  /\ Pop(c, {"CONNECT", "RECEIVE"}) /\ state[c] = 0 /\ MayThrow(c)
  /\ pc' = "dead"
  /\ UNCHANGED <<sock, conn, state, mail, shut>>

-----------------------------------------------------------------------------

Poll ==
  \/ SelectTimesOut \/ Select \/ \E f \in Fds : SelectAccepts(f)
  \/ \E f \in Fds, c \in Conns : ReadSocket(f, c) \/ SocketEnds(f, c)
  \/ GetPacket \/ ParseEnds \/ RoundEnds

Dispatch ==
  \/ DispatchEnds
  \/ \E c \in Conns : \/ Greet(c) \/ Refuse(c) \/ Identify(c) \/ Deliver(c) \/ Forget(c)
                      \/ CallbackThrows(c)

Peers ==
  \E c \in Conns :
    \/ PeerConnects(c)
    \/ \E p \in Packets : \/ PeerSends(c, p)
                          \/ \E n \in Cuts : PeerLeaves(c, p, n)

Next == Poll \/ Dispatch \/ Peers \/ \E c \in Conns : SendCommand(c)

Spec == Init /\ [][Next]_vars

FairSpec == Spec /\ WF_vars(Poll \/ Dispatch)

-----------------------------------------------------------------------------
(***************************************************************************)
(* Properties.                                                             *)
(***************************************************************************)

\* However the bytes of packets are cut into pieces on the way, and whatever other
\* connections do, the callback is given what PacketChannel promises: whole packets in
\* order, and the end after all of them (TransportTCP.cc:167-194, 282-374,
\* TransportBase.cc:29-44).
ChannelSpec == Channel!Spec

\* m_conn and the sockets that are open fit together, so that bytes go to the buffer
\* of the connection they come from, and GetInfo finds one (TransportTCP.cc:240-248,
\* 260-269, 315-327).
SocketsMatch ==
  /\ \A c \in conn : sock[fd[c]] = c
  /\ \A f \in Fds : sock[f] # NoConn => sock[f] \in conn /\ fd[sock[f]] = f

\* A packet for one connection reaches another only if the first was closed before
\* (TransportTCP.cc:152-158, 271-280).
StraysAreStale == \A m \in mail : m[1] # m[2] => m[1] \notin conn

\* The callback is given every packet, and the end of every connection, unless the
\* server has closed the connection or its thread has ended: again and again there is
\* nothing left that it was not given (TransportTCP.cc:332-357, TransportBase.cc:35-43).
Due(c) == CASE peer[c] = "new"  -> 0
            [] peer[c] = "up"   -> Len(sent[c]) + 1
            [] peer[c] = "gone" -> Len(sent[c]) + 2

EverythingHeard ==
  \A c \in Conns : []<>(handled[c] = Due(c) \/ c \in shut \/ pc = "dead")
=============================================================================
