--------------------------- MODULE TransportTCPInv ---------------------------
(***************************************************************************)
(* The inductive invariant of TransportTCP: where each byte of a stream is *)
(* between the peer and the callback.                                      *)
(***************************************************************************)
EXTENDS TransportTCP

\* Where the packet after the first k begins, in a stream where packets end at es.
StartIn(es, k) == IF k = 0 THEN 0 ELSE es[k]

Start(c, k) == StartIn(ends[c], k)

\* The bytes b begin with the packets ps, and these end at es.
Spells(ps, es, b) ==
  /\ Len(es) = Len(ps)
  /\ \A k \in 1 .. Len(ps) :
       /\ es[k] = StartIn(es, k - 1) + Len(Encode(ps[k]))
       /\ es[k] <= StartIn(es, Len(ps))
       /\ \A j \in 1 .. Len(Encode(ps[k])) : b[StartIn(es, k - 1) + j] = Encode(ps[k])[j]
  /\ StartIn(es, Len(ps)) <= Len(b)

\* After n bytes of b there are none, or the first ones of a packet.
Breaks(n, b) ==
  \/ Len(b) = n
  \/ \E p \in Packets :
       /\ Len(b) < n + Len(Encode(p))
       /\ \A j \in 1 .. Len(b) - n : b[n + j] = Encode(p)[j]

StreamShape(c) ==
  /\ Spells(sent[c], ends[c], stream[c])
  /\ Breaks(Start(c, Len(sent[c])), stream[c])
  /\ peer[c] # "gone" => Len(stream[c]) = Start(c, Len(sent[c]))

\* The n-th event of a connection.
Entry(c, n) ==
  IF n = 1 THEN Channel!Connect
  ELSE IF n <= Len(sent[c]) + 1 THEN Channel!Receive(sent[c][n - 1])
  ELSE Channel!Disconnect

LogShape(c) ==
  /\ Len(log[c]) <= Len(sent[c]) + 2
  /\ Len(log[c]) = Len(sent[c]) + 2 => peer[c] = "gone"
  /\ \A n \in 1 .. Len(log[c]) : log[c][n] = Entry(c, n)

\* Of an open connection, the buffer holds the bytes after the last packet taken out
\* of it, and m_len is what they say.
BufferShape(c) ==
  /\ Len(log[c]) \in 1 .. Len(sent[c]) + 1
  /\ Start(c, Len(log[c]) - 1) <= taken[c] /\ taken[c] <= Len(stream[c])
  /\ Len(buf[c]) = taken[c] - Start(c, Len(log[c]) - 1)
  /\ \A j \in 1 .. Len(buf[c]) : buf[c][j] = stream[c][Start(c, Len(log[c]) - 1) + j]
  /\ len[c] = LengthOf(buf[c])
  /\ HavePacket(c) => pc = "parse" /\ cur = c

\* The queue holds the events that are not handled, those of a connection in order.
QueueShape ==
  /\ \A c \in Conns :
       /\ handled[c] <= Len(log[c])
       /\ \A n \in handled[c] + 1 .. Len(log[c]) :
            \E i \in 1 .. Len(events) : events[i] = <<c, n>>
  /\ \A i \in 1 .. Len(events) :
       LET c == events[i][1]
       IN  events[i][2] \in handled[c] + 1 .. Len(log[c])
  /\ \A i, j \in 1 .. Len(events) :
       i < j /\ events[i][1] = events[j][1] => events[i][2] < events[j][2]

\* Connections that wait to be accepted are accepted once.
BacklogShape ==
  /\ \A i \in 1 .. Len(backlog) : log[backlog[i]] = <<>> /\ peer[backlog[i]] # "new"
  /\ \A i, j \in 1 .. Len(backlog) : i # j => backlog[i] # backlog[j]
  /\ \A c \in Conns : log[c] = <<>> => buf[c] = <<>> /\ len[c] = 0 /\ taken[c] = 0
  /\ \A c \in Conns : peer[c] = "new" => log[c] = <<>>

\* What select has found is still true when the socket is read.
ReadyShape ==
  \A f \in ready : sock[f] # NoConn => Available(f) \/ peer[sock[f]] = "gone"

\* A packet was sent for a connection that the callback knows.
MailShape == \A m \in mail : log[m[1]] # <<>>

TransportInv ==
  /\ \A c \in Conns : StreamShape(c) /\ LogShape(c)
  /\ \A c \in conn : BufferShape(c)
  /\ QueueShape
  /\ BacklogShape
  /\ SocketsMatch
  /\ pc = "parse" => cur \in conn
  /\ ReadyShape
  /\ MailShape
  /\ StraysAreStale
=============================================================================
