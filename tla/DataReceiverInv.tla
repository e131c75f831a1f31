--------------------------- MODULE DataReceiverInv ---------------------------
(***************************************************************************)
(* Why the user of a DataReceiver sees a stream: the inductive invariant   *)
(* behind CleanSlate and StreamSpec of DataReceiver.  An event is sent,    *)
(* then in a packet, then in the queue, then given to OnReceive, and each  *)
(* of these places holds earlier events than the one before.               *)
(***************************************************************************)
EXTENDS DataReceiver

\* The Deamon closes only what StopListen has stopped, and nothing is born in a
\* run that has no server.
Life ==
  /\ CleanSlate
  /\ listening => server
  /\ server => run > 0
  /\ dm \in {"closeRcv", "closeFwd"} => ~listening
  /\ dm = "closeFwd" => rcv = "none"

\* A connection that takes part belongs to the server that is open.
Born(c) ==
  /\ phase[c] = "absent" <=> born[c] = 0
  /\ born[c] <= run
  /\ phase[c] = "absent" => to[c] = <<>> /\ sent[c] = 0
  /\ phase[c] \notin {"absent", "gone"} => server /\ born[c] = run
  /\ to[c] # <<>> => born[c] = run
  /\ \A i \in DOMAIN qu : qu[i][1] = c => born[c] = run

IsEvent(p) == p[1] = "EVENT"

\* Packets t of a connection that has sent s events and been given the l-th one
\* last: later ones, in order.
InPackets(t, s, l) ==
  /\ l <= s
  /\ \A i \in DOMAIN t : IsEvent(t[i]) => l < t[i][2] /\ t[i][2] <= s
  /\ \A i, j \in DOMAIN t : IsEvent(t[i]) /\ IsEvent(t[j]) /\ i < j => t[i][2] < t[j][2]

\* The entries of c in q: later than what was given, in order, and earlier than
\* what is in packets.
InQueue(q, c, t, s, l) ==
  /\ \A i \in DOMAIN q : q[i][1] = c =>
       /\ q[i][2] <= s
       /\ q[i][2] > 0 => l < q[i][2]
       /\ \A k \in DOMAIN t : IsEvent(t[k]) => q[i][2] < t[k][2]
  /\ \A i, j \in DOMAIN q :
       q[i][1] = c /\ q[j][1] = c /\ i < j /\ q[j][2] > 0 => q[i][2] < q[j][2]

\* The inductive invariant (DataReceiver.cc:83-117, 120-151, 162-185, 219-235).
ReceiverInv ==
  /\ TypeOK
  /\ Life
  /\ \A c \in Conns :
       /\ Born(c)
       /\ InPackets(to[c], sent[c], last[c])
       /\ InQueue(qu, c, to[c], sent[c], last[c])

-----------------------------------------------------------------------------
(***************************************************************************)
(* Why OnConnect is called at most once: only the packet with the name     *)
(* lets a marker mean a connect, there is one such packet, and with the    *)
(* packet of the end the state is taken back before the second marker.     *)
(***************************************************************************)

Early == {"absent", "calling", "greeted"}
IsName(p) == p[1] = "NAME"

\* Packets t of a connection whose other end is at ph.
Naming(t, ph) ==
  /\ ph \in Early => \A i \in DOMAIN t : ~IsName(t[i])
  /\ \A i, j \in DOMAIN t : IsName(t[i]) /\ IsName(t[j]) => i = j
  /\ \A i \in DOMAIN t : t[i][1] = "BYE" => ph = "gone" /\ i = Len(t)

\* Nothing was made yet of the name of a connection.
Unnamed(t, ph) == ph \in Early \/ \E i \in DOMAIN t : IsName(t[i])

\* The markers of c in q, for a state s and h calls of OnConnect.
Markers(q, c, s, h, unnamed) ==
  /\ unnamed => s = 0 /\ h = 0 /\ \A i \in DOMAIN q : q[i] # <<c, 0>>
  /\ s = 1 => \A i, j \in DOMAIN q : q[i] = <<c, 0>> /\ q[j] = <<c, 0>> => i = j /\ h = 0

\* A connect can be announced once (DataReceiver.cc:39-53, 86-92, 145-150).
HailInv ==
  \A c \in Conns :
    /\ Naming(to[c], phase[c])
    /\ Markers(qu, c, state[c], hails[c], Unnamed(to[c], phase[c]))

-----------------------------------------------------------------------------
(***************************************************************************)
(* Why a farewell waits: a marker means a connect only while the           *)
(* connection is one that the forwarding thread will take leave of.        *)
(***************************************************************************)

Waits(c) ==
  byes[c] > 0 \/ c \in known \/ \E i \in DOMAIN qu : qu[i] = <<c, 0>>

\* The inductive form of FarewellWaits (DataReceiver.cc:39-53, 100-104, 145-158).
FarewellInv ==
  \A c \in Conns : server /\ ~full /\ born[c] = run =>
    /\ state[c] = 1 /\ fwd \in FwdAlive => c \in known
    /\ hails[c] > 0 => Waits(c)

-----------------------------------------------------------------------------
(***************************************************************************)
(* Why OnConnect comes first: before the name is handled nothing of the    *)
(* connection is in the queue, and until OnConnect its marker is ahead of  *)
(* its events.                                                             *)
(***************************************************************************)

\* A marker of c is in q, and no event of it before.
Announced(q, c) ==
  \E i \in DOMAIN q : q[i] = <<c, 0>> /\ \A j \in DOMAIN q : q[j][1] = c => i <= j

\* The invariant behind HailedFirst (DataReceiver.cc:39-53, 83-102, 136-151).
FirstInv ==
  \A c \in Conns :
    /\ hails[c] \in {0, 1}
    /\ phase[c] = "up" => \A i \in DOMAIN to[c] : ~IsName(to[c][i])
    /\ Unnamed(to[c], phase[c]) => sent[c] = 0
    /\ server /\ ~full /\ born[c] = run /\ state[c] = 1 /\ hails[c] = 0 => Announced(qu, c)
=============================================================================
