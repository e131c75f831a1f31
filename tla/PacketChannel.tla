---------------------------- MODULE PacketChannel ----------------------------
(***************************************************************************)
(* What a transport server promises the callback that is given its events: *)
(* of each connection first that it is there, then the packets that the    *)
(* other end has sent, whole, in order and none twice, and at last that it *)
(* is gone, but not before all of its packets.                             *)
(***************************************************************************)
EXTENDS Naturals, Sequences

CONSTANTS Conns,    \* connections, each made once
          Packets   \* what can be sent over them

VARIABLES
  sent,    \* the packets that the other end has sent
  heard    \* the events of each connection that the callback was given

vars == <<sent, heard>>

Connect    == [type |-> "CONNECT", packet |-> <<>>]
Disconnect == [type |-> "DISCONNECT", packet |-> <<>>]
Receive(p) == [type |-> "RECEIVE", packet |-> p]

Init ==
  /\ sent = [c \in Conns |-> <<>>]
  /\ heard = [c \in Conns |-> <<>>]

\* A connection that is gone has heard one event for each packet and two more.
Send(c, p) ==
  /\ Len(heard[c]) < Len(sent[c]) + 2
  /\ sent' = [sent EXCEPT ![c] = Append(@, p)]
  /\ UNCHANGED heard

Tell(c, event) ==
  /\ heard' = [heard EXCEPT ![c] = Append(@, event)]
  /\ UNCHANGED sent

TellConnect(c) == heard[c] = <<>> /\ Tell(c, Connect)

TellReceive(c) ==
  /\ Len(heard[c]) \in 1 .. Len(sent[c])
  /\ Tell(c, Receive(sent[c][Len(heard[c])]))

TellDisconnect(c) == Len(heard[c]) = Len(sent[c]) + 1 /\ Tell(c, Disconnect)

Next ==
  \E c \in Conns : \/ \E p \in Packets : Send(c, p)
                   \/ TellConnect(c) \/ TellReceive(c) \/ TellDisconnect(c)

Spec == Init /\ [][Next]_vars
=============================================================================
