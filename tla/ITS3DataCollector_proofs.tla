---------------------- MODULE ITS3DataCollector_proofs ----------------------
(***************************************************************************)
(* For any connections, status events and bounds: the collector builds its *)
(* global events as EventBuilding says, in step as long as nothing is lost *)
(* and nobody leaves, and without holding anything back.                   *)
(***************************************************************************)
EXTENDS ITS3DataCollector, FiniteSetTheorems, SequenceTheorems, TLAPS

-----------------------------------------------------------------------------
(***************************************************************************)
(* The inductive invariant.                                                *)
(***************************************************************************)

\* Nothing of an earlier run has a queue once DoStartRun is over, and nobody is
\* connected before.
Runs ==
  /\ \A c \in Conns : born[c] <= run
  /\ fwd # "none" /\ ~ready => \A c \in Conns : born[c] < run
  /\ ready => \A c \in Connected : born[c] = run

\* A queue holds, in order, events that were received and not used.
Order ==
  /\ \A c \in Conns : used[c] <= last[c] /\ last[c] <= sent[c]
  /\ \A c \in Connected : \A i \in 1 .. Len(queues[c]) :
       used[c] < queues[c][i] /\ queues[c][i] <= last[c]
  /\ \A c \in Connected : \A i, j \in 1 .. Len(queues[c]) :
       i < j => queues[c][i] < queues[c][j]

\* The i-th of a queue is the i-th data event after those that were built.
StepOf(c) ==
  /\ Nth(c, used[c]) = ndev
  /\ \A i \in 1 .. Len(queues[c]) : Nth(c, queues[c][i]) = ndev + i
  /\ Nth(c, last[c]) = ndev + Len(queues[c])

Steps ==
  regular =>
    /\ \A c \in Connected : StepOf(c)
    /\ ready /\ Connected = {} => ndev = 0
    /\ Connected # {} => ~Complete(queues)

CollectorInv == TypeOK /\ Runs /\ Order /\ Steps

-----------------------------------------------------------------------------
(***************************************************************************)
(* Counting the data events of a connection.                               *)
(***************************************************************************)

Data(c, e) == {d \in 1 .. e : ~IsStatus(c, d)}

LEMMA DataIsFinite ==
  ASSUME NEW c, NEW e \in Nat
  PROVE  IsFiniteSet(Data(c, e)) /\ Nth(c, e) = Cardinality(Data(c, e)) /\ Nth(c, e) \in Nat
<1>1. IsFiniteSet(1 .. e)
  BY FS_Interval
<1>2. IsFiniteSet(Data(c, e))
  BY <1>1, FS_Subset DEF Data
<1>3. Nth(c, e) = Cardinality(Data(c, e))
  BY DEF Nth, Data
<1> QED BY <1>2, <1>3, FS_CardinalityType

LEMMA NthMonotone ==
  ASSUME NEW c, NEW d \in Nat, NEW e \in Nat, d <= e
  PROVE  Nth(c, d) <= Nth(c, e)
<1>1. Data(c, d) \subseteq Data(c, e)
  BY DEF Data
<1> QED BY <1>1, DataIsFinite, FS_Subset

LEMMA NthNext ==
  ASSUME NEW c, NEW e \in Nat
  PROVE  Nth(c, e + 1) = IF IsStatus(c, e + 1) THEN Nth(c, e) ELSE Nth(c, e) + 1
<1>1. e + 1 \in Nat /\ e + 1 \notin Data(c, e)
  BY DEF Data
<1>2. CASE IsStatus(c, e + 1)
  <2>1. Data(c, e + 1) = Data(c, e)
    BY <1>2 DEF Data
  <2> QED BY <1>1, <1>2, <2>1, DataIsFinite
<1>3. CASE ~IsStatus(c, e + 1)
  <2>1. Data(c, e + 1) = Data(c, e) \cup {e + 1}
    BY <1>3 DEF Data
  <2> QED BY <1>1, <1>3, <2>1, DataIsFinite, FS_AddElement
<1> QED BY <1>2, <1>3

-----------------------------------------------------------------------------
(***************************************************************************)
(* Types.                                                                  *)
(***************************************************************************)

TypeFlags ==
  /\ ready \in BOOLEAN /\ regular \in BOOLEAN
  /\ fwd \in {"none", "alive", "dead"}
  /\ cmd \in {"free", "stop", "status", "dead"}

TypeData ==
  /\ run \in Nat /\ ndev \in Nat
  /\ born \in [Conns -> Nat] /\ sent \in [Conns -> Nat]
  /\ last \in [Conns -> Nat] /\ hails \in [Conns -> Nat] /\ used \in [Conns -> Nat]
  /\ Connected \subseteq DataConns /\ IsFiniteSet(Connected)
  /\ queues \in [Connected -> Seq(Nat)]

LEMMA TypeParts == TypeOK <=> TypeFlags /\ TypeData /\ seen \in Nat
BY Zenon DEF TypeOK, TypeFlags, TypeData

LEMMA TypePartsNext == TypeOK' <=> TypeFlags' /\ TypeData' /\ seen' \in Nat
BY Zenon DEF TypeOK, TypeFlags, TypeData, Connected

\* What the steps that touch no event leave alone.
Still == UNCHANGED <<run, born, sent, last, hails, ready, queues, ndev, used, regular>>

StillStep == StopRun \/ StopListenReturns \/ DoStatusBegins \/ DoStatusEnds \/ ForwardingEnds

ConnStep(c) ==
  \/ ProducerConnects(c) \/ ProducerSends(c)
  \/ DoConnect(c) \/ DoDisconnect(c) \/ DoReceive(c)

LEMMA NextCases ==
  CNext <=> StillStep \/ StartListening \/ DoStartRun \/ \E c \in Conns : ConnStep(c)
BY DEF CNext, StillStep, ConnStep

LEMMA StillIsStill == StillStep => Still
BY DEF StillStep, Still, vars, buildVars, StopRun, StopListenReturns, DoStatusBegins,
       DoStatusEnds, ForwardingEnds

LEMMA FlagsStep ==
  ASSUME TypeFlags, CNext
  PROVE  TypeFlags'
<1> USE Zenon DEF TypeFlags, threadVars, buildVars
<1>1. CASE StillStep
  BY <1>1 DEF StillStep, StopRun, StopListenReturns, DoStatusBegins, DoStatusEnds,
              ForwardingEnds
<1>2. CASE StartListening
  BY <1>2 DEF StartListening
<1>3. CASE DoStartRun
  BY <1>3 DEF DoStartRun
<1>4. ASSUME NEW c \in Conns, ConnStep(c)
      PROVE  TypeFlags'
  <2>1. CASE ProducerConnects(c) \/ ProducerSends(c)
    BY <2>1 DEF ProducerConnects, ProducerSends
  <2>2. CASE DoConnect(c)
    BY <2>2 DEF DoConnect, BeforeData
  <2>3. CASE DoDisconnect(c)
    BY <2>3 DEF DoDisconnect
  <2>4. CASE DoReceive(c)
    BY <2>4 DEF DoReceive
  <2> QED BY <1>4, <2>1, <2>2, <2>3, <2>4 DEF ConnStep
<1> QED BY <1>1, <1>2, <1>3, <1>4, NextCases

LEMMA SeenStep ==
  ASSUME TypeOK, CNext
  PROVE  seen' \in Nat
<1>1. CASE DoStatusBegins
  BY <1>1, FS_CardinalityType DEF DoStatusBegins, TypeOK
<1>2. CASE ~DoStatusBegins
  <2>1. seen' = seen \/ seen' = 0
    BY <1>2 DEF CNext, threadVars, StopRun, StopListenReturns, DoStatusEnds, ForwardingEnds,
                StartListening, DoStartRun, ProducerConnects, ProducerSends, DoConnect,
                DoDisconnect, DoReceive
  <2> QED BY <2>1 DEF TypeOK
<1> QED BY <1>1, <1>2

\* The queues after a step, over the set of those that are then connected.
LEMMA QueuesType ==
  ASSUME NEW D, D \subseteq DataConns, IsFiniteSet(D), queues' \in [D -> Seq(Nat)]
  PROVE  /\ Connected' \subseteq DataConns /\ IsFiniteSet(Connected')
         /\ queues' \in [Connected' -> Seq(Nat)]
<1>1. Connected' = D
  BY DEF Connected
<1> QED BY <1>1

LEMMA BuildType ==
  ASSUME TypeData, NEW q \in [Connected -> Seq(Nat)], BuildAndWrite(q)
  PROVE  /\ queues' \in [Connected -> Seq(Nat)]
         /\ used' \in [Conns -> Nat] /\ ndev' \in Nat
<1>1. DOMAIN q = Connected
  OBVIOUS
<1>2. CASE Complete(q)
  <2>1. \A c \in Connected : Tail(q[c]) \in Seq(Nat) /\ Head(q[c]) \in Nat
    BY <1>1, <1>2 DEF Complete
  <2>2. queues' = [c \in Connected |-> Tail(q[c])] /\ ndev' = ndev + 1
    BY <1>1, <1>2 DEF BuildAndWrite
  <2>3. used' = [c \in Conns |-> IF c \in Connected THEN Head(q[c]) ELSE used[c]]
    BY <1>1, <1>2 DEF BuildAndWrite
  <2>4. queues' \in [Connected -> Seq(Nat)]
    BY <2>1, <2>2
  <2>5. used' \in [Conns -> Nat]
    BY <2>1, <2>3 DEF TypeData
  <2> QED BY <2>2, <2>4, <2>5 DEF TypeData
<1>3. CASE ~Complete(q)
  BY <1>3 DEF BuildAndWrite, TypeData
<1> QED BY <1>2, <1>3

LEMMA ReceiveType ==
  ASSUME TypeData, NEW c \in Conns, OnReceive(c)
  PROVE  /\ last' \in [Conns -> Nat] /\ last[c] < last'[c] /\ last'[c] <= sent[c]
         /\ \A d \in Conns : d # c => last'[d] = last[d]
         /\ born[c] = run
         /\ UNCHANGED <<run, born, sent, hails>>
BY DEF OnReceive, TypeData

\* Data of a connection that has a queue.
Queued(c) == [queues EXCEPT ![c] = Append(@, last'[c])]

LEMMA QueuedType ==
  ASSUME TypeData, NEW c \in Connected, OnReceive(c)
  PROVE  Queued(c) \in [Connected -> Seq(Nat)]
<1>1. c \in Conns
  BY ITS3DataCollectorAssumption DEF TypeData
<1>2. last'[c] \in Nat
  BY <1>1, ReceiveType
<1>3. Append(queues[c], last'[c]) \in Seq(Nat)
  BY <1>2 DEF TypeData
<1> QED BY <1>3 DEF Queued, TypeData

\* What DoReceive may do, case by case.
LEMMA ReceiveCases ==
  ASSUME NEW c \in Conns, DoReceive(c)
  PROVE  /\ OnReceive(c) /\ UNCHANGED ready /\ fwd = "alive"
         /\ regular' = (regular /\ last'[c] = last[c] + 1)
         /\ \/ UNCHANGED <<queues, ndev, used>> /\ (IsStatus(c, last'[c]) \/ c \notin Connected)
            \/ c \in Connected /\ ~IsStatus(c, last'[c]) /\ BuildAndWrite(Queued(c))
BY DEF DoReceive, Queued

LEMMA DataStep ==
  ASSUME TypeData, CNext
  PROVE  TypeData'
<1> USE ITS3DataCollectorAssumption
<1>1. CASE StillStep
  BY <1>1, StillIsStill DEF Still, TypeData, Connected
<1>2. CASE StartListening
  BY <1>2 DEF StartListening, Listen, buildVars, TypeData, Connected
<1>3. CASE DoStartRun
  <2>1. queues' \in [{} -> Seq(Nat)] /\ IsFiniteSet({})
    BY <1>3, FS_EmptySet DEF DoStartRun, NoQueues
  <2>2. /\ Connected' \subseteq DataConns /\ IsFiniteSet(Connected')
        /\ queues' \in [Connected' -> Seq(Nat)]
    BY <2>1, QueuesType
  <2> QED BY <1>3, <2>2 DEF DoStartRun, vars, TypeData
<1>4. ASSUME NEW c \in Conns, ConnStep(c)
      PROVE  TypeData'
  <2>1. CASE ProducerConnects(c)
    BY <2>1 DEF ProducerConnects, Open, buildVars, TypeData, Connected
  <2>2. CASE ProducerSends(c)
    BY <2>2 DEF ProducerSends, Send, buildVars, TypeData, Connected
  <2>3. CASE DoConnect(c)
    <3>1. hails' \in [Conns -> Nat]
      BY <2>3 DEF DoConnect, OnConnect, TypeData
    <3>2. CASE c \in DataConns
      <4>1. IsFiniteSet(Connected \cup {c}) /\ Connected \cup {c} \subseteq DataConns
        BY <3>2, FS_AddElement DEF TypeData
      <4>2. queues' = [d \in Connected \cup {c} |-> IF d = c THEN <<>> ELSE queues[d]]
        BY <2>3, <3>2 DEF DoConnect
      <4>3. queues' \in [Connected \cup {c} -> Seq(Nat)]
        <5>1. <<>> \in Seq(Nat)
          BY EmptySeq
        <5>2. \A d \in Connected : queues[d] \in Seq(Nat)
          BY DEF TypeData
        <5> QED BY <4>2, <5>1, <5>2
      <4>4. /\ Connected' \subseteq DataConns /\ IsFiniteSet(Connected')
            /\ queues' \in [Connected' -> Seq(Nat)]
        BY <4>1, <4>3, QueuesType
      <4> QED BY <2>3, <3>1, <4>4 DEF DoConnect, OnConnect, TypeData
    <3>3. CASE c \notin DataConns
      BY <2>3, <3>1, <3>3 DEF DoConnect, OnConnect, TypeData, Connected
    <3> QED BY <3>2, <3>3
  <2>4. CASE DoDisconnect(c)
    <3>1. IsFiniteSet(Connected \ {c}) /\ Connected \ {c} \subseteq DataConns
      BY FS_RemoveElement DEF TypeData
    <3>2. queues' \in [Connected \ {c} -> Seq(Nat)]
      BY <2>4 DEF DoDisconnect, TypeData
    <3>3. /\ Connected' \subseteq DataConns /\ IsFiniteSet(Connected')
          /\ queues' \in [Connected' -> Seq(Nat)]
      BY <3>1, <3>2, QueuesType
    <3> QED BY <2>4, <3>3 DEF DoDisconnect, vars, TypeData
  <2>5. CASE DoReceive(c)
    <3>1. last' \in [Conns -> Nat] /\ UNCHANGED <<run, born, sent, hails>>
      BY <2>5, ReceiveCases, ReceiveType
    <3>2. CASE UNCHANGED <<queues, ndev, used>>
      BY <3>1, <3>2 DEF TypeData, Connected
    <3>3. CASE c \in Connected /\ BuildAndWrite(Queued(c))
      <4>1. queues' \in [Connected -> Seq(Nat)] /\ used' \in [Conns -> Nat] /\ ndev' \in Nat
        BY <2>5, <3>3, ReceiveCases, QueuedType, BuildType
      <4>2. /\ Connected' \subseteq DataConns /\ IsFiniteSet(Connected')
            /\ queues' \in [Connected' -> Seq(Nat)]
        BY <4>1, QueuesType DEF TypeData
      <4> QED BY <3>1, <4>1, <4>2 DEF TypeData
    <3> QED BY <2>5, <3>2, <3>3, ReceiveCases
  <2> QED BY <1>4, <2>1, <2>2, <2>3, <2>4, <2>5 DEF ConnStep
<1> QED BY <1>1, <1>2, <1>3, <1>4, NextCases

LEMMA TypeInit == CInit => TypeOK
<1> SUFFICES ASSUME CInit PROVE TypeOK
  OBVIOUS
<1>1. TypeFlags
  BY DEF CInit, TypeFlags
<1>2. TypeData
  BY FS_EmptySet DEF CInit, Init, TypeData, NoQueues, Connected
<1> QED BY <1>1, <1>2, TypeParts DEF CInit

LEMMA TypeStep ==
  ASSUME TypeOK, [CNext]_allVars
  PROVE  TypeOK'
<1>1. CASE CNext
  BY <1>1, TypeParts, TypePartsNext, FlagsStep, DataStep, SeenStep
<1>2. CASE UNCHANGED allVars
  BY Zenon, <1>2 DEF allVars, vars, threadVars, buildVars, TypeOK, Connected
<1> QED BY <1>1, <1>2

\* The variables keep their types, and only finitely many connections have a queue
\* (ITS3DataCollector.py:13-16, 68-84).
THEOREM CollectorTyping == CSpec => []TypeOK
BY TypeInit, TypeStep, PTL DEF CSpec

-----------------------------------------------------------------------------
(***************************************************************************)
(* Runs: who may have a queue.                                             *)
(***************************************************************************)

LEMMA RunsStep ==
  ASSUME TypeOK, Runs, CNext
  PROVE  Runs'
<1> USE DEF Runs
<1>1. CASE StillStep
  <2>1. Still /\ UNCHANGED Connected
    BY <1>1, StillIsStill DEF Still, Connected
  <2>2. fwd' = fwd \/ fwd' = "none"
    BY <1>1 DEF StillStep, StopRun, StopListenReturns, DoStatusBegins, DoStatusEnds,
                ForwardingEnds
  <2> QED BY <2>1, <2>2 DEF Still
<1>2. CASE StartListening
  BY <1>2 DEF StartListening, Listen, buildVars, TypeOK
<1>3. CASE DoStartRun
  <2>1. Connected' = {}
    BY <1>3 DEF DoStartRun, NoQueues, Connected
  <2> QED BY <1>3, <2>1 DEF DoStartRun, vars
<1>4. ASSUME NEW c \in Conns, ConnStep(c)
      PROVE  Runs'
  <2>1. CASE ProducerConnects(c)
    <3>1. ready /\ born' = [born EXCEPT ![c] = run] /\ UNCHANGED <<run, ready, Connected>>
      BY <2>1 DEF ProducerConnects, Open, threadVars, buildVars, Connected
    <3>2. Connected \subseteq Conns
      BY ITS3DataCollectorAssumption DEF TypeOK
    <3> QED BY <3>1, <3>2 DEF TypeOK
  <2>2. CASE ProducerSends(c)
    BY <2>2 DEF ProducerSends, Send, threadVars, buildVars, Connected
  <2>3. CASE DoConnect(c)
    <3>1. UNCHANGED <<run, born, ready, fwd>> /\ born[c] = run /\ fwd = "alive"
      BY <2>3 DEF DoConnect, OnConnect, threadVars
    <3>2. Connected' \subseteq Connected \cup {c}
      BY <2>3 DEF DoConnect, Connected
    <3> QED BY <3>1, <3>2
  <2>4. CASE DoDisconnect(c)
    <3>1. UNCHANGED <<run, born, ready, fwd>>
      BY <2>4 DEF DoDisconnect, threadVars, vars
    <3>2. Connected' \subseteq Connected
      BY <2>4 DEF DoDisconnect, Connected
    <3> QED BY <3>1, <3>2
  <2>5. CASE DoReceive(c)
    <3>1. UNCHANGED <<run, born, ready>> /\ fwd # "none"
      BY <2>5, ReceiveCases, ReceiveType, TypeParts
    <3>2. Connected' = Connected
      <4>1. CASE UNCHANGED <<queues, ndev, used>>
        BY <4>1 DEF Connected
      <4>2. CASE c \in Connected /\ BuildAndWrite(Queued(c))
        <5>1. queues' \in [Connected -> Seq(Nat)]
          BY <2>5, <4>2, ReceiveCases, QueuedType, BuildType, TypeParts
        <5> QED BY <5>1 DEF Connected
      <4> QED BY <2>5, <4>1, <4>2, ReceiveCases
    <3> QED BY <3>1, <3>2
  <2> QED BY <1>4, <2>1, <2>2, <2>3, <2>4, <2>5 DEF ConnStep
<1> QED BY <1>1, <1>2, <1>3, <1>4, NextCases

\* A callback runs only once DoStartRun is over, and for connections of this run.
LEMMA CallbackWhenReady ==
  ASSUME TypeOK, Runs, NEW c \in Conns, DoConnect(c) \/ DoReceive(c)
  PROVE  ready /\ born[c] = run /\ \A d \in Connected : born[d] = run
<1>1. born[c] = run /\ fwd # "none"
  BY ReceiveCases DEF DoConnect, OnConnect, OnReceive
<1> QED BY <1>1 DEF Runs, TypeOK

-----------------------------------------------------------------------------
(***************************************************************************)
(* Order: what a step of BuildAndWrite does to queues that are in order.   *)
(***************************************************************************)

\* A queue of c that holds events after u, up to l.
Ordered(s, u, l) ==
  /\ \A i \in 1 .. Len(s) : u < s[i] /\ s[i] <= l
  /\ \A i, j \in 1 .. Len(s) : i < j => s[i] < s[j]

LEMMA OrderParts ==
  Order <=> /\ \A c \in Conns : used[c] <= last[c] /\ last[c] <= sent[c]
            /\ \A c \in Connected : Ordered(queues[c], used[c], last[c])
BY Zenon DEF Order, Ordered

LEMMA OrderPartsNext ==
  Order' <=> /\ \A c \in Conns : used'[c] <= last'[c] /\ last'[c] <= sent'[c]
             /\ \A c \in Connected' : Ordered(queues'[c], used'[c], last'[c])
BY Zenon DEF Order, Ordered

LEMMA AppendOrdered ==
  ASSUME NEW s \in Seq(Nat), NEW u \in Nat, NEW l \in Nat, NEW e \in Nat,
         Ordered(s, u, l), u <= l, l < e
  PROVE  Ordered(Append(s, e), u, e)
<1>1. Len(Append(s, e)) = Len(s) + 1 /\ Len(s) \in Nat
  OBVIOUS
<1>2. \A i \in 1 .. Len(s) : Append(s, e)[i] = s[i] /\ s[i] \in Nat
  OBVIOUS
<1>3. Append(s, e)[Len(s) + 1] = e
  OBVIOUS
<1> QED BY <1>1, <1>2, <1>3 DEF Ordered

LEMMA TailOrdered ==
  ASSUME NEW s \in Seq(Nat), s # <<>>, NEW u \in Nat, NEW l \in Nat, Ordered(s, u, l)
  PROVE  /\ Ordered(Tail(s), Head(s), l)
         /\ u < Head(s) /\ Head(s) <= l /\ Head(s) \in Nat
         /\ \A i \in 1 .. Len(Tail(s)) : Tail(s)[i] = s[i + 1]
         /\ Len(Tail(s)) = Len(s) - 1
<1>1. Len(s) \in Nat /\ Len(s) > 0 /\ Head(s) = s[1]
  OBVIOUS
<1>2. Len(Tail(s)) = Len(s) - 1 /\ \A i \in 1 .. Len(Tail(s)) : Tail(s)[i] = s[i + 1]
  OBVIOUS
<1>3. \A i \in 1 .. Len(s) : s[i] \in Nat
  OBVIOUS
<1> QED BY <1>1, <1>2, <1>3 DEF Ordered

\* The queues that BuildAndWrite is called with.
LEMMA QueuedOrdered ==
  ASSUME TypeOK, Order, NEW c \in Connected, OnReceive(c)
  PROVE  /\ Queued(c) \in [Connected -> Seq(Nat)]
         /\ \A d \in Connected : Ordered(Queued(c)[d], used[d], last'[d])
         /\ \A d \in Connected : used[d] \in Nat /\ last'[d] \in Nat /\ last'[d] <= sent[d]
<1>1. Connected \subseteq Conns
  BY ITS3DataCollectorAssumption DEF TypeOK
<1>2. /\ last' \in [Conns -> Nat] /\ last[c] < last'[c] /\ last'[c] <= sent[c]
      /\ \A d \in Conns : d # c => last'[d] = last[d]
  BY <1>1, TypeParts, ReceiveType
<1>3. Ordered(Append(queues[c], last'[c]), used[c], last'[c])
  BY <1>1, <1>2, OrderParts, AppendOrdered DEF TypeOK
<1>4. \A d \in Connected : Queued(c)[d] = IF d = c THEN Append(queues[c], last'[c]) ELSE queues[d]
  BY DEF Queued, TypeOK
<1>5. Queued(c) \in [Connected -> Seq(Nat)]
  BY TypeParts, QueuedType
<1> QED BY <1>1, <1>2, <1>3, <1>4, <1>5, OrderParts DEF TypeOK

\* What a global event takes, and what it leaves.
LEMMA BuildTakes ==
  ASSUME NEW q \in [Connected -> Seq(Nat)], Complete(q), BuildAndWrite(q)
  PROVE  /\ \A c \in Connected : q[c] # <<>> /\ queues'[c] = Tail(q[c])
         /\ Connected' = Connected /\ ndev' = ndev + 1
         /\ \A c \in Conns : used'[c] = IF c \in Connected THEN Head(q[c]) ELSE used[c]
<1>1. DOMAIN q = Connected
  OBVIOUS
<1>2. /\ queues' = [c \in Connected |-> Tail(q[c])] /\ ndev' = ndev + 1
      /\ used' = [c \in Conns |-> IF c \in Connected THEN Head(q[c]) ELSE used[c]]
  BY <1>1 DEF BuildAndWrite
<1>3. \A c \in Connected : q[c] # <<>>
  BY <1>1 DEF Complete
<1>4. Connected' = Connected
  BY <1>2 DEF Connected
<1> QED BY <1>2, <1>3, <1>4

LEMMA BuildLeaves ==
  ASSUME NEW q \in [Connected -> Seq(Nat)], ~Complete(q), BuildAndWrite(q)
  PROVE  queues' = q /\ Connected' = Connected /\ UNCHANGED <<ndev, used>>
BY DEF BuildAndWrite, Connected

LEMMA OrderStep ==
  ASSUME TypeOK, Order, CNext
  PROVE  Order'
<1>0. Connected \subseteq Conns
  BY ITS3DataCollectorAssumption DEF TypeOK
<1>1. CASE StillStep
  BY <1>1, StillIsStill DEF Still, Order, Connected
<1>2. CASE StartListening
  BY <1>2 DEF StartListening, Listen, buildVars, Order, Connected
<1>3. CASE DoStartRun
  BY <1>3 DEF DoStartRun, NoQueues, vars, Order, Connected
<1>4. ASSUME NEW c \in Conns, ConnStep(c)
      PROVE  Order'
  <2>1. CASE ProducerConnects(c)
    BY <2>1 DEF ProducerConnects, Open, buildVars, Order, Connected
  <2>2. CASE ProducerSends(c)
    <3>1. sent' = [sent EXCEPT ![c] = @ + 1] /\ UNCHANGED <<last, used, queues, Connected>>
      BY <2>2 DEF ProducerSends, Send, buildVars, Connected
    <3>2. \A d \in Conns : sent[d] \in Nat /\ last[d] \in Nat /\ sent'[d] >= sent[d]
      BY <3>1 DEF TypeOK
    <3>3. \A d \in Conns : sent'[d] \in Nat
      BY <3>1 DEF TypeOK
    <3> QED BY <3>1, <3>2, <3>3 DEF Order
  <2>3. CASE DoConnect(c)
    <3>1. UNCHANGED <<last, sent, used>>
      BY <2>3 DEF DoConnect, OnConnect
    <3>2. CASE c \in DataConns
      <4>1. queues' = [d \in Connected \cup {c} |-> IF d = c THEN <<>> ELSE queues[d]]
        BY <2>3, <3>2 DEF DoConnect
      <4>2. Connected' = Connected \cup {c}
        BY <4>1 DEF Connected
      <4>3. Ordered(<<>>, used[c], last[c])
        BY DEF Ordered
      <4> QED BY <3>1, <4>1, <4>2, <4>3, OrderParts, OrderPartsNext
    <3>3. CASE c \notin DataConns
      BY <2>3, <3>1, <3>3 DEF DoConnect, Order, Connected
    <3> QED BY <3>2, <3>3
  <2>4. CASE DoDisconnect(c)
    <3>1. queues' = [d \in Connected \ {c} |-> queues[d]] /\ UNCHANGED <<last, sent, used>>
      BY <2>4 DEF DoDisconnect, vars
    <3>2. Connected' = Connected \ {c}
      BY <3>1 DEF Connected
    <3> QED BY <3>1, <3>2 DEF Order
  <2>5. CASE DoReceive(c)
    <3>1. /\ last' \in [Conns -> Nat] /\ last[c] < last'[c] /\ last'[c] <= sent[c]
          /\ \A d \in Conns : d # c => last'[d] = last[d]
          /\ UNCHANGED sent
      BY <2>5, TypeParts, ReceiveCases, ReceiveType
    <3>2. \A d \in Conns : last[d] <= last'[d] /\ last'[d] <= sent'[d] /\ used[d] <= last'[d]
      <4> SUFFICES ASSUME NEW d \in Conns
                   PROVE  last[d] <= last'[d] /\ last'[d] <= sent'[d] /\ used[d] <= last'[d]
        OBVIOUS
      <4>1. last[d] \in Nat /\ last'[d] \in Nat /\ sent[d] \in Nat /\ used[d] \in Nat
        BY <3>1 DEF TypeOK
      <4>2. used[d] <= last[d] /\ last[d] <= sent[d] /\ sent'[d] = sent[d]
        BY <3>1 DEF Order
      <4> QED BY <3>1, <4>1, <4>2
    <3>3. CASE UNCHANGED <<queues, ndev, used>>
      <4>1. ASSUME NEW d \in Connected
            PROVE  Ordered(queues[d], used[d], last'[d])
        <5>1. last[d] \in Nat /\ last'[d] \in Nat /\ last[d] <= last'[d]
          BY <1>0, <3>1, <3>2 DEF TypeOK
        <5>2. \A i \in 1 .. Len(queues[d]) : queues[d][i] \in Nat
          BY DEF TypeOK
        <5>3. Ordered(queues[d], used[d], last[d])
          BY OrderParts
        <5> QED BY <5>1, <5>2, <5>3 DEF Ordered
      <4>2. Connected' = Connected /\ queues' = queues /\ used' = used
        BY <3>3 DEF Connected
      <4> QED BY <3>2, <4>1, <4>2, OrderPartsNext
    <3>4. CASE c \in Connected /\ BuildAndWrite(Queued(c))
      <4> DEFINE q == Queued(c)
      <4>1. /\ q \in [Connected -> Seq(Nat)] /\ BuildAndWrite(q)
            /\ \A d \in Connected : Ordered(q[d], used[d], last'[d])
            /\ \A d \in Connected : used[d] \in Nat /\ last'[d] \in Nat
        BY <2>5, <3>4, ReceiveCases, QueuedOrdered
      <4> HIDE DEF q
      <4>2. CASE Complete(q)
        <5>1. \A d \in Connected : Ordered(Tail(q[d]), Head(q[d]), last'[d]) /\ Head(q[d]) <= last'[d]
          BY <4>1, <4>2, BuildTakes, TailOrdered
        <5>2. /\ Connected' = Connected
              /\ \A d \in Connected : queues'[d] = Tail(q[d]) /\ used'[d] = Head(q[d])
              /\ \A d \in Conns : d \in Connected \/ used'[d] = used[d]
          BY <1>0, <4>1, <4>2, BuildTakes
        <5> QED BY <3>2, <5>1, <5>2, OrderPartsNext
      <4>3. CASE ~Complete(q)
        <5>1. queues' = q /\ Connected' = Connected /\ used' = used
          BY <4>1, <4>3, BuildLeaves
        <5> QED BY <3>2, <4>1, <5>1, OrderPartsNext
      <4> QED BY <4>2, <4>3
    <3> QED BY <2>5, <3>3, <3>4, ReceiveCases
  <2> QED BY <1>4, <2>1, <2>2, <2>3, <2>4, <2>5 DEF ConnStep
<1> QED BY <1>1, <1>2, <1>3, <1>4, NextCases

-----------------------------------------------------------------------------
(***************************************************************************)
(* Steps: all planes are at the same event.                                *)
(***************************************************************************)

\* A telescope that is complete before its first data begins at nought.
LEMMA ConnectAtNought ==
  ASSUME TypeOK, Runs, Order, Steps, regular, BeforeData,
         NEW c \in DataConns, DoConnect(c)
  PROVE  Nth(c, used[c]) = 0 /\ Nth(c, last[c]) = 0 /\ ndev = 0
<1>1. c \in Conns /\ ready /\ born[c] = run /\ \A d \in Connected : born[d] = run
  BY ITS3DataCollectorAssumption, CallbackWhenReady
<1>2. Nth(c, last[c]) = 0
  BY <1>1 DEF BeforeData
<1>3. Nth(c, used[c]) = 0
  <2>1. used[c] \in Nat /\ last[c] \in Nat /\ used[c] <= last[c]
    BY <1>1 DEF TypeOK, Order
  <2> QED BY <1>2, <2>1, NthMonotone, DataIsFinite
<1>4. ndev = 0
  <2>1. CASE Connected = {}
    BY <1>1, <2>1 DEF Steps
  <2>2. ASSUME NEW d \in Connected
        PROVE  ndev = 0
    <3>1. Nth(d, last[d]) = 0
      BY <1>1 DEF BeforeData, TypeOK
    <3>2. Nth(d, last[d]) = ndev + Len(queues[d])
      BY DEF Steps, StepOf
    <3>3. Len(queues[d]) \in Nat /\ ndev \in Nat
      BY DEF TypeOK
    <3> QED BY <3>1, <3>2, <3>3
  <2> QED BY <2>1, <2>2
<1> QED BY <1>2, <1>3, <1>4

\* The queues that BuildAndWrite is called with, when nothing was lost.
LEMMA QueuedInStep ==
  ASSUME TypeOK, Steps, regular, NEW c \in Connected, OnReceive(c),
         last'[c] = last[c] + 1, ~IsStatus(c, last'[c])
  PROVE  \A d \in Connected :
           /\ Nth(d, used[d]) = ndev
           /\ \A i \in 1 .. Len(Queued(c)[d]) : Nth(d, Queued(c)[d][i]) = ndev + i
           /\ Nth(d, last'[d]) = ndev + Len(Queued(c)[d])
<1>1. Connected \subseteq Conns
  BY ITS3DataCollectorAssumption DEF TypeOK
<1>2. \A d \in Connected : StepOf(d)
  BY DEF Steps
<1>3. /\ last' \in [Conns -> Nat] /\ \A d \in Conns : d # c => last'[d] = last[d]
      /\ last[c] \in Nat /\ ndev \in Nat
  BY <1>1, TypeParts, ReceiveType DEF TypeOK
<1>4. \A d \in Connected : Queued(c)[d] = IF d = c THEN Append(queues[c], last'[c]) ELSE queues[d]
  BY DEF Queued, TypeOK
<1>5. ASSUME NEW d \in Connected, d # c
      PROVE  /\ Nth(d, used[d]) = ndev
             /\ \A i \in 1 .. Len(Queued(c)[d]) : Nth(d, Queued(c)[d][i]) = ndev + i
             /\ Nth(d, last'[d]) = ndev + Len(Queued(c)[d])
  <2>1. Queued(c)[d] = queues[d] /\ last'[d] = last[d]
    BY <1>1, <1>3, <1>4, <1>5
  <2> QED BY <1>2, <2>1 DEF StepOf
<1>6. /\ Nth(c, used[c]) = ndev
      /\ \A i \in 1 .. Len(Queued(c)[c]) : Nth(c, Queued(c)[c][i]) = ndev + i
      /\ Nth(c, last'[c]) = ndev + Len(Queued(c)[c])
  <2> DEFINE s == queues[c]
             t == Append(queues[c], last'[c])
  <2>1. Queued(c)[c] = t
    BY <1>4
  <2>2. s \in Seq(Nat) /\ Len(s) \in Nat /\ last'[c] \in Nat
    BY <1>1, <1>3 DEF TypeOK
  <2>3. Len(t) = Len(s) + 1 /\ t[Len(s) + 1] = last'[c] /\ \A i \in 1 .. Len(s) : t[i] = s[i]
    BY <2>2
  <2>4. /\ Nth(c, used[c]) = ndev /\ Nth(c, last[c]) = ndev + Len(s)
        /\ \A i \in 1 .. Len(s) : Nth(c, s[i]) = ndev + i
    BY <1>2 DEF StepOf
  <2>5. Nth(c, last'[c]) = Nth(c, last[c]) + 1
    BY <1>3, NthNext
  <2>6. Nth(c, last'[c]) = ndev + Len(t)
    BY <1>3, <2>2, <2>3, <2>4, <2>5
  <2>7. ASSUME NEW i \in 1 .. Len(t)
        PROVE  Nth(c, t[i]) = ndev + i
    <3>1. i \in 1 .. Len(s) \/ i = Len(s) + 1
      BY <2>2, <2>3
    <3> QED BY <2>3, <2>4, <2>6, <3>1
  <2> QED BY <2>1, <2>4, <2>6, <2>7
<1> QED BY <1>5, <1>6

LEMMA ReceiveInStep ==
  ASSUME TypeOK, Runs, Steps, NEW c \in Conns, DoReceive(c), regular'
  PROVE  /\ \A d \in Connected' : StepOf(d)'
         /\ ready' /\ Connected' = {} => ndev' = 0
         /\ Connected' # {} => ~Complete(queues')
<1>0. Connected \subseteq Conns /\ ndev \in Nat
  BY ITS3DataCollectorAssumption DEF TypeOK
<1>1. /\ regular /\ OnReceive(c) /\ last'[c] = last[c] + 1 /\ ready' = ready
      /\ last' \in [Conns -> Nat] /\ last[c] \in Nat
      /\ \A d \in Conns : d # c => last'[d] = last[d]
  BY TypeParts, ReceiveCases, ReceiveType DEF TypeOK
<1>2. CASE UNCHANGED <<queues, ndev, used>> /\ (IsStatus(c, last'[c]) \/ c \notin Connected)
  <2>1. \A d \in Connected : Nth(d, last'[d]) = Nth(d, last[d])
    BY <1>0, <1>1, <1>2, NthNext
  <2>2. \A d \in Connected : StepOf(d)'
    BY <1>1, <1>2, <2>1 DEF Steps, StepOf
  <2> QED BY <1>1, <1>2, <2>2 DEF Steps, Connected
<1>3. CASE c \in Connected /\ ~IsStatus(c, last'[c]) /\ BuildAndWrite(Queued(c))
  <2> DEFINE q == Queued(c)
  <2>1. q \in [Connected -> Seq(Nat)] /\ BuildAndWrite(q)
    BY <1>1, <1>3, TypeParts, QueuedType
  <2>2. \A d \in Connected :
          /\ Nth(d, used[d]) = ndev
          /\ \A i \in 1 .. Len(q[d]) : Nth(d, q[d][i]) = ndev + i
          /\ Nth(d, last'[d]) = ndev + Len(q[d])
    BY <1>1, <1>3, QueuedInStep
  <2>3. \A d \in Connected : d # c => q[d] = queues[d]
    BY DEF Queued, TypeOK
  <2>4. q[c] = Append(queues[c], last'[c]) /\ queues[c] \in Seq(Nat) /\ last'[c] \in Nat
    BY <1>0, <1>1, <1>3 DEF Queued, TypeOK
  <2> HIDE DEF q
  <2>5. CASE Complete(q)
    <3>1. /\ \A d \in Connected : q[d] # <<>> /\ queues'[d] = Tail(q[d]) /\ used'[d] = Head(q[d])
          /\ Connected' = Connected /\ ndev' = ndev + 1
      BY <1>0, <2>1, <2>5, BuildTakes
    <3>2. ASSUME NEW d \in Connected
          PROVE  StepOf(d)'
      <4>1. q[d] \in Seq(Nat) /\ q[d] # <<>>
        BY <2>1, <3>1
      <4>2. Len(q[d]) \in Nat /\ Len(q[d]) > 0 /\ Head(q[d]) = q[d][1]
        BY <4>1
      <4>3. Len(Tail(q[d])) = Len(q[d]) - 1 /\ \A i \in 1 .. Len(Tail(q[d])) : Tail(q[d])[i] = q[d][i + 1]
        BY <4>1
      <4>4. Nth(d, used'[d]) = ndev'
        BY <2>2, <3>1, <4>2
      <4>5. ASSUME NEW i \in 1 .. Len(queues'[d])
            PROVE  Nth(d, queues'[d][i]) = ndev' + i
        <5>0. queues'[d] = Tail(q[d])
          BY <3>1
        <5>1. queues'[d][i] = q[d][i + 1] /\ i \in Nat /\ i + 1 \in 1 .. Len(q[d])
          BY <4>2, <4>3, <5>0
        <5>2. Nth(d, q[d][i + 1]) = ndev + (i + 1)
          BY <2>2, <5>1
        <5> QED BY <1>0, <3>1, <5>1, <5>2
      <4>6. Nth(d, last'[d]) = ndev' + Len(queues'[d])
        <5>1. Nth(d, last'[d]) = ndev + Len(q[d]) /\ Len(queues'[d]) = Len(q[d]) - 1
          BY <2>2, <3>1, <4>3
        <5>2. ndev' = ndev + 1
          BY <3>1
        <5>3. ndev' + Len(queues'[d]) = ndev + Len(q[d])
          <6> DEFINE n == Len(q[d])
          <6>1. n \in Nat /\ Len(queues'[d]) = n - 1
            BY <4>2, <5>1
          <6> HIDE DEF n
          <6>2. (ndev + 1) + (n - 1) = ndev + n
            BY <1>0, <6>1
          <6> QED BY <5>2, <6>1, <6>2 DEF n
        <5> QED BY <5>1, <5>3
      <4> QED BY <4>4, <4>5, <4>6 DEF StepOf
    <3>3. ~Complete(queues')
      <4>1. PICK d \in Connected : queues[d] = <<>>
        <5>1. ~Complete(queues)
          BY <1>1, <1>3 DEF Steps
        <5> QED BY <5>1 DEF Complete, Connected
      <4>2. d = c
        BY <2>3, <3>1, <4>1
      <4>3. Len(q[c]) = 1 /\ q[c] \in Seq(Nat)
        BY <1>3, <2>1, <2>4, <4>1, <4>2
      <4>4. queues'[c] = <<>>
        <5>1. q[c] # <<>>
          BY <4>3
        <5>2. Tail(q[c]) \in Seq(Nat) /\ Len(Tail(q[c])) = 0
          BY <4>3, <5>1
        <5>3. Tail(q[c]) = <<>>
          BY <5>2, EmptySeq
        <5> QED BY <1>3, <3>1, <5>3
      <4> QED BY <1>3, <3>1, <4>4 DEF Complete, Connected
    <3> QED BY <1>3, <3>1, <3>2, <3>3
  <2>6. CASE ~Complete(q)
    <3>1. queues' = q /\ Connected' = Connected /\ ndev' = ndev /\ used' = used
      BY <2>1, <2>6, BuildLeaves
    <3> QED BY <1>3, <2>2, <2>6, <3>1 DEF StepOf
  <2> QED BY <2>5, <2>6
<1> QED BY <1>2, <1>3, ReceiveCases

LEMMA StepsStep ==
  ASSUME TypeOK, Runs, Order, Steps, CNext
  PROVE  Steps'
<1> SUFFICES ASSUME regular'
             PROVE  /\ \A d \in Connected' : StepOf(d)'
                    /\ ready' /\ Connected' = {} => ndev' = 0
                    /\ Connected' # {} => ~Complete(queues')
  BY DEF Steps
<1>1. CASE StillStep
  <2>1. Still /\ regular
    BY Zenon, <1>1, StillIsStill DEF Still
  <2>2. ready' <=> ready
    BY <2>1 DEF Still
  <2> QED BY <2>1, <2>2 DEF Still, Steps, StepOf, Connected
<1>2. CASE StartListening
  BY <1>2 DEF StartListening, Listen, buildVars, Steps, StepOf, Connected
<1>3. CASE DoStartRun
  BY <1>3 DEF DoStartRun, NoQueues, Connected
<1>4. ASSUME NEW c \in Conns, ConnStep(c)
      PROVE  /\ \A d \in Connected' : StepOf(d)'
             /\ ready' /\ Connected' = {} => ndev' = 0
             /\ Connected' # {} => ~Complete(queues')
  <2>1. CASE ProducerConnects(c)
    BY <2>1 DEF ProducerConnects, Open, threadVars, buildVars, Steps, StepOf, Connected
  <2>2. CASE ProducerSends(c)
    BY <2>2 DEF ProducerSends, Send, threadVars, buildVars, Steps, StepOf, Connected
  <2>3. CASE DoConnect(c)
    <3>0. UNCHANGED <<ready, last, ndev, used>>
      BY <2>3 DEF DoConnect, OnConnect, threadVars
    <3>1. CASE c \in DataConns
      <4>1. queues' = [d \in Connected \cup {c} |-> IF d = c THEN <<>> ELSE queues[d]]
        BY <2>3, <3>1 DEF DoConnect
      <4>2. Connected' = Connected \cup {c} /\ queues'[c] = <<>>
        BY <4>1 DEF Connected
      <4>3. regular /\ BeforeData
        BY <2>3, <3>1 DEF DoConnect
      <4>4. Nth(c, used[c]) = 0 /\ Nth(c, last[c]) = 0 /\ ndev = 0
        BY <2>3, <3>1, <4>3, ConnectAtNought
      <4>5. StepOf(c)'
        BY <3>0, <4>2, <4>4 DEF StepOf
      <4>6. \A d \in Connected : d # c => StepOf(d)'
        BY <3>0, <4>1, <4>3 DEF Steps, StepOf
      <4>7. ~Complete(queues')
        BY <4>2 DEF Complete, Connected
      <4> QED BY <4>2, <4>5, <4>6, <4>7
    <3>2. CASE c \notin DataConns
      BY <2>3, <3>0, <3>2 DEF DoConnect, Steps, StepOf, Connected
    <3> QED BY <3>1, <3>2
  <2>4. CASE DoDisconnect(c)
    BY <2>4 DEF DoDisconnect
  <2>5. CASE DoReceive(c)
    BY <2>5, ReceiveInStep
  <2> QED BY <1>4, <2>1, <2>2, <2>3, <2>4, <2>5 DEF ConnStep
<1> QED BY <1>1, <1>2, <1>3, <1>4, NextCases

LEMMA InvInit == CInit => CollectorInv
<1> SUFFICES ASSUME CInit PROVE CollectorInv
  OBVIOUS
<1>1. TypeOK
  BY TypeInit
<1>2. Connected = {}
  BY DEF CInit, NoQueues, Connected
<1>3. Runs /\ Order /\ Steps
  BY <1>2 DEF CInit, Init, Runs, Order, Steps
<1> QED BY <1>1, <1>3 DEF CollectorInv

LEMMA InvStep ==
  ASSUME CollectorInv, [CNext]_allVars
  PROVE  CollectorInv'
<1>1. CASE CNext
  BY <1>1, TypeStep, RunsStep, OrderStep, StepsStep DEF CollectorInv
<1>2. CASE UNCHANGED allVars
  BY Zenon, <1>2 DEF allVars, vars, threadVars, buildVars, CollectorInv, TypeOK, Runs, Order,
                     Steps, StepOf, Connected
<1> QED BY <1>1, <1>2

\* The queues hold what came and was not used, in order, and of this run
\* (ITS3DataCollector.py:33-36, 74-108).
THEOREM CollectorInvariant == CSpec => []CollectorInv
BY InvInit, InvStep, PTL DEF CSpec

\* The n-th global event holds the n-th data event of every plane, unless a plane came
\* late or left, or the receiver lost an event (ITS3DataCollector.py:94-107).
THEOREM PlanesAreInStep == CSpec => []InStep
<1>1. CollectorInv => InStep
  BY DEF CollectorInv, Steps, StepOf, InStep
<1> QED BY <1>1, CollectorInvariant, PTL

\* Under the same condition no event waits that could have been written
\* (ITS3DataCollector.py:95, 100).
THEOREM NothingIsHeldBack == CSpec => []NothingHeldBack
<1>1. CollectorInv => NothingHeldBack
  BY DEF CollectorInv, Steps, NothingHeldBack
<1> QED BY <1>1, CollectorInvariant, PTL

-----------------------------------------------------------------------------
(***************************************************************************)
(* The collector implements EventBuilding.                                 *)
(***************************************************************************)

LEMMA BuildingInit == CInit => Building!Init
BY DEF CInit, Init, Building!Init

\* A step that writes no global event.
LEMMA NoWrite ==
  ASSUME TypeOK, CNext, used' = used
  PROVE  [Building!Next]_Building!vars
<1> USE DEF Building!vars
<1>1. CASE StillStep
  BY <1>1, StillIsStill DEF Still
<1>2. CASE StartListening
  <2>1. Building!Listen
    BY <1>2 DEF StartListening, Listen, buildVars, Building!Listen
  <2> QED BY <2>1 DEF Building!Next
<1>3. CASE DoStartRun
  BY <1>3 DEF DoStartRun, vars
<1>4. ASSUME NEW c \in Conns, ConnStep(c)
      PROVE  [Building!Next]_Building!vars
  <2>1. CASE ProducerConnects(c)
    <3>1. Building!Open(c)
      BY <2>1 DEF ProducerConnects, Open, buildVars, Building!Open
    <3> QED BY <3>1 DEF Building!Next
  <2>2. CASE ProducerSends(c)
    <3>1. Building!Send(c)
      BY <2>2 DEF ProducerSends, Send, buildVars, Building!Send
    <3> QED BY <3>1 DEF Building!Next
  <2>3. CASE DoConnect(c)
    BY <2>3 DEF DoConnect, OnConnect
  <2>4. CASE DoDisconnect(c)
    BY <2>4 DEF DoDisconnect, vars
  <2>5. CASE DoReceive(c)
    BY <2>5 DEF DoReceive, OnReceive
  <2> QED BY <1>4, <2>1, <2>2, <2>3, <2>4, <2>5 DEF ConnStep
<1> QED BY <1>1, <1>2, <1>3, <1>4, NextCases

LEMMA WriteStep ==
  ASSUME TypeOK, Runs, Order, NEW c \in Connected, DoReceive(c),
         BuildAndWrite(Queued(c)), Complete(Queued(c))
  PROVE  Building!Write(Connected)
<1> DEFINE q == Queued(c)
<1>1. Connected \subseteq Conns
  BY ITS3DataCollectorAssumption DEF TypeOK
<1>2. OnReceive(c) /\ UNCHANGED <<run, born, sent>>
  BY <1>1, TypeParts, ReceiveCases, ReceiveType
<1>3. /\ q \in [Connected -> Seq(Nat)]
      /\ \A d \in Connected : Ordered(q[d], used[d], last'[d])
      /\ \A d \in Connected : used[d] \in Nat /\ last'[d] \in Nat /\ last'[d] <= sent[d]
  BY <1>2, QueuedOrdered
<1>4. /\ \A d \in Connected : q[d] # <<>>
      /\ \A d \in Conns : used'[d] = IF d \in Connected THEN Head(q[d]) ELSE used[d]
  BY <1>3, BuildTakes
<1>5. \A d \in Connected : born[d] = run
  BY <1>1, CallbackWhenReady
<1>6. used' \in [Conns -> Nat]
  BY <1>3, TypeParts, BuildType
<1> HIDE DEF q
<1>7. ASSUME NEW d \in Connected
      PROVE  Head(q[d]) \in used[d] + 1 .. sent[d]
  <2>1. used[d] < Head(q[d]) /\ Head(q[d]) <= last'[d] /\ Head(q[d]) \in Nat
    BY <1>3, <1>4, TailOrdered
  <2>2. sent[d] \in Nat
    BY <1>1 DEF TypeOK
  <2> QED BY <1>3, <2>1, <2>2
<1> QED BY <1>1, <1>2, <1>4, <1>5, <1>6, <1>7 DEF Building!Write

LEMMA BuildingStep ==
  ASSUME TypeOK, Runs, Order, [CNext]_allVars
  PROVE  [Building!Next]_Building!vars
<1>1. CASE UNCHANGED allVars
  BY <1>1 DEF allVars, vars, buildVars, Building!vars
<1>2. CASE CNext /\ used' = used
  BY <1>2, NoWrite
<1>3. CASE CNext /\ used' # used
  <2>1. PICK c \in Conns : DoReceive(c)
    BY <1>3, StillIsStill, NextCases
       DEF Still, StartListening, DoStartRun, ConnStep, ProducerConnects, ProducerSends,
           DoConnect, DoDisconnect, buildVars
  <2>2. c \in Connected /\ BuildAndWrite(Queued(c)) /\ Complete(Queued(c))
    BY <1>3, <2>1, ReceiveCases DEF BuildAndWrite
  <2>3. Building!Write(Connected)
    BY <2>1, <2>2, WriteStep
  <2>4. Connected \in (SUBSET Conns) \ {{}}
    <3>1. Connected \subseteq Conns
      BY ITS3DataCollectorAssumption DEF TypeOK
    <3>2. Connected # {}
      BY <2>2
    <3> QED BY <3>1, <3>2
  <2> QED BY <2>3, <2>4 DEF Building!Next
<1> QED BY <1>1, <1>2, <1>3

\* Every global event takes events of its own run, in order and once, although queues
\* outlive a forwarding thread that died (ITS3DataCollector.py:33-37, 84-107).
THEOREM CollectorImplementsBuilding == CSpec => BuildingSpec
<1>1. CollectorInv => TypeOK /\ Runs /\ Order
  BY DEF CollectorInv
<1>2. CollectorInv /\ [CNext]_allVars => [Building!Next]_Building!vars
  BY <1>1, BuildingStep
<1> QED BY <1>2, BuildingInit, CollectorInvariant, PTL DEF CSpec, BuildingSpec, Building!Spec
=============================================================================
