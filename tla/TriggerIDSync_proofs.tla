------------------------ MODULE TriggerIDSync_proofs ------------------------
(***************************************************************************)
(* For any connections, trigger numbers and number of runs: a packet has   *)
(* the events of one trigger, all of them as long as nothing was lost, and *)
(* a run that began and ended in order leaves nothing behind.              *)
(***************************************************************************)
EXTENDS TriggerIDSyncInv, FiniteSetTheorems, SequenceTheorems, TLAPS

IInv == TypeOK /\ MergerInv

-----------------------------------------------------------------------------
(***************************************************************************)
(* Queues: of a set of connections, with events that have a number, after  *)
(* those that were used and up to those that were received.                *)
(***************************************************************************)

Queues(q) ==
  /\ DOMAIN q \subseteq Conns /\ IsFiniteSet(DOMAIN q)
  /\ q \in [DOMAIN q -> Seq(Nat)]
  /\ \A c \in DOMAIN q : \A i \in 1 .. Len(q[c]) :
       q[c][i] \in 1 .. Len(Trigger[c]) /\ Trigger[c][q[c][i]] > 0

Ordered(q, u, l) ==
  \A c \in DOMAIN q :
    /\ \A i \in 1 .. Len(q[c]) : q[c][i] \in u[c] + 1 .. l[c]
    /\ \A i, j \in 1 .. Len(q[c]) : i < j => q[c][i] < q[c][j]

Gapless(q, u, l) ==
  \A c \in DOMAIN q :
    /\ \A i \in 1 .. Len(q[c]) : q[c][i] = u[c] + i
    /\ u[c] + Len(q[c]) = l[c]

LEMMA Rest ==
  ASSUME NEW s \in Seq(Nat), s # <<>>
  PROVE  /\ Len(s) \in Nat /\ Len(s) >= 1 /\ Head(s) = s[1] /\ Head(s) \in Nat
         /\ Tail(s) \in Seq(Nat) /\ Len(Tail(s)) = Len(s) - 1
         /\ \A i \in 1 .. Len(s) - 1 : Tail(s)[i] = s[i + 1]
OBVIOUS

LEMMA Longer ==
  ASSUME NEW s \in Seq(Nat), NEW e \in Nat
  PROVE  /\ Append(s, e) \in Seq(Nat) /\ Len(Append(s, e)) = Len(s) + 1
         /\ Append(s, e)[Len(s) + 1] = e /\ Len(s) \in Nat
         /\ \A i \in 1 .. Len(s) : Append(s, e)[i] = s[i]
OBVIOUS

LEMMA Nothing == <<>> \in Seq(Nat) /\ Len(<<>>) = 0
OBVIOUS

\* The numbers of the events on a connection.
LEMMA Numbers ==
  ASSUME NEW c \in Conns
  PROVE  /\ Len(Trigger[c]) \in Nat
         /\ \A i \in 1 .. Len(Trigger[c]) : Trigger[c][i] \in Nat
         /\ \A i, j \in 1 .. Len(Trigger[c]) :
              i < j /\ Trigger[c][j] > 0 => Trigger[c][i] < Trigger[c][j]
<1>1. Trigger[c] \in Seq(Nat)
  BY TriggerAssumption
<1>2. Len(Trigger[c]) \in Nat
  BY <1>1, LenProperties
<1>3. ASSUME NEW i \in 1 .. Len(Trigger[c]) PROVE Trigger[c][i] \in Nat
  BY <1>1, ElementOfSeq
<1> QED BY <1>2, <1>3, TriggerAssumption

\* The queues that the counting of DoDisconnect takes for all.
LEMMA Counted ==
  ASSUME TypeOK, NEW c \in Connected, inactive \subseteq Connected,
         Cardinality(inactive \cup {c}) = Cardinality(Connected)
  PROVE  inactive \cup {c} = Connected
<1>1. IsFiniteSet(Connected)
  BY DEF TypeOK
<1>2. inactive \cup {c} \in SUBSET Connected
  OBVIOUS
<1> QED BY <1>1, <1>2, FS_Subset

\* An event at the end of its queue.
LEMMA PushedQueues ==
  ASSUME TypeOK, NEW c \in Conns, NEW e \in 1 .. Len(Trigger[c]), Trigger[c][e] > 0
  PROVE  LET q == Pushed(c, e)
         IN  /\ DOMAIN q = Connected \cup {c}
             /\ Queues(q)
             /\ \A d \in Connected \ {c} : q[d] = queues[d]
             /\ q[c] = Append(IF c \in Connected THEN queues[c] ELSE <<>>, e)
<1> DEFINE q == Pushed(c, e)
           old == IF c \in Connected THEN queues[c] ELSE <<>>
<1>1. DOMAIN q = Connected \cup {c}
  BY DEF Pushed
<1>2. \A d \in Connected \ {c} : q[d] = queues[d]
  BY DEF Pushed
<1>3. q[c] = Append(old, e)
  BY DEF Pushed
<1>4. e \in Nat
  BY Numbers
<1>5. old \in Seq(Nat)
  BY Nothing DEF TypeOK
<1>6. DOMAIN q \subseteq Conns /\ IsFiniteSet(DOMAIN q)
  <2>1. IsFiniteSet(Connected) /\ Connected \subseteq Conns
    BY DEF TypeOK
  <2>2. IsFiniteSet(Connected \cup {c})
    BY <2>1, FS_AddElement
  <2> HIDE DEF q
  <2> QED BY <1>1, <2>1, <2>2
<1>7. \A d \in DOMAIN q : q[d] \in Seq(Nat)
  <2>1. q[c] \in Seq(Nat)
    BY <1>3, <1>4, <1>5, Longer
  <2>2. \A d \in Connected : queues[d] \in Seq(Nat)
    BY DEF TypeOK
  <2> HIDE DEF q
  <2> QED BY <1>1, <1>2, <2>1, <2>2
<1>8. q \in [DOMAIN q -> Seq(Nat)]
  <2>1. q = [d \in DOMAIN q |-> q[d]]
    BY <1>1 DEF Pushed
  <2> HIDE DEF q
  <2> QED BY <1>7, <2>1
<1>9. ASSUME NEW d \in DOMAIN q, NEW i \in 1 .. Len(q[d])
      PROVE  q[d][i] \in 1 .. Len(Trigger[d]) /\ Trigger[d][q[d][i]] > 0
  <2>1. CASE d # c
    BY <1>1, <1>2, <2>1 DEF TypeOK
  <2>2. CASE d = c
    <3>1. Len(q[c]) = Len(old) + 1 /\ q[c][Len(old) + 1] = e /\ Len(old) \in Nat
      BY <1>3, <1>4, <1>5, Longer
    <3>2. \A k \in 1 .. Len(old) : q[c][k] = old[k]
      BY <1>3, <1>4, <1>5, Longer
    <3>3. \A k \in 1 .. Len(old) : /\ old[k] \in 1 .. Len(Trigger[c])
                                   /\ Trigger[c][old[k]] > 0
      <4>1. CASE c \in Connected
        BY <4>1 DEF TypeOK
      <4>2. CASE c \notin Connected
        BY <4>2, Nothing
      <4> QED BY <4>1, <4>2
    <3> HIDE DEF q, old
    <3>4. CASE i = Len(old) + 1
      BY <2>2, <3>1, <3>4
    <3>5. CASE i # Len(old) + 1
      <4>1. i \in 1 .. Len(old)
        BY <2>2, <3>1, <3>5
      <4> QED BY <2>2, <3>2, <3>3, <4>1
    <3> QED BY <3>4, <3>5
  <2> QED BY <2>1, <2>2
<1> QED BY <1>1, <1>2, <1>3, <1>6, <1>8, <1>9 DEF Queues

-----------------------------------------------------------------------------
(***************************************************************************)
(* Writing a packet with the first events of the lowest trigger.           *)
(***************************************************************************)

LEMMA WrittenUsed ==
  ASSUME NEW q, Queues(q), Complete(q), NEW l \in [Conns -> Nat],
         used \in [Conns -> Nat], Ordered(q, used, l),
         NEW t, Lowest(q, t), Write(q, Front(q, t), t)
  PROVE  /\ t \in Nat /\ t > 0 /\ trigger' = t
         /\ Front(q, t) # {} /\ Front(q, t) \subseteq DOMAIN q
         /\ used' \in [Conns -> Nat]
         /\ \A c \in Front(q, t) : /\ used'[c] = q[c][1]
                                   /\ used'[c] \in used[c] + 1 .. l[c]
                                   /\ Trigger[c][used'[c]] = t
         /\ \A c \in Conns \ Front(q, t) : used'[c] = used[c]
         /\ \A c \in DOMAIN q : q[c][1] \in 1 .. Len(Trigger[c]) /\ t <= Trigger[c][q[c][1]]
<1> DEFINE S == Front(q, t)
<1>1. S # {} /\ S \subseteq DOMAIN q /\ trigger' = t
  BY DEF Lowest, Front, Write
<1>2. ASSUME NEW c \in DOMAIN q
      PROVE  /\ q[c] \in Seq(Nat) /\ q[c] # <<>>
             /\ Head(q[c]) = q[c][1] /\ 1 \in 1 .. Len(q[c])
  <2>1. q[c] \in Seq(Nat) /\ q[c] # <<>>
    BY DEF Queues, Complete
  <2> QED BY <2>1, Rest
<1>3. ASSUME NEW c \in DOMAIN q
      PROVE  /\ q[c][1] \in 1 .. Len(Trigger[c]) /\ Trigger[c][q[c][1]] > 0
             /\ q[c][1] \in used[c] + 1 .. l[c]
  BY <1>2 DEF Queues, Ordered
<1>4. \A c \in S : Trigger[c][q[c][1]] = t
  BY <1>1, <1>2 DEF Front, Number
<1>5. t \in Nat /\ t > 0
  <2>1. PICK c \in S : TRUE
    BY <1>1
  <2>2. c \in Conns
    BY <1>1, <2>1 DEF Queues
  <2> QED BY <1>1, <1>3, <1>4, <2>1, <2>2, Numbers
<1>6. \A c \in DOMAIN q : t <= Trigger[c][q[c][1]]
  BY <1>2 DEF Lowest, Number
<1>7. used' = [c \in Conns |-> IF c \in S THEN Head(q[c]) ELSE used[c]]
  BY DEF Write
<1> HIDE DEF S
<1>8. \A c \in S : used'[c] = q[c][1]
  BY <1>1, <1>2, <1>7 DEF Queues
<1>9. \A c \in Conns \ S : used'[c] = used[c]
  BY <1>7
<1>10. used' \in [Conns -> Nat]
  <2>1. \A c \in S : Head(q[c]) \in Nat
    BY <1>1, <1>2, Rest
  <2> QED BY <1>7, <2>1
<1> QED BY <1>1, <1>3, <1>4, <1>5, <1>6, <1>8, <1>9, <1>10 DEF S

\* A queue that remains has lost its first event, or nothing.
LEMMA WrittenQueues ==
  ASSUME NEW q, Queues(q), Complete(q), NEW t, Write(q, Front(q, t), t)
  PROVE  LET S == Front(q, t)
         IN  /\ Connected' \subseteq DOMAIN q
             /\ DOMAIN q \ Connected' \subseteq inactive
             /\ inactive' = inactive \ (DOMAIN q \ Connected')
             /\ queues' \in [Connected' -> Seq(Nat)]
             /\ \A c \in Connected' \ S : queues'[c] = q[c]
             /\ \A c \in Connected' \cap S :
                  /\ Len(queues'[c]) = Len(q[c]) - 1 /\ Len(q[c]) \in Nat
                  /\ \A i \in 1 .. Len(q[c]) - 1 : queues'[c][i] = q[c][i + 1]
<1> DEFINE S == Front(q, t)
           rest == [c \in DOMAIN q |-> IF c \in S THEN Tail(q[c]) ELSE q[c]]
           gone == {c \in inactive \cap DOMAIN q : rest[c] = <<>>}
<1>1. queues' = [c \in DOMAIN q \ gone |-> rest[c]] /\ inactive' = inactive \ gone
  BY DEF Write
<1>2. gone \subseteq inactive \cap DOMAIN q
  OBVIOUS
<1>3. \A c \in DOMAIN q : rest[c] = IF c \in S THEN Tail(q[c]) ELSE q[c]
  OBVIOUS
<1>4. \A c \in DOMAIN q : q[c] \in Seq(Nat) /\ q[c] # <<>>
  BY DEF Queues, Complete
<1> HIDE DEF S, rest, gone
<1>5. Connected' = DOMAIN q \ gone
  BY <1>1 DEF Connected
<1>6. \A c \in Connected' : queues'[c] = rest[c]
  BY <1>1, <1>5
<1>7. \A c \in Connected' : rest[c] \in Seq(Nat)
  <2>1. \A c \in DOMAIN q : Tail(q[c]) \in Seq(Nat)
    BY <1>4, Rest
  <2> QED BY <1>3, <1>4, <1>5, <2>1
<1>8. queues' \in [Connected' -> Seq(Nat)]
  BY <1>1, <1>5, <1>7
<1>9. ASSUME NEW c \in Connected', c \in S
      PROVE  /\ Len(queues'[c]) = Len(q[c]) - 1 /\ Len(q[c]) \in Nat
             /\ \A i \in 1 .. Len(q[c]) - 1 : queues'[c][i] = q[c][i + 1]
  <2>1. queues'[c] = Tail(q[c]) /\ q[c] \in Seq(Nat) /\ q[c] # <<>>
    BY <1>3, <1>4, <1>5, <1>6, <1>9
  <2> QED BY <2>1, Rest
<1>10. \A c \in Connected' \ S : queues'[c] = q[c]
  BY <1>3, <1>5, <1>6
<1>11. DOMAIN q \ Connected' = gone
  BY <1>2, <1>5
<1> QED BY <1>1, <1>2, <1>5, <1>8, <1>9, <1>10, <1>11 DEF S

LEMMA WrittenShape ==
  ASSUME NEW q, Queues(q), Complete(q), NEW l \in [Conns -> Nat],
         used \in [Conns -> Nat], Ordered(q, used, l),
         NEW t, Lowest(q, t), Write(q, Front(q, t), t)
  PROVE  /\ Queues(queues')
         /\ Ordered(queues', used', l)
         /\ Gapless(q, used, l) => Gapless(queues', used', l)
<1> DEFINE S == Front(q, t)
<1>1. /\ Connected' \subseteq DOMAIN q
      /\ queues' \in [Connected' -> Seq(Nat)]
      /\ \A c \in Connected' \ S : queues'[c] = q[c]
      /\ \A c \in Connected' \cap S :
           /\ Len(queues'[c]) = Len(q[c]) - 1 /\ Len(q[c]) \in Nat
           /\ \A i \in 1 .. Len(q[c]) - 1 : queues'[c][i] = q[c][i + 1]
  BY WrittenQueues
<1>2. /\ \A c \in S : used'[c] = q[c][1]
      /\ \A c \in Conns \ S : used'[c] = used[c]
  BY WrittenUsed
<1>3. DOMAIN q \subseteq Conns /\ DOMAIN queues' = Connected'
  BY DEF Queues, Connected
<1>4. IsFiniteSet(Connected')
  <2>1. IsFiniteSet(DOMAIN q) /\ Connected' \in SUBSET DOMAIN q
    BY <1>1 DEF Queues
  <2> QED BY <2>1, FS_Subset
<1>5. \A c \in DOMAIN q : Len(q[c]) \in Nat /\ Len(q[c]) > 0
  <2>1. \A c \in DOMAIN q : q[c] \in Seq(Nat) /\ q[c] # <<>>
    BY DEF Queues, Complete
  <2> QED BY <2>1, Rest
<1> HIDE DEF S
<1>6. ASSUME NEW c \in Connected', NEW i \in 1 .. Len(queues'[c])
      PROVE  \E k \in 1 .. Len(q[c]) : queues'[c][i] = q[c][k] /\ (c \in S => k = i + 1)
  <2>1. CASE c \in S
    <3>1. i + 1 \in 1 .. Len(q[c]) /\ i \in 1 .. Len(q[c]) - 1
      BY <1>1, <2>1
    <3> QED BY <1>1, <2>1, <3>1
  <2>2. CASE c \notin S
    BY <1>1, <2>2
  <2> QED BY <2>1, <2>2
<1>7. Queues(queues')
  <2>1. ASSUME NEW c \in Connected', NEW i \in 1 .. Len(queues'[c])
        PROVE  queues'[c][i] \in 1 .. Len(Trigger[c]) /\ Trigger[c][queues'[c][i]] > 0
    <3>1. PICK k \in 1 .. Len(q[c]) : queues'[c][i] = q[c][k]
      BY <1>6
    <3> QED BY <1>1, <3>1 DEF Queues
  <2> QED BY <1>1, <1>3, <1>4, <2>1 DEF Queues
<1>8. Ordered(queues', used', l)
  <2>1. ASSUME NEW c \in Connected', c \in S
        PROVE  /\ \A i \in 1 .. Len(queues'[c]) : queues'[c][i] \in used'[c] + 1 .. l[c]
               /\ \A i, j \in 1 .. Len(queues'[c]) : i < j => queues'[c][i] < queues'[c][j]
    <3>1. c \in DOMAIN q /\ c \in Conns /\ used[c] \in Nat /\ l[c] \in Nat
      BY <1>1, <1>3
    <3>2. /\ \A i \in 1 .. Len(q[c]) : q[c][i] \in used[c] + 1 .. l[c]
          /\ \A i, j \in 1 .. Len(q[c]) : i < j => q[c][i] < q[c][j]
      BY <3>1 DEF Ordered
    <3>3. Len(queues'[c]) = Len(q[c]) - 1 /\ Len(q[c]) \in Nat /\ Len(q[c]) > 0
      BY <1>1, <1>5, <2>1, <3>1
    <3>4. \A i \in 1 .. Len(q[c]) - 1 : queues'[c][i] = q[c][i + 1]
      BY <1>1, <2>1
    <3>5. used'[c] = q[c][1]
      BY <1>2, <2>1
    <3>6. ASSUME NEW i \in 1 .. Len(queues'[c])
          PROVE  queues'[c][i] \in used'[c] + 1 .. l[c]
      <4>1. i + 1 \in 1 .. Len(q[c]) /\ i \in 1 .. Len(q[c]) - 1 /\ 1 \in 1 .. Len(q[c])
            /\ 1 < i + 1
        BY <3>3
      <4>2. q[c][1] < q[c][i + 1] /\ q[c][i + 1] \in used[c] + 1 .. l[c]
            /\ q[c][1] \in used[c] + 1 .. l[c]
        BY <3>2, <4>1
      <4> QED BY <3>1, <3>4, <3>5, <4>1, <4>2
    <3>7. ASSUME NEW i \in 1 .. Len(queues'[c]), NEW j \in 1 .. Len(queues'[c]), i < j
          PROVE  queues'[c][i] < queues'[c][j]
      <4>1. /\ i + 1 \in 1 .. Len(q[c]) /\ i \in 1 .. Len(q[c]) - 1
            /\ j + 1 \in 1 .. Len(q[c]) /\ j \in 1 .. Len(q[c]) - 1 /\ i + 1 < j + 1
        BY <3>3, <3>7
      <4> QED BY <3>2, <3>4, <4>1
    <3> QED BY <3>6, <3>7
  <2>2. ASSUME NEW c \in Connected', c \notin S
        PROVE  /\ \A i \in 1 .. Len(queues'[c]) : queues'[c][i] \in used'[c] + 1 .. l[c]
               /\ \A i, j \in 1 .. Len(queues'[c]) : i < j => queues'[c][i] < queues'[c][j]
    <3>1. c \in DOMAIN q /\ queues'[c] = q[c] /\ used'[c] = used[c]
      BY <1>1, <1>2, <1>3, <2>2
    <3> QED BY <3>1 DEF Ordered
  <2> QED BY <1>3, <2>1, <2>2 DEF Ordered
<1>9. ASSUME Gapless(q, used, l)
      PROVE  Gapless(queues', used', l)
  <2>1. ASSUME NEW c \in Connected', c \in S
        PROVE  /\ \A i \in 1 .. Len(queues'[c]) : queues'[c][i] = used'[c] + i
               /\ used'[c] + Len(queues'[c]) = l[c]
    <3>1. c \in DOMAIN q /\ c \in Conns /\ used[c] \in Nat
      BY <1>1, <1>3
    <3>2. (\A i \in 1 .. Len(q[c]) : q[c][i] = used[c] + i) /\ used[c] + Len(q[c]) = l[c]
      BY <1>9, <3>1 DEF Gapless
    <3>3. Len(queues'[c]) = Len(q[c]) - 1 /\ Len(q[c]) \in Nat /\ Len(q[c]) > 0
      BY <1>1, <1>5, <2>1, <3>1
    <3>4. \A i \in 1 .. Len(q[c]) - 1 : queues'[c][i] = q[c][i + 1]
      BY <1>1, <2>1
    <3>5. used'[c] = used[c] + 1
      BY <1>2, <2>1, <3>2, <3>3
    <3>6. ASSUME NEW i \in 1 .. Len(queues'[c])
          PROVE  queues'[c][i] = used'[c] + i
      <4>1. i + 1 \in 1 .. Len(q[c]) /\ i \in 1 .. Len(q[c]) - 1
        BY <3>3
      <4> QED BY <3>1, <3>2, <3>4, <3>5, <4>1
    <3> QED BY <3>1, <3>2, <3>3, <3>5, <3>6
  <2>2. ASSUME NEW c \in Connected', c \notin S
        PROVE  /\ \A i \in 1 .. Len(queues'[c]) : queues'[c][i] = used'[c] + i
               /\ used'[c] + Len(queues'[c]) = l[c]
    <3>1. c \in DOMAIN q /\ queues'[c] = q[c] /\ used'[c] = used[c]
      BY <1>1, <1>2, <1>3, <2>2
    <3> QED BY <1>9, <3>1 DEF Gapless
  <2> QED BY <1>3, <2>1, <2>2 DEF Gapless
<1> QED BY <1>7, <1>8, <1>9

-----------------------------------------------------------------------------
(***************************************************************************)
(* The inductive invariant, action by action.                              *)
(***************************************************************************)

LEMMA Initially ==
  CInit => IInv
<1> SUFFICES ASSUME CInit PROVE IInv
  OBVIOUS
<1> USE DEF CInit, Init, NoQueues
<1>1. Connected = {}
  BY DEF Connected
<1>2. TypeOK
  BY <1>1, FS_EmptySet DEF TypeOK
<1>3. MergerInv
  <2>1. \A c \in Conns : OrderShape(c)
    <3> SUFFICES ASSUME NEW c \in Conns PROVE OrderShape(c)
      OBVIOUS
    <3>1. Len(Trigger[c]) \in Nat
      BY Numbers
    <3>2. c \notin inactive /\ c \notin Connected
      BY <1>1
    <3> QED BY <3>1, <3>2 DEF OrderShape
  <2>2. TidyShape
    BY <1>1 DEF TidyShape
  <2> QED BY <1>1, <2>1, <2>2 DEF MergerInv, Together
<1> QED BY <1>2, <1>3 DEF IInv

\* What both threads leave alone is left as it is.
LEMMA Unmoved ==
  ASSUME IInv, UNCHANGED allVars
  PROVE  IInv'
<1> USE DEF allVars, vars, callVars, buildVars
<1>1. TypeOK'
  BY DEF IInv, TypeOK, Connected
<1>2. MergerInv'
  BY DEF IInv, MergerInv, OrderShape, QueueShape, TidyShape, RegularShape, BeforeData,
         Together, Connected
<1> QED BY <1>1, <1>2 DEF IInv

LEMMA StartKeeps ==
  ASSUME IInv, StartListening
  PROVE  IInv'
<1> USE DEF IInv, StartListening, Listen
<1>1. TypeOK'
  BY DEF TypeOK, Connected
<1>2. run' = run + 1 /\ run \in Nat /\ Connected' = Connected
  BY DEF TypeOK, Connected
<1>3. \A c \in Conns : born'[c] < run'
  BY <1>2 DEF MergerInv, OrderShape, TypeOK
<1>4. \A c \in Conns : OrderShape(c)'
  BY <1>2 DEF MergerInv, OrderShape, TypeOK, Connected
<1>5. \A c \in Connected' : QueueShape(c)'
  BY <1>2 DEF MergerInv, QueueShape
<1>6. tidy => Connected = {}
  BY DEF MergerInv, TidyShape
<1>7. tidy' => TidyShape'
  BY <1>2, <1>3, <1>6 DEF MergerInv, TidyShape
<1>8. regular' => Connected' = {}
  BY <1>2, <1>6
<1> QED BY <1>1, <1>2, <1>4, <1>5, <1>7, <1>8 DEF MergerInv, Together

LEMMA CommandsKeep ==
  ASSUME IInv, StopRun \/ StopListenReturns
  PROVE  IInv'
<1> USE DEF IInv, StopRun, StopListenReturns, vars, buildVars
<1>1. TypeOK'
  BY DEF TypeOK, Connected
<1>2. MergerInv'
  BY DEF MergerInv, OrderShape, QueueShape, TidyShape, RegularShape, BeforeData,
         Together, Connected
<1> QED BY <1>1, <1>2

LEMMA ResetKeeps ==
  ASSUME IInv, DoReset
  PROVE  IInv'
<1> USE DEF IInv, DoReset, vars, NoQueues
<1>1. Connected' = {}
  BY DEF Connected
<1>2. TypeOK'
  BY <1>1, FS_EmptySet DEF TypeOK
<1>3. \A c \in Conns : OrderShape(c)'
  BY <1>1 DEF MergerInv, OrderShape
<1>4. tidy' => TidyShape'
  BY <1>1 DEF TidyShape
<1>5. BeforeData' => trigger' = 0
  BY DEF MergerInv, BeforeData
<1> QED BY <1>1, <1>2, <1>3, <1>4, <1>5 DEF MergerInv, Together

LEMMA EndKeeps ==
  ASSUME IInv, ForwardingEnds
  PROVE  IInv'
<1> USE DEF IInv, ForwardingEnds, vars, buildVars
<1>1. TypeOK'
  BY DEF TypeOK, Connected
<1>2. Connected' = Connected
  BY DEF Connected
<1>3. tidy' => TidyShape'
  <2> SUFFICES ASSUME tidy' PROVE TidyShape'
    OBVIOUS
  <2>1. tidy /\ TidyShape
    BY DEF MergerInv
  <2>2. \A c \in Connected : c \in Conns /\ left[c] > 0
    BY <2>1 DEF TidyShape, TypeOK
  <2>3. Connected = {} /\ inactive = {}
    BY <2>1, <2>2 DEF TidyShape
  <2> QED BY <1>2, <2>3 DEF TidyShape
<1>4. \A c \in Conns : OrderShape(c)'
  BY <1>2 DEF MergerInv, OrderShape
<1>5. \A c \in Connected' : QueueShape(c)'
  BY <1>2 DEF MergerInv, QueueShape
<1>6. regular' => \A c \in Connected' : RegularShape(c)'
  BY <1>2 DEF MergerInv, RegularShape
<1>7. BeforeData' => trigger' = 0
  BY DEF MergerInv, BeforeData
<1>8. Together'
  BY <1>2 DEF MergerInv, Together
<1> QED BY <1>1, <1>3, <1>4, <1>5, <1>6, <1>7, <1>8 DEF MergerInv

LEMMA OpenKeeps ==
  ASSUME IInv, NEW c \in Conns, ProducerConnects(c)
  PROVE  IInv'
<1> USE DEF IInv, ProducerConnects, Open, callVars, buildVars
<1>1. TypeOK'
  BY DEF TypeOK, Connected
<1>2. Connected' = Connected
  BY DEF Connected
<1>3. /\ born[c] = 0 /\ run > 0 /\ born'[c] = run
      /\ \A d \in Conns : d # c => born'[d] = born[d]
      /\ hails[c] = 0 /\ left[c] = 0 /\ last[c] = 0 /\ c \notin Connected
  BY DEF MergerInv, OrderShape, TypeOK
<1>4. \A d \in Conns : OrderShape(d)'
  BY <1>2, <1>3 DEF MergerInv, OrderShape, TypeOK
<1>5. \A d \in Connected' : QueueShape(d)'
  BY <1>2 DEF MergerInv, QueueShape
<1>6. tidy' => TidyShape'
  BY <1>2, <1>3 DEF MergerInv, TidyShape, TypeOK
<1>7. regular' => \A d \in Connected' : RegularShape(d)'
  BY <1>2 DEF MergerInv, RegularShape
<1>8. BeforeData' => trigger' = 0
  BY <1>3 DEF MergerInv, BeforeData
<1>9. Together'
  BY <1>2 DEF MergerInv, Together
<1> QED BY <1>1, <1>3, <1>4, <1>5, <1>6, <1>7, <1>8, <1>9 DEF MergerInv

LEMMA SendKeeps ==
  ASSUME IInv, NEW c \in Conns, ProducerSends(c)
  PROVE  IInv'
<1> USE DEF IInv, ProducerSends, Send, callVars, buildVars
<1>1. TypeOK'
  <2>1. sent' \in [Conns -> Nat]
    BY DEF TypeOK
  <2>2. /\ run' = run /\ born' = born /\ last' = last /\ hails' = hails
        /\ fwd' = fwd /\ cmd' = cmd /\ left' = left /\ tidy' = tidy /\ regular' = regular
        /\ queues' = queues /\ inactive' = inactive /\ used' = used /\ trigger' = trigger
    OBVIOUS
  <2> HIDE DEF ProducerSends, Send
  <2> QED BY <2>1, <2>2 DEF TypeOK, Connected
<1>2. Connected' = Connected
  BY DEF Connected
<1>3. sent[c] \in Nat /\ Len(Trigger[c]) \in Nat /\ sent'[c] = sent[c] + 1
      /\ \A d \in Conns : d # c => sent'[d] = sent[d]
  BY Numbers DEF TypeOK
<1>4. \A d \in Conns : OrderShape(d)'
  BY <1>2, <1>3 DEF MergerInv, OrderShape, TypeOK
<1>5. \A d \in Connected' : QueueShape(d)'
  BY <1>2 DEF MergerInv, QueueShape
<1>6. tidy' => TidyShape'
  BY <1>2 DEF MergerInv, TidyShape
<1>7. regular' => \A d \in Connected' : RegularShape(d)'
  BY <1>2 DEF MergerInv, RegularShape
<1>8. BeforeData' => trigger' = 0
  BY DEF MergerInv, BeforeData
<1>9. Together'
  BY <1>2 DEF MergerInv, Together
<1> QED BY <1>1, <1>4, <1>5, <1>6, <1>7, <1>8, <1>9 DEF MergerInv

LEMMA ConnectKeeps ==
  ASSUME IInv, NEW c \in Conns, DoConnect(c)
  PROVE  IInv'
<1> USE DEF IInv, DoConnect, OnConnect, callVars
<1>1. Connected' = Connected \cup {c}
  BY DEF Connected
<1>2. queues'[c] = <<>> /\ Len(queues'[c]) = 0
      /\ \A d \in Connected : d # c => queues'[d] = queues[d]
  BY DEF Connected
<1>3. TypeOK'
  <2>1. IsFiniteSet(Connected') /\ Connected' \subseteq Conns
    <3>1. IsFiniteSet(Connected) /\ Connected \subseteq Conns
      BY DEF TypeOK
    <3>2. IsFiniteSet(Connected \cup {c})
      BY <3>1, FS_AddElement
    <3> QED BY <1>1, <3>1, <3>2
  <2>2. inactive' \subseteq Conns /\ IsFiniteSet(inactive')
    <3>1. inactive' \in SUBSET inactive /\ IsFiniteSet(inactive) /\ inactive \subseteq Conns
      BY DEF TypeOK
    <3> QED BY <3>1, FS_Subset
  <2>3. queues' \in [Connected' -> Seq(Nat)]
    <3>1. \A d \in Connected : queues[d] \in Seq(Nat)
      BY DEF TypeOK
    <3> QED BY <1>1, <3>1, Nothing
  <2>4. \A d \in Connected' : \A i \in 1 .. Len(queues'[d]) :
          queues'[d][i] \in 1 .. Len(Trigger[d]) /\ Trigger[d][queues'[d][i]] > 0
    BY <1>1, <1>2 DEF TypeOK
  <2>5. regular' \in BOOLEAN
    BY DEF TypeOK, BeforeData
  <2>6. hails' \in [Conns -> Nat]
    BY DEF TypeOK
  <2> QED BY <2>1, <2>2, <2>3, <2>4, <2>5, <2>6 DEF TypeOK
<1>4. \A d \in Conns : OrderShape(d)'
  <2>1. run > 0 /\ born[c] = run /\ run \in Nat /\ c \notin inactive'
    BY DEF MergerInv, TypeOK
  <2>2. hails'[c] = 1 /\ \A d \in Conns : d # c => hails'[d] = hails[d]
    BY DEF TypeOK
  <2> QED BY <1>1, <2>1, <2>2 DEF MergerInv, OrderShape, TypeOK
<1>5. \A d \in Connected' : QueueShape(d)'
  BY <1>1, <1>2 DEF MergerInv, QueueShape
<1>6. tidy' => TidyShape'
  <2>1. hails'[c] = 1 /\ \A d \in Conns : d # c => hails'[d] = hails[d]
    BY DEF TypeOK
  <2>2. left[c] = 0 /\ c \notin inactive'
    OBVIOUS
  <2> SUFFICES ASSUME tidy' PROVE TidyShape'
    OBVIOUS
  <2>3. tidy /\ TidyShape
    BY DEF MergerInv
  <2>4. inactive' \subseteq Connected' /\ inactive' # Connected'
    BY <1>1, <2>2, <2>3 DEF TidyShape
  <2>5. ASSUME NEW d \in Connected'
        PROVE  born'[d] = run' /\ (hails'[d] = 1 \/ last'[d] > 0)
               /\ (left'[d] > 0 => d \in inactive')
    <3>1. CASE d = c
      BY <2>1, <2>2, <3>1
    <3>2. CASE d # c
      <4>1. d \in Connected /\ d \in Conns
        BY <1>1, <3>2 DEF TypeOK
      <4> QED BY <2>1, <2>3, <3>2, <4>1 DEF TidyShape
    <3> QED BY <3>1, <3>2
  <2>6. ASSUME NEW d \in Conns, born'[d] = run'
        PROVE  /\ hails'[d] = 1 /\ left'[d] = 0 => d \in Connected'
               /\ left'[d] > 0 => hails'[d] = 1
    BY <1>1, <2>1, <2>2, <2>3, <2>6 DEF TidyShape
  <2> QED BY <2>4, <2>5, <2>6 DEF TidyShape
<1>7. regular' => BeforeData /\ last[c] = 0 /\ used[c] = 0 /\ trigger = 0 /\ regular
  <2>1. regular' = (regular /\ BeforeData) /\ born[c] = run
    OBVIOUS
  <2>2. used[c] <= last[c] /\ used[c] \in Nat /\ last[c] \in Nat
    BY DEF MergerInv, OrderShape, TypeOK
  <2>3. BeforeData => last[c] = 0 /\ trigger = 0
    BY <2>1 DEF MergerInv, BeforeData
  <2> HIDE DEF DoConnect
  <2>4. regular' => regular /\ BeforeData
    BY <2>1, Zenon
  <2> QED BY <2>2, <2>3, <2>4
<1>8. regular' => \A d \in Connected' : RegularShape(d)'
  <2> SUFFICES ASSUME regular', NEW d \in Connected' PROVE RegularShape(d)'
    OBVIOUS
  <2>1. CASE d = c
    BY <1>2, <1>7, <2>1 DEF RegularShape
  <2>2. CASE d # c
    BY <1>1, <1>2, <1>7, <2>2 DEF MergerInv, RegularShape
  <2> QED BY <2>1, <2>2
<1>9. BeforeData' => trigger' = 0
  BY DEF MergerInv, BeforeData
<1>10. Together'
  <2> SUFFICES ASSUME regular', NEW d \in Connected', NEW e \in 1 .. Len(Trigger[d]),
                      Trigger[d][e] > 0
               PROVE  e <= used'[d] <=> Trigger[d][e] <= trigger'
    BY DEF Together
  <2>1. CASE d = c
    <3>1. Trigger[d][e] \in Nat /\ e \in Nat /\ e >= 1
      BY <2>1, Numbers
    <3> QED BY <1>7, <2>1, <3>1
  <2>2. CASE d # c
    BY <1>1, <1>7, <2>2 DEF MergerInv, Together
  <2> QED BY <2>1, <2>2
<1>11. fwd' # "none" => run' > 0
  BY DEF MergerInv
<1> QED BY <1>3, <1>4, <1>5, <1>6, <1>8, <1>9, <1>10, <1>11 DEF MergerInv

LEMMA DisconnectKeeps ==
  ASSUME IInv, NEW c \in Conns, DoDisconnect(c)
  PROVE  IInv'
<1> USE DEF IInv, DoDisconnect, vars
<1>1. left'[c] = left[c] + 1 /\ left[c] \in Nat /\ left' \in [Conns -> Nat]
      /\ \A d \in Conns : d # c => left'[d] = left[d]
  BY DEF TypeOK
<1>2. \/ /\ Cardinality(inactive \cup {c}) = Cardinality(Connected)
         /\ Connected' = {} /\ inactive' = {} /\ queues' = NoQueues
      \/ /\ Cardinality(inactive \cup {c}) # Cardinality(Connected)
         /\ Connected' = Connected /\ queues' = queues /\ inactive' = inactive \cup {c}
  BY DEF Connected, NoQueues
<1>3. TypeOK'
  <2>1. inactive' \subseteq Conns /\ IsFiniteSet(inactive')
    <3>1. IsFiniteSet(inactive) /\ inactive \subseteq Conns
      BY DEF TypeOK
    <3>2. IsFiniteSet(inactive \cup {c})
      BY <3>1, FS_AddElement
    <3> QED BY <1>2, <3>1, <3>2, FS_EmptySet
  <2>2. tidy' \in BOOLEAN /\ regular' \in BOOLEAN
    BY DEF TypeOK
  <2>3. CASE Connected' = {} /\ queues' = NoQueues
    BY <1>1, <2>1, <2>2, <2>3, FS_EmptySet DEF TypeOK, NoQueues
  <2>4. CASE Connected' = Connected /\ queues' = queues
    BY <1>1, <2>1, <2>2, <2>4 DEF TypeOK
  <2> QED BY <1>2, <2>3, <2>4
<1>4. Connected' \subseteq Connected /\ \A d \in Connected' : queues'[d] = queues[d]
  BY <1>2
<1>5. \A d \in Conns : OrderShape(d)'
  <2>1. born[c] # 0
    BY DEF MergerInv, OrderShape, TypeOK
  <2> QED BY <1>1, <1>2, <1>4, <2>1 DEF MergerInv, OrderShape, TypeOK
<1>6. \A d \in Connected' : QueueShape(d)'
  BY <1>4 DEF MergerInv, QueueShape
<1>7. tidy' => TidyShape'
  <2> SUFFICES ASSUME tidy' PROVE TidyShape'
    OBVIOUS
  <2>1. tidy /\ TidyShape /\ born[c] = run /\ hails[c] = 1 /\ fwd = "alive"
    BY DEF MergerInv
  <2>2. left[c] = 0 /\ c \in Connected
    BY <2>1 DEF TidyShape, Pending, TypeOK
  <2>3. inactive \cup {c} \subseteq Connected
    BY <2>1, <2>2 DEF TidyShape
  <2>4. CASE Connected' = {} /\ Cardinality(inactive \cup {c}) = Cardinality(Connected)
    <3>1. inactive \cup {c} = Connected
      BY <2>2, <2>3, <2>4, Counted
    <3>2. \A d \in Connected : left'[d] > 0
      BY <1>1, <3>1 DEF MergerInv, OrderShape, TypeOK
    <3>3. \A d \in Conns : d # c => left'[d] = left[d] /\ (left'[d] > 0 => left[d] > 0)
      BY <1>1
    <3> QED BY <1>1, <1>2, <2>1, <2>4, <3>2, <3>3 DEF TidyShape
  <2>5. CASE /\ Cardinality(inactive \cup {c}) # Cardinality(Connected)
             /\ Connected' = Connected /\ inactive' = inactive \cup {c}
    <3>1. inactive' # Connected'
      BY <2>5
    <3> QED BY <1>1, <2>1, <2>2, <2>3, <2>5, <3>1 DEF TidyShape
  <2> QED BY <1>2, <2>4, <2>5
<1>8. regular' => \A d \in Connected' : RegularShape(d)'
  <2> SUFFICES ASSUME regular', NEW d \in Connected' PROVE RegularShape(d)'
    OBVIOUS
  <2>1. regular /\ d \in Connected /\ queues'[d] = queues[d]
    BY <1>4
  <2>2. RegularShape(d)
    BY <2>1 DEF MergerInv
  <2> QED BY <2>1, <2>2 DEF RegularShape
<1>9. BeforeData' => trigger' = 0
  BY DEF MergerInv, BeforeData
<1>10. Together'
  BY <1>4 DEF MergerInv, Together
<1>11. fwd' # "none" => run' > 0
  BY DEF MergerInv
<1> QED BY <1>3, <1>5, <1>6, <1>7, <1>8, <1>9, <1>10, <1>11 DEF MergerInv

-----------------------------------------------------------------------------
(***************************************************************************)
(* Receiving an event.                                                     *)
(***************************************************************************)

LEMMA Received ==
  ASSUME IInv, NEW c \in Conns, DoReceive(c)
  PROVE  LET e == last'[c]
             q == Pushed(c, e)
         IN  /\ last' \in [Conns -> Nat] /\ e \in last[c] + 1 .. sent[c]
             /\ e \in 1 .. Len(Trigger[c]) /\ Trigger[c][e] \in Nat
             /\ \A d \in Conns : d # c => last'[d] = last[d]
             /\ born[c] = run /\ fwd = "alive"
             /\ run' = run /\ born' = born /\ sent' = sent /\ hails' = hails
             /\ cmd' = cmd /\ left' = left
             /\ regular' \in BOOLEAN
             /\ regular' => regular /\ c \in Connected /\ e = last[c] + 1
<1> DEFINE e == last'[c]
<1>1. OnReceive(c) /\ fwd = "alive" /\ cmd' = cmd /\ left' = left
      /\ regular' = (regular /\ c \in Connected /\ e = last[c] + 1)
  BY DEF DoReceive
<1>2. last' \in [Conns -> Nat] /\ e \in last[c] + 1 .. sent[c]
      /\ \A d \in Conns : d # c => last'[d] = last[d]
  BY <1>1 DEF OnReceive, IInv, TypeOK
<1>3. born[c] = run /\ run' = run /\ born' = born /\ sent' = sent /\ hails' = hails
  BY <1>1 DEF OnReceive
<1>4. sent[c] <= Len(Trigger[c]) /\ sent[c] \in Nat /\ last[c] \in Nat
      /\ Len(Trigger[c]) \in Nat
  BY Numbers DEF IInv, MergerInv, OrderShape, TypeOK
<1>5. e \in 1 .. Len(Trigger[c])
  BY <1>2, <1>4
<1>6. Trigger[c][e] \in Nat
  BY <1>5, Numbers
<1>7. regular' \in BOOLEAN /\ (regular' => regular /\ c \in Connected /\ e = last[c] + 1)
  BY <1>1
<1> QED BY <1>1, <1>2, <1>3, <1>5, <1>6, <1>7

\* The three things that may come of it.
LEMMA Outcomes ==
  ASSUME NEW c \in Conns, DoReceive(c)
  PROVE  LET e == last'[c]
             q == Pushed(c, e)
         IN  \/ /\ Trigger[c][e] = 0 /\ fwd' = "dead" /\ tidy' = FALSE
                /\ UNCHANGED <<queues, inactive, used, trigger>>
             \/ /\ Trigger[c][e] # 0 /\ fwd' = fwd /\ tidy' = tidy
                /\ queues' = q /\ UNCHANGED <<inactive, used, trigger>>
             \/ /\ Trigger[c][e] # 0 /\ fwd' = fwd /\ tidy' = tidy
                /\ Complete(q)
                /\ \E t : Lowest(q, t) /\ Write(q, Front(q, t), t)
BY DEF DoReceive, Merge, buildVars

\* The queues with the event, against what was used and received.
LEMMA PushedShape ==
  ASSUME IInv, NEW c \in Conns, DoReceive(c), Trigger[c][last'[c]] # 0
  PROVE  LET q == Pushed(c, last'[c])
         IN  /\ DOMAIN q = Connected \cup {c} /\ Queues(q) /\ Ordered(q, used, last')
             /\ regular' => Gapless(q, used, last')
             /\ \A d \in Connected \ {c} : q[d] = queues[d]
<1> DEFINE e == last'[c]
           q == Pushed(c, e)
           old == IF c \in Connected THEN queues[c] ELSE <<>>
<1>1. /\ last' \in [Conns -> Nat] /\ e \in last[c] + 1 .. sent[c]
      /\ e \in 1 .. Len(Trigger[c]) /\ Trigger[c][e] \in Nat
      /\ \A d \in Conns : d # c => last'[d] = last[d]
      /\ fwd = "alive"
      /\ regular' => regular /\ c \in Connected /\ e = last[c] + 1
  BY Received
<1>2. Trigger[c][e] > 0
  BY <1>1
<1>3. TypeOK
  BY DEF IInv
<1>4. /\ DOMAIN q = Connected \cup {c} /\ Queues(q)
      /\ \A d \in Connected \ {c} : q[d] = queues[d]
      /\ q[c] = Append(old, e)
  BY <1>1, <1>2, <1>3, PushedQueues
<1>5. /\ used[c] \in Nat /\ last[c] \in Nat /\ sent[c] \in Nat /\ used[c] <= last[c]
      /\ e \in Nat /\ Len(old) \in Nat /\ old \in Seq(Nat)
  BY <1>1, <1>3, Nothing DEF TypeOK, IInv, MergerInv, OrderShape
<1>6. /\ \A i \in 1 .. Len(old) : old[i] \in used[c] + 1 .. last[c]
      /\ \A i, j \in 1 .. Len(old) : i < j => old[i] < old[j]
  <2>1. CASE c \in Connected
    BY <2>1 DEF IInv, MergerInv, QueueShape
  <2>2. CASE c \notin Connected
    BY <2>2, Nothing
  <2> QED BY <2>1, <2>2
<1>7. /\ Len(q[c]) = Len(old) + 1 /\ q[c][Len(old) + 1] = e
      /\ \A i \in 1 .. Len(old) : q[c][i] = old[i]
  BY <1>4, <1>5, Longer
<1> HIDE DEF q, old
<1>8. Ordered(q, used, last')
  <2>1. /\ \A i \in 1 .. Len(q[c]) : q[c][i] \in used[c] + 1 .. last'[c]
        /\ \A i, j \in 1 .. Len(q[c]) : i < j => q[c][i] < q[c][j]
    <3>1. ASSUME NEW i \in 1 .. Len(q[c]), i # Len(old) + 1
          PROVE  i \in 1 .. Len(old) /\ q[c][i] \in used[c] + 1 .. last[c] /\ q[c][i] < e
      <4>1. i \in 1 .. Len(old)
        BY <1>5, <1>7, <3>1
      <4>2. q[c][i] = old[i] /\ old[i] \in used[c] + 1 .. last[c]
        BY <1>6, <1>7, <4>1
      <4>3. last[c] < e
        BY <1>1, <1>5
      <4> QED BY <1>5, <4>1, <4>2, <4>3
    <3>2. ASSUME NEW i \in 1 .. Len(q[c])
          PROVE  q[c][i] \in used[c] + 1 .. last'[c]
      BY <1>1, <1>5, <1>7, <3>1
    <3>3. ASSUME NEW i \in 1 .. Len(q[c]), NEW j \in 1 .. Len(q[c]), i < j
          PROVE  q[c][i] < q[c][j]
      <4>1. i # Len(old) + 1
        BY <1>5, <1>7, <3>3
      <4>2. CASE j = Len(old) + 1
        BY <1>7, <3>1, <4>1, <4>2
      <4>3. CASE j # Len(old) + 1
        <5>1. i \in 1 .. Len(old) /\ j \in 1 .. Len(old)
          BY <3>1, <4>1, <4>3
        <5> QED BY <1>6, <1>7, <3>3, <5>1
      <4> QED BY <4>2, <4>3
    <3> QED BY <3>2, <3>3
  <2>2. ASSUME NEW d \in Connected, d # c
        PROVE  /\ \A i \in 1 .. Len(q[d]) : q[d][i] \in used[d] + 1 .. last'[d]
               /\ \A i, j \in 1 .. Len(q[d]) : i < j => q[d][i] < q[d][j]
    <3>1. q[d] = queues[d] /\ d \in Conns /\ QueueShape(d)
      BY <1>3, <1>4, <2>2 DEF IInv, MergerInv, TypeOK
    <3> QED BY <1>1, <2>2, <3>1 DEF QueueShape
  <2> QED BY <1>4, <2>1, <2>2 DEF Ordered
<1>9. ASSUME regular'
      PROVE  Gapless(q, used, last')
  <2>1. \A d \in Connected : RegularShape(d)
    BY <1>1, <1>9 DEF IInv, MergerInv
  <2>2. /\ \A i \in 1 .. Len(q[c]) : q[c][i] = used[c] + i
        /\ used[c] + Len(q[c]) = last'[c]
    <3>1. /\ \A i \in 1 .. Len(old) : old[i] = used[c] + i
          /\ used[c] + Len(old) = last[c] /\ e = last[c] + 1
      BY <1>1, <1>9, <2>1 DEF RegularShape, old
    <3>2. used[c] + (Len(old) + 1) = e
      BY <1>5, <3>1
    <3>3. ASSUME NEW i \in 1 .. Len(q[c]) PROVE q[c][i] = used[c] + i
      <4>1. CASE i = Len(old) + 1
        BY <1>7, <3>2, <4>1
      <4>2. CASE i # Len(old) + 1
        <5>1. i \in 1 .. Len(old)
          BY <1>5, <1>7, <4>2
        <5> QED BY <1>7, <3>1, <5>1
      <4> QED BY <4>1, <4>2
    <3> QED BY <1>7, <3>2, <3>3
  <2>3. ASSUME NEW d \in Connected, d # c
        PROVE  /\ \A i \in 1 .. Len(q[d]) : q[d][i] = used[d] + i
               /\ used[d] + Len(q[d]) = last'[d]
    <3>1. q[d] = queues[d] /\ d \in Conns
      BY <1>3, <1>4, <2>3 DEF TypeOK
    <3> QED BY <1>1, <2>1, <2>3, <3>1 DEF RegularShape
  <2> QED BY <1>4, <2>2, <2>3 DEF Gapless
<1> QED BY <1>4, <1>8, <1>9 DEF q

\* What is left of them after a packet, if there is one.
LEMMA ReceivedQueues ==
  ASSUME IInv, NEW c \in Conns, DoReceive(c), Trigger[c][last'[c]] # 0
  PROVE  /\ Queues(queues') /\ Ordered(queues', used', last')
         /\ regular' => Gapless(queues', used', last')
         /\ used' \in [Conns -> Nat] /\ trigger' \in Nat
         /\ \A d \in Conns : used'[d] <= last'[d]
         /\ Connected' \subseteq Connected \cup {c}
         /\ (Connected \cup {c}) \ Connected' \subseteq inactive
         /\ inactive' = inactive \ ((Connected \cup {c}) \ Connected')
         /\ fwd' = fwd /\ tidy' = tidy
<1> DEFINE q == Pushed(c, last'[c])
<1>1. /\ DOMAIN q = Connected \cup {c} /\ Queues(q) /\ Ordered(q, used, last')
      /\ regular' => Gapless(q, used, last')
  BY PushedShape
<1>2. \/ /\ queues' = q /\ UNCHANGED <<inactive, used, trigger>>
         /\ fwd' = fwd /\ tidy' = tidy
      \/ /\ fwd' = fwd /\ tidy' = tidy /\ Complete(q)
         /\ \E t : Lowest(q, t) /\ Write(q, Front(q, t), t)
  BY Outcomes
<1>3. last' \in [Conns -> Nat] /\ last'[c] \in last[c] + 1 .. sent[c]
      /\ \A d \in Conns : d # c => last'[d] = last[d]
  BY Received
<1>4. /\ used \in [Conns -> Nat] /\ last \in [Conns -> Nat] /\ trigger \in Nat
      /\ sent \in [Conns -> Nat]
      /\ \A d \in Conns : used[d] <= last[d]
  BY DEF IInv, TypeOK, MergerInv, OrderShape
<1>5. \A d \in Conns : used[d] <= last'[d]
  <2> SUFFICES ASSUME NEW d \in Conns PROVE used[d] <= last'[d]
    OBVIOUS
  <2>1. CASE d = c
    BY <1>3, <1>4, <2>1
  <2>2. CASE d # c
    BY <1>3, <1>4, <2>2
  <2> QED BY <2>1, <2>2
<1> HIDE DEF q
<1>6. CASE /\ queues' = q /\ UNCHANGED <<inactive, used, trigger>>
           /\ fwd' = fwd /\ tidy' = tidy
  <2>1. Connected' = Connected \cup {c}
    BY <1>1, <1>6 DEF Connected
  <2> QED BY <1>1, <1>4, <1>5, <1>6, <2>1
<1>7. ASSUME fwd' = fwd, tidy' = tidy, Complete(q),
             NEW t, Lowest(q, t), Write(q, Front(q, t), t)
      PROVE  /\ Queues(queues') /\ Ordered(queues', used', last')
             /\ regular' => Gapless(queues', used', last')
             /\ used' \in [Conns -> Nat] /\ trigger' \in Nat
             /\ \A d \in Conns : used'[d] <= last'[d]
             /\ Connected' \subseteq Connected \cup {c}
             /\ (Connected \cup {c}) \ Connected' \subseteq inactive
             /\ inactive' = inactive \ ((Connected \cup {c}) \ Connected')
  <2>1. /\ Queues(queues') /\ Ordered(queues', used', last')
        /\ Gapless(q, used, last') => Gapless(queues', used', last')
    BY <1>1, <1>3, <1>4, <1>7, WrittenShape
  <2>2. /\ t \in Nat /\ trigger' = t /\ used' \in [Conns -> Nat]
        /\ \A d \in Front(q, t) : used'[d] \in used[d] + 1 .. last'[d]
        /\ \A d \in Conns \ Front(q, t) : used'[d] = used[d]
    BY <1>1, <1>3, <1>4, <1>7, WrittenUsed
  <2>3. /\ Connected' \subseteq DOMAIN q
        /\ DOMAIN q \ Connected' \subseteq inactive
        /\ inactive' = inactive \ (DOMAIN q \ Connected')
    BY <1>1, <1>7, WrittenQueues
  <2>4. ASSUME NEW d \in Conns PROVE used'[d] <= last'[d]
    <3>1. CASE d \in Front(q, t)
      BY <1>3, <1>4, <2>2, <3>1
    <3>2. CASE d \notin Front(q, t)
      BY <1>5, <2>2, <3>2
    <3> QED BY <3>1, <3>2
  <2> QED BY <1>1, <2>1, <2>2, <2>3, <2>4
<1> QED BY <1>2, <1>6, <1>7

\* All events up to the trigger of the packet have been used, and no others.
LEMMA ReceivedTogether ==
  ASSUME IInv, NEW c \in Conns, DoReceive(c)
  PROVE  Together'
<1> DEFINE q == Pushed(c, last'[c])
<1> SUFFICES ASSUME regular', NEW d \in Connected', NEW e \in 1 .. Len(Trigger[d]),
                    Trigger[d][e] > 0
             PROVE  e <= used'[d] <=> Trigger[d][e] <= trigger'
  BY DEF Together
<1>1. regular /\ c \in Connected /\ Connected \subseteq Conns
  BY Received DEF IInv, TypeOK
<1>2. \A s \in Connected : \A k \in 1 .. Len(Trigger[s]) :
        Trigger[s][k] > 0 => (k <= used[s] <=> Trigger[s][k] <= trigger)
  BY <1>1 DEF IInv, MergerInv, Together
<1>3. CASE UNCHANGED <<queues, used, trigger>>
  BY <1>2, <1>3 DEF Connected
<1>4. CASE Trigger[c][last'[c]] # 0 /\ queues' = q /\ UNCHANGED <<used, trigger>>
  <2>1. Connected' = Connected
    <3>1. DOMAIN q = Connected \cup {c}
      BY <1>4, PushedShape
    <3> HIDE DEF q
    <3> QED BY <1>1, <1>4, <3>1 DEF Connected
  <2> QED BY <1>2, <1>4, <2>1
<1>5. ASSUME Trigger[c][last'[c]] # 0, Complete(q),
             NEW t, Lowest(q, t), Write(q, Front(q, t), t)
      PROVE  e <= used'[d] <=> Trigger[d][e] <= trigger'
  <2> DEFINE S == Front(q, t)
  <2>1. /\ DOMAIN q = Connected /\ Queues(q) /\ Ordered(q, used, last')
        /\ Gapless(q, used, last')
    BY <1>1, <1>5, PushedShape
  <2>2. last' \in [Conns -> Nat] /\ used \in [Conns -> Nat] /\ trigger \in Nat
    BY Received DEF IInv, TypeOK
  <2> HIDE DEF q
  <2>3. /\ t \in Nat /\ t > 0 /\ trigger' = t
        /\ S # {} /\ S \subseteq DOMAIN q
        /\ \A s \in S : used'[s] = q[s][1] /\ Trigger[s][used'[s]] = t
        /\ \A s \in Conns \ S : used'[s] = used[s]
        /\ \A s \in DOMAIN q : q[s][1] \in 1 .. Len(Trigger[s]) /\ t <= Trigger[s][q[s][1]]
    BY <1>5, <2>1, <2>2, WrittenUsed
  <2>4. \A s \in Connected : q[s][1] = used[s] + 1
    <3> SUFFICES ASSUME NEW s \in Connected PROVE q[s][1] = used[s] + 1
      OBVIOUS
    <3>1. q[s] \in Seq(Nat) /\ q[s] # <<>>
      BY <1>5, <2>1 DEF Queues, Complete
    <3>2. 1 \in 1 .. Len(q[s])
      BY <3>1, Rest
    <3> QED BY <2>1, <3>2 DEF Gapless
  <2>5. trigger < t
    <3>1. PICK s \in S : TRUE
      BY <2>3
    <3>2. s \in Connected /\ s \in Conns
      BY <1>1, <2>1, <2>3, <3>1
    <3>3. /\ used[s] + 1 \in 1 .. Len(Trigger[s]) /\ Trigger[s][used[s] + 1] = t
          /\ used[s] \in Nat
      BY <2>2, <2>3, <2>4, <3>1, <3>2
    <3>4. ~(used[s] + 1 <= used[s])
      BY <3>3
    <3> QED BY <1>2, <2>2, <2>3, <3>2, <3>3, <3>4
  <2>6. d \in Connected /\ d \in Conns
    <3>1. Connected' \subseteq DOMAIN q
      BY <1>5, <2>1, WrittenQueues
    <3> QED BY <1>1, <2>1, <3>1
  <2> DEFINE n == used[d] + 1
  <2>7. /\ n \in 1 .. Len(Trigger[d]) /\ t <= Trigger[d][n]
        /\ used[d] \in Nat
        /\ (d \in S => used'[d] = n /\ Trigger[d][n] = t)
        /\ (d \notin S => used'[d] = used[d] /\ Trigger[d][n] # t)
    <3>1. d \in S => used'[d] = n /\ Trigger[d][n] = t
      BY <2>3, <2>4, <2>6
    <3>2. d \notin S => used'[d] = used[d] /\ Trigger[d][n] # t
      <4>1. q[d] \in Seq(Nat) /\ q[d] # <<>>
        BY <1>5, <2>1, <2>6 DEF Queues, Complete
      <4>2. d \in S <=> Trigger[d][q[d][1]] = t
        BY <2>1, <2>6, <4>1, Rest DEF Front, Number
      <4> QED BY <2>3, <2>4, <2>6, <4>2
    <3> QED BY <2>1, <2>2, <2>3, <2>4, <2>6, <3>1, <3>2
  <2>8. /\ Len(Trigger[d]) \in Nat
        /\ \A i \in 1 .. Len(Trigger[d]) : Trigger[d][i] \in Nat
        /\ \A i, j \in 1 .. Len(Trigger[d]) :
             i < j /\ Trigger[d][j] > 0 => Trigger[d][i] < Trigger[d][j]
    BY <2>6, Numbers
  <2> HIDE DEF S
  <2>9. Trigger[d][n] \in Nat /\ Trigger[d][n] > 0 /\ Trigger[d][e] \in Nat /\ e \in Nat
        /\ n \in Nat
    BY <2>3, <2>7, <2>8
  <2> HIDE DEF n
  <2>10. CASE d \in S
    <3>1. e < n => Trigger[d][e] < t
      BY <2>7, <2>8, <2>9, <2>10
    <3>2. e = n => Trigger[d][e] = t
      BY <2>7, <2>10
    <3>3. n < e => t < Trigger[d][e]
      BY <2>7, <2>8, <2>9, <2>10
    <3> QED BY <2>3, <2>7, <2>9, <2>10, <3>1, <3>2, <3>3
  <2>11. CASE d \notin S
    <3>1. e <= used[d] => Trigger[d][e] <= t
      BY <1>2, <2>2, <2>3, <2>5, <2>6, <2>9
    <3>2. t < Trigger[d][n]
      BY <2>3, <2>7, <2>9, <2>11
    <3>3. ~(e <= used[d]) => e = n \/ n < e
      BY <2>7, <2>9 DEF n
    <3>4. ~(e <= used[d]) => t < Trigger[d][e]
      BY <2>3, <2>7, <2>8, <2>9, <3>2, <3>3
    <3> QED BY <2>3, <2>7, <2>9, <2>11, <3>1, <3>4
  <2> QED BY <2>10, <2>11
<1> HIDE DEF q
<1> QED BY <1>3, <1>4, <1>5, Outcomes DEF q

LEMMA ReceiveTypes ==
  ASSUME IInv, NEW c \in Conns, DoReceive(c)
  PROVE  TypeOK'
<1>1. /\ last' \in [Conns -> Nat] /\ run' = run /\ born' = born /\ sent' = sent
      /\ hails' = hails /\ cmd' = cmd /\ left' = left /\ regular' \in BOOLEAN
  BY Received
<1>2. TypeOK
  BY DEF IInv
<1>3. CASE /\ fwd' = "dead" /\ tidy' = FALSE
           /\ UNCHANGED <<queues, inactive, used, trigger>>
  BY <1>1, <1>2, <1>3 DEF TypeOK, Connected
<1>4. CASE Trigger[c][last'[c]] # 0
  <2>1. /\ Queues(queues') /\ used' \in [Conns -> Nat] /\ trigger' \in Nat
        /\ inactive' = inactive \ ((Connected \cup {c}) \ Connected')
        /\ fwd' = fwd /\ tidy' = tidy
    BY <1>4, ReceivedQueues
  <2>2. inactive' \subseteq Conns /\ IsFiniteSet(inactive')
    <3>1. inactive' \in SUBSET inactive /\ IsFiniteSet(inactive) /\ inactive \subseteq Conns
      BY <1>2, <2>1 DEF TypeOK
    <3> QED BY <3>1, FS_Subset
  <2> QED BY <1>1, <1>2, <2>1, <2>2 DEF TypeOK, Queues, Connected
<1> QED BY <1>3, <1>4, Outcomes

\* With everything in order, the event is of a connection that was not told to go.
LEMMA ReceiveTidy ==
  ASSUME IInv, NEW c \in Conns, DoReceive(c), tidy'
  PROVE  TidyShape'
<1>1. /\ last' \in [Conns -> Nat] /\ last'[c] \in last[c] + 1 .. sent[c]
      /\ \A d \in Conns : d # c => last'[d] = last[d]
      /\ born[c] = run /\ fwd = "alive"
      /\ run' = run /\ born' = born /\ hails' = hails /\ left' = left
  BY Received
<1>2. /\ last'[c] > 0 /\ \A d \in Conns : last[d] > 0 => last'[d] > 0
  <2>1. last[c] \in Nat /\ last'[c] \in Nat /\ last'[c] > last[c]
    BY <1>1 DEF IInv, TypeOK
  <2>2. \A d \in Conns : d = c \/ last'[d] = last[d]
    BY <1>1
  <2> QED BY <2>1, <2>2
<1>3. /\ Trigger[c][last'[c]] # 0
      /\ Connected' \subseteq Connected \cup {c}
      /\ (Connected \cup {c}) \ Connected' \subseteq inactive
      /\ inactive' = inactive \ ((Connected \cup {c}) \ Connected')
      /\ fwd' = fwd /\ tidy' = tidy
  <2>1. Trigger[c][last'[c]] # 0
    BY Outcomes
  <2> QED BY <2>1, ReceivedQueues
<1>4. tidy /\ TidyShape
  BY <1>3 DEF IInv, MergerInv
<1>5. left[c] = 0
  <2>1. left[c] \in Nat /\ hails[c] \in Nat /\ hails[c] + left[c] < 2
    BY DEF DoReceive, Pending, IInv, TypeOK
  <2>2. left[c] > 0 => hails[c] = 1
    BY <1>1, <1>4 DEF TidyShape
  <2> QED BY <2>1, <2>2
<1>6. c \notin inactive /\ c \in Connected'
  <2>1. c \in inactive => left[c] > 0
    BY DEF IInv, MergerInv, OrderShape
  <2> QED BY <1>3, <1>5, <2>1
<1>7. inactive' \subseteq Connected' /\ inactive' # Connected'
  BY <1>3, <1>4, <1>6 DEF TidyShape
<1>8. ASSUME NEW d \in Connected'
      PROVE  born'[d] = run' /\ (hails'[d] = 1 \/ last'[d] > 0)
             /\ (left'[d] > 0 => d \in inactive')
  <2>1. CASE d = c
    BY <1>1, <1>2, <1>5, <2>1
  <2>2. CASE d # c
    <3>1. d \in Connected /\ d \in Conns
      BY <1>3, <2>2 DEF IInv, TypeOK
    <3>2. born[d] = run /\ (hails[d] = 1 \/ last[d] > 0) /\ (left[d] > 0 => d \in inactive)
      BY <1>4, <3>1 DEF TidyShape
    <3> QED BY <1>1, <1>2, <1>3, <3>1, <3>2
  <2> QED BY <2>1, <2>2
<1>9. ASSUME NEW d \in Conns, born'[d] = run'
      PROVE  /\ hails'[d] = 1 /\ left'[d] = 0 => d \in Connected'
             /\ left'[d] > 0 => hails'[d] = 1
  <2>1. /\ hails[d] = 1 /\ left[d] = 0 => d \in Connected
        /\ left[d] > 0 => hails[d] = 1
    BY <1>1, <1>4, <1>9 DEF TidyShape
  <2>2. left[d] = 0 => d \notin inactive
    BY DEF IInv, MergerInv, OrderShape
  <2> QED BY <1>1, <1>3, <2>1, <2>2
<1> QED BY <1>1, <1>3, <1>7, <1>8, <1>9 DEF TidyShape

LEMMA ReceiveKeeps ==
  ASSUME IInv, NEW c \in Conns, DoReceive(c)
  PROVE  IInv'
<1>1. TypeOK'
  BY ReceiveTypes
<1>2. /\ last' \in [Conns -> Nat] /\ last'[c] \in last[c] + 1 .. sent[c]
      /\ \A d \in Conns : d # c => last'[d] = last[d]
      /\ born[c] = run /\ fwd = "alive"
      /\ run' = run /\ born' = born /\ sent' = sent /\ hails' = hails /\ left' = left
      /\ regular' => regular /\ c \in Connected
  BY Received
<1>3. /\ last[c] \in Nat /\ sent[c] \in Nat /\ last'[c] \in Nat /\ last[c] < last'[c]
      /\ last'[c] <= sent[c] /\ last'[c] > 0
  BY <1>2 DEF IInv, TypeOK
<1>4. /\ run > 0 /\ \A d \in Conns : OrderShape(d)
      /\ \A d \in Connected : QueueShape(d)
      /\ regular => \A d \in Connected : RegularShape(d)
      /\ Connected \subseteq Conns
  BY <1>2 DEF IInv, MergerInv, TypeOK
<1>5. born[c] # 0
  BY <1>2, <1>4 DEF IInv, TypeOK
<1>6. ~BeforeData'
  BY <1>2, <1>3 DEF BeforeData
<1>7. ASSUME \A d \in Conns : used'[d] <= last'[d],
             Connected' \subseteq Connected \cup {c}, inactive' \subseteq inactive
      PROVE  \A d \in Conns : OrderShape(d)'
  <2> SUFFICES ASSUME NEW d \in Conns PROVE OrderShape(d)'
    OBVIOUS
  <2>1. CASE d = c
    <3>1. sent[c] <= Len(Trigger[c]) /\ born[c] <= run /\ (c \in inactive => left[c] > 0)
      BY <1>4 DEF OrderShape
    <3> QED BY <1>2, <1>3, <1>5, <1>7, <2>1, <3>1 DEF OrderShape
  <2>2. CASE d # c
    <3>1. OrderShape(d)
      BY <1>4
    <3> QED BY <1>2, <1>7, <2>2, <3>1 DEF OrderShape
  <2> QED BY <2>1, <2>2
<1>8. ASSUME fwd' = "dead", UNCHANGED <<queues, inactive, used, trigger>>
      PROVE  /\ \A d \in Conns : OrderShape(d)'
             /\ \A d \in Connected' : QueueShape(d)'
             /\ regular' => \A d \in Connected' : RegularShape(d)'
  <2>1. Connected' = Connected
    BY <1>8 DEF Connected
  <2>2. \A d \in Conns : used'[d] <= last'[d] /\ last[d] <= last'[d] /\ last[d] \in Nat
                         /\ last'[d] \in Nat /\ used[d] \in Nat
    <3> SUFFICES ASSUME NEW d \in Conns
                 PROVE  used'[d] <= last'[d] /\ last[d] <= last'[d] /\ last[d] \in Nat
                        /\ last'[d] \in Nat /\ used[d] \in Nat
      OBVIOUS
    <3>1. used[d] <= last[d] /\ used[d] \in Nat /\ last[d] \in Nat /\ used' = used
      BY <1>4, <1>8 DEF OrderShape, IInv, TypeOK
    <3>2. CASE d = c
      BY <1>3, <3>1, <3>2
    <3>3. CASE d # c
      BY <1>2, <3>1, <3>3
    <3> QED BY <3>2, <3>3
  <2>3. \A d \in Conns : OrderShape(d)'
    BY <1>7, <1>8, <2>1, <2>2
  <2>4. ASSUME NEW d \in Connected' PROVE QueueShape(d)'
    <3>1. QueueShape(d) /\ d \in Conns /\ queues' = queues /\ used' = used
      BY <1>4, <1>8, <2>1
    <3>2. used[d] \in Nat /\ last[d] \in Nat /\ last'[d] \in Nat /\ last[d] <= last'[d]
      BY <2>2, <3>1
    <3> QED BY <3>1, <3>2 DEF QueueShape
  <2>5. ASSUME regular', NEW d \in Connected' PROVE RegularShape(d)'
    <3>1. RegularShape(d) /\ queues' = queues /\ used' = used
      BY <1>2, <1>4, <1>8, <2>1, <2>5
    <3> QED BY <1>8, <3>1 DEF RegularShape
  <2> QED BY <2>3, <2>4, <2>5
<1>9. ASSUME Trigger[c][last'[c]] # 0
      PROVE  /\ \A d \in Conns : OrderShape(d)'
             /\ \A d \in Connected' : QueueShape(d)'
             /\ regular' => \A d \in Connected' : RegularShape(d)'
  <2>1. /\ Queues(queues') /\ Ordered(queues', used', last')
        /\ regular' => Gapless(queues', used', last')
        /\ \A d \in Conns : used'[d] <= last'[d]
        /\ Connected' \subseteq Connected \cup {c}
        /\ inactive' = inactive \ ((Connected \cup {c}) \ Connected')
    BY <1>9, ReceivedQueues
  <2>2. Connected' = DOMAIN queues'
    BY DEF Connected
  <2>3. \A d \in Conns : OrderShape(d)'
    BY <1>7, <2>1
  <2>4. \A d \in Connected' : QueueShape(d)'
    BY <2>1, <2>2 DEF Ordered, QueueShape
  <2>5. regular' => \A d \in Connected' : RegularShape(d)'
    BY <2>1, <2>2 DEF Gapless, RegularShape
  <2> QED BY <2>3, <2>4, <2>5
<1>10. /\ \A d \in Conns : OrderShape(d)'
       /\ \A d \in Connected' : QueueShape(d)'
       /\ regular' => \A d \in Connected' : RegularShape(d)'
  BY <1>8, <1>9, Outcomes
<1>11. (tidy' => TidyShape') /\ Together' /\ (fwd' # "none" => run' > 0)
  BY <1>2, <1>4, ReceiveTidy, ReceivedTogether
<1> QED BY <1>1, <1>6, <1>10, <1>11 DEF IInv, MergerInv

LEMMA Inductive ==
  ASSUME IInv, [CNext]_allVars
  PROVE  IInv'
<1>1. CASE UNCHANGED allVars
  BY <1>1, Unmoved
<1>2. CASE StartListening \/ StopRun \/ DoReset \/ StopListenReturns \/ ForwardingEnds
  BY <1>2, StartKeeps, CommandsKeep, ResetKeeps, EndKeeps
<1>3. ASSUME NEW c \in Conns,
             ProducerConnects(c) \/ ProducerSends(c) \/ DoConnect(c)
             \/ DoDisconnect(c) \/ DoReceive(c)
      PROVE  IInv'
  BY <1>3, OpenKeeps, SendKeeps, ConnectKeeps, DisconnectKeeps, ReceiveKeeps
<1> QED BY <1>1, <1>2, <1>3 DEF CNext

THEOREM Invariance == CSpec => []IInv
<1>1. CInit => IInv
  BY Initially
<1>2. IInv /\ [CNext]_allVars => IInv'
  BY Inductive
<1> QED BY <1>1, <1>2, PTL DEF CSpec

-----------------------------------------------------------------------------
(***************************************************************************)
(* The theorems.                                                           *)
(***************************************************************************)

\* The queues have only events with a trigger number.
THEOREM MergerTyping == CSpec => []TypeOK
<1>1. IInv => TypeOK
  BY DEF IInv
<1> QED BY <1>1, Invariance, PTL

\* The inductive invariant.
THEOREM MergerInvariant == CSpec => []MergerInv
<1>1. IInv => MergerInv
  BY DEF IInv
<1> QED BY <1>1, Invariance, PTL

\* As long as nothing was lost, all events of a trigger go into one packet, and the
\* packets come in the order of the triggers, also after a connection has left.
THEOREM TriggersTogether == CSpec => []Together
<1>1. IInv => Together
  BY DEF IInv, MergerInv
<1> QED BY <1>1, Invariance, PTL

\* Counting those that left tells when all have left, if each was told to come and to
\* go: then the next run begins with nothing.
THEOREM SlateIsClean == CSpec => []NothingRemains
<1>1. IInv => NothingRemains
  BY DEF IInv, MergerInv, TidyShape, NothingRemains
<1> QED BY <1>1, Invariance, PTL

LEMMA MergingInit ==
  CInit => Merging!Init
BY DEF CInit, Init, Merging!Init

LEMMA MergingReceive ==
  ASSUME IInv, NEW c \in Conns, DoReceive(c)
  PROVE  Merging!Next \/ UNCHANGED Merging!vars
<1> DEFINE q == Pushed(c, last'[c])
<1>1. sent' = sent /\ last' \in [Conns -> Nat] /\ last'[c] \in last[c] + 1 .. sent[c]
      /\ \A d \in Conns : d # c => last'[d] = last[d]
  BY Received
<1>2. CASE UNCHANGED used
  BY <1>1, <1>2 DEF Merging!vars
<1>3. ASSUME Trigger[c][last'[c]] # 0, Complete(q),
             NEW t, Lowest(q, t), Write(q, Front(q, t), t)
      PROVE  Merging!Next
  <2> DEFINE S == Front(q, t)
  <2>1. DOMAIN q = Connected \cup {c} /\ Queues(q) /\ Ordered(q, used, last')
    BY <1>3, PushedShape
  <2>2. used \in [Conns -> Nat] /\ sent \in [Conns -> Nat]
    BY DEF IInv, TypeOK
  <2> HIDE DEF q
  <2>3. /\ S # {} /\ S \subseteq DOMAIN q /\ used' \in [Conns -> Nat]
        /\ \A d \in S : used'[d] \in used[d] + 1 .. last'[d]
        /\ \A d \in S : Trigger[d][used'[d]] = t
        /\ \A d \in Conns \ S : used'[d] = used[d]
    BY <1>1, <1>3, <2>1, <2>2, WrittenUsed
  <2>4. S \in (SUBSET Conns) \ {{}}
    BY <2>1, <2>3 DEF Queues
  <2>5. \A d \in Conns : last'[d] <= sent[d] /\ last'[d] \in Nat
    <3> SUFFICES ASSUME NEW d \in Conns PROVE last'[d] <= sent[d] /\ last'[d] \in Nat
      OBVIOUS
    <3>1. CASE d = c
      BY <1>1, <2>2, <3>1 DEF IInv, TypeOK
    <3>2. CASE d # c
      BY <1>1, <3>2 DEF IInv, MergerInv, OrderShape
    <3> QED BY <3>1, <3>2
  <2> HIDE DEF S
  <2>6. ASSUME NEW d \in S
        PROVE  used'[d] \in used[d] + 1 .. sent[d]
    <3>1. d \in Conns /\ used[d] \in Nat /\ sent[d] \in Nat /\ last'[d] \in Nat
          /\ last'[d] <= sent[d] /\ used'[d] \in used[d] + 1 .. last'[d]
      BY <2>2, <2>3, <2>4, <2>5
    <3> QED BY <3>1
  <2>7. \A d, b \in S : Trigger[d][used'[d]] = Trigger[b][used'[b]]
    BY <2>3
  <2>8. Merging!Write(S)
    BY <1>1, <2>3, <2>6, <2>7 DEF Merging!Write
  <2> QED BY <2>4, <2>8 DEF Merging!Next
<1> HIDE DEF q
<1> QED BY <1>2, <1>3, Outcomes DEF q

LEMMA MergingStep ==
  ASSUME IInv, [CNext]_allVars
  PROVE  [Merging!Next]_(Merging!vars)
<1> USE DEF Merging!vars
<1>1. CASE UNCHANGED allVars
  BY <1>1 DEF allVars, vars, buildVars
<1>2. CASE StartListening \/ StopRun \/ DoReset \/ StopListenReturns \/ ForwardingEnds
  BY <1>2 DEF StartListening, StopRun, DoReset, StopListenReturns, ForwardingEnds,
              Listen, vars, buildVars
<1>3. ASSUME NEW c \in Conns,
             ProducerConnects(c) \/ DoConnect(c) \/ DoDisconnect(c)
      PROVE  UNCHANGED Merging!vars
  BY <1>3 DEF ProducerConnects, DoConnect, DoDisconnect, Open, OnConnect, vars, buildVars
<1>4. ASSUME NEW c \in Conns, ProducerSends(c)
      PROVE  Merging!Next
  <2>1. Merging!Send(c)
    BY <1>4 DEF ProducerSends, Send, Merging!Send, buildVars
  <2> QED BY <2>1 DEF Merging!Next
<1>5. ASSUME NEW c \in Conns, DoReceive(c)
      PROVE  Merging!Next \/ UNCHANGED Merging!vars
  BY <1>5, MergingReceive
<1> QED BY <1>1, <1>2, <1>3, <1>4, <1>5 DEF CNext

\* A packet has one event of each connection at most, all of one trigger, and takes no
\* event that an earlier packet has taken or passed.
THEOREM MergerImplementsMerging == CSpec => MergingSpec
<1>1. CInit => Merging!Init
  BY MergingInit
<1>2. IInv /\ [CNext]_allVars => [Merging!Next]_(Merging!vars)
  BY MergingStep
<1> QED BY <1>1, <1>2, Invariance, PTL DEF CSpec, MergingSpec, Merging!Spec
=============================================================================
