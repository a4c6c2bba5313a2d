---------------------------- MODULE BrokerProofs ------------------------------
(***************************************************************************)
(* What the protocol's steps keep, whatever the transport: the types of    *)
(* the tables and of the protocol objects, and what the place of a         *)
(* protocol says of its frame, its id and its target.  The proofs of both  *)
(* servers use it.                                                         *)
(*                                                                         *)
(* What is not routine is RemoveFirst, the remove of a list: the least     *)
(* place of an id exists, as numbers are well-founded, and what is left is *)
(* a list of ids again.                                                    *)
(***************************************************************************)
EXTENDS StompBroker, TLAPS, WellFoundedInduction

\* Every set of numbers that is not empty has a least one.
LEMMA MinIn ==
  ASSUME NEW T \in SUBSET Nat, T # {}
  PROVE  Min(T) \in T /\ \A n \in T : Min(T) \leq n
<1>1. \E m \in T : \A n \in T : ~ (<<n, m>> \in OpToRel(<, Nat))
  BY NatLessThanWellFounded, WFMin
<1>2. OpToRel(<, Nat) = {ss \in Nat \X Nat : ss[1] < ss[2]}
  BY DEF OpToRel
<1>3. PICK m \in T : \A n \in T : ~ (<<n, m>> \in {ss \in Nat \X Nat : ss[1] < ss[2]})
  BY <1>1, <1>2, Zenon
<1>4. ASSUME NEW n \in T
      PROVE  m \leq n
  <2>1. m \in Nat /\ n \in Nat
    OBVIOUS
  <2>2. n < m => <<n, m>> \in {ss \in Nat \X Nat : ss[1] < ss[2]}
    BY <2>1
  <2>3. ~ (n < m)
    BY <1>3, <2>2
  <2> QED BY <2>1, <2>3
<1> QED
  BY <1>4 DEF Min

LEMMA RemoveFirstIs ==
  ASSUME NEW S, NEW q \in Seq(S), NEW e, \E i \in 1..Len(q) : q[i] = e
  PROVE  \E k \in 1..Len(q) :
           /\ q[k] = e
           /\ RemoveFirst(q, e) \in Seq(S)
           /\ Len(RemoveFirst(q, e)) = Len(q) - 1
           /\ \A i \in 1..Len(q) - 1 :
                RemoveFirst(q, e)[i] = IF i < k THEN q[i] ELSE q[i + 1]
<1> DEFINE I == {i \in 1..Len(q) : q[i] = e}
           k == Min(I)
           a == SubSeq(q, 1, k - 1)
           b == SubSeq(q, k + 1, Len(q))
<1>1. I \in SUBSET Nat /\ I # {}
  OBVIOUS
<1>2. k \in I
  <2> HIDE DEF I
  <2> QED BY <1>1, MinIn
<1>3. RemoveFirst(q, e) = RemoveAt(q, k)
  BY <1>1 DEF RemoveFirst, SelectInSeq
<1>4. RemoveFirst(q, e) = a \o b
  BY <1>3 DEF RemoveAt
<1>5. k \in 1..Len(q) /\ q[k] = e
  <2> HIDE DEF k
  <2> QED BY <1>2
<1> HIDE DEF k
<1>6. a \in Seq(S) /\ Len(a) = k - 1 /\ \A i \in 1..k - 1 : a[i] = q[i]
  BY <1>5
<1>7. b \in Seq(S) /\ Len(b) = Len(q) - k /\ \A i \in 1..Len(q) - k : b[i] = q[k + i]
  BY <1>5
<1> HIDE DEF a, b
<1>8. RemoveFirst(q, e) \in Seq(S) /\ Len(RemoveFirst(q, e)) = Len(q) - 1
  <2>1. \A x, y \in Seq(S) : x \o y \in Seq(S) /\ Len(x \o y) = Len(x) + Len(y)
    OBVIOUS
  <2>2. Len(a) + Len(b) = Len(q) - 1
    BY <1>5, <1>6, <1>7
  <2> QED BY <1>4, <1>6, <1>7, <2>1, <2>2
<1>9. ASSUME NEW i \in 1..Len(q) - 1
      PROVE  RemoveFirst(q, e)[i] = IF i < k THEN q[i] ELSE q[i + 1]
  <2>1. CASE i < k
    BY <1>4, <1>5, <1>6, <1>7, <2>1
  <2>2. CASE i \geq k
    <3>1. (a \o b)[i] = b[i - (k - 1)]
      BY <1>5, <1>6, <1>7, <2>2
    <3>2. b[i - (k - 1)] = q[i + 1]
      BY <1>5, <1>7, <2>2
    <3> QED BY <1>4, <1>5, <2>2, <3>1, <3>2
  <2> QED BY <1>5, <2>1, <2>2
<1> QED
  BY <1>5, <1>8, <1>9

LEMMA RemoveFirstType ==
  ASSUME NEW S, NEW q \in Seq(S), NEW e
  PROVE  RemoveFirst(q, e) \in Seq(S)
  BY RemoveFirstIs DEF RemoveFirst
-----------------------------------------------------------------------------

\* The frame being processed stays, and a fan-out has a channel.
FrameKept ==
  \A h \in Handlers :
    /\ pc[h] \in {"process", "login", "fanout", "deliver", "receipt"} => frame[h] \in Frames
    /\ pc[h] \in {"fanout", "deliver"} => frame[h].destination \in Channels

\* What a handler needs when it is where it is.
Equipped ==
  \A h \in Handlers :
    /\ pc[h] # "off" => connectionId[h] \in Ids
    /\ pc[h] = "login" => frame[h].login \in Users
    /\ pc[h] \in {"receipt", "logout"} => username[h] \in Users
    /\ pc[h] = "deliver" => target[h] \in Handlers

BrokerInv == BrokerTypeOK /\ FrameKept /\ Equipped

LEMMA BrokerStarts == BrokerInit => BrokerInv
BY NullIsNoValue DEF BrokerInit, BrokerInv, BrokerTypeOK, FrameKept, Equipped, Step

\* What the checks of process leave of a frame's headers.
LEMMA HandledFrame ==
  ASSUME BrokerInv, NEW h \in Handlers, pc[h] = "process", ~ Throws(h), ~ Refused(h)
  PROVE  /\ frame[h] \in Frame
         /\ frame[h].command = "CONNECT" =>
              frame[h].login \in Users /\ frame[h].passcode \in Passcodes
         /\ frame[h].command = "SUBSCRIBE" =>
              frame[h].destination \in Channels /\ frame[h].id \in SubIds
         /\ frame[h].command = "UNSUBSCRIBE" =>
              /\ frame[h].id \in SubIds
              /\ subscriptions[h][frame[h].id] \in Channels
         /\ frame[h].command = "SEND" => frame[h].destination \in Channels
<1> USE NullIsNoValue DEF BrokerInv, BrokerTypeOK
<1>1. frame[h] \in Frame
  BY FramesAssumption DEF FrameKept
<1>2. \A ch \in SubscribedTo(h) : ch \in Channels
  BY DEF SubscribedTo, SubscriptionIds
<1>3. \A s \in SubscriptionIds(h) : s \in SubIds /\ subscriptions[h][s] \in Channels
  BY DEF SubscriptionIds
<1> QED
  BY <1>1, <1>2, <1>3 DEF Frame, Throws, Refused

LEMMA ReceiptType ==
  ASSUME BrokerInv, NEW h \in Handlers, frame[h] \in Frames
  PROVE  Receipt(h) \in ServerFrame \cup {Null}
<1>1. frame[h].receipt \in Receipts \cup {Null}
  BY FramesAssumption DEF Frame
<1> QED
  BY <1>1 DEF Receipt, ServerFrame, ReceiptFrame

\* Steps of the protocol that write nothing.
LEMMA SilentKeeps ==
  ASSUME BrokerInv, NEW h \in Handlers, Silent(h)
  PROVE  BrokerInv'
<1> USE NullIsNoValue DEF BrokerInv, BrokerTypeOK, Step, Goto, Answer, tables
<1>1. CASE Refuse(h)
  BY <1>1 DEF Refuse, FrameKept, Equipped, ServerFrame, Plain
<1>2. CASE Register(h)
  <2>1. frame[h].login \in Users /\ frame[h].passcode \in Passcodes
    BY <1>2, HandledFrame DEF Register, Handles
  <2>2. userCredentials' \in [Users -> Passcodes \cup {Null}]
    BY <1>2, <2>1 DEF Register
  <2>3. BrokerTypeOK'
    BY <1>2, <2>2 DEF Register, ServerFrame, Plain
  <2> QED
    BY <1>2, <2>3 DEF Register, Handles, FrameKept, Equipped
<1>3. CASE Login(h)
  <2>1. connectionId[h] \in Ids /\ frame[h].login \in Users
    BY <1>3 DEF Login, Equipped
  <2>2. activeUsers' \in [Users -> Ids \cup {Null}] /\ username' \in [Handlers -> Users \cup {Null}]
    BY <1>3, <2>1 DEF Login
  <2>3. BrokerTypeOK'
    BY <1>3, <2>2 DEF Login, ServerFrame, Plain
  <2> QED
    BY <1>3, <2>3 DEF Login, FrameKept, Equipped
<1>4. CASE Subscribe(h)
  <2>1. /\ frame[h].destination \in Channels /\ frame[h].id \in SubIds
        /\ connectionId[h] \in Ids
        /\ frame[h] \in Frames
    BY <1>4, HandledFrame DEF Subscribe, Handles, Equipped, FrameKept
  <2>2. channels' \in [Channels -> Seq(Ids)]
    BY <1>4, <2>1 DEF Subscribe
  <2>3. subscriptions' \in [Handlers -> [SubIds -> Channels \cup {Null}]]
    BY <1>4, <2>1 DEF Subscribe
  <2>4. Receipt(h) \in ServerFrame \cup {Null}
    BY <2>1, ReceiptType
  <2> QED
    BY <1>4, <2>2, <2>3, <2>4 DEF Subscribe, FrameKept, Equipped
<1>5. CASE Unsubscribe(h)
  <2>1. /\ frame[h].id \in SubIds /\ subscriptions[h][frame[h].id] \in Channels
        /\ frame[h] \in Frames
    BY <1>5, HandledFrame DEF Unsubscribe, Handles, FrameKept
  <2>2. channels' \in [Channels -> Seq(Ids)]
    BY <1>5, <2>1, RemoveFirstType DEF Unsubscribe
  <2>3. subscriptions' \in [Handlers -> [SubIds -> Channels \cup {Null}]]
    BY <1>5, <2>1 DEF Unsubscribe
  <2>4. Receipt(h) \in ServerFrame \cup {Null}
    BY <2>1, ReceiptType
  <2>5. BrokerTypeOK'
    BY <1>5, <2>2, <2>3, <2>4 DEF Unsubscribe
  <2> QED
    BY <1>5, <2>5 DEF Unsubscribe, Handles, FrameKept, Equipped
<1>6. CASE Snapshot(h)
  <2>1. frame[h].destination \in Channels /\ frame[h] \in Frames
    BY <1>6, HandledFrame DEF Snapshot, Handles, FrameKept
  <2>2. BrokerTypeOK'
    BY <1>6, <2>1 DEF Snapshot
  <2>3. FrameKept'
    BY <1>6, <2>1 DEF Snapshot, FrameKept
  <2>4. Equipped'
    BY <1>6 DEF Snapshot, Handles, Equipped
  <2> QED
    BY <2>2, <2>3, <2>4
<1>7. CASE Visit(h)
  <2>1. Head(todo[h]) \in Ids /\ Tail(todo[h]) \in Seq(Ids)
    BY <1>7 DEF Visit
  <2>2. connections[Head(todo[h])] \in Handlers \cup {Null}
    BY <2>1
  <2>3. BrokerTypeOK'
    BY <1>7, <2>1, <2>2 DEF Visit
  <2>4. FrameKept'
    BY <1>7 DEF Visit, FrameKept
  <2>5. Equipped'
    BY <1>7, <2>2 DEF Visit, Equipped
  <2> QED
    BY <2>3, <2>4, <2>5
<1>8. CASE EndOfSend(h)
  <2>1. Receipt(h) \in ServerFrame \cup {Null}
    BY <1>8, ReceiptType DEF EndOfSend, FrameKept, Equipped
  <2> QED
    BY <1>8, <2>1 DEF EndOfSend, FrameKept, Equipped
<1>9. CASE Farewell(h)
  <2>1. connections[connectionId[h]] \in Handlers \cup {Null}
    BY <1>9 DEF Farewell, Handles, Equipped
  <2>2. username[h] \in Users /\ frame[h] \in Frames
    BY <1>9 DEF Farewell, Handles, Refused, FrameKept
  <2>3. BrokerTypeOK'
    BY <1>9, <2>1 DEF Farewell
  <2>4. FrameKept'
    BY <1>9, <2>2 DEF Farewell, FrameKept
  <2>5. Equipped'
    BY <1>9, <2>2 DEF Farewell, Handles, Equipped
  <2> QED
    BY <2>3, <2>4, <2>5
<1>10. CASE Logout(h)
  <2>1. username[h] \in Users
    BY <1>10 DEF Logout, Equipped
  <2> QED
    BY <1>10, <2>1 DEF Logout, FrameKept, Equipped
<1>11. ASSUME NEW ch \in Channels, Clean(h, ch)
       PROVE  BrokerInv'
  <2>1. channels' \in [Channels -> Seq(Ids)]
    BY <1>11, RemoveFirstType DEF Clean
  <2> QED
    BY <1>11, <2>1 DEF Clean, FrameKept, Equipped
<1> QED
  BY <1>1, <1>2, <1>3, <1>4, <1>5, <1>6, <1>7, <1>8, <1>9, <1>10, <1>11 DEF Silent

\* The steps around a write, and the end of a logout.
LEMMA WritingKeeps ==
  ASSUME BrokerInv, NEW h \in Handlers, Delivered(h) \/ Receipted(h) \/ Unregister(h)
  PROVE  BrokerInv'
<1> USE NullIsNoValue DEF BrokerInv, BrokerTypeOK, Step, Goto, Answer, tables
<1>1. CASE Delivered(h)
  BY <1>1 DEF Delivered, FrameKept, Equipped
<1>2. CASE Receipted(h)
  BY <1>2 DEF Receipted, FrameKept, Equipped
<1>3. CASE Unregister(h)
  BY <1>3 DEF Unregister, FrameKept, Equipped
<1> QED
  BY <1>1, <1>2, <1>3

\* What is delivered is a MESSAGE under the id of its sender.
LEMMA MessageType ==
  ASSUME BrokerInv, NEW h \in Handlers, pc[h] = "deliver"
  PROVE  MessageOf(h) \in ServerFrame
BY DEF BrokerInv, FrameKept, Equipped, MessageOf, ServerFrame, Message
-----------------------------------------------------------------------------
(* What a transport does with the protocol of h. *)

LEMMA StillKeeps ==
  ASSUME BrokerInv, UNCHANGED brokerVars
  PROVE  BrokerInv'
BY DEF BrokerInv, BrokerTypeOK, FrameKept, Equipped, brokerVars, tables, locals

\* It has a place in the map.
LEMMA AddKeeps ==
  ASSUME BrokerInv, connections' \in [Ids -> Handlers \cup {Null}],
         UNCHANGED <<channels, userCredentials, activeUsers, pc, locals>>
  PROVE  BrokerInv'
BY DEF BrokerInv, BrokerTypeOK, FrameKept, Equipped, locals

\* It is given an id.
LEMMA JoinKeeps ==
  ASSUME BrokerInv, NEW h \in Handlers, NEW i \in Ids,
         connectionId' = [connectionId EXCEPT ![h] = i],
         pc' = pc \/ Goto(h, "read"),
         connections' \in [Ids -> Handlers \cup {Null}],
         UNCHANGED <<channels, userCredentials, activeUsers, username, subscriptions,
                     frame, todo, target, leaving, dirty, reply>>
  PROVE  BrokerInv'
<1> USE DEF BrokerInv, BrokerTypeOK, Step, Goto
<1>1. BrokerTypeOK'
  OBVIOUS
<1>2. FrameKept'
  BY DEF FrameKept
<1>3. Equipped'
  BY DEF Equipped
<1> QED
  BY <1>1, <1>2, <1>3

\* It gets a frame.
LEMMA TakeKeeps ==
  ASSUME BrokerInv, NEW h \in Handlers, NEW f \in Frames, pc[h] = "read",
         frame' = [frame EXCEPT ![h] = f], Goto(h, "process"),
         UNCHANGED <<tables, connectionId, username, subscriptions, todo, target,
                     leaving, dirty, reply>>
  PROVE  BrokerInv'
<1> USE DEF BrokerInv, BrokerTypeOK, Step, Goto, tables
<1>1. BrokerTypeOK'
  OBVIOUS
<1>2. FrameKept'
  BY DEF FrameKept
<1>3. Equipped'
  BY DEF Equipped
<1> QED
  BY <1>1, <1>2, <1>3

\* It is done with its frame.
LEMMA DoneKeeps ==
  ASSUME BrokerInv, NEW h \in Handlers, NEW l \in {"read", "exited"}, pc[h] # "off",
         frame' = [frame EXCEPT ![h] = Null], Goto(h, l),
         reply' = reply \/ reply' = [reply EXCEPT ![h] = Null],
         UNCHANGED <<tables, connectionId, username, subscriptions, todo, target,
                     leaving, dirty>>
  PROVE  BrokerInv'
<1> USE DEF BrokerInv, BrokerTypeOK, Step, Goto, tables
<1>1. BrokerTypeOK'
  OBVIOUS
<1>2. FrameKept'
  BY DEF FrameKept
<1>3. Equipped'
  BY DEF Equipped
<1> QED
  BY <1>1, <1>2, <1>3
==============================================================================
