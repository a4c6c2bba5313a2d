--------------------------- MODULE TpcRefinement -----------------------------
(***************************************************************************)
(* Every step of TpcServer is a step of StompService, or none: the tables, *)
(* the iterator of a fan-out and the sockets implement one session per     *)
(* user and delivery of a message once to each member that stays           *)
(* connected, for any number of connections, users and channels.           *)
(*                                                                         *)
(* What the steps need to know beyond the invariants proved before is      *)
(* DeliveryInv: who is in the map is there under the id it has; a fan-out  *)
(* visits each connection once, and not the one it is writing to; who was  *)
(* taken out of the map is closed, so that passing it over is a Skip; and  *)
(* a message names a sender who exists.  Ids are never given twice         *)
(* (IdsGrow), so a connection that is accepted meanwhile is in no list, in *)
(* no fan-out and no message.                                              *)
(***************************************************************************)
EXTENDS TpcProofs

\* Who is in the map is there under the id it has.
HandlersKnown == \A i \in Ids : connections[i] # Null => connectionId[connections[i]] = i

\* A fan-out has connections to visit, each of them once and not the one it
\* is writing to.
FanoutKnown(h) ==
  /\ target[h] # Null => Joined(target[h]) /\ pc[h] \in {"deliver", "receipt"}
  /\ Sending(h) =>
       /\ \A i \in ToSet(todo[h]) : i < counter
       /\ \A g \in Handlers : Joined(g) => Once(todo[h], connectionId[g])
  /\ pc[h] = "deliver" => connectionId[target[h]] \notin ToSet(todo[h])

\* Only a connection has a socket, and one that was taken out of the map has
\* been closed.
SocketsKnown ==
  \A h \in Handlers :
    /\ pc[h] = "off" => ~ open[h] /\ ~ clientUp[h]
    /\ Joined(h) /\ connections[connectionId[h]] # h => ~ open[h]

\* A message has a sender; process returns none.
SendersKnown ==
  \A h \in Handlers :
    /\ \A k \in DOMAIN outbox[h] :
         outbox[h][k].command = "MESSAGE" =>
           \E g \in Handlers : connectionId[g] = outbox[h][k].messageId
    /\ reply[h] # Null => reply[h].command # "MESSAGE"

DeliveryInv ==
  HandlersKnown /\ (\A h \in Handlers : FanoutKnown(h)) /\ SocketsKnown /\ SendersKnown

StepOf(h) ==
  \/ Accept(h) \/ ThreadStep(h) \/ ClientRead(h) \/ ClientDrop(h)
  \/ \E f \in Frames : Receive(h, f)

\* Ids are given by Accept, in order, and kept.
IdsGrow ==
  /\ counter \in Nat /\ counter' \in Nat /\ counter \leq counter'
  /\ \A g \in Handlers : Joined(g) => connectionId'[g] = connectionId[g]
  /\ \A g \in Handlers : ~ Joined(g) /\ Joined(g)' => connectionId'[g] = counter

\* Whatever a step does, ids are given that way.
LEMMA IdsNext ==
  ASSUME SessionInv, TypeInv, NEW h \in Handlers, StepOf(h)
  PROVE  IdsGrow
<1>0. counter \in Nat /\ connectionId \in [Handlers -> Ids \cup {Null}]
  BY DEF TypeInv, TransportTypeOK, BrokerInv, BrokerTypeOK
<1>1. CASE Accept(h)
  BY <1>0, <1>1 DEF Accept, IdsGrow, Joined, SessionInv, Registered
<1>2. UNCHANGED <<connectionId, counter>> => IdsGrow
  BY <1>0 DEF IdsGrow, Joined
<1>3. CASE ThreadStep(h)
  BY <1>2, <1>3
     DEF ThreadStep, Silent, Refuse, Register, Login, Subscribe, Unsubscribe, Snapshot, Visit,
         EndOfSend, Farewell, Logout, Clean, Deliver, Delivered, SendReceipt, Receipted, Close,
         Unregister, Reply, Exit, Write, transport
<1>4. CASE ClientRead(h) \/ ClientDrop(h) \/ \E f \in Frames : Receive(h, f)
  BY <1>2, <1>4 DEF ClientRead, ClientDrop, Receive, brokerVars, locals
<1> QED
  BY <1>1, <1>3, <1>4 DEF StepOf

\* A step of h moves no other protocol.
LEMMA OthersStay ==
  ASSUME TypeInv, NEW h \in Handlers, StepOf(h), NEW g \in Handlers, g # h
  PROVE  /\ pc'[g] = pc[g] /\ frame'[g] = frame[g] /\ todo'[g] = todo[g]
         /\ target'[g] = target[g] /\ reply'[g] = reply[g]
<1>0. /\ pc \in [Handlers -> Step] /\ frame \in [Handlers -> Frames \cup {Null}]
      /\ todo \in [Handlers -> Seq(Ids)] /\ target \in [Handlers -> Handlers \cup {Null}]
      /\ reply \in [Handlers -> ServerFrame \cup {Null}]
  BY DEF TypeInv, BrokerInv, BrokerTypeOK
<1> USE DEF Goto, Answer, tables
<1>1. CASE Accept(h) \/ ClientRead(h) \/ ClientDrop(h) \/ Reply(h) \/ Exit(h)
           \/ \E f \in Frames : Receive(h, f)
  BY <1>0, <1>1 DEF Accept, ClientRead, ClientDrop, Reply, Exit, Receive, brokerVars, locals
<1>2. CASE Deliver(h) \/ SendReceipt(h) \/ Close(h)
  BY <1>0, <1>2 DEF Deliver, Delivered, SendReceipt, Receipted, Close, Unregister
<1>3. CASE Silent(h)
  BY <1>0, <1>3
     DEF Silent, Refuse, Register, Login, Subscribe, Unsubscribe, Snapshot, Visit, EndOfSend,
         Farewell, Logout, Clean
<1> QED
  BY <1>1, <1>2, <1>3 DEF ThreadStep, StepOf

\* A new handler is entered under its id, and a logout only takes one out.
LEMMA HandlersNext ==
  ASSUME SessionInv, TypeInv, HandlersKnown, NEW h \in Handlers, StepOf(h)
  PROVE  HandlersKnown'
<1>0. /\ connectionId \in [Handlers -> Ids \cup {Null}]
      /\ connections \in [Ids -> Handlers \cup {Null}]
  BY DEF TypeInv, BrokerInv, BrokerTypeOK
<1>1. CASE Accept(h)
  <2>1. connectionId[h] = Null /\ counter \in Ids /\ \A i \in Ids : i # Null
    BY <1>1, NullIsNoValue DEF Accept, SessionInv, Registered
  <2>2. ASSUME NEW i \in Ids, connections'[i] # Null
        PROVE  connectionId'[connections'[i]] = i
    <3>1. CASE i = counter
      BY <1>0, <1>1, <3>1 DEF Accept
    <3>2. CASE i # counter
      <4>1. connections'[i] = connections[i] /\ connections[i] \in Handlers
        BY <1>0, <1>1, <2>2, <3>2 DEF Accept
      <4>2. connectionId[connections[i]] = i
        BY <2>2, <4>1 DEF HandlersKnown
      <4> QED
        BY <1>0, <1>1, <2>1, <4>1, <4>2 DEF Accept
    <3> QED
      BY <3>1, <3>2
  <2> QED
    BY <2>2 DEF HandlersKnown
<1>2. CASE Close(h)
  BY <1>2 DEF Close, Unregister, HandlersKnown
<1>3. UNCHANGED <<connections, connectionId>> => HandlersKnown'
  BY DEF HandlersKnown
<1> QED
  BY <1>1, <1>2, <1>3
     DEF StepOf, ThreadStep, Silent, Refuse, Register, Login, Subscribe, Unsubscribe, Snapshot,
         Visit, EndOfSend, Farewell, Logout, Clean, Deliver, Delivered, SendReceipt, Receipted,
         Reply, Exit, tables, ClientRead, ClientDrop, brokerVars, locals, Receive

\* Sockets open with an accept and close no later than the map forgets them.
LEMMA SocketsNext ==
  ASSUME SessionInv, TypeInv, SocketsKnown, NEW h \in Handlers, StepOf(h)
  PROVE  SocketsKnown'
<1>0. /\ connectionId \in [Handlers -> Ids \cup {Null}] /\ pc \in [Handlers -> Step]
      /\ connections \in [Ids -> Handlers \cup {Null}]
      /\ open \in [Handlers -> BOOLEAN] /\ clientUp \in [Handlers -> BOOLEAN]
  BY DEF TypeInv, BrokerInv, BrokerTypeOK, TransportTypeOK
<1>1. CASE Accept(h)
  <2>0. counter \in Nat
    BY DEF SessionInv, SessionTypeOK
  <2>1. /\ connectionId[h] = Null /\ counter \in Ids
        /\ \A g \in Handlers : Joined(g) => connectionId[g] \in Ids /\ connectionId[g] # counter
    <3>1. connectionId[h] = Null /\ counter \in Ids
      BY <1>1 DEF Accept, SessionInv, Registered
    <3>2. ASSUME NEW g \in Handlers, Joined(g)
          PROVE  connectionId[g] \in Ids /\ connectionId[g] # counter
      <4>1. connectionId[g] \in Ids /\ connectionId[g] \in Nat /\ connectionId[g] < counter
        BY <3>2, JoinedIds
      <4> QED
        BY <2>0, <4>1
    <3> QED
      BY <3>1, <3>2
  <2>2. ASSUME NEW g \in Handlers
        PROVE  /\ pc'[g] = "off" => ~ open'[g] /\ ~ clientUp'[g]
               /\ Joined(g)' /\ connections'[connectionId'[g]] # g => ~ open'[g]
    <3>1. CASE g = h
      BY <1>0, <1>1, <2>1, <3>1 DEF Accept, Goto
    <3>2. CASE g # h
      BY <1>0, <1>1, <2>1, <3>2 DEF Accept, Goto, SocketsKnown, Joined
    <3> QED
      BY <3>1, <3>2
  <2> QED
    BY <2>2 DEF SocketsKnown
<1>2. CASE Close(h)
  <2>1. Joined(h) /\ connections[connectionId[h]] = h /\ leaving[h] = connectionId[h]
    BY <1>2, BusyIds DEF Close, Unregister, SessionInv, PlaceOfProtocol
  <2>2. /\ connectionId[h] \in Ids /\ connectionId[h] # Null
        /\ \A g \in Handlers : connectionId[g] = connectionId[h] => g = h
    BY <2>1, JoinedIds
  <2>3. /\ Evicted(h) = h /\ open' = [open EXCEPT ![h] = FALSE]
        /\ UNCHANGED <<clientUp, connectionId>>
        /\ connections' = [i \in Ids |-> IF i = connectionId[h] THEN Null ELSE connections[i]]
        /\ pc' = [pc EXCEPT ![h] = "reply"]
    BY <1>2, <2>1, <2>2, NullIsNoValue DEF Close, Unregister, Evicted, Answer, Goto
  <2> QED
    BY <1>0, <2>2, <2>3 DEF SocketsKnown, Joined
<1>3. ASSUME UNCHANGED <<connections, connectionId>>,
             \A g \in Handlers : pc'[g] = "off" => pc[g] = "off",
             \A g \in Handlers : (open'[g] => open[g]) /\ (clientUp'[g] => clientUp[g])
      PROVE  SocketsKnown'
  BY <1>3 DEF SocketsKnown, Joined
<1>4. CASE Silent(h) /\ UNCHANGED transport
  <2>1. UNCHANGED <<connections, connectionId, open, clientUp>>
    BY <1>4 DEF Silent, Refuse, Register, Login, Subscribe, Unsubscribe, Snapshot,
         Visit, EndOfSend, Farewell, Logout, Clean, tables, transport
  <2>2. \A g \in Handlers : pc'[g] = "off" => pc[g] = "off"
    BY <1>0, <1>4 DEF Silent, Refuse, Register, Login, Subscribe, Unsubscribe, Snapshot,
         Visit, EndOfSend, Farewell, Logout, Clean, Goto, Answer
  <2> QED
    BY <1>3, <2>1, <2>2
<1>5. CASE Deliver(h) \/ SendReceipt(h) \/ Reply(h) \/ Exit(h)
  BY <1>0, <1>3, <1>5 DEF Deliver, Delivered, SendReceipt, Receipted, Reply, Exit, Write, Goto,
                          tables, transport
<1>6. CASE ClientRead(h) \/ ClientDrop(h) \/ \E f \in Frames : Receive(h, f)
  BY <1>0, <1>3, <1>6 DEF ClientRead, ClientDrop, Receive, Goto, brokerVars, tables, locals
<1> QED
  BY <1>1, <1>2, <1>4, <1>5, <1>6 DEF StepOf, ThreadStep

\* What is written is an answer, a receipt or a message of who has an id.
LEMMA SendersNext ==
  ASSUME SessionInv, TypeInv, SendersKnown, NEW h \in Handlers, StepOf(h)
  PROVE  SendersKnown'
<1>0. /\ reply \in [Handlers -> ServerFrame \cup {Null}]
      /\ outbox \in [Handlers -> Seq(ServerFrame)]
  BY DEF TypeInv, BrokerInv, BrokerTypeOK, TransportTypeOK
<1>1. ASSUME NEW i, \E g \in Handlers : connectionId[g] = i, i # Null
      PROVE  \E g \in Handlers : connectionId'[g] = i
  BY <1>1, IdsNext DEF IdsGrow, Joined
<1>2. \A g \in Handlers : \A k \in DOMAIN outbox[g] :
        outbox[g][k].command = "MESSAGE" =>
          /\ outbox[g][k].messageId # Null
          /\ \E x \in Handlers : connectionId'[x] = outbox[g][k].messageId
  <2> SUFFICES ASSUME NEW g \in Handlers, NEW k \in DOMAIN outbox[g],
                      outbox[g][k].command = "MESSAGE"
               PROVE  /\ outbox[g][k].messageId # Null
                      /\ \E x \in Handlers : connectionId'[x] = outbox[g][k].messageId
    OBVIOUS
  <2>1. outbox[g][k] \in ServerFrame
    BY <1>0
  <2>2. outbox[g][k].messageId \in Ids
    BY <2>1 DEF ServerFrame, Plain, ReceiptFrame, Message
  <2>3. outbox[g][k].messageId # Null
    BY <2>2, NullIsNoValue
  <2> QED
    BY <1>1, <2>3 DEF SendersKnown
<1>3. ASSUME NEW g \in Handlers, NEW m,
             outbox' = outbox \/ outbox' = [outbox EXCEPT ![g] = Append(@, m)],
             m.command = "MESSAGE" => \E x \in Handlers : connectionId'[x] = m.messageId
      PROVE  \A x \in Handlers : \A k \in DOMAIN outbox'[x] :
               outbox'[x][k].command = "MESSAGE" =>
                 \E y \in Handlers : connectionId'[y] = outbox'[x][k].messageId
  <2> SUFFICES ASSUME NEW x \in Handlers, NEW k \in DOMAIN outbox'[x],
                      outbox'[x][k].command = "MESSAGE"
               PROVE  \E y \in Handlers : connectionId'[y] = outbox'[x][k].messageId
    OBVIOUS
  <2>1. CASE outbox'[x] = outbox[x]
    BY <1>2, <2>1
  <2>2. CASE outbox'[x] = Append(outbox[x], m)
    <3>1. CASE k \in DOMAIN outbox[x]
      <4>1. outbox'[x][k] = outbox[x][k]
        BY <1>0, <2>2, <3>1
      <4> QED
        BY <1>2, <3>1, <4>1
    <3>2. CASE k \notin DOMAIN outbox[x]
      <4>1. outbox'[x][k] = m
        BY <1>0, <2>2, <3>2
      <4> QED
        BY <1>3, <4>1
    <3> QED
      BY <3>1, <3>2
  <2> QED
    BY <1>0, <1>3, <2>1, <2>2
<1>4. ASSUME NEW g \in Handlers, \/ outbox' = [outbox EXCEPT ![g] = Tail(@)] /\ outbox[g] # <<>>
                                 \/ outbox' = [outbox EXCEPT ![g] = <<>>]
      PROVE  \A x \in Handlers : \A k \in DOMAIN outbox'[x] :
               outbox'[x][k].command = "MESSAGE" =>
                 \E y \in Handlers : connectionId'[y] = outbox'[x][k].messageId
  <2> SUFFICES ASSUME NEW x \in Handlers, NEW k \in DOMAIN outbox'[x]
               PROVE  \E j \in DOMAIN outbox[x] : outbox'[x][k] = outbox[x][j]
    BY <1>2
  <2>1. CASE outbox'[x] = outbox[x]
    BY <2>1
  <2>2. CASE outbox'[x] = Tail(outbox[x]) /\ outbox[x] # <<>>
    <3>1. /\ DOMAIN outbox[x] = 1..Len(outbox[x]) /\ Len(outbox[x]) \in Nat
          /\ DOMAIN outbox'[x] = 1..Len(outbox[x]) - 1
          /\ \A j \in 1..Len(outbox[x]) - 1 : outbox'[x][j] = outbox[x][j + 1]
      BY <1>0, <2>2
    <3>2. k + 1 \in DOMAIN outbox[x]
      BY <3>1
    <3> QED
      BY <3>1, <3>2
  <2>3. CASE outbox'[x] = <<>>
    BY <2>3
  <2> QED
    BY <1>0, <1>4, <2>1, <2>2, <2>3
<1>5. ASSUME NEW f, f = Plain("ERROR") \/ f = Plain("CONNECTED") \/ f = Null \/ f = Receipt(h),
             f # Null
      PROVE  f.command # "MESSAGE"
  BY <1>5 DEF Plain, Receipt
<1>6. ASSUME NEW g \in Handlers, NEW m, Write(g, m)
      PROVE  outbox' = outbox \/ outbox' = [outbox EXCEPT ![g] = Append(@, m)]
  BY <1>6 DEF Write
<1>7. CASE UNCHANGED <<reply, outbox>>
  BY <1>2, <1>7 DEF SendersKnown
<1>8. CASE Silent(h) /\ UNCHANGED transport
  <2>1. CASE UNCHANGED reply
    BY <1>7, <1>8, <2>1 DEF transport
  <2>2. CASE \E f : (f = Plain("ERROR") \/ f = Plain("CONNECTED") \/ f = Null \/ f = Receipt(h))
                      /\ reply' = [reply EXCEPT ![h] = f]
    <3>1. \A g \in Handlers : reply'[g] # Null => reply'[g].command # "MESSAGE"
      BY <1>0, <1>5, <2>2 DEF SendersKnown
    <3> QED
      BY <1>2, <1>8, <3>1 DEF SendersKnown, transport
  <2> QED
    BY <1>8, <2>1, <2>2
       DEF Silent, Refuse, Register, Login, Subscribe, Unsubscribe, Snapshot, Visit, EndOfSend,
           Farewell, Logout, Clean, Answer
<1>9. CASE Deliver(h)
  <2>1. target[h] \in Handlers /\ connectionId[h] \in Ids
    BY <1>9 DEF Deliver, Delivered, TypeInv, BrokerInv, Equipped
  <2>2. \E x \in Handlers : connectionId'[x] = MessageOf(h).messageId
    BY <1>9 DEF Deliver, Delivered, MessageOf
  <2>3. UNCHANGED reply
    BY <1>9 DEF Deliver, Delivered
  <2> QED
    BY <1>3, <1>6, <1>9, <2>1, <2>2, <2>3 DEF Deliver, SendersKnown
<1>10. CASE SendReceipt(h)
  <2>1. UNCHANGED reply
    BY <1>10 DEF SendReceipt, Receipted
  <2>2. CASE Null \in {target[h], Receipt(h)}
    BY <1>7, <1>10, <2>1, <2>2 DEF SendReceipt, transport
  <2>3. CASE Null \notin {target[h], Receipt(h)}
    <3>1. target[h] \in Handlers /\ Receipt(h).command # "MESSAGE"
      BY <1>5, <2>3 DEF TypeInv, BrokerInv, BrokerTypeOK
    <3> QED
      BY <1>3, <1>6, <1>10, <2>1, <2>3, <3>1 DEF SendReceipt, SendersKnown
  <2> QED
    BY <2>2, <2>3
<1>11. CASE Reply(h)
  <2>1. \A g \in Handlers : reply'[g] # Null => reply[g] # Null /\ reply'[g] = reply[g]
    BY <1>0, <1>11 DEF Reply
  <2>2. CASE reply[h] = Null
    BY <1>2, <1>11, <2>1, <2>2 DEF Reply, SendersKnown, transport
  <2>3. CASE reply[h] # Null
    <3>1. reply[h].command # "MESSAGE"
      BY <2>3 DEF SendersKnown
    <3> QED
      BY <1>3, <1>6, <1>11, <2>1, <2>3, <3>1 DEF Reply, SendersKnown
  <2> QED
    BY <2>2, <2>3
<1>12. CASE Accept(h) \/ Close(h) \/ Exit(h) \/ \E f \in Frames : Receive(h, f)
  <2>1. CASE Close(h)
    <3>1. outbox' = outbox /\ \A g \in Handlers : reply'[g] # Null => reply'[g] = reply[g]
      BY <1>0, <2>1 DEF Close, Unregister, Answer
    <3> QED
      BY <1>2, <3>1 DEF SendersKnown
  <2> QED
    BY <1>7, <1>12, <2>1 DEF Accept, Exit, Receive
<1>13. CASE ClientRead(h) \/ ClientDrop(h)
  <2>1. UNCHANGED reply
    BY <1>13 DEF ClientRead, ClientDrop, brokerVars, locals
  <2> QED
    BY <1>4, <1>13, <2>1 DEF ClientRead, ClientDrop, SendersKnown
<1> QED
  BY <1>8, <1>9, <1>10, <1>11, <1>12, <1>13 DEF StepOf, ThreadStep

\* The head of a list and the rest of it.
LEMMA TailListed ==
  ASSUME NEW S, NEW q \in Seq(S), q # <<>>
  PROVE  /\ Head(q) \in S /\ Tail(q) \in Seq(S)
         /\ ToSet(q) = ToSet(Tail(q)) \cup {Head(q)}
         /\ \A x : Once(q, x) => Once(Tail(q), x)
         /\ Once(q, Head(q)) => Head(q) \notin ToSet(Tail(q))
<1> DEFINE r == Tail(q)
<1>1. /\ r \in Seq(S) /\ Len(r) = Len(q) - 1 /\ Len(q) \in Nat /\ Len(q) > 0
      /\ DOMAIN q = 1..Len(q) /\ DOMAIN r = 1..Len(q) - 1
      /\ \A k \in 1..Len(q) - 1 : r[k] = q[k + 1]
      /\ Head(q) = q[1] /\ Head(q) \in S
  OBVIOUS
<1> HIDE DEF r
<1>2. ASSUME NEW x
      PROVE  x \in ToSet(q) <=> x \in ToSet(r) \/ x = q[1]
  <2>1. ASSUME x \in ToSet(q), x # q[1]
        PROVE  x \in ToSet(r)
    <3>1. PICK k \in 1..Len(q) : q[k] = x
      BY <1>1, <2>1 DEF ToSet
    <3>2. k - 1 \in 1..Len(q) - 1 /\ (k - 1) + 1 = k
      BY <1>1, <2>1, <3>1
    <3>3. r[k - 1] = x
      BY <1>1, <3>1, <3>2
    <3> QED
      BY <1>1, <3>2, <3>3 DEF ToSet
  <2>2. ASSUME x \in ToSet(r)
        PROVE  x \in ToSet(q)
    <3>1. PICK k \in 1..Len(q) - 1 : r[k] = x
      BY <1>1, <2>2 DEF ToSet
    <3>2. k + 1 \in 1..Len(q) /\ q[k + 1] = x
      BY <1>1, <3>1
    <3> QED
      BY <1>1, <3>2 DEF ToSet
  <2>3. q[1] \in ToSet(q)
    BY <1>1 DEF ToSet
  <2> QED
    BY <2>1, <2>2, <2>3
<1>3. ASSUME NEW x, Once(q, x)
      PROVE  Once(r, x)
  <2> SUFFICES ASSUME NEW j \in 1..Len(q) - 1, NEW k \in 1..Len(q) - 1, r[j] = x, r[k] = x
               PROVE  j = k
    BY <1>1 DEF Once
  <2>1. j + 1 \in 1..Len(q) /\ k + 1 \in 1..Len(q) /\ q[j + 1] = x /\ q[k + 1] = x
    BY <1>1
  <2>2. j + 1 = k + 1
    BY <1>1, <1>3, <2>1 DEF Once
  <2> QED
    BY <1>1, <2>2
<1>4. Once(q, q[1]) => q[1] \notin ToSet(r)
  <2> SUFFICES ASSUME Once(q, q[1]), NEW k \in 1..Len(q) - 1, r[k] = q[1]
               PROVE  FALSE
    BY <1>1 DEF ToSet
  <2>1. 1 \in DOMAIN q /\ k + 1 \in DOMAIN q /\ q[k + 1] = q[1] /\ k + 1 # 1
    BY <1>1
  <2> QED
    BY <2>1 DEF Once
<1>5. ToSet(q) = ToSet(r) \cup {q[1]}
  BY <1>2
<1> QED
  BY <1>1, <1>3, <1>4, <1>5 DEF r

\* A protocol that does not move keeps what it knows, whoever gets an id.
LEMMA FanoutStays ==
  ASSUME SessionInv, TypeInv, IdsGrow, NEW x \in Handlers, FanoutKnown(x),
         pc'[x] = pc[x], todo'[x] = todo[x], target'[x] = target[x]
  PROVE  FanoutKnown(x)'
<1>1. /\ todo[x] \in Seq(Ids) /\ target[x] \in Handlers \cup {Null}
      /\ ToSet(todo[x]) \subseteq Ids
      /\ pc[x] = "deliver" => target[x] \in Handlers
  BY DEF TypeInv, BrokerInv, BrokerTypeOK, Equipped, ToSet
<1>2. target'[x] # Null => Joined(target[x])' /\ pc'[x] \in {"deliver", "receipt"}
  BY <1>1 DEF FanoutKnown, IdsGrow, Joined
<1>3. ASSUME Sending(x)
      PROVE  /\ \A i \in ToSet(todo[x]) : i < counter'
             /\ \A g \in Handlers : Joined(g)' => Once(todo[x], connectionId'[g])
  <2>1. \A i \in ToSet(todo[x]) : i \in Nat /\ i < counter
    BY <1>1, <1>3, IdsAreNumbers DEF FanoutKnown
  <2>2. counter \in Nat /\ counter' \in Nat /\ counter \leq counter'
    BY DEF IdsGrow
  <2>3. counter \notin ToSet(todo[x])
    BY <2>1, <2>2
  <2>4. Once(todo[x], counter)
    BY <2>3 DEF Once, ToSet
  <2>5. ASSUME NEW g \in Handlers, Joined(g)'
        PROVE  Once(todo[x], connectionId'[g])
    BY <1>3, <2>4, <2>5 DEF FanoutKnown, IdsGrow
  <2> QED
    BY <2>1, <2>2, <2>5
<1>4. ASSUME pc[x] = "deliver"
      PROVE  connectionId'[target[x]] \notin ToSet(todo[x])
  <2>1. target[x] \in Handlers /\ target[x] # Null
    BY <1>1, <1>4, NullIsNoValue
  <2>2. connectionId'[target[x]] = connectionId[target[x]]
    BY <2>1 DEF FanoutKnown, IdsGrow
  <2> QED
    BY <1>4, <2>2 DEF FanoutKnown
<1> QED
  BY <1>2, <1>3, <1>4 DEF FanoutKnown, Sending

\* A protocol that is not publishing has no one to write to.
LEMMA FanoutIdle ==
  ASSUME NEW x \in Handlers, ~ Sending(x)',
         target'[x] # Null => pc'[x] = "receipt" /\ Joined(target[x])'
  PROVE  FanoutKnown(x)'
BY DEF FanoutKnown, Sending

\* The list a fan-out walks over names a connection once, and shrinks.
LEMMA FanoutNext ==
  ASSUME SessionInv, TypeInv, MembershipInv, HandlersKnown, NEW h \in Handlers, StepOf(h),
         NEW x \in Handlers, FanoutKnown(x)
  PROVE  FanoutKnown(x)'
<1>0. /\ pc \in [Handlers -> Step] /\ target \in [Handlers -> Handlers \cup {Null}]
      /\ todo \in [Handlers -> Seq(Ids)] /\ connections \in [Ids -> Handlers \cup {Null}]
      /\ channels \in [Channels -> Seq(Ids)]
  BY DEF TypeInv, BrokerInv, BrokerTypeOK
<1>1. IdsGrow
  BY IdsNext
<1>2. CASE x # h
  BY <1>1, <1>2, OthersStay, FanoutStays
<1>3. CASE ClientRead(h) \/ ClientDrop(h)
  BY <1>1, <1>3, FanoutStays DEF ClientRead, ClientDrop, brokerVars, locals
<1>4. ASSUME x = h, pc[h] \notin {"deliver", "receipt"}, target'[h] = target[h],
             pc'[h] \notin {"fanout", "deliver", "receipt"}
      PROVE  FanoutKnown(x)'
  BY <1>4, FanoutIdle DEF FanoutKnown, Sending
<1>5. CASE x = h /\ (Accept(h) \/ Reply(h) \/ Exit(h) \/ \E f \in Frames : Receive(h, f))
  BY <1>0, <1>4, <1>5 DEF Accept, Reply, Exit, Receive, Goto
<1>6. CASE x = h /\ Close(h)
  BY <1>0, <1>4, <1>6 DEF Close, Unregister, Answer, Goto
<1>7. CASE x = h /\ SendReceipt(h)
  BY <1>0, <1>7, FanoutIdle DEF SendReceipt, Receipted, Goto, Sending
<1>8. CASE x = h /\ Deliver(h)
  <2>1. /\ pc[h] = "deliver" /\ pc'[h] = "fanout" /\ target'[h] = Null /\ todo' = todo
        /\ UNCHANGED <<connectionId, counter>>
    BY <1>0, <1>8 DEF Deliver, Delivered, Goto, Write
  <2> QED
    BY <1>8, <2>1 DEF FanoutKnown, Sending, Joined
<1>9. CASE x = h /\ Silent(h) /\ UNCHANGED transport
  <2>1. CASE Refuse(h) \/ Register(h) \/ Login(h) \/ Subscribe(h) \/ Unsubscribe(h)
              \/ EndOfSend(h) \/ Logout(h) \/ \E ch \in Channels : Clean(h, ch)
    BY <1>0, <1>4, <1>9, <2>1
       DEF Refuse, Register, Login, Subscribe, Unsubscribe, EndOfSend, Logout, Clean, Answer,
           Goto, Handles
  <2>2. CASE Farewell(h)
    <3>1. /\ pc'[h] = "receipt" /\ target'[h] = connections[connectionId[h]]
          /\ connectionId' = connectionId /\ pc[h] = "process"
      BY <1>0, <2>2 DEF Farewell, Handles, Goto
    <3>2. Joined(h) /\ target'[h] = h
      BY <3>1, BusyIds
    <3> QED
      BY <1>9, <3>1, <3>2, FanoutIdle DEF Sending, Joined
  <2>3. CASE Snapshot(h)
    <3>1. /\ pc[h] = "process" /\ pc'[h] = "fanout" /\ target' = target
          /\ todo'[h] = channels[frame[h].destination] /\ frame[h].destination \in Channels
          /\ UNCHANGED <<connectionId, counter>>
      BY <1>0, <1>9, <2>3, HandledFrame DEF Snapshot, Handles, Goto, transport, TypeInv
    <3>2. /\ target'[h] = Null
          /\ \A i \in ToSet(todo'[h]) : i < counter
          /\ \A g \in Handlers : Joined(g) => Once(todo'[h], connectionId[g])
      BY <1>9, <3>1 DEF FanoutKnown, MembershipInv, KnownIds, ListsAgree
    <3> QED
      BY <1>9, <3>1, <3>2 DEF FanoutKnown, Joined
  <2>4. CASE Visit(h)
    <3> DEFINE i == Head(todo[h])
    <3>1. /\ pc[h] = "fanout" /\ todo[h] # <<>> /\ todo[h] \in Seq(Ids)
          /\ todo'[h] = Tail(todo[h]) /\ target'[h] = connections[i]
          /\ pc'[h] = IF connections[i] = Null THEN "fanout" ELSE "deliver"
          /\ UNCHANGED <<connectionId, counter>>
      BY <1>0, <1>9, <2>4 DEF Visit, Goto, transport
    <3>2. /\ i \in Ids /\ ToSet(todo[h]) = ToSet(Tail(todo[h])) \cup {i}
          /\ \A y : Once(todo[h], y) => Once(Tail(todo[h]), y)
          /\ Once(todo[h], i) => i \notin ToSet(Tail(todo[h]))
      BY <3>1, TailListed
    <3> HIDE DEF i
    <3>3. /\ \A j \in ToSet(todo'[h]) : j < counter
          /\ \A g \in Handlers : Joined(g) => Once(todo'[h], connectionId[g])
      BY <1>9, <3>1, <3>2 DEF FanoutKnown, Sending
    <3>4. ASSUME connections[i] # Null
          PROVE  Joined(connections[i]) /\ connectionId[connections[i]] \notin ToSet(todo'[h])
      <4>1. connections[i] \in Handlers /\ connectionId[connections[i]] = i /\ i # Null
        BY <1>0, <3>2, <3>4, NullIsNoValue DEF HandlersKnown
      <4>2. Joined(connections[i])
        BY <4>1 DEF Joined
      <4>3. Once(todo[h], i)
        BY <1>9, <3>1, <4>1, <4>2 DEF FanoutKnown, Sending
      <4> QED
        BY <3>1, <3>2, <4>1, <4>2, <4>3
    <3> QED
      BY <1>9, <3>1, <3>3, <3>4 DEF FanoutKnown, Joined, Sending
  <2> QED
    BY <1>9, <2>1, <2>2, <2>3, <2>4 DEF Silent
<1> QED
  BY <1>2, <1>3, <1>5, <1>6, <1>7, <1>8, <1>9 DEF StepOf, ThreadStep

\* A fan-out visits each connection once, and a connection that was taken out
\* of the map is closed.
THEOREM TpcDelivery ==
  ASSUME OneChannelPerId
  PROVE  Safety => []DeliveryInv
<1>1. Init => DeliveryInv
  BY DEF Init, BrokerInit, DeliveryInv, HandlersKnown, FanoutKnown, SocketsKnown, SendersKnown,
         Joined, Sending
<1>2. SessionInv /\ TypeInv /\ MembershipInv /\ DeliveryInv /\ [Next]_vars => DeliveryInv'
  <2> SUFFICES ASSUME SessionInv, TypeInv, MembershipInv, DeliveryInv, [Next]_vars
               PROVE  DeliveryInv'
    OBVIOUS
  <2>1. ASSUME NEW h \in Handlers, StepOf(h)
        PROVE  DeliveryInv'
    BY <2>1, HandlersNext, SocketsNext, SendersNext, FanoutNext DEF DeliveryInv
  <2>2. CASE UNCHANGED vars
    BY <2>2 DEF vars, brokerVars, tables, locals, transport, DeliveryInv, HandlersKnown,
                FanoutKnown, SocketsKnown, SendersKnown, Joined, Sending
  <2> QED
    BY <2>1, <2>2 DEF Next, StepOf
<1> QED
  BY <1>1, <1>2, TpcSessionInvariant, TpcTypeInvariant, TpcMembershipInvariant, PTL DEF Safety

-----------------------------------------------------------------------------
(* What the mapping makes of a state and of the next one *)

\* Who is logged in, and who is a member of what.
LEMMA View ==
  /\ sessionBar = [u \in Users |-> sessionBar[u]]
  /\ sessionBar' = [u \in Users |-> sessionBar'[u]]
  /\ \A u \in Users :
       /\ sessionBar[u] = {g \in Handlers : Joined(g) /\ connectionId[g] = activeUsers[u]}
       /\ sessionBar'[u] = {g \in Handlers : Joined(g)' /\ connectionId'[g] = activeUsers'[u]}
  /\ memberBar = [h \in Handlers |-> memberBar[h]]
  /\ memberBar' = [h \in Handlers |-> memberBar'[h]]
  /\ \A h \in Handlers :
       /\ memberBar[h] = {ch \in Channels : Listed(h, ch)}
       /\ memberBar'[h] = {ch \in Channels : Listed(h, ch)'}
<1>1. /\ sessionBar = [u \in Users |-> sessionBar[u]]
      /\ sessionBar' = [u \in Users |-> sessionBar'[u]]
      /\ memberBar = [h \in Handlers |-> memberBar[h]]
      /\ memberBar' = [h \in Handlers |-> memberBar'[h]]
  BY Zenon DEF sessionBar, memberBar
<1> QED
  BY <1>1 DEF sessionBar, memberBar, Joined, Listed

\* What is being published, and to whom it is still due.
LEMMA SendingView ==
  /\ sendingBar = [h \in Handlers |-> sendingBar[h]]
  /\ sendingBar' = [h \in Handlers |-> sendingBar'[h]]
  /\ dueBar = [h \in Handlers |-> dueBar[h]]
  /\ dueBar' = [h \in Handlers |-> dueBar'[h]]
  /\ \A h \in Handlers :
       /\ sendingBar[h] = IF Sending(h) THEN frame[h].destination ELSE Null
       /\ sendingBar'[h] = IF Sending(h)' THEN frame'[h].destination ELSE Null
       /\ dueBar[h] = IF ~ Sending(h) THEN {}
                      ELSE {g \in Handlers : connectionId[g] \in ToSet(todo[h]) \/ g = target[h]}
       /\ dueBar'[h] = IF ~ Sending(h)' THEN {}
                       ELSE {g \in Handlers :
                               connectionId'[g] \in ToSet(todo'[h]) \/ g = target'[h]}
<1>1. /\ sendingBar = [h \in Handlers |-> sendingBar[h]]
      /\ sendingBar' = [h \in Handlers |-> sendingBar'[h]]
      /\ dueBar = [h \in Handlers |-> dueBar[h]]
      /\ dueBar' = [h \in Handlers |-> dueBar'[h]]
  BY Zenon DEF sendingBar, dueBar
<1> QED
  BY <1>1 DEF sendingBar, dueBar

\* Two functions that agree everywhere, or but for one place.
LEMMA SameFunction ==
  ASSUME NEW S, NEW f, NEW g, f = [x \in S |-> f[x]], g = [x \in S |-> g[x]],
         \A x \in S : g[x] = f[x]
  PROVE  g = f
OBVIOUS

LEMMA OneChanges ==
  ASSUME NEW S, NEW f, NEW g, f = [x \in S |-> f[x]], g = [x \in S |-> g[x]],
         NEW a \in S, \A x \in S \ {a} : g[x] = f[x]
  PROVE  \A v : g[a] = v => g = [f EXCEPT ![a] = v]
OBVIOUS

\* An id that is somebody's stays his alone.
LEMMA IdStays ==
  ASSUME SessionInv, TypeInv, IdsGrow, NEW i \in Ids, i < counter, NEW g \in Handlers
  PROVE  connectionId'[g] = i <=> connectionId[g] = i
<1>1. i \in Nat /\ i # Null /\ counter \in Nat /\ i # counter
  BY IdsAreNumbers, NullIsNoValue DEF IdsGrow
<1> QED
  BY <1>1 DEF IdsGrow, Joined

\* An id that is given now is in no table.
LEMMA SessionStays ==
  ASSUME SessionInv, TypeInv, MembershipInv, IdsGrow, activeUsers' = activeUsers
  PROVE  sessionBar' = sessionBar
<1>1. ASSUME NEW u \in Users, NEW g \in Handlers
      PROVE  (Joined(g)' /\ connectionId'[g] = activeUsers'[u])
               <=> (Joined(g) /\ connectionId[g] = activeUsers[u])
  <2>1. CASE activeUsers[u] = Null
    BY <2>1 DEF Joined
  <2>2. CASE activeUsers[u] # Null
    <3>1. activeUsers[u] \in Ids /\ activeUsers[u] < counter
      BY <2>2 DEF TypeInv, BrokerInv, BrokerTypeOK, MembershipInv, KnownIds
    <3>2. connectionId'[g] = activeUsers[u] <=> connectionId[g] = activeUsers[u]
      BY <3>1, IdStays
    <3> QED
      BY <2>2, <3>2 DEF Joined
  <2> QED
    BY <2>1, <2>2
<1>2. ASSUME NEW u \in Users
      PROVE  sessionBar'[u] = sessionBar[u]
  <2>1. \A g : g \in sessionBar'[u] <=> g \in sessionBar[u]
    BY <1>1, View
  <2> QED
    BY <2>1
<1> QED
  BY <1>2, View, SameFunction

LEMMA ListedStays ==
  ASSUME SessionInv, TypeInv, MembershipInv, IdsGrow, NEW ch \in Channels, NEW g \in Handlers,
         channels'[ch] = channels[ch]
  PROVE  Listed(g, ch)' <=> Listed(g, ch)
<1>1. \A i \in ToSet(channels[ch]) : i \in Ids /\ i < counter
  BY DEF TypeInv, BrokerInv, BrokerTypeOK, MembershipInv, KnownIds, ToSet
<1>2. \A i \in ToSet(channels[ch]) : connectionId'[g] = i <=> connectionId[g] = i
  BY <1>1, IdStays
<1> QED
  BY <1>2 DEF Listed

LEMMA MembersAre ==
  ASSUME SessionInv, TypeInv, MembershipInv, IdsGrow, channels' = channels
  PROVE  memberBar' = memberBar
<1>1. \A h \in Handlers : memberBar'[h] = memberBar[h]
  BY ListedStays, View
<1> QED
  BY <1>1, View, SameFunction

\* The fan-out of a protocol that does not move, or that publishes nothing.
LEMMA SendingStays ==
  ASSUME SessionInv, TypeInv, IdsGrow, NEW x \in Handlers, FanoutKnown(x),
         \/ ~ Sending(x) /\ ~ Sending(x)'
         \/ pc'[x] = pc[x] /\ frame'[x] = frame[x] /\ todo'[x] = todo[x] /\ target'[x] = target[x]
  PROVE  sendingBar'[x] = sendingBar[x] /\ dueBar'[x] = dueBar[x]
<1>1. CASE ~ Sending(x) /\ ~ Sending(x)'
  BY <1>1, SendingView
<1>2. CASE /\ Sending(x) /\ Sending(x)'
           /\ frame'[x] = frame[x] /\ todo'[x] = todo[x] /\ target'[x] = target[x]
  <2>1. \A i \in ToSet(todo[x]) : i \in Ids /\ i < counter
    BY <1>2 DEF TypeInv, BrokerInv, BrokerTypeOK, FanoutKnown, ToSet
  <2>2. \A g \in Handlers :
          connectionId'[g] \in ToSet(todo[x]) <=> connectionId[g] \in ToSet(todo[x])
    BY <2>1, IdStays
  <2>3. \A g : g \in dueBar'[x] <=> g \in dueBar[x]
    BY <1>2, <2>2, SendingView
  <2> QED
    BY <1>2, <2>3, SendingView
<1> QED
  BY <1>1, <1>2 DEF Sending

\* The fan-outs of the others.
LEMMA SendingElsewhere ==
  ASSUME SessionInv, TypeInv, DeliveryInv, NEW h \in Handlers, StepOf(h)
  PROVE  /\ \A v : sendingBar'[h] = v => sendingBar' = [sendingBar EXCEPT ![h] = v]
         /\ \A v : dueBar'[h] = v => dueBar' = [dueBar EXCEPT ![h] = v]
         /\ \/ ~ Sending(h) /\ ~ Sending(h)'
            \/ UNCHANGED <<pc, frame, todo, target>>
            => sendingBar' = sendingBar /\ dueBar' = dueBar
<1>1. IdsGrow
  BY IdsNext
<1>2. \A x \in Handlers : FanoutKnown(x)
  BY DEF DeliveryInv
<1>3. \A x \in Handlers \ {h} : sendingBar'[x] = sendingBar[x] /\ dueBar'[x] = dueBar[x]
  BY <1>1, <1>2, OthersStay, SendingStays
<1>4. ASSUME \/ ~ Sending(h) /\ ~ Sending(h)'
             \/ UNCHANGED <<pc, frame, todo, target>>
      PROVE  sendingBar'[h] = sendingBar[h] /\ dueBar'[h] = dueBar[h]
  BY <1>1, <1>2, <1>4, SendingStays
<1>5. \A v : sendingBar'[h] = v => sendingBar' = [sendingBar EXCEPT ![h] = v]
  BY <1>3, SendingView, OneChanges
<1>6. \A v : dueBar'[h] = v => dueBar' = [dueBar EXCEPT ![h] = v]
  BY <1>3, SendingView, OneChanges
<1>7. (\A x \in Handlers : sendingBar'[x] = sendingBar[x]) => sendingBar' = sendingBar
  BY SendingView, SameFunction
<1>8. (\A x \in Handlers : dueBar'[x] = dueBar[x]) => dueBar' = dueBar
  BY SendingView, SameFunction
<1> QED
  BY <1>3, <1>4, <1>5, <1>6, <1>7, <1>8
-----------------------------------------------------------------------------
(* What the clients have not read *)

\* Sent, for given ids.
SentIn(ids, m) ==
  IF m.command # "MESSAGE" THEN Null
  ELSE [from        |-> CHOOSE g \in Handlers : ids[g] = m.messageId,
        destination |-> m.destination]

\* The inbox of a connection, frame by frame.
LEMMA InboxView ==
  /\ inboxBar = [h \in Handlers |-> inboxBar[h]]
  /\ inboxBar' = [h \in Handlers |-> inboxBar'[h]]
  /\ \A h \in Handlers :
       /\ inboxBar[h] = [k \in DOMAIN outbox[h] |-> SentIn(connectionId, outbox[h][k])]
       /\ inboxBar'[h] = [k \in DOMAIN outbox'[h] |-> SentIn(connectionId', outbox'[h][k])]
<1>1. /\ inboxBar = [h \in Handlers |-> inboxBar[h]]
      /\ inboxBar' = [h \in Handlers |-> inboxBar'[h]]
  BY Zenon DEF inboxBar
<1>2. inboxBar = [h \in Handlers |->
                    [k \in DOMAIN outbox[h] |-> SentIn(connectionId, outbox[h][k])]]
  BY Zenon DEF inboxBar, Sent, SentIn
<1>3. inboxBar' = [h \in Handlers |->
                     [k \in DOMAIN outbox'[h] |-> SentIn(connectionId', outbox'[h][k])]]
  BY Zenon DEF inboxBar, Sent, SentIn
<1> QED
  BY <1>1, <1>2, <1>3

\* A message has the one sender who has its id,
LEMMA SentBy ==
  ASSUME NEW ids, NEW m, m.command = "MESSAGE", NEW g \in Handlers, ids[g] = m.messageId,
         \A x \in Handlers : ids[x] = m.messageId => x = g
  PROVE  SentIn(ids, m) = [from |-> g, destination |-> m.destination]
<1>1. (CHOOSE x \in Handlers : ids[x] = m.messageId) = g
  OBVIOUS
<1> QED
  BY <1>1 DEF SentIn

\* who keeps it.
LEMMA SentStays ==
  ASSUME SessionInv, TypeInv, IdsGrow, NEW m \in ServerFrame,
         m.command = "MESSAGE" => \E g \in Handlers : connectionId[g] = m.messageId
  PROVE  SentIn(connectionId', m) = SentIn(connectionId, m)
<1>1. CASE m.command # "MESSAGE"
  BY <1>1 DEF SentIn
<1>2. CASE m.command = "MESSAGE"
  <2>1. PICK g \in Handlers : connectionId[g] = m.messageId
    BY <1>2
  <2>2. m.messageId \in Ids
    BY <1>2 DEF ServerFrame, Plain, ReceiptFrame, Message
  <2>3. Joined(g)
    BY <2>1, <2>2, NullIsNoValue DEF Joined
  <2>4. /\ m.messageId < counter
        /\ \A x \in Handlers : connectionId[x] = m.messageId => x = g
    BY <2>1, <2>3, JoinedIds
  <2>5. \A x \in Handlers : connectionId'[x] = m.messageId <=> connectionId[x] = m.messageId
    BY <2>2, <2>4, IdStays
  <2>6. /\ SentIn(connectionId, m) = [from |-> g, destination |-> m.destination]
        /\ SentIn(connectionId', m) = [from |-> g, destination |-> m.destination]
    BY <1>2, <2>1, <2>4, <2>5, SentBy
  <2> QED
    BY <2>6
<1> QED
  BY <1>1, <1>2

\* Lists that are functions of a list.
LEMMA MapSeq ==
  ASSUME NEW S, NEW q \in Seq(S), NEW u, u = [k \in DOMAIN q |-> u[k]]
  PROVE  u \in Seq({u[k] : k \in DOMAIN q}) /\ Len(u) = Len(q)
<1>1. DOMAIN q = 1..Len(q) /\ Len(q) \in Nat
  OBVIOUS
<1> QED
  BY <1>1

LEMMA SameSeq ==
  ASSUME NEW S, NEW q \in Seq(S), NEW T, NEW r \in Seq(T), Len(q) = Len(r),
         \A k \in 1..Len(q) : q[k] = r[k]
  PROVE  q = r
<1>1. /\ q = [k \in 1..Len(q) |-> q[k]]
      /\ r = [k \in 1..Len(r) |-> r[k]]
  OBVIOUS
<1> QED
  BY <1>1

LEMMA LastAdded ==
  ASSUME NEW U, NEW u \in Seq(U), NEW V, NEW v \in Seq(V), Len(v) = Len(u) + 1,
         \A k \in 1..Len(u) : v[k] = u[k]
  PROVE  v = Append(u, v[Len(u) + 1])
<1> DEFINE n == Len(u)
           e == v[Len(u) + 1]
           w == Append(u, e)
<1>1. n \in Nat /\ u \in Seq(U \cup {e})
  OBVIOUS
<1>2. /\ w \in Seq(U \cup {e}) /\ Len(w) = n + 1
      /\ \A k \in 1..n : w[k] = u[k]
      /\ w[n + 1] = e
  BY <1>1
<1> HIDE DEF w
<1>3. ASSUME NEW k \in 1..Len(v)
      PROVE  v[k] = w[k]
  <2>1. k \in 1..n \/ k = n + 1
    BY <1>1
  <2>2. k \in 1..n => v[k] = u[k] /\ w[k] = u[k]
    BY <1>2
  <2> QED
    BY <1>2, <2>1, <2>2
<1>4. v = w
  BY <1>2, <1>3, SameSeq
<1> QED
  BY <1>4 DEF w

LEMMA MapTail ==
  ASSUME NEW S, NEW q \in Seq(S), q # <<>>,
         NEW u, u = [k \in DOMAIN q |-> u[k]],
         NEW v, v = [k \in DOMAIN Tail(q) |-> v[k]],
         \A k \in DOMAIN Tail(q) : v[k] = u[k + 1]
  PROVE  u # <<>> /\ v = Tail(u)
<1> DEFINE T == {v[k] : k \in DOMAIN Tail(q)}
           R == {u[k] : k \in DOMAIN q}
<1>1. /\ Tail(q) \in Seq(S) /\ Len(Tail(q)) = Len(q) - 1
      /\ Len(q) \in Nat /\ Len(q) > 0 /\ DOMAIN Tail(q) = 1..Len(q) - 1
  OBVIOUS
<1>2. v \in Seq(T) /\ Len(v) = Len(q) - 1
  BY <1>1, MapSeq
<1>3. u \in Seq(R) /\ Len(u) = Len(q)
  BY MapSeq
<1> HIDE DEF R, T
<1>4. u # <<>>
  BY <1>1, <1>3
<1>5. /\ Tail(u) \in Seq(R) /\ Len(Tail(u)) = Len(q) - 1
      /\ \A k \in 1..Len(q) - 1 : Tail(u)[k] = u[k + 1]
  BY <1>1, <1>3, <1>4
<1>6. v = Tail(u)
  BY <1>1, <1>2, <1>5, SameSeq
<1> QED
  BY <1>4, <1>6

\* A client that is not written to and reads nothing, and all of them.
LEMMA InboxStays ==
  ASSUME SessionInv, TypeInv, SendersKnown, IdsGrow, NEW x \in Handlers, outbox'[x] = outbox[x]
  PROVE  inboxBar'[x] = inboxBar[x]
<1>1. \A k \in DOMAIN outbox[x] :
        SentIn(connectionId', outbox[x][k]) = SentIn(connectionId, outbox[x][k])
  <2> SUFFICES ASSUME NEW k \in DOMAIN outbox[x]
               PROVE  SentIn(connectionId', outbox[x][k]) = SentIn(connectionId, outbox[x][k])
    OBVIOUS
  <2>1. outbox[x][k] \in ServerFrame
    BY DEF TypeInv, TransportTypeOK
  <2>2. outbox[x][k].command = "MESSAGE" =>
          \E g \in Handlers : connectionId[g] = outbox[x][k].messageId
    BY DEF SendersKnown
  <2> QED
    BY <2>1, <2>2, SentStays
<1> QED
  BY <1>1, InboxView

LEMMA InboxesStay ==
  ASSUME SessionInv, TypeInv, SendersKnown, IdsGrow, outbox' = outbox
  PROVE  inboxBar' = inboxBar
<1>1. \A x \in Handlers : inboxBar'[x] = inboxBar[x]
  BY InboxStays
<1> QED
  BY <1>1, InboxView, SameFunction

\* A frame arrives; the oldest is read; all are lost.
LEMMA InboxAppend ==
  ASSUME SessionInv, TypeInv, SendersKnown, IdsGrow, NEW g \in Handlers, NEW m \in ServerFrame,
         outbox' = [outbox EXCEPT ![g] = Append(@, m)]
  PROVE  inboxBar' = [inboxBar EXCEPT ![g] = Append(@, SentIn(connectionId', m))]
<1>0. outbox \in [Handlers -> Seq(ServerFrame)]
  BY DEF TypeInv, TransportTypeOK
<1>1. \A x \in Handlers \ {g} : inboxBar'[x] = inboxBar[x]
  BY <1>0, InboxStays
<1> DEFINE q == outbox[g]
           u == inboxBar[g]
           v == inboxBar'[g]
<1>2. /\ q \in Seq(ServerFrame) /\ outbox'[g] = Append(q, m)
      /\ u = [k \in DOMAIN q |-> SentIn(connectionId, q[k])]
      /\ v = [k \in DOMAIN Append(q, m) |-> SentIn(connectionId', Append(q, m)[k])]
  BY <1>0, InboxView
<1>3. ASSUME NEW k \in DOMAIN q
      PROVE  SentIn(connectionId', q[k]) = SentIn(connectionId, q[k])
  <2>1. q[k] \in ServerFrame
    BY <1>2
  <2>2. q[k].command = "MESSAGE" => \E x \in Handlers : connectionId[x] = q[k].messageId
    BY DEF SendersKnown
  <2> QED
    BY <2>1, <2>2, SentStays
<1>4. /\ DOMAIN q = 1..Len(q) /\ DOMAIN Append(q, m) = 1..Len(q) + 1 /\ Len(q) \in Nat
      /\ \A k \in 1..Len(q) : Append(q, m)[k] = q[k]
      /\ Append(q, m)[Len(q) + 1] = m
  BY <1>2
<1> HIDE DEF q, u, v
<1>5. /\ u = [k \in DOMAIN q |-> u[k]]
      /\ v = [k \in DOMAIN Append(q, m) |-> v[k]]
      /\ \A k \in DOMAIN q : v[k] = u[k]
      /\ v[Len(q) + 1] = SentIn(connectionId', m)
  BY <1>2, <1>3, <1>4
<1>6. v = Append(u, SentIn(connectionId', m))
  <2> DEFINE r == Append(q, m)
             U == {u[k] : k \in DOMAIN q}
             V == {v[k] : k \in DOMAIN r}
  <2>1. q \in Seq(ServerFrame) /\ r \in Seq(ServerFrame) /\ Len(r) = Len(q) + 1
    BY <1>2
  <2>2. u = [k \in DOMAIN q |-> u[k]] /\ v = [k \in DOMAIN r |-> v[k]]
    BY <1>5, Zenon
  <2> HIDE DEF r
  <2>3. u \in Seq(U) /\ v \in Seq(V) /\ Len(u) = Len(q) /\ Len(v) = Len(q) + 1
    BY <2>1, <2>2, MapSeq
  <2>4. \A k \in 1..Len(u) : v[k] = u[k]
    BY <1>4, <1>5, <2>3
  <2> HIDE DEF U, V
  <2>5. v = Append(u, v[Len(q) + 1])
    BY <2>3, <2>4, LastAdded
  <2> QED
    BY <1>5, <2>5
<1> QED
  BY <1>1, <1>6, InboxView, OneChanges DEF u, v

LEMMA InboxTail ==
  ASSUME SessionInv, TypeInv, SendersKnown, IdsGrow, NEW g \in Handlers, outbox[g] # <<>>,
         outbox' = [outbox EXCEPT ![g] = Tail(@)]
  PROVE  inboxBar[g] # <<>> /\ inboxBar' = [inboxBar EXCEPT ![g] = Tail(@)]
<1>0. outbox \in [Handlers -> Seq(ServerFrame)]
  BY DEF TypeInv, TransportTypeOK
<1>1. \A x \in Handlers \ {g} : inboxBar'[x] = inboxBar[x]
  BY <1>0, InboxStays
<1> DEFINE q == outbox[g]
           u == inboxBar[g]
           v == inboxBar'[g]
<1>2. /\ q \in Seq(ServerFrame) /\ q # <<>> /\ outbox'[g] = Tail(q)
      /\ u = [k \in DOMAIN q |-> SentIn(connectionId, q[k])]
      /\ v = [k \in DOMAIN Tail(q) |-> SentIn(connectionId', Tail(q)[k])]
  BY <1>0, InboxView
<1>3. ASSUME NEW k \in DOMAIN q
      PROVE  SentIn(connectionId', q[k]) = SentIn(connectionId, q[k])
  <2>1. q[k] \in ServerFrame
    BY <1>2
  <2>2. q[k].command = "MESSAGE" => \E x \in Handlers : connectionId[x] = q[k].messageId
    BY DEF SendersKnown
  <2> QED
    BY <2>1, <2>2, SentStays
<1>4. /\ DOMAIN q = 1..Len(q) /\ DOMAIN Tail(q) = 1..Len(q) - 1 /\ Len(q) \in Nat
      /\ \A k \in 1..Len(q) - 1 : Tail(q)[k] = q[k + 1] /\ k + 1 \in 1..Len(q)
  BY <1>2
<1> HIDE DEF q, u, v
<1>5. /\ u = [k \in DOMAIN q |-> u[k]]
      /\ v = [k \in DOMAIN Tail(q) |-> v[k]]
      /\ \A k \in DOMAIN Tail(q) : v[k] = u[k + 1]
  BY <1>2, <1>3, <1>4
<1>6. u # <<>> /\ v = Tail(u)
  <2>1. q \in Seq(ServerFrame) /\ q # <<>>
    BY <1>2
  <2> QED
    BY <1>5, <2>1, MapTail, Zenon
<1> QED
  BY <1>1, <1>6, InboxView, OneChanges DEF u, v

LEMMA InboxLost ==
  ASSUME SessionInv, TypeInv, SendersKnown, IdsGrow, NEW g \in Handlers,
         outbox' = [outbox EXCEPT ![g] = <<>>]
  PROVE  inboxBar' = [inboxBar EXCEPT ![g] = <<>>]
<1>0. outbox \in [Handlers -> Seq(ServerFrame)]
  BY DEF TypeInv, TransportTypeOK
<1>1. \A x \in Handlers \ {g} : inboxBar'[x] = inboxBar[x]
  BY <1>0, InboxStays
<1>2. inboxBar'[g] = [k \in DOMAIN <<>> |-> SentIn(connectionId', <<>>[k])]
  BY <1>0, InboxView
<1>3. inboxBar'[g] = <<>>
  BY <1>2
<1> QED
  BY <1>1, <1>3, InboxView, OneChanges
-----------------------------------------------------------------------------
(* Who is gone *)

\* Who is gone is gone as long as no socket is closed and nobody connects.
LEMMA GoneStays ==
  ASSUME UNCHANGED <<open, clientUp>>, \A g \in Handlers : pc'[g] = "off" <=> pc[g] = "off"
  PROVE  goneBar' = goneBar
BY DEF goneBar

\* What a write does to the inbox of a connection, and when.
LEMMA WriteView ==
  ASSUME SessionInv, TypeInv, SendersKnown, IdsGrow, NEW g \in Handlers, Joined(g),
         NEW m \in ServerFrame, Write(g, m)
  PROVE  \/ /\ g \notin goneBar
            /\ inboxBar' = [inboxBar EXCEPT ![g] = Append(@, SentIn(connectionId', m))]
         \/ /\ g \in goneBar
            /\ inboxBar' = inboxBar
<1>1. pc[g] # "off"
  BY JoinedIds
<1>2. CASE open[g] /\ clientUp[g]
  <2>1. g \notin goneBar
    BY <1>2 DEF goneBar
  <2>2. outbox' = [outbox EXCEPT ![g] = Append(@, m)]
    BY <1>2 DEF Write
  <2> QED
    BY <2>1, <2>2, InboxAppend
<1>3. CASE ~ (open[g] /\ clientUp[g])
  <2>1. g \in goneBar
    BY <1>1, <1>3 DEF goneBar
  <2>2. outbox' = outbox
    BY <1>3 DEF Write
  <2> QED
    BY <2>1, <2>2, InboxesStay
<1> QED
  BY <1>2, <1>3
-----------------------------------------------------------------------------
(* Every step is a step of StompService, or none *)

RefinementInv == SessionInv /\ TypeInv /\ MembershipInv /\ DeliveryInv

Implements == [Service!Next]_(Service!vars)

\* A step that moves none of the six is none of StompService.
LEMMA StutterSim ==
  ASSUME UNCHANGED <<sessionBar, memberBar, sendingBar, dueBar, inboxBar, goneBar>>
  PROVE  Implements
BY DEF Implements, Service!vars

\* What most steps leave alone.
LEMMA TablesStay ==
  ASSUME RefinementInv, NEW h \in Handlers, StepOf(h)
  PROVE  /\ activeUsers' = activeUsers => sessionBar' = sessionBar
         /\ channels' = channels => memberBar' = memberBar
         /\ outbox' = outbox => inboxBar' = inboxBar
BY IdsNext, SessionStays, MembersAre, InboxesStay DEF RefinementInv, DeliveryInv

\* A silent step leaves the sockets alone.
LEMMA SilentView ==
  ASSUME RefinementInv, NEW h \in Handlers, Silent(h), UNCHANGED transport
  PROVE  /\ StepOf(h)
         /\ UNCHANGED <<inboxBar, goneBar>>
         /\ connectionId' = connectionId /\ connections' = connections
<1>0. pc \in [Handlers -> Step]
  BY DEF RefinementInv, TypeInv, BrokerInv, BrokerTypeOK
<1>1. StepOf(h)
  BY DEF StepOf, ThreadStep
<1>2. pc[h] # "off" /\ connectionId' = connectionId /\ connections' = connections
      /\ \E l \in Step \ {"off"} : pc' = [pc EXCEPT ![h] = l]
  <2>1. CASE \E ch \in Channels : Clean(h, ch)
    <3>1. pc[h] = "clean" /\ pc' = pc /\ connectionId' = connectionId /\ connections' = connections
      BY <2>1 DEF Clean
    <3>2. pc' = [pc EXCEPT ![h] = "clean"]
      BY <1>0, <3>1
    <3> QED
      BY <3>1, <3>2 DEF Step
  <2>2. CASE ~ \E ch \in Channels : Clean(h, ch)
    BY <2>2 DEF Silent, Refuse, Register, Login, Subscribe, Unsubscribe, Snapshot, Visit,
           EndOfSend, Farewell, Logout, Handles, Answer, Goto, Step, tables
  <2> QED
    BY <2>1, <2>2
<1>3. \A g \in Handlers : pc'[g] = "off" <=> pc[g] = "off"
  BY <1>0, <1>2
<1> QED
  BY <1>1, <1>2, <1>3, TablesStay, GoneStays DEF transport

\* The sessions of a user whose entry stays.
LEMMA SessionElsewhere ==
  ASSUME NEW v \in Users, activeUsers'[v] = activeUsers[v], connectionId' = connectionId
  PROVE  sessionBar'[v] = sessionBar[v]
<1>1. \A g : g \in sessionBar'[v] <=> g \in sessionBar[v]
  BY View DEF Joined
<1> QED
  BY <1>1

\* An entry that is free is a user nobody is logged in as.
LEMMA LoginSim ==
  ASSUME RefinementInv, NEW h \in Handlers, Login(h), UNCHANGED transport
  PROVE  Implements
<1> DEFINE u == frame[h].login
<1>0. /\ activeUsers \in [Users -> Ids \cup {Null}] /\ pc \in [Handlers -> Step]
      /\ u \in Users /\ username[h] = Null /\ pc[h] = "login" /\ Joined(h)
      /\ connectionId[h] # Null /\ \A g \in Handlers : connectionId[g] = connectionId[h] => g = h
  BY BusyIds, JoinedIds DEF Login, RefinementInv, TypeInv, BrokerInv, BrokerTypeOK, Equipped,
                            SessionInv, PlaceOfProtocol
<1>1. StepOf(h) /\ UNCHANGED <<inboxBar, goneBar>> /\ connectionId' = connectionId
  BY SilentView DEF Silent
<1>2. UNCHANGED <<sendingBar, dueBar>>
  <2>1. ~ Sending(h) /\ ~ Sending(h)'
    BY <1>0 DEF Login, Answer, Goto, Sending
  <2> QED
    BY <1>1, <2>1, SendingElsewhere DEF RefinementInv
<1>3. memberBar' = memberBar
  BY <1>1, TablesStay DEF Login
<1>4. CASE activeUsers[u] # Null
  <2>1. activeUsers' = activeUsers
    BY <1>4 DEF Login
  <2> QED
    BY <1>1, <1>2, <1>3, <2>1, TablesStay, StutterSim
<1>5. CASE activeUsers[u] = Null
  <2>1. activeUsers' = [activeUsers EXCEPT ![u] = connectionId[h]]
    BY <1>5 DEF Login
  <2> HIDE DEF u
  <2>2. sessionBar[u] = {}
    BY <1>0, <1>5, View DEF Joined
  <2>3. \A v \in Users : h \notin sessionBar[v]
    <3>1. \A v \in Users : activeUsers[v] # connectionId[h]
      BY <1>0, NullIsNoValue DEF RefinementInv, MembershipInv, ActiveAgrees
    <3> QED
      BY <3>1, View
  <2>4. \A v \in Users \ {u} : sessionBar'[v] = sessionBar[v]
    BY <1>0, <1>1, <2>1, SessionElsewhere
  <2>5. sessionBar'[u] = {h}
    BY <1>0, <1>1, <2>1, View DEF Joined
  <2>6. sessionBar' = [sessionBar EXCEPT ![u] = {h}]
    BY <1>0, <2>4, <2>5, View, OneChanges
  <2>7. Service!Login(h, u)
    BY <1>1, <1>2, <1>3, <2>2, <2>3, <2>6 DEF Service!Login
  <2> QED
    BY <1>0, <2>7 DEF Implements, Service!Next
<1> QED
  BY <1>4, <1>5

\* logoutUser ends the session activeUsers has for the user.
LEMMA LogoutSim ==
  ASSUME RefinementInv, NEW h \in Handlers, Logout(h), UNCHANGED transport
  PROVE  Implements
<1> DEFINE u == username[h]
<1>0. /\ activeUsers \in [Users -> Ids \cup {Null}] /\ pc \in [Handlers -> Step]
      /\ u \in Users /\ pc[h] = "logout" /\ Joined(h)
  BY BusyIds DEF Logout, RefinementInv, TypeInv, BrokerInv, BrokerTypeOK, Equipped
<1>1. StepOf(h) /\ UNCHANGED <<inboxBar, goneBar>> /\ connectionId' = connectionId
  BY SilentView DEF Silent
<1>2. UNCHANGED <<sendingBar, dueBar>>
  <2>1. ~ Sending(h) /\ ~ Sending(h)'
    BY <1>0 DEF Logout, Goto, Sending
  <2> QED
    BY <1>1, <2>1, SendingElsewhere DEF RefinementInv
<1>3. memberBar' = memberBar
  BY <1>1, TablesStay DEF Logout
<1>4. ~ LoggedOut(h) /\ u # Null
  BY <1>0, BusyIds, NullIsNoValue DEF LoggedOut, RefinementInv
<1>5. activeUsers[u] = connectionId[h]
  BY <1>4 DEF RefinementInv, SessionInv, SessionAgrees
<1>6. activeUsers' = [activeUsers EXCEPT ![u] = Null]
  BY DEF Logout
<1> HIDE DEF u
<1>7. h \in sessionBar[u]
  BY <1>0, <1>5, View
<1>8. \A v \in Users \ {u} : sessionBar'[v] = sessionBar[v]
  BY <1>0, <1>1, <1>6, SessionElsewhere
<1>9. sessionBar'[u] = {}
  BY <1>0, <1>1, <1>6, View DEF Joined
<1>10. sessionBar' = [sessionBar EXCEPT ![u] = {}]
  BY <1>0, <1>8, <1>9, View, OneChanges
<1>11. Service!Logout(h, u)
  BY <1>1, <1>2, <1>3, <1>7, <1>10 DEF Service!Logout
<1> QED
  BY <1>0, <1>11 DEF Implements, Service!Next

\* One connection is put into one list, or taken out of it.
LEMMA MemberChanges ==
  ASSUME NEW h \in Handlers, NEW d \in Channels, connectionId' = connectionId,
         \A g \in Handlers : connectionId[g] = connectionId[h] => g = h,
         \A ch \in Channels \ {d} : channels'[ch] = channels[ch],
         \A i : i # connectionId[h] => (i \in ToSet(channels'[d]) <=> i \in ToSet(channels[d]))
  PROVE  /\ connectionId[h] \in ToSet(channels'[d]) =>
              memberBar' = [memberBar EXCEPT ![h] = @ \cup {d}]
         /\ connectionId[h] \notin ToSet(channels'[d]) =>
              memberBar' = [memberBar EXCEPT ![h] = @ \ {d}]
<1>1. ASSUME NEW g \in Handlers, NEW ch \in Channels, g # h \/ ch # d
      PROVE  Listed(g, ch)' <=> Listed(g, ch)
  BY <1>1 DEF Listed
<1>2. ASSUME NEW g \in Handlers \ {h}
      PROVE  memberBar'[g] = memberBar[g]
  <2>1. \A ch : ch \in memberBar'[g] <=> ch \in memberBar[g]
    BY <1>1, View
  <2> QED
    BY <2>1
<1>3. Listed(h, d)' <=> connectionId[h] \in ToSet(channels'[d])
  BY DEF Listed
<1>4. ASSUME Listed(h, d)'
      PROVE  memberBar'[h] = memberBar[h] \cup {d}
  <2>1. \A ch : ch \in memberBar'[h] <=> ch \in memberBar[h] \cup {d}
    BY <1>1, <1>4, View
  <2> QED
    BY <2>1
<1>5. ASSUME ~ Listed(h, d)'
      PROVE  memberBar'[h] = memberBar[h] \ {d}
  <2>1. \A ch : ch \in memberBar'[h] <=> ch \in memberBar[h] \ {d}
    BY <1>1, <1>5, View
  <2> QED
    BY <2>1
<1>6. \A v : memberBar'[h] = v => memberBar' = [memberBar EXCEPT ![h] = v]
  BY <1>2, View, OneChanges
<1> QED
  BY <1>3, <1>4, <1>5, <1>6

\* Who subscribes is logged in and not in the list.
LEMMA SubscribeSim ==
  ASSUME RefinementInv, NEW h \in Handlers, Subscribe(h), UNCHANGED transport
  PROVE  Implements
<1> DEFINE d == frame[h].destination
<1>0. /\ channels \in [Channels -> Seq(Ids)] /\ pc \in [Handlers -> Step]
      /\ pc[h] = "process" /\ d \in Channels /\ d \notin SubscribedTo(h) /\ username[h] # Null
  BY HandledFrame DEF Subscribe, Handles, Refused, RefinementInv, TypeInv, BrokerInv, BrokerTypeOK
<1>1. StepOf(h) /\ UNCHANGED <<inboxBar, goneBar>> /\ connectionId' = connectionId
  BY SilentView DEF Silent
<1>2. UNCHANGED <<sendingBar, dueBar>>
  <2>1. ~ Sending(h) /\ ~ Sending(h)'
    BY <1>0 DEF Subscribe, Answer, Goto, Sending
  <2> QED
    BY <1>1, <2>1, SendingElsewhere DEF RefinementInv
<1>3. sessionBar' = sessionBar
  BY <1>1, TablesStay DEF Subscribe
<1>4. /\ Joined(h) /\ connections[connectionId[h]] = h /\ connectionId[h] \in Ids
      /\ \A g \in Handlers : connectionId[g] = connectionId[h] => g = h
  BY <1>0, BusyIds, JoinedIds DEF RefinementInv
<1>5. \E u \in Users : h \in sessionBar[u]
  <2>1. ~ LoggedOut(h) /\ username[h] \in Users
    BY <1>0, <1>4 DEF LoggedOut, RefinementInv, TypeInv, BrokerInv, BrokerTypeOK
  <2>2. activeUsers[username[h]] = connectionId[h]
    BY <1>0, <2>1 DEF RefinementInv, SessionInv, SessionAgrees
  <2> QED
    BY <1>4, <2>1, <2>2, View
<1>6. channels' = [channels EXCEPT ![d] = Append(@, connectionId[h])]
  BY DEF Subscribe
<1> HIDE DEF d
<1>7. connectionId[h] \notin ToSet(channels[d])
  BY <1>0, <1>4 DEF RefinementInv, MembershipInv, ListsAgree, Listed
<1>8. d \notin memberBar[h]
  BY <1>7, View DEF Listed
<1>9. /\ ToSet(channels'[d]) = ToSet(channels[d]) \cup {connectionId[h]}
      /\ \A ch \in Channels \ {d} : channels'[ch] = channels[ch]
  BY <1>0, <1>4, <1>6, <1>7, AppendListed
<1>10. memberBar' = [memberBar EXCEPT ![h] = @ \cup {d}]
  BY <1>0, <1>1, <1>4, <1>9, MemberChanges
<1>11. Service!Subscribe(h, d)
  BY <1>1, <1>2, <1>3, <1>5, <1>8, <1>10 DEF Service!Subscribe
<1> QED
  BY <1>0, <1>11 DEF Implements, Service!Next

\* A connection is taken out of a list it may be in.
LEMMA RemoveSim ==
  ASSUME RefinementInv, NEW h \in Handlers, NEW d \in Channels, Joined(h),
         connectionId' = connectionId,
         channels' = [channels EXCEPT ![d] = RemoveFirst(@, connectionId[h])],
         UNCHANGED <<sessionBar, sendingBar, dueBar, inboxBar, goneBar>>
  PROVE  Implements
<1>0. channels \in [Channels -> Seq(Ids)]
  BY DEF RefinementInv, TypeInv, BrokerInv, BrokerTypeOK
<1>1. Once(channels[d], connectionId[h])
  BY DEF RefinementInv, MembershipInv, ListsAgree
<1>2. /\ ToSet(channels'[d]) = ToSet(channels[d]) \ {connectionId[h]}
      /\ \A ch \in Channels \ {d} : channels'[ch] = channels[ch]
  BY <1>0, <1>1, RemoveListed
<1>3. \A g \in Handlers : connectionId[g] = connectionId[h] => g = h
  BY JoinedIds DEF RefinementInv
<1>4. memberBar' = [memberBar EXCEPT ![h] = @ \ {d}]
  BY <1>2, <1>3, MemberChanges
<1>5. CASE d \in memberBar[h]
  <2>1. Service!Unsubscribe(h, d)
    BY <1>4, <1>5 DEF Service!Unsubscribe
  <2> QED
    BY <2>1 DEF Implements, Service!Next
<1>6. CASE d \notin memberBar[h]
  <2>1. memberBar[h] \ {d} = memberBar[h]
    BY <1>6
  <2>2. memberBar' = memberBar
    BY <1>4, <2>1, View
  <2> QED
    BY <2>2, StutterSim
<1> QED
  BY <1>5, <1>6

\* On request,
LEMMA UnsubscribeSim ==
  ASSUME RefinementInv, NEW h \in Handlers, Unsubscribe(h), UNCHANGED transport
  PROVE  Implements
<1> DEFINE d == subscriptions[h][frame[h].id]
<1>0. /\ pc \in [Handlers -> Step] /\ pc[h] = "process" /\ d \in Channels
      /\ channels' = [channels EXCEPT ![d] = RemoveFirst(@, connectionId[h])]
  BY HandledFrame DEF Unsubscribe, Handles, RefinementInv, TypeInv, BrokerInv, BrokerTypeOK
<1>1. StepOf(h) /\ UNCHANGED <<inboxBar, goneBar>> /\ connectionId' = connectionId
  BY SilentView DEF Silent
<1>2. UNCHANGED <<sendingBar, dueBar>>
  <2>1. ~ Sending(h) /\ ~ Sending(h)'
    BY <1>0 DEF Unsubscribe, Answer, Goto, Sending
  <2> QED
    BY <1>1, <2>1, SendingElsewhere DEF RefinementInv
<1>3. sessionBar' = sessionBar
  BY <1>1, TablesStay DEF Unsubscribe
<1> HIDE DEF d
<1>4. Joined(h)
  BY <1>0, BusyIds DEF RefinementInv
<1> QED
  BY <1>0, <1>1, <1>2, <1>3, <1>4, RemoveSim

\* and while logging out.
LEMMA CleanSim ==
  ASSUME RefinementInv, NEW h \in Handlers, NEW d \in Channels, Clean(h, d), UNCHANGED transport
  PROVE  Implements
<1>0. pc[h] = "clean" /\ leaving[h] = connectionId[h] /\ Joined(h)
  BY BusyIds DEF Clean, RefinementInv, SessionInv, PlaceOfProtocol
<1>1. StepOf(h) /\ UNCHANGED <<inboxBar, goneBar>> /\ connectionId' = connectionId
  BY SilentView DEF Silent
<1>2. UNCHANGED <<sendingBar, dueBar>>
  <2>1. ~ Sending(h) /\ ~ Sending(h)'
    BY <1>0 DEF Clean, Sending
  <2> QED
    BY <1>1, <2>1, SendingElsewhere DEF RefinementInv
<1>3. sessionBar' = sessionBar
  BY <1>1, TablesStay DEF Clean
<1>4. channels' = [channels EXCEPT ![d] = RemoveFirst(@, connectionId[h])]
  BY <1>0 DEF Clean
<1> QED
  BY <1>0, <1>1, <1>2, <1>3, <1>4, RemoveSim

\* Steps of the protocol that none of the six tells of.
LEMMA QuietSim ==
  ASSUME RefinementInv, NEW h \in Handlers, Refuse(h) \/ Register(h) \/ Farewell(h),
         UNCHANGED transport
  PROVE  Implements
<1>0. pc \in [Handlers -> Step]
  BY DEF RefinementInv, TypeInv, BrokerInv, BrokerTypeOK
<1>1. StepOf(h) /\ UNCHANGED <<inboxBar, goneBar>>
  BY SilentView DEF Silent
<1>2. ~ Sending(h) /\ ~ Sending(h)' /\ UNCHANGED <<activeUsers, channels>>
  BY <1>0 DEF Refuse, Register, Farewell, Handles, Answer, Goto, Sending, tables
<1>3. UNCHANGED <<sendingBar, dueBar>>
  BY <1>1, <1>2, SendingElsewhere DEF RefinementInv
<1> QED
  BY <1>1, <1>2, <1>3, TablesStay, StutterSim

\* The list that is copied is the membership at that time.
LEMMA SnapshotSim ==
  ASSUME RefinementInv, NEW h \in Handlers, Snapshot(h), UNCHANGED transport
  PROVE  Implements
<1> DEFINE d == frame[h].destination
<1>0. /\ pc \in [Handlers -> Step] /\ todo \in [Handlers -> Seq(Ids)]
      /\ pc[h] = "process" /\ d \in Channels /\ d \in SubscribedTo(h)
      /\ pc' = [pc EXCEPT ![h] = "fanout"] /\ todo' = [todo EXCEPT ![h] = channels[d]]
      /\ frame' = frame /\ target' = target
  BY HandledFrame
     DEF Snapshot, Handles, Goto, Refused, RefinementInv, TypeInv, BrokerInv, BrokerTypeOK
<1>1. StepOf(h) /\ UNCHANGED <<inboxBar, goneBar>> /\ connectionId' = connectionId
  BY SilentView DEF Silent
<1>2. UNCHANGED <<sessionBar, memberBar>>
  BY <1>1, TablesStay DEF Snapshot, tables
<1>3. target[h] = Null
  BY <1>0 DEF RefinementInv, DeliveryInv, FanoutKnown
<1> HIDE DEF d
<1>4. d \in memberBar[h]
  <2>1. Joined(h)
    BY <1>0, BusyIds DEF RefinementInv
  <2>2. Listed(h, d)
    BY <1>0, <2>1 DEF RefinementInv, MembershipInv, ListsAgree
  <2> QED
    BY <1>0, <2>2, View
<1>5. sendingBar[h] = Null /\ sendingBar'[h] = d
  BY <1>0, SendingView DEF Sending, d
<1>6. dueBar'[h] = {r \in Handlers : d \in memberBar[r]}
  <2>1. /\ Sending(h)' /\ todo'[h] = channels[d]
        /\ \A g \in Handlers : g # target'[h]
    BY <1>0, <1>3, NullIsNoValue DEF Sending
  <2>2. dueBar'[h] = {g \in Handlers : connectionId[g] \in ToSet(channels[d])}
    BY <1>1, <2>1, SendingView
  <2> QED
    BY <1>0, <2>2, View DEF Listed
<1>7. /\ sendingBar' = [sendingBar EXCEPT ![h] = d]
      /\ dueBar' = [dueBar EXCEPT ![h] = {r \in Handlers : d \in memberBar[r]}]
  BY <1>1, <1>5, <1>6, SendingElsewhere DEF RefinementInv
<1>8. Service!Publish(h, d)
  BY <1>1, <1>2, <1>4, <1>5, <1>7 DEF Service!Publish
<1> QED
  BY <1>0, <1>8 DEF Implements, Service!Next

\* A list that is at its end has nobody left.
LEMMA EndOfSendSim ==
  ASSUME RefinementInv, NEW h \in Handlers, EndOfSend(h), UNCHANGED transport
  PROVE  Implements
<1>0. /\ pc \in [Handlers -> Step] /\ pc[h] = "fanout" /\ pc' = [pc EXCEPT ![h] = "reply"]
      /\ todo[h] = <<>> /\ frame[h].destination \in Channels
  BY DEF EndOfSend, Answer, Goto, RefinementInv, TypeInv, BrokerInv, BrokerTypeOK, FrameKept
<1>1. StepOf(h) /\ UNCHANGED <<inboxBar, goneBar>>
  BY SilentView DEF Silent
<1>2. UNCHANGED <<sessionBar, memberBar>>
  BY <1>1, TablesStay DEF EndOfSend, tables
<1>3. target[h] = Null
  BY <1>0 DEF RefinementInv, DeliveryInv, FanoutKnown
<1>4. sendingBar[h] # Null /\ dueBar[h] = {}
  <2>1. Sending(h) /\ ToSet(todo[h]) = {} /\ \A g \in Handlers : g # target[h]
    BY <1>0, <1>3, NullIsNoValue DEF Sending, ToSet
  <2>2. sendingBar[h] # Null
    BY <1>0, <2>1, NullIsNoValue, SendingView
  <2>3. dueBar[h] = {}
    BY <2>1, SendingView
  <2> QED
    BY <2>2, <2>3
<1>5. sendingBar'[h] = Null /\ dueBar'[h] = {}
  BY <1>0, SendingView DEF Sending
<1>6. sendingBar' = [sendingBar EXCEPT ![h] = Null] /\ dueBar' = [dueBar EXCEPT ![h] = {}]
  BY <1>1, <1>5, SendingElsewhere DEF RefinementInv
<1>7. dueBar' = dueBar
  BY <1>4, <1>6, SendingView
<1>8. Service!Done(h)
  BY <1>1, <1>2, <1>4, <1>6, <1>7 DEF Service!Done
<1> QED
  BY <1>8 DEF Implements, Service!Next

\* Who is found in the map is due as before; who is not found is gone.
LEMMA VisitSim ==
  ASSUME RefinementInv, NEW h \in Handlers, Visit(h), UNCHANGED transport
  PROVE  Implements
<1> DEFINE i == Head(todo[h])
           r == Tail(todo[h])
           g == connections[i]
<1>0. /\ pc \in [Handlers -> Step] /\ todo \in [Handlers -> Seq(Ids)]
      /\ target \in [Handlers -> Handlers \cup {Null}]
      /\ connections \in [Ids -> Handlers \cup {Null}]
  BY DEF RefinementInv, TypeInv, BrokerInv, BrokerTypeOK
<1>1. /\ pc[h] = "fanout" /\ todo[h] # <<>> /\ todo[h] \in Seq(Ids)
      /\ todo' = [todo EXCEPT ![h] = r] /\ target' = [target EXCEPT ![h] = g]
      /\ pc' = [pc EXCEPT ![h] = IF g = Null THEN "fanout" ELSE "deliver"]
      /\ frame' = frame
  BY <1>0 DEF Visit, Goto
<1>2. /\ StepOf(h) /\ UNCHANGED <<inboxBar, goneBar>>
      /\ connectionId' = connectionId /\ connections' = connections
  BY SilentView DEF Silent
<1>3. UNCHANGED <<sessionBar, memberBar>>
  BY <1>2, TablesStay DEF Visit, tables
<1>4. /\ i \in Ids /\ ToSet(todo[h]) = ToSet(r) \cup {i}
      /\ Once(todo[h], i) => i \notin ToSet(r)
  BY <1>1, TailListed
<1>5. target[h] = Null /\ i # Null /\ g \in Handlers \cup {Null}
  BY <1>0, <1>1, <1>4, NullIsNoValue DEF RefinementInv, DeliveryInv, FanoutKnown
<1> HIDE DEF i, r, g
<1>6. Sending(h) /\ Sending(h)' /\ todo'[h] = r /\ target'[h] = g
  BY <1>0, <1>1 DEF Sending
<1>7. sendingBar' = sendingBar
  <2>1. sendingBar'[h] = sendingBar[h]
    BY <1>1, <1>6, SendingView
  <2>2. sendingBar' = [sendingBar EXCEPT ![h] = sendingBar[h]]
    BY <1>2, <2>1, SendingElsewhere DEF RefinementInv
  <2> QED
    BY <2>2, SendingView
<1>8. /\ \A x : x \in dueBar[h] <=>
                  x \in Handlers /\ (connectionId[x] \in ToSet(r) \/ connectionId[x] = i)
      /\ \A x : x \in dueBar'[h] <=>
                  x \in Handlers /\ (connectionId[x] \in ToSet(r) \/ x = g)
  <2>1. Null \notin Handlers
    BY NullIsNoValue
  <2> QED
    BY <1>2, <1>4, <1>5, <1>6, <2>1, SendingView
<1>9. ASSUME dueBar'[h] = dueBar[h]
      PROVE  Implements
  <2>1. dueBar' = [dueBar EXCEPT ![h] = dueBar[h]]
    BY <1>2, <1>9, SendingElsewhere DEF RefinementInv
  <2>2. dueBar' = dueBar
    BY <2>1, SendingView
  <2> QED
    BY <1>2, <1>3, <1>7, <2>2, StutterSim
<1>10. ASSUME NEW x \in Handlers, connectionId[x] = i
       PROVE  Joined(x) /\ \A y \in Handlers : connectionId[y] = i => y = x
  <2>1. Joined(x)
    BY <1>5, <1>10 DEF Joined
  <2> QED
    BY <1>10, <2>1, JoinedIds DEF RefinementInv
<1>11. CASE g # Null
  <2>1. g \in Handlers /\ connectionId[g] = i
    BY <1>4, <1>5, <1>11 DEF RefinementInv, DeliveryInv, HandlersKnown, g
  <2>2. \A x \in Handlers : connectionId[x] = i <=> x = g
    BY <1>10, <2>1
  <2>3. dueBar'[h] = dueBar[h]
    <3>1. \A x : x \in dueBar'[h] <=> x \in dueBar[h]
      BY <1>8, <2>2
    <3> QED
      BY <3>1
  <2> QED
    BY <1>9, <2>3
<1>12. CASE g = Null /\ ~ \E x \in Handlers : connectionId[x] = i
  <2>1. dueBar'[h] = dueBar[h]
    <3>1. \A x : x \in dueBar'[h] <=> x \in dueBar[h]
      BY <1>8, <1>12, NullIsNoValue
    <3> QED
      BY <3>1
  <2> QED
    BY <1>9, <2>1
<1>13. CASE g = Null /\ \E x \in Handlers : connectionId[x] = i
  <2>1. PICK x \in Handlers : connectionId[x] = i
    BY <1>13
  <2>2. Joined(x) /\ \A y \in Handlers : connectionId[y] = i => y = x
    BY <1>10, <2>1
  <2>3. pc[x] # "off"
    BY <2>2, JoinedIds DEF RefinementInv
  <2>4. x \in goneBar
    <3>1. connections[connectionId[x]] # x
      BY <1>13, <2>1, NullIsNoValue DEF g
    <3> QED
      BY <2>2, <2>3, <3>1 DEF RefinementInv, DeliveryInv, SocketsKnown, goneBar
  <2>5. i \notin ToSet(r)
    <3>1. Once(todo[h], i)
      BY <1>6, <2>1, <2>2 DEF RefinementInv, DeliveryInv, FanoutKnown
    <3> QED
      BY <1>4, <3>1
  <2>6. dueBar'[h] = dueBar[h] \ {x}
    <3>1. \A y : y \in dueBar'[h] <=> y \in dueBar[h] \ {x}
      BY <1>8, <1>13, <2>1, <2>2, <2>5, NullIsNoValue
    <3> QED
      BY <3>1
  <2>7. dueBar' = [dueBar EXCEPT ![h] = @ \ {x}]
    BY <1>2, <2>6, SendingElsewhere DEF RefinementInv
  <2>8. x \in dueBar[h]
    BY <1>8, <2>1
  <2>9. Service!Skip(h, x)
    BY <1>2, <1>3, <1>7, <2>4, <2>7, <2>8 DEF Service!Skip
  <2> QED
    BY <2>9 DEF Implements, Service!Next
<1> QED
  BY <1>11, <1>12, <1>13

\* A write reaches a connection that is there, and only one that is gone is missed.
LEMMA DeliverSim ==
  ASSUME RefinementInv, NEW h \in Handlers, Deliver(h)
  PROVE  Implements
<1> DEFINE g == target[h]
           m == MessageOf(h)
           ch == frame[h].destination
<1>0. /\ pc \in [Handlers -> Step] /\ target \in [Handlers -> Handlers \cup {Null}]
      /\ pc[h] = "deliver" /\ pc' = [pc EXCEPT ![h] = "fanout"]
      /\ target' = [target EXCEPT ![h] = Null] /\ g \in Handlers
      /\ connectionId[h] \in Ids /\ ch \in Channels
      /\ Write(g, m) /\ m \in ServerFrame
  BY MessageType
     DEF Deliver, Delivered, Goto, RefinementInv, TypeInv, BrokerInv, BrokerTypeOK, Equipped,
         FrameKept
<1>1. StepOf(h) /\ IdsGrow
  BY IdsNext DEF StepOf, ThreadStep, RefinementInv
<1>2. UNCHANGED <<sessionBar, memberBar>> /\ UNCHANGED <<frame, todo, connectionId, open, clientUp>>
  BY <1>1, TablesStay DEF Deliver, Delivered, tables, Write
<1>3. Joined(g) /\ connectionId[g] \notin ToSet(todo[h]) /\ g # Null
  BY <1>0, NullIsNoValue DEF RefinementInv, DeliveryInv, FanoutKnown
<1>4. goneBar' = goneBar
  BY <1>0, <1>2, GoneStays
<1> HIDE DEF g, m, ch
<1>5. \/ /\ g \notin goneBar
         /\ inboxBar' = [inboxBar EXCEPT ![g] = Append(@, SentIn(connectionId', m))]
      \/ /\ g \in goneBar
         /\ inboxBar' = inboxBar
  BY <1>0, <1>1, <1>3, WriteView DEF RefinementInv, DeliveryInv
<1>6. SentIn(connectionId', m) = [from |-> h, destination |-> ch]
  <2>1. m.command = "MESSAGE" /\ m.messageId = connectionId[h] /\ m.destination = ch
    BY DEF m, MessageOf, ch
  <2>2. Joined(h)
    BY <1>0, NullIsNoValue DEF Joined
  <2>3. \A x \in Handlers : connectionId[x] = connectionId[h] => x = h
    BY <2>2, JoinedIds DEF RefinementInv
  <2> QED
    BY <1>2, <2>1, <2>3, SentBy
<1>7. Sending(h) /\ Sending(h)' /\ target[h] = g /\ target'[h] = Null
  BY <1>0 DEF Sending, g
<1>8. sendingBar[h] = ch /\ sendingBar' = sendingBar
  <2>1. sendingBar[h] = ch /\ sendingBar'[h] = sendingBar[h]
    BY <1>2, <1>7, SendingView DEF ch
  <2>2. sendingBar' = [sendingBar EXCEPT ![h] = sendingBar[h]]
    BY <1>1, <2>1, SendingElsewhere DEF RefinementInv
  <2> QED
    BY <2>1, <2>2, SendingView
<1>9. g \in dueBar[h] /\ dueBar' = [dueBar EXCEPT ![h] = @ \ {g}]
  <2>1. /\ \A x : x \in dueBar[h] <=>
                    x \in Handlers /\ (connectionId[x] \in ToSet(todo[h]) \/ x = g)
        /\ \A x : x \in dueBar'[h] <=> x \in Handlers /\ connectionId[x] \in ToSet(todo[h])
    <3>1. Null \notin Handlers
      BY NullIsNoValue
    <3> QED
      BY <1>2, <1>7, <3>1, SendingView
  <2>2. \A x : x \in dueBar'[h] <=> x \in dueBar[h] \ {g}
    BY <1>3, <2>1
  <2>3. dueBar'[h] = dueBar[h] \ {g}
    BY <2>2
  <2>4. dueBar' = [dueBar EXCEPT ![h] = @ \ {g}]
    BY <1>1, <2>3, SendingElsewhere DEF RefinementInv
  <2> QED
    BY <1>0, <2>1, <2>4
<1>10. CASE g \notin goneBar
  <2>1. inboxBar' = [inboxBar EXCEPT
                       ![g] = Append(@, [from |-> h, destination |-> sendingBar[h]])]
    BY <1>5, <1>6, <1>8, <1>10
  <2>2. Service!Deliver(h, g)
    BY <1>2, <1>4, <1>8, <1>9, <1>10, <2>1 DEF Service!Deliver
  <2> QED
    BY <1>0, <2>2 DEF Implements, Service!Next
<1>11. CASE g \in goneBar
  <2>1. Service!Skip(h, g)
    BY <1>2, <1>4, <1>5, <1>8, <1>9, <1>11 DEF Service!Skip
  <2> QED
    BY <1>0, <2>1 DEF Implements, Service!Next
<1> QED
  BY <1>10, <1>11

\* A frame that is no message is written, or nothing is.
LEMMA NoticeSim ==
  ASSUME RefinementInv, NEW h \in Handlers, StepOf(h),
         NEW g \in Handlers, Joined(g), NEW m \in ServerFrame, m.command # "MESSAGE",
         Write(g, m),
         UNCHANGED <<sessionBar, memberBar, sendingBar, dueBar, goneBar>>
  PROVE  Implements
<1>1. \/ /\ g \notin goneBar
         /\ inboxBar' = [inboxBar EXCEPT ![g] = Append(@, SentIn(connectionId', m))]
      \/ inboxBar' = inboxBar
  BY IdsNext, WriteView DEF RefinementInv, DeliveryInv
<1>2. SentIn(connectionId', m) = Null
  BY DEF SentIn
<1>3. CASE inboxBar' = inboxBar
  BY <1>3, StutterSim
<1>4. CASE inboxBar' # inboxBar
  <2>1. Service!Notify(g)
    BY <1>1, <1>2, <1>4 DEF Service!Notify
  <2> QED
    BY <2>1 DEF Implements, Service!Next
<1> QED
  BY <1>3, <1>4

\* The receipt of a DISCONNECT, and the answer to a frame.
LEMMA ReceiptSim ==
  ASSUME RefinementInv, NEW h \in Handlers, SendReceipt(h)
  PROVE  Implements
<1>0. /\ pc \in [Handlers -> Step] /\ target \in [Handlers -> Handlers \cup {Null}]
      /\ pc[h] = "receipt" /\ pc' = [pc EXCEPT ![h] = "logout"] /\ frame[h] \in Frames
  BY DEF SendReceipt, Receipted, Goto, RefinementInv, TypeInv, BrokerInv, BrokerTypeOK,
         FrameKept
<1>1. StepOf(h)
  BY DEF StepOf, ThreadStep
<1>2. UNCHANGED <<sessionBar, memberBar>> /\ UNCHANGED <<open, clientUp>>
  BY <1>1, TablesStay DEF SendReceipt, Receipted, tables, Write, transport
<1>3. goneBar' = goneBar
  BY <1>0, <1>2, GoneStays
<1>4. UNCHANGED <<sendingBar, dueBar>>
  <2>1. ~ Sending(h) /\ ~ Sending(h)'
    BY <1>0 DEF Sending
  <2> QED
    BY <1>1, <2>1, SendingElsewhere DEF RefinementInv
<1>5. CASE Null \in {target[h], Receipt(h)}
  <2>1. outbox' = outbox
    BY <1>5 DEF SendReceipt, transport
  <2> QED
    BY <1>1, <1>2, <1>3, <1>4, <2>1, TablesStay, StutterSim
<1>6. CASE Null \notin {target[h], Receipt(h)}
  <2>1. target[h] \in Handlers /\ Joined(target[h])
    BY <1>0, <1>6 DEF RefinementInv, DeliveryInv, FanoutKnown
  <2>2. Receipt(h) \in ServerFrame
    BY <1>0, <1>6, ReceiptType DEF RefinementInv, TypeInv
  <2>3. Receipt(h).command # "MESSAGE"
    BY <1>6 DEF Receipt
  <2>4. Write(target[h], Receipt(h))
    BY <1>6 DEF SendReceipt
  <2> QED
    BY <1>1, <1>2, <1>3, <1>4, <2>1, <2>2, <2>3, <2>4, NoticeSim
<1> QED
  BY <1>5, <1>6

LEMMA ReplySim ==
  ASSUME RefinementInv, NEW h \in Handlers, Reply(h)
  PROVE  Implements
<1>0. /\ pc \in [Handlers -> Step] /\ reply \in [Handlers -> ServerFrame \cup {Null}]
      /\ pc[h] = "reply" /\ pc' = [pc EXCEPT ![h] = "read"]
  BY DEF Reply, Goto, RefinementInv, TypeInv, BrokerInv, BrokerTypeOK
<1>1. StepOf(h)
  BY DEF StepOf, ThreadStep
<1>2. UNCHANGED <<sessionBar, memberBar>> /\ UNCHANGED <<open, clientUp>>
  BY <1>1, TablesStay DEF Reply, tables, Write, transport
<1>3. goneBar' = goneBar
  BY <1>0, <1>2, GoneStays
<1>4. UNCHANGED <<sendingBar, dueBar>>
  <2>1. ~ Sending(h) /\ ~ Sending(h)'
    BY <1>0 DEF Sending
  <2> QED
    BY <1>1, <2>1, SendingElsewhere DEF RefinementInv
<1>5. CASE reply[h] = Null
  <2>1. outbox' = outbox
    BY <1>5 DEF Reply, transport
  <2> QED
    BY <1>1, <1>2, <1>3, <1>4, <2>1, TablesStay, StutterSim
<1>6. CASE reply[h] # Null
  <2>1. Joined(h) /\ reply[h] \in ServerFrame
    BY <1>0, <1>6 DEF RefinementInv, SessionInv, Registered, Joined
  <2>2. reply[h].command # "MESSAGE" /\ Write(h, reply[h])
    BY <1>6 DEF Reply, RefinementInv, DeliveryInv, SendersKnown
  <2> QED
    BY <1>1, <1>2, <1>3, <1>4, <2>1, <2>2, NoticeSim
<1> QED
  BY <1>5, <1>6

\* A connection ends: the server closes it, its thread does, or its client.
LEMMA LeaveSim ==
  ASSUME RefinementInv, NEW h \in Handlers, Close(h) \/ Exit(h) \/ ClientDrop(h)
  PROVE  Implements
<1>0. /\ pc \in [Handlers -> Step]
      /\ open \in [Handlers -> BOOLEAN] /\ clientUp \in [Handlers -> BOOLEAN]
  BY DEF RefinementInv, TypeInv, TransportTypeOK, BrokerInv, BrokerTypeOK
<1>1. StepOf(h) /\ IdsGrow
  BY IdsNext DEF StepOf, ThreadStep, RefinementInv
<1>2. UNCHANGED <<sessionBar, memberBar>>
  BY <1>1, TablesStay DEF Close, Unregister, Exit, ClientDrop, tables, brokerVars
<1>3. UNCHANGED <<sendingBar, dueBar>>
  <2>1. \/ ~ Sending(h) /\ ~ Sending(h)'
        \/ UNCHANGED <<pc, frame, todo, target>>
    BY <1>0 DEF Close, Unregister, Exit, ClientDrop, Answer, Goto, Sending, brokerVars, locals
  <2> QED
    BY <1>1, <2>1, SendingElsewhere DEF RefinementInv
<1>4. /\ pc[h] # "off" /\ pc'[h] # "off" /\ ~ (open'[h] /\ clientUp'[h])
      /\ \A g \in Handlers \ {h} : /\ pc'[g] = pc[g] /\ open'[g] = open[g]
                                   /\ clientUp'[g] = clientUp[g]
  <2>1. CASE Exit(h)
    BY <1>0, <2>1 DEF Exit, Goto
  <2>2. CASE ClientDrop(h)
    BY <1>0, <2>2 DEF ClientDrop, brokerVars, RefinementInv, DeliveryInv, SocketsKnown
  <2>3. CASE Close(h)
    <3>1. pc[h] = "clean" /\ connections[connectionId[h]] = h /\ leaving[h] = connectionId[h]
      BY <2>3, BusyIds DEF Close, Unregister, RefinementInv, SessionInv, PlaceOfProtocol
    <3>2. connectionId[h] # Null
      BY <3>1, BusyIds DEF Joined, RefinementInv
    <3>3. Evicted(h) = h /\ open' = [open EXCEPT ![h] = FALSE] /\ clientUp' = clientUp
      BY <2>3, <3>1, <3>2, NullIsNoValue DEF Close, Evicted
    <3> QED
      BY <1>0, <2>3, <3>1, <3>3 DEF Close, Unregister, Answer, Goto
  <2> QED
    BY <2>1, <2>2, <2>3
<1>5. goneBar' = goneBar \cup {h}
  <2>1. \A g : g \in goneBar' <=> g \in goneBar \cup {h}
    BY <1>4 DEF goneBar
  <2> QED
    BY <2>1
<1>6. inboxBar' = inboxBar \/ inboxBar' = [inboxBar EXCEPT ![h] = <<>>]
  <2>1. CASE outbox' = outbox
    BY <1>1, <2>1, TablesStay
  <2>2. CASE outbox' = [outbox EXCEPT ![h] = <<>>]
    BY <1>1, <2>2, InboxLost DEF RefinementInv, DeliveryInv
  <2> QED
    BY <2>1, <2>2 DEF Close, Exit, ClientDrop
<1>7. Service!Leave(h)
  BY <1>2, <1>3, <1>5, <1>6 DEF Service!Leave
<1> QED
  BY <1>7 DEF Implements, Service!Next

\* A client reads what it was sent first.
LEMMA ReadSim ==
  ASSUME RefinementInv, NEW h \in Handlers, ClientRead(h)
  PROVE  Implements
<1>1. StepOf(h) /\ IdsGrow
  BY IdsNext DEF StepOf, RefinementInv
<1>2. UNCHANGED <<sessionBar, memberBar, goneBar>>
  BY <1>1, TablesStay, GoneStays DEF ClientRead, brokerVars, tables
<1>3. UNCHANGED <<sendingBar, dueBar>>
  BY <1>1, SendingElsewhere DEF RefinementInv, ClientRead, brokerVars, locals
<1>4. inboxBar[h] # <<>> /\ inboxBar' = [inboxBar EXCEPT ![h] = Tail(@)]
  BY <1>1, InboxTail DEF ClientRead, RefinementInv, DeliveryInv
<1>5. Service!Read(h)
  BY <1>2, <1>3, <1>4 DEF Service!Read
<1> QED
  BY <1>5 DEF Implements, Service!Next

\* Who connects, or sends a frame, changes nothing yet.
LEMMA ArriveSim ==
  ASSUME RefinementInv, NEW h \in Handlers, Accept(h) \/ \E f \in Frames : Receive(h, f)
  PROVE  Implements
<1>0. /\ pc \in [Handlers -> Step]
      /\ open \in [Handlers -> BOOLEAN] /\ clientUp \in [Handlers -> BOOLEAN]
  BY DEF RefinementInv, TypeInv, TransportTypeOK, BrokerInv, BrokerTypeOK
<1>1. StepOf(h)
  BY DEF StepOf
<1>2. UNCHANGED <<sessionBar, memberBar, inboxBar>>
  BY <1>1, TablesStay DEF Accept, Receive, tables
<1>3. UNCHANGED <<sendingBar, dueBar>>
  <2>1. ~ Sending(h) /\ ~ Sending(h)'
    BY <1>0 DEF Accept, Receive, Goto, Sending
  <2> QED
    BY <1>1, <2>1, SendingElsewhere DEF RefinementInv
<1>4. goneBar' = goneBar
  <2>1. CASE Accept(h)
    <3>1. /\ pc[h] = "off" /\ open'[h] /\ clientUp'[h]
          /\ \A g \in Handlers \ {h} : /\ pc'[g] = pc[g] /\ open'[g] = open[g]
                                       /\ clientUp'[g] = clientUp[g]
      BY <1>0, <2>1 DEF Accept, Goto
    <3>2. \A g : g \in goneBar' <=> g \in goneBar
      BY <3>1 DEF goneBar
    <3> QED
      BY <3>2
  <2>2. CASE \E f \in Frames : Receive(h, f)
    BY <1>0, <2>2, GoneStays DEF Receive, Goto
  <2> QED
    BY <2>1, <2>2
<1> QED
  BY <1>2, <1>3, <1>4, StutterSim

\* At the start nobody is there, and then each step is one or none.
LEMMA ServiceStarts == Init => Service!Init
<1> SUFFICES ASSUME Init PROVE Service!Init
  OBVIOUS
<1>1. /\ \A h \in Handlers : /\ connectionId[h] = Null /\ pc[h] = "off" /\ outbox[h] = <<>>
      /\ \A u \in Users : activeUsers[u] = Null
      /\ \A ch \in Channels : channels[ch] = <<>>
  BY DEF Init, BrokerInit
<1>2. \A u \in Users : sessionBar[u] = {}
  BY <1>1, View DEF Joined
<1>3. \A h \in Handlers : memberBar[h] = {}
  BY <1>1, View DEF Listed, ToSet
<1>4. \A h \in Handlers : sendingBar[h] = Null /\ dueBar[h] = {}
  BY <1>1, SendingView DEF Sending
<1>5. \A h \in Handlers : inboxBar[h] = <<>>
  BY <1>1, InboxView
<1>6. goneBar = {}
  BY <1>1 DEF goneBar
<1> QED
  BY <1>2, <1>3, <1>4, <1>5, <1>6, View, SendingView, InboxView DEF Service!Init

LEMMA ServiceNext ==
  ASSUME RefinementInv, [Next]_vars
  PROVE  Implements
<1>1. ASSUME NEW h \in Handlers, StepOf(h)
      PROVE  Implements
  <2>1. CASE Silent(h) /\ UNCHANGED transport
    BY <2>1, QuietSim, LoginSim, LogoutSim, SubscribeSim, UnsubscribeSim, CleanSim, SnapshotSim,
       VisitSim, EndOfSendSim DEF Silent
  <2> QED
    BY <1>1, <2>1, DeliverSim, ReceiptSim, ReplySim, LeaveSim, ReadSim, ArriveSim
       DEF StepOf, ThreadStep
<1>2. CASE UNCHANGED vars
  <2>1. UNCHANGED <<sessionBar, memberBar, sendingBar, dueBar, inboxBar, goneBar>>
    BY <1>2
       DEF vars, brokerVars, tables, locals, transport, sessionBar, memberBar, sendingBar,
           dueBar, inboxBar, goneBar, Sending, Sent
  <2> QED
    BY <2>1, StutterSim
<1> QED
  BY <1>1, <1>2 DEF Next, StepOf

\* The tables, the threads and the sockets implement one session per user
\* and delivery of a message once to each member that stays connected.
THEOREM TpcImplementsService ==
  ASSUME OneChannelPerId
  PROVE  Safety => ImplementsStompService
<1>1. RefinementInv /\ [Next]_vars => [Service!Next]_(Service!vars)
  BY ServiceNext DEF Implements
<1>2. SessionInv /\ TypeInv /\ MembershipInv /\ DeliveryInv => RefinementInv
  BY DEF RefinementInv
<1> QED
  BY <1>1, <1>2, ServiceStarts, TpcSessionInvariant, TpcTypeInvariant, TpcMembershipInvariant,
     TpcDelivery, PTL
     DEF Safety, ImplementsStompService, Service!Safety
==============================================================================
