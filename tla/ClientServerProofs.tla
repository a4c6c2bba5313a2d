------------------------ MODULE ClientServerProofs --------------------------
(***************************************************************************)
(* Two results on the client and the server together, for any number of    *)
(* logins, commands and events: the client closes a connection only when   *)
(* the server has answered its DISCONNECT, and when a session is quiet the *)
(* two sides agree on its subscriptions.                                   *)
(*                                                                         *)
(* The first: the server of the composition takes only steps of a          *)
(* TpcServer and the client only steps of a StompClient, so what is proved *)
(* of each holds here.  A receipt the reader finds is an answer: its       *)
(* number was on a frame that the server has taken (Traced), from the      *)
(* frame being processed to the reply or the write, the outbox and the     *)
(* reader; if the connection broke in the middle of the receipt, what the  *)
(* reader holds begins that number (Cuts, ReadsAnswer).  The receipt of a  *)
(* DISCONNECT is made when the session is over, and it stays over.  The    *)
(* reader closes the socket on a number such that it, and every greater    *)
(* one, is on no frame but a DISCONNECT (ClientLogoutNumber).              *)
(*                                                                         *)
(* The second, of a connection that is up (Up): the frames on the wire are *)
(* what the two sides have in common.  The client's map is what the frames *)
(* it has told leave (Records); the server's map and lists are what the    *)
(* frames it has acted upon leave (Mirrors), unless one of them was        *)
(* refused: then an ERROR is in the reply, in the outbox or in the         *)
(* reader's hands until the reader gives the connection up (Refusing).     *)
(* The server takes frame by frame, so it takes what the client told       *)
(* (Reads, Alternates).  In a quiet session all that was told is acted     *)
(* upon.                                                                   *)
(*                                                                         *)
(* The theorems about the server are taken with INSTANCE; its module is    *)
(* instantiated twice then, and the Same lemmas say that the two are one.  *)
(***************************************************************************)
EXTENDS ClientServer, StompClientProofs

S == INSTANCE TpcProofs WITH Handlers <- Objects, Frames <- ClientFrames

\* The server of the composition and the one the theorems are about are one.
LEMMA SameInit == Server!Init = S!Init
BY DEF Server!Init, S!Init, Server!BrokerInit, S!BrokerInit

LEMMA SameAccept == ASSUME NEW p PROVE Server!Accept(p) = S!Accept(p)
BY DEF Server!Accept, S!Accept, Server!Goto, S!Goto

LEMMA SameReceive == ASSUME NEW p, NEW f PROVE Server!Receive(p, f) = S!Receive(p, f)
BY DEF Server!Receive, S!Receive, Server!Goto, S!Goto, Server!tables, S!tables

LEMMA SameRead == ASSUME NEW p PROVE Server!ClientRead(p) = S!ClientRead(p)
BY DEF Server!ClientRead, S!ClientRead, Server!brokerVars, S!brokerVars, Server!tables, S!tables,
       Server!locals, S!locals

LEMMA SameDrop == ASSUME NEW p PROVE Server!ClientDrop(p) = S!ClientDrop(p)
BY DEF Server!ClientDrop, S!ClientDrop, Server!brokerVars, S!brokerVars, Server!tables, S!tables,
       Server!locals, S!locals

LEMMA SameThread == ASSUME NEW p PROVE Server!ThreadStep(p) = S!ThreadStep(p)
BY DEF Server!ThreadStep, S!ThreadStep, Server!Silent, S!Silent, Server!Refuse, S!Refuse,
  Server!Register, S!Register, Server!Login, S!Login, Server!Subscribe, S!Subscribe,
  Server!Unsubscribe, S!Unsubscribe, Server!Snapshot, S!Snapshot, Server!Visit, S!Visit,
  Server!EndOfSend, S!EndOfSend, Server!Farewell, S!Farewell, Server!Logout, S!Logout,
  Server!Clean, S!Clean, Server!Deliver, S!Deliver, Server!Delivered, S!Delivered,
  Server!SendReceipt, S!SendReceipt, Server!Receipted, S!Receipted, Server!Close, S!Close,
  Server!Unregister, S!Unregister, Server!Reply, S!Reply, Server!Exit, S!Exit,
  Server!Write, S!Write, Server!Evicted, S!Evicted, Server!Receipt, S!Receipt,
  Server!MessageOf, S!MessageOf, Server!Answer, S!Answer, Server!Plain, S!Plain,
  Server!Goto, S!Goto, Server!Handles, S!Handles, Server!Throws, S!Throws,
  Server!Refused, S!Refused, Server!SubscribedTo, S!SubscribedTo,
  Server!SubscriptionIds, S!SubscriptionIds, Server!transport, S!transport,
  Server!tables, S!tables, Server!RemoveFirst, S!RemoveFirst,
  Server!RemoveAt, S!RemoveAt, Server!SelectInSeq, S!SelectInSeq, Server!Min, S!Min

LEMMA SameFrames == Server!ServerFrame = S!ServerFrame
BY DEF Server!ServerFrame, S!ServerFrame, Server!Plain, S!Plain, Server!ReceiptFrame,
       S!ReceiptFrame, Server!Message, S!Message

\* What the theorems about the server assume, of this server.
LEMMA ServerKnown ==
  /\ Null \notin Objects \cup Ids \cup Users \cup Passcodes \cup Channels \cup SubIds \cup Receipts
  /\ Ids \subseteq Nat
  /\ Capacity \in Nat /\ MaxFrames \in Nat
  /\ ClientFrames \subseteq S!Frame
<1>1. ClientFrames \subseteq S!Frame
  BY DEF ClientFrames, Garbage, Headers, S!Frame
<1> QED
  BY <1>1, ServerAssumption

\* The invariants of the server's sessions, proved of TpcServer.
THEOREM ServerSession == S!Safety => [](S!SessionInv /\ S!TypeInv)
<1>1. S!Safety => []S!SessionInv
  BY ServerKnown, S!TpcSessionInvariant
<1>2. S!Safety => []S!TypeInv
  BY ServerKnown, S!TpcTypeInvariant
<1> QED
  BY <1>1, <1>2, PTL

\* The server of the composition is a TpcServer.
LEMMA ServerSteps == [NextBoth]_allVars => [S!Next]_(S!vars)
<1> SUFFICES ASSUME [NextBoth]_allVars
             PROVE  [S!Next]_(S!vars)
  OBVIOUS
<1>1. UNCHANGED serverVars => UNCHANGED S!vars
  BY DEF serverVars, S!vars, S!brokerVars, S!tables, S!locals, S!transport
<1>2. CASE UNCHANGED allVars
  BY <1>1, <1>2 DEF allVars
<1>3. CASE ClientOnly
  BY <1>1, <1>3 DEF ClientOnly
<1>4. CASE Typed
  BY <1>3, <1>4, SameAccept DEF Typed, S!Next
<1>5. CASE KeyboardRuns
  BY <1>3, <1>5 DEF KeyboardRuns
<1>6. ASSUME NEW p \in Objects, ReaderRuns(p)
      PROVE  [S!Next]_(S!vars)
  BY <1>3, <1>6, SameRead, SameDrop DEF ReaderRuns, S!Next
<1>7. ASSUME NEW p \in Objects, ServerRuns(p)
      PROVE  [S!Next]_(S!vars)
  BY <1>7, SameReceive, SameThread DEF ServerRuns, ServerReceives, S!Next
<1>8. ASSUME NEW p \in Objects, Killed(p)
      PROVE  [S!Next]_(S!vars)
  BY <1>8, SameDrop DEF Killed, S!Next
<1> QED
  BY <1>2, <1>4, <1>5, <1>6, <1>7, <1>8 DEF NextBoth

\* What is left of a frame of this server is one of the client's messages.
LEMMA RemainsRead ==
  ASSUME S!TypeInv, NEW p \in Objects
  PROVE  Remains(p) \subseteq Messages \cup {Null}
<1>1. CASE outbox[p] = <<>>
  BY <1>1 DEF Remains
<1>2. CASE outbox[p] # <<>>
  <2>1. Head(outbox[p]) \in S!ServerFrame
    BY <1>2 DEF S!TypeInv, S!TransportTypeOK
  <2> QED
    BY <1>2, <2>1, SameFrames, TextAssumption DEF Remains
<1> QED
  BY <1>1, <1>2

\* The client of the composition is a StompClient: this server says nothing
\* that the client's own module does not let a server say.
LEMMA ClientSteps == S!TypeInv /\ [NextBoth]_allVars => [Next]_vars
<1> SUFFICES ASSUME S!TypeInv, [NextBoth]_allVars
             PROVE  [Next]_vars
  OBVIOUS
<1>1. CASE UNCHANGED clientVars
  BY <1>1 DEF clientVars
<1>2. CASE Typed
  BY <1>2 DEF Typed, Next, Command
<1>3. CASE KeyboardRuns
  BY <1>3 DEF KeyboardRuns, Sends, Next, KeyboardStep
<1>4. ASSUME NEW p \in Objects, ReaderRuns(p)
      PROVE  [Next]_vars
  <2>1. CASE outbox[p] # <<>> /\ Get(p, Text(Head(outbox[p])))
    <3>1. Head(outbox[p]) \in S!ServerFrame
      BY <2>1 DEF S!TypeInv, S!TransportTypeOK
    <3>2. Text(Head(outbox[p])) \in Messages
      BY <3>1, SameFrames, TextAssumption
    <3> QED
      BY <2>1, <3>2 DEF Next, ReaderStep
  <2>2. CASE Inside(p) \/ Sends(p) \/ ErrorDone(p) \/ Test(p) \/ HandleOther(p) \/ HandleError(p)
             \/ HandleThrows(p) \/ HandleReceipt(p)
    BY <2>2 DEF Sends, Next, ReaderStep
  <2>3. ASSUME NEW m \in Remains(p), GetFails(p, m)
        PROVE  [Next]_vars
    <3>1. m \in Messages \cup {Null}
      BY <2>3, RemainsRead
    <3> QED
      BY <2>3, <3>1 DEF Next, ReaderStep
  <2> QED
    BY <1>4, <2>1, <2>2, <2>3 DEF ReaderRuns
<1>5. ASSUME NEW p \in Objects, ServerRuns(p) \/ Killed(p)
      PROVE  UNCHANGED clientVars
  BY <1>5 DEF ServerRuns, ServerReceives, Killed
<1> QED
  BY <1>1, <1>2, <1>3, <1>4, <1>5 DEF NextBoth, allVars

\* The client and the server that are joined by the bytes of a connection
\* each behave as their own module says, where the other side is open: so what
\* is proved of a client with any server, and of a server with any clients,
\* holds of the two together.
THEOREM BothImplement == SafetyBoth => S!Safety /\ Safety
<1>1. InitBoth => S!Init /\ Init
  BY SameInit DEF InitBoth
<1>2. SafetyBoth => S!Safety
  BY <1>1, ServerSteps, PTL DEF SafetyBoth, S!Safety
<1>3. SafetyBoth => []S!TypeInv
  BY <1>2, ServerSession, PTL
<1>4. SafetyBoth => Safety
  BY <1>1, <1>3, ClientSteps, PTL DEF SafetyBoth, Safety
<1> QED
  BY <1>2, <1>4
-----------------------------------------------------------------------------
(* A session that is over *)

\* The server has answered the DISCONNECT of p.
Over(p) ==
  \/ pc[p] \in {"logout", "clean", "exited"}
  \/ /\ pc[p] \in {"reply", "read"}
     /\ connectionId[p] # Null
     /\ connections[connectionId[p]] # p

\* Only the connections entry of a new connection becomes a handler.
LEMMA EntriesVanish ==
  ASSUME S!SessionInv, NEW h \in Objects,
         S!Accept(h) \/ S!ThreadStep(h) \/ S!ClientRead(h) \/ S!ClientDrop(h)
         \/ \E f \in ClientFrames : S!Receive(h, f),
         NEW p \in Objects, connectionId[p] # Null
  PROVE  /\ connectionId'[p] = connectionId[p]
         /\ connections[connectionId[p]] # p => connections'[connectionId[p]] # p
<1>1. CASE S!Accept(h)
  BY <1>1, ServerKnown DEF S!Accept, S!SessionInv, S!SessionTypeOK, S!Registered
<1>2. CASE S!Close(h)
  BY <1>2, ServerKnown
     DEF S!Close, S!Unregister, S!SessionInv, S!SessionTypeOK
<1>3. CASE UNCHANGED <<connections, connectionId>>
  BY <1>3
<1> QED
  BY <1>1, <1>2, <1>3
     DEF S!ThreadStep, S!Silent, S!Refuse, S!Register, S!Login, S!Subscribe, S!Unsubscribe,
         S!Snapshot, S!Visit, S!EndOfSend, S!Farewell, S!Logout, S!Clean, S!Deliver,
         S!Delivered, S!SendReceipt, S!Receipted, S!Reply, S!Exit, S!tables,
         S!ClientRead, S!ClientDrop, S!brokerVars, S!locals, S!Receive

\* Another handler's steps do not move p.
LEMMA OthersStay ==
  ASSUME S!TypeInv, NEW h \in Objects, NEW p \in Objects, p # h,
         S!Accept(h) \/ S!ThreadStep(h) \/ S!ClientRead(h) \/ S!ClientDrop(h)
         \/ \E f \in ClientFrames : S!Receive(h, f)
  PROVE  /\ pc'[p] = pc[p] /\ frame'[p] = frame[p] /\ target'[p] = target[p]
         /\ reply'[p] = reply[p]
<1>0. /\ pc \in [Objects -> S!Step] /\ frame \in [Objects -> ClientFrames \cup {Null}]
      /\ target \in [Objects -> Objects \cup {Null}]
      /\ reply \in [Objects -> S!ServerFrame \cup {Null}]
  BY DEF S!TypeInv, S!BrokerInv, S!BrokerTypeOK
<1> USE DEF S!Goto, S!Answer, S!tables
<1>1. CASE S!Accept(h) \/ S!ClientRead(h) \/ S!ClientDrop(h) \/ S!Reply(h) \/ S!Exit(h)
           \/ \E f \in ClientFrames : S!Receive(h, f)
  BY <1>0, <1>1 DEF S!Accept, S!ClientRead, S!ClientDrop, S!Reply, S!Exit, S!Receive,
                    S!brokerVars, S!locals
<1>2. CASE S!Deliver(h) \/ S!SendReceipt(h) \/ S!Close(h)
  BY <1>0, <1>2 DEF S!Deliver, S!Delivered, S!SendReceipt, S!Receipted, S!Close, S!Unregister
<1>3. CASE S!Silent(h)
  BY <1>0, <1>3
     DEF S!Silent, S!Refuse, S!Register, S!Login, S!Subscribe, S!Unsubscribe, S!Snapshot,
         S!Visit, S!EndOfSend, S!Farewell, S!Logout, S!Clean
<1> QED
  BY <1>1, <1>2, <1>3 DEF S!ThreadStep

\* A session that is over stays over: its id is not given to a handler again.
LEMMA OverStays ==
  ASSUME S!SessionInv, S!TypeInv, [S!Next]_(S!vars), NEW p \in Objects, Over(p)
  PROVE  Over(p)'
<1>0. /\ pc \in [Objects -> S!Step]
      /\ connections \in [Ids -> Objects \cup {Null}]
      /\ connectionId \in [Objects -> Ids \cup {Null}]
      /\ connectionId[p] # Null
  BY DEF S!SessionInv, S!SessionTypeOK, S!Registered, Over
<1>1. CASE UNCHANGED S!vars
  BY <1>1 DEF S!vars, S!brokerVars, S!tables, S!locals, Over
<1>2. ASSUME NEW h \in Objects,
             S!Accept(h) \/ S!ThreadStep(h) \/ S!ClientRead(h) \/ S!ClientDrop(h)
             \/ \E f \in ClientFrames : S!Receive(h, f)
      PROVE  Over(p)'
  <2>1. /\ connectionId'[p] = connectionId[p]
        /\ connections[connectionId[p]] # p => connections'[connectionId[p]] # p
    BY <1>0, <1>2, EntriesVanish
  <2>2. CASE pc'[p] = pc[p]
    BY <1>0, <2>1, <2>2 DEF Over
  <2>3. CASE p # h
    BY <1>2, <2>2, <2>3, OthersStay
  <2>4. CASE p = h /\ pc[p] = "logout"
    BY <1>0, <1>2, <2>2, <2>4
       DEF S!ThreadStep, S!Silent, S!Refuse, S!Register, S!Login, S!Subscribe, S!Unsubscribe,
           S!Snapshot, S!Visit, S!EndOfSend, S!Farewell, S!Logout, S!Clean, S!Deliver,
           S!Delivered, S!SendReceipt, S!Receipted, S!Close, S!Unregister, S!Reply, S!Exit,
           S!ClientRead, S!ClientDrop, S!brokerVars, S!Receive, S!Accept, S!Goto, S!Handles, Over
  <2>5. CASE p = h /\ pc[p] = "clean"
    <3>1. CASE S!Close(h)
      <4>1. pc'[p] = "reply"
        BY <1>0, <2>5, <3>1 DEF S!Close, S!Unregister, S!Answer, S!Goto
      <4>2. leaving[p] = connectionId[p]
        BY <2>5 DEF S!SessionInv, S!PlaceOfProtocol
      <4>3. connections'[connectionId[p]] = Null
        BY <1>0, <2>5, <3>1, <4>2 DEF S!Close, S!Unregister
      <4> QED
        BY <1>0, <2>1, <4>1, <4>3, ServerKnown DEF Over
    <3> QED
      BY <1>0, <1>2, <2>2, <2>5, <3>1
         DEF S!ThreadStep, S!Silent, S!Refuse, S!Register, S!Login, S!Subscribe, S!Unsubscribe,
             S!Snapshot, S!Visit, S!EndOfSend, S!Farewell, S!Logout, S!Clean, S!Deliver,
             S!Delivered, S!SendReceipt, S!Receipted, S!Reply, S!Exit,
             S!ClientRead, S!ClientDrop, S!brokerVars, S!Receive, S!Accept, S!Goto, S!Handles
  <2>6. CASE p = h /\ pc[p] \in {"reply", "read", "exited"}
    <3>1. pc[p] # "exited" => ~ connected[p] /\ connections[connectionId[p]] # p
      BY <1>0, <2>6 DEF S!SessionInv, S!SilentAfterLogout, Over
    <3>2. CASE S!Reply(h)
      BY <1>0, <2>1, <2>6, <3>1, <3>2 DEF S!Reply, S!Goto, Over
    <3>3. CASE S!Exit(h)
      BY <1>0, <2>6, <3>3 DEF S!Exit, S!Goto, Over
    <3> QED
      BY <1>0, <1>2, <2>2, <2>6, <3>1, <3>2, <3>3
         DEF S!ThreadStep, S!Silent, S!Refuse, S!Register, S!Login, S!Subscribe, S!Unsubscribe,
             S!Snapshot, S!Visit, S!EndOfSend, S!Farewell, S!Logout, S!Clean, S!Deliver,
             S!Delivered, S!SendReceipt, S!Receipted, S!Close, S!Unregister,
             S!ClientRead, S!ClientDrop, S!brokerVars, S!Receive, S!Accept, S!Handles
  <2> QED
    BY <2>3, <2>4, <2>5, <2>6 DEF Over
<1> QED
  BY <1>1, <1>2 DEF S!Next
-----------------------------------------------------------------------------
(* Where a receipt comes from *)

\* The server has taken a frame of p that asked for receipt r; if it was the
\* DISCONNECT the session is over.
Answered(p, r) ==
  \E k \in DOMAIN wire[p] :
    /\ k < taken[p]
    /\ Numbered(wire[p][k])
    /\ wire[p][k].receipt = r
    /\ wire[p][k].command = "DISCONNECT" => Over(p)

AnswersTo(p, m) == m.command = "RECEIPT" => Answered(p, m.receiptId)

\* What the reader holds of it may be cut: the number begins that answer's.
ReadsAnswer(p, m) ==
  m.mentions = {} /\ (m.command = "RECEIPT" /\ m.receiptId # Null =>
    \E r \in Nat : m.receiptId \in Beginnings(r) /\ Answered(p, r))

\* The frame being processed was on the wire.
Processing == {"process", "login", "fanout", "deliver", "receipt"}

FrameTaken(p) ==
  pc[p] \in Processing /\ frame[p].receipt # Null =>
    \E k \in DOMAIN wire[p] :
      /\ k < taken[p]
      /\ Numbered(wire[p][k])
      /\ wire[p][k].receipt = frame[p].receipt
      /\ wire[p][k].command = frame[p].command

\* The message handed to a send, or its receipt, goes where it should.
PlaceAgrees(p) ==
  /\ pc[p] \in {"fanout", "deliver"} => frame[p].command = "SEND"
  /\ pc[p] = "receipt" => target[p] \in {p, Null}

\* A receipt on its way to p, or in the hands of its reader, is an answer.
ReceiptsTraced(p) ==
  /\ reply[p] # Null => AnswersTo(p, reply[p])
  /\ \A k \in DOMAIN outbox[p] : AnswersTo(p, outbox[p][k])
  /\ at[p] = "handle" => ReadsAnswer(p, got[p])

ClosedTraced(p) ==
  socket[p] = "closed" => Over(p) /\ \E k \in Disconnects(p) : k < taken[p]

Traced(p) ==
  /\ taken[p] \in 0..Len(wire[p])
  /\ FrameTaken(p)
  /\ PlaceAgrees(p)
  /\ ReceiptsTraced(p)
  /\ ClosedTraced(p)

TracedInv == taken \in [Objects -> Nat] /\ \A p \in Objects : Traced(p)

\* What was taken stays taken, and a session that is over stays over.
Grows(p) ==
  /\ \A k \in DOMAIN wire[p] : k \in DOMAIN wire'[p] /\ wire'[p][k] = wire[p][k]
  /\ taken'[p] \in 0..Len(wire'[p])
  /\ taken[p] \leq taken'[p]
  /\ Over(p) => Over(p)'

\* What was answered stays answered.
LEMMA AnsweredStays ==
  ASSUME NEW p \in Objects, wire[p] \in Seq(Frame \cup {Delimiter}), taken[p] \in Nat,
         Grows(p), NEW r, Answered(p, r)
  PROVE  Answered(p, r)'
<1>1. \A k \in DOMAIN wire[p] : k < taken[p] =>
        k \in DOMAIN wire'[p] /\ k < taken'[p] /\ wire'[p][k] = wire[p][k]
  BY DEF Grows
<1> QED
  BY <1>1 DEF Answered, Grows

\* A step keeps the trace of p if what it adds for p is an answer.
LEMMA TracedStays ==
  ASSUME NEW p \in Objects, wire[p] \in Seq(Frame \cup {Delimiter}), taken[p] \in Nat,
         Traced(p), Grows(p), PlaceAgrees(p)',
         \/ pc'[p] \in Processing => pc[p] \in Processing /\ frame'[p] = frame[p]
         \/ FrameTaken(p)',
         reply'[p] \in {reply[p], Null} \/ AnswersTo(p, reply[p])',
         \A k \in DOMAIN outbox'[p] :
           \/ \E j \in DOMAIN outbox[p] : outbox'[p][k] = outbox[p][j]
           \/ AnswersTo(p, outbox[p][k])',
         at'[p] = "handle" =>
           \/ at[p] = "handle" /\ got'[p] = got[p]
           \/ ReadsAnswer(p, got'[p]),
         socket'[p] = "closed" => socket[p] = "closed" \/ ClosedTraced(p)'
  PROVE  Traced(p)'
<1>1. \A k \in DOMAIN wire[p] : k < taken[p] =>
        k \in DOMAIN wire'[p] /\ k < taken'[p] /\ wire'[p][k] = wire[p][k]
  BY DEF Grows
<1>2. \A r : Answered(p, r) => Answered(p, r)'
  BY AnsweredStays
<1>4. FrameTaken(p)'
  BY <1>1 DEF FrameTaken, Traced
<1>5. (reply[p] # Null => AnswersTo(p, reply[p]))'
  <2>1. CASE reply'[p] = reply[p] /\ reply[p] # Null
    <3>1. AnswersTo(p, reply[p])
      BY <2>1 DEF Traced, ReceiptsTraced
    <3> QED
      BY <1>2, <2>1, <3>1 DEF AnswersTo
  <2> QED
    BY <2>1
<1>6. (\A k \in DOMAIN outbox[p] : AnswersTo(p, outbox[p][k]))'
  <2> SUFFICES ASSUME NEW k \in DOMAIN outbox'[p]
               PROVE  AnswersTo(p, outbox[p][k])'
    OBVIOUS
  <2>1. CASE \E j \in DOMAIN outbox[p] : outbox'[p][k] = outbox[p][j]
    <3>1. PICK j \in DOMAIN outbox[p] : outbox'[p][k] = outbox[p][j]
      BY <2>1
    <3>2. AnswersTo(p, outbox[p][j])
      BY DEF Traced, ReceiptsTraced
    <3> QED
      BY <1>2, <3>1, <3>2 DEF AnswersTo
  <2> QED
    BY <2>1
<1>7. (at[p] = "handle" => ReadsAnswer(p, got[p]))'
  <2>1. CASE at[p] = "handle" /\ got'[p] = got[p]
    <3>1. ReadsAnswer(p, got[p])
      BY <2>1 DEF Traced, ReceiptsTraced
    <3> QED
      BY <1>2, <2>1, <3>1 DEF ReadsAnswer
  <2>2. CASE ReadsAnswer(p, got'[p])
    BY <1>2, <2>2 DEF ReadsAnswer
  <2> QED
    BY <2>1, <2>2
<1>8. ClosedTraced(p)'
  BY <1>1 DEF ClosedTraced, Traced, Grows, Disconnects
<1> QED
  BY <1>4, <1>5, <1>6, <1>7, <1>8 DEF Traced, ReceiptsTraced, Grows

\* A queue's tail has items of the queue; an append adds one.
LEMMA TailItems ==
  ASSUME NEW T, NEW q \in Seq(T), q # <<>>
  PROVE  \A k \in DOMAIN Tail(q) : \E j \in DOMAIN q : Tail(q)[k] = q[j]
<1>1. \A k \in DOMAIN Tail(q) : k + 1 \in DOMAIN q /\ Tail(q)[k] = q[k + 1]
  OBVIOUS
<1> QED
  BY <1>1

LEMMA AppendItems ==
  ASSUME NEW T, NEW q \in Seq(T), NEW m \in T
  PROVE  /\ \A k \in DOMAIN q : k \in DOMAIN Append(q, m) /\ Append(q, m)[k] = q[k]
         /\ \A k \in DOMAIN Append(q, m) :
              Append(q, m)[k] = m \/ \E j \in DOMAIN q : Append(q, m)[k] = q[j]
         /\ Len(Append(q, m)) = Len(q) + 1
OBVIOUS

\* The client only appends to what it has written.
LEMMA WireGrows ==
  ASSUME TypeInv, [Next]_vars, NEW p \in Objects
  PROVE  /\ \A k \in DOMAIN wire[p] : k \in DOMAIN wire'[p] /\ wire'[p][k] = wire[p][k]
         /\ Len(wire[p]) \in Nat /\ Len(wire'[p]) \in Nat /\ Len(wire[p]) \leq Len(wire'[p])
<1>0. /\ wire \in [Objects -> Seq(Frame \cup {Delimiter})]
      /\ wire[p] \in Seq(Frame \cup {Delimiter}) /\ Len(wire[p]) \in Nat
  BY DEF TypeInv, TypeOK
<1>1. CASE UNCHANGED wire
  BY <1>0, <1>1
<1>2. ASSUME NEW t \in Threads, Payload(t) \/ End(t)
      PROVE  \/ wire'[p] = wire[p]
             \/ \E item \in Frame \cup {Delimiter} : wire'[p] = Append(wire[p], item)
  <2>1. Object(t) \in Objects /\ draft[t] \in Frame
    BY <1>2, BusyObject DEF Payload, End, Writing
  <2> QED
    BY <1>0, <1>2, <2>1 DEF Payload, End, Write
<1>3. ASSUME NEW item \in Frame \cup {Delimiter}, wire'[p] = Append(wire[p], item)
      PROVE  /\ \A k \in DOMAIN wire[p] : k \in DOMAIN wire'[p] /\ wire'[p][k] = wire[p][k]
             /\ Len(wire'[p]) \in Nat /\ Len(wire[p]) \leq Len(wire'[p])
  BY <1>0, <1>3, AppendItems
<1>4. \/ UNCHANGED wire
      \/ \E t \in Threads : Payload(t) \/ End(t)
  BY Known
     DEF vars, Next, Command, Login, LoginFails, ReportThrows, Logout, Join, Leave, Report,
         KeyboardStep, ReaderStep, Inside, Lock, TestAndClear, Number, Load, Store, WriteFails,
         KeyboardDone, LoginDone, SubscriptionDone, NextEvent, LogoutDone, ErrorDone, Test, Get,
         GetFails, HandleOther, HandleReceipt, HandleError, HandleThrows
<1> QED
  BY <1>0, <1>1, <1>2, <1>3, <1>4

\* Only a reader closes a socket, and only Get and GetFails give it a message.
LEMMA ClientQuiet ==
  ASSUME TypeInv, NEW p \in Objects, NEW q \in Objects,
         \/ Command \/ KeyboardStep
         \/ Inside(q) \/ Payload(q) \/ End(q) \/ WriteFails(q) \/ ErrorDone(q) \/ Test(q)
         \/ HandleOther(q) \/ HandleError(q) \/ HandleThrows(q) \/ GetFails(q, Null)
  PROVE  /\ at'[p] = "handle" => at[p] = "handle" /\ got'[p] = got[p]
         /\ socket'[p] = "closed" => socket[p] = "closed"
<1>0. /\ at \in [Threads -> Place] /\ p \in Threads /\ q \in Threads /\ Keyboard \in Threads
      /\ p # Keyboard /\ got \in [Objects -> Messages \cup {Null}]
      /\ socket \in [Objects -> {"new", "open", "closed"}]
  BY Known DEF TypeInv, TypeOK
<1> USE DEF Goto, Abort
<1>1. CASE Command
  BY <1>0, <1>1 DEF Command, Login, LoginFails, ReportThrows, Logout, Join, Leave, Report
<1>2. CASE KeyboardDone
  BY <1>0, <1>2 DEF KeyboardDone, LoginDone, SubscriptionDone, NextEvent, LogoutDone
<1>3. CASE ErrorDone(q) \/ HandleOther(q) \/ GetFails(q, Null) \/ Test(q) \/ HandleError(q)
           \/ HandleThrows(q)
  BY <1>0, <1>3 DEF ErrorDone, HandleOther, GetFails, Test, HandleError, HandleThrows
<1>4. ASSUME NEW t \in Threads, Inside(t) \/ Payload(t) \/ End(t) \/ WriteFails(t)
      PROVE  /\ at'[p] = "handle" => at[p] = "handle" /\ got'[p] = got[p]
             /\ socket'[p] = "closed" => socket[p] = "closed"
  BY <1>0, <1>4
     DEF Inside, Lock, TestAndClear, Number, Load, Store, Payload, End, Write, WriteFails
<1> QED
  BY <1>0, <1>1, <1>2, <1>3, <1>4 DEF KeyboardStep

\* A receipt is made for the frame that is being processed.
LEMMA ReceiptAnswers ==
  ASSUME NEW h \in Objects, TypeInv, TracedInv, Grows(h), pc[h] \in Processing,
         frame[h].command # "DISCONNECT" \/ Over(h)',
         NEW m, m = S!Receipt(h), m # Null
  PROVE  m.command = "RECEIPT" /\ Answered(h, m.receiptId)'
<1>1. /\ frame[h].receipt # Null
      /\ m = [command |-> "RECEIPT", receiptId |-> frame[h].receipt]
  BY DEF S!Receipt
<1>2. PICK k \in DOMAIN wire[h] : /\ k < taken[h]
                                  /\ Numbered(wire[h][k])
                                  /\ wire[h][k].receipt = frame[h].receipt
                                  /\ wire[h][k].command = frame[h].command
  BY <1>1 DEF FrameTaken, TracedInv, Traced
<1>3. k \in DOMAIN wire'[h] /\ k < taken'[h] /\ wire'[h][k] = wire[h][k]
  <2>1. wire[h] \in Seq(Frame \cup {Delimiter}) /\ taken[h] \in Nat
    BY DEF TypeInv, TypeOK, TracedInv
  <2> QED
    BY <1>2, <2>1 DEF Grows
<1> QED
  BY <1>1, <1>2, <1>3 DEF Answered

\* A thread's step: its receipt goes to its own client, and there is none of a
\* DISCONNECT before the session is over.
LEMMA ThreadTraced ==
  ASSUME TypeInv, S!SessionInv, S!TypeInv, TracedInv, NEW h \in Objects, S!ThreadStep(h),
         \A p \in Objects : Grows(p), UNCHANGED <<at, wire, taken, got, socket>>,
         NEW p \in Objects
  PROVE  Traced(p)'
<1>0. /\ pc \in [Objects -> S!Step] /\ frame \in [Objects -> ClientFrames \cup {Null}]
      /\ target \in [Objects -> Objects \cup {Null}]
      /\ reply \in [Objects -> S!ServerFrame \cup {Null}]
      /\ outbox \in [Objects -> Seq(S!ServerFrame)]
      /\ Traced(p) /\ Traced(h) /\ taken \in [Objects -> Nat]
      /\ wire[p] \in Seq(Frame \cup {Delimiter})
  BY DEF S!TypeInv, S!BrokerInv, S!BrokerTypeOK, S!TransportTypeOK, TracedInv, TypeInv, TypeOK
<1>1. ASSUME PlaceAgrees(p)',
             pc'[p] \in Processing => pc[p] \in Processing /\ frame'[p] = frame[p],
             reply'[p] \in {reply[p], Null} \/ AnswersTo(p, reply[p])',
             \A k \in DOMAIN outbox'[p] :
               \/ \E j \in DOMAIN outbox[p] : outbox'[p][k] = outbox[p][j]
               \/ AnswersTo(p, outbox[p][k])'
      PROVE  Traced(p)'
  BY <1>0, <1>1, TracedStays DEF TracedInv
<1>2. ASSUME outbox'[p] = outbox[p]
      PROVE  \A k \in DOMAIN outbox'[p] : \E j \in DOMAIN outbox[p] : outbox'[p][k] = outbox[p][j]
  BY <1>2
<1>3. ASSUME NEW g, NEW m, S!Write(g, m), m \in S!ServerFrame,
             p = g /\ m.command = "RECEIPT" => Answered(p, m.receiptId)'
      PROVE  \A k \in DOMAIN outbox'[p] :
               \/ \E j \in DOMAIN outbox[p] : outbox'[p][k] = outbox[p][j]
               \/ AnswersTo(p, outbox[p][k])'
  <2>1. outbox'[p] = outbox[p] \/ (p = g /\ outbox'[p] = Append(outbox[p], m))
    BY <1>0, <1>3 DEF S!Write
  <2>2. CASE p = g /\ outbox'[p] = Append(outbox[p], m)
    <3>1. outbox[p] \in Seq(S!ServerFrame)
      BY <1>0
    <3>2. \A k \in DOMAIN outbox'[p] :
            outbox'[p][k] = m \/ \E j \in DOMAIN outbox[p] : outbox'[p][k] = outbox[p][j]
      BY <1>3, <2>2, <3>1, AppendItems
    <3> QED
      BY <1>3, <2>2, <3>2 DEF AnswersTo
  <2> QED
    BY <1>2, <2>1, <2>2
<1>4. UNCHANGED S!transport => outbox'[p] = outbox[p]
  BY DEF S!transport
<1>5. CASE S!Deliver(h)
  <2>1. S!MessageOf(h) \in S!ServerFrame /\ S!MessageOf(h).command = "MESSAGE"
    BY <1>5 DEF S!Deliver, S!Delivered, S!MessageOf, S!ServerFrame, S!Message, S!TypeInv,
                S!BrokerInv, S!FrameKept, S!Equipped
  <2>2. /\ S!Write(target[h], S!MessageOf(h)) /\ pc[h] = "deliver"
        /\ pc' = [pc EXCEPT ![h] = "fanout"] /\ UNCHANGED <<frame, reply>>
        /\ target' = [target EXCEPT ![h] = Null]
    BY <1>5 DEF S!Deliver, S!Delivered, S!Goto
  <2>3. /\ PlaceAgrees(p)'
        /\ pc'[p] \in Processing => pc[p] \in Processing /\ frame'[p] = frame[p]
    BY <1>0, <2>2 DEF Traced, PlaceAgrees, Processing
  <2> QED
    BY <1>1, <1>3, <2>1, <2>2, <2>3
<1>6. CASE S!SendReceipt(h)
  <2>1. /\ pc[h] = "receipt" /\ pc' = [pc EXCEPT ![h] = "logout"] /\ UNCHANGED <<frame, reply>>
        /\ target' = [target EXCEPT ![h] = Null]
        /\ \/ UNCHANGED S!transport
           \/ S!Write(target[h], S!Receipt(h)) /\ target[h] # Null /\ S!Receipt(h) # Null
    BY <1>6 DEF S!SendReceipt, S!Receipted, S!Goto
  <2>2. /\ PlaceAgrees(p)'
        /\ pc'[p] \in Processing => pc[p] \in Processing /\ frame'[p] = frame[p]
    BY <1>0, <2>1 DEF Traced, PlaceAgrees, Processing
  <2>3. CASE S!Write(target[h], S!Receipt(h)) /\ target[h] # Null /\ S!Receipt(h) # Null
    <3>1. target[h] = h
      BY <1>0, <2>1, <2>3 DEF Traced, PlaceAgrees
    <3>2. frame[h] \in ClientFrames
      BY <2>1 DEF S!TypeInv, S!BrokerInv, S!FrameKept
    <3>3. frame[h].receipt \in Receipts \cup {Null} /\ pc[h] \in Processing
      BY <2>1, <3>2 DEF ClientFrames, Garbage, Headers, Processing
    <3>4. Over(h)'
      BY <1>0, <2>1 DEF Over
    <3>5. \A m : m = S!Receipt(h) => m.command = "RECEIPT" /\ Answered(h, m.receiptId)'
      BY <1>0, <2>3, <3>3, <3>4, ReceiptAnswers DEF Traced
    <3>6. S!Receipt(h) \in S!ServerFrame
      BY <2>3, <3>3 DEF S!Receipt, S!ServerFrame, S!ReceiptFrame
    <3> QED
      BY <1>1, <1>3, <2>1, <2>2, <2>3, <3>1, <3>5, <3>6
  <2> QED
    BY <1>1, <1>2, <1>4, <2>1, <2>2, <2>3
<1>7. CASE S!Close(h)
  <2>1. /\ pc' = [pc EXCEPT ![h] = "reply"] /\ reply' = [reply EXCEPT ![h] = Null]
        /\ UNCHANGED <<frame, target, outbox>>
    BY <1>7 DEF S!Close, S!Unregister, S!Answer, S!Goto
  <2>2. /\ PlaceAgrees(p)' /\ reply'[p] \in {reply[p], Null}
        /\ (pc'[p] \in Processing => pc[p] \in Processing /\ frame'[p] = frame[p])
    BY <1>0, <2>1 DEF Traced, PlaceAgrees, Processing
  <2> QED
    BY <1>1, <1>2, <2>1, <2>2
<1>8. CASE S!Reply(h)
  <2>1. /\ pc' = [pc EXCEPT ![h] = "read"] /\ reply' = [reply EXCEPT ![h] = Null]
        /\ frame' = [frame EXCEPT ![h] = Null] /\ UNCHANGED target
        /\ \/ UNCHANGED S!transport
           \/ S!Write(h, reply[h]) /\ reply[h] # Null
    BY <1>8 DEF S!Reply, S!Goto
  <2>2. /\ PlaceAgrees(p)' /\ reply'[p] \in {reply[p], Null} /\ (pc'[p] \in Processing => pc[p] \in Processing /\ frame'[p] = frame[p])
    BY <1>0, <2>1 DEF Traced, PlaceAgrees, Processing
  <2>3. CASE S!Write(h, reply[h]) /\ reply[h] # Null
    <3>1. reply[h] \in S!ServerFrame
      BY <1>0, <2>3
    <3>2. ASSUME NEW m, m = reply[h], m.command = "RECEIPT"
          PROVE  Answered(h, m.receiptId)'
      <4>1. Answered(h, m.receiptId)
        BY <1>0, <2>3, <3>2 DEF Traced, ReceiptsTraced, AnswersTo
      <4> QED
        BY <1>0, <4>1 DEF Answered, Grows
    <3> QED
      BY <1>1, <1>3, <2>2, <2>3, <3>1, <3>2
  <2> QED
    BY <1>1, <1>2, <1>4, <2>1, <2>2, <2>3
<1>9. CASE S!Exit(h)
  <2>1. /\ pc' = [pc EXCEPT ![h] = "exited"] /\ frame' = [frame EXCEPT ![h] = Null]
        /\ UNCHANGED <<target, reply, outbox>>
    BY <1>9 DEF S!Exit, S!Goto
  <2>2. PlaceAgrees(p)' /\ (pc'[p] \in Processing => pc[p] \in Processing /\ frame'[p] = frame[p])
    BY <1>0, <2>1 DEF Traced, PlaceAgrees, Processing
  <2> QED
    BY <1>1, <1>2, <2>1, <2>2
<1>10. ASSUME NEW r, pc' = [pc EXCEPT ![h] = "reply"], reply' = [reply EXCEPT ![h] = r],
              UNCHANGED <<frame, target>>, UNCHANGED S!transport,
              r # Null /\ r.command = "RECEIPT" => Answered(h, r.receiptId)'
       PROVE  Traced(p)'
  <2>1. PlaceAgrees(p)'
    BY <1>0, <1>10 DEF Traced, PlaceAgrees
  <2>2. reply'[p] \in {reply[p], Null} \/ AnswersTo(p, reply[p])'
    BY <1>0, <1>10 DEF AnswersTo
  <2>3. pc'[p] \in Processing => pc[p] \in Processing /\ frame'[p] = frame[p]
    BY <1>0, <1>10 DEF Processing
  <2> QED
    BY <1>1, <1>2, <1>4, <1>10, <2>1, <2>2, <2>3
<1>11. ASSUME NEW l, pc' = [pc EXCEPT ![h] = l], pc[h] \in Processing \/ l \notin Processing,
              UNCHANGED <<frame, reply>>, UNCHANGED S!transport, PlaceAgrees(p)'
       PROVE  Traced(p)'
  <2>1. pc'[p] \in Processing => pc[p] \in Processing /\ frame'[p] = frame[p]
    BY <1>0, <1>11
  <2> QED
    BY <1>1, <1>2, <1>4, <1>11, <2>1
<1>12. CASE S!Silent(h) /\ UNCHANGED S!transport
  <2>1. CASE S!Refuse(h)
    BY <1>10, <1>12, <2>1 DEF S!Refuse, S!Answer, S!Goto, S!Plain
  <2>2. CASE S!Register(h)
    <3>1. CASE S!Answer(h, S!Plain("ERROR"))
      BY <1>10, <1>12, <2>2, <3>1 DEF S!Register, S!Answer, S!Goto, S!Plain
    <3>2. CASE S!Goto(h, "login") /\ UNCHANGED reply
      <4>1. PlaceAgrees(p)'
        BY <1>0, <2>2, <3>2 DEF S!Register, S!Goto, Traced, PlaceAgrees
      <4> QED
        BY <1>11, <1>12, <2>2, <3>2, <4>1 DEF S!Register, S!Handles, S!Goto, Processing
    <3> QED
      BY <2>2, <3>1, <3>2 DEF S!Register
  <2>3. CASE S!Login(h)
    <3>1. PICK r \in {S!Plain("CONNECTED"), S!Plain("ERROR")} : S!Answer(h, r)
      BY <2>3 DEF S!Login
    <3>2. r.command # "RECEIPT"
      BY DEF S!Plain
    <3> QED
      BY <1>10, <1>12, <2>3, <3>1, <3>2 DEF S!Login, S!Answer, S!Goto
  <2>4. CASE S!Subscribe(h) \/ S!Unsubscribe(h) \/ S!EndOfSend(h)
    <3>1. /\ pc[h] \in {"process", "fanout"} /\ frame[h].command # "DISCONNECT"
          /\ S!Answer(h, S!Receipt(h)) /\ UNCHANGED <<frame, target>>
      BY <1>0, <2>4 DEF S!Subscribe, S!Unsubscribe, S!EndOfSend, S!Handles, Traced, PlaceAgrees
    <3>2. \A m : m = S!Receipt(h) /\ m # Null => Answered(h, m.receiptId)'
      BY <1>0, <3>1, ReceiptAnswers DEF Traced, Processing
    <3> QED
      BY <1>10, <1>12, <3>1, <3>2 DEF S!Answer, S!Goto
  <2>5. CASE S!Snapshot(h)
    <3>1. PlaceAgrees(p)'
      BY <1>0, <2>5 DEF S!Snapshot, S!Handles, S!Goto, Traced, PlaceAgrees
    <3> QED
      BY <1>11, <1>12, <2>5, <3>1 DEF S!Snapshot, S!Handles, S!Goto, Processing
  <2>6. CASE S!Visit(h)
    <3>1. PICK l \in {"fanout", "deliver"} : S!Goto(h, l)
      BY <2>6 DEF S!Visit
    <3>2. PlaceAgrees(p)'
      BY <1>0, <2>6, <3>1 DEF S!Visit, S!Goto, Traced, PlaceAgrees
    <3> QED
      BY <1>11, <1>12, <2>6, <3>1, <3>2 DEF S!Visit, S!Goto, Processing
  <2>7. CASE S!Farewell(h)
    <3>1. connections[connectionId[h]] \in {h, Null}
      BY <2>7 DEF S!Farewell, S!Handles, S!SessionInv, S!Registered
    <3>2. PlaceAgrees(p)'
      BY <1>0, <2>7, <3>1 DEF S!Farewell, S!Goto, Traced, PlaceAgrees
    <3> QED
      BY <1>11, <1>12, <2>7, <3>2 DEF S!Farewell, S!Handles, S!Goto, Processing
  <2>8. CASE S!Logout(h)
    <3>1. PlaceAgrees(p)'
      BY <1>0, <2>8 DEF S!Logout, S!Goto, Traced, PlaceAgrees
    <3> QED
      BY <1>11, <1>12, <2>8, <3>1 DEF S!Logout, S!Goto, Processing
  <2>9. ASSUME NEW ch \in Channels, S!Clean(h, ch)
        PROVE  Traced(p)'
    <3>1. UNCHANGED <<pc, frame, target, reply>>
      BY <2>9 DEF S!Clean
    <3> QED
      BY <1>0, <1>1, <1>2, <1>4, <1>12, <3>1 DEF Traced, PlaceAgrees
  <2> QED
    BY <1>12, <2>1, <2>2, <2>3, <2>4, <2>5, <2>6, <2>7, <2>8, <2>9 DEF S!Silent
<1> QED
  BY <1>5, <1>6, <1>7, <1>8, <1>9, <1>12 DEF S!ThreadStep

\* The first delimiter of what the server has not read.
LEMMA FirstEnd ==
  ASSUME NEW p \in Objects, wire[p] \in Seq(Frame \cup {Delimiter}), Ends(p) # {}
  PROVE  NextEnd(p) \in Ends(p) /\ \A j \in Ends(p) : NextEnd(p) \leq j
<1>1. Ends(p) \in SUBSET Nat
  BY DEF Ends
<1>2. PICK m \in Ends(p) : \A n \in Ends(p) : ~ (<<n, m>> \in OpToRel(<, Nat))
  BY <1>1, NatLessThanWellFounded, WFMin
<1>3. OpToRel(<, Nat) = {ss \in Nat \X Nat : ss[1] < ss[2]}
  BY DEF OpToRel
<1>4. ASSUME NEW n \in Ends(p)
      PROVE  m \leq n
  <2>1. m \in Nat /\ n \in Nat
    BY <1>1
  <2>2. n < m => <<n, m>> \in {ss \in Nat \X Nat : ss[1] < ss[2]}
    BY <2>1
  <2>3. ~ (n < m)
    BY <1>2, <1>3, <2>2, Zenon
  <2> QED BY <2>1, <2>3
<1> QED
  BY <1>4 DEF NextEnd

\* The server takes the next frame off the wire.
LEMMA ReceiveTraced ==
  ASSUME TypeInv, S!SessionInv, S!TypeInv, TracedInv, NEW h \in Objects, ServerReceives(h),
         \A p \in Objects : Over(p) => Over(p)'
  PROVE  TracedInv'
<1>0. /\ pc \in [Objects -> S!Step] /\ frame \in [Objects -> ClientFrames \cup {Null}]
      /\ wire \in [Objects -> Seq(Frame \cup {Delimiter})]
      /\ taken \in [Objects -> Nat]
  BY DEF S!TypeInv, S!BrokerInv, S!BrokerTypeOK, TracedInv, TypeInv, TypeOK
<1>1. PICK f \in ClientFrames : Decodes(h, f) /\ S!Receive(h, f)
  BY SameReceive DEF ServerReceives
<1>2. /\ pc' = [pc EXCEPT ![h] = "process"] /\ frame' = [frame EXCEPT ![h] = f]
      /\ UNCHANGED <<target, reply, outbox>>
      /\ taken' = [taken EXCEPT ![h] = NextEnd(h)]
      /\ UNCHANGED <<at, wire, got, socket>>
  BY <1>1 DEF S!Receive, S!Goto, ServerReceives, clientVars, vars
<1>3. NextEnd(h) \in Ends(h) /\ \A j \in Ends(h) : NextEnd(h) \leq j
  BY <1>0, <1>1, FirstEnd DEF Decodes
<1>4. NextEnd(h) \in 1..Len(wire[h]) /\ taken[h] < NextEnd(h)
  BY <1>0, <1>3 DEF Ends
<1>5. taken' \in [Objects -> Nat]
  BY <1>0, <1>2, <1>4
<1>6. ASSUME NEW p \in Objects
      PROVE  Grows(p)
  <2>1. taken[p] \in 0..Len(wire[p])
    BY DEF TracedInv, Traced
  <2>2. taken'[p] = IF p = h THEN NextEnd(h) ELSE taken[p]
    BY <1>0, <1>2
  <2>3. taken[p] \leq taken'[p] /\ taken'[p] \in 0..Len(wire[p])
    BY <1>0, <1>4, <2>1, <2>2
  <2> QED
    BY <1>2, <2>3 DEF Grows
<1>7. FrameTaken(h)'
  <2>1. CASE NextEnd(h) = taken[h] + 1
    <3>1. frame'[h].receipt = Null
      BY <1>0, <1>1, <1>2, <2>1 DEF Decodes, Garbage, Headers
    <3> QED
      BY <3>1 DEF FrameTaken
  <2>2. CASE NextEnd(h) # taken[h] + 1
    <3> DEFINE k == taken[h] + 1
    <3>1. k \in DOMAIN wire[h] /\ k < NextEnd(h)
      <4>1. /\ wire[h] \in Seq(Frame \cup {Delimiter}) /\ taken[h] \in Nat
            /\ NextEnd(h) \in 1..Len(wire[h])
        BY <1>0, <1>4
      <4>2. k \in 1..Len(wire[h]) /\ k < NextEnd(h)
        BY <1>4, <2>2, <4>1
      <4> QED
        BY <4>1, <4>2
    <3>2. wire[h][k] # Delimiter
      BY <1>0, <1>3, <3>1 DEF Ends
    <3>3. f.command = wire[h][k].command /\ f.receipt = wire[h][k].receipt
      BY <1>1, <2>2 DEF Decodes
    <3>4. frame'[h] = f /\ taken'[h] = NextEnd(h) /\ wire' = wire
      BY <1>0, <1>2
    <3> HIDE DEF k
    <3> QED
      BY <3>1, <3>2, <3>3, <3>4 DEF FrameTaken, Numbered
  <2> QED
    BY <2>1, <2>2
<1>8. ASSUME NEW p \in Objects
      PROVE  Traced(p)'
  <2>1. Traced(p) /\ taken[p] \in Nat /\ wire[p] \in Seq(Frame \cup {Delimiter})
    BY <1>0 DEF TracedInv
  <2>2. PlaceAgrees(p)'
    BY <1>0, <1>2, <2>1 DEF Traced, PlaceAgrees
  <2>3. (pc'[p] \in Processing => pc[p] \in Processing /\ frame'[p] = frame[p]) \/ FrameTaken(p)'
    BY <1>0, <1>2, <1>7
  <2>4. /\ reply'[p] \in {reply[p], Null} /\ at'[p] = at[p] /\ got'[p] = got[p]
        /\ \A k \in DOMAIN outbox'[p] : \E j \in DOMAIN outbox[p] : outbox'[p][k] = outbox[p][j]
        /\ socket'[p] = "closed" => socket[p] = "closed"
    BY <1>2
  <2> QED
    BY <1>6, <2>1, <2>2, <2>3, <2>4, TracedStays
<1> QED
  BY <1>5, <1>8 DEF TracedInv

\* The client moves, and the server's part of a connection does not, or begins.
LEMMA ClientTraced ==
  ASSUME TypeInv, S!TypeInv, TracedInv, [Next]_vars, UNCHANGED <<taken, frame, target, reply>>,
         \A p \in Objects : Over(p) => Over(p)',
         \A p \in Objects : pc'[p] \in {pc[p], "read"},
         \A p \in Objects : \A k \in DOMAIN outbox'[p] :
           \E j \in DOMAIN outbox[p] : outbox'[p][k] = outbox[p][j],
         \A p \in Objects : at'[p] = "handle" =>
           \/ at[p] = "handle" /\ got'[p] = got[p]
           \/ ReadsAnswer(p, got'[p]),
         \A p \in Objects :
           socket'[p] = "closed" => socket[p] = "closed" \/ ClosedTraced(p)'
  PROVE  TracedInv'
<1> SUFFICES ASSUME NEW p \in Objects
             PROVE  Traced(p)'
  BY DEF TracedInv
<1>1. Traced(p) /\ taken[p] \in Nat /\ wire[p] \in Seq(Frame \cup {Delimiter})
  BY DEF TracedInv, TypeInv, TypeOK
<1>2. Grows(p)
  BY <1>1, WireGrows DEF Traced, Grows
<1>3. PlaceAgrees(p)'
  BY <1>1 DEF Traced, PlaceAgrees
<1>4. pc'[p] \in Processing => pc[p] \in Processing /\ frame'[p] = frame[p]
  BY DEF Processing
<1> QED
  BY <1>1, <1>2, <1>3, <1>4, TracedStays

\* A number is among what it begins with.
LEMMA BeginsItself == \A n \in Nat : n \in Beginnings(n)
<1> SUFFICES ASSUME NEW n \in Nat
             PROVE  n \in Beginnings(n)
  OBVIOUS
<1>1. n \div 1 = n
  OBVIOUS
<1> QED
  BY <1>1 DEF Beginnings

\* A cut message lacks digits of its number, or its date.
LEMMA CutOff ==
  ASSUME NEW m, NEW c \in Cuts(m), c # Null
  PROVE  \E r \in {Null} \cup (IF m.receiptId = Null THEN {} ELSE Beginnings(m.receiptId)) :
           \E d : c = [command |-> m.command, mentions |-> m.mentions, receiptId |-> r, dated |-> d]
BY DEF Cuts

\* The text of an answer, and what a broken connection leaves of it, names
\* the answer's number or its first digits.
LEMMA TextAnswers ==
  ASSUME NEW p \in Objects, NEW m \in S!ServerFrame, AnswersTo(p, m)
  PROVE  /\ ReadsAnswer(p, Text(m))
         /\ \A c \in Cuts(Text(m)) : c # Null => ReadsAnswer(p, c)
<1>1. Text(m) \in Message /\ Text(m).receiptId \in Nat \cup {Null}
  BY SameFrames, TextAssumption, ClientAssumption DEF Message
<1>2. /\ Text(m).command = m.command /\ Text(m).mentions = {}
      /\ Text(m).command # "RECEIPT" => Text(m).receiptId = Null
      /\ Text(m).command = "RECEIPT" => Answered(p, Text(m).receiptId)
  BY DEF Text, AnswersTo
<1>3. ASSUME NEW c, c.mentions = {}, c.command = Text(m).command,
             c.receiptId # Null =>
               Text(m).receiptId # Null /\ c.receiptId \in Beginnings(Text(m).receiptId)
      PROVE  ReadsAnswer(p, c)
  BY <1>1, <1>2, <1>3 DEF ReadsAnswer
<1>4. ReadsAnswer(p, Text(m))
  BY <1>1, <1>2, <1>3, BeginsItself
<1>5. ASSUME NEW c \in Cuts(Text(m)), c # Null
      PROVE  ReadsAnswer(p, c)
  <2>1. PICK r \in {Null} \cup (IF Text(m).receiptId = Null THEN {}
                                ELSE Beginnings(Text(m).receiptId)) :
          \E d : c = [command |-> Text(m).command, mentions |-> Text(m).mentions,
                     receiptId |-> r, dated |-> d]
    BY <1>5, CutOff
  <2>2. c.mentions = {} /\ c.command = Text(m).command /\ c.receiptId = r
    BY <1>2, <2>1
  <2> QED
    BY <1>3, <2>1, <2>2
<1> QED
  BY <1>4, <1>5

\* The reader takes a message out of the socket.
LEMMA GetTraced ==
  ASSUME TypeInv, S!TypeInv, TracedInv, [Next]_vars, UNCHANGED taken,
         \A p \in Objects : Over(p) => Over(p)',
         NEW q \in Objects, outbox[q] # <<>>, Get(q, Text(Head(outbox[q]))), S!ClientRead(q)
  PROVE  TracedInv'
<1>1. /\ UNCHANGED <<pc, frame, target, reply, socket>>
      /\ outbox' = [outbox EXCEPT ![q] = Tail(@)]
      /\ got' = [got EXCEPT ![q] = Text(Head(outbox[q]))]
      /\ at' = [at EXCEPT ![q] = "handle"]
  BY DEF S!ClientRead, S!brokerVars, S!locals, Get, Goto
<1>2. /\ outbox \in [Objects -> Seq(S!ServerFrame)] /\ outbox[q] \in Seq(S!ServerFrame)
      /\ got \in [Objects -> Messages \cup {Null}] /\ at \in [Threads -> Place]
      /\ \A p \in Objects : p \in Threads
  BY Known DEF S!TypeInv, S!TransportTypeOK, TypeInv, TypeOK
<1>3. \A p \in Objects : \A k \in DOMAIN outbox'[p] :
        \E j \in DOMAIN outbox[p] : outbox'[p][k] = outbox[p][j]
  <2>1. \A k \in DOMAIN Tail(outbox[q]) : \E j \in DOMAIN outbox[q] :
          Tail(outbox[q])[k] = outbox[q][j]
    BY <1>2, TailItems
  <2>2. \A p \in Objects : outbox'[p] = IF p = q THEN Tail(outbox[q]) ELSE outbox[p]
    BY <1>1, <1>2
  <2> QED
    BY <2>1, <2>2
<1>4. ReadsAnswer(q, got'[q])
  <2>1. 1 \in DOMAIN outbox[q] /\ Head(outbox[q]) = outbox[q][1] /\ outbox[q][1] \in S!ServerFrame
    BY <1>2
  <2>2. AnswersTo(q, outbox[q][1])
    BY <2>1 DEF TracedInv, Traced, ReceiptsTraced
  <2> QED
    BY <1>1, <1>2, <2>1, <2>2, TextAnswers
<1>5. ASSUME NEW p \in Objects, at'[p] = "handle"
      PROVE  (at[p] = "handle" /\ got'[p] = got[p]) \/ ReadsAnswer(p, got'[p])
  BY <1>1, <1>2, <1>4, <1>5
<1> QED
  BY <1>1, <1>3, <1>5, ClientTraced

\* The connection breaks, and the reader has what there was of a message.
LEMMA CutTraced ==
  ASSUME TypeInv, S!TypeInv, TracedInv, [Next]_vars, ClientOnly,
         \A p \in Objects : Over(p) => Over(p)',
         NEW q \in Objects, NEW m \in Remains(q), GetFails(q, m)
  PROVE  TracedInv'
<1>1. /\ UNCHANGED <<pc, frame, target, reply, outbox, taken, socket>>
      /\ got' = [got EXCEPT ![q] = m]
      /\ at' = [at EXCEPT ![q] = IF m = Null THEN "test" ELSE "handle"]
  BY DEF ClientOnly, serverVars, GetFails, Goto
<1>2. /\ outbox[q] \in Seq(S!ServerFrame) /\ at \in [Threads -> Place]
      /\ got \in [Objects -> Messages \cup {Null}] /\ \A p \in Objects : p \in Threads
  BY Known DEF S!TypeInv, S!TransportTypeOK, TypeInv, TypeOK
<1>3. m # Null => ReadsAnswer(q, m)
  <2>1. CASE outbox[q] = <<>>
    BY <2>1 DEF Remains
  <2>2. CASE outbox[q] # <<>>
    <3>1. 1 \in DOMAIN outbox[q] /\ Head(outbox[q]) = outbox[q][1] /\ outbox[q][1] \in S!ServerFrame
      BY <1>2, <2>2
    <3>2. AnswersTo(q, outbox[q][1])
      BY <3>1 DEF TracedInv, Traced, ReceiptsTraced
    <3> QED
      BY <2>2, <3>1, <3>2, TextAnswers DEF Remains
  <2> QED
    BY <2>1, <2>2
<1>4. ASSUME NEW p \in Objects, at'[p] = "handle"
      PROVE  (at[p] = "handle" /\ got'[p] = got[p]) \/ ReadsAnswer(p, got'[p])
  BY <1>1, <1>2, <1>3, <1>4
<1> QED
  BY <1>1, <1>4, ClientTraced

\* The reader closes the socket: the receipt names the DISCONNECT, so the
\* server has taken that.
LEMMA CloseTraced ==
  ASSUME TypeInv, S!TypeInv, TracedInv, LogoutNumbered, [Next]_vars, UNCHANGED taken,
         \A p \in Objects : Over(p) => Over(p)',
         NEW q \in Objects, HandleReceipt(q), S!ClientDrop(q)
  PROVE  TracedInv'
<1>1. /\ UNCHANGED <<pc, frame, target, reply, wire>>
      /\ outbox' = [outbox EXCEPT ![q] = <<>>]
      /\ socket' = [socket EXCEPT ![q] = "closed"]
      /\ got' = [got EXCEPT ![q] = Null]
      /\ at' = [at EXCEPT ![q] = "test"] /\ at[q] = "handle"
  BY DEF S!ClientDrop, S!brokerVars, S!locals, HandleReceipt, Goto
<1>2. /\ outbox \in [Objects -> Seq(S!ServerFrame)]
      /\ socket \in [Objects -> {"new", "open", "closed"}]
      /\ got \in [Objects -> Messages \cup {Null}] /\ at \in [Threads -> Place]
      /\ \A p \in Objects : p \in Threads
  BY Known DEF S!TypeInv, S!TransportTypeOK, TypeInv, TypeOK
<1>3. \A p \in Objects : outbox'[p] = IF p = q THEN <<>> ELSE outbox[p]
  BY <1>1, <1>2
<1>4. \A p \in Objects : \A k \in DOMAIN outbox'[p] :
        \E j \in DOMAIN outbox[p] : outbox'[p][k] = outbox[p][j]
  BY <1>3
<1>5. ReadsAnswer(q, got[q])
  BY <1>1 DEF TracedInv, Traced, ReceiptsTraced
<1>6. got[q].command = "RECEIPT" /\ got[q].receiptId # Null
  BY <1>5 DEF ReadsAnswer, HandleReceipt, Acknowledges, Kind, Says
<1>7. PICK k \in DOMAIN wire[q] : k < taken[q] /\ wire[q][k].command = "DISCONNECT" /\ Over(q)
  <2>1. PICK r \in Nat : got[q].receiptId \in Beginnings(r) /\ Answered(q, r)
    BY <1>5, <1>6 DEF ReadsAnswer
  <2>2. PICK k \in DOMAIN wire[q] : /\ k < taken[q]
                                    /\ Numbered(wire[q][k])
                                    /\ wire[q][k].receipt = r
                                    /\ wire[q][k].command = "DISCONNECT" => Over(q)
    BY <2>1 DEF Answered
  <2>3. got[q].receiptId \leq wire[q][k].receipt
    BY <2>1, <2>2, BeginningsBelow
  <2>4. wire[q][k].command = "DISCONNECT"
    BY <1>1, <2>2, <2>3 DEF LogoutNumbered, HandleReceipt
  <2> QED
    BY <2>2, <2>4
<1>8. ClosedTraced(q)'
  <2>1. Over(q)'
    BY <1>7
  <2>2. k \in Disconnects(q)' /\ k < taken'[q]
    BY <1>1, <1>7 DEF Disconnects
  <2> QED
    BY <2>1, <2>2 DEF ClosedTraced
<1>9. ASSUME NEW p \in Objects
      PROVE  /\ at'[p] = "handle" => at[p] = "handle" /\ got'[p] = got[p]
             /\ socket'[p] = "closed" => socket[p] = "closed" \/ ClosedTraced(p)'
  BY <1>1, <1>2, <1>8
<1> QED
  BY <1>1, <1>4, <1>9, ClientTraced

\* Every step of the two programs keeps the trace of the receipts.
LEMMA TracedNext ==
  ASSUME TypeInv, S!SessionInv, S!TypeInv, LogoutNumbered, TracedInv, [NextBoth]_allVars
  PROVE  TracedInv'
<1>1. [Next]_vars
  BY ClientSteps
<1>2. \A p \in Objects : Over(p) => Over(p)'
  BY ServerSteps, OverStays
<1>3. ASSUME UNCHANGED <<pc, frame, target, reply, outbox, taken>>,
             \A p \in Objects :
               /\ at'[p] = "handle" => at[p] = "handle" /\ got'[p] = got[p]
               /\ socket'[p] = "closed" => socket[p] = "closed"
      PROVE  TracedInv'
  BY <1>1, <1>2, <1>3, ClientTraced
<1>4. CASE UNCHANGED allVars
  BY <1>3, <1>4 DEF allVars, clientVars, vars, serverVars
<1>5. CASE Typed
  <2>1. Command
    BY <1>5 DEF Typed, Command
  <2>2. \A p \in Objects : /\ at'[p] = "handle" => at[p] = "handle" /\ got'[p] = got[p]
                           /\ socket'[p] = "closed" => socket[p] = "closed"
    BY <2>1, ClientQuiet
  <2>3. CASE ClientOnly
    BY <1>3, <2>2, <2>3 DEF ClientOnly, serverVars
  <2>4. ASSUME NEW q \in Objects, S!Accept(q), UNCHANGED taken
        PROVE  TracedInv'
    <3>1. /\ UNCHANGED <<frame, target, reply>>
          /\ \A p \in Objects : pc'[p] \in {pc[p], "read"}
      BY <2>4 DEF S!Accept, S!Goto, S!TypeInv, S!BrokerInv, S!BrokerTypeOK
    <3>2. outbox' = outbox
      BY <2>4 DEF S!Accept
    <3> QED
      BY <1>1, <1>2, <2>2, <2>4, <3>1, <3>2, ClientTraced
  <2> QED
    BY <1>5, <2>3, <2>4, SameAccept DEF Typed
<1>6. CASE KeyboardRuns
  <2>1. KeyboardStep
    BY <1>6 DEF KeyboardRuns, Sends, KeyboardStep
  <2> QED
    BY <1>3, <1>6, <2>1, ClientQuiet DEF KeyboardRuns, ClientOnly, serverVars
<1>7. ASSUME NEW q \in Objects, ReaderRuns(q)
      PROVE  TracedInv'
  <2>1. CASE ClientOnly /\ (\/ Inside(q) \/ Sends(q) \/ ErrorDone(q) \/ Test(q) \/ HandleOther(q)
                            \/ HandleError(q) \/ HandleThrows(q))
    <3>1. \/ Inside(q) \/ Payload(q) \/ End(q) \/ WriteFails(q) \/ ErrorDone(q) \/ Test(q)
          \/ HandleOther(q) \/ HandleError(q) \/ HandleThrows(q)
      BY <2>1 DEF Sends
    <3> QED
      BY <1>3, <2>1, <3>1, ClientQuiet DEF ClientOnly, serverVars
  <2>2. CASE outbox[q] # <<>> /\ Get(q, Text(Head(outbox[q]))) /\ S!ClientRead(q) /\ UNCHANGED taken
    BY <1>1, <1>2, <2>2, GetTraced
  <2>3. CASE HandleReceipt(q) /\ S!ClientDrop(q) /\ UNCHANGED taken
    BY <1>1, <1>2, <2>3, CloseTraced
  <2>4. ASSUME NEW m \in Remains(q), GetFails(q, m), ClientOnly
        PROVE  TracedInv'
    BY <1>1, <1>2, <2>4, CutTraced
  <2> QED
    BY <1>7, <2>1, <2>2, <2>3, <2>4, SameRead, SameDrop DEF ReaderRuns
<1>8. ASSUME NEW q \in Objects, Killed(q)
      PROVE  TracedInv'
  <2>1. S!ClientDrop(q) /\ UNCHANGED taken /\ UNCHANGED vars
    BY <1>8, SameDrop DEF Killed, clientVars
  <2>2. UNCHANGED <<pc, frame, target, reply, at, got, socket>>
    BY <2>1 DEF S!ClientDrop, S!brokerVars, S!locals, vars
  <2>3. \A p \in Objects : outbox'[p] \in {outbox[p], <<>>}
    BY <2>1 DEF S!ClientDrop, S!TypeInv, S!TransportTypeOK
  <2>4. \A p \in Objects : \A k \in DOMAIN outbox'[p] :
          \E j \in DOMAIN outbox[p] : outbox'[p][k] = outbox[p][j]
    BY <2>3
  <2> QED
    BY <1>1, <1>2, <2>1, <2>2, <2>4, ClientTraced
<1>9. ASSUME NEW q \in Objects, ServerRuns(q)
      PROVE  TracedInv'
  <2>1. CASE ServerReceives(q)
    BY <1>2, <2>1, ReceiveTraced
  <2>2. CASE S!ThreadStep(q) /\ UNCHANGED <<clientVars, taken>>
    <3>1. UNCHANGED <<at, wire, taken, got, socket>>
      BY <2>2 DEF clientVars, vars
    <3>2. \A p \in Objects : Grows(p)
      BY <1>2, <3>1 DEF Grows, TracedInv, Traced
    <3>3. \A p \in Objects : Traced(p)'
      BY <2>2, <3>1, <3>2, ThreadTraced
    <3> QED
      BY <3>1, <3>3 DEF TracedInv
  <2> QED
    BY <1>9, <2>1, <2>2, SameThread DEF ServerRuns
<1> QED
  BY <1>4, <1>5, <1>6, <1>7, <1>8, <1>9 DEF NextBoth

\* What both results rest on, in every reachable state.
LEMMA BothKnown ==
  SafetyBoth => [](ClientInv /\ TypeInv /\ S!SessionInv /\ S!TypeInv /\ LogoutNumbered)
<1>1. ClientInv => TypeInv
  BY DEF ClientInv
<1> QED
  BY <1>1, BothImplement, ServerSession, ClientInvariant, ClientLogoutNumber, PTL

\* Wherever a receipt is on its way to the reader, its number is on a frame
\* that the server has taken and acted upon (StompProtocol.createReceiptFrame).
THEOREM ReceiptsAnswer == SafetyBoth => []TracedInv
<1>1. InitBoth => TracedInv
  <2> SUFFICES ASSUME InitBoth, NEW p \in Objects
               PROVE  taken \in [Objects -> Nat] /\ Traced(p)
    BY DEF InitBoth, TracedInv
  <2>1. /\ pc[p] = "off" /\ reply[p] = Null /\ outbox[p] = <<>>
        /\ at[p] = "none" /\ socket[p] = "new" /\ wire[p] = <<>>
        /\ taken = [q \in Objects |-> 0]
    <3>1. S!Init
      BY SameInit DEF InitBoth
    <3>2. pc[p] = "off" /\ reply[p] = Null /\ outbox[p] = <<>>
      BY <3>1 DEF S!Init, S!BrokerInit
    <3>3. /\ at[p] = "none" /\ socket[p] = "new" /\ wire[p] = <<>>
          /\ taken = [q \in Objects |-> 0]
      BY Known DEF InitBoth, Init, Threads
    <3> QED
      BY <3>2, <3>3
  <2> QED
    BY <2>1 DEF Traced, FrameTaken, Processing, PlaceAgrees, ReceiptsTraced, ClosedTraced
<1>2. TypeInv /\ S!SessionInv /\ S!TypeInv /\ LogoutNumbered /\ TracedInv /\ [NextBoth]_allVars
        => TracedInv'
  BY TracedNext
<1> QED
  BY <1>1, <1>2, BothKnown, PTL DEF SafetyBoth

\* handleReceipt closes the socket if it finds the digits of logOutid in a
\* receipt (StompProtocol.cpp:136-147).  When it does, the server has read a
\* DISCONNECT of this connection and has sent its receipt: no receipt of a
\* SUBSCRIBE or an UNSUBSCRIBE passes for that one.
THEOREM ClosedOnAnswer == SafetyBoth => []ClosedAfterReceipt
<1>1. S!TypeInv /\ TracedInv => ClosedAfterReceipt
  BY DEF ClosedAfterReceipt, TracedInv, Traced, ClosedTraced, Over
<1> QED
  BY <1>1, BothKnown, ReceiptsAnswer, PTL
-----------------------------------------------------------------------------
(* What a connection's frames say of its subscriptions *)

Subscribes(f, c, s) == f.command = "SUBSCRIBE" /\ f.channel = c /\ f.id = s

\* A frame after which s is not what c is subscribed with.
Overrides(f, c, s) ==
  \/ f.command = "SUBSCRIBE" /\ f.channel = c
  \/ f.command = "UNSUBSCRIBE" /\ f.id = s

\* By the first n items of q, channel c is subscribed with id s.
Stands(q, n, c, s) ==
  \E k \in 1..n : Subscribes(q[k], c, s) /\ \A j \in k + 1 .. n : ~ Overrides(q[j], c, s)

Alike(f, g) == f.command = g.command /\ f.channel = g.channel /\ f.id = g.id

LEMMA StandsAlike ==
  ASSUME NEW q, NEW r, NEW n \in Nat, NEW c, NEW s, \A k \in 1..n : Alike(q[k], r[k])
  PROVE  Stands(q, n, c, s) <=> Stands(r, n, c, s)
<1>1. \A k \in 1..n : /\ Subscribes(q[k], c, s) <=> Subscribes(r[k], c, s)
                      /\ Overrides(q[k], c, s) <=> Overrides(r[k], c, s)
  BY DEF Alike, Subscribes, Overrides
<1>2. \A k \in 1..n : \A j \in k + 1 .. n : j \in 1..n
  OBVIOUS
<1> QED
  BY <1>1, <1>2 DEF Stands

LEMMA StandsNext ==
  ASSUME NEW q, NEW n \in Nat, NEW c, NEW s
  PROVE  Stands(q, n + 1, c, s) <=>
           Subscribes(q[n + 1], c, s) \/ (Stands(q, n, c, s) /\ ~ Overrides(q[n + 1], c, s))
<1>1. ASSUME Stands(q, n + 1, c, s), ~ Subscribes(q[n + 1], c, s)
      PROVE  Stands(q, n, c, s) /\ ~ Overrides(q[n + 1], c, s)
  <2>1. PICK k \in 1..n + 1 : /\ Subscribes(q[k], c, s)
                              /\ \A j \in k + 1 .. n + 1 : ~ Overrides(q[j], c, s)
    BY <1>1 DEF Stands
  <2>2. k \in 1..n /\ n + 1 \in k + 1 .. n + 1 /\ \A j \in k + 1 .. n : j \in k + 1 .. n + 1
    BY <1>1, <2>1
  <2> QED
    BY <2>1, <2>2 DEF Stands
<1>2. ASSUME Subscribes(q[n + 1], c, s)
      PROVE  Stands(q, n + 1, c, s)
  <2>1. n + 1 \in 1..n + 1 /\ \A j \in n + 1 + 1 .. n + 1 : FALSE
    OBVIOUS
  <2> QED
    BY <1>2, <2>1 DEF Stands
<1>3. ASSUME Stands(q, n, c, s), ~ Overrides(q[n + 1], c, s)
      PROVE  Stands(q, n + 1, c, s)
  <2>1. PICK k \in 1..n : /\ Subscribes(q[k], c, s)
                          /\ \A j \in k + 1 .. n : ~ Overrides(q[j], c, s)
    BY <1>3 DEF Stands
  <2>2. k \in 1..n + 1 /\ \A j \in k + 1 .. n + 1 : j \in k + 1 .. n \/ j = n + 1
    BY <2>1
  <2> QED
    BY <1>3, <2>1, <2>2 DEF Stands
<1> QED
  BY <1>1, <1>2, <1>3

\* A channel is subscribed with one id at most.
LEMMA StandsOnce ==
  ASSUME NEW q, NEW n \in Nat, NEW c, NEW s, NEW t, Stands(q, n, c, s), Stands(q, n, c, t)
  PROVE  s = t
<1>1. PICK k \in 1..n : /\ Subscribes(q[k], c, s)
                        /\ \A j \in k + 1 .. n : ~ Overrides(q[j], c, s)
  BY DEF Stands
<1>2. PICK m \in 1..n : /\ Subscribes(q[m], c, t)
                        /\ \A j \in m + 1 .. n : ~ Overrides(q[j], c, t)
  BY DEF Stands
<1>3. Overrides(q[m], c, s) /\ Overrides(q[k], c, t)
  BY <1>1, <1>2 DEF Subscribes, Overrides
<1>4. ~ (m \in k + 1 .. n) /\ ~ (k \in m + 1 .. n)
  BY <1>1, <1>2, <1>3
<1>5. k = m
  BY <1>4
<1> QED
  BY <1>1, <1>2, <1>5 DEF Subscribes

\* The delimiter says nothing of subscriptions.
Neutral(f) == f.command \notin {"SUBSCRIBE", "UNSUBSCRIBE"}

LEMMA NeutralSays ==
  ASSUME NEW f, Neutral(f), NEW c, NEW s
  PROVE  ~ Subscribes(f, c, s) /\ ~ Overrides(f, c, s)
BY DEF Neutral, Subscribes, Overrides

\* The map m is what the frames q leave; n is the last id they used.
Records(q, m, n) ==
  /\ \A c \in Channels, s \in Nat : m[c] = s <=> Stands(q, Len(q), c, s)
  /\ \A k \in 1..Len(q) : q[k].command = "SUBSCRIBE" => q[k].id \in Nat /\ q[k].id \leq n
  /\ \A j, k \in 1..Len(q) :
       q[j].command = "SUBSCRIBE" /\ q[k].command = "SUBSCRIBE" /\ q[j].id = q[k].id => j = k

LEMMA RecordsAlike ==
  ASSUME NEW T, NEW q \in Seq(T), NEW r \in Seq(T), NEW m, NEW n, Records(q, m, n),
         Len(r) = Len(q), \A k \in 1..Len(q) : Alike(q[k], r[k])
  PROVE  Records(r, m, n)
<1>1. \A c \in Channels, s \in Nat : Stands(q, Len(q), c, s) <=> Stands(r, Len(q), c, s)
  BY StandsAlike
<1> QED
  BY <1>1 DEF Records, Alike

LEMMA StandsAppend ==
  ASSUME NEW T, NEW q \in Seq(T), NEW f \in T, NEW c, NEW s
  PROVE  Stands(Append(q, f), Len(q) + 1, c, s) <=>
           Subscribes(f, c, s) \/ (Stands(q, Len(q), c, s) /\ ~ Overrides(f, c, s))
<1> DEFINE r == Append(q, f)
<1>1. r \in Seq(T) /\ Len(q) \in Nat /\ r[Len(q) + 1] = f /\ \A k \in 1..Len(q) : r[k] = q[k]
  OBVIOUS
<1> HIDE DEF r
<1>2. Stands(q, Len(q), c, s) <=> Stands(r, Len(q), c, s)
  BY <1>1, StandsAlike DEF Alike
<1>3. Stands(r, Len(q) + 1, c, s) <=>
        Subscribes(f, c, s) \/ (Stands(r, Len(q), c, s) /\ ~ Overrides(f, c, s))
  BY <1>1, StandsNext
<1> QED
  BY <1>2, <1>3 DEF r

\* The last id is used by no frame before it.
LEMMA RecordsAppend ==
  ASSUME NEW T, NEW q \in Seq(T), NEW f \in T, NEW m, NEW n \in Nat, Records(q, m, n),
         NEW m2, NEW n2 \in Nat, n \leq n2,
         f.command = "SUBSCRIBE" => f.id \in Nat /\ n < f.id /\ f.id \leq n2,
         \A c \in Channels, s \in Nat :
           m2[c] = s <=> Subscribes(f, c, s) \/ (m[c] = s /\ ~ Overrides(f, c, s))
  PROVE  Records(Append(q, f), m2, n2)
<1> DEFINE r == Append(q, f)
<1>1. /\ Len(q) \in Nat /\ Len(r) = Len(q) + 1 /\ r[Len(q) + 1] = f
      /\ \A k \in 1..Len(q) : r[k] = q[k]
  OBVIOUS
<1>2. \A c \in Channels, s \in Nat : m2[c] = s <=> Stands(r, Len(q) + 1, c, s)
  BY StandsAppend DEF Records
<1> HIDE DEF r
<1>3. \A k \in 1..Len(r) : r[k].command = "SUBSCRIBE" => r[k].id \in Nat /\ r[k].id \leq n2
  <2> SUFFICES ASSUME NEW k \in 1..Len(r), r[k].command = "SUBSCRIBE"
               PROVE  r[k].id \in Nat /\ r[k].id \leq n2
    OBVIOUS
  <2>1. CASE k = Len(q) + 1
    BY <1>1, <2>1
  <2>2. CASE k \in 1..Len(q)
    <3>1. r[k] = q[k] /\ q[k].id \in Nat /\ q[k].id \leq n
      BY <1>1, <2>2 DEF Records
    <3> QED
      BY <3>1
  <2> QED
    BY <1>1, <2>1, <2>2
<1>4. ASSUME NEW j \in 1..Len(r), NEW k \in 1..Len(r), r[j].command = "SUBSCRIBE",
             r[k].command = "SUBSCRIBE", r[j].id = r[k].id
      PROVE  j = k
  <2>1. \A i \in 1..Len(q) : r[i].command = "SUBSCRIBE" => r[i].id \in Nat /\ r[i].id \leq n
    BY <1>1 DEF Records
  <2>2. \A i \in 1..Len(q) : r[i].command = "SUBSCRIBE" /\ f.command = "SUBSCRIBE" => r[i].id # f.id
    BY <2>1
  <2>3. CASE j \in 1..Len(q) /\ k \in 1..Len(q)
    BY <1>1, <1>4, <2>3 DEF Records
  <2>4. CASE j = Len(q) + 1 \/ k = Len(q) + 1
    BY <1>1, <1>4, <2>2, <2>4
  <2> QED
    BY <1>1, <2>3, <2>4
<1> QED
  BY <1>1, <1>2, <1>3, <1>4 DEF Records, r
-----------------------------------------------------------------------------
(* The client's side of a connection that is up *)

Up(p) == isConnected[p] /\ at[Keyboard] # "aborted"

\* What the client has written, and the frame it is about to write.
Told(p) ==
  IF at[Keyboard] \in Ahead /\ current = p THEN Append(wire[p], draft[Keyboard]) ELSE wire[p]

\* Frames and delimiters take turns.
Alternates(p) ==
  /\ \A k \in 1..Len(wire[p]) :
       /\ k = 1 => wire[p][k] # Delimiter
       /\ k + 1 \in 1..Len(wire[p]) => (wire[p][k] = Delimiter <=> wire[p][k + 1] # Delimiter)
  /\ Len(wire[p]) > 0 => (wire[p][Len(wire[p])] # Delimiter <=> at[Keyboard] = "null")
  /\ at[Keyboard] = "null" => Len(wire[p]) > 0

\* The keyboard thread alone writes, and its map is what it has told.
Talks(p) ==
  /\ current = p
  /\ at[Keyboard] \in Ahead \cup {"null", "sent"} => draft[Keyboard].command # "DISCONNECT"
  /\ at[Keyboard] \in Writing /\ draft[Keyboard].command = "CONNECT" => at[p] \in {"none", "aborted"}
  /\ Alternates(p)
  /\ Records(Told(p), subscribed[p], subscriptionCounter[p])

NothingSubscribed(p) == socket[p] = "new" => \A c \in Channels : subscribed[p][c] = Null

ClientSide(p) == NothingSubscribed(p) /\ (Up(p) => Talks(p))

LEMMA TypesOf ==
  ASSUME TypeInv, NEW p \in Objects
  PROVE  /\ wire[p] \in Seq(Frame \cup {Delimiter}) /\ Len(wire[p]) \in Nat
         /\ subscribed[p] \in [Channels -> Nat \cup {Null}] /\ subscriptionCounter[p] \in Nat
         /\ at \in [Threads -> Place] /\ draft \in [Threads -> Frame \cup {Null}]
         /\ isConnected \in [Objects -> BOOLEAN] /\ wire \in [Objects -> Seq(Frame \cup {Delimiter})]
         /\ socket \in [Objects -> {"new", "open", "closed"}] /\ current \in Objects \cup {Null}
         /\ subscribed \in [Objects -> [Channels -> Nat \cup {Null}]]
         /\ subscriptionCounter \in [Objects -> Nat]
         /\ at[Keyboard] \in Writing => draft[Keyboard] \in Frame /\ current \in Objects
         /\ p \in Threads /\ Keyboard \in Threads /\ p # Keyboard /\ p # Null
         /\ Null \notin Nat
<1>1. /\ p \in Threads /\ Keyboard \in Threads /\ p # Keyboard /\ p # Null /\ Null \notin Nat
  BY Known, ClientAssumption
<1>2. /\ at \in [Threads -> Place] /\ draft \in [Threads -> Frame \cup {Null}]
      /\ isConnected \in [Objects -> BOOLEAN] /\ wire \in [Objects -> Seq(Frame \cup {Delimiter})]
      /\ socket \in [Objects -> {"new", "open", "closed"}] /\ current \in Objects \cup {Null}
      /\ subscribed \in [Objects -> [Channels -> Nat \cup {Null}]]
      /\ subscriptionCounter \in [Objects -> Nat]
  BY DEF TypeInv, TypeOK
<1>3. at[Keyboard] \in Writing => draft[Keyboard] \in Frame /\ current \in Objects
  BY <1>1 DEF TypeInv, DraftsKept, KeyboardKept
<1>4. wire[p] \in Seq(Frame \cup {Delimiter}) /\ Len(wire[p]) \in Nat
  BY <1>2
<1> QED
  BY <1>1, <1>2, <1>3, <1>4

LEMMA ToldType ==
  ASSUME TypeInv, NEW p \in Objects
  PROVE  Told(p) \in Seq(Frame \cup {Delimiter})
<1>1. CASE at[Keyboard] \in Ahead /\ current = p
  <2>1. draft[Keyboard] \in Frame \cup {Delimiter}
    BY <1>1, TypesOf DEF Ahead, Writing
  <2> QED
    BY <1>1, <2>1, TypesOf DEF Told
<1> QED
  BY <1>1, TypesOf DEF Told

\* A frame is not a delimiter.
LEMMA NoDelimiter ==
  ASSUME NEW f \in Frame
  PROVE  f # Delimiter /\ f.command # "delimiter"
  BY DEF Frame, Delimiter

\* Steps that leave alone what p was told and what it has been subscribed to.
LEMMA TalksStay ==
  ASSUME TypeInv, NEW p \in Objects, ClientSide(p),
         Up(p)' => Up(p),
         socket'[p] = "new" => socket[p] = "new",
         UNCHANGED <<current, subscribed, subscriptionCounter>>,
         Up(p)' => /\ wire'[p] = wire[p]
                   /\ at'[Keyboard] = at[Keyboard] /\ draft'[Keyboard] = draft[Keyboard]
                   /\ at[p] \in {"none", "aborted"} => at'[p] \in {"none", "aborted"}
  PROVE  ClientSide(p)'
<1>1. NothingSubscribed(p)'
  BY DEF ClientSide, NothingSubscribed
<1>2. ASSUME Up(p)'
      PROVE  Talks(p)'
  <2>1. Talks(p)
    BY <1>2 DEF ClientSide
  <2>2. Told(p)' = Told(p)
    BY <1>2 DEF Told
  <2>3. Alternates(p)'
    BY <1>2, <2>1 DEF Talks, Alternates
  <2>4. Records(Told(p), subscribed[p], subscriptionCounter[p])'
    BY <2>1, <2>2 DEF Talks
  <2>5. (at[Keyboard] \in Writing /\ draft[Keyboard].command = "CONNECT" => at[p] \in {"none", "aborted"})'
    BY <1>2, <2>1 DEF Talks
  <2>6. (at[Keyboard] \in Ahead \cup {"null", "sent"} => draft[Keyboard].command # "DISCONNECT")'
    BY <1>2, <2>1 DEF Talks
  <2>7. current' = p
    BY <2>1 DEF Talks
  <2> QED
    BY <2>3, <2>4, <2>5, <2>6, <2>7 DEF Talks
<1> QED
  BY <1>1, <1>2 DEF ClientSide

\* The reader writes on no connection that is up.
LEMMA ReaderTalks ==
  ASSUME ClientInv, NEW q \in Objects, ReaderStep(q), NEW p \in Objects, ClientSide(p)
  PROVE  ClientSide(p)'
<1>0. TypeInv /\ Object(q) = q
  BY Known DEF ClientInv
<1>a. /\ at \in [Threads -> Place] /\ draft \in [Threads -> Frame \cup {Null}]
      /\ isConnected \in [Objects -> BOOLEAN] /\ wire \in [Objects -> Seq(Frame \cup {Delimiter})]
      /\ socket \in [Objects -> {"new", "open", "closed"}]
      /\ p \in Threads /\ q \in Threads /\ Keyboard \in Threads /\ p # Keyboard /\ q # Keyboard
  BY <1>0, Known DEF TypeInv, TypeOK
<1>1. ASSUME UNCHANGED <<main, subscriptionCounter>>,
             isConnected'[p] => isConnected[p],
             socket'[p] = "new" => socket[p] = "new",
             isConnected'[p] => wire'[p] = wire[p],
             draft'[Keyboard] = draft[Keyboard],
             NEW l, Goto(q, l), at[q] \notin {"none", "aborted"}
      PROVE  ClientSide(p)'
  <2>1. /\ at'[Keyboard] = at[Keyboard]
        /\ at[p] \in {"none", "aborted"} => at'[p] \in {"none", "aborted"}
    BY <1>a, <1>1 DEF Goto
  <2>2. Up(p)' => Up(p)
    BY <1>1, <2>1 DEF Up
  <2> QED
    BY <1>0, <1>1, <2>1, <2>2, TalksStay DEF Up, main
<1>2. CASE HandleThrows(q)
  <2>1. ~ Up(p)' /\ socket' = socket /\ subscribed' = subscribed
    BY <1>2, Known DEF HandleThrows, Abort, Up, main
  <2> QED
    BY <2>1 DEF ClientSide, NothingSubscribed
<1>3. CASE Payload(q)
  <2>1. q = p => ~ isConnected[p]
    <3>1. at[q] \in Ahead /\ draft[q].command = "DISCONNECT"
      BY <1>0, <1>3, <1>a DEF Payload, TypeInv, DraftsKept, Ahead, Writing
    <3> QED
      BY <1>0, <1>a, <3>1 DEF ClientInv, OneDisconnect, Pends
  <2> QED
    BY <1>0, <1>1, <1>3, <1>a, <2>1 DEF Payload, Write, counters
<1>4. CASE End(q)
  <2>1. q = p => ~ isConnected[p]
    BY <1>4, <1>a DEF End, ClientInv, OneDisconnect, LogoutKept
  <2> QED
    BY <1>0, <1>1, <1>4, <1>a, <2>1 DEF End, Write, counters
<1>5. CASE WriteFails(q)
  <2>1. draft[q].command # "CONNECT"
    BY <1>0, <1>5, <1>a DEF WriteFails, TypeInv, DraftsKept, Writing
  <2> QED
    BY <1>1, <1>5, <2>1 DEF WriteFails, counters
<1>6. CASE Inside(q)
  <2>1. CASE Lock(q)
    BY <1>1, <2>1 DEF Lock, counters
  <2>2. CASE TestAndClear(q)
    BY <1>0, <1>1, <1>a, <2>2 DEF TestAndClear, counters
  <2>3. CASE Number(q)
    BY <1>1, <1>a, <2>3 DEF Number
  <2>4. CASE Load(q) \/ Store(q)
    BY <1>1, <2>4 DEF Load, Store
  <2> QED
    BY <1>6, <2>1, <2>2, <2>3, <2>4 DEF Inside
<1>7. CASE ErrorDone(q) \/ Test(q) \/ HandleOther(q) \/ HandleError(q) \/ HandleReceipt(q)
  BY <1>1, <1>7, <1>a DEF ErrorDone, Test, HandleOther, HandleError, HandleReceipt, counters
<1>8. ASSUME NEW m, Get(q, m) \/ GetFails(q, m)
      PROVE  ClientSide(p)'
  BY <1>1, <1>8, <1>a DEF Get, GetFails, counters
<1> QED
  BY <1>2, <1>3, <1>4, <1>5, <1>6, <1>7, <1>8 DEF ReaderStep

\* A login is on a new connection, where nothing was said.
LEMMA LoginTalks ==
  ASSUME TypeInv, NEW q \in Objects, Login(q), NEW p \in Objects, ClientSide(p)
  PROVE  ClientSide(p)'
<1>0. /\ at[Keyboard] = "prompt" /\ ~ LoggedIn /\ socket[q] = "new" /\ current' = q
      /\ socket' = [socket EXCEPT ![q] = "open"]
      /\ isConnected' = [isConnected EXCEPT ![q] = TRUE]
      /\ draft' = [draft EXCEPT ![Keyboard] = NewFrame(Keyboard, "CONNECT", Null, Null)]
      /\ at' = [at EXCEPT ![Keyboard] = "payload"]
      /\ UNCHANGED <<subscribed, subscriptionCounter, wire>>
  BY DEF Login, Enter, Goto, counters
<1>1. NothingSubscribed(p)'
  BY <1>0, TypesOf DEF ClientSide, NothingSubscribed
<1>2. CASE p # q
  <2>1. Up(p)' => Up(p)
    BY <1>0, <1>2, TypesOf DEF Up
  <2>2. ~ Up(p)
    BY <1>0, TypesOf DEF ClientSide, Talks, LoggedIn, Up
  <2> QED
    BY <1>1, <2>1, <2>2 DEF ClientSide
<1>3. CASE p = q
  <2> DEFINE f == NewFrame(Keyboard, "CONNECT", Null, Null)
  <2>1. f \in Frame /\ f.command = "CONNECT"
    BY Known DEF NewFrame, Frame
  <2>2. draft'[Keyboard] = f /\ at'[Keyboard] = "payload" /\ at'[p] = at[p] /\ wire'[p] = <<>>
    BY <1>0, <1>3, TypesOf DEF TypeInv, SocketsKept
  <2> HIDE DEF f
  <2>3. Alternates(p)'
    BY <2>2 DEF Alternates
  <2>4. at[p] \in {"none", "aborted"}
    BY <1>0, <1>3 DEF TypeInv, SocketsKept
  <2>5. Told(p)' = Append(wire[p], f) /\ wire[p] = <<>>
    BY <1>0, <1>3, <2>2 DEF Told, Ahead
  <2>6. Records(Append(wire[p], f), subscribed[p], subscriptionCounter[p])
    <3>1. Records(<<>>, subscribed[p], subscriptionCounter[p])
      <4>1. \A c \in Channels, s \in Nat : subscribed[p][c] # s
        BY <1>0, <1>3, TypesOf DEF ClientSide, NothingSubscribed
      <4> QED
        BY <4>1 DEF Records, Stands
    <3>2. \A c, s : ~ Subscribes(f, c, s) /\ ~ Overrides(f, c, s)
      BY <2>1, NeutralSays DEF Neutral
    <3>3. /\ wire[p] \in Seq(Frame \cup {Delimiter}) /\ f \in Frame \cup {Delimiter}
          /\ subscriptionCounter[p] \in Nat
          /\ Records(wire[p], subscribed[p], subscriptionCounter[p])
      BY <2>1, <2>5, <3>1, TypesOf
    <3>4. \A c \in Channels, s \in Nat :
            subscribed[p][c] = s
              <=> Subscribes(f, c, s) \/ (subscribed[p][c] = s /\ ~ Overrides(f, c, s))
      BY <3>2
    <3>5. f.command # "SUBSCRIBE" /\ subscriptionCounter[p] \leq subscriptionCounter[p]
      BY <2>1, <3>3
    <3> QED
      BY <3>3, <3>4, <3>5, RecordsAppend
  <2>7. Talks(p)'
    BY <1>0, <1>3, <2>1, <2>2, <2>3, <2>4, <2>5, <2>6 DEF Talks
  <2> QED
    BY <1>1, <2>7 DEF ClientSide
<1> QED
  BY <1>2, <1>3

\* A command that gives the keyboard thread a frame f, and changes the map of
\* the current connection as f says.
LEMMA FrameTalks ==
  ASSUME TypeInv, NEW p \in Objects, ClientSide(p), Up(p), at[Keyboard] \in {"prompt", "sent"},
         NEW f \in Frame, f.command \notin {"CONNECT", "DISCONNECT"},
         NEW l \in {"number", "payload"},
         UNCHANGED <<current, isConnected, wire>>,
         at' = [at EXCEPT ![Keyboard] = l], draft'[Keyboard] = f,
         subscriptionCounter'[p] \in Nat, subscriptionCounter[p] \leq subscriptionCounter'[p],
         f.command = "SUBSCRIBE" =>
           f.id \in Nat /\ subscriptionCounter[p] < f.id /\ f.id \leq subscriptionCounter'[p],
         \A c \in Channels, s \in Nat :
           subscribed'[p][c] = s
             <=> Subscribes(f, c, s) \/ (subscribed[p][c] = s /\ ~ Overrides(f, c, s))
  PROVE  Talks(p)'
<1>0. Talks(p) /\ at'[Keyboard] = l /\ l \in Ahead /\ l \in Writing
  BY TypesOf DEF ClientSide, Ahead, Writing
<1>1. Told(p) = wire[p] /\ Told(p)' = Append(wire[p], f)
  BY <1>0 DEF Told, Talks, Ahead
<1>2. Alternates(p)'
  BY <1>0 DEF Talks, Alternates
<1>3. Records(Append(wire[p], f), subscribed'[p], subscriptionCounter'[p])
  <2>1. /\ Records(wire[p], subscribed[p], subscriptionCounter[p])
        /\ wire[p] \in Seq(Frame \cup {Delimiter}) /\ f \in Frame \cup {Delimiter}
        /\ subscriptionCounter[p] \in Nat
    BY <1>0, <1>1, TypesOf DEF Talks
  <2> QED
    BY <2>1, RecordsAppend
<1> QED
  BY <1>0, <1>1, <1>2, <1>3 DEF Talks

LEMMA CommandTalks ==
  ASSUME ClientInv, Command, NEW p \in Objects, ClientSide(p)
  PROVE  ClientSide(p)'
<1>0. TypeInv
  BY DEF ClientInv
<1>a. /\ at \in [Threads -> Place] /\ draft \in [Threads -> Frame \cup {Null}]
      /\ wire[p] \in Seq(Frame \cup {Delimiter}) /\ Null \notin Nat /\ p # Keyboard
      /\ p \in Threads /\ Keyboard \in Threads /\ p # Null
      /\ subscribed \in [Objects -> [Channels -> Nat \cup {Null}]]
      /\ subscriptionCounter \in [Objects -> Nat]
  BY <1>0, TypesOf
<1>1. CASE \E q \in Objects : Login(q)
  BY <1>0, <1>1, LoginTalks
<1>2. CASE LoginFails \/ ReportThrows
  <2>1. ~ Up(p)' /\ UNCHANGED <<socket, subscribed>>
    BY <1>2, Known DEF LoginFails, ReportThrows, Abort, Up
  <2> QED
    BY <2>1 DEF ClientSide, NothingSubscribed
<1>3. ASSUME Enter, LoggedIn, UNCHANGED <<current, isConnected, wire, socket>>,
             NEW l \in {"lock", "number", "payload"}, Goto(Keyboard, l),
             Up(p) => Talks(p)',
             subscribed' = subscribed \/ \E m : subscribed' = [subscribed EXCEPT ![current] = m]
      PROVE  ClientSide(p)'
  <2>1. NothingSubscribed(p)'
    <3>1. current \in Objects => socket[current] # "new"
      BY <1>0, Known DEF TypeInv, SocketsKept
    <3>2. CASE p = current
      BY <1>3, <3>1, <3>2 DEF NothingSubscribed
    <3>3. CASE p # current
      BY <1>3, <1>a, <3>3 DEF NothingSubscribed, ClientSide
    <3> QED
      BY <3>2, <3>3
  <2>2. Up(p)' => Up(p)
    BY <1>3, <1>a DEF Up, Enter
  <2> QED
    BY <1>3, <2>1, <2>2 DEF ClientSide
<1>4. CASE Logout
  <2>1. Up(p) => Talks(p)'
    <3> SUFFICES ASSUME Up(p) PROVE Talks(p)'
      OBVIOUS
    <3>1. /\ at[Keyboard] = "prompt" /\ at' = [at EXCEPT ![Keyboard] = "lock"]
          /\ draft'[Keyboard].command = "DISCONNECT"
          /\ UNCHANGED <<current, subscribed, subscriptionCounter, wire>>
      BY <1>4, <1>a DEF Logout, Enter, Goto, NewFrame, counters
    <3>2. at'[Keyboard] = "lock" /\ Talks(p)
      BY <1>a, <3>1 DEF ClientSide
    <3>3. Told(p)' = Told(p)
      BY <3>1, <3>2 DEF Told, Ahead
    <3>4. Alternates(p)'
      BY <3>1, <3>2 DEF Talks, Alternates
    <3> QED
      BY <3>1, <3>2, <3>3, <3>4 DEF Talks, Ahead
  <2> QED
    BY <1>3, <1>4, <2>1 DEF Logout
<1>5. ASSUME NEW c \in Channels, Join(c) PROVE ClientSide(p)'
  <2> DEFINE id == subscriptionCounter[current] + 1
             f == NewFrame(Keyboard, "SUBSCRIBE", c, id)
             m == [subscribed[current] EXCEPT ![c] = id]
  <2>1. /\ Enter /\ LoggedIn /\ Goto(Keyboard, "number")
        /\ subscribed' = [subscribed EXCEPT ![current] = m]
        /\ draft' = [draft EXCEPT ![Keyboard] = f]
        /\ subscriptionCounter' = [subscriptionCounter EXCEPT ![current] = id]
        /\ UNCHANGED <<current, isConnected, wire, socket>>
    BY <1>5 DEF Join
  <2>2. ASSUME Up(p) PROVE Talks(p)'
    <3>1. current = p /\ id \in Nat /\ subscriptionCounter'[p] = id /\ subscriptionCounter[p] < id
          /\ subscribed'[p] = [subscribed[p] EXCEPT ![c] = id] /\ subscriptionCounter[p] \in Nat
      BY <1>a, <2>1, <2>2 DEF ClientSide, Talks
    <3>2. /\ f \in Frame /\ f.command = "SUBSCRIBE" /\ f.channel = c /\ f.id = id
      BY <3>1, Known DEF NewFrame, Frame
    <3>3. at[Keyboard] = "prompt" /\ at' = [at EXCEPT ![Keyboard] = "number"] /\ draft'[Keyboard] = f
      BY <2>1, <1>a DEF Enter, Goto
    <3> HIDE DEF f, id
    <3>4. ASSUME NEW d \in Channels, NEW s \in Nat
          PROVE  subscribed'[p][d] = s
                   <=> Subscribes(f, d, s) \/ (subscribed[p][d] = s /\ ~ Overrides(f, d, s))
      BY <1>a, <3>1, <3>2 DEF Subscribes, Overrides
    <3> QED
      BY <1>0, <2>1, <2>2, <3>1, <3>2, <3>3, <3>4, FrameTalks
  <2> QED
    BY <1>3, <2>1, <2>2
<1>6. ASSUME NEW c \in Channels, Leave(c) PROVE ClientSide(p)'
  <2> DEFINE id == subscribed[current][c]
             f == NewFrame(Keyboard, "UNSUBSCRIBE", Null, id)
             m == [subscribed[current] EXCEPT ![c] = Null]
  <2>1. /\ Enter /\ LoggedIn /\ Goto(Keyboard, "number") /\ id # Null
        /\ subscribed' = [subscribed EXCEPT ![current] = m]
        /\ draft' = [draft EXCEPT ![Keyboard] = f]
        /\ UNCHANGED <<current, isConnected, wire, socket, subscriptionCounter>>
    BY <1>6 DEF Leave, counters
  <2>2. ASSUME Up(p) PROVE Talks(p)'
    <3>1. /\ current = p /\ id \in Nat /\ subscriptionCounter[p] \in Nat /\ id = subscribed[p][c]
          /\ subscribed'[p] = [subscribed[p] EXCEPT ![c] = Null]
      BY <1>a, <2>1, <2>2 DEF ClientSide, Talks
    <3>2. /\ f \in Frame /\ f.command = "UNSUBSCRIBE" /\ f.id = id
      BY <3>1, Known DEF NewFrame, Frame
    <3>3. at[Keyboard] = "prompt" /\ at' = [at EXCEPT ![Keyboard] = "number"] /\ draft'[Keyboard] = f
      BY <2>1, <1>a DEF Enter, Goto
    <3> HIDE DEF f, id
    <3>4. ASSUME NEW d \in Channels, subscribed[p][d] = id
          PROVE  d = c
      <4>1. Records(wire[p], subscribed[p], subscriptionCounter[p])
        BY <2>2, <3>1, <3>3 DEF ClientSide, Talks, Told, Ahead
      <4>2. Stands(wire[p], Len(wire[p]), d, id) /\ Stands(wire[p], Len(wire[p]), c, id)
        BY <3>1, <3>4, <4>1 DEF Records
      <4>3. PICK k \in 1..Len(wire[p]) : Subscribes(wire[p][k], d, id)
        BY <4>2 DEF Stands
      <4>4. PICK j \in 1..Len(wire[p]) : Subscribes(wire[p][j], c, id)
        BY <4>2 DEF Stands
      <4>5. j = k
        BY <4>1, <4>3, <4>4 DEF Records, Subscribes
      <4> QED
        BY <4>3, <4>4, <4>5 DEF Subscribes
    <3>5. ASSUME NEW d \in Channels, NEW s \in Nat
          PROVE  subscribed'[p][d] = s
                   <=> Subscribes(f, d, s) \/ (subscribed[p][d] = s /\ ~ Overrides(f, d, s))
      BY <1>a, <3>1, <3>2, <3>4 DEF Subscribes, Overrides
    <3>6. f.command \notin {"CONNECT", "DISCONNECT", "SUBSCRIBE"}
      BY <3>2
    <3> QED
      BY <1>0, <2>1, <2>2, <3>1, <3>2, <3>3, <3>5, <3>6, FrameTalks
  <2> QED
    BY <1>3, <2>1, <2>2
<1>7. ASSUME NEW c \in Channels, NEW n \in 1..MaxEvents, Report(c, n) PROVE ClientSide(p)'
  <2> DEFINE f == NewFrame(Keyboard, "SEND", c, Null)
  <2>1. /\ Enter /\ LoggedIn /\ Goto(Keyboard, "payload")
        /\ draft' = [draft EXCEPT ![Keyboard] = f]
        /\ UNCHANGED <<current, isConnected, wire, socket, subscribed, subscriptionCounter>>
    BY <1>7 DEF Report, counters
  <2>2. ASSUME Up(p) PROVE Talks(p)'
    <3>1. f \in Frame /\ f.command = "SEND"
      BY Known DEF NewFrame, Frame
    <3>2. at[Keyboard] = "prompt" /\ at' = [at EXCEPT ![Keyboard] = "payload"] /\ draft'[Keyboard] = f
      BY <2>1, <1>a DEF Enter, Goto
    <3> HIDE DEF f
    <3>3. \A d, s : ~ Subscribes(f, d, s) /\ ~ Overrides(f, d, s)
      BY <3>1, NeutralSays DEF Neutral
    <3>4. subscriptionCounter'[p] \in Nat /\ subscriptionCounter[p] \leq subscriptionCounter'[p]
      BY <1>a, <2>1
    <3>5. f.command \notin {"CONNECT", "DISCONNECT", "SUBSCRIBE"}
      BY <3>1
    <3>6. \A d \in Channels, s \in Nat :
            subscribed'[p][d] = s
              <=> Subscribes(f, d, s) \/ (subscribed[p][d] = s /\ ~ Overrides(f, d, s))
      BY <2>1, <3>3
    <3> QED
      BY <1>0, <2>1, <2>2, <3>1, <3>2, <3>4, <3>5, <3>6, FrameTalks
  <2> QED
    BY <1>3, <2>1, <2>2
<1> QED
  BY <1>1, <1>2, <1>4, <1>5, <1>6, <1>7 DEF Command

\* The keyboard thread goes from place to place and writes nothing.
LEMMA PlaceTalks ==
  ASSUME TypeInv, NEW p \in Objects, Talks(p), NEW l \in Place, at'[Keyboard] = l,
         at[Keyboard] # "null", l # "null",
         at[Keyboard] \in Ahead <=> l \in Ahead,
         l = "sent" => at[Keyboard] = "sent",
         l \in Writing => at[Keyboard] \in Writing /\ at'[p] = at[p],
         l \in Writing => Alike(draft[Keyboard], draft'[Keyboard]) /\ draft'[Keyboard] \in Frame,
         UNCHANGED <<current, subscribed, subscriptionCounter, wire>>
  PROVE  Talks(p)'
<1> USE DEF Ahead, Writing
<1>1. Alternates(p)'
  BY DEF Talks, Alternates
<1>2. Records(Told(p), subscribed[p], subscriptionCounter[p])'
  <2>1. CASE l \notin Ahead
    <3>1. Told(p)' = wire[p] /\ Told(p) = wire[p]
      BY <2>1 DEF Told
    <3> QED
      BY <3>1 DEF Talks
  <2>2. CASE l \in Ahead
    <3> DEFINE f == draft[Keyboard]
               g == draft'[Keyboard]
    <3>1. Told(p)' = Append(wire[p], g) /\ Told(p) = Append(wire[p], f)
      BY <2>2 DEF Told, Talks
    <3>2. /\ wire[p] \in Seq(Frame \cup {Delimiter}) /\ f \in Frame \cup {Delimiter}
          /\ g \in Frame \cup {Delimiter} /\ Alike(f, g)
      BY <2>2, TypesOf
    <3>3. Records(Append(wire[p], f), subscribed[p], subscriptionCounter[p])
      BY <3>1 DEF Talks
    <3> HIDE DEF f, g
    <3>4. /\ Append(wire[p], f) \in Seq(Frame \cup {Delimiter})
          /\ Append(wire[p], g) \in Seq(Frame \cup {Delimiter})
          /\ Len(Append(wire[p], g)) = Len(Append(wire[p], f))
          /\ Len(Append(wire[p], f)) = Len(wire[p]) + 1
      BY <3>2
    <3>5. \A k \in 1..Len(wire[p]) + 1 : Alike(Append(wire[p], f)[k], Append(wire[p], g)[k])
      <4> SUFFICES ASSUME NEW k \in 1..Len(wire[p]) + 1
                   PROVE  Alike(Append(wire[p], f)[k], Append(wire[p], g)[k])
        OBVIOUS
      <4>1. CASE k = Len(wire[p]) + 1
        BY <3>2, <4>1
      <4>2. CASE k \in 1..Len(wire[p])
        <5>1. Append(wire[p], f)[k] = wire[p][k] /\ Append(wire[p], g)[k] = wire[p][k]
          BY <3>2, <4>2
        <5> QED
          BY <5>1 DEF Alike
      <4>3. Len(wire[p]) \in Nat
        BY <3>2
      <4> QED
        BY <4>1, <4>2, <4>3
    <3>6. \A k \in 1..Len(Append(wire[p], f)) : Alike(Append(wire[p], f)[k], Append(wire[p], g)[k])
      BY <3>4, <3>5
    <3>7. Records(Append(wire[p], g), subscribed[p], subscriptionCounter[p])
      BY <3>3, <3>4, <3>6, RecordsAlike
    <3> QED
      BY <3>1, <3>7 DEF g
  <2> QED
    BY <2>1, <2>2
<1>3. (at[Keyboard] \in Writing /\ draft[Keyboard].command = "CONNECT" => at[p] \in {"none", "aborted"})'
  BY DEF Talks, Alike
<1>4. (at[Keyboard] \in Ahead \cup {"null", "sent"} => draft[Keyboard].command # "DISCONNECT")'
  BY DEF Talks, Alike
<1> QED
  BY <1>1, <1>2, <1>3, <1>4 DEF Talks

\* An item more on the wire: the frame, or its delimiter.
LEMMA WriteTalks ==
  ASSUME TypeInv, NEW p \in Objects, Talks(p),
         Payload(Keyboard) \/ End(Keyboard)
  PROVE  Talks(p)'
<1>0. /\ wire[p] \in Seq(Frame \cup {Delimiter}) /\ Len(wire[p]) \in Nat
      /\ at \in [Threads -> Place] /\ p # Keyboard /\ p \in Threads /\ Keyboard \in Threads
      /\ wire \in [Objects -> Seq(Frame \cup {Delimiter})]
      /\ current = p /\ draft[Keyboard] \in Frame /\ subscriptionCounter[p] \in Nat
  BY TypesOf DEF Payload, End, Writing, Talks
<1>1. Object(Keyboard) = p
  BY <1>0, Known
<1>2. ASSUME NEW item \in Frame \cup {Delimiter}, NEW l \in {"null", "sent"}, Write(Keyboard, item, l),
             at[Keyboard] \in {"payload", "null"},
             l = "null" <=> at[Keyboard] = "payload", l = "null" <=> item # Delimiter
      PROVE  /\ wire'[p] = Append(wire[p], item) /\ at'[Keyboard] = l
             /\ UNCHANGED <<current, subscribed, subscriptionCounter, draft>>
             /\ at'[p] = at[p] /\ Alternates(p)'
             /\ Told(p)' = Append(wire[p], item)
  <2>1. /\ wire'[p] = Append(wire[p], item) /\ at'[Keyboard] = l
        /\ UNCHANGED <<current, subscribed, subscriptionCounter, draft>>
        /\ at'[p] = at[p]
    BY <1>0, <1>1, <1>2 DEF Write, Goto, main, counters
  <2>2. Told(p)' = Append(wire[p], item)
    BY <1>2, <2>1 DEF Told, Ahead
  <2> DEFINE q == wire[p]
             r == Append(q, item)
  <2>3. /\ Len(r) = Len(q) + 1 /\ r[Len(q) + 1] = item /\ \A k \in 1..Len(q) : r[k] = q[k]
    BY <1>0
  <2>4. /\ \A k \in 1..Len(q) :
             /\ k = 1 => q[k] # Delimiter
             /\ k + 1 \in 1..Len(q) => (q[k] = Delimiter <=> q[k + 1] # Delimiter)
        /\ Len(q) > 0 => (q[Len(q)] # Delimiter <=> at[Keyboard] = "null")
        /\ at[Keyboard] = "null" => Len(q) > 0
    BY DEF Talks, Alternates
  <2> HIDE DEF q, r
  <2>5. Len(q) \in Nat
    BY <1>0 DEF q
  <2>6. ASSUME NEW k \in 1..Len(r)
        PROVE  /\ k = 1 => r[k] # Delimiter
               /\ k + 1 \in 1..Len(r) => (r[k] = Delimiter <=> r[k + 1] # Delimiter)
    <3>1. CASE k = Len(q) + 1
      <4>1. k = 1 => l = "null"
        BY <1>2, <2>4, <2>5, <3>1
      <4>2. k + 1 \notin 1..Len(r)
        BY <2>3, <2>5, <3>1
      <4> QED
        BY <1>2, <2>3, <3>1, <4>1, <4>2
    <3>2. CASE k = Len(q) /\ Len(q) > 0
      <4>1. r[k] = q[k] /\ r[k + 1] = item
        BY <2>3, <2>5, <3>2
      <4>2. q[k] = Delimiter <=> item # Delimiter
        BY <1>2, <2>4, <3>2
      <4> QED
        BY <2>4, <3>2, <4>1, <4>2
    <3>3. CASE k \in 1..Len(q) /\ k + 1 \in 1..Len(q)
      BY <2>3, <2>4, <3>3
    <3> QED
      BY <2>3, <2>5, <3>1, <3>2, <3>3
  <2>7. r[Len(r)] # Delimiter <=> l = "null"
    BY <1>2, <2>3
  <2>8. wire'[p] = r /\ at'[Keyboard] = l
    BY <2>1 DEF r, q
  <2>9. Alternates(p)'
    <3>1. Len(r) > 0
      BY <2>3, <2>5
    <3>2. \A k \in 1..Len(wire'[p]) :
            /\ k = 1 => wire'[p][k] # Delimiter
            /\ k + 1 \in 1..Len(wire'[p])
                 => (wire'[p][k] = Delimiter <=> wire'[p][k + 1] # Delimiter)
      BY <2>6, <2>8, Zenon
    <3>3. Len(wire'[p]) > 0 /\ (wire'[p][Len(wire'[p])] # Delimiter <=> at'[Keyboard] = "null")
      BY <2>7, <2>8, <3>1, Zenon
    <3> QED
      BY <3>2, <3>3, Zenon DEF Alternates
  <2> QED
    BY <2>1, <2>2, <2>9
<1>3. CASE Payload(Keyboard)
  <2>1. draft[Keyboard] # Delimiter
    BY <1>0, NoDelimiter
  <2>2. /\ wire'[p] = Append(wire[p], draft[Keyboard]) /\ at'[Keyboard] = "null"
        /\ UNCHANGED <<current, subscribed, subscriptionCounter, draft>>
        /\ at'[p] = at[p] /\ Alternates(p)'
        /\ Told(p)' = Append(wire[p], draft[Keyboard])
    BY <1>0, <1>2, <1>3, <2>1 DEF Payload
  <2>3. Told(p)' = Told(p)
    BY <1>0, <1>3, <2>2 DEF Told, Payload, Ahead
  <2> QED
    BY <1>3, <2>2, <2>3 DEF Talks, Payload, Ahead, Writing
<1>4. CASE End(Keyboard)
  <2>1. /\ wire'[p] = Append(wire[p], Delimiter) /\ at'[Keyboard] = "sent"
        /\ UNCHANGED <<current, subscribed, subscriptionCounter, draft>>
        /\ at'[p] = at[p] /\ Alternates(p)'
        /\ Told(p)' = Append(wire[p], Delimiter)
    BY <1>0, <1>2, <1>4 DEF End
  <2>2. Told(p) = wire[p]
    BY <1>4 DEF Told, End, Ahead
  <2>3. \A c, s : ~ Subscribes(Delimiter, c, s) /\ ~ Overrides(Delimiter, c, s)
    BY DEF Subscribes, Overrides, Delimiter
  <2>4. /\ Delimiter.command # "SUBSCRIBE" /\ Delimiter \in Frame \cup {Delimiter}
        /\ subscriptionCounter[p] \leq subscriptionCounter[p]
    BY <1>0 DEF Delimiter
  <2>5. \A c \in Channels, s \in Nat :
          subscribed[p][c] = s
            <=> Subscribes(Delimiter, c, s) \/ (subscribed[p][c] = s /\ ~ Overrides(Delimiter, c, s))
    BY <2>3
  <2>6. Records(wire[p], subscribed[p], subscriptionCounter[p])
    BY <2>2 DEF Talks
  <2>7. Records(Append(wire[p], Delimiter), subscribed[p], subscriptionCounter[p])
    BY <1>0, <2>4, <2>5, <2>6, RecordsAppend
  <2> QED
    BY <1>4, <2>1, <2>7 DEF Talks, End, Ahead, Writing
<1> QED
  BY <1>3, <1>4

LEMMA KeyboardTalks ==
  ASSUME ClientInv, NEW p \in Objects, ClientSide(p),
         \/ Inside(Keyboard) \/ Payload(Keyboard) \/ End(Keyboard) \/ KeyboardDone
         \/ WriteFails(Keyboard) /\ ~ Up(p)
  PROVE  ClientSide(p)'
<1>0. TypeInv /\ Object(Keyboard) = current
  BY Known DEF ClientInv
<1>a. /\ at \in [Threads -> Place] /\ draft \in [Threads -> Frame \cup {Null}]
      /\ wire[p] \in Seq(Frame \cup {Delimiter}) /\ p # Keyboard
      /\ p \in Threads /\ Keyboard \in Threads /\ p # Null
      /\ isConnected \in [Objects -> BOOLEAN]
      /\ subscriptionCounter[p] \in Nat
      /\ at[Keyboard] \in Writing => draft[Keyboard] \in Frame /\ current \in Objects
  BY <1>0, TypesOf
<1>1. ASSUME UNCHANGED <<socket, subscribed>>, isConnected' = isConnected, at[Keyboard] # "aborted",
             Up(p) /\ Talks(p) => Talks(p)'
      PROVE  ClientSide(p)'
  <2>1. Up(p)' => Up(p)
    BY <1>1 DEF Up
  <2> QED
    BY <1>1, <2>1 DEF ClientSide, NothingSubscribed
<1>2. ASSUME UNCHANGED <<socket, subscribed>>, ~ Up(p)'
      PROVE  ClientSide(p)'
  BY <1>2 DEF ClientSide, NothingSubscribed
<1>3. CASE Payload(Keyboard) \/ End(Keyboard)
  BY <1>0, <1>1, <1>3, WriteTalks DEF Payload, End, Write, main
<1>4. CASE WriteFails(Keyboard) /\ ~ Up(p)
  <2>1. ~ Up(p) /\ UNCHANGED <<socket, subscribed, isConnected>> /\ at[Keyboard] \in {"payload", "null"}
    BY <1>4 DEF WriteFails, main
  <2> QED
    BY <1>1, <2>1
<1>5. CASE Lock(Keyboard)
  <2>1. /\ at[Keyboard] = "lock" /\ at' = [at EXCEPT ![Keyboard] = "flag"]
        /\ UNCHANGED <<current, subscribed, subscriptionCounter, wire, socket, isConnected, draft>>
    BY <1>5 DEF Lock, Goto, main, counters
  <2> QED
    BY <1>0, <1>1, <1>a, <2>1, PlaceTalks DEF Ahead, Writing, Place, Alike
<1>6. CASE TestAndClear(Keyboard)
  <2>1. /\ at[Keyboard] = "flag" /\ isConnected' = [isConnected EXCEPT ![current] = FALSE]
        /\ UNCHANGED <<socket, subscribed>>
    BY <1>0, <1>6 DEF TestAndClear, main
  <2>2. Up(p) => current = p
    BY DEF ClientSide, Talks
  <2>3. ~ Up(p)'
    BY <1>a, <2>1, <2>2 DEF Up
  <2> QED
    BY <1>2, <2>1, <2>3
<1>7. CASE Number(Keyboard)
  <2> DEFINE g == [draft[Keyboard] EXCEPT !.receipt = receiptCounter[current]]
  <2>1. /\ at[Keyboard] = "number" /\ at' = [at EXCEPT ![Keyboard] = "load"]
        /\ draft' = [draft EXCEPT ![Keyboard] = g]
        /\ UNCHANGED <<current, subscribed, subscriptionCounter, wire, socket, isConnected>>
    BY <1>0, <1>7 DEF Number, Goto, main
  <2>2. draft[Keyboard] \in Frame /\ receiptCounter[current] \in Nat
    BY <1>0, <1>a, <2>1 DEF Writing, TypeInv, TypeOK
  <2>3. g \in Frame /\ Alike(draft[Keyboard], g)
    BY <2>2 DEF Frame, Alike
  <2> HIDE DEF g
  <2> QED
    BY <1>0, <1>1, <1>a, <2>1, <2>3, PlaceTalks DEF Ahead, Writing, Place
<1>8. CASE Load(Keyboard) \/ Store(Keyboard)
  <2>1. PICK l \in {"store", "payload"} :
        /\ at[Keyboard] \in {"load", "store"} /\ at' = [at EXCEPT ![Keyboard] = l]
        /\ UNCHANGED <<current, subscribed, subscriptionCounter, wire, socket, isConnected, draft>>
    BY <1>8 DEF Load, Store, Goto, main
  <2> QED
    BY <1>0, <1>1, <1>a, <2>1, PlaceTalks DEF Ahead, Writing, Place, Alike
<1>9. CASE LoginDone \/ SubscriptionDone
  <2>1. /\ at[Keyboard] = "sent" /\ at'[Keyboard] = "prompt"
        /\ UNCHANGED <<current, subscribed, subscriptionCounter, wire, socket, isConnected>>
    BY <1>9, <1>a DEF LoginDone, SubscriptionDone, Goto, main, counters, Writing
  <2> QED
    BY <1>0, <1>1, <1>a, <2>1, PlaceTalks DEF Ahead, Writing, Place
<1>10. CASE NextEvent
  <2>1. /\ at[Keyboard] = "sent" /\ draft[Keyboard].command = "SEND"
        /\ UNCHANGED <<current, subscribed, subscriptionCounter, wire, socket, isConnected>>
        /\ \/ at' = [at EXCEPT ![Keyboard] = "payload"] /\ draft' = draft
           \/ at' = [at EXCEPT ![Keyboard] = "prompt"]
    BY <1>10 DEF NextEvent, Goto, counters
  <2>2. CASE at' = [at EXCEPT ![Keyboard] = "payload"] /\ draft' = draft
    <3>1. draft[Keyboard] \in Frame
      BY <1>a, <2>1 DEF Writing
    <3>2. \A c, s : ~ Subscribes(draft[Keyboard], c, s) /\ ~ Overrides(draft[Keyboard], c, s)
      BY <2>1, NeutralSays DEF Neutral
    <3>3. ASSUME Up(p) PROVE Talks(p)'
      <4>1. \A c \in Channels, s \in Nat :
              subscribed'[p][c] = s
                <=> \/ Subscribes(draft[Keyboard], c, s)
                    \/ (subscribed[p][c] = s /\ ~ Overrides(draft[Keyboard], c, s))
        BY <2>1, <3>2
      <4>2. subscriptionCounter'[p] \in Nat /\ subscriptionCounter[p] \leq subscriptionCounter'[p]
        BY <1>a, <2>1
      <4>3. draft[Keyboard].command \notin {"CONNECT", "DISCONNECT", "SUBSCRIBE"}
        BY <2>1
      <4> QED
        BY <1>0, <2>1, <2>2, <3>1, <3>3, <4>1, <4>2, <4>3, FrameTalks
    <3> QED
      BY <1>1, <2>1, <3>3
  <2>3. CASE at' = [at EXCEPT ![Keyboard] = "prompt"]
    BY <1>0, <1>1, <1>a, <2>1, <2>3, PlaceTalks DEF Ahead, Writing, Place
  <2> QED
    BY <2>1, <2>2, <2>3
<1>11. CASE LogoutDone
  <2>1. /\ at[Keyboard] = "sent" /\ draft[Keyboard].command = "DISCONNECT"
        /\ UNCHANGED <<subscribed, socket, isConnected>>
    BY <1>11 DEF LogoutDone
  <2>2. ~ Talks(p)
    BY <2>1 DEF Talks
  <2> QED
    BY <1>1, <2>1, <2>2
<1> QED
  BY <1>3, <1>4, <1>5, <1>6, <1>7, <1>8, <1>9, <1>10, <1>11 DEF Inside, KeyboardDone
-----------------------------------------------------------------------------
(* The server's side of a connection that is up *)

\* An entry more or less in a list is nothing to another entry.
LEMMA AppendOther ==
  ASSUME NEW T, NEW q \in Seq(T), NEW e \in T, NEW x, x # e
  PROVE  /\ x \in S!ToSet(Append(q, e)) <=> x \in S!ToSet(q)
         /\ S!Once(q, x) => S!Once(Append(q, e), x)
<1> DEFINE r == Append(q, e)
<1>1. /\ Len(r) = Len(q) + 1 /\ r[Len(q) + 1] = e /\ \A k \in 1..Len(q) : r[k] = q[k]
      /\ Len(q) \in Nat /\ DOMAIN q = 1..Len(q) /\ DOMAIN r = 1..Len(q) + 1
  OBVIOUS
<1> HIDE DEF r
<1>2. x \in S!ToSet(r) <=> x \in S!ToSet(q)
  BY <1>1 DEF S!ToSet
<1>3. S!Once(q, x) => S!Once(r, x)
  BY <1>1 DEF S!Once
<1> QED
  BY <1>2, <1>3 DEF r

LEMMA RemoveOther ==
  ASSUME NEW T, NEW q \in Seq(T), NEW e, NEW x
  PROVE  /\ x # e => (x \in S!ToSet(S!RemoveFirst(q, e)) <=> x \in S!ToSet(q))
         /\ x \in S!ToSet(S!RemoveFirst(q, e)) => x \in S!ToSet(q)
         /\ S!Once(q, x) => S!Once(S!RemoveFirst(q, e), x)
<1> DEFINE r == S!RemoveFirst(q, e)
<1>1. CASE ~ \E i \in 1..Len(q) : q[i] = e
  BY <1>1 DEF S!RemoveFirst, S!ToSet
<1>2. CASE \E i \in 1..Len(q) : q[i] = e
  <2>1. PICK k \in 1..Len(q) :
          /\ q[k] = e
          /\ r \in Seq(T)
          /\ Len(r) = Len(q) - 1
          /\ \A i \in 1..Len(q) - 1 : r[i] = IF i < k THEN q[i] ELSE q[i + 1]
    BY <1>2, S!RemoveFirstIs, ServerKnown
  <2>2. Len(q) \in Nat /\ DOMAIN q = 1..Len(q) /\ DOMAIN r = 1..Len(q) - 1
    BY <2>1
  <2> HIDE DEF r
  <2>3. ASSUME x \in S!ToSet(r) PROVE x \in S!ToSet(q)
    <3>1. PICK i \in 1..Len(q) - 1 : r[i] = x
      BY <2>2, <2>3 DEF S!ToSet
    <3>2. i \in 1..Len(q) /\ i + 1 \in 1..Len(q) /\ (x = q[i] \/ x = q[i + 1])
      BY <2>1, <2>2, <3>1
    <3> QED
      BY <2>2, <3>2 DEF S!ToSet
  <2>4. ASSUME x \in S!ToSet(q), x # e PROVE x \in S!ToSet(r)
    <3>1. PICK i \in 1..Len(q) : q[i] = x
      BY <2>2, <2>4 DEF S!ToSet
    <3>2. CASE i < k
      BY <2>1, <2>2, <3>1, <3>2 DEF S!ToSet
    <3>3. CASE i > k
      <4>1. i - 1 \in 1..Len(q) - 1 /\ r[i - 1] = q[i]
        BY <2>1, <2>2, <3>3
      <4> QED
        BY <2>2, <3>1, <4>1 DEF S!ToSet
    <3> QED
      BY <2>1, <2>2, <2>4, <3>1, <3>2, <3>3
  <2>5. ASSUME S!Once(q, x) PROVE S!Once(r, x)
    <3> SUFFICES ASSUME NEW i \in 1..Len(q) - 1, NEW j \in 1..Len(q) - 1, r[i] = x, r[j] = x
                 PROVE  i = j
      BY <2>2 DEF S!Once
    <3>1. \A m, n \in 1..Len(q) : q[m] = x /\ q[n] = x => m = n
      BY <2>2, <2>5 DEF S!Once
    <3> DEFINE from(m) == IF m < k THEN m ELSE m + 1
    <3>2. ASSUME NEW m \in 1..Len(q) - 1
          PROVE  from(m) \in 1..Len(q) /\ q[from(m)] = r[m]
      BY <2>1, <2>2
    <3>3. from(i) = from(j)
      <4>1. from(i) \in 1..Len(q) /\ q[from(i)] = x
        BY <3>2
      <4>2. from(j) \in 1..Len(q) /\ q[from(j)] = x
        BY <3>2
      <4> HIDE DEF from
      <4> QED
        BY <3>1, <4>1, <4>2
    <3> QED
      BY <2>2, <3>3
  <2> QED
    BY <2>3, <2>4, <2>5 DEF r
<1> QED
  BY <1>1, <1>2

\* Who is added, or removed, to or from a list he is in at most once.
LEMMA AppendSelf ==
  ASSUME NEW T, NEW q \in Seq(T), NEW e \in T, e \notin S!ToSet(q)
  PROVE  e \in S!ToSet(Append(q, e)) /\ S!Once(Append(q, e), e)
<1>1. /\ S!ToSet(Append(q, e)) = S!ToSet(q) \cup {e} /\ S!Once(Append(q, e), e)
  BY ServerKnown, S!AppendListed
<1> QED
  BY <1>1

LEMMA RemoveSelf ==
  ASSUME NEW T, NEW q \in Seq(T), NEW e, S!Once(q, e)
  PROVE  e \notin S!ToSet(S!RemoveFirst(q, e))
<1>1. S!ToSet(S!RemoveFirst(q, e)) = S!ToSet(q) \ {e}
  BY ServerKnown, S!RemoveListed
<1> QED
  BY <1>1

\* The lists hold ids that were given out.
KnownLists == \A c \in Channels : \A i \in S!ToSet(channels[c]) : i < counter

\* A handler's step moves no entry but its own.
LEMMA OthersLists ==
  ASSUME S!SessionInv, S!TypeInv, NEW h \in Objects, S!ThreadStep(h), NEW x, x # connectionId[h],
         NEW c \in Channels
  PROVE  /\ x \in S!ToSet(channels'[c]) <=> x \in S!ToSet(channels[c])
         /\ S!Once(channels[c], x) => S!Once(channels'[c], x)
<1>0. /\ channels \in [Channels -> Seq(Ids)] /\ channels[c] \in Seq(Ids)
      /\ pc \in [Objects -> S!Step]
      /\ pc[h] # "off" => connectionId[h] \in Ids
  BY DEF S!TypeInv, S!BrokerInv, S!BrokerTypeOK, S!Equipped
<1>1. CASE channels' = channels
  BY <1>1
<1>2. CASE S!Subscribe(h)
  <2>1. PICK d : channels' = [channels EXCEPT ![d] = Append(@, connectionId[h])]
    BY <1>2 DEF S!Subscribe
  <2>2. connectionId[h] \in Ids
    BY <1>0, <1>2 DEF S!Subscribe, S!Handles
  <2>3. channels'[c] \in {channels[c], Append(channels[c], connectionId[h])}
    BY <1>0, <2>1
  <2>4. /\ x \in S!ToSet(Append(channels[c], connectionId[h])) <=> x \in S!ToSet(channels[c])
        /\ S!Once(channels[c], x) => S!Once(Append(channels[c], connectionId[h]), x)
    BY <1>0, <2>2, AppendOther
  <2> QED
    BY <2>3, <2>4
<1>3. CASE S!Unsubscribe(h)
  <2>1. PICK d : channels' = [channels EXCEPT ![d] = S!RemoveFirst(@, connectionId[h])]
    BY <1>3 DEF S!Unsubscribe
  <2>2. channels'[c] \in {channels[c], S!RemoveFirst(channels[c], connectionId[h])}
    BY <1>0, <2>1
  <2> QED
    BY <1>0, <2>2, RemoveOther
<1>4. ASSUME NEW d \in Channels, S!Clean(h, d)
      PROVE  /\ x \in S!ToSet(channels'[c]) <=> x \in S!ToSet(channels[c])
             /\ S!Once(channels[c], x) => S!Once(channels'[c], x)
  <2>1. leaving[h] = connectionId[h]
    BY <1>4 DEF S!Clean, S!SessionInv, S!PlaceOfProtocol
  <2>2. channels'[c] \in {channels[c], S!RemoveFirst(channels[c], connectionId[h])}
    BY <1>0, <1>4, <2>1 DEF S!Clean
  <2> QED
    BY <1>0, <2>2, RemoveOther
<1> QED
  BY <1>1, <1>2, <1>3, <1>4
     DEF S!ThreadStep, S!Silent, S!Refuse, S!Register, S!Login,
         S!Snapshot, S!Visit, S!EndOfSend, S!Farewell, S!Logout, S!Deliver,
         S!Delivered, S!SendReceipt, S!Receipted, S!Close, S!Unregister, S!Reply, S!Exit, S!tables

LEMMA KnownListsKept ==
  ASSUME S!SessionInv, S!TypeInv, S!TypeInv', KnownLists, [S!Next]_(S!vars)
  PROVE  KnownLists'
<1>0. /\ channels \in [Channels -> Seq(Ids)] /\ counter \in Nat /\ counter' \in Nat /\ Ids \subseteq Nat
      /\ channels' \in [Channels -> Seq(Ids)]
  BY ServerKnown DEF S!TypeInv, S!BrokerInv, S!BrokerTypeOK, S!TransportTypeOK
<1>1. ASSUME counter \leq counter',
             \A c \in Channels : \A i \in S!ToSet(channels'[c]) :
               i \in S!ToSet(channels[c]) \/ i < counter
      PROVE  KnownLists'
  <2> SUFFICES ASSUME NEW c \in Channels, NEW i \in S!ToSet(channels'[c])
               PROVE  i < counter'
    BY DEF KnownLists, S!ToSet
  <2>1. i < counter
    BY <1>1 DEF KnownLists
  <2>2. i \in Nat
    <3>1. channels'[c] \in Seq(Ids)
      BY <1>0
    <3>2. PICK k \in DOMAIN channels'[c] : i = channels'[c][k]
      BY DEF S!ToSet
    <3>3. i \in Ids
      BY <3>1, <3>2
    <3> QED
      BY <1>0, <3>3
  <2> QED
    BY <1>0, <1>1, <2>1, <2>2
<1>2. CASE UNCHANGED <<channels, counter>>
  BY <1>0, <1>1, <1>2
<1>3. ASSUME NEW h \in Objects, S!Accept(h) PROVE KnownLists'
  <2>1. channels' = channels /\ counter' = counter + 1
    BY <1>3 DEF S!Accept
  <2> QED
    BY <1>0, <1>1, <2>1
<1>4. ASSUME NEW h \in Objects, S!ThreadStep(h) PROVE KnownLists'
  <2>1. counter' = counter
    BY <1>4 DEF S!ThreadStep, S!Deliver, S!SendReceipt, S!Close, S!Reply, S!Exit, S!Write, S!transport
  <2>2. CASE connectionId[h] # Null
    <3>1. connectionId[h] < counter
      BY <2>2 DEF S!SessionInv, S!Registered
    <3>2. \A c \in Channels : \A i \in S!ToSet(channels'[c]) :
            i \in S!ToSet(channels[c]) \/ i = connectionId[h]
      BY <1>4, OthersLists
    <3> QED
      BY <1>0, <1>1, <2>1, <3>1, <3>2
  <2>3. CASE connectionId[h] = Null
    <3>1. pc[h] = "off"
      BY <2>3 DEF S!SessionInv, S!Registered
    <3> QED
      BY <1>4, <3>1
         DEF S!ThreadStep, S!Silent, S!Refuse, S!Register, S!Login, S!Subscribe, S!Unsubscribe,
             S!Snapshot, S!Visit, S!EndOfSend, S!Farewell, S!Logout, S!Clean, S!Deliver,
             S!Delivered, S!SendReceipt, S!Receipted, S!Close, S!Unregister, S!Reply, S!Exit,
             S!Handles
  <2> QED
    BY <2>2, <2>3
<1> QED
  BY <1>2, <1>3, <1>4
     DEF S!Next, S!vars, S!brokerVars, S!tables, S!transport, S!Receive, S!ClientRead, S!ClientDrop

IsError(m) == m # Null /\ m.command = "ERROR"

\* The reader has an ERROR frame in its hands.
GivesUp(p) == at[p] \in {"handle", "lock", "flag"} /\ got[p].command = "ERROR"

\* A frame of p was refused, and the reader has not given the connection up yet.
Refusing(p) ==
  \/ pc[p] = "reply" /\ IsError(reply[p])
  \/ \E k \in DOMAIN outbox[p] : IsError(outbox[p][k])
  \/ GivesUp(p)

\* A handler that serves nobody yet.
Unused(p) ==
  pc[p] = "off" =>
    /\ connected[p]
    /\ \A h \in Objects : target[h] # p
    /\ \A i \in Ids : connections[i] # p
    /\ \A s \in SubIds : subscriptions[p][s] = Null

\* The server's thread is there for p, and was not told to end the session.
Serves(p) ==
  /\ clientUp[p] /\ open[p] /\ connected[p]
  /\ pc[p] \in {"read", "process", "login", "fanout", "deliver", "reply"}
  /\ pc[p] = "process" => frame[p].command # "DISCONNECT"

\* What the server has taken, it has taken frame by frame.
Reads(p) ==
  /\ taken[p] = 0 \/ wire[p][taken[p]] = Delimiter
  /\ \A k \in 1..taken[p] : wire[p][k].command = "SUBSCRIBE" => wire[p][k].id \in SubIds
  /\ pc[p] = "process" =>
       LET w == wire[p][taken[p] - 1]
       IN  /\ taken[p] \geq 2
           /\ frame[p].command = w.command /\ frame[p].id = w.id /\ frame[p].destination = w.channel

\* The frames the server is done with.
Acted(p) == IF pc[p] = "process" THEN taken[p] - 2 ELSE taken[p]

\* The protocol's map and the lists are what those frames leave.
Mirrors(p) ==
  /\ \A c \in Channels, s \in SubIds :
       subscriptions[p][s] = c <=> Stands(wire[p], Acted(p), c, s)
  /\ \A c \in Channels : /\ S!Once(channels[c], connectionId[p])
                         /\ S!Listed(p, c) <=> c \in S!SubscribedTo(p)

ServerSide(p) ==
  /\ Unused(p)
  /\ Up(p) => Serves(p) /\ Reads(p) /\ (Refusing(p) \/ Mirrors(p))

LEMMA ServerTypes ==
  ASSUME S!TypeInv
  PROVE  /\ connections \in [Ids -> Objects \cup {Null}]
         /\ channels \in [Channels -> Seq(Ids)]
         /\ connectionId \in [Objects -> Ids \cup {Null}]
         /\ subscriptions \in [Objects -> [SubIds -> Channels \cup {Null}]]
         /\ pc \in [Objects -> S!Step]
         /\ frame \in [Objects -> ClientFrames \cup {Null}]
         /\ target \in [Objects -> Objects \cup {Null}]
         /\ reply \in [Objects -> S!ServerFrame \cup {Null}]
         /\ connected \in [Objects -> BOOLEAN] /\ open \in [Objects -> BOOLEAN]
         /\ clientUp \in [Objects -> BOOLEAN]
         /\ outbox \in [Objects -> Seq(S!ServerFrame)]
         /\ \A p \in Objects : p # Null
  BY Known DEF S!TypeInv, S!BrokerInv, S!BrokerTypeOK, S!TransportTypeOK

\* A write to a client that is there is an append to its outbox.
LEMMA WriteServes ==
  ASSUME S!TypeInv, NEW p \in Objects, clientUp[p], open[p], NEW g, NEW m, S!Write(g, m)
  PROVE  /\ connected'[p] = connected[p] /\ open' = open /\ clientUp' = clientUp
         /\ outbox'[p] = outbox[p] \/ outbox'[p] = Append(outbox[p], m)
         /\ g = p => outbox'[p] = Append(outbox[p], m)
  BY ServerTypes DEF S!Write

LEMMA ErrorStays ==
  ASSUME NEW T, NEW q \in Seq(T), NEW m
  PROVE  /\ (\E k \in DOMAIN q : IsError(q[k])) => \E k \in DOMAIN Append(q, m) : IsError(Append(q, m)[k])
         /\ IsError(m) => \E k \in DOMAIN Append(q, m) : IsError(Append(q, m)[k])
<1> DEFINE r == Append(q, m)
<1>1. /\ Len(q) \in Nat /\ DOMAIN q = 1..Len(q) /\ DOMAIN r = 1..Len(q) + 1
      /\ r[Len(q) + 1] = m /\ \A k \in 1..Len(q) : r[k] = q[k]
  OBVIOUS
<1> HIDE DEF r
<1>2. (\E k \in DOMAIN q : IsError(q[k])) => \E k \in DOMAIN r : IsError(r[k])
  BY <1>1
<1>3. IsError(m) => \E k \in DOMAIN r : IsError(r[k])
  BY <1>1
<1> QED
  BY <1>2, <1>3 DEF r

\* Another handler's steps leave a connection that is served as it is.
LEMMA OthersServe ==
  ASSUME S!SessionInv, S!TypeInv, NEW h \in Objects, NEW p \in Objects, p # h, Serves(p),
         S!Accept(h) \/ S!ThreadStep(h) \/ S!ClientRead(h) \/ S!ClientDrop(h)
         \/ \E f \in ClientFrames : S!Receive(h, f)
  PROVE  /\ subscriptions'[p] = subscriptions[p] /\ connectionId'[p] = connectionId[p]
         /\ connected'[p] = connected[p] /\ open'[p] = open[p] /\ clientUp'[p] = clientUp[p]
         /\ (\E k \in DOMAIN outbox[p] : IsError(outbox[p][k]))
              => \E k \in DOMAIN outbox'[p] : IsError(outbox'[p][k])
<1> DEFINE Errs == \E k \in DOMAIN outbox[p] : IsError(outbox[p][k])
<1>0. outbox[p] \in Seq(S!ServerFrame) /\ clientUp[p] /\ open[p]
  BY ServerTypes DEF Serves
<1>1. CASE S!Accept(h) \/ S!ClientRead(h) \/ S!ClientDrop(h) \/ \E f \in ClientFrames : S!Receive(h, f)
  BY <1>1, ServerTypes
     DEF S!Accept, S!ClientRead, S!ClientDrop, S!Receive, S!brokerVars, S!locals
<1>2. ASSUME NEW g, NEW m, S!Write(g, m)
      PROVE  /\ connected'[p] = connected[p] /\ open'[p] = open[p] /\ clientUp'[p] = clientUp[p]
             /\ Errs => Errs'
  <2>1. /\ connected'[p] = connected[p] /\ open' = open /\ clientUp' = clientUp
        /\ outbox'[p] = outbox[p] \/ outbox'[p] = Append(outbox[p], m)
    BY <1>0, <1>2, WriteServes
  <2>2. (\E k \in DOMAIN outbox[p] : IsError(outbox[p][k]))
          => \E k \in DOMAIN Append(outbox[p], m) : IsError(Append(outbox[p], m)[k])
    BY <1>0, ErrorStays
  <2> QED
    BY <2>1, <2>2
<1>3. UNCHANGED S!transport => /\ connected'[p] = connected[p] /\ open'[p] = open[p]
                               /\ clientUp'[p] = clientUp[p] /\ (Errs => Errs')
  BY DEF S!transport
<1>4. CASE S!Deliver(h) \/ S!SendReceipt(h) \/ S!Reply(h)
  <2>1. subscriptions' = subscriptions /\ connectionId' = connectionId
    BY <1>4 DEF S!Deliver, S!Delivered, S!SendReceipt, S!Receipted, S!Reply
  <2>2. UNCHANGED S!transport \/ \E g, m : S!Write(g, m)
    BY <1>4 DEF S!Deliver, S!SendReceipt, S!Reply
  <2> QED
    BY <1>2, <1>3, <2>1, <2>2
<1>5. CASE S!Close(h)
  <2>1. /\ subscriptions' = [subscriptions EXCEPT ![h] = [s \in SubIds |-> Null]]
        /\ connectionId' = connectionId /\ pc[h] = "clean"
        /\ UNCHANGED <<clientUp, outbox>>
    BY <1>5 DEF S!Close, S!Unregister
  <2>2. leaving[h] = connectionId[h] /\ connectionId[h] # Null /\ connections[connectionId[h]] \in {h, Null}
    BY <2>1 DEF S!SessionInv, S!PlaceOfProtocol, S!Registered
  <2>3. S!Evicted(h) \in {h, Null}
    BY <2>2 DEF S!Evicted
  <2>4. connected'[p] = connected[p] /\ open'[p] = open[p]
    BY <1>5, <2>3, ServerTypes DEF S!Close
  <2> QED
    BY <2>1, <2>4, ServerTypes
<1>6. CASE S!Exit(h)
  BY <1>6, ServerTypes DEF S!Exit
<1>7. CASE S!Silent(h) /\ UNCHANGED S!transport
  <2>1. subscriptions'[p] = subscriptions[p] /\ connectionId' = connectionId
    BY <1>7, ServerTypes
       DEF S!Silent, S!Refuse, S!Register, S!Login, S!Subscribe, S!Unsubscribe,
           S!Snapshot, S!Visit, S!EndOfSend, S!Farewell, S!Logout, S!Clean
  <2> QED
    BY <1>3, <1>7, <2>1
<1> QED
  BY <1>1, <1>4, <1>5, <1>6, <1>7 DEF S!ThreadStep

\* A handler is started once.
LEMMA NeverOff ==
  ASSUME S!TypeInv, NEW h \in Objects, pc[h] # "off",
         S!Accept(h) \/ S!ThreadStep(h) \/ S!ClientRead(h) \/ S!ClientDrop(h)
         \/ \E f \in ClientFrames : S!Receive(h, f)
  PROVE  pc'[h] # "off"
<1>0. pc \in [Objects -> S!Step]
  BY ServerTypes
<1> USE DEF S!Goto, S!Answer
<1>1. ASSUME NEW l, l # "off", pc' = [pc EXCEPT ![h] = l]
      PROVE  pc'[h] # "off"
  BY <1>0, <1>1
<1>2. CASE S!Accept(h) \/ \E f \in ClientFrames : S!Receive(h, f)
  BY <1>1, <1>2 DEF S!Accept, S!Receive
<1>3. CASE S!ClientRead(h) \/ S!ClientDrop(h) \/ \E c \in Channels : S!Clean(h, c)
  BY <1>3 DEF S!ClientRead, S!ClientDrop, S!brokerVars, S!Clean
<1>4. CASE S!Deliver(h) \/ S!SendReceipt(h) \/ S!Close(h) \/ S!Reply(h) \/ S!Exit(h)
  BY <1>1, <1>4
     DEF S!Deliver, S!Delivered, S!SendReceipt, S!Receipted, S!Close, S!Unregister, S!Reply, S!Exit
<1>5. CASE S!Visit(h)
  <2>1. PICK l \in {"fanout", "deliver"} : pc' = [pc EXCEPT ![h] = l]
    BY <1>5 DEF S!Visit
  <2> QED
    BY <1>1, <2>1
<1>6. CASE S!Refuse(h) \/ S!Register(h) \/ S!Login(h) \/ S!Subscribe(h) \/ S!Unsubscribe(h)
  BY <1>1, <1>6 DEF S!Refuse, S!Register, S!Login, S!Subscribe, S!Unsubscribe
<1>7. CASE S!Snapshot(h) \/ S!EndOfSend(h) \/ S!Farewell(h) \/ S!Logout(h)
  BY <1>1, <1>7 DEF S!Snapshot, S!EndOfSend, S!Farewell, S!Logout
<1> QED
  BY <1>2, <1>3, <1>4, <1>5, <1>6, <1>7 DEF S!ThreadStep, S!Silent

\* A handler that serves nobody is left alone.
LEMMA UnusedStays ==
  ASSUME S!SessionInv, S!TypeInv, NEW h \in Objects, NEW p \in Objects, Unused(p),
         S!Accept(h) \/ S!ThreadStep(h) \/ S!ClientRead(h) \/ S!ClientDrop(h)
         \/ \E f \in ClientFrames : S!Receive(h, f)
  PROVE  Unused(p)'
<1>0. /\ pc \in [Objects -> S!Step] /\ target \in [Objects -> Objects \cup {Null}]
      /\ connections \in [Ids -> Objects \cup {Null}] /\ connected \in [Objects -> BOOLEAN]
      /\ subscriptions \in [Objects -> [SubIds -> Channels \cup {Null}]] /\ p # Null
      /\ reply \in [Objects -> S!ServerFrame \cup {Null}]
  BY ServerTypes
<1> SUFFICES ASSUME pc'[p] = "off"
             PROVE  /\ connected'[p]
                    /\ \A g \in Objects : target'[g] # p
                    /\ \A i \in Ids : connections'[i] # p
                    /\ \A s \in SubIds : subscriptions'[p][s] = Null
  BY DEF Unused
<1> USE DEF S!Goto, S!Answer
<1>1. CASE h = p
  <2>1. pc[p] # "off" \/ UNCHANGED <<connected, target, connections, subscriptions>>
    BY <1>0, <1>1
       DEF S!Accept, S!ThreadStep, S!Silent, S!Refuse, S!Register, S!Login, S!Subscribe,
           S!Unsubscribe, S!Snapshot, S!Visit, S!EndOfSend, S!Farewell, S!Logout, S!Clean,
           S!Deliver, S!Delivered, S!SendReceipt, S!Receipted, S!Close, S!Unregister, S!Reply,
           S!Exit, S!ClientRead, S!ClientDrop, S!brokerVars, S!tables, S!locals, S!Receive, S!Handles
  <2>2. CASE pc[p] # "off"
    BY <1>1, <2>2, NeverOff
  <2>3. CASE pc[p] = "off" /\ UNCHANGED <<connected, target, connections, subscriptions>>
    BY <2>3 DEF Unused
  <2> QED
    BY <2>1, <2>2, <2>3
<1>2. CASE h # p
  <2>1. pc[p] = "off"
    BY <1>2, OthersStay
  <2>2. /\ connected[p]
        /\ \A g \in Objects : target[g] # p
        /\ \A i \in Ids : connections[i] # p
        /\ \A s \in SubIds : subscriptions[p][s] = Null
    BY <2>1 DEF Unused
  <2>3. subscriptions'[p] = subscriptions[p]
    BY <1>0, <1>2
       DEF S!Accept, S!ThreadStep, S!Silent, S!Refuse, S!Register, S!Login, S!Subscribe,
           S!Unsubscribe, S!Snapshot, S!Visit, S!EndOfSend, S!Farewell, S!Logout, S!Clean,
           S!Deliver, S!Delivered, S!SendReceipt, S!Receipted, S!Close, S!Unregister, S!Reply,
           S!Exit, S!ClientRead, S!ClientDrop, S!brokerVars, S!tables, S!locals, S!Receive
  <2>4. \A i \in Ids : connections'[i] # p
    <3>1. CASE S!Accept(h)
      BY <1>0, <1>2, <2>2, <3>1 DEF S!Accept
    <3>2. CASE S!Close(h)
      BY <1>0, <2>2, <3>2 DEF S!Close, S!Unregister
    <3>3. CASE connections' = connections
      BY <2>2, <3>3
    <3> QED
      BY <3>1, <3>2, <3>3
       DEF S!ThreadStep, S!Silent, S!Refuse, S!Register, S!Login, S!Subscribe,
           S!Unsubscribe, S!Snapshot, S!Visit, S!EndOfSend, S!Farewell, S!Logout, S!Clean,
           S!Deliver, S!Delivered, S!SendReceipt, S!Receipted, S!Reply,
           S!Exit, S!ClientRead, S!ClientDrop, S!brokerVars, S!tables, S!locals, S!Receive
  <2>5. \A g \in Objects : target'[g] # p
    <3>1. ASSUME NEW t \in Objects \cup {Null}, t # p, target' = [target EXCEPT ![h] = t]
          PROVE  \A g \in Objects : target'[g] # p
      BY <1>0, <2>2, <3>1
    <3>2. CASE S!Visit(h)
      <4>1. pc[h] = "fanout" /\ todo[h] # <<>> /\ todo[h] \in Seq(Ids)
        BY <3>2 DEF S!Visit, S!TypeInv, S!BrokerInv, S!BrokerTypeOK
      <4>2. Head(todo[h]) \in Ids
        BY <4>1
      <4> QED
        BY <1>0, <2>2, <3>1, <3>2, <4>2 DEF S!Visit
    <3>3. CASE S!Farewell(h)
      <4>1. connectionId[h] \in Ids
        BY <3>3 DEF S!Farewell, S!Handles, S!TypeInv, S!BrokerInv, S!Equipped
      <4> QED
        BY <1>0, <2>2, <3>1, <3>3, <4>1 DEF S!Farewell
    <3>4. CASE S!Deliver(h) \/ S!SendReceipt(h)
      BY <1>0, <3>1, <3>4 DEF S!Deliver, S!Delivered, S!SendReceipt, S!Receipted
    <3>5. CASE target' = target
      BY <2>2, <3>5
    <3> QED
      BY <3>2, <3>3, <3>4, <3>5
       DEF S!Accept, S!ThreadStep, S!Silent, S!Refuse, S!Register, S!Login, S!Subscribe,
           S!Unsubscribe, S!Snapshot, S!EndOfSend, S!Logout, S!Clean, S!Close, S!Unregister,
           S!Reply, S!Exit, S!ClientRead, S!ClientDrop, S!brokerVars, S!locals, S!Receive
  <2>6. connected'[p]
    <3>1. ASSUME NEW g \in Objects, g # p, NEW m, S!Write(g, m)
          PROVE  connected'[p]
      BY <1>0, <2>2, <3>1 DEF S!Write
    <3>2. CASE S!Deliver(h)
      <4>1. target[h] \in Objects /\ target[h] # p
        BY <2>2, <3>2 DEF S!Deliver, S!Delivered, S!TypeInv, S!BrokerInv, S!Equipped
      <4> QED
        BY <3>1, <3>2, <4>1 DEF S!Deliver
    <3>3. CASE S!SendReceipt(h)
      <4>1. connected' = connected \/ (target[h] # Null /\ S!Write(target[h], S!Receipt(h)))
        BY <3>3 DEF S!SendReceipt, S!transport
      <4> QED
        BY <1>0, <2>2, <3>1, <4>1
    <3>4. CASE S!Reply(h)
      BY <1>2, <2>2, <3>1, <3>4 DEF S!Reply, S!transport
    <3>5. CASE S!Close(h)
      <4>1. S!Evicted(h) # p
        <5>1. leaving[h] \in Ids \cup {Null}
          BY DEF S!TypeInv, S!BrokerInv, S!BrokerTypeOK
        <5> QED
          BY <1>0, <2>2, <5>1 DEF S!Evicted
      <4> QED
        BY <1>0, <2>2, <3>5, <4>1 DEF S!Close
    <3>6. CASE connected' = connected
      BY <2>2, <3>6
    <3> QED
      BY <3>2, <3>3, <3>4, <3>5, <3>6
         DEF S!Accept, S!ThreadStep, S!Exit, S!ClientRead, S!ClientDrop, S!Receive, S!transport
  <2>7. \A s \in SubIds : subscriptions'[p][s] = Null
    BY <2>2, <2>3
  <2> QED
    BY <2>4, <2>5, <2>6, <2>7
<1> QED
  BY <1>1, <1>2

\* Steps that leave what the server has of p as it is, and the errors on
\* their way.
LEMMA SideStays ==
  ASSUME NEW p \in Objects, ServerSide(p), Unused(p)', Up(p)' => Up(p),
         wire[p] \in Seq(Frame \cup {Delimiter}), taken[p] \in 0..Len(wire[p]),
         Up(p)' =>
           /\ Serves(p)'
           /\ pc'[p] = "process" <=> pc[p] = "process"
           /\ frame'[p] = frame[p] \/ pc[p] # "process"
           /\ \A k \in 1..Len(wire[p]) : wire'[p][k] = wire[p][k]
           /\ taken'[p] = taken[p] /\ subscriptions'[p] = subscriptions[p]
           /\ connectionId'[p] = connectionId[p]
           /\ \A c \in Channels :
                /\ S!Once(channels[c], connectionId[p]) => S!Once(channels'[c], connectionId[p])
                /\ connectionId[p] \in S!ToSet(channels'[c]) <=> connectionId[p] \in S!ToSet(channels[c])
           /\ Refusing(p) => Refusing(p)'
  PROVE  ServerSide(p)'
<1> SUFFICES ASSUME Up(p)'
             PROVE  Reads(p)' /\ (Refusing(p)' \/ Mirrors(p)')
  BY DEF ServerSide
<1>0. /\ Serves(p) /\ Reads(p) /\ (Refusing(p) \/ Mirrors(p))
      /\ Len(wire[p]) \in Nat /\ taken[p] \in Nat
  BY DEF ServerSide
<1>1. \A k \in 1..taken[p] : k \in 1..Len(wire[p]) /\ wire'[p][k] = wire[p][k]
  BY <1>0
<1>2. Reads(p)'
  <2>1. taken[p] # 0 => taken[p] \in 1..taken[p]
    BY <1>0
  <2>2. taken[p] \geq 2 => taken[p] - 1 \in 1..taken[p]
    BY <1>0
  <2>3. (taken[p] = 0 \/ wire[p][taken[p]] = Delimiter)'
    BY <1>0, <1>1, <2>1 DEF Reads
  <2>4. (\A k \in 1..taken[p] : wire[p][k].command = "SUBSCRIBE" => wire[p][k].id \in SubIds)'
    BY <1>0, <1>1 DEF Reads
  <2>5. ASSUME pc'[p] = "process"
        PROVE  (LET w == wire[p][taken[p] - 1]
                IN  /\ taken[p] \geq 2
                    /\ frame[p].command = w.command /\ frame[p].id = w.id
                    /\ frame[p].destination = w.channel)'
    BY <1>0, <1>1, <2>2, <2>5 DEF Reads
  <2> QED
    BY <2>3, <2>4, <2>5 DEF Reads
<1>3. ASSUME Mirrors(p) PROVE Mirrors(p)'
  <2>1. Acted(p)' = Acted(p)
    BY DEF Acted
  <2>2. Acted(p) \in Nat /\ \A k \in 1..Acted(p) : k \in 1..taken[p]
    BY <1>0 DEF Acted, Reads
  <2>3. \A c, s : Stands(wire[p], Acted(p), c, s) <=> Stands(wire'[p], Acted(p), c, s)
    BY <1>1, <2>2, StandsAlike DEF Alike
  <2>4. (\A c \in Channels, s \in SubIds : subscriptions[p][s] = c <=> Stands(wire[p], Acted(p), c, s))'
    BY <1>3, <2>1, <2>3 DEF Mirrors
  <2>5. S!SubscribedTo(p)' = S!SubscribedTo(p)
    BY DEF S!SubscribedTo, S!SubscriptionIds
  <2>6. (\A c \in Channels : /\ S!Once(channels[c], connectionId[p])
                             /\ S!Listed(p, c) <=> c \in S!SubscribedTo(p))'
    BY <1>3, <2>5 DEF Mirrors, S!Listed
  <2> QED
    BY <2>4, <2>6 DEF Mirrors
<1> QED
  BY <1>0, <1>2, <1>3

\* It lets go of the ERROR when it has given the connection up.
LEMMA ReaderRefuses ==
  ASSUME TypeInv, NEW p \in Objects, ReceiptsTraced(p), GivesUp(p), Talks(p), NEW q \in Objects,
         Command \/ KeyboardStep \/ ReaderStep(q), Up(p)'
  PROVE  GivesUp(p)'
<1>0. /\ at \in [Threads -> Place] /\ p \in Threads /\ q \in Threads /\ Keyboard \in Threads
      /\ p # Keyboard /\ q # Keyboard /\ got \in [Objects -> Messages \cup {Null}]
      /\ isConnected \in [Objects -> BOOLEAN] /\ Object(q) = q /\ p # Null
  BY Known DEF TypeInv, TypeOK
<1>1. ASSUME at'[p] = at[p], got'[p] = got[p]
      PROVE  GivesUp(p)'
  BY <1>1 DEF GivesUp
<1>2. ~ Abort
  BY <1>0 DEF Abort, Up
<1>3. ASSUME NEW t \in Threads, t # p, NEW l, Goto(t, l), got'[p] = got[p]
      PROVE  GivesUp(p)'
  <2>1. at'[p] = at[p]
    BY <1>0, <1>3 DEF Goto
  <2> QED
    BY <1>1, <1>3, <2>1
<1>4. CASE Command
  BY <1>0, <1>2, <1>3, <1>4
     DEF Command, Login, LoginFails, ReportThrows, Logout, Join, Leave, Report
<1>5. ASSUME NEW t \in Threads, t # p, Inside(t) \/ Payload(t) \/ End(t) \/ WriteFails(t)
      PROVE  GivesUp(p)'
  BY <1>2, <1>3, <1>5
     DEF Inside, Lock, TestAndClear, Number, Load, Store, Payload, End, Write, WriteFails
<1>6. CASE KeyboardDone
  <2>1. CASE LoginDone
    <3>1. current = p /\ at[Keyboard] \in Writing /\ draft[Keyboard].command = "CONNECT"
      BY <2>1 DEF LoginDone, Talks, Writing
    <3> QED
      BY <3>1 DEF Talks, GivesUp
  <2> QED
    BY <1>0, <1>3, <1>6, <2>1 DEF KeyboardDone, SubscriptionDone, NextEvent, LogoutDone
<1>7. ASSUME q # p, ReaderStep(q)
      PROVE  GivesUp(p)'
  <2>1. CASE ErrorDone(q) \/ Test(q) \/ HandleOther(q) \/ HandleReceipt(q) \/ HandleError(q)
    BY <1>0, <1>3, <1>7, <2>1 DEF ErrorDone, Test, HandleOther, HandleReceipt, HandleError
  <2>2. ASSUME NEW m, Get(q, m) \/ GetFails(q, m)
        PROVE  GivesUp(p)'
    BY <1>0, <1>3, <1>7, <2>2 DEF Get, GetFails
  <2>3. ~ HandleThrows(q)
    BY <1>2 DEF HandleThrows
  <2> QED
    BY <1>0, <1>5, <1>7, <2>1, <2>2, <2>3 DEF ReaderStep
<1>8. CASE ReaderStep(p)
  <2>1. at[p] = "handle" => Kind(got[p]) = "ERROR"
    BY DEF ReceiptsTraced, ReadsAnswer, GivesUp, Kind, Says
  <2>2. ~ HandleThrows(p) /\ ~ HandleOther(p) /\ ~ HandleReceipt(p)
    BY <2>1 DEF HandleThrows, HandleOther, HandleReceipt
  <2>3. CASE Lock(p) \/ HandleError(p)
    <3>1. got' = got /\ at'[p] \in {"flag", "lock"}
      BY <1>0, <2>3 DEF Lock, HandleError, Goto
    <3> QED
      BY <3>1 DEF GivesUp
  <2>4. ~ TestAndClear(p)
    BY <1>0, Known DEF TestAndClear, Up
  <2> QED
    BY <1>8, <2>2, <2>3, <2>4
       DEF ReaderStep, Inside, Number, Load, Store, Payload, End, WriteFails, ErrorDone, Test,
           Get, GetFails, GivesUp
<1> QED
  BY <1>0, <1>4, <1>5, <1>6, <1>7, <1>8 DEF KeyboardStep

\* The frames of the client never make process throw.
LEMMA NeverThrows ==
  ASSUME NEW p, frame[p] \in ClientFrames
  PROVE  ~ S!Throws(p)
<1>1. Null \notin Users \cup Passcodes \cup Channels
  BY ServerKnown
<1> QED
  BY <1>1 DEF S!Throws, ClientFrames, Garbage, Headers

\* The thread of p goes on serving it.
LEMMA ThreadServes ==
  ASSUME S!SessionInv, S!TypeInv, NEW p \in Objects, Serves(p), S!ThreadStep(p)
  PROVE  Serves(p)' /\ pc'[p] # "process"
<1>0. /\ pc \in [Objects -> S!Step] /\ clientUp[p] /\ open[p] /\ connected[p]
      /\ pc[p] \in {"read", "process", "login", "fanout", "deliver", "reply"}
      /\ pc[p] = "process" => frame[p].command # "DISCONNECT"
  BY ServerTypes DEF Serves
<1>1. ASSUME NEW l \in {"read", "login", "fanout", "deliver", "reply"}, pc' = [pc EXCEPT ![p] = l],
             UNCHANGED S!transport \/ \E g, m : S!Write(g, m)
      PROVE  Serves(p)' /\ pc'[p] # "process"
  <2>1. connected'[p] = connected[p] /\ open' = open /\ clientUp' = clientUp
    BY <1>0, <1>1, WriteServes DEF S!transport
  <2>2. pc'[p] = l
    BY <1>0, <1>1
  <2> QED
    BY <1>0, <1>1, <2>1, <2>2 DEF Serves
<1> USE DEF S!Goto, S!Answer
<1>2. CASE S!Deliver(p)
  BY <1>1, <1>2 DEF S!Deliver, S!Delivered
<1>3. CASE S!Reply(p)
  BY <1>1, <1>3 DEF S!Reply
<1>4. ~ S!SendReceipt(p) /\ ~ S!Close(p) /\ ~ S!Logout(p) /\ ~ S!Farewell(p) /\ \A c : ~ S!Clean(p, c)
  BY <1>0 DEF S!SendReceipt, S!Receipted, S!Close, S!Unregister, S!Logout, S!Farewell, S!Handles,
              S!Clean
<1>5. ~ S!Exit(p)
  <2>1. pc[p] = "process" => ~ S!Throws(p)
    BY NeverThrows DEF S!TypeInv, S!BrokerInv, S!FrameKept
  <2> QED
    BY <1>0, <2>1 DEF S!Exit
<1>6. CASE S!Silent(p) /\ UNCHANGED S!transport
  <2>1. CASE S!Refuse(p) \/ S!Login(p) \/ S!Subscribe(p) \/ S!Unsubscribe(p) \/ S!EndOfSend(p)
    BY <1>1, <1>6, <2>1 DEF S!Refuse, S!Login, S!Subscribe, S!Unsubscribe, S!EndOfSend
  <2>2. CASE S!Register(p)
    BY <1>1, <1>6, <2>2 DEF S!Register
  <2>3. CASE S!Snapshot(p) \/ S!Visit(p)
    BY <1>1, <1>6, <2>3 DEF S!Snapshot, S!Visit
  <2> QED
    BY <1>4, <1>6, <2>1, <2>2, <2>3 DEF S!Silent
<1> QED
  BY <1>2, <1>3, <1>4, <1>5, <1>6 DEF S!ThreadStep

\* A refusal is on its way until the reader has it.
LEMMA ThreadRefuses ==
  ASSUME S!SessionInv, S!TypeInv, NEW p \in Objects, Serves(p), S!ThreadStep(p), Refusing(p),
         UNCHANGED <<at, got>>
  PROVE  Refusing(p)'
<1>0. outbox[p] \in Seq(S!ServerFrame) /\ clientUp[p] /\ open[p]
  BY ServerTypes DEF Serves
<1>1. CASE pc[p] = "reply" /\ IsError(reply[p])
  <2>1. S!Reply(p)
    BY <1>1 DEF S!ThreadStep, S!Silent, S!Refuse, S!Register, S!Login, S!Subscribe, S!Unsubscribe,
                S!Snapshot, S!Visit, S!EndOfSend, S!Farewell, S!Logout, S!Clean, S!Deliver,
                S!Delivered, S!SendReceipt, S!Receipted, S!Close, S!Unregister, S!Exit, S!Handles
  <2>2. S!Write(p, reply[p])
    BY <1>1, <2>1 DEF S!Reply, IsError
  <2>3. outbox'[p] = Append(outbox[p], reply[p])
    BY <1>0, <2>2, WriteServes
  <2>4. \E k \in DOMAIN Append(outbox[p], reply[p]) : IsError(Append(outbox[p], reply[p])[k])
    BY <1>0, <1>1, ErrorStays
  <2> QED
    BY <2>3, <2>4 DEF Refusing
<1>2. CASE \E k \in DOMAIN outbox[p] : IsError(outbox[p][k])
  <2>1. ASSUME NEW g, NEW m, S!Write(g, m)
        PROVE  \E k \in DOMAIN outbox'[p] : IsError(outbox'[p][k])
    <3>1. outbox'[p] = outbox[p] \/ outbox'[p] = Append(outbox[p], m)
      BY <1>0, <2>1, WriteServes
    <3>2. \E k \in DOMAIN Append(outbox[p], m) : IsError(Append(outbox[p], m)[k])
      BY <1>0, <1>2, ErrorStays
    <3> QED
      BY <1>2, <3>1, <3>2
  <2>2. outbox' = outbox \/ \E g, m : S!Write(g, m)
    BY DEF S!ThreadStep, S!Deliver, S!SendReceipt, S!Reply, S!Close, S!Exit, S!transport
  <2>3. \E k \in DOMAIN outbox'[p] : IsError(outbox'[p][k])
    BY <1>2, <2>1, <2>2
  <2> QED
    BY <2>3 DEF Refusing
<1>3. CASE GivesUp(p)
  BY <1>3 DEF GivesUp, Refusing
<1> QED
  BY <1>1, <1>2, <1>3 DEF Refusing

\* The frame being processed is the last one taken.
LEMMA ActedNext ==
  ASSUME NEW p \in Objects, taken[p] \in Nat, Reads(p), pc[p] = "process", NEW c, NEW s
  PROVE  Stands(wire[p], taken[p], c, s) <=>
           \/ Subscribes(wire[p][taken[p] - 1], c, s)
           \/ Stands(wire[p], Acted(p), c, s) /\ ~ Overrides(wire[p][taken[p] - 1], c, s)
<1> DEFINE q == wire[p]
           n == taken[p] - 2
<1>1. n \in Nat /\ n + 1 = taken[p] - 1 /\ n + 1 + 1 = taken[p] /\ n = Acted(p) /\ n + 1 \in Nat
  BY DEF Reads, Acted
<1>2. q[n + 1 + 1] = Delimiter
  BY <1>1 DEF Reads
<1> HIDE DEF q, n
<1>3. Stands(q, n + 1, c, s) <=>
        Subscribes(q[n + 1], c, s) \/ (Stands(q, n, c, s) /\ ~ Overrides(q[n + 1], c, s))
  BY <1>1, StandsNext
<1>4. Stands(q, n + 1 + 1, c, s) <=>
        \/ Subscribes(q[n + 1 + 1], c, s)
        \/ Stands(q, n + 1, c, s) /\ ~ Overrides(q[n + 1 + 1], c, s)
  BY <1>1, StandsNext
<1>5. ~ Subscribes(q[n + 1 + 1], c, s) /\ ~ Overrides(q[n + 1 + 1], c, s)
  BY <1>2, NeutralSays DEF Neutral, Delimiter
<1> QED
  BY <1>1, <1>3, <1>4, <1>5 DEF q

\* The frame of a command other than SUBSCRIBE and UNSUBSCRIBE leaves the map.
LEMMA NeutralMirrors ==
  ASSUME NEW p \in Objects, taken[p] \in Nat, Reads(p), Mirrors(p),
         pc[p] = "process" => Neutral(frame[p]), pc'[p] # "process",
         UNCHANGED <<wire, taken, channels, connectionId>>, subscriptions'[p] = subscriptions[p]
  PROVE  Mirrors(p)'
<1>1. Acted(p)' = taken[p]
  BY DEF Acted
<1>2. \A c, s : Stands(wire[p], taken[p], c, s) <=> Stands(wire[p], Acted(p), c, s)
  <2>1. CASE pc[p] = "process"
    <3>1. Neutral(wire[p][taken[p] - 1])
      BY <2>1 DEF Reads, Neutral
    <3>2. \A c, s : ~ Subscribes(wire[p][taken[p] - 1], c, s) /\ ~ Overrides(wire[p][taken[p] - 1], c, s)
      BY <3>1, NeutralSays
    <3> QED
      BY <2>1, <3>2, ActedNext
  <2>2. CASE pc[p] # "process"
    BY <2>2 DEF Acted
  <2> QED
    BY <2>1, <2>2
<1>3. (\A c \in Channels, s \in SubIds : subscriptions[p][s] = c <=> Stands(wire[p], Acted(p), c, s))'
  BY <1>1, <1>2 DEF Mirrors
<1>4. S!SubscribedTo(p)' = S!SubscribedTo(p)
  BY DEF S!SubscribedTo, S!SubscriptionIds
<1>5. (\A c \in Channels : /\ S!Once(channels[c], connectionId[p])
                           /\ S!Listed(p, c) <=> c \in S!SubscribedTo(p))'
  BY <1>4 DEF Mirrors, S!Listed
<1> QED
  BY <1>3, <1>5 DEF Mirrors

\* The id of a SUBSCRIBE stood for nothing before it.
LEMMA NewId ==
  ASSUME TypeInv, NEW p \in Objects, Talks(p), taken[p] \in 0..Len(wire[p]), Reads(p),
         pc[p] = "process", frame[p].command = "SUBSCRIBE", NEW c
  PROVE  ~ Stands(wire[p], Acted(p), c, frame[p].id)
<1>0. /\ wire[p] \in Seq(Frame \cup {Delimiter}) /\ Len(wire[p]) \in Nat /\ taken[p] \in Nat
      /\ taken[p] \geq 2 /\ taken[p] \leq Len(wire[p]) /\ Acted(p) = taken[p] - 2
  BY TypesOf DEF Reads, Acted
<1>1. /\ wire[p][taken[p] - 1].command = "SUBSCRIBE"
      /\ wire[p][taken[p] - 1].id = frame[p].id
  BY DEF Reads
<1>2. /\ Len(wire[p]) \leq Len(Told(p)) /\ Len(Told(p)) \in Nat
      /\ \A k \in 1..Len(wire[p]) : Told(p)[k] = wire[p][k]
  <2>1. CASE at[Keyboard] \in Ahead /\ current = p
    <3>1. Told(p) = Append(wire[p], draft[Keyboard])
      BY <2>1 DEF Told
    <3> QED
      BY <1>0, <3>1
  <2>2. CASE Told(p) = wire[p]
    BY <1>0, <2>2
  <2> QED
    BY <2>1, <2>2 DEF Told
<1>3. \A j, k \in 1..Len(Told(p)) :
        /\ Told(p)[j].command = "SUBSCRIBE" /\ Told(p)[k].command = "SUBSCRIBE"
        /\ Told(p)[j].id = Told(p)[k].id
        => j = k
  BY DEF Talks, Records
<1>4. ASSUME NEW k \in 1..Acted(p), Subscribes(wire[p][k], c, frame[p].id)
      PROVE  FALSE
  <2>1. /\ k \in 1..Len(wire[p]) /\ taken[p] - 1 \in 1..Len(wire[p]) /\ k # taken[p] - 1
        /\ k \in 1..Len(Told(p)) /\ taken[p] - 1 \in 1..Len(Told(p))
    BY <1>0, <1>2
  <2> QED
    BY <1>1, <1>2, <1>3, <1>4, <2>1 DEF Subscribes
<1> QED
  BY <1>4 DEF Stands

LEMMA SubscribeMirrors ==
  ASSUME TypeInv, S!TypeInv, NEW p \in Objects, Talks(p), taken[p] \in 0..Len(wire[p]), Reads(p),
         Mirrors(p), S!Subscribe(p), UNCHANGED <<wire, taken>>
  PROVE  Mirrors(p)'
<1> DEFINE f == frame[p]
           d == frame[p].destination
           w == wire[p][taken[p] - 1]
<1>0. /\ pc[p] = "process" /\ f.command = "SUBSCRIBE" /\ ~ S!Refused(p)
      /\ subscriptions' = [subscriptions EXCEPT ![p][f.id] = d]
      /\ channels' = [channels EXCEPT ![d] = Append(@, connectionId[p])]
      /\ pc' = [pc EXCEPT ![p] = "reply"] /\ connectionId' = connectionId
  BY DEF S!Subscribe, S!Handles, S!Answer, S!Goto
<1>1. /\ subscriptions \in [Objects -> [SubIds -> Channels \cup {Null}]] /\ pc \in [Objects -> S!Step]
      /\ channels \in [Channels -> Seq(Ids)] /\ connectionId[p] \in Ids
      /\ f \in ClientFrames /\ taken[p] \in Nat /\ Null \notin Channels
  BY <1>0, ServerTypes, TypesOf, ServerKnown DEF S!TypeInv, S!BrokerInv, S!Equipped, S!FrameKept
<1>2. f.id \in SubIds /\ d \in Channels
  BY <1>0, <1>1 DEF ClientFrames, Garbage, Headers
<1>3. w.command = "SUBSCRIBE" /\ w.id = f.id /\ w.channel = d
  BY <1>0 DEF Reads
<1>4. Acted(p)' = taken[p]
  BY <1>0, <1>1 DEF Acted
<1>5. d \notin S!SubscribedTo(p)
  BY <1>0 DEF S!Refused
<1>6. \A c : ~ Stands(wire[p], Acted(p), c, f.id)
  BY <1>0, NewId
<1>7. subscriptions[p][f.id] = Null
  BY <1>1, <1>2, <1>6 DEF Mirrors
<1>8. /\ subscriptions'[p][f.id] = d
      /\ \A s \in SubIds : s # f.id => subscriptions'[p][s] = subscriptions[p][s]
  BY <1>0, <1>1, <1>2
<1> HIDE DEF f, d, w
<1>9. ASSUME NEW c \in Channels, NEW s \in SubIds
      PROVE  subscriptions'[p][s] = c <=> Stands(wire[p], taken[p], c, s)
  <2>1. Stands(wire[p], taken[p], c, s) <=>
          Subscribes(w, c, s) \/ (Stands(wire[p], Acted(p), c, s) /\ ~ Overrides(w, c, s))
    BY <1>0, <1>1, ActedNext DEF w
  <2>2. (Subscribes(w, c, s) <=> c = d /\ s = f.id) /\ (Overrides(w, c, s) <=> c = d)
    BY <1>3 DEF Subscribes, Overrides
  <2>3. subscriptions[p][s] = c <=> Stands(wire[p], Acted(p), c, s)
    BY DEF Mirrors
  <2>4. CASE s = f.id
    BY <1>6, <1>8, <2>1, <2>2, <2>4
  <2>5. CASE s # f.id
    <3>1. subscriptions[p][s] # d
      BY <1>1, <1>2, <1>5 DEF S!SubscribedTo, S!SubscriptionIds
    <3> QED
      BY <1>8, <2>1, <2>2, <2>3, <2>5, <3>1
  <2> QED
    BY <2>4, <2>5
<1>10. S!SubscribedTo(p)' = S!SubscribedTo(p) \cup {d}
  <2>1. ASSUME NEW x \in S!SubscribedTo(p)' PROVE x \in S!SubscribedTo(p) \cup {d}
    <3>1. PICK s \in SubIds : subscriptions'[p][s] # Null /\ x = subscriptions'[p][s]
      BY <2>1 DEF S!SubscribedTo, S!SubscriptionIds
    <3> QED
      BY <1>8, <3>1 DEF S!SubscribedTo, S!SubscriptionIds
  <2>2. ASSUME NEW x \in S!SubscribedTo(p) PROVE x \in S!SubscribedTo(p)'
    <3>1. PICK s \in SubIds : subscriptions[p][s] # Null /\ x = subscriptions[p][s]
      BY <2>2 DEF S!SubscribedTo, S!SubscriptionIds
    <3>2. subscriptions'[p][s] = x
      BY <1>7, <1>8, <3>1
    <3> QED
      BY <3>1, <3>2 DEF S!SubscribedTo, S!SubscriptionIds
  <2>3. d \in S!SubscribedTo(p)'
    BY <1>1, <1>2, <1>8 DEF S!SubscribedTo, S!SubscriptionIds
  <2> QED
    BY <2>1, <2>2, <2>3
<1>11. ASSUME NEW c \in Channels
       PROVE  /\ S!Once(channels'[c], connectionId[p])
              /\ connectionId[p] \in S!ToSet(channels'[c]) <=> c \in S!SubscribedTo(p)'
  <2>0. /\ S!Once(channels[c], connectionId[p])
        /\ connectionId[p] \in S!ToSet(channels[c]) <=> c \in S!SubscribedTo(p)
    BY DEF Mirrors, S!Listed
  <2>1. CASE c = d
    <3>1. channels'[c] = Append(channels[c], connectionId[p]) /\ channels[c] \in Seq(Ids)
      BY <1>0, <1>1, <2>1 DEF d
    <3>2. connectionId[p] \notin S!ToSet(channels[c])
      BY <1>5, <2>0, <2>1
    <3>3. /\ connectionId[p] \in S!ToSet(Append(channels[c], connectionId[p]))
          /\ S!Once(Append(channels[c], connectionId[p]), connectionId[p])
      BY <1>1, <3>1, <3>2, AppendSelf
    <3> QED
      BY <1>10, <2>1, <3>1, <3>3
  <2>2. CASE c # d
    <3>1. channels'[c] = channels[c]
      BY <1>0, <1>1, <2>2 DEF d
    <3> QED
      BY <1>10, <2>0, <2>2, <3>1
  <2> QED
    BY <2>1, <2>2
<1>12. (\A c \in Channels, s \in SubIds : subscriptions[p][s] = c <=> Stands(wire[p], Acted(p), c, s))'
  BY <1>4, <1>9
<1>13. (\A c \in Channels : /\ S!Once(channels[c], connectionId[p])
                            /\ S!Listed(p, c) <=> c \in S!SubscribedTo(p))'
  BY <1>0, <1>11 DEF S!Listed
<1> QED
  BY <1>12, <1>13 DEF Mirrors

LEMMA UnsubscribeMirrors ==
  ASSUME S!TypeInv, NEW p \in Objects, taken[p] \in Nat, Reads(p),
         Mirrors(p), S!Unsubscribe(p), UNCHANGED <<wire, taken>>
  PROVE  Mirrors(p)'
<1> DEFINE x == frame[p].id
           d == subscriptions[p][x]
           w == wire[p][taken[p] - 1]
<1>0. /\ pc[p] = "process" /\ frame[p].command = "UNSUBSCRIBE" /\ ~ S!Refused(p)
      /\ subscriptions' = [subscriptions EXCEPT ![p][x] = Null]
      /\ channels' = [channels EXCEPT ![d] = S!RemoveFirst(@, connectionId[p])]
      /\ pc' = [pc EXCEPT ![p] = "reply"] /\ connectionId' = connectionId
  BY DEF S!Unsubscribe, S!Handles, S!Answer, S!Goto
<1>1. /\ subscriptions \in [Objects -> [SubIds -> Channels \cup {Null}]] /\ pc \in [Objects -> S!Step]
      /\ channels \in [Channels -> Seq(Ids)] /\ Null \notin Channels
  BY <1>0, ServerTypes, ServerKnown
<1>2. x \in SubIds /\ d # Null /\ d \in Channels
  BY <1>0, <1>1 DEF S!Refused, S!SubscriptionIds
<1>3. w.command = "UNSUBSCRIBE" /\ w.id = x
  BY <1>0 DEF Reads
<1>4. Acted(p)' = taken[p] /\ Acted(p) \in Nat
  BY <1>0, <1>1 DEF Acted, Reads
<1>5. /\ subscriptions'[p][x] = Null
      /\ \A s \in SubIds : s # x => subscriptions'[p][s] = subscriptions[p][s]
  BY <1>0, <1>1, <1>2
<1>6. ASSUME NEW s \in SubIds, subscriptions[p][s] = d
      PROVE  s = x
  <2>1. Stands(wire[p], Acted(p), d, s) /\ Stands(wire[p], Acted(p), d, x)
    BY <1>2, <1>6 DEF Mirrors
  <2> QED
    BY <1>4, <2>1, StandsOnce
<1>x. x = frame[p].id /\ d = subscriptions[p][x]
  OBVIOUS
<1> HIDE DEF x, d, w
<1>7. ASSUME NEW c \in Channels, NEW s \in SubIds
      PROVE  subscriptions'[p][s] = c <=> Stands(wire[p], taken[p], c, s)
  <2>1. Stands(wire[p], taken[p], c, s) <=>
          Subscribes(w, c, s) \/ (Stands(wire[p], Acted(p), c, s) /\ ~ Overrides(w, c, s))
    BY <1>0, ActedNext DEF w
  <2>2. ~ Subscribes(w, c, s) /\ (Overrides(w, c, s) <=> s = x)
    BY <1>3 DEF Subscribes, Overrides
  <2>3. subscriptions[p][s] = c <=> Stands(wire[p], Acted(p), c, s)
    BY DEF Mirrors
  <2> QED
    BY <1>1, <1>5, <2>1, <2>2, <2>3
<1>8. S!SubscribedTo(p)' = S!SubscribedTo(p) \ {d}
  <2>1. ASSUME NEW y \in S!SubscribedTo(p)' PROVE y \in S!SubscribedTo(p) /\ y # d
    <3>1. PICK s \in SubIds : subscriptions'[p][s] # Null /\ y = subscriptions'[p][s]
      BY <2>1 DEF S!SubscribedTo, S!SubscriptionIds
    <3>2. s # x /\ y = subscriptions[p][s]
      BY <1>5, <3>1
    <3> QED
      BY <1>6, <3>1, <3>2 DEF S!SubscribedTo, S!SubscriptionIds
  <2>2. ASSUME NEW y \in S!SubscribedTo(p), y # d PROVE y \in S!SubscribedTo(p)'
    <3>1. PICK s \in SubIds : subscriptions[p][s] # Null /\ y = subscriptions[p][s]
      BY <2>2 DEF S!SubscribedTo, S!SubscriptionIds
    <3>2. subscriptions'[p][s] = y
      BY <1>x, <1>5, <2>2, <3>1
    <3> QED
      BY <3>1, <3>2 DEF S!SubscribedTo, S!SubscriptionIds
  <2> QED
    BY <2>1, <2>2
<1>9. ASSUME NEW c \in Channels
      PROVE  /\ S!Once(channels'[c], connectionId[p])
             /\ connectionId[p] \in S!ToSet(channels'[c]) <=> c \in S!SubscribedTo(p)'
  <2>0. /\ S!Once(channels[c], connectionId[p])
        /\ connectionId[p] \in S!ToSet(channels[c]) <=> c \in S!SubscribedTo(p)
    BY DEF Mirrors, S!Listed
  <2>1. CASE c = d
    <3>1. channels'[c] = S!RemoveFirst(channels[c], connectionId[p]) /\ channels[c] \in Seq(Ids)
      BY <1>0, <1>1, <2>1
    <3>2. connectionId[p] \notin S!ToSet(S!RemoveFirst(channels[c], connectionId[p]))
      BY <2>0, <3>1, RemoveSelf
    <3>3. S!Once(S!RemoveFirst(channels[c], connectionId[p]), connectionId[p])
      BY <2>0, <3>1, RemoveOther
    <3> QED
      BY <1>8, <2>1, <3>1, <3>2, <3>3
  <2>2. CASE c # d
    <3>1. channels'[c] = channels[c]
      BY <1>0, <1>1, <2>2
    <3> QED
      BY <1>8, <2>0, <2>2, <3>1
  <2> QED
    BY <2>1, <2>2
<1>10. (\A c \in Channels, s \in SubIds : subscriptions[p][s] = c <=> Stands(wire[p], Acted(p), c, s))'
  BY <1>4, <1>7
<1>11. (\A c \in Channels : /\ S!Once(channels[c], connectionId[p])
                            /\ S!Listed(p, c) <=> c \in S!SubscribedTo(p))'
  BY <1>0, <1>9 DEF S!Listed
<1> QED
  BY <1>10, <1>11 DEF Mirrors

\* The server's thread for p takes a step.
LEMMA OwnThread ==
  ASSUME TypeInv, S!SessionInv, S!TypeInv, NEW p \in Objects, taken[p] \in 0..Len(wire[p]),
         ClientSide(p), ServerSide(p), S!ThreadStep(p), UNCHANGED <<clientVars, taken>>
  PROVE  ServerSide(p)'
<1>0. UNCHANGED <<at, got, wire, isConnected, taken>>
  BY DEF clientVars, vars
<1>1. Unused(p)'
  BY UnusedStays DEF ServerSide
<1> SUFFICES ASSUME Up(p)
             PROVE  Serves(p)' /\ Reads(p)' /\ (Refusing(p)' \/ Mirrors(p)')
  BY <1>0, <1>1 DEF ServerSide, Up
<1>2. /\ Serves(p) /\ Reads(p) /\ (Refusing(p) \/ Mirrors(p)) /\ Talks(p)
      /\ taken[p] \in Nat /\ pc \in [Objects -> S!Step]
      /\ reply \in [Objects -> S!ServerFrame \cup {Null}]
  <2>1. Len(wire[p]) \in Nat
    BY TypesOf
  <2> QED
    BY <2>1, ServerTypes DEF ServerSide, ClientSide
<1>3. Serves(p)' /\ pc'[p] # "process"
  BY <1>2, ThreadServes
<1>4. Reads(p)'
  BY <1>0, <1>2, <1>3 DEF Reads
<1>5. CASE Refusing(p)
  BY <1>0, <1>2, <1>3, <1>4, <1>5, ThreadRefuses
<1>6. CASE Mirrors(p)
  <2> SUFFICES Refusing(p)' \/ Mirrors(p)'
    BY <1>3, <1>4
  <2>1. ASSUME S!Answer(p, S!Plain("ERROR")) PROVE Refusing(p)'
    <3>1. pc'[p] = "reply" /\ reply'[p] = S!Plain("ERROR")
      BY <1>2, <2>1 DEF S!Answer, S!Goto
    <3>2. S!Plain("ERROR") \in S!ServerFrame /\ S!Plain("ERROR").command = "ERROR"
      BY DEF S!ServerFrame, S!Plain
    <3>3. reply'[p] # Null
      BY <3>1, <3>2, SameFrames, ReplyAssumption
    <3> QED
      BY <3>1, <3>2, <3>3 DEF Refusing, IsError
  <2>2. ASSUME UNCHANGED <<channels, connectionId>>, subscriptions'[p] = subscriptions[p],
               pc[p] = "process" => Neutral(frame[p])
        PROVE  Mirrors(p)'
    BY <1>0, <1>2, <1>3, <1>6, <2>2, NeutralMirrors
  <2>3. CASE S!Refuse(p)
    BY <2>1, <2>3 DEF S!Refuse
  <2>4. CASE S!Register(p)
    BY <2>1, <2>2, <2>4 DEF S!Register, S!Handles, Neutral
  <2>5. CASE S!Login(p)
    BY <2>1, <2>2, <2>5 DEF S!Login
  <2>6. CASE S!Snapshot(p)
    BY <2>2, <2>6 DEF S!Snapshot, S!Handles, S!tables, Neutral
  <2>7. CASE S!Visit(p) \/ S!EndOfSend(p) \/ S!Deliver(p) \/ S!Reply(p)
    BY <2>2, <2>7 DEF S!Visit, S!EndOfSend, S!Deliver, S!Delivered, S!Reply, S!tables
  <2>8. CASE S!Subscribe(p)
    BY <1>0, <1>2, <1>6, <2>8, SubscribeMirrors
  <2>9. CASE S!Unsubscribe(p)
    BY <1>0, <1>2, <1>6, <2>9, UnsubscribeMirrors
  <2>10. /\ ~ S!SendReceipt(p) /\ ~ S!Close(p) /\ ~ S!Logout(p) /\ ~ S!Farewell(p) /\ ~ S!Exit(p)
         /\ \A c : ~ S!Clean(p, c)
    <3>1. /\ pc[p] \in {"read", "process", "login", "fanout", "deliver", "reply"}
          /\ pc[p] = "process" => frame[p].command # "DISCONNECT"
      BY <1>2 DEF Serves
    <3>2. ~ S!Exit(p)
      <4>1. pc[p] = "process" => ~ S!Throws(p)
        BY NeverThrows DEF S!TypeInv, S!BrokerInv, S!FrameKept
      <4> QED
        BY <1>2, <3>1, <4>1 DEF S!Exit, Serves
    <3> QED
      BY <3>1, <3>2 DEF S!SendReceipt, S!Receipted, S!Close, S!Unregister, S!Logout, S!Farewell,
                        S!Handles, S!Clean
  <2> QED
    BY <1>3, <1>4, <2>3, <2>4, <2>5, <2>6, <2>7, <2>8, <2>9, <2>10 DEF S!ThreadStep, S!Silent
<1> QED
  BY <1>2, <1>5, <1>6

\* The server takes a frame and its delimiter.
LEMMA NextTwo ==
  ASSUME TypeInv, NEW p \in Objects, Alternates(p), taken[p] \in 0..Len(wire[p]),
         taken[p] = 0 \/ wire[p][taken[p]] = Delimiter, Ends(p) # {}
  PROVE  /\ NextEnd(p) = taken[p] + 2 /\ taken[p] + 2 \in 1..Len(wire[p])
         /\ wire[p][taken[p] + 2] = Delimiter /\ wire[p][taken[p] + 1] # Delimiter
<1> DEFINE q == wire[p]
           n == taken[p]
           e == NextEnd(p)
<1>0. q \in Seq(Frame \cup {Delimiter}) /\ Len(q) \in Nat /\ n \in 0..Len(q) /\ DOMAIN q = 1..Len(q)
  BY TypesOf
<1>1. e \in Ends(p) /\ \A j \in Ends(p) : e \leq j
  BY <1>0, FirstEnd
<1>2. e \in 1..Len(q) /\ e > n /\ q[e] = Delimiter
  BY <1>0, <1>1 DEF Ends
<1>3. \A k \in 1..Len(q) : k > n /\ q[k] = Delimiter => e \leq k
  BY <1>0, <1>1 DEF Ends
<1>4. \A k \in 1..Len(q) :
        /\ k = 1 => q[k] # Delimiter
        /\ k + 1 \in 1..Len(q) => (q[k] = Delimiter <=> q[k + 1] # Delimiter)
  BY DEF Alternates
<1>5. n = 0 \/ q[n] = Delimiter
  OBVIOUS
<1> HIDE DEF q, n, e
<1>6. n + 1 \in 1..Len(q) /\ q[n + 1] # Delimiter
  <2>1. n + 1 \in 1..Len(q)
    BY <1>0, <1>2
  <2>2. CASE n = 0
    BY <1>4, <2>1, <2>2
  <2>3. CASE n \in 1..Len(q)
    BY <1>4, <1>5, <2>1, <2>3
  <2> QED
    BY <1>0, <2>1, <2>2, <2>3
<1>7. e # n + 1 /\ n + 2 \in 1..Len(q)
  BY <1>0, <1>2, <1>6
<1>8. q[n + 1 + 1] = Delimiter /\ n + 1 + 1 = n + 2
  <2>1. n + 1 + 1 = n + 2
    BY <1>0
  <2> QED
    BY <1>4, <1>6, <1>7, <2>1
<1>9. e = n + 2
  BY <1>0, <1>2, <1>3, <1>7, <1>8
<1> QED
  BY <1>6, <1>7, <1>8, <1>9 DEF q, n, e

\* The server takes a frame of p off the wire.
LEMMA OwnReceive ==
  ASSUME ClientInv, S!SessionInv, S!TypeInv, NEW p \in Objects, taken \in [Objects -> Nat],
         taken[p] \in 0..Len(wire[p]), ClientSide(p), ServerSide(p), ServerReceives(p)
  PROVE  ServerSide(p)'
<1>0. UNCHANGED <<at, got, wire, isConnected>> /\ TypeInv /\ Len(wire[p]) \in Nat
  BY TypesOf DEF ServerReceives, clientVars, vars, ClientInv
<1>1. PICK f \in ClientFrames : Decodes(p, f) /\ S!Receive(p, f)
  BY SameReceive DEF ServerReceives
<1>2. Unused(p)'
  BY <1>1, UnusedStays DEF ServerSide
<1> SUFFICES ASSUME Up(p)
             PROVE  Serves(p)' /\ Reads(p)' /\ (Refusing(p)' \/ Mirrors(p)')
  BY <1>0, <1>2 DEF ServerSide, Up
<1>3. /\ Serves(p) /\ Reads(p) /\ (Refusing(p) \/ Mirrors(p)) /\ Talks(p)
  BY DEF ServerSide, ClientSide
<1>4. /\ pc[p] = "read" /\ pc'[p] = "process" /\ frame'[p] = f
      /\ UNCHANGED <<channels, connectionId, subscriptions, reply, connected, open, clientUp, outbox>>
  BY <1>1, ServerTypes DEF S!Receive, S!Goto, S!tables
<1> DEFINE n == taken[p]
           w == wire[p][n + 1]
<1>5. /\ NextEnd(p) = n + 2 /\ n + 2 \in 1..Len(wire[p])
      /\ wire[p][n + 2] = Delimiter /\ w # Delimiter
  BY <1>0, <1>1, <1>3, NextTwo DEF Talks, Reads, Decodes
<1>6. taken'[p] = n + 2 /\ n \in Nat
  BY <1>5 DEF ServerReceives
<1>7. f.command = w.command /\ f.id = w.id /\ f.destination = w.channel
  BY <1>1, <1>5, <1>6 DEF Decodes
<1>8. f.command # "DISCONNECT"
  <2>1. Disconnects(p) = {} /\ n + 1 \in DOMAIN wire[p]
    <3>1. wire[p] \in Seq(Frame \cup {Delimiter})
      BY <1>0, TypesOf
    <3>2. n + 1 \in 1..Len(wire[p])
      BY <1>0, <1>5, <1>6
    <3> QED
      BY <3>1, <3>2 DEF ClientInv, OneDisconnect, Up
  <2> QED
    BY <1>7, <2>1 DEF Disconnects
<1>9. f.command = "SUBSCRIBE" => f.id \in SubIds
  BY DEF ClientFrames, Garbage, Headers
<1> HIDE DEF n, w
<1>10. Serves(p)'
  BY <1>3, <1>4, <1>8 DEF Serves
<1>11. Reads(p)'
  <2>1. (\A k \in 1..taken[p] : wire[p][k].command = "SUBSCRIBE" => wire[p][k].id \in SubIds)'
    <3> SUFFICES ASSUME NEW k \in 1..n + 2, wire[p][k].command = "SUBSCRIBE"
                 PROVE  wire[p][k].id \in SubIds
      BY <1>0, <1>6
    <3>1. CASE k \in 1..n
      BY <1>3, <3>1 DEF Reads, n
    <3>2. CASE k = n + 1
      BY <1>7, <1>9, <3>2 DEF w
    <3>3. k # n + 2
      BY <1>5 DEF Delimiter
    <3> QED
      BY <1>6, <3>1, <3>2, <3>3
  <2>2. /\ taken'[p] - 1 = n + 1 /\ taken'[p] \geq 2
        /\ wire'[p][taken'[p]] = Delimiter /\ wire'[p][taken'[p] - 1] = w
    BY <1>0, <1>5, <1>6 DEF w
  <2> QED
    BY <1>4, <1>7, <2>1, <2>2 DEF Reads
<1>12. Refusing(p) => Refusing(p)'
  BY <1>0, <1>4 DEF Refusing, GivesUp
<1>13. ASSUME Mirrors(p) PROVE Mirrors(p)'
  <2>1. Acted(p)' = Acted(p)
    BY <1>4, <1>6 DEF Acted, n
  <2>2. (\A c \in Channels, s \in SubIds : subscriptions[p][s] = c <=> Stands(wire[p], Acted(p), c, s))'
    BY <1>0, <1>4, <1>13, <2>1 DEF Mirrors
  <2>3. S!SubscribedTo(p)' = S!SubscribedTo(p)
    BY <1>4 DEF S!SubscribedTo, S!SubscriptionIds
  <2>4. (\A c \in Channels : /\ S!Once(channels[c], connectionId[p])
                             /\ S!Listed(p, c) <=> c \in S!SubscribedTo(p))'
    BY <1>4, <1>13, <2>3 DEF Mirrors, S!Listed
  <2> QED
    BY <2>2, <2>4 DEF Mirrors
<1> QED
  BY <1>3, <1>10, <1>11, <1>12, <1>13

\* Another connection's handler, and the client at work on another one.
LEMMA OthersSide ==
  ASSUME S!SessionInv, S!TypeInv, NEW h \in Objects, NEW p \in Objects, p # h, ServerSide(p),
         S!Accept(h) \/ S!ThreadStep(h) \/ S!ClientRead(h) \/ S!ClientDrop(h)
         \/ \E f \in ClientFrames : S!Receive(h, f),
         wire[p] \in Seq(Frame \cup {Delimiter}), taken[p] \in 0..Len(wire[p]), taken'[p] = taken[p],
         \A k \in 1..Len(wire[p]) : wire'[p][k] = wire[p][k],
         Up(p)' => Up(p), GivesUp(p) /\ Up(p)' => GivesUp(p)'
  PROVE  ServerSide(p)'
<1>1. Unused(p)'
  BY UnusedStays DEF ServerSide
<1>2. /\ pc'[p] = pc[p] /\ frame'[p] = frame[p] /\ reply'[p] = reply[p]
  BY OthersStay
<1>3. ASSUME Up(p)'
      PROVE  /\ Serves(p)' /\ subscriptions'[p] = subscriptions[p]
             /\ connectionId'[p] = connectionId[p]
             /\ \A c \in Channels :
                  /\ S!Once(channels[c], connectionId[p]) => S!Once(channels'[c], connectionId[p])
                  /\ connectionId[p] \in S!ToSet(channels'[c]) <=> connectionId[p] \in S!ToSet(channels[c])
             /\ Refusing(p) => Refusing(p)'
  <2>1. Serves(p)
    BY <1>3 DEF ServerSide
  <2>2. /\ subscriptions'[p] = subscriptions[p] /\ connectionId'[p] = connectionId[p]
        /\ connected'[p] = connected[p] /\ open'[p] = open[p] /\ clientUp'[p] = clientUp[p]
        /\ (\E k \in DOMAIN outbox[p] : IsError(outbox[p][k]))
             => \E k \in DOMAIN outbox'[p] : IsError(outbox'[p][k])
    BY <2>1, OthersServe
  <2>3. Serves(p)'
    BY <1>2, <2>1, <2>2 DEF Serves
  <2>4. Refusing(p) => Refusing(p)'
    BY <1>2, <1>3, <2>2 DEF Refusing
  <2>5. ASSUME NEW c \in Channels
        PROVE  /\ S!Once(channels[c], connectionId[p]) => S!Once(channels'[c], connectionId[p])
               /\ connectionId[p] \in S!ToSet(channels'[c]) <=> connectionId[p] \in S!ToSet(channels[c])
    <3>1. CASE S!ThreadStep(h)
      <4>1. connectionId[p] # connectionId[h]
        <5>1. pc[p] # "off"
          BY <2>1 DEF Serves
        <5> QED
          BY <5>1 DEF S!SessionInv, S!Registered
      <4> QED
        BY <3>1, <4>1, OthersLists
    <3>2. CASE channels' = channels
      BY <3>2
    <3> QED
      BY <3>1, <3>2
         DEF S!Accept, S!ClientRead, S!ClientDrop, S!Receive, S!brokerVars, S!tables
  <2> QED
    BY <2>2, <2>3, <2>4, <2>5
<1> QED
  BY <1>1, <1>2, <1>3, SideStays

\* The client moves, and the server does not.
LEMMA ClientSideSteps ==
  ASSUME NEW p \in Objects, ServerSide(p), UNCHANGED <<serverVars, taken>>,
         wire[p] \in Seq(Frame \cup {Delimiter}), taken[p] \in 0..Len(wire[p]),
         \A k \in 1..Len(wire[p]) : wire'[p][k] = wire[p][k],
         Up(p)' => Up(p), GivesUp(p) /\ Up(p)' => GivesUp(p)'
  PROVE  ServerSide(p)'
<1>1. Unused(p)'
  BY DEF ServerSide, Unused, serverVars
<1>2. ASSUME Up(p)'
      PROVE  Serves(p)' /\ (Refusing(p) => Refusing(p)')
  BY <1>2 DEF ServerSide, Serves, Refusing, serverVars
<1> QED
  BY <1>1, <1>2, SideStays DEF serverVars

\* A login and its accept: nothing is subscribed, and the new id is in no list.
LEMMA AcceptSide ==
  ASSUME TypeInv, S!SessionInv, S!TypeInv, KnownLists, NEW p \in Objects,
         taken[p] \in 0..Len(wire[p]), ServerSide(p), Login(p), S!Accept(p), UNCHANGED taken
  PROVE  ServerSide(p)'
<1>0. /\ pc[p] = "off" /\ pc'[p] = "read" /\ open'[p] /\ clientUp'[p]
      /\ UNCHANGED <<connected, channels, subscriptions, wire>>
      /\ counter \in Ids /\ connectionId'[p] = counter
  BY ServerTypes DEF S!Accept, S!Goto, Login
<1>1. /\ connected[p]
      /\ \A s \in SubIds : subscriptions[p][s] = Null
  BY <1>0 DEF ServerSide, Unused
<1>2. Serves(p)'
  BY <1>0, <1>1 DEF Serves
<1>3. wire[p] = <<>> /\ taken[p] = 0
  <2>1. wire[p] = <<>>
    BY DEF Login, TypeInv, SocketsKept
  <2> QED
    BY <2>1
<1>4. Reads(p)'
  BY <1>0, <1>3 DEF Reads
<1>5. Mirrors(p)'
  <2>1. \A c, s : ~ Stands(wire[p], 0, c, s)
    BY DEF Stands
  <2>2. Acted(p)' = 0
    BY <1>0, <1>3 DEF Acted
  <2>3. Null \notin Channels /\ Ids \subseteq Nat
    BY ServerKnown
  <2>4. (\A c \in Channels, s \in SubIds : subscriptions[p][s] = c <=> Stands(wire[p], Acted(p), c, s))'
    BY <1>0, <1>1, <2>1, <2>2, <2>3
  <2>5. S!SubscribedTo(p)' = {}
    BY <1>0, <1>1 DEF S!SubscribedTo, S!SubscriptionIds
  <2>6. \A c \in Channels : counter \notin S!ToSet(channels[c])
    <3> SUFFICES ASSUME NEW c \in Channels, counter \in S!ToSet(channels[c])
                 PROVE  FALSE
      OBVIOUS
    <3>1. counter < counter
      BY DEF KnownLists
    <3>2. counter \in Nat
      BY <1>0, <2>3
    <3> QED
      BY <3>1, <3>2
  <2>7. (\A c \in Channels : /\ S!Once(channels[c], connectionId[p])
                             /\ S!Listed(p, c) <=> c \in S!SubscribedTo(p))'
    BY <1>0, <2>5, <2>6 DEF S!Listed, S!Once, S!ToSet
  <2> QED
    BY <2>4, <2>7 DEF Mirrors
<1>6. Unused(p)'
  BY <1>0 DEF Unused
<1> QED
  BY <1>2, <1>4, <1>5, <1>6 DEF ServerSide

\* The reader takes a frame: an ERROR is in its hands, or still to come.
LEMMA GetSide ==
  ASSUME TypeInv, S!SessionInv, S!TypeInv, NEW p \in Objects, taken[p] \in 0..Len(wire[p]),
         ServerSide(p), outbox[p] # <<>>, Get(p, Text(Head(outbox[p]))), S!ClientRead(p),
         UNCHANGED taken
  PROVE  ServerSide(p)'
<1> DEFINE q == outbox[p]
<1>0. /\ q \in Seq(S!ServerFrame) /\ outbox'[p] = Tail(q) /\ at[p] = "get" /\ at'[p] = "handle"
      /\ got'[p] = Text(Head(q)) /\ UNCHANGED <<wire, isConnected>>
      /\ at'[Keyboard] = at[Keyboard]
      /\ UNCHANGED <<pc, frame, subscriptions, connectionId, channels, target, connections, reply>>
      /\ UNCHANGED <<connected, open, clientUp>>
  BY ServerTypes, TypesOf, Known
     DEF S!ClientRead, S!brokerVars, S!tables, S!locals, Get, Goto, TypeInv, TypeOK
<1>1. Unused(p)'
  BY <1>0 DEF ServerSide, Unused
<1>2. Up(p)' <=> Up(p)
  BY <1>0 DEF Up
<1>3. ASSUME NEW k \in DOMAIN q, IsError(q[k])
      PROVE  Refusing(p)'
  <2>1. CASE k = 1
    <3>1. got'[p].command = q[1].command
      BY <1>0 DEF Text
    <3> QED
      BY <1>0, <1>3, <2>1, <3>1 DEF Refusing, GivesUp, IsError
  <2>2. CASE k # 1
    <3>1. k - 1 \in DOMAIN Tail(q) /\ Tail(q)[k - 1] = q[k]
      BY <1>0, <2>2
    <3> QED
      BY <1>0, <1>3, <3>1 DEF Refusing
  <2> QED
    BY <2>1, <2>2
<1>4. Refusing(p) => Refusing(p)'
  <2>1. ~ GivesUp(p)
    BY <1>0 DEF GivesUp
  <2>2. pc[p] = "reply" /\ IsError(reply[p]) => Refusing(p)'
    BY <1>0 DEF Refusing
  <2> QED
    BY <1>3, <2>1, <2>2 DEF Refusing
<1>5. Up(p)' => Serves(p)'
  BY <1>0, <1>2 DEF ServerSide, Serves
<1>6. wire[p] \in Seq(Frame \cup {Delimiter})
  BY TypesOf
<1> HIDE DEF q
<1> QED
  BY <1>0, <1>1, <1>2, <1>4, <1>5, <1>6, SideStays

\* A connection that has gone down.
LEMMA DownSide ==
  ASSUME S!SessionInv, S!TypeInv, NEW p \in Objects, ServerSide(p), S!ClientDrop(p), ~ Up(p)'
  PROVE  ServerSide(p)'
BY UnusedStays DEF ServerSide

\* Only a login puts a connection up.
LEMMA UpBefore ==
  ASSUME TypeInv, NEW p \in Objects, NEW q \in Objects,
         Command \/ KeyboardStep \/ ReaderStep(q), ~ Login(p), Up(p)'
  PROVE  Up(p)
<1>0. /\ at \in [Threads -> Place] /\ p \in Threads /\ q \in Threads /\ Keyboard \in Threads
      /\ p # Keyboard /\ q # Keyboard /\ isConnected \in [Objects -> BOOLEAN] /\ Object(q) = q
      /\ current \in Objects \cup {Null} /\ Object(Keyboard) = current /\ p # Null
  BY Known DEF TypeInv, TypeOK
<1>1. isConnected[p]
  <2>1. ASSUME isConnected' = isConnected
        PROVE  isConnected[p]
    BY <2>1 DEF Up
  <2>2. ASSUME NEW g, isConnected' = [isConnected EXCEPT ![g] = FALSE]
        PROVE  isConnected[p]
    BY <1>0, <2>2 DEF Up
  <2>3. ASSUME NEW g \in Objects, Login(g)
        PROVE  isConnected[p]
    BY <1>0, <2>3 DEF Login, Up
  <2>4. CASE Command
    BY <2>1, <2>3, <2>4
       DEF Command, LoginFails, ReportThrows, Logout, Join, Leave, Report
  <2>5. ASSUME NEW t, Inside(t) \/ Payload(t) \/ End(t) \/ WriteFails(t)
        PROVE  isConnected[p]
    BY <2>1, <2>2, <2>5
       DEF Inside, Lock, TestAndClear, Number, Load, Store, Payload, End, Write, WriteFails
  <2>6. CASE KeyboardDone
    BY <2>1, <2>6 DEF KeyboardDone, LoginDone, SubscriptionDone, NextEvent, LogoutDone
  <2>7. CASE ErrorDone(q) \/ Test(q) \/ HandleOther(q) \/ HandleReceipt(q) \/ HandleError(q)
             \/ HandleThrows(q)
    BY <2>1, <2>2, <2>7
       DEF ErrorDone, Test, HandleOther, HandleReceipt, HandleError, HandleThrows
  <2>8. ASSUME NEW m, Get(q, m) \/ GetFails(q, m)
        PROVE  isConnected[p]
    BY <2>1, <2>2, <2>8 DEF Get, GetFails
  <2> QED
    BY <2>4, <2>5, <2>6, <2>7, <2>8 DEF KeyboardStep, ReaderStep
<1>2. at[Keyboard] # "aborted"
  <2>1. ASSUME NEW l, Goto(q, l)
        PROVE  at[Keyboard] # "aborted"
    BY <1>0, <2>1 DEF Goto, Up
  <2>2. ~ Abort
    BY <1>0 DEF Abort, Up
  <2>3. CASE Command
    BY <2>3 DEF Command, Login, LoginFails, ReportThrows, Logout, Join, Leave, Report, Enter
  <2>4. CASE KeyboardStep
    BY <2>4
       DEF KeyboardStep, KeyboardDone, LoginDone, SubscriptionDone, NextEvent, LogoutDone,
           Inside, Lock, TestAndClear, Number, Load, Store, Payload, End, WriteFails
  <2>5. CASE Inside(q) \/ Payload(q) \/ End(q) \/ WriteFails(q)
    BY <2>1, <2>2, <2>5
       DEF Inside, Lock, TestAndClear, Number, Load, Store, Payload, End, Write, WriteFails
  <2>6. CASE ErrorDone(q) \/ Test(q) \/ HandleOther(q) \/ HandleReceipt(q) \/ HandleError(q)
             \/ HandleThrows(q)
    BY <2>1, <2>2, <2>6
       DEF ErrorDone, Test, HandleOther, HandleReceipt, HandleError, HandleThrows
  <2>7. ASSUME NEW m, Get(q, m) \/ GetFails(q, m)
        PROVE  at[Keyboard] # "aborted"
    BY <2>1, <2>7 DEF Get, GetFails
  <2> QED
    BY <2>3, <2>4, <2>5, <2>6, <2>7 DEF ReaderStep
<1> QED
  BY <1>1, <1>2 DEF Up
-----------------------------------------------------------------------------
(* The two sides agree *)

AgreeInv == KnownLists /\ \A p \in Objects : ClientSide(p) /\ ServerSide(p)

\* A step of the client, as both sides of p see it.
LEMMA ClientAgrees ==
  ASSUME ClientInv, TracedInv, NEW p \in Objects, ClientSide(p), NEW q \in Objects,
         Command \/ KeyboardStep \/ ReaderStep(q), ~ Login(p)
  PROVE  /\ Up(p)' => Up(p)
         /\ GivesUp(p) /\ Up(p)' => GivesUp(p)'
<1>0. TypeInv
  BY DEF ClientInv
<1>1. Up(p)' => Up(p)
  BY <1>0, UpBefore
<1>2. GivesUp(p) /\ Up(p)' => GivesUp(p)'
  <2>1. ReceiptsTraced(p)
    BY DEF TracedInv, Traced
  <2>2. Up(p)' => Talks(p)
    BY <1>1 DEF ClientSide
  <2> QED
    BY <1>0, <2>1, <2>2, ReaderRefuses
<1> QED
  BY <1>1, <1>2

\* No write of the keyboard thread fails on a connection that is up.
LEMMA WritesArrive ==
  ASSUME NEW p \in Objects, ClientSide(p), ServerSide(p), Gone(current)
  PROVE  ~ Up(p)
BY DEF ClientSide, Talks, ServerSide, Serves, Gone

\* The reader takes no command.
LEMMA ReaderNoLogin ==
  ASSUME TypeInv, NEW p \in Objects, NEW q \in Objects, ReaderStep(q)
  PROVE  ~ Login(p)
<1>1. Login(p) => commands' # commands
  BY DEF Login, Enter, TypeInv, TypeOK
<1>2. commands' = commands
  BY DEF ReaderStep, Inside, Lock, TestAndClear, Number, Load, Store, Payload, End, Write,
         WriteFails, ErrorDone, Test, Get, GetFails, HandleOther, HandleReceipt, HandleError,
         HandleThrows, main
<1> QED
  BY <1>1, <1>2

LEMMA AgreeNext ==
  ASSUME ClientInv, S!SessionInv, S!TypeInv, S!TypeInv', TracedInv, AgreeInv, [NextBoth]_allVars
  PROVE  AgreeInv'
<1>1. [Next]_vars /\ TypeInv
  BY ClientSteps DEF ClientInv
<1>2. KnownLists'
  BY ServerSteps, KnownListsKept DEF AgreeInv
<1> SUFFICES ASSUME NEW p \in Objects
             PROVE  ClientSide(p)' /\ ServerSide(p)'
  BY <1>2 DEF AgreeInv
<1>3. /\ ClientSide(p) /\ ServerSide(p) /\ KnownLists
      /\ wire[p] \in Seq(Frame \cup {Delimiter}) /\ taken[p] \in 0..Len(wire[p])
      /\ \A k \in 1..Len(wire[p]) : wire'[p][k] = wire[p][k]
  <2>1. wire[p] \in Seq(Frame \cup {Delimiter})
    BY <1>1, TypesOf
  <2>2. \A k \in DOMAIN wire[p] : wire'[p][k] = wire[p][k]
    BY <1>1, WireGrows
  <2> QED
    BY <2>1, <2>2 DEF AgreeInv, TracedInv, Traced
<1>4. ASSUME UNCHANGED clientVars
      PROVE  /\ ClientSide(p)' /\ (Up(p)' <=> Up(p)) /\ (GivesUp(p)' <=> GivesUp(p))
  BY <1>3, <1>4
     DEF clientVars, vars, main, counters, ClientSide, NothingSubscribed, Up, Talks, Alternates,
         Told, GivesUp
<1>5. ASSUME NEW q \in Objects, Command \/ KeyboardStep \/ ReaderStep(q), ~ Login(p)
      PROVE  /\ Up(p)' => Up(p)
             /\ GivesUp(p) /\ Up(p)' => GivesUp(p)'
  BY <1>3, <1>5, ClientAgrees
<1>6. ASSUME NEW q \in Objects, Command \/ KeyboardStep \/ ReaderStep(q), ~ Login(p), ClientOnly
      PROVE  ServerSide(p)'
  BY <1>3, <1>5, <1>6, ClientSideSteps DEF ClientOnly
<1>7. CASE UNCHANGED allVars
  <2>1. UNCHANGED clientVars /\ UNCHANGED <<serverVars, taken>>
    BY <1>7 DEF allVars
  <2>2. ServerSide(p)'
    BY <1>3, <1>4, <2>1, ClientSideSteps
  <2> QED
    BY <1>4, <2>1, <2>2
<1>8. CASE Typed
  <2>1. Command
    BY <1>8 DEF Typed, Command
  <2>2. ClientSide(p)'
    BY <1>3, <2>1, CommandTalks
  <2>3. CASE ClientOnly /\ ~ Login(p)
    BY <1>6, <2>1, <2>2, <2>3
  <2>4. ASSUME NEW q \in Objects, Login(q), S!Accept(q), UNCHANGED taken
        PROVE  ServerSide(p)'
    <3>1. CASE q = p
      BY <1>1, <1>3, <2>4, <3>1, AcceptSide
    <3>2. CASE q # p
      <4>1. ~ Login(p)
        BY <1>1, <2>4, <3>2, TypesOf DEF Login
      <4>2. /\ Up(p)' => Up(p)
            /\ GivesUp(p) /\ Up(p)' => GivesUp(p)'
        BY <1>5, <2>1, <4>1
      <4> QED
        BY <1>3, <2>4, <3>2, <4>2, OthersSide
    <3> QED
      BY <3>1, <3>2
  <2>5. \/ ClientOnly /\ ~ Login(p)
        \/ \E q \in Objects : Login(q) /\ S!Accept(q) /\ UNCHANGED taken
    <3>1. Login(p) => current' # current
      BY <1>1, <1>3, TypesOf DEF Login, LoggedIn, TypeInv, SocketsKept
    <3>2. CASE \E q \in Objects : Login(q) /\ Server!Accept(q) /\ UNCHANGED taken
      BY <3>2, SameAccept
    <3>3. CASE /\ ClientOnly
               /\ \/ LoginFails \/ ReportThrows \/ Logout
                  \/ \E c \in Channels : Join(c) \/ Leave(c) \/ \E n \in 1..MaxEvents : Report(c, n)
      <4>1. current' = current
        BY <3>3 DEF LoginFails, ReportThrows, Logout, Join, Leave, Report
      <4> QED
        BY <3>1, <3>3, <4>1
    <3> QED
      BY <1>8, <3>2, <3>3 DEF Typed
  <2> QED
    BY <2>2, <2>3, <2>4, <2>5
<1>9. CASE KeyboardRuns
  <2>1. KeyboardStep /\ ClientOnly /\ ~ Login(p)
    BY <1>9
       DEF KeyboardRuns, Sends, KeyboardStep, KeyboardDone, LoginDone, SubscriptionDone, NextEvent,
           LogoutDone, Inside, Lock, TestAndClear, Number, Load, Store, Payload, End, WriteFails,
           Login, Enter
  <2>2. ServerSide(p)'
    BY <1>6, <2>1
  <2>3. Object(Keyboard) = current
    BY Known
  <2>4. \/ Inside(Keyboard) \/ Payload(Keyboard) \/ End(Keyboard) \/ KeyboardDone
        \/ WriteFails(Keyboard) /\ ~ Up(p)
    BY <1>3, <1>9, <2>3, WritesArrive DEF KeyboardRuns, Sends
  <2> QED
    BY <1>3, <2>2, <2>4, KeyboardTalks
<1>10. ASSUME NEW q \in Objects, S!ClientRead(q) \/ S!ClientDrop(q) \/ S!ThreadStep(q)
                                  \/ \E f \in ClientFrames : S!Receive(q, f),
              q # p, taken'[p] = taken[p], Up(p)' => Up(p), GivesUp(p) /\ Up(p)' => GivesUp(p)'
       PROVE  ServerSide(p)'
  BY <1>3, <1>10, OthersSide
<1>11. ASSUME NEW q \in Objects, ReaderRuns(q)
       PROVE  ClientSide(p)' /\ ServerSide(p)'
  <2>1. ReaderStep(q)
    <3>1. CASE outbox[q] # <<>> /\ Get(q, Text(Head(outbox[q])))
      <4>1. Head(outbox[q]) \in S!ServerFrame
        BY <3>1 DEF S!TypeInv, S!TransportTypeOK
      <4>2. Text(Head(outbox[q])) \in Messages
        BY <4>1, SameFrames, TextAssumption
      <4> QED
        BY <3>1, <4>2 DEF ReaderStep
    <3>2. ASSUME NEW m \in Remains(q), GetFails(q, m)
          PROVE  ReaderStep(q)
      <4>1. m \in Messages \cup {Null}
        BY <3>2, RemainsRead
      <4> QED
        BY <3>2, <4>1 DEF ReaderStep
    <3> QED
      BY <1>11, <3>1, <3>2 DEF ReaderRuns, Sends, ReaderStep
  <2>2. ~ Login(p)
    BY <1>1, <2>1, ReaderNoLogin
  <2>3. ClientSide(p)'
    BY <1>3, <2>1, ReaderTalks
  <2>4. /\ Up(p)' => Up(p)
        /\ GivesUp(p) /\ Up(p)' => GivesUp(p)'
    BY <1>5, <2>1, <2>2
  <2>5. CASE ClientOnly
    BY <1>6, <2>1, <2>2, <2>3, <2>5
  <2>6. CASE outbox[q] # <<>> /\ Get(q, Text(Head(outbox[q]))) /\ S!ClientRead(q) /\ UNCHANGED taken
    <3>1. CASE q = p
      BY <1>1, <1>3, <2>3, <2>6, <3>1, GetSide
    <3> QED
      BY <1>10, <2>3, <2>4, <2>6, <3>1
  <2>7. CASE HandleReceipt(q) /\ S!ClientDrop(q) /\ UNCHANGED taken
    <3>1. CASE q = p
      <4>1. ~ Up(p)'
        BY <1>1, <2>7, <3>1, TypesOf DEF HandleReceipt, Up
      <4> QED
        BY <1>3, <2>3, <2>7, <3>1, <4>1, DownSide
    <3> QED
      BY <1>10, <2>3, <2>4, <2>7, <3>1
  <2> QED
    BY <1>11, <2>5, <2>6, <2>7, SameRead, SameDrop DEF ReaderRuns
<1>12. ASSUME NEW q \in Objects, Killed(q)
       PROVE  ClientSide(p)' /\ ServerSide(p)'
  <2>1. /\ UNCHANGED clientVars /\ UNCHANGED taken
        /\ S!ClientDrop(q) /\ ~ Up(p)
    BY <1>12, SameDrop DEF Killed, Up
  <2>2. ClientSide(p)' /\ ~ Up(p)'
    BY <1>4, <2>1
  <2>3. CASE q = p
    BY <1>3, <2>1, <2>2, <2>3, DownSide
  <2> QED
    BY <1>10, <2>1, <2>2, <2>3
<1>13. ASSUME NEW q \in Objects, ServerRuns(q)
       PROVE  ClientSide(p)' /\ ServerSide(p)'
  <2>1. /\ UNCHANGED clientVars
        /\ taken \in [Objects -> Nat]
    BY <1>13 DEF ServerRuns, ServerReceives, TracedInv
  <2>2. CASE S!ThreadStep(q) /\ UNCHANGED taken
    <3>1. CASE q = p
      BY <1>1, <1>3, <1>4, <2>1, <2>2, <3>1, OwnThread
    <3> QED
      BY <1>4, <1>10, <2>1, <2>2, <3>1
  <2>3. CASE ServerReceives(q)
    <3>1. CASE q = p
      BY <1>3, <1>4, <2>1, <2>3, <3>1, OwnReceive
    <3>2. CASE q # p
      <4>1. taken'[p] = taken[p] /\ \E f \in ClientFrames : S!Receive(q, f)
        BY <2>1, <2>3, <3>2, SameReceive DEF ServerReceives
      <4> QED
        BY <1>4, <1>10, <2>1, <3>2, <4>1
    <3> QED
      BY <3>1, <3>2
  <2> QED
    BY <1>13, <2>2, <2>3, SameThread DEF ServerRuns
<1> QED
  BY <1>7, <1>8, <1>9, <1>11, <1>12, <1>13 DEF NextBoth

LEMMA AgreeStarts == InitBoth => AgreeInv
<1> SUFFICES ASSUME InitBoth
             PROVE  AgreeInv
  OBVIOUS
<1>0. S!BrokerInit /\ connected = [h \in Objects |-> TRUE]
  <2>1. S!Init
    BY SameInit DEF InitBoth
  <2> QED
    BY <2>1 DEF S!Init
<1>1. KnownLists
  <2>1. channels = [c \in Channels |-> <<>>]
    BY <1>0 DEF S!BrokerInit
  <2>2. \A c \in Channels : channels[c] = <<>>
    BY <2>1
  <2> QED
    BY <2>2 DEF KnownLists, S!ToSet
<1>2. ASSUME NEW p \in Objects
      PROVE  ClientSide(p) /\ ServerSide(p)
  <2>1. ~ Up(p) /\ \A c \in Channels : subscribed[p][c] = Null
    BY <1>2 DEF InitBoth, Init, Up
  <2>2. /\ connected = [h \in Objects |-> TRUE] /\ target = [h \in Objects |-> Null]
        /\ connections = [i \in Ids |-> Null]
        /\ subscriptions = [h \in Objects |-> [s \in SubIds |-> Null]]
    BY <1>0 DEF S!BrokerInit
  <2>3. p # Null
    BY Known
  <2> QED
    BY <2>1, <2>2, <2>3 DEF ClientSide, NothingSubscribed, ServerSide, Unused
<1> QED
  BY <1>1, <1>2 DEF AgreeInv

\* A quiet session has no refusal on its way, and nothing told that the server
\* has not acted upon.
LEMMA QuietMirrors ==
  ASSUME TypeInv, S!TypeInv, AgreeInv, NEW p \in Objects, at[Keyboard] = "prompt",
         isConnected[p], Quiet(p)
  PROVE  /\ Talks(p) /\ Reads(p) /\ Mirrors(p)
         /\ Told(p) = wire[p] /\ taken[p] = Len(wire[p]) /\ Acted(p) = Len(wire[p])
<1>1. Up(p) /\ Talks(p) /\ Reads(p) /\ (Refusing(p) \/ Mirrors(p))
  BY DEF Up, AgreeInv, ClientSide, ServerSide
<1>2. ~ Refusing(p)
  BY DEF Refusing, GivesUp, Quiet
<1>3. Told(p) = wire[p] /\ taken[p] = Len(wire[p]) /\ Acted(p) = Len(wire[p])
  BY DEF Told, Ahead, Acted, Quiet
<1> QED
  BY <1>1, <1>2, <1>3

LEMMA QuietAgrees ==
  ASSUME TypeInv, S!TypeInv, AgreeInv
  PROVE  SubscriptionsAgree
<1> SUFFICES ASSUME NEW p \in Objects, at[Keyboard] = "prompt", isConnected[p], Quiet(p),
                    NEW c \in Channels
             PROVE  /\ subscribed[p][c] # Null <=>
                         \E k \in DOMAIN channels[c] : channels[c][k] = connectionId[p]
                    /\ subscribed[p][c] # Null => subscriptions[p][subscribed[p][c]] = c
  BY DEF SubscriptionsAgree
<1> DEFINE q == wire[p]
<1>0. /\ Len(q) \in Nat
      /\ subscribed[p][c] \in Nat \cup {Null} /\ Null \notin Nat
      /\ subscriptions[p] \in [SubIds -> Channels \cup {Null}] /\ Null \notin Channels
  BY TypesOf, ServerTypes, ServerKnown
<1>1. /\ Records(q, subscribed[p], subscriptionCounter[p])
      /\ \A k \in 1..Len(q) : q[k].command = "SUBSCRIBE" => q[k].id \in SubIds
      /\ \A s \in SubIds : subscriptions[p][s] = c <=> Stands(q, Len(q), c, s)
      /\ S!Listed(p, c) <=> c \in S!SubscribedTo(p)
  BY QuietMirrors DEF Talks, Reads, Mirrors
<1>2. ASSUME NEW s, Stands(q, Len(q), c, s)
      PROVE  s \in Nat /\ s \in SubIds
  <2>1. PICK k \in 1..Len(q) : Subscribes(q[k], c, s)
    BY <1>2 DEF Stands
  <2> QED
    BY <1>1, <2>1 DEF Subscribes, Records
<1>3. \A s \in Nat : subscribed[p][c] = s <=> Stands(q, Len(q), c, s)
  BY <1>1 DEF Records
<1>4. c \in S!SubscribedTo(p) <=> \E s \in SubIds : subscriptions[p][s] = c
  BY <1>0 DEF S!SubscribedTo, S!SubscriptionIds
<1>5. S!Listed(p, c) <=> \E k \in DOMAIN channels[c] : channels[c][k] = connectionId[p]
  BY DEF S!Listed, S!ToSet
<1> HIDE DEF q
<1>6. subscribed[p][c] # Null => subscriptions[p][subscribed[p][c]] = c /\ subscribed[p][c] \in SubIds
  BY <1>0, <1>1, <1>2, <1>3
<1>7. (\E s \in SubIds : subscriptions[p][s] = c) => subscribed[p][c] # Null
  BY <1>0, <1>1, <1>2, <1>3
<1> QED
  BY <1>1, <1>4, <1>5, <1>6, <1>7

\* The client keeps its subscriptions by channel (StompProtocol.cpp:76-105), the
\* server by id, beside the lists it delivers from (StompProtocol.java:92-121).
\* When nothing is on its way they agree, whatever was typed, whatever the
\* server has refused before and whatever other connections have done.
THEOREM SidesAgree == SafetyBoth => []SubscriptionsAgree
<1>1. ClientInv /\ S!SessionInv /\ S!TypeInv /\ S!TypeInv' /\ TracedInv /\ AgreeInv
        /\ [NextBoth]_allVars => AgreeInv'
  BY AgreeNext
<1>2. TypeInv /\ S!TypeInv /\ AgreeInv => SubscriptionsAgree
  BY QuietAgrees
<1> QED
  BY <1>1, <1>2, AgreeStarts, BothKnown, ReceiptsAnswer, PTL DEF SafetyBoth
=============================================================================
