---------------------------- MODULE StompBroker -----------------------------
(***************************************************************************)
(* The part of the server both concurrency models share: the tables of     *)
(* ConnectionsImpl and the frame handlers of StompProtocol.  Each          *)
(* connection handler has a protocol object; whoever runs it (its thread,  *)
(* or a pool worker) takes one step per access to a shared table.          *)
(*                                                                         *)
(* The actions say nothing of sockets: a module that EXTENDS this one      *)
(* conjoins what its transport does, above all when the protocol stands at *)
(* "deliver", "receipt" or "reply", with a frame to write.                 *)
(*                                                                         *)
(* A channel that has no list yet is one with an empty list: every reader  *)
(* in ConnectionsImpl treats the two alike.                                *)
(***************************************************************************)
EXTENDS Naturals, Sequences, SequencesExt

CONSTANTS
  Handlers,   \* connection handlers, each with its StompProtocol
  Ids,        \* connection ids
  Users, Passcodes, Channels, SubIds, Receipts,  \* header values
  Frames,     \* the frames clients send
  Empty,      \* the empty header value
  Null        \* a header or map entry that is missing

ASSUME NullIsNoValue ==
  Null \notin Handlers \cup Ids \cup Users \cup Passcodes \cup Channels \cup SubIds
             \cup Receipts

\* Headers StompProtocol looks at; "garbled" is a frame parseFrame throws on.
Frame == [command     : {"CONNECT", "SUBSCRIBE", "UNSUBSCRIBE", "SEND",
                         "DISCONNECT", "unknown", "garbled"},
          login       : Users \cup {Empty, Null},
          passcode    : Passcodes \cup {Empty, Null},
          destination : Channels \cup {Null},
          id          : SubIds \cup {Null},
          receipt     : Receipts \cup {Null}]

ASSUME FramesAssumption == Frames \subseteq Frame

VARIABLES
  connections,     \* ConnectionsImpl: per id, its handler or Null
  channels,        \* per channel, the list of subscribed ids
  userCredentials, \* per user, the passcode it registered with or Null
  activeUsers,     \* per user, the id it is logged in on or Null
  connectionId,    \* StompProtocol: per handler, its id or Null
  username,        \* who logged in, or Null; never reset
  subscriptions,   \* per subscription id, its channel or Null
  pc,              \* where the protocol is
  frame,           \* the frame being processed
  todo,            \* send(channel): what the iterator has not visited
  target,          \* the handler being written to or closed
  leaving,         \* logoutUser: the id it removes
  dirty,           \* logoutUser: channels it has not visited
  reply            \* the result of process, or Null

tables == <<connections, channels, userCredentials, activeUsers>>
locals == <<connectionId, username, subscriptions, frame, todo, target,
            leaving, dirty, reply>>
brokerVars == <<tables, pc, locals>>

Step == {"off", "read", "process", "login", "fanout", "deliver",
         "receipt", "logout", "clean", "reply", "exited"}

Plain(c) == [command |-> c]
Message == [command : {"MESSAGE"}, messageId : Ids, destination : Channels]
ReceiptFrame == [command : {"RECEIPT"}, receiptId : Receipts]
ServerFrame == {Plain("CONNECTED"), Plain("ERROR")} \cup ReceiptFrame \cup Message

BrokerTypeOK ==
  /\ connections \in [Ids -> Handlers \cup {Null}]
  /\ channels \in [Channels -> Seq(Ids)]
  /\ userCredentials \in [Users -> Passcodes \cup {Null}]
  /\ activeUsers \in [Users -> Ids \cup {Null}]
  /\ connectionId \in [Handlers -> Ids \cup {Null}]
  /\ username \in [Handlers -> Users \cup {Null}]
  /\ subscriptions \in [Handlers -> [SubIds -> Channels \cup {Null}]]
  /\ pc \in [Handlers -> Step]
  /\ frame \in [Handlers -> Frames \cup {Null}]
  /\ todo \in [Handlers -> Seq(Ids)]
  /\ target \in [Handlers -> Handlers \cup {Null}]
  /\ leaving \in [Handlers -> Ids \cup {Null}]
  /\ dirty \in [Handlers -> SUBSET Channels]
  /\ reply \in [Handlers -> ServerFrame \cup {Null}]

BrokerInit ==
  /\ connections = [i \in Ids |-> Null]
  /\ channels = [ch \in Channels |-> <<>>]
  /\ userCredentials = [u \in Users |-> Null]
  /\ activeUsers = [u \in Users |-> Null]
  /\ connectionId = [h \in Handlers |-> Null]
  /\ username = [h \in Handlers |-> Null]
  /\ subscriptions = [h \in Handlers |-> [s \in SubIds |-> Null]]
  /\ pc = [h \in Handlers |-> "off"]
  /\ frame = [h \in Handlers |-> Null]
  /\ todo = [h \in Handlers |-> <<>>]
  /\ target = [h \in Handlers |-> Null]
  /\ leaving = [h \in Handlers |-> Null]
  /\ dirty = [h \in Handlers |-> {}]
  /\ reply = [h \in Handlers |-> Null]

Goto(h, l) == pc' = [pc EXCEPT ![h] = l]

\* process returns r; Null sends nothing.
Answer(h, r) ==
  /\ reply' = [reply EXCEPT ![h] = r]
  /\ Goto(h, "reply")

\* createReceiptFrame; Null if the frame asks for no receipt.
Receipt(h) ==
  LET r == frame[h].receipt
  IN  IF r = Null THEN Null ELSE [command |-> "RECEIPT", receiptId |-> r]

SubscriptionIds(h) == {s \in SubIds : subscriptions[h][s] # Null}

SubscribedTo(h) == {subscriptions[h][s] : s \in SubscriptionIds(h)}
-----------------------------------------------------------------------------
(* process: which frames are refused with ERROR, which make it throw *)

\* ArrayIndexOutOfBounds in parseFrame; equals on a missing login or
\* passcode; containsValue(null).
Throws(h) ==
  LET f == frame[h]
  IN  \/ f.command = "garbled"
      \/ /\ f.command = "CONNECT"
         /\ username[h] = Null
         /\ f.login = Null \/ (f.login # Empty /\ f.passcode = Null)
      \/ /\ f.command = "SUBSCRIBE"
         /\ username[h] # Null
         /\ f.destination = Null

Refused(h) ==
  LET f == frame[h]
  IN  \/ f.command = "unknown"
      \/ f.command = "CONNECT" /\ (username[h] # Null \/ Empty \in {f.login, f.passcode})
      \/ f.command # "CONNECT" /\ username[h] = Null
      \/ f.command = "SUBSCRIBE" /\ (f.destination \in SubscribedTo(h) \/ f.id = Null)
      \/ f.command = "UNSUBSCRIBE" /\ f.id \notin SubscriptionIds(h)
      \/ f.command = "SEND" /\ f.destination \notin SubscribedTo(h)

Handles(h, command) ==
  /\ pc[h] = "process"
  /\ ~ Throws(h)
  /\ ~ Refused(h)
  /\ frame[h].command = command

\* The connection stays open after an ERROR.
Refuse(h) ==
  /\ pc[h] = "process"
  /\ ~ Throws(h)
  /\ Refused(h)
  /\ Answer(h, Plain("ERROR"))
  /\ UNCHANGED <<tables, connectionId, username, subscriptions, frame, todo,
                 target, leaving, dirty>>
-----------------------------------------------------------------------------
(* handleConnect *)

RegisterOverwrites(h) ==  \* mutant: put instead of putIfAbsent
  /\ Handles(h, "CONNECT")
  /\ userCredentials' = [userCredentials EXCEPT ![frame[h].login] = frame[h].passcode]
  /\ Goto(h, "login")
  /\ UNCHANGED <<connections, channels, activeUsers, connectionId, username,
                 subscriptions, frame, todo, target, leaving, dirty, reply>>

\* registerUser, a putIfAbsent, or else authenticateUser: one step, as the
\* entry it compares with is never replaced.
Register(h) ==
  /\ Handles(h, "CONNECT")
  /\ LET f == frame[h]
         registered == userCredentials[f.login]
     IN  /\ userCredentials' = [userCredentials EXCEPT
                                  ![f.login] = IF @ = Null THEN f.passcode ELSE @]
         /\ IF registered \in {Null, f.passcode}
            THEN Goto(h, "login") /\ UNCHANGED reply
            ELSE Answer(h, Plain("ERROR"))
  /\ UNCHANGED <<connections, channels, activeUsers, connectionId, username,
                 subscriptions, frame, todo, target, leaving, dirty>>

LoginTakesOver(h) ==  \* mutant: put instead of putIfAbsent
  /\ pc[h] = "login"
  /\ LET u == frame[h].login
     IN  /\ activeUsers' = [activeUsers EXCEPT ![u] = connectionId[h]]
         /\ username' = [username EXCEPT ![h] = u]
  /\ Answer(h, Plain("CONNECTED"))
  /\ UNCHANGED <<connections, channels, userCredentials, connectionId,
                 subscriptions, frame, todo, target, leaving, dirty>>

\* loginUser, another putIfAbsent.
Login(h) ==
  /\ pc[h] = "login"
  /\ LET u == frame[h].login
     IN  IF activeUsers[u] = Null
         THEN /\ activeUsers' = [activeUsers EXCEPT ![u] = connectionId[h]]
              /\ username' = [username EXCEPT ![h] = u]
              /\ Answer(h, Plain("CONNECTED"))
         ELSE /\ Answer(h, Plain("ERROR"))
              /\ UNCHANGED <<activeUsers, username>>
  /\ UNCHANGED <<connections, channels, userCredentials, connectionId,
                 subscriptions, frame, todo, target, leaving, dirty>>
-----------------------------------------------------------------------------
(* handleSubscribe and handleUnsubscribe *)

\* put replaces what the subscription id stood for.
Subscribe(h) ==
  /\ Handles(h, "SUBSCRIBE")
  /\ LET f == frame[h]
     IN  /\ subscriptions' = [subscriptions EXCEPT ![h][f.id] = f.destination]
         /\ channels' = [channels EXCEPT
                           ![f.destination] = Append(@, connectionId[h])]
  /\ Answer(h, Receipt(h))
  /\ UNCHANGED <<connections, userCredentials, activeUsers, connectionId,
                 username, frame, todo, target, leaving, dirty>>

UnsubscribeKeepsList(h) ==  \* mutant: unsubscribeFromChannel is not called
  /\ Handles(h, "UNSUBSCRIBE")
  /\ subscriptions' = [subscriptions EXCEPT ![h][frame[h].id] = Null]
  /\ Answer(h, Receipt(h))
  /\ UNCHANGED <<tables, connectionId, username, frame, todo, target, leaving,
                 dirty>>

Unsubscribe(h) ==
  /\ Handles(h, "UNSUBSCRIBE")
  /\ LET s == frame[h].id
     IN  /\ channels' = [channels EXCEPT ![subscriptions[h][s]] =
                           RemoveFirst(@, connectionId[h])]
         /\ subscriptions' = [subscriptions EXCEPT ![h][s] = Null]
  /\ Answer(h, Receipt(h))
  /\ UNCHANGED <<connections, userCredentials, activeUsers, connectionId,
                 username, frame, todo, target, leaving, dirty>>
-----------------------------------------------------------------------------
(* handleSend, and send(channel, msg): the iterator of a                   *)
(* CopyOnWriteArrayList walks over the list as it was when the loop began. *)

MessageOf(h) == [command |-> "MESSAGE", messageId |-> connectionId[h],
                 destination |-> frame[h].destination]

Snapshot(h) ==
  /\ Handles(h, "SEND")
  /\ todo' = [todo EXCEPT ![h] = channels[frame[h].destination]]
  /\ Goto(h, "fanout")
  /\ UNCHANGED <<tables, connectionId, username, subscriptions, frame, target,
                 leaving, dirty, reply>>

VisitOthers(h) ==  \* mutant: the sender passes itself over
  /\ pc[h] = "fanout"
  /\ todo[h] # <<>>
  /\ LET i == Head(todo[h])
         g == IF i = connectionId[h] THEN Null ELSE connections[i]
     IN  /\ target' = [target EXCEPT ![h] = g]
         /\ Goto(h, IF g = Null THEN "fanout" ELSE "deliver")
  /\ todo' = [todo EXCEPT ![h] = Tail(@)]
  /\ UNCHANGED <<tables, connectionId, username, subscriptions, frame, leaving,
                 dirty, reply>>

\* The next id is looked up; without a handler it is passed over.
Visit(h) ==
  /\ pc[h] = "fanout"
  /\ todo[h] # <<>>
  /\ LET g == connections[Head(todo[h])]
     IN  /\ target' = [target EXCEPT ![h] = g]
         /\ Goto(h, IF g = Null THEN "fanout" ELSE "deliver")
  /\ todo' = [todo EXCEPT ![h] = Tail(@)]
  /\ UNCHANGED <<tables, connectionId, username, subscriptions, frame, leaving,
                 dirty, reply>>

\* The message has been handed to the target's send.
Delivered(h) ==
  /\ pc[h] = "deliver"
  /\ target' = [target EXCEPT ![h] = Null]
  /\ Goto(h, "fanout")
  /\ UNCHANGED <<tables, connectionId, username, subscriptions, frame, todo,
                 leaving, dirty, reply>>

EndOfSend(h) ==
  /\ pc[h] = "fanout"
  /\ todo[h] = <<>>
  /\ Answer(h, Receipt(h))
  /\ UNCHANGED <<tables, connectionId, username, subscriptions, frame, todo,
                 target, leaving, dirty>>
-----------------------------------------------------------------------------
(* handleDisconnect and logoutUser: the receipt is sent first, and the     *)
(* tables are cleaned after a sleep.                                       *)

Farewell(h) ==
  /\ Handles(h, "DISCONNECT")
  /\ target' = [target EXCEPT ![h] = connections[connectionId[h]]]
  /\ Goto(h, "receipt")
  /\ UNCHANGED <<tables, connectionId, username, subscriptions, frame, todo,
                 leaving, dirty, reply>>

\* The receipt has been handed to the target's send.
Receipted(h) ==
  /\ pc[h] = "receipt"
  /\ target' = [target EXCEPT ![h] = Null]
  /\ Goto(h, "logout")
  /\ UNCHANGED <<tables, connectionId, username, subscriptions, frame, todo,
                 leaving, dirty, reply>>

Logout(h) ==
  /\ pc[h] = "logout"
  /\ LET id == activeUsers[username[h]]
     IN  /\ leaving' = [leaving EXCEPT ![h] = id]
         /\ dirty' = [dirty EXCEPT ![h] = IF id = Null THEN {} ELSE Channels]
  /\ activeUsers' = [activeUsers EXCEPT ![username[h]] = Null]
  /\ Goto(h, "clean")
  /\ UNCHANGED <<connections, channels, userCredentials, connectionId, username,
                 subscriptions, frame, todo, target, reply>>

CleanByIndex(h, ch) ==  \* mutant: List.remove(int), as in disconnect()
  /\ pc[h] = "clean"
  /\ ch \in dirty[h]
  /\ channels' = [channels EXCEPT
                    ![ch] = IF leaving[h] < Len(@) THEN RemoveAt(@, leaving[h] + 1)
                                                   ELSE @]
  /\ dirty' = [dirty EXCEPT ![h] = @ \ {ch}]
  /\ UNCHANGED <<connections, userCredentials, activeUsers, pc, connectionId,
                 username, subscriptions, frame, todo, target, leaving, reply>>

\* The lists are visited in no particular order.
Clean(h, ch) ==
  /\ pc[h] = "clean"
  /\ ch \in dirty[h]
  /\ channels' = [channels EXCEPT ![ch] = RemoveFirst(@, leaving[h])]
  /\ dirty' = [dirty EXCEPT ![h] = @ \ {ch}]
  /\ UNCHANGED <<connections, userCredentials, activeUsers, pc, connectionId,
                 username, subscriptions, frame, todo, target, leaving, reply>>

\* The handler logoutUser takes out of the map, to close it.
Evicted(h) == IF leaving[h] = Null THEN Null ELSE connections[leaving[h]]

\* connections.remove and close are one step: a sender sees the handler
\* either through the map or not at all.
Unregister(h) ==
  /\ pc[h] = "clean"
  /\ dirty[h] = {}
  /\ connections' = [i \in Ids |-> IF i = leaving[h] THEN Null ELSE connections[i]]
  /\ leaving' = [leaving EXCEPT ![h] = Null]
  /\ subscriptions' = [subscriptions EXCEPT ![h] = [s \in SubIds |-> Null]]
  /\ Answer(h, Null)
  /\ UNCHANGED <<channels, userCredentials, activeUsers, connectionId, username,
                 frame, todo, target, dirty>>

\* Steps in which the protocol writes to no socket and closes none.
Silent(h) ==
  \/ Refuse(h) \/ Register(h) \/ Login(h) \/ Subscribe(h) \/ Unsubscribe(h)
  \/ Snapshot(h) \/ Visit(h) \/ EndOfSend(h)
  \/ Farewell(h) \/ Logout(h)
  \/ \E ch \in Channels : Clean(h, ch)
=============================================================================
