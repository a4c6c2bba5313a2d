----------------------------- MODULE TpcServer ------------------------------
(***************************************************************************)
(* The thread-per-client server: BaseServer accepts connections, each gets *)
(* a BlockingConnectionHandler with a thread that reads a frame, has       *)
(* StompProtocol process it, and writes the result.  A thread publishing a *)
(* message writes to the sockets of the other clients itself.              *)
(*                                                                         *)
(* TCP is a bounded FIFO per connection: a write blocks (holding the       *)
(* monitor of out, so later writers block too) while it is full, may be    *)
(* lost or fail once the client is gone, and fails on a closed socket.     *)
(* What a client sends is received in the same step: frames still in its   *)
(* socket when it disconnects are frames it did not send.                  *)
(***************************************************************************)
EXTENDS StompBroker

CONSTANTS
  Capacity,  \* bound: frames a socket holds that its client has not read
  MaxFrames  \* bound: frames a client sends

ASSUME IdsAreNumbers == Ids \subseteq Nat

ASSUME BoundsAreNumbers == Capacity \in Nat /\ MaxFrames \in Nat

VARIABLES
  counter,    \* connectionIdCounter
  connected,  \* BlockingConnectionHandler.connected, volatile
  open,       \* the server's end of the socket is open
  clientUp,   \* the client's end is open
  outbox,     \* frames written and not read by the client
  sent        \* how many frames the client has sent

transport == <<counter, connected, open, clientUp, outbox, sent>>
vars == <<brokerVars, transport>>

TypeOK ==
  /\ BrokerTypeOK
  /\ counter \in Nat
  /\ connected \in [Handlers -> BOOLEAN]
  /\ open \in [Handlers -> BOOLEAN]
  /\ clientUp \in [Handlers -> BOOLEAN]
  /\ outbox \in [Handlers -> Seq(ServerFrame)]
  /\ sent \in [Handlers -> 0..MaxFrames]

Init ==
  /\ BrokerInit
  /\ counter = 0
  /\ connected = [h \in Handlers |-> TRUE]
  /\ open = [h \in Handlers |-> FALSE]
  /\ clientUp = [h \in Handlers |-> FALSE]
  /\ outbox = [h \in Handlers |-> <<>>]
  /\ sent = [h \in Handlers |-> 0]
-----------------------------------------------------------------------------
(* The acceptor thread *)

AcceptCountsFirst(h) ==  \* mutant: the protocol gets the counter's new value
  /\ pc[h] = "off"
  /\ counter \in Ids
  /\ counter' = counter + 1
  /\ connectionId' = [connectionId EXCEPT ![h] = counter']
  /\ connections' = [connections EXCEPT ![counter] = h]
  /\ open' = [open EXCEPT ![h] = TRUE]
  /\ clientUp' = [clientUp EXCEPT ![h] = TRUE]
  /\ Goto(h, "read")
  /\ UNCHANGED <<channels, userCredentials, activeUsers, username, subscriptions,
                 frame, todo, target, leaving, dirty, reply, connected, outbox, sent>>

\* accept, the new id, addConnection, and the start of the handler's thread,
\* which touches nothing shared before it reads a frame.
Accept(h) ==
  /\ pc[h] = "off"
  /\ counter \in Ids
  /\ counter' = counter + 1
  /\ connectionId' = [connectionId EXCEPT ![h] = counter]
  /\ connections' = [connections EXCEPT ![counter] = h]
  /\ open' = [open EXCEPT ![h] = TRUE]
  /\ clientUp' = [clientUp EXCEPT ![h] = TRUE]
  /\ Goto(h, "read")
  /\ UNCHANGED <<channels, userCredentials, activeUsers, username, subscriptions,
                 frame, todo, target, leaving, dirty, reply, connected, outbox, sent>>
-----------------------------------------------------------------------------
(* BlockingConnectionHandler *)

WriteBlocks(g, msg) ==  \* mutant: a write to a closed socket never returns
  /\ \/ /\ open[g] /\ clientUp[g] /\ Len(outbox[g]) < Capacity
        /\ outbox' = [outbox EXCEPT ![g] = Append(@, msg)]
        /\ UNCHANGED connected
     \/ /\ open[g] /\ ~ clientUp[g]
        /\ UNCHANGED <<outbox, connected>>
  /\ UNCHANGED <<counter, open, clientUp, sent>>

\* send(msg) by any thread; a failed write shows in connected only.
Write(g, msg) ==
  /\ \/ /\ open[g] /\ clientUp[g] /\ Len(outbox[g]) < Capacity
        /\ outbox' = [outbox EXCEPT ![g] = Append(@, msg)]
        /\ UNCHANGED connected
     \/ /\ open[g] /\ ~ clientUp[g]
        /\ UNCHANGED <<outbox, connected>>
     \/ /\ ~ (open[g] /\ clientUp[g])
        /\ connected' = [connected EXCEPT ![g] = FALSE]
        /\ UNCHANGED outbox
  /\ UNCHANGED <<counter, open, clientUp, sent>>

\* A frame the client sends is read, byte by byte, and decoded.
Receive(h, f) ==
  /\ pc[h] = "read"
  /\ connected[h] /\ open[h] /\ clientUp[h]
  /\ sent[h] < MaxFrames
  /\ sent' = [sent EXCEPT ![h] = @ + 1]
  /\ frame' = [frame EXCEPT ![h] = f]
  /\ Goto(h, "process")
  /\ UNCHANGED <<tables, connectionId, username, subscriptions, todo, target,
                 leaving, dirty, reply, counter, connected, open, clientUp, outbox>>

\* The loop of run() ends: no longer connected, end of stream, IOException,
\* or an exception out of process.  The socket is closed, and that is all.
Exit(h) ==
  /\ \/ pc[h] = "read" /\ (~ connected[h] \/ ~ clientUp[h])
     \/ pc[h] = "process" /\ Throws(h)
  /\ open' = [open EXCEPT ![h] = FALSE]
  /\ frame' = [frame EXCEPT ![h] = Null]
  /\ Goto(h, "exited")
  /\ UNCHANGED <<tables, connectionId, username, subscriptions, todo, target,
                 leaving, dirty, reply, counter, connected, clientUp, outbox, sent>>

ReplyWaits(h) ==  \* mutant: the thread waits for its client to be there
  /\ pc[h] = "reply"
  /\ clientUp[h]
  /\ IF reply[h] = Null THEN UNCHANGED transport ELSE Write(h, reply[h])
  /\ reply' = [reply EXCEPT ![h] = Null]
  /\ frame' = [frame EXCEPT ![h] = Null]
  /\ Goto(h, "read")
  /\ UNCHANGED <<tables, connectionId, username, subscriptions, todo, target,
                 leaving, dirty>>

\* send(result), unless the result is null; then the loop starts over.
Reply(h) ==
  /\ pc[h] = "reply"
  /\ IF reply[h] = Null THEN UNCHANGED transport ELSE Write(h, reply[h])
  /\ reply' = [reply EXCEPT ![h] = Null]
  /\ frame' = [frame EXCEPT ![h] = Null]
  /\ Goto(h, "read")
  /\ UNCHANGED <<tables, connectionId, username, subscriptions, todo, target,
                 leaving, dirty>>
-----------------------------------------------------------------------------
(* The protocol's writes and its close *)

Deliver(h) == Delivered(h) /\ Write(target[h], MessageOf(h))

SendReceipt(h) ==
  /\ Receipted(h)
  /\ IF Null \in {target[h], Receipt(h)} THEN UNCHANGED transport
                                         ELSE Write(target[h], Receipt(h))

CloseLater(h) ==  \* mutant: closing is left to the handler's own thread
  Unregister(h) /\ UNCHANGED transport

\* close() of the handler that logoutUser removed.
Close(h) ==
  /\ Unregister(h)
  /\ LET g == Evicted(h)
     IN  IF g = Null
         THEN UNCHANGED <<connected, open>>
         ELSE /\ connected' = [connected EXCEPT ![g] = FALSE]
              /\ open' = [open EXCEPT ![g] = FALSE]
  /\ UNCHANGED <<counter, clientUp, outbox, sent>>
-----------------------------------------------------------------------------
(* The clients *)

ClientRead(h) ==
  /\ clientUp[h]
  /\ outbox[h] # <<>>
  /\ outbox' = [outbox EXCEPT ![h] = Tail(@)]
  /\ UNCHANGED <<brokerVars, counter, connected, open, clientUp, sent>>

\* The client closes its socket, crashes, or the network drops it.
ClientDrop(h) ==
  /\ clientUp[h]
  /\ clientUp' = [clientUp EXCEPT ![h] = FALSE]
  /\ outbox' = [outbox EXCEPT ![h] = <<>>]
  /\ UNCHANGED <<brokerVars, counter, connected, open, sent>>

ThreadStep(h) ==
  \/ Silent(h) /\ UNCHANGED transport
  \/ Deliver(h) \/ SendReceipt(h) \/ Close(h) \/ Reply(h) \/ Exit(h)

Next ==
  \E h \in Handlers :
    \/ Accept(h)
    \/ \E f \in Frames : Receive(h, f)
    \/ ThreadStep(h)
    \/ ClientRead(h)
    \/ ClientDrop(h)

(***************************************************************************)
(* Threads run, and clients read what they are sent (the C++ client has a  *)
(* thread that does nothing else).  Nobody has to connect, to send or to   *)
(* leave.                                                                  *)
(***************************************************************************)
Fairness == \A h \in Handlers : WF_vars(ThreadStep(h)) /\ WF_vars(ClientRead(h))

Safety == Init /\ [][Next]_vars

Spec == Safety /\ Fairness
-----------------------------------------------------------------------------
(* Properties *)

\* h's session is over: logoutUser has taken its user out of activeUsers.
LoggedOut(h) ==
  pc[h] = "clean" \/ \E i \in Ids : connectionId[h] = i /\ connections[i] # h

\* At most one connection is logged in as a user at a time, whatever the
\* interleaving of CONNECTs, logouts and lost connections.
OneSessionPerUser ==
  \A g, h \in Handlers :
    /\ username[g] # Null
    /\ username[g] = username[h]
    /\ ~ LoggedOut(g) /\ ~ LoggedOut(h)
    => g = h

\* A connection has its id to itself, below the counter, and is registered
\* under it from the accept until its own logout.
Registered ==
  \A h \in Handlers :
    /\ pc[h] = "off" <=> connectionId[h] = Null
    /\ connectionId[h] # Null =>
         /\ connectionId[h] < counter
         /\ connections[connectionId[h]] \in {h, Null}
         /\ \A g \in Handlers : connectionId[g] = connectionId[h] => g = h

\* After its logout a handler processes no further frame: its thread finds
\* connected false as soon as it is done with this one.
SilentAfterLogout ==
  \A h \in Handlers :
    connectionId[h] # Null /\ connections[connectionId[h]] # h =>
      ~ connected[h] /\ pc[h] \in {"reply", "read", "exited"}

\* A session is entered in activeUsers under its own id until logoutUser.
SessionAgrees ==
  \A h \in Handlers :
    username[h] # Null /\ ~ LoggedOut(h) => activeUsers[username[h]] = connectionId[h]

\* What the protocol's place says of the user name and of leaving.
PlaceOfProtocol ==
  \A h \in Handlers :
    /\ pc[h] = "off" => username[h] = Null
    /\ pc[h] \in {"process", "login"} => frame[h] \in Frames
    /\ pc[h] = "login" => username[h] = Null /\ frame[h].login \in Users
    /\ pc[h] \in {"receipt", "logout", "clean"} => username[h] # Null
    /\ pc[h] = "clean" => leaving[h] = connectionId[h]

\* The types the session invariant needs.
SessionTypeOK ==
  /\ connections \in [Ids -> Handlers \cup {Null}]
  /\ activeUsers \in [Users -> Ids \cup {Null}]
  /\ connectionId \in [Handlers -> Ids \cup {Null}]
  /\ username \in [Handlers -> Users \cup {Null}]
  /\ pc \in [Handlers -> Step]
  /\ frame \in [Handlers -> Frames \cup {Null}]
  /\ leaving \in [Handlers -> Ids \cup {Null}]
  /\ connected \in [Handlers -> BOOLEAN]
  /\ counter \in Nat

SessionInv ==
  /\ SessionTypeOK
  /\ Registered
  /\ SilentAfterLogout
  /\ PlaceOfProtocol
  /\ SessionAgrees

\* A client about to be logged in gave the passcode its user is registered
\* with, even if the user was registered by another client meanwhile.
AuthenticatedAtLogin ==
  \A h \in Handlers :
    pc[h] = "login" => userCredentials[frame[h].login] = frame[h].passcode

\* Once logoutUser has unregistered a connection, no table names its id:
\* no channel would send to it and no user is still logged in on it.
LogoutClean ==
  \A h \in Handlers, i \in Ids :
    connectionId[h] = i /\ connections[i] = Null =>
      /\ \A ch \in Channels : i \notin ToSet(channels[ch])
      /\ \A u \in Users : activeUsers[u] # i

\* The two records of a subscription, the protocol's map and the shared
\* lists, agree: a subscriber is listed once, and only while subscribed
\* (a logout empties the lists before the map).
MembershipAgrees ==
  \A h \in Handlers, i \in Ids, ch \in Channels :
    connectionId[h] = i =>
      LET places == {k \in DOMAIN channels[ch] : channels[ch][k] = i}
      IN  /\ Cardinality(places) \leq 1
          /\ places # {} => ch \in SubscribedTo(h)
          /\ places = {} => ch \notin SubscribedTo(h) \/ pc[h] = "clean"

\* A client's SUBSCRIBE frames use an id for one channel only, as the C++
\* client does, which counts them.
OneChannelPerId ==
  \A f, g \in {k \in Frames : k.command = "SUBSCRIBE" /\ Null \notin {k.id, k.destination}} :
    f.id = g.id => f.destination = g.destination

Once(q, x) == \A j, k \in DOMAIN q : q[j] = x /\ q[k] = x => j = k

Listed(h, ch) == connectionId[h] \in ToSet(channels[ch])

Joined(h) == connectionId[h] # Null

\* The subscriptions of a connection: what its frames said, a channel once.
SubscriptionsSane ==
  \A h \in Handlers :
    /\ \A s \in SubscriptionIds(h) :
         \E f \in Frames : /\ f.command = "SUBSCRIBE"
                           /\ f.id = s
                           /\ f.destination = subscriptions[h][s]
    /\ \A s, t \in SubscriptionIds(h) : subscriptions[h][s] = subscriptions[h][t] => s = t
    /\ ~ Joined(h) => SubscriptionIds(h) = {}

\* A connection is in a list once, exactly while it is subscribed; while it
\* is cleaned up, in no list the cleanup has passed.
ListsAgree ==
  \A h \in Handlers, ch \in Channels :
    Joined(h) =>
      /\ Once(channels[ch], connectionId[h])
      /\ Listed(h, ch) => ch \in SubscribedTo(h)
      /\ pc[h] # "clean" => (ch \in SubscribedTo(h) => Listed(h, ch))
      /\ pc[h] = "clean" => (Listed(h, ch) => ch \in dirty[h])
      /\ connections[connectionId[h]] # h => ~ Listed(h, ch)

\* The tables name ids that were given to somebody.
KnownIds ==
  /\ \A ch \in Channels : \A i \in ToSet(channels[ch]) : i < counter
  /\ \A u \in Users : activeUsers[u] # Null => activeUsers[u] < counter

\* Whoever activeUsers names for a user has logged in as that user and not
\* yet logged out.
ActiveAgrees ==
  \A u \in Users, h \in Handlers :
    Joined(h) /\ activeUsers[u] = connectionId[h] => username[h] = u /\ ~ LoggedOut(h)

MembershipInv ==
  /\ SubscriptionsSane
  /\ ListsAgree
  /\ KnownIds
  /\ ActiveAgrees

\* A frame that has been read is dealt with: no thread is stuck in a
\* fan-out, in a cleanup or in a write to somebody else's socket.
EveryFrameAnswered ==
  \A h \in Handlers : pc[h] = "process" ~> pc[h] \in {"read", "exited"}

\* loginUser refuses a user who "is already logged in" (ConnectionsImpl:94):
\* then some connection of that user still has its thread.
RefusedUserIsOnline ==
  \A h \in Handlers :
    pc[h] = "login" =>
      LET u == frame[h].login
      IN  activeUsers[u] # Null =>
            \E g \in Handlers : username[g] = u /\ pc[g] # "exited"
-----------------------------------------------------------------------------
(* Refinement of StompService *)

sessionBar == [u \in Users |-> {h \in Handlers : /\ connectionId[h] # Null
                                                 /\ connectionId[h] = activeUsers[u]}]

memberBar ==
  [h \in Handlers |-> {ch \in Channels : connectionId[h] \in ToSet(channels[ch])}]

Sending(h) == pc[h] \in {"fanout", "deliver"}

sendingBar == [h \in Handlers |-> IF Sending(h) THEN frame[h].destination ELSE Null]

\* The ids the iterator has not visited, and the handler being written to.
dueBar ==
  [h \in Handlers |->
     IF ~ Sending(h) THEN {}
     ELSE {g \in Handlers : connectionId[g] \in ToSet(todo[h]) \/ g = target[h]}]

\* A frame its client has not read: a message and who sent it, or another.
Sent(m) ==
  IF m.command # "MESSAGE" THEN Null
  ELSE [from        |-> CHOOSE g \in Handlers : connectionId[g] = m.messageId,
        destination |-> m.destination]

inboxBar == [h \in Handlers |-> [k \in DOMAIN outbox[h] |-> Sent(outbox[h][k])]]

goneBar == {h \in Handlers : pc[h] # "off" /\ ~ (open[h] /\ clientUp[h])}

Service == INSTANCE StompService
             WITH Clients <- Handlers, NoChannel <- Null, Notice <- Null,
                  session <- sessionBar, member <- memberBar,
                  sending <- sendingBar, due <- dueBar,
                  inbox <- inboxBar, gone <- goneBar

\* The tables, the threads and the sockets implement one session per user
\* and delivery of a message once to each member that stays connected.
ImplementsStompService == Service!Safety

\* Moreover, every message that is being published reaches its end.
PublishesToTheEnd == Service!Fairness
=============================================================================
