----------------------------- MODULE TpcProofs ------------------------------
(***************************************************************************)
(* Proofs about TpcServer, for any connections, users, channels and frames *)
(* and any bounds: the session invariant, from it that a user has one      *)
(* session at a time, and that a login took the right passcode; the types; *)
(* and, if clients use a subscription id for one channel                   *)
(* (OneChannelPerId), that the lists of ConnectionsImpl and the maps of    *)
(* the protocols agree and a logout leaves no trace.                       *)
(*                                                                         *)
(* The argument: an id belongs to one connection (the counter), loginUser  *)
(* enters a user only if nobody has it, only the session's own logoutUser  *)
(* takes it out, and a connection that has logged out never processes      *)
(* another frame (its connected flag is down), so it cannot do so twice.   *)
(*                                                                         *)
(* A channel is subscribed with one id at most, so SUBSCRIBE never         *)
(* replaces an entry and never adds a connection that is listed, so a      *)
(* connection is in a list once, and removing the first is removing it.    *)
(* Ids are not given twice, so nothing brings a connection back.           *)
(***************************************************************************)
EXTENDS TpcServer, BrokerProofs, FiniteSetTheorems

\* Steps that only move the protocol of h on, and perhaps find the client of
\* another connection gone, keep the invariant when the new place is good.
LEMMA MoveKeeps ==
  ASSUME SessionInv, NEW h \in Handlers,
         UNCHANGED <<connections, activeUsers, connectionId, username, counter>>,
         pc[h] # "off",
         NEW l \in Step \ {"off", "login", "clean"}, pc' = [pc EXCEPT ![h] = l],
         pc[h] # "clean",
         connected' \in [Handlers -> BOOLEAN],
         \A g \in Handlers : connected'[g] => connected[g],
         frame' \in [Handlers -> Frames \cup {Null}],
         \A g \in Handlers \ {h} : frame'[g] = frame[g] /\ leaving'[g] = leaving[g],
         leaving' \in [Handlers -> Ids \cup {Null}],
         l = "process" => frame'[h] \in Frames,
         l \in {"receipt", "logout"} => username[h] # Null,
         pc[h] \in {"reply", "read", "exited"} =>
           l \in {"read", "exited"} \/ (l = "process" /\ connected[h])
  PROVE  SessionInv'
<1> USE NullIsNoValue DEF SessionInv, SessionTypeOK, Step
<1>1. SessionTypeOK'
  OBVIOUS
<1>2. Registered'
  BY DEF Registered
<1>3. SilentAfterLogout'
  BY DEF SilentAfterLogout, Registered
<1>4. PlaceOfProtocol'
  BY DEF PlaceOfProtocol
<1>5. SessionAgrees'
  BY DEF SessionAgrees, LoggedOut
<1> QED
  BY <1>1, <1>2, <1>3, <1>4, <1>5

\* A write only lowers connected.
LEMMA WriteLowers ==
  ASSUME NEW g, NEW m, connected \in [Handlers -> BOOLEAN], Write(g, m)
  PROVE  /\ connected' \in [Handlers -> BOOLEAN]
         /\ \A x \in Handlers : connected'[x] => connected[x]
         /\ counter' = counter
BY DEF Write

\* The steps of the thread that leave the session tables alone.
LEMMA QuietKeeps ==
  ASSUME SessionInv, NEW h \in Handlers,
         \/ /\ Refuse(h) \/ Subscribe(h) \/ Unsubscribe(h) \/ Snapshot(h)
               \/ Visit(h) \/ EndOfSend(h) \/ Farewell(h)
            /\ UNCHANGED transport
         \/ Deliver(h) \/ SendReceipt(h) \/ Reply(h) \/ Exit(h)
         \/ \E f \in Frames : Receive(h, f)
  PROVE  SessionInv'
<1> USE NullIsNoValue DEF SessionInv, SessionTypeOK, tables, Goto
<1> USE DEF transport
<1>1. ASSUME Refuse(h) \/ Subscribe(h) \/ Unsubscribe(h) \/ EndOfSend(h),
             UNCHANGED transport
      PROVE  SessionInv'
  BY <1>1, MoveKeeps
     DEF Refuse, Subscribe, Unsubscribe, EndOfSend, Handles, Answer, Step
<1>2. ASSUME Snapshot(h) \/ Visit(h), UNCHANGED transport
      PROVE  SessionInv'
  BY <1>2, MoveKeeps DEF Snapshot, Visit, Handles, Step
<1>3. ASSUME Farewell(h), UNCHANGED transport
      PROVE  SessionInv'
  <2>1. username[h] # Null
    BY <1>3 DEF Farewell, Handles, Refused
  <2> QED
    BY <1>3, <2>1, MoveKeeps DEF Farewell, Handles, Step
<1>4. ASSUME Deliver(h)
      PROVE  SessionInv'
  <2>1. Write(target[h], MessageOf(h)) /\ Delivered(h)
    BY <1>4 DEF Deliver
  <2> QED
    BY <2>1, MoveKeeps, WriteLowers DEF Delivered, Step
<1>5. ASSUME SendReceipt(h)
      PROVE  SessionInv'
  <2>1. Receipted(h) /\ (UNCHANGED transport \/ Write(target[h], Receipt(h)))
    BY <1>5 DEF SendReceipt
  <2>2. /\ connected' \in [Handlers -> BOOLEAN]
        /\ \A x \in Handlers : connected'[x] => connected[x]
        /\ counter' = counter
    BY <2>1, WriteLowers
  <2>3. username[h] # Null
    BY <2>1 DEF Receipted, PlaceOfProtocol
  <2> QED
    BY <2>1, <2>2, <2>3, MoveKeeps DEF Receipted, Step
<1>6. ASSUME Reply(h)
      PROVE  SessionInv'
  <2>1. /\ connected' \in [Handlers -> BOOLEAN]
        /\ \A x \in Handlers : connected'[x] => connected[x]
        /\ counter' = counter
    BY <1>6, WriteLowers DEF Reply
  <2> QED
    BY <1>6, <2>1, MoveKeeps DEF Reply, Step
<1>7. ASSUME Exit(h)
      PROVE  SessionInv'
  BY <1>7, MoveKeeps DEF Exit, Step
<1>8. ASSUME NEW f \in Frames, Receive(h, f)
      PROVE  SessionInv'
  BY <1>8, MoveKeeps DEF Receive, Step
<1> QED
  BY <1>1, <1>2, <1>3, <1>4, <1>5, <1>6, <1>7, <1>8

\* A new connection gets an id nobody has, and is nobody's session.
LEMMA AcceptKeeps ==
  ASSUME SessionInv, NEW h \in Handlers, Accept(h)
  PROVE  SessionInv'
<1> USE NullIsNoValue, IdsAreNumbers
    DEF SessionInv, SessionTypeOK, Step, Goto, Accept
<1>1. SessionTypeOK'
  OBVIOUS
<1>2. Registered'
  <2>1. \A g \in Handlers \ {h} :
          connectionId[g] # Null => connectionId[g] \in Ids /\ connectionId[g] # counter
    BY DEF Registered
  <2>2. counter \in Ids /\ counter # Null /\ counter < counter + 1
    OBVIOUS
  <2>3. ASSUME NEW g \in Handlers \ {h}, connectionId[g] # Null
        PROVE  /\ connectionId[g] < counter'
               /\ connections'[connectionId[g]] \in {g, Null}
    <3>1. /\ connectionId[g] \in Nat
          /\ connectionId[g] < counter
          /\ connections[connectionId[g]] \in {g, Null}
      BY <2>1, <2>3 DEF Registered
    <3> QED
      BY <2>1, <2>3, <3>1
  <2>4. connectionId'[h] = counter /\ connections'[counter] = h
    BY <2>2
  <2> QED
    BY <2>1, <2>2, <2>3, <2>4 DEF Registered
<1>3. SilentAfterLogout'
  BY DEF SilentAfterLogout, Registered
<1>4. PlaceOfProtocol'
  BY DEF PlaceOfProtocol
<1>5. SessionAgrees'
  BY DEF SessionAgrees, LoggedOut, Registered, PlaceOfProtocol
<1> QED
  BY <1>1, <1>2, <1>3, <1>4, <1>5

\* A user is checked against its passcode; nobody logs in yet.
LEMMA RegisterKeeps ==
  ASSUME SessionInv, NEW h \in Handlers, Register(h), UNCHANGED transport
  PROVE  SessionInv'
<1> USE NullIsNoValue DEF SessionInv, SessionTypeOK, Step, Goto, Register,
                          Handles, Answer, transport
<1>1. frame[h] \in Frames /\ username[h] = Null /\ frame[h].login \in Users
  <2>1. frame[h] \in Frames /\ frame[h] \in Frame
    BY FramesAssumption DEF PlaceOfProtocol
  <2>2. frame[h].login \in Users \cup {Empty, Null}
    BY <2>1 DEF Frame
  <2> QED
    BY <2>1, <2>2 DEF Throws, Refused
<1>2. SessionTypeOK'
  OBVIOUS
<1>3. Registered'
  BY DEF Registered
<1>4. SilentAfterLogout'
  BY DEF SilentAfterLogout, Registered
<1>5. PlaceOfProtocol'
  <2>1. CASE pc' = [pc EXCEPT ![h] = "login"]
    BY <1>1, <2>1 DEF PlaceOfProtocol
  <2>2. CASE pc' = [pc EXCEPT ![h] = "reply"]
    BY <2>2 DEF PlaceOfProtocol
  <2> QED
    BY <2>1, <2>2
<1>6. SessionAgrees'
  BY DEF SessionAgrees, LoggedOut
<1> QED
  BY <1>2, <1>3, <1>4, <1>5, <1>6

\* A user nobody has is entered under the id of the connection.
LEMMA LoginKeeps ==
  ASSUME SessionInv, NEW h \in Handlers, Login(h), UNCHANGED transport
  PROVE  SessionInv'
<1> USE NullIsNoValue DEF SessionInv, SessionTypeOK, Step, Goto, Login, Answer,
                          transport
<1>1. username[h] = Null /\ frame[h].login \in Users /\ connectionId[h] \in Ids
  BY DEF PlaceOfProtocol, Registered
<1>2. SessionTypeOK'
  BY <1>1
<1>3. Registered'
  BY DEF Registered
<1>4. SilentAfterLogout'
  BY DEF SilentAfterLogout, Registered
<1>5. PlaceOfProtocol'
  BY <1>1 DEF PlaceOfProtocol
<1>6. SessionAgrees'
  <2> DEFINE u == frame[h].login
  <2>1. \A g \in Handlers : LoggedOut(g)' <=> LoggedOut(g)
    BY DEF LoggedOut
  <2>2. CASE activeUsers[u] = Null
    <3>1. /\ activeUsers' = [activeUsers EXCEPT ![u] = connectionId[h]]
          /\ username' = [username EXCEPT ![h] = u]
          /\ connectionId' = connectionId
      BY <2>2
    <3>2. ASSUME NEW g \in Handlers \ {h}, username[g] # Null, ~ LoggedOut(g)
          PROVE  username[g] # u /\ activeUsers[username[g]] = connectionId[g]
      BY <2>2, <3>2 DEF SessionAgrees, Registered, PlaceOfProtocol
    <3> QED
      BY <1>1, <2>1, <3>1, <3>2 DEF SessionAgrees
  <2>3. CASE activeUsers[u] # Null
    BY <2>1, <2>3 DEF SessionAgrees
  <2> QED
    BY <2>2, <2>3
<1> QED
  BY <1>2, <1>3, <1>4, <1>5, <1>6

\* The session that ends is the connection's own: its user is still entered
\* under its id, so no other session has that user.
LEMMA LogoutKeeps ==
  ASSUME SessionInv, NEW h \in Handlers, Logout(h), UNCHANGED transport
  PROVE  SessionInv'
<1> USE NullIsNoValue DEF SessionInv, SessionTypeOK, Step, Goto, Logout, transport
<1>1. /\ connectionId[h] \in Ids
      /\ connections[connectionId[h]] = h
      /\ username[h] \in Users
      /\ ~ LoggedOut(h)
  BY DEF PlaceOfProtocol, Registered, SilentAfterLogout, LoggedOut
<1>2. activeUsers[username[h]] = connectionId[h]
  BY <1>1 DEF SessionAgrees
<1>3. SessionTypeOK'
  BY <1>1
<1>4. Registered'
  BY DEF Registered
<1>5. SilentAfterLogout'
  BY <1>1 DEF SilentAfterLogout, Registered
<1>6. PlaceOfProtocol'
  BY <1>1, <1>2 DEF PlaceOfProtocol
<1>7. SessionAgrees'
  BY <1>1, <1>2 DEF SessionAgrees, LoggedOut, Registered
<1> QED
  BY <1>3, <1>4, <1>5, <1>6, <1>7

\* logoutUser takes the connection's own id out of the map and closes it.
LEMMA CloseKeeps ==
  ASSUME SessionInv, NEW h \in Handlers, Close(h)
  PROVE  SessionInv'
<1> USE NullIsNoValue DEF SessionInv, SessionTypeOK, Step, Goto, Answer, Close,
                          Unregister
<1>1. leaving[h] = connectionId[h] /\ connectionId[h] \in Ids
  BY DEF PlaceOfProtocol, Registered
<1>2. connections[connectionId[h]] = h
  BY <1>1 DEF Registered, SilentAfterLogout
<1>3. Evicted(h) = h /\ h # Null
  BY <1>1, <1>2 DEF Evicted
<1>4. connected' = [connected EXCEPT ![h] = FALSE]
  BY <1>3
<1>5. \A g \in Handlers : connectionId[g] = connectionId[h] => g = h
  BY <1>1 DEF Registered
<1>6. SessionTypeOK'
  BY <1>4
<1>7. Registered'
  BY <1>1, <1>5 DEF Registered
<1>8. SilentAfterLogout'
  BY <1>1, <1>4, <1>5 DEF SilentAfterLogout, Registered
<1>9. PlaceOfProtocol'
  BY DEF PlaceOfProtocol
<1>10. SessionAgrees'
  BY <1>1, <1>5 DEF SessionAgrees, LoggedOut, Registered
<1> QED
  BY <1>6, <1>7, <1>8, <1>9, <1>10

\* Cleaning a list and the clients' own steps leave the sessions alone.
LEMMA OtherKeeps ==
  ASSUME SessionInv,
         UNCHANGED <<connections, activeUsers, connectionId, username, pc, frame,
                     leaving, connected, counter>>
  PROVE  SessionInv'
BY DEF SessionInv, SessionTypeOK, Registered, SilentAfterLogout, PlaceOfProtocol,
       SessionAgrees, LoggedOut
-----------------------------------------------------------------------------

\* The session invariant holds in every reachable state of the server.
THEOREM TpcSessionInvariant == Safety => []SessionInv
<1>1. Init => SessionInv
  BY NullIsNoValue
     DEF Init, BrokerInit, SessionInv, SessionTypeOK, Step, Registered,
         SilentAfterLogout, PlaceOfProtocol, SessionAgrees
<1>2. SessionInv /\ [Next]_vars => SessionInv'
  <2> SUFFICES ASSUME SessionInv, [Next]_vars
               PROVE  SessionInv'
    OBVIOUS
  <2>1. ASSUME NEW h \in Handlers, Accept(h)
        PROVE  SessionInv'
    BY <2>1, AcceptKeeps
  <2>2. ASSUME NEW h \in Handlers, NEW f \in Frames, Receive(h, f)
        PROVE  SessionInv'
    BY <2>2, QuietKeeps
  <2>3. ASSUME NEW h \in Handlers, Silent(h), UNCHANGED transport
        PROVE  SessionInv'
    <3>1. CASE \E ch \in Channels : Clean(h, ch)
      BY <3>1, <2>3, OtherKeeps DEF Clean, transport
    <3> QED
      BY <3>1, <2>3, QuietKeeps, RegisterKeeps, LoginKeeps, LogoutKeeps DEF Silent
  <2>4. ASSUME NEW h \in Handlers,
               Deliver(h) \/ SendReceipt(h) \/ Close(h) \/ Reply(h) \/ Exit(h)
        PROVE  SessionInv'
    BY <2>4, QuietKeeps, CloseKeeps
  <2>5. ASSUME NEW h \in Handlers, ClientRead(h) \/ ClientDrop(h)
        PROVE  SessionInv'
    BY <2>5, OtherKeeps DEF ClientRead, ClientDrop, brokerVars, tables, locals
  <2>6. CASE UNCHANGED vars
    BY <2>6, OtherKeeps DEF vars, brokerVars, tables, locals, transport
  <2> QED
    BY <2>1, <2>2, <2>3, <2>4, <2>5, <2>6 DEF Next, ThreadStep
<1> QED
  BY <1>1, <1>2, PTL DEF Safety

\* Two sessions of one user would both have their id in activeUsers.
THEOREM TpcOneSession == Safety => []OneSessionPerUser
<1>1. SessionInv => OneSessionPerUser
  <2> SUFFICES ASSUME SessionInv, NEW g \in Handlers, NEW h \in Handlers,
                      username[g] # Null, username[g] = username[h],
                      ~ LoggedOut(g), ~ LoggedOut(h)
               PROVE  g = h
    BY DEF OneSessionPerUser
  <2>1. connectionId[g] = connectionId[h]
    BY DEF SessionInv, SessionAgrees
  <2>2. connectionId[h] # Null
    BY DEF SessionInv, Registered, PlaceOfProtocol
  <2> QED
    BY <2>1, <2>2 DEF SessionInv, Registered
<1> QED
  BY <1>1, TpcSessionInvariant, PTL
-----------------------------------------------------------------------------

\* With the passcode a client about to be logged in gave, one that is really
\* there: an entry of userCredentials, once made, is never replaced.
LoginInv ==
  /\ userCredentials \in [Users -> Passcodes \cup {Null}]
  /\ AuthenticatedAtLogin
  /\ \A h \in Handlers : pc[h] = "login" => frame[h].passcode # Null

\* A step after which every handler at its login was there before, with the
\* same frame, and which registers nobody.
LEMMA LoginStays ==
  ASSUME LoginInv, UNCHANGED userCredentials,
         \A g \in Handlers :
           pc'[g] = "login" => pc[g] = "login" /\ frame'[g] = frame[g]
  PROVE  LoginInv'
BY DEF LoginInv, AuthenticatedAtLogin

\* A user is registered with the passcode of the frame, or compared with the
\* entry it has, and the entries others rely on stay.
LEMMA RegisterAuthenticates ==
  ASSUME SessionInv, LoginInv, NEW h \in Handlers, Register(h)
  PROVE  LoginInv'
<1> USE NullIsNoValue
<1> DEFINE u == frame[h].login
           p == frame[h].passcode
<1>1. u \in Users /\ p \in Passcodes
  <2>1. frame[h] \in Frame /\ username[h] = Null
    BY FramesAssumption DEF SessionInv, PlaceOfProtocol, Register, Handles, Refused
  <2>2. u \in Users \cup {Empty, Null} /\ p \in Passcodes \cup {Empty, Null}
    BY <2>1 DEF Frame
  <2> QED
    BY <2>1, <2>2 DEF Register, Handles, Throws, Refused
<1>2. /\ userCredentials' = [userCredentials EXCEPT ![u] = IF @ = Null THEN p ELSE @]
      /\ frame' = frame
      /\ \/ userCredentials[u] \in {Null, p} /\ pc' = [pc EXCEPT ![h] = "login"]
         \/ pc' = [pc EXCEPT ![h] = "reply"]
  BY DEF Register, Goto, Answer
<1>3. pc \in [Handlers -> Step]
  BY DEF SessionInv, SessionTypeOK
<1>4. userCredentials' \in [Users -> Passcodes \cup {Null}]
  BY <1>1, <1>2 DEF LoginInv
<1>5. ASSUME NEW g \in Handlers, pc'[g] = "login"
      PROVE  userCredentials'[frame[g].login] = frame[g].passcode
             /\ frame[g].passcode # Null
  <2>1. CASE g = h /\ userCredentials[u] \in {Null, p}
    BY <1>1, <1>2, <2>1 DEF LoginInv
  <2>2. CASE pc[g] = "login"
    <3>1. /\ userCredentials[frame[g].login] = frame[g].passcode
          /\ frame[g].passcode # Null
          /\ frame[g].login \in Users
      BY <2>2 DEF LoginInv, AuthenticatedAtLogin, SessionInv, PlaceOfProtocol
    <3> QED
      BY <1>1, <1>2, <3>1 DEF LoginInv
  <2> QED
    BY <1>2, <1>3, <1>5, <2>1, <2>2
<1> QED
  BY <1>2, <1>4, <1>5 DEF LoginInv, AuthenticatedAtLogin

\* Nobody is logged in with another passcode than the user's own, however
\* many clients register and log in at once.
THEOREM TpcAuthentication == Safety => []AuthenticatedAtLogin
<1>1. Init => LoginInv
  BY DEF Init, BrokerInit, LoginInv, AuthenticatedAtLogin
<1>2. SessionInv /\ LoginInv /\ [Next]_vars => LoginInv'
  <2> SUFFICES ASSUME SessionInv, LoginInv, [Next]_vars
               PROVE  LoginInv'
    OBVIOUS
  <2> USE DEF SessionInv, SessionTypeOK, Step, Goto, Answer, tables
  <2>1. ASSUME NEW h \in Handlers,
               Accept(h) \/ \E f \in Frames : Receive(h, f)
        PROVE  LoginInv'
    BY <2>1, LoginStays DEF Accept, Receive
  <2>2. ASSUME NEW h \in Handlers, Silent(h)
        PROVE  LoginInv'
    <3>1. CASE Refuse(h) \/ Login(h) \/ Subscribe(h) \/ Unsubscribe(h)
      BY <3>1, LoginStays DEF Refuse, Login, Subscribe, Unsubscribe
    <3>2. CASE Snapshot(h) \/ Visit(h) \/ EndOfSend(h) \/ Farewell(h) \/ Logout(h)
      BY <3>2, LoginStays DEF Snapshot, Visit, EndOfSend, Farewell, Logout
    <3>3. CASE \E ch \in Channels : Clean(h, ch)
      BY <3>3, LoginStays DEF Clean
    <3> QED
      BY <2>2, <3>1, <3>2, <3>3, RegisterAuthenticates DEF Silent
  <2>3. ASSUME NEW h \in Handlers,
               Deliver(h) \/ SendReceipt(h) \/ Close(h) \/ Reply(h) \/ Exit(h)
        PROVE  LoginInv'
    BY <2>3, LoginStays
       DEF Deliver, Delivered, SendReceipt, Receipted, Close, Unregister, Reply, Exit
  <2>4. ASSUME UNCHANGED brokerVars
        PROVE  LoginInv'
    BY <2>4, LoginStays DEF brokerVars, locals
  <2> QED
    BY <2>1, <2>2, <2>3, <2>4
       DEF Next, ThreadStep, ClientRead, ClientDrop, vars
<1>3. LoginInv => AuthenticatedAtLogin
  BY DEF LoginInv
<1> QED
  BY <1>1, <1>2, <1>3, TpcSessionInvariant, PTL DEF Safety
-----------------------------------------------------------------------------
(* TypeOK, for any connections, frames and bounds. *)

\* The fields of the transport.
TransportTypeOK ==
  /\ counter \in Nat
  /\ connected \in [Handlers -> BOOLEAN]
  /\ open \in [Handlers -> BOOLEAN]
  /\ clientUp \in [Handlers -> BOOLEAN]
  /\ outbox \in [Handlers -> Seq(ServerFrame)]
  /\ sent \in [Handlers -> 0..MaxFrames]

TypeInv == BrokerInv /\ TransportTypeOK

LEMMA WriteTypes ==
  ASSUME TransportTypeOK, NEW g, NEW m \in ServerFrame, Write(g, m)
  PROVE  /\ connected' \in [Handlers -> BOOLEAN]
         /\ outbox' \in [Handlers -> Seq(ServerFrame)]
         /\ UNCHANGED <<counter, open, clientUp, sent>>
<1> USE DEF TransportTypeOK
<1>1. CASE outbox' = [outbox EXCEPT ![g] = Append(@, m)] /\ UNCHANGED connected
  <2>1. \A x \in Handlers : outbox'[x] \in Seq(ServerFrame)
    <3> SUFFICES ASSUME NEW x \in Handlers PROVE outbox'[x] \in Seq(ServerFrame)
      OBVIOUS
    <3>1. outbox'[x] = IF x = g THEN Append(outbox[x], m) ELSE outbox[x]
      BY <1>1
    <3> QED BY <3>1
  <2> QED
    BY <1>1, <2>1 DEF Write
<1>2. CASE UNCHANGED <<outbox, connected>>
  BY <1>2 DEF Write
<1>3. CASE connected' = [connected EXCEPT ![g] = FALSE] /\ UNCHANGED outbox
  BY <1>3 DEF Write
<1> QED
  BY <1>1, <1>2, <1>3 DEF Write

\* A thread's step keeps the types of the sockets.
LEMMA ThreadTypes ==
  ASSUME TypeInv, NEW h \in Handlers, ThreadStep(h)
  PROVE  TransportTypeOK'
<1> USE DEF TypeInv, TransportTypeOK
<1>1. CASE UNCHANGED transport
  BY <1>1 DEF transport
<1>2. ASSUME NEW g, NEW m \in ServerFrame, Write(g, m)
      PROVE  TransportTypeOK'
  BY <1>2, WriteTypes
<1>3. CASE Deliver(h)
  BY <1>2, <1>3, MessageType DEF Deliver, Delivered
<1>4. CASE SendReceipt(h)
  <2>1. Receipt(h) \in ServerFrame \cup {Null}
    BY <1>4, ReceiptType DEF SendReceipt, Receipted, BrokerInv, FrameKept
  <2> QED
    BY <1>1, <1>2, <1>4, <2>1 DEF SendReceipt
<1>5. CASE Reply(h)
  <2>1. reply[h] \in ServerFrame \cup {Null}
    BY DEF BrokerInv, BrokerTypeOK
  <2> QED
    BY <1>1, <1>2, <1>5, <2>1 DEF Reply
<1>6. CASE Close(h)
  BY <1>6 DEF Close
<1>7. CASE Exit(h)
  BY <1>7 DEF Exit
<1> QED
  BY <1>1, <1>3, <1>4, <1>5, <1>6, <1>7 DEF ThreadStep

LEMMA StepTypes ==
  ASSUME TypeInv, NEW h \in Handlers,
         \/ Accept(h) \/ ThreadStep(h) \/ ClientRead(h) \/ ClientDrop(h)
         \/ \E f \in Frames : Receive(h, f)
  PROVE  TypeInv'
<1>1. CASE Accept(h)
  <2>1. connections' \in [Ids -> Handlers \cup {Null}]
    BY <1>1 DEF Accept, TypeInv, BrokerInv, BrokerTypeOK
  <2>2. BrokerInv'
    BY <1>1, <2>1, JoinKeeps DEF Accept, TypeInv
  <2>3. TransportTypeOK'
    BY <1>1 DEF Accept, TypeInv, TransportTypeOK
  <2> QED
    BY <2>2, <2>3 DEF TypeInv
<1>2. ASSUME NEW f \in Frames, Receive(h, f)
      PROVE  TypeInv'
  <2>1. BrokerInv'
    BY <1>2, TakeKeeps DEF Receive, TypeInv
  <2>2. sent' \in [Handlers -> 0..MaxFrames]
    BY <1>2, BoundsAreNumbers DEF Receive, TypeInv, TransportTypeOK
  <2>3. TransportTypeOK'
    BY <1>2, <2>2 DEF Receive, TypeInv, TransportTypeOK
  <2> QED
    BY <2>1, <2>3 DEF TypeInv
<1>3. CASE ThreadStep(h)
  <2>1. CASE Silent(h)
    BY <1>3, <2>1, SilentKeeps, ThreadTypes DEF TypeInv
  <2>2. CASE Deliver(h) \/ SendReceipt(h) \/ Close(h)
    BY <1>3, <2>2, WritingKeeps, ThreadTypes DEF TypeInv, Deliver, SendReceipt, Close
  <2>3. CASE Reply(h)
    BY <1>3, <2>3, DoneKeeps, ThreadTypes DEF TypeInv, Reply
  <2>4. CASE Exit(h)
    BY <1>3, <2>4, DoneKeeps, ThreadTypes DEF TypeInv, Exit
  <2> QED
    BY <1>3, <2>1, <2>2, <2>3, <2>4 DEF ThreadStep
<1>4. CASE ClientRead(h) \/ ClientDrop(h)
  <2>1. BrokerInv'
    BY <1>4, StillKeeps DEF ClientRead, ClientDrop, TypeInv
  <2>2. outbox' \in [Handlers -> Seq(ServerFrame)]
    <3>1. outbox[h] # <<>> => Tail(outbox[h]) \in Seq(ServerFrame)
      BY DEF TypeInv, TransportTypeOK
    <3>2. outbox \in [Handlers -> Seq(ServerFrame)] /\ <<>> \in Seq(ServerFrame)
      BY DEF TypeInv, TransportTypeOK
    <3>3. CASE ClientRead(h)
      BY <3>1, <3>2, <3>3 DEF ClientRead
    <3>4. CASE ClientDrop(h)
      BY <3>2, <3>4 DEF ClientDrop
    <3> QED
      BY <1>4, <3>3, <3>4
  <2>3. TransportTypeOK'
    BY <1>4, <2>2 DEF ClientRead, ClientDrop, TypeInv, TransportTypeOK
  <2> QED
    BY <2>1, <2>3 DEF TypeInv
<1> QED
  BY <1>1, <1>2, <1>3, <1>4

THEOREM TpcTypeInvariant == Safety => []TypeInv
<1>1. Init => TypeInv
  BY BrokerStarts, BoundsAreNumbers DEF Init, TypeInv, TransportTypeOK
<1>2. TypeInv /\ [Next]_vars => TypeInv'
  <2> SUFFICES ASSUME TypeInv, [Next]_vars
               PROVE  TypeInv'
    OBVIOUS
  <2>1. CASE UNCHANGED vars
    BY <2>1, StillKeeps DEF TypeInv, TransportTypeOK, vars, transport
  <2> QED
    BY <2>1, StepTypes DEF Next
<1> QED
  BY <1>1, <1>2, PTL DEF Safety

\* Every state of the server is well formed: what the handlers take from a
\* frame after their checks is really there.
THEOREM TpcTypeOK == Safety => []TypeOK
<1>1. TypeInv => TypeOK
  BY DEF TypeInv, BrokerInv, TransportTypeOK, TypeOK
<1> QED
  BY <1>1, TpcTypeInvariant, PTL
-----------------------------------------------------------------------------
(* Membership *)


\* Adding who is not in a list, and removing who is in it once.
LEMMA AppendListed ==
  ASSUME NEW S, NEW q \in Seq(S), NEW e \in S, e \notin ToSet(q)
  PROVE  /\ ToSet(Append(q, e)) = ToSet(q) \cup {e}
         /\ Once(Append(q, e), e)
         /\ \A x : x # e /\ Once(q, x) => Once(Append(q, e), x)
<1> DEFINE r == Append(q, e)
<1>1. /\ r \in Seq(S) /\ Len(r) = Len(q) + 1
      /\ \A i \in 1..Len(q) : r[i] = q[i]
      /\ r[Len(q) + 1] = e
  OBVIOUS
<1>2. Len(q) \in Nat /\ DOMAIN q = 1..Len(q) /\ DOMAIN r = 1..Len(q) + 1
  BY <1>1
<1> HIDE DEF r
<1>3. \A x : x \in ToSet(r) <=> x \in ToSet(q) \/ x = e
  BY <1>1, <1>2 DEF ToSet
<1>4. Once(r, e)
  BY <1>1, <1>2 DEF Once, ToSet
<1>5. \A x : x # e /\ Once(q, x) => Once(r, x)
  BY <1>1, <1>2 DEF Once
<1> QED
  BY <1>3, <1>4, <1>5 DEF r

LEMMA RemoveListed ==
  ASSUME NEW S, NEW q \in Seq(S), NEW e, Once(q, e)
  PROVE  /\ ToSet(RemoveFirst(q, e)) = ToSet(q) \ {e}
         /\ \A x : Once(q, x) => Once(RemoveFirst(q, e), x)
<1> DEFINE r == RemoveFirst(q, e)
<1>1. CASE ~ \E i \in 1..Len(q) : q[i] = e
  BY <1>1 DEF RemoveFirst, ToSet
<1>2. CASE \E i \in 1..Len(q) : q[i] = e
  <2>1. PICK k \in 1..Len(q) :
          /\ q[k] = e
          /\ r \in Seq(S)
          /\ Len(r) = Len(q) - 1
          /\ \A i \in 1..Len(q) - 1 : r[i] = IF i < k THEN q[i] ELSE q[i + 1]
    BY <1>2, RemoveFirstIs
  <2>2. Len(q) \in Nat /\ DOMAIN q = 1..Len(q) /\ DOMAIN r = 1..Len(q) - 1
    BY <2>1
  <2> HIDE DEF r
  <2>3. \A i \in 1..Len(q) : i # k => q[i] # e
    BY <2>1, <2>2 DEF Once
  <2>4. ASSUME NEW x \in ToSet(r) PROVE x \in ToSet(q) \ {e}
    <3>1. PICK i \in 1..Len(q) - 1 : r[i] = x
      BY <2>2 DEF ToSet
    <3>2. CASE i < k
      BY <2>1, <2>2, <2>3, <3>1, <3>2 DEF ToSet
    <3>3. CASE i \geq k
      <4>1. i + 1 \in 1..Len(q) /\ i + 1 # k /\ x = q[i + 1]
        BY <2>1, <2>2, <3>1, <3>3
      <4> QED BY <2>2, <2>3, <4>1 DEF ToSet
    <3> QED BY <2>1, <2>2, <3>1, <3>2, <3>3
  <2>5. ASSUME NEW x \in ToSet(q) \ {e} PROVE x \in ToSet(r)
    <3>1. PICK i \in 1..Len(q) : q[i] = x
      BY <2>2 DEF ToSet
    <3>2. CASE i < k
      BY <2>1, <2>2, <3>1, <3>2 DEF ToSet
    <3>3. CASE i > k
      <4>1. i - 1 \in 1..Len(q) - 1 /\ r[i - 1] = q[i]
        BY <2>1, <2>2, <3>3
      <4> QED BY <2>2, <3>1, <4>1 DEF ToSet
    <3> QED BY <2>1, <2>2, <3>1, <3>2, <3>3
  <2>6. ASSUME NEW x, Once(q, x) PROVE Once(r, x)
    <3> SUFFICES ASSUME NEW i \in 1..Len(q) - 1, NEW j \in 1..Len(q) - 1,
                        r[i] = x, r[j] = x
                 PROVE  i = j
      BY <2>2 DEF Once
    <3>1. \A m, n \in 1..Len(q) : q[m] = x /\ q[n] = x => m = n
      BY <2>2, <2>6 DEF Once
    <3> QED BY <2>1, <2>2, <3>1
  <2> QED BY <2>4, <2>5, <2>6 DEF r
<1> QED
  BY <1>1, <1>2
-----------------------------------------------------------------------------
\* What the session invariant says of a connection that has its id.
LEMMA JoinedIds ==
  ASSUME SessionInv, NEW h \in Handlers, Joined(h)
  PROVE  /\ connectionId[h] \in Ids
         /\ connectionId[h] \in Nat
         /\ counter \in Nat
         /\ connectionId[h] < counter
         /\ connectionId[h] # Null
         /\ pc[h] # "off"
         /\ connections[connectionId[h]] \in {h, Null}
         /\ \A g \in Handlers : connectionId[g] = connectionId[h] => g = h
BY IdsAreNumbers DEF Joined, SessionInv, SessionTypeOK, Registered

\* While its thread processes a frame, a connection is registered.
LEMMA BusyIds ==
  ASSUME SessionInv, NEW h \in Handlers, pc[h] \notin {"off", "reply", "read", "exited"}
  PROVE  Joined(h) /\ connections[connectionId[h]] = h
BY DEF Joined, SessionInv, Registered, SilentAfterLogout

\* Steps that touch no list, no subscription and no session.
LEMMA MembersStay ==
  ASSUME MembershipInv,
         UNCHANGED <<channels, subscriptions, connectionId, connections,
                     activeUsers, username, counter, dirty>>,
         \A g \in Handlers : pc'[g] = "clean" <=> pc[g] = "clean"
  PROVE  MembershipInv'
<1> USE DEF MembershipInv, Joined, Listed, SubscribedTo, SubscriptionIds
<1>1. SubscriptionsSane'
  BY DEF SubscriptionsSane
<1>2. ListsAgree'
  BY DEF ListsAgree
<1>3. KnownIds'
  BY DEF KnownIds
<1>4. ActiveAgrees'
  BY DEF ActiveAgrees, LoggedOut
<1> QED
  BY <1>1, <1>2, <1>3, <1>4

\* The lists and the subscriptions of one connection change, in one channel,
\* and nobody logs in or out.
LEMMA OneListChanges ==
  ASSUME MembershipInv, SessionInv, TypeInv,
         NEW h \in Handlers, NEW d \in Channels,
         Joined(h), pc[h] = "process", connections[connectionId[h]] = h,
         channels' \in [Channels -> Seq(Ids)],
         \A ch \in Channels \ {d} : channels'[ch] = channels[ch],
         \A i \in ToSet(channels'[d]) : i \in ToSet(channels[d]) \/ i = connectionId[h],
         \A i \in ToSet(channels[d]) : i \in ToSet(channels'[d]) \/ i = connectionId[h],
         \A i : i # connectionId[h] /\ Once(channels[d], i) => Once(channels'[d], i),
         Once(channels'[d], connectionId[h]),
         Listed(h, d)' <=> d \in SubscribedTo(h)',
         \A ch \in Channels \ {d} : ch \in SubscribedTo(h)' <=> ch \in SubscribedTo(h),
         \A g \in Handlers \ {h} : subscriptions'[g] = subscriptions[g],
         SubscriptionsSane',
         pc' = [pc EXCEPT ![h] = "reply"],
         UNCHANGED <<connectionId, connections, activeUsers, username, counter, dirty>>
  PROVE  MembershipInv'
<1>1. /\ pc \in [Handlers -> Step]
      /\ connectionId[h] < counter
  BY JoinedIds DEF TypeInv, BrokerInv, BrokerTypeOK
<1>2. \A g \in Handlers \ {h} : SubscribedTo(g)' = SubscribedTo(g)
  BY DEF SubscribedTo, SubscriptionIds
<1>3. \A g \in Handlers : Joined(g)' <=> Joined(g)
  BY DEF Joined
<1>4. \A g \in Handlers \ {h} : Joined(g) => connectionId[g] # connectionId[h]
  BY JoinedIds
<1>5. ListsAgree'
  <2> SUFFICES ASSUME NEW g \in Handlers, NEW ch \in Channels, Joined(g)'
               PROVE  /\ Once(channels'[ch], connectionId'[g])
                      /\ Listed(g, ch)' => ch \in SubscribedTo(g)'
                      /\ pc'[g] # "clean" => (ch \in SubscribedTo(g)' => Listed(g, ch)')
                      /\ pc'[g] = "clean" => (Listed(g, ch)' => ch \in dirty'[g])
                      /\ connections'[connectionId'[g]] # g => ~ Listed(g, ch)'
    BY DEF ListsAgree
  <2>0. /\ Once(channels[ch], connectionId[g])
        /\ Listed(g, ch) => ch \in SubscribedTo(g)
        /\ pc[g] # "clean" => (ch \in SubscribedTo(g) => Listed(g, ch))
        /\ pc[g] = "clean" => (Listed(g, ch) => ch \in dirty[g])
        /\ connections[connectionId[g]] # g => ~ Listed(g, ch)
    BY <1>3 DEF MembershipInv, ListsAgree
  <2>1. CASE g = h /\ ch = d
    BY <1>1, <2>0, <2>1
  <2>2. CASE g = h /\ ch # d
    <3>1. Listed(g, ch)' <=> Listed(g, ch)
      BY <2>2 DEF Listed
    <3> QED BY <1>1, <2>0, <2>2, <3>1
  <2>3. CASE g # h
    <3>1. Listed(g, ch)' <=> Listed(g, ch)
      BY <1>3, <1>4, <2>3 DEF Listed
    <3>2. Once(channels'[ch], connectionId[g])
      BY <1>3, <1>4, <2>0, <2>3
    <3>3. pc'[g] = pc[g] /\ SubscribedTo(g)' = SubscribedTo(g)
      BY <1>1, <1>2, <2>3
    <3> QED BY <2>0, <3>1, <3>2, <3>3
  <2> QED BY <2>1, <2>2, <2>3
<1>6. KnownIds'
  BY <1>1 DEF MembershipInv, KnownIds
<1>7. ActiveAgrees'
  BY <1>1 DEF MembershipInv, ActiveAgrees, LoggedOut, Joined
<1> QED
  BY <1>5, <1>6, <1>7 DEF MembershipInv

\* The new id is in no table yet.
LEMMA AcceptMembers ==
  ASSUME MembershipInv, SessionInv, TypeInv, NEW h \in Handlers, Accept(h)
  PROVE  MembershipInv'
<1>1. /\ connectionId[h] = Null /\ connectionId' = [connectionId EXCEPT ![h] = counter]
      /\ counter' = counter + 1 /\ counter \in Ids /\ counter \in Nat /\ counter # Null
      /\ connections' = [connections EXCEPT ![counter] = h]
      /\ UNCHANGED <<channels, subscriptions, activeUsers, username, dirty>>
      /\ pc[h] = "off" /\ pc' = [pc EXCEPT ![h] = "read"]
  BY NullIsNoValue, IdsAreNumbers
     DEF Accept, Goto, SessionInv, SessionTypeOK, Registered
<1>2. /\ connectionId \in [Handlers -> Ids \cup {Null}]
      /\ connections \in [Ids -> Handlers \cup {Null}]
      /\ channels \in [Channels -> Seq(Ids)]
      /\ activeUsers \in [Users -> Ids \cup {Null}]
      /\ pc \in [Handlers -> Step]
  BY DEF TypeInv, BrokerInv, BrokerTypeOK
<1>3. /\ connectionId'[h] = counter /\ connections'[counter] = h
      /\ \A i \in Ids : i # counter => connections'[i] = connections[i]
  BY <1>1, <1>2
<1>4. \A g \in Handlers \ {h} :
        /\ connectionId'[g] = connectionId[g] /\ pc'[g] = pc[g]
        /\ Joined(g)' <=> Joined(g)
        /\ Joined(g) => /\ connectionId[g] \in Ids /\ connectionId[g] # counter
                        /\ connections'[connectionId[g]] = connections[connectionId[g]]
  <2> SUFFICES ASSUME NEW g \in Handlers \ {h}
               PROVE  /\ connectionId'[g] = connectionId[g] /\ pc'[g] = pc[g]
                      /\ Joined(g)' <=> Joined(g)
                      /\ Joined(g) =>
                           /\ connectionId[g] \in Ids /\ connectionId[g] # counter
                           /\ connections'[connectionId[g]] = connections[connectionId[g]]
    OBVIOUS
  <2>1. connectionId'[g] = connectionId[g] /\ pc'[g] = pc[g]
    BY <1>1, <1>2
  <2>2. Joined(g)' <=> Joined(g)
    BY <2>1 DEF Joined
  <2>3. ASSUME Joined(g) PROVE connectionId[g] \in Ids /\ connectionId[g] # counter
    <3>1. connectionId[g] \in Ids /\ connectionId[g] \in Nat /\ connectionId[g] < counter
      BY <2>3, JoinedIds
    <3> QED BY <1>1, <3>1
  <2> QED BY <1>3, <2>1, <2>2, <2>3
<1>5. \A g \in Handlers : SubscriptionIds(g)' = SubscriptionIds(g) /\ SubscribedTo(g)' = SubscribedTo(g)
  BY <1>1 DEF SubscriptionIds, SubscribedTo
<1>6. \A ch \in Channels : counter \notin ToSet(channels[ch])
  BY <1>1 DEF MembershipInv, KnownIds
<1>7. SubscriptionsSane'
  <2>1. Joined(h)'
    BY <1>1, <1>3 DEF Joined
  <2>2. SubscriptionsSane
    BY DEF MembershipInv
  <2>3. subscriptions' = subscriptions
    BY <1>1
  <2> QED BY <1>4, <1>5, <2>1, <2>2, <2>3 DEF SubscriptionsSane
<1>8. ListsAgree'
  <2> SUFFICES ASSUME NEW g \in Handlers, NEW ch \in Channels, Joined(g)'
               PROVE  /\ Once(channels[ch], connectionId'[g])
                      /\ Listed(g, ch)' => ch \in SubscribedTo(g)'
                      /\ pc'[g] # "clean" => (ch \in SubscribedTo(g)' => Listed(g, ch)')
                      /\ pc'[g] = "clean" => (Listed(g, ch)' => ch \in dirty'[g])
                      /\ connections'[connectionId'[g]] # g => ~ Listed(g, ch)'
    BY <1>1 DEF ListsAgree
  <2>1. CASE g = h
    <3>1. ~ Listed(h, ch)'
      BY <1>1, <1>3, <1>6 DEF Listed
    <3>2. SubscribedTo(h)' = {}
      <4>1. SubscriptionIds(h) = {}
        BY <1>1 DEF MembershipInv, SubscriptionsSane, Joined
      <4> QED BY <1>5, <4>1 DEF SubscribedTo
    <3>3. Once(channels[ch], counter)
      BY <1>6 DEF Once, ToSet
    <3> QED BY <1>3, <2>1, <3>1, <3>2, <3>3
  <2>2. CASE g # h
    <3>1. Listed(g, ch)' <=> Listed(g, ch)
      BY <1>1, <1>4, <2>2 DEF Listed
    <3>2. Joined(g) /\ dirty' = dirty
      BY <1>1, <1>4, <2>2
    <3>3. /\ Once(channels[ch], connectionId[g])
          /\ Listed(g, ch) => ch \in SubscribedTo(g)
          /\ pc[g] # "clean" => (ch \in SubscribedTo(g) => Listed(g, ch))
          /\ pc[g] = "clean" => (Listed(g, ch) => ch \in dirty[g])
          /\ connections[connectionId[g]] # g => ~ Listed(g, ch)
      BY <3>2 DEF MembershipInv, ListsAgree
    <3> QED BY <1>4, <1>5, <2>2, <3>1, <3>2, <3>3
  <2> QED BY <2>1, <2>2
<1>9. KnownIds'
  <2>1. ASSUME NEW i \in Ids, i < counter PROVE i < counter + 1
    BY <1>1, <2>1, IdsAreNumbers
  <2>2. \A ch \in Channels : \A i \in ToSet(channels[ch]) : i \in Ids /\ i < counter
    BY <1>2 DEF MembershipInv, KnownIds, ToSet
  <2>3. \A u \in Users : activeUsers[u] # Null => activeUsers[u] \in Ids /\ activeUsers[u] < counter
    BY <1>2 DEF MembershipInv, KnownIds
  <2> QED BY <1>1, <2>1, <2>2, <2>3 DEF KnownIds
<1>10. ActiveAgrees'
  <2>1. \A u \in Users : activeUsers[u] # counter
    BY <1>1 DEF MembershipInv, KnownIds
  <2>2. ASSUME NEW g \in Handlers \ {h}, Joined(g), ~ LoggedOut(g)
        PROVE  ~ LoggedOut(g)'
    BY <1>4, <2>2 DEF LoggedOut
  <2>3. ASSUME NEW u \in Users, NEW g \in Handlers, Joined(g)', activeUsers'[u] = connectionId'[g]
        PROVE  username'[g] = u /\ ~ LoggedOut(g)'
    <3>1. g # h
      BY <1>1, <1>3, <2>1, <2>3
    <3>2. Joined(g) /\ activeUsers[u] = connectionId[g]
      BY <1>1, <1>4, <2>3, <3>1
    <3>3. username[g] = u /\ ~ LoggedOut(g)
      BY <3>2 DEF MembershipInv, ActiveAgrees
    <3> QED BY <1>1, <2>2, <3>1, <3>2, <3>3
  <2> QED BY <2>3 DEF ActiveAgrees
<1> QED
  BY <1>7, <1>8, <1>9, <1>10 DEF MembershipInv

LEMMA LoginMembers ==
  ASSUME MembershipInv, SessionInv, TypeInv, NEW h \in Handlers, Login(h),
         UNCHANGED transport
  PROVE  MembershipInv'
<1> DEFINE u == frame[h].login
<1>1. /\ pc[h] = "login" /\ username[h] = Null /\ u \in Users
      /\ pc' = [pc EXCEPT ![h] = "reply"]
      /\ UNCHANGED <<channels, subscriptions, connectionId, connections, counter, dirty>>
      /\ \/ UNCHANGED <<activeUsers, username>>
         \/ /\ activeUsers[u] = Null
            /\ activeUsers' = [activeUsers EXCEPT ![u] = connectionId[h]]
            /\ username' = [username EXCEPT ![h] = u]
  BY DEF Login, Answer, Goto, SessionInv, PlaceOfProtocol, transport
<1>2. /\ pc \in [Handlers -> Step]
      /\ activeUsers \in [Users -> Ids \cup {Null}]
      /\ username \in [Handlers -> Users \cup {Null}]
  BY DEF TypeInv, BrokerInv, BrokerTypeOK
<1>3. \A g \in Handlers : pc'[g] = "clean" <=> pc[g] = "clean"
  BY <1>1, <1>2
<1>4. CASE UNCHANGED <<activeUsers, username>>
  BY <1>1, <1>3, <1>4, MembersStay
<1>5. CASE /\ activeUsers' = [activeUsers EXCEPT ![u] = connectionId[h]]
           /\ username' = [username EXCEPT ![h] = u]
  <2>1. Joined(h) /\ connections[connectionId[h]] = h
    BY <1>1, BusyIds
  <2>2. /\ connectionId[h] \in Ids /\ connectionId[h] < counter
        /\ \A g \in Handlers : connectionId[g] = connectionId[h] => g = h
    BY <2>1, JoinedIds
  <2>3. SubscriptionsSane'
    BY <1>1 DEF MembershipInv, SubscriptionsSane, SubscriptionIds, Joined
  <2>4. ListsAgree'
    BY <1>1, <1>3 DEF MembershipInv, ListsAgree, Listed, SubscribedTo, SubscriptionIds, Joined
  <2>5. KnownIds'
    BY <1>1, <1>2, <1>5, <2>2 DEF MembershipInv, KnownIds
  <2>6. \A g \in Handlers : LoggedOut(g)' <=> LoggedOut(g)
    BY <1>1, <1>3 DEF LoggedOut
  <2>7. ~ LoggedOut(h)
    BY <1>1, <2>1, <2>2 DEF LoggedOut
  <2>8. \A v \in Users : activeUsers[v] # connectionId[h]
    BY <1>1, <2>1, NullIsNoValue DEF MembershipInv, ActiveAgrees
  <2>9. ASSUME NEW v \in Users, NEW g \in Handlers, Joined(g)', activeUsers'[v] = connectionId'[g]
        PROVE  username'[g] = v /\ ~ LoggedOut(g)'
    <3>1. CASE g = h
      <4>1. v = u
        BY <1>1, <1>2, <1>5, <2>8, <2>9, <3>1
      <4> QED BY <1>1, <1>2, <1>5, <2>6, <2>7, <3>1, <4>1
    <3>2. CASE g # h
      <4>1. Joined(g) /\ activeUsers[v] = connectionId[g]
        BY <1>1, <1>2, <1>5, <2>2, <2>9, <3>2 DEF Joined
      <4>2. username[g] = v /\ ~ LoggedOut(g)
        BY <4>1 DEF MembershipInv, ActiveAgrees
      <4> QED BY <1>2, <1>5, <2>6, <3>2, <4>2
    <3> QED BY <3>1, <3>2
  <2> QED BY <2>3, <2>4, <2>5, <2>9 DEF MembershipInv, ActiveAgrees
<1> QED
  BY <1>1, <1>4, <1>5

\* The entry of subscription s in the map of h becomes v.
LEMMA PutSubscription ==
  ASSUME TypeInv, NEW h \in Handlers, NEW s \in SubIds, NEW v, v \in Channels \/ v = Null,
         subscriptions' = [subscriptions EXCEPT ![h][s] = v]
  PROVE  /\ subscriptions'[h][s] = v
         /\ \A t \in SubIds : t # s => subscriptions'[h][t] = subscriptions[h][t]
         /\ \A g \in Handlers \ {h} : subscriptions'[g] = subscriptions[g]
         /\ v = Null => SubscriptionIds(h)' = SubscriptionIds(h) \ {s}
         /\ v # Null => SubscriptionIds(h)' = SubscriptionIds(h) \cup {s}
<1>1. /\ subscriptions \in [Handlers -> [SubIds -> Channels \cup {Null}]]
  BY DEF TypeInv, BrokerInv, BrokerTypeOK
<1>2. /\ subscriptions'[h][s] = v
      /\ \A t \in SubIds : t # s => subscriptions'[h][t] = subscriptions[h][t]
      /\ \A g \in Handlers \ {h} : subscriptions'[g] = subscriptions[g]
  BY <1>1
<1>3. \A t \in SubIds : t \in SubscriptionIds(h)' <=> subscriptions'[h][t] # Null
  BY DEF SubscriptionIds
<1>4. \A t : t \in SubscriptionIds(h) <=> t \in SubIds /\ subscriptions[h][t] # Null
  BY DEF SubscriptionIds
<1>5. SubscriptionIds(h)' \subseteq SubIds
  BY DEF SubscriptionIds
<1> QED
  BY <1>2, <1>3, <1>4, <1>5

\* Neither the channel nor the id is in use.
LEMMA SubscribeMembers ==
  ASSUME OneChannelPerId, MembershipInv, SessionInv, TypeInv, NEW h \in Handlers,
         Subscribe(h), UNCHANGED transport
  PROVE  MembershipInv'
<1>1. PICK s \in SubIds, d \in Channels :
         /\ frame[h] \in Frames /\ frame[h].command = "SUBSCRIBE"
         /\ s = frame[h].id /\ d = frame[h].destination
         /\ d \notin SubscribedTo(h)
         /\ s # Null /\ d # Null
  BY HandledFrame, NullIsNoValue DEF Subscribe, Handles, Refused, FrameKept, TypeInv, BrokerInv
<1>2. pc[h] = "process" /\ Joined(h) /\ connections[connectionId[h]] = h
  BY BusyIds DEF Subscribe, Handles
<1>3. PICK i \in Ids : i = connectionId[h]
  BY <1>2, JoinedIds
<1>4. /\ subscriptions' = [subscriptions EXCEPT ![h][s] = d]
      /\ channels' = [channels EXCEPT ![d] = Append(@, i)]
      /\ pc' = [pc EXCEPT ![h] = "reply"]
      /\ UNCHANGED <<connectionId, connections, activeUsers, username, counter, dirty>>
  BY <1>1, <1>3 DEF Subscribe, Answer, Goto, transport
<1>5. channels \in [Channels -> Seq(Ids)]
  BY DEF TypeInv, BrokerInv, BrokerTypeOK
<1>6. \A t \in SubscriptionIds(h) :
        \E f \in Frames : /\ f.command = "SUBSCRIBE" /\ f.id = t
                          /\ f.destination = subscriptions[h][t]
  BY DEF MembershipInv, SubscriptionsSane
<1>7. s \notin SubscriptionIds(h)
  <2> SUFFICES ASSUME s \in SubscriptionIds(h) PROVE FALSE
    OBVIOUS
  <2>1. PICK f \in Frames : /\ f.command = "SUBSCRIBE" /\ f.id = s
                            /\ f.destination = subscriptions[h][s]
    BY <1>6
  <2>2. subscriptions[h][s] # Null
    BY DEF SubscriptionIds
  <2>3. f.destination = d
    <3> DEFINE F == {k \in Frames : k.command = "SUBSCRIBE" /\ Null \notin {k.id, k.destination}}
    <3>1. f \in F /\ frame[h] \in F
      BY <1>1, <2>1, <2>2
    <3>2. \A k, l \in F : k.id = l.id => k.destination = l.destination
      BY DEF OneChannelPerId
    <3> HIDE DEF F
    <3> QED BY <1>1, <2>1, <3>1, <3>2
  <2> QED BY <1>1, <2>1, <2>3 DEF SubscribedTo
<1>8. /\ SubscriptionIds(h)' = SubscriptionIds(h) \cup {s}
      /\ \A t \in SubIds : t # s => subscriptions'[h][t] = subscriptions[h][t]
      /\ subscriptions'[h][s] = d
      /\ \A g \in Handlers \ {h} : subscriptions'[g] = subscriptions[g]
  <2>1. d # Null
    BY <1>1
  <2>2. subscriptions' = [subscriptions EXCEPT ![h][s] = d]
    BY <1>4
  <2>3. subscriptions'[h][s] = d
    BY <2>2 DEF TypeInv, BrokerInv, BrokerTypeOK
  <2>4. \A t \in SubIds : t # s => subscriptions'[h][t] = subscriptions[h][t]
    BY <2>2, PutSubscription
  <2>5. \A g \in Handlers \ {h} : subscriptions'[g] = subscriptions[g]
    BY <2>2, PutSubscription
  <2>6. SubscriptionIds(h)' = SubscriptionIds(h) \cup {s}
    BY <2>1, <2>3, <2>4 DEF SubscriptionIds
  <2> QED BY <2>3, <2>4, <2>5, <2>6
<1>9. SubscriptionIds(h) \subseteq SubIds
  BY DEF SubscriptionIds
<1>10. SubscriptionsSane'
  <2>1. \A t \in SubscriptionIds(h)' :
          \E f \in Frames : /\ f.command = "SUBSCRIBE" /\ f.id = t
                            /\ f.destination = subscriptions'[h][t]
    BY <1>1, <1>6, <1>7, <1>8, <1>9
  <2>2. ASSUME NEW t \in SubscriptionIds(h)', NEW v \in SubscriptionIds(h)',
               subscriptions'[h][t] = subscriptions'[h][v]
        PROVE  t = v
    <3>1. \A x \in SubscriptionIds(h) : subscriptions[h][x] # d
      BY <1>1 DEF SubscribedTo
    <3>2. \A x, y \in SubscriptionIds(h) : subscriptions[h][x] = subscriptions[h][y] => x = y
      BY DEF MembershipInv, SubscriptionsSane
    <3> QED BY <1>7, <1>8, <1>9, <2>2, <3>1, <3>2
  <2>3. \A g \in Handlers \ {h} :
          SubscriptionIds(g)' = SubscriptionIds(g) /\ (Joined(g)' <=> Joined(g))
    BY <1>4, <1>8 DEF SubscriptionIds, Joined
  <2>4. Joined(h)'
    BY <1>2, <1>4 DEF Joined
  <2> QED BY <1>8, <2>1, <2>2, <2>3, <2>4 DEF MembershipInv, SubscriptionsSane
<1>11. \A ch \in Channels : ch \in SubscribedTo(h)' <=> ch \in SubscribedTo(h) \/ ch = d
  <2> SUFFICES ASSUME NEW ch \in Channels
               PROVE  ch \in SubscribedTo(h)' <=> ch \in SubscribedTo(h) \/ ch = d
    OBVIOUS
  <2>1. ch \in SubscribedTo(h)' <=> \E t \in SubscriptionIds(h)' : subscriptions'[h][t] = ch
    BY DEF SubscribedTo
  <2>2. ch \in SubscribedTo(h) <=> \E t \in SubscriptionIds(h) : subscriptions[h][t] = ch
    BY DEF SubscribedTo
  <2> QED BY <1>7, <1>8, <1>9, <2>1, <2>2
<1>12. /\ ToSet(channels'[d]) = ToSet(channels[d]) \cup {i}
       /\ Once(channels'[d], i)
       /\ \A x : x # i /\ Once(channels[d], x) => Once(channels'[d], x)
  <2>1. i \notin ToSet(channels[d])
    BY <1>1, <1>2, <1>3 DEF MembershipInv, ListsAgree, Listed
  <2>2. channels[d] \in Seq(Ids) /\ channels'[d] = Append(channels[d], i)
    BY <1>1, <1>4, <1>5
  <2> QED BY <1>3, <2>1, <2>2, AppendListed
<1>13. /\ \A ch \in Channels \ {d} : channels'[ch] = channels[ch]
       /\ channels' \in [Channels -> Seq(Ids)]
  BY <1>1, <1>3, <1>4, <1>5
<1>14. Listed(h, d)' /\ d \in SubscribedTo(h)'
  BY <1>3, <1>4, <1>11, <1>12 DEF Listed
<1> QED
  <2>1. d \in Channels
    BY <1>1
  <2>2. Once(channels'[d], connectionId[h]) /\ \A x : x # connectionId[h] /\ Once(channels[d], x) => Once(channels'[d], x)
    BY <1>3, <1>12
  <2>3. \A x \in ToSet(channels'[d]) : x \in ToSet(channels[d]) \/ x = connectionId[h]
    BY <1>3, <1>12
  <2>4. \A x \in ToSet(channels[d]) : x \in ToSet(channels'[d]) \/ x = connectionId[h]
    BY <1>3, <1>12
  <2>5. connections[connectionId[h]] = h
    BY <1>2
  <2> QED
    BY <1>2, <1>4, <1>8, <1>10, <1>11, <1>13, <1>14, <2>1, <2>2, <2>3, <2>4, <2>5, OneListChanges

\* Who unsubscribes was in the list once, and leaves it.
LEMMA UnsubscribeMembers ==
  ASSUME MembershipInv, SessionInv, TypeInv, NEW h \in Handlers,
         Unsubscribe(h), UNCHANGED transport
  PROVE  MembershipInv'
<1>1. PICK s \in SubIds, d \in Channels :
         /\ s = frame[h].id /\ d = subscriptions[h][s]
         /\ d # Null
  BY HandledFrame, NullIsNoValue DEF Unsubscribe, Handles, TypeInv
<1>2. pc[h] = "process" /\ Joined(h) /\ connections[connectionId[h]] = h
  BY BusyIds DEF Unsubscribe, Handles
<1>3. PICK i \in Ids : i = connectionId[h]
  BY <1>2, JoinedIds
<1>4. /\ subscriptions' = [subscriptions EXCEPT ![h][s] = Null]
      /\ channels' = [channels EXCEPT ![d] = RemoveFirst(@, i)]
      /\ pc' = [pc EXCEPT ![h] = "reply"]
      /\ UNCHANGED <<connectionId, connections, activeUsers, username, counter, dirty>>
  BY <1>1, <1>3 DEF Unsubscribe, Answer, Goto, transport
<1>5. channels \in [Channels -> Seq(Ids)]
  BY DEF TypeInv, BrokerInv, BrokerTypeOK
<1>6. /\ \A x, y \in SubscriptionIds(h) : subscriptions[h][x] = subscriptions[h][y] => x = y
      /\ s \in SubscriptionIds(h)
  BY <1>1 DEF MembershipInv, SubscriptionsSane, SubscriptionIds
<1>7. /\ SubscriptionIds(h)' = SubscriptionIds(h) \ {s}
      /\ \A t \in SubIds : t # s => subscriptions'[h][t] = subscriptions[h][t]
      /\ \A g \in Handlers \ {h} : subscriptions'[g] = subscriptions[g]
  <2>1. subscriptions' = [subscriptions EXCEPT ![h][s] = Null]
    BY <1>4
  <2> QED BY <2>1, PutSubscription
<1>8. SubscriptionIds(h) \subseteq SubIds
  BY DEF SubscriptionIds
<1>9. SubscriptionsSane'
  <2>1. \A t \in SubscriptionIds(h)' :
          \E f \in Frames : /\ f.command = "SUBSCRIBE" /\ f.id = t
                            /\ f.destination = subscriptions'[h][t]
    BY <1>7, <1>8 DEF MembershipInv, SubscriptionsSane
  <2>2. \A x, y \in SubscriptionIds(h)' : subscriptions'[h][x] = subscriptions'[h][y] => x = y
    BY <1>6, <1>7, <1>8
  <2>3. \A g \in Handlers \ {h} :
          SubscriptionIds(g)' = SubscriptionIds(g) /\ (Joined(g)' <=> Joined(g))
    BY <1>4, <1>7 DEF SubscriptionIds, Joined
  <2>4. Joined(h)'
    BY <1>2, <1>4 DEF Joined
  <2> QED BY <1>7, <2>1, <2>2, <2>3, <2>4 DEF MembershipInv, SubscriptionsSane
<1>10. \A ch \in Channels : ch \in SubscribedTo(h)' <=> ch \in SubscribedTo(h) /\ ch # d
  <2> SUFFICES ASSUME NEW ch \in Channels
               PROVE  ch \in SubscribedTo(h)' <=> ch \in SubscribedTo(h) /\ ch # d
    OBVIOUS
  <2>1. ch \in SubscribedTo(h)' <=> \E t \in SubscriptionIds(h)' : subscriptions'[h][t] = ch
    BY DEF SubscribedTo
  <2>2. ch \in SubscribedTo(h) <=> \E t \in SubscriptionIds(h) : subscriptions[h][t] = ch
    BY DEF SubscribedTo
  <2> QED BY <1>1, <1>6, <1>7, <1>8, <2>1, <2>2
<1>11. /\ ToSet(channels'[d]) = ToSet(channels[d]) \ {i}
       /\ \A x : Once(channels[d], x) => Once(channels'[d], x)
       /\ Once(channels[d], i)
  <2>1. Once(channels[d], i)
    BY <1>1, <1>2, <1>3 DEF MembershipInv, ListsAgree
  <2>2. channels[d] \in Seq(Ids) /\ channels'[d] = RemoveFirst(channels[d], i)
    BY <1>1, <1>4, <1>5
  <2> QED BY <1>3, <2>1, <2>2, RemoveListed
<1>12. /\ \A ch \in Channels \ {d} : channels'[ch] = channels[ch]
       /\ channels' \in [Channels -> Seq(Ids)]
  <2>1. RemoveFirst(channels[d], i) \in Seq(Ids)
    BY <1>1, <1>5, RemoveFirstType
  <2> QED BY <1>1, <1>4, <1>5, <2>1
<1>13. ~ Listed(h, d)' /\ d \notin SubscribedTo(h)'
  BY <1>3, <1>4, <1>10, <1>11 DEF Listed
<1> QED
  <2>1. d \in Channels
    BY <1>1
  <2>2. /\ Once(channels'[d], connectionId[h])
        /\ \A x : x # connectionId[h] /\ Once(channels[d], x) => Once(channels'[d], x)
    BY <1>3, <1>11
  <2>3. \A x \in ToSet(channels'[d]) : x \in ToSet(channels[d]) \/ x = connectionId[h]
    BY <1>3, <1>11
  <2>4. \A x \in ToSet(channels[d]) : x \in ToSet(channels'[d]) \/ x = connectionId[h]
    BY <1>3, <1>11
  <2>5. connections[connectionId[h]] = h
    BY <1>2
  <2> QED
    BY <1>2, <1>4, <1>7, <1>9, <1>10, <1>12, <1>13, <2>1, <2>2, <2>3, <2>4, <2>5, OneListChanges

\* The user leaves activeUsers; the lists are still to be cleaned.
LEMMA LogoutMembers ==
  ASSUME MembershipInv, SessionInv, TypeInv, NEW h \in Handlers, Logout(h),
         UNCHANGED transport
  PROVE  MembershipInv'
<1> DEFINE u == username[h]
<1>1. /\ pc[h] = "logout" /\ u \in Users /\ u # Null
      /\ pc' = [pc EXCEPT ![h] = "clean"]
      /\ activeUsers' = [activeUsers EXCEPT ![u] = Null]
      /\ dirty' = [dirty EXCEPT ![h] = IF activeUsers[u] = Null THEN {} ELSE Channels]
      /\ UNCHANGED <<channels, subscriptions, connectionId, connections, username, counter>>
  BY NullIsNoValue
     DEF Logout, Goto, SessionInv, SessionTypeOK, PlaceOfProtocol, transport
<1>2. /\ pc \in [Handlers -> Step]
      /\ activeUsers \in [Users -> Ids \cup {Null}]
      /\ dirty \in [Handlers -> SUBSET Channels]
  BY DEF TypeInv, BrokerInv, BrokerTypeOK
<1>3. Joined(h) /\ connections[connectionId[h]] = h
  BY <1>1, BusyIds
<1>4. /\ connectionId[h] \in Ids /\ connectionId[h] # Null
      /\ \A g \in Handlers : connectionId[g] = connectionId[h] => g = h
  BY <1>3, JoinedIds
<1>5. activeUsers[u] = connectionId[h]
  <2>1. ~ LoggedOut(h)
    BY <1>1, <1>3, <1>4 DEF LoggedOut
  <2> QED BY <1>1, <2>1 DEF SessionInv, SessionAgrees
<1>6. SubscriptionsSane'
  BY <1>1 DEF MembershipInv, SubscriptionsSane, SubscriptionIds, Joined
<1>7. dirty'[h] = Channels /\ \A g \in Handlers \ {h} : dirty'[g] = dirty[g] /\ pc'[g] = pc[g]
  BY <1>1, <1>2, <1>4, <1>5
<1>8. pc'[h] = "clean"
  BY <1>1, <1>2
<1>9. ListsAgree'
  BY <1>1, <1>7, <1>8
     DEF MembershipInv, ListsAgree, Listed, SubscribedTo, SubscriptionIds, Joined
<1>10. KnownIds'
  BY <1>1, <1>2 DEF MembershipInv, KnownIds
<1>11. ASSUME NEW v \in Users, NEW g \in Handlers, Joined(g)', activeUsers'[v] = connectionId'[g]
       PROVE  username'[g] = v /\ ~ LoggedOut(g)'
  <2>1. Joined(g) /\ v # u /\ activeUsers[v] = connectionId[g]
    BY <1>1, <1>2, <1>11 DEF Joined
  <2>2. username[g] = v /\ ~ LoggedOut(g)
    BY <2>1 DEF MembershipInv, ActiveAgrees
  <2>3. g # h
    BY <2>1, <2>2
  <2> QED BY <1>1, <1>7, <2>2, <2>3 DEF LoggedOut
<1> QED
  BY <1>6, <1>9, <1>10, <1>11 DEF MembershipInv, ActiveAgrees

\* A list is cleaned of the connection that leaves, and of nobody else.
LEMMA CleanMembers ==
  ASSUME MembershipInv, SessionInv, TypeInv, NEW h \in Handlers, NEW c \in Channels,
         Clean(h, c), UNCHANGED transport
  PROVE  MembershipInv'
<1> DEFINE i == connectionId[h]
<1>1. /\ pc[h] = "clean" /\ leaving[h] = i
      /\ channels' = [channels EXCEPT ![c] = RemoveFirst(@, i)]
      /\ dirty' = [dirty EXCEPT ![h] = @ \ {c}]
      /\ UNCHANGED <<pc, subscriptions, connectionId, connections, activeUsers, username, counter>>
  BY DEF Clean, SessionInv, PlaceOfProtocol, transport
<1>2. channels \in [Channels -> Seq(Ids)] /\ dirty \in [Handlers -> SUBSET Channels]
  BY DEF TypeInv, BrokerInv, BrokerTypeOK
<1>3. Joined(h) /\ connections[i] = h
  BY <1>1, BusyIds
<1>4. \A g \in Handlers : Joined(g) /\ g # h => connectionId[g] # i
  BY <1>3, JoinedIds
<1>5. Once(channels[c], i)
  BY <1>3 DEF MembershipInv, ListsAgree
<1>6. /\ ToSet(channels'[c]) = ToSet(channels[c]) \ {i}
      /\ \A x : Once(channels[c], x) => Once(channels'[c], x)
  <2>1. channels[c] \in Seq(Ids) /\ channels'[c] = RemoveFirst(channels[c], i)
    BY <1>1, <1>2
  <2> QED BY <1>5, <2>1, RemoveListed
<1>7. \A ch \in Channels \ {c} : channels'[ch] = channels[ch]
  BY <1>1, <1>2
<1>8. SubscriptionsSane'
  BY <1>1 DEF MembershipInv, SubscriptionsSane, SubscriptionIds, Joined
<1>9. ListsAgree'
  <2> SUFFICES ASSUME NEW g \in Handlers, NEW ch \in Channels, Joined(g)'
               PROVE  /\ Once(channels'[ch], connectionId'[g])
                      /\ Listed(g, ch)' => ch \in SubscribedTo(g)'
                      /\ pc'[g] # "clean" => (ch \in SubscribedTo(g)' => Listed(g, ch)')
                      /\ pc'[g] = "clean" => (Listed(g, ch)' => ch \in dirty'[g])
                      /\ connections'[connectionId'[g]] # g => ~ Listed(g, ch)'
    BY DEF ListsAgree
  <2>1. /\ Once(channels[ch], connectionId[g])
        /\ Listed(g, ch) => ch \in SubscribedTo(g)
        /\ pc[g] # "clean" => (ch \in SubscribedTo(g) => Listed(g, ch))
        /\ pc[g] = "clean" => (Listed(g, ch) => ch \in dirty[g])
        /\ connections[connectionId[g]] # g => ~ Listed(g, ch)
    BY <1>1 DEF MembershipInv, ListsAgree, Joined
  <2>2. SubscribedTo(g)' = SubscribedTo(g) /\ pc'[g] = pc[g] /\ connectionId'[g] = connectionId[g]
    BY <1>1 DEF SubscribedTo, SubscriptionIds
  <2>3. Once(channels'[ch], connectionId[g])
    BY <1>6, <1>7, <2>1
  <2>4. CASE g = h
    <3>1. Listed(h, ch)' => Listed(h, ch) /\ ch # c
      BY <1>1, <1>6, <1>7 DEF Listed
    <3>2. dirty'[h] = dirty[h] \ {c}
      BY <1>1, <1>2
    <3> QED BY <1>1, <1>3, <2>1, <2>2, <2>3, <2>4, <3>1, <3>2
  <2>5. CASE g # h
    <3>1. Listed(g, ch)' <=> Listed(g, ch)
      BY <1>1, <1>4, <1>6, <1>7, <2>5 DEF Listed, Joined
    <3>2. dirty'[g] = dirty[g]
      BY <1>1, <1>2, <2>5
    <3> QED BY <1>1, <2>1, <2>2, <2>3, <3>1, <3>2
  <2> QED BY <2>4, <2>5
<1>10. KnownIds'
  BY <1>1, <1>6, <1>7 DEF MembershipInv, KnownIds
<1>11. ActiveAgrees'
  BY <1>1 DEF MembershipInv, ActiveAgrees, LoggedOut, Joined
<1> QED
  BY <1>8, <1>9, <1>10, <1>11 DEF MembershipInv

\* Every list has been cleaned, and the user entered under the id is gone.
LEMMA CloseMembers ==
  ASSUME MembershipInv, SessionInv, TypeInv, NEW h \in Handlers, Close(h)
  PROVE  MembershipInv'
<1> DEFINE i == connectionId[h]
<1>1. /\ pc[h] = "clean" /\ leaving[h] = i /\ dirty[h] = {}
      /\ connections' = [j \in Ids |-> IF j = i THEN Null ELSE connections[j]]
      /\ subscriptions' = [subscriptions EXCEPT ![h] = [s \in SubIds |-> Null]]
      /\ pc' = [pc EXCEPT ![h] = "reply"]
      /\ UNCHANGED <<channels, activeUsers, connectionId, username, dirty, counter>>
  BY DEF Close, Unregister, Answer, Goto, SessionInv, PlaceOfProtocol
<1>2. /\ pc \in [Handlers -> Step]
      /\ subscriptions \in [Handlers -> [SubIds -> Channels \cup {Null}]]
      /\ connectionId \in [Handlers -> Ids \cup {Null}]
  BY DEF TypeInv, BrokerInv, BrokerTypeOK
<1>3. Joined(h) /\ connections[i] = h
  BY <1>1, BusyIds
<1>4. \A g \in Handlers : Joined(g) /\ g # h => connectionId[g] # i /\ connectionId[g] \in Ids
  BY <1>3, JoinedIds
<1>5. i \in Ids
  BY <1>3, JoinedIds
<1>6. \A g \in Handlers \ {h} : /\ SubscriptionIds(g)' = SubscriptionIds(g)
                                /\ SubscribedTo(g)' = SubscribedTo(g)
                                /\ subscriptions'[g] = subscriptions[g]
                                /\ pc'[g] = pc[g]
  BY <1>1, <1>2 DEF SubscriptionIds, SubscribedTo
<1>7. SubscriptionIds(h)' = {} /\ SubscribedTo(h)' = {}
  BY <1>1, <1>2 DEF SubscriptionIds, SubscribedTo
<1>8. \A g \in Handlers : Joined(g)' <=> Joined(g)
  BY <1>1 DEF Joined
<1>9. SubscriptionsSane'
  BY <1>6, <1>7, <1>8 DEF MembershipInv, SubscriptionsSane
<1>10. \A ch \in Channels : ~ Listed(h, ch)
  BY <1>1, <1>3 DEF MembershipInv, ListsAgree
<1>11. ListsAgree'
  <2> SUFFICES ASSUME NEW g \in Handlers, NEW ch \in Channels, Joined(g)'
               PROVE  /\ Once(channels[ch], connectionId[g])
                      /\ Listed(g, ch)' => ch \in SubscribedTo(g)'
                      /\ pc'[g] # "clean" => (ch \in SubscribedTo(g)' => Listed(g, ch)')
                      /\ pc'[g] = "clean" => (Listed(g, ch)' => ch \in dirty[g])
                      /\ connections'[connectionId[g]] # g => ~ Listed(g, ch)'
    BY <1>1 DEF ListsAgree
  <2>1. /\ Once(channels[ch], connectionId[g])
        /\ Listed(g, ch) => ch \in SubscribedTo(g)
        /\ pc[g] # "clean" => (ch \in SubscribedTo(g) => Listed(g, ch))
        /\ pc[g] = "clean" => (Listed(g, ch) => ch \in dirty[g])
        /\ connections[connectionId[g]] # g => ~ Listed(g, ch)
    BY <1>8 DEF MembershipInv, ListsAgree
  <2>2. Listed(g, ch)' <=> Listed(g, ch)
    BY <1>1 DEF Listed
  <2>3. CASE g = h
    BY <1>7, <1>10, <2>1, <2>2, <2>3
  <2>4. CASE g # h
    <3>1. connections'[connectionId[g]] = connections[connectionId[g]]
      BY <1>1, <1>4, <1>8, <2>4
    <3> QED BY <1>6, <2>1, <2>2, <2>4, <3>1
  <2> QED BY <2>3, <2>4
<1>12. KnownIds'
  BY <1>1 DEF MembershipInv, KnownIds
<1>13. ASSUME NEW v \in Users, NEW g \in Handlers, Joined(g)', activeUsers'[v] = connectionId'[g]
       PROVE  username'[g] = v /\ ~ LoggedOut(g)'
  <2>1. Joined(g) /\ activeUsers[v] = connectionId[g]
    BY <1>1, <1>8, <1>13
  <2>2. username[g] = v /\ ~ LoggedOut(g)
    BY <2>1 DEF MembershipInv, ActiveAgrees
  <2>3. g # h
    BY <1>1, <2>2 DEF LoggedOut
  <2>4. connections'[connectionId[g]] = connections[connectionId[g]] /\ connectionId[g] \in Ids
    BY <1>1, <1>4, <2>1, <2>3
  <2> QED BY <1>1, <1>6, <2>2, <2>3, <2>4 DEF LoggedOut
<1> QED
  BY <1>9, <1>11, <1>12, <1>13 DEF MembershipInv, ActiveAgrees

\* The other steps write to sockets, or move a thread on.
LEMMA OtherMembers ==
  ASSUME MembershipInv, SessionInv, TypeInv, NEW h \in Handlers,
         \/ /\ Refuse(h) \/ Register(h) \/ Snapshot(h) \/ Visit(h) \/ EndOfSend(h) \/ Farewell(h)
            /\ UNCHANGED transport
         \/ Deliver(h) \/ SendReceipt(h) \/ Reply(h) \/ Exit(h)
         \/ \E f \in Frames : Receive(h, f)
         \/ ClientRead(h) \/ ClientDrop(h)
  PROVE  MembershipInv'
<1>1. pc \in [Handlers -> Step] /\ connected \in [Handlers -> BOOLEAN]
  BY DEF TypeInv, BrokerInv, BrokerTypeOK, TransportTypeOK
<1>2. ASSUME Refuse(h) \/ Register(h) \/ Snapshot(h) \/ Visit(h) \/ EndOfSend(h) \/ Farewell(h),
             UNCHANGED transport
      PROVE  MembershipInv'
  BY <1>1, <1>2, MembersStay
     DEF Refuse, Register, Snapshot, Visit, EndOfSend, Farewell, Handles, Answer, Goto,
         tables, transport
<1>3. ASSUME Deliver(h) PROVE MembershipInv'
  BY <1>1, <1>3, WriteLowers, MembersStay DEF Deliver, Delivered, Goto, tables
<1>4. ASSUME SendReceipt(h) PROVE MembershipInv'
  BY <1>1, <1>4, WriteLowers, MembersStay DEF SendReceipt, Receipted, Goto, tables, transport
<1>5. ASSUME Reply(h) PROVE MembershipInv'
  BY <1>1, <1>5, WriteLowers, MembersStay DEF Reply, Goto, tables, transport
<1>6. ASSUME Exit(h) PROVE MembershipInv'
  BY <1>1, <1>6, MembersStay DEF Exit, Goto, tables
<1>7. ASSUME NEW f \in Frames, Receive(h, f) PROVE MembershipInv'
  BY <1>1, <1>7, MembersStay DEF Receive, Goto, tables
<1>8. ASSUME ClientRead(h) \/ ClientDrop(h) PROVE MembershipInv'
  BY <1>8, MembersStay DEF ClientRead, ClientDrop, brokerVars, tables, locals
<1> QED
  BY <1>2, <1>3, <1>4, <1>5, <1>6, <1>7, <1>8
-----------------------------------------------------------------------------

\* The lists and the maps agree in every reachable state, if no client uses
\* a subscription id for two channels.
THEOREM TpcMembershipInvariant ==
  ASSUME OneChannelPerId
  PROVE  Safety => []MembershipInv
<1>1. Init => MembershipInv
  BY NullIsNoValue
     DEF Init, BrokerInit, MembershipInv, SubscriptionsSane, ListsAgree, KnownIds,
         ActiveAgrees, Joined, SubscriptionIds, ToSet
<1>2. SessionInv /\ TypeInv /\ MembershipInv /\ [Next]_vars => MembershipInv'
  <2> SUFFICES ASSUME SessionInv, TypeInv, MembershipInv, [Next]_vars
               PROVE  MembershipInv'
    OBVIOUS
  <2>1. ASSUME NEW h \in Handlers, Accept(h)
        PROVE  MembershipInv'
    BY <2>1, AcceptMembers
  <2>2. ASSUME NEW h \in Handlers, NEW f \in Frames, Receive(h, f)
        PROVE  MembershipInv'
    BY <2>2, OtherMembers
  <2>3. ASSUME NEW h \in Handlers, Silent(h), UNCHANGED transport
        PROVE  MembershipInv'
    BY <2>3, OtherMembers, LoginMembers, SubscribeMembers, UnsubscribeMembers,
       LogoutMembers, CleanMembers DEF Silent
  <2>4. ASSUME NEW h \in Handlers,
               Deliver(h) \/ SendReceipt(h) \/ Close(h) \/ Reply(h) \/ Exit(h)
        PROVE  MembershipInv'
    BY <2>4, OtherMembers, CloseMembers
  <2>5. ASSUME NEW h \in Handlers, ClientRead(h) \/ ClientDrop(h)
        PROVE  MembershipInv'
    BY <2>5, OtherMembers
  <2>6. CASE UNCHANGED vars
    BY <2>6, MembersStay DEF vars, brokerVars, tables, locals, transport
  <2> QED
    BY <2>1, <2>2, <2>3, <2>4, <2>5, <2>6 DEF Next, ThreadStep
<1> QED
  BY <1>1, <1>2, TpcSessionInvariant, TpcTypeInvariant, PTL DEF Safety

\* Once logoutUser has unregistered a connection, no table names its id.
THEOREM TpcLogoutClean ==
  ASSUME OneChannelPerId
  PROVE  Safety => []LogoutClean
<1>1. SessionInv /\ MembershipInv => LogoutClean
  <2> SUFFICES ASSUME SessionInv, MembershipInv, NEW h \in Handlers, NEW i \in Ids,
                      connectionId[h] = i, connections[i] = Null
               PROVE  /\ \A ch \in Channels : i \notin ToSet(channels[ch])
                      /\ \A u \in Users : activeUsers[u] # i
    BY DEF LogoutClean
  <2>1. Joined(h) /\ connections[i] # h
    BY NullIsNoValue DEF Joined
  <2>2. LoggedOut(h)
    BY <2>1 DEF LoggedOut
  <2> QED
    BY <2>1, <2>2 DEF MembershipInv, ListsAgree, ActiveAgrees, Listed
<1> QED
  BY <1>1, TpcSessionInvariant, TpcMembershipInvariant, PTL

\* The protocol's map and the lists of ConnectionsImpl agree, and nobody is
\* in a list twice.
THEOREM TpcMembership ==
  ASSUME OneChannelPerId
  PROVE  Safety => []MembershipAgrees
<1>1. SessionInv /\ TypeInv /\ MembershipInv => MembershipAgrees
  <2> SUFFICES ASSUME SessionInv, TypeInv, MembershipInv,
                      NEW h \in Handlers, NEW i \in Ids, NEW ch \in Channels,
                      connectionId[h] = i
               PROVE  LET places == {k \in DOMAIN channels[ch] : channels[ch][k] = i}
                      IN  /\ Cardinality(places) \leq 1
                          /\ places # {} => ch \in SubscribedTo(h)
                          /\ places = {} => ch \notin SubscribedTo(h) \/ pc[h] = "clean"
    BY DEF MembershipAgrees
  <2> DEFINE places == {k \in DOMAIN channels[ch] : channels[ch][k] = i}
  <2>1. Joined(h)
    BY NullIsNoValue DEF Joined
  <2>2. places # {} <=> Listed(h, ch)
    BY DEF Listed, ToSet
  <2>3. /\ Once(channels[ch], i)
        /\ Listed(h, ch) => ch \in SubscribedTo(h)
        /\ pc[h] # "clean" => (ch \in SubscribedTo(h) => Listed(h, ch))
    BY <2>1 DEF MembershipInv, ListsAgree
  <2>4. Cardinality(places) \leq 1
    <3>1. CASE places = {}
      BY <3>1, FS_EmptySet
    <3>2. CASE places # {}
      <4>1. PICK k \in places : TRUE
        BY <3>2
      <4>2. places = {k}
        BY <2>3, <4>1 DEF Once
      <4> QED BY <4>2, FS_Singleton
    <3> QED BY <3>1, <3>2
  <2> QED BY <2>2, <2>3, <2>4
<1> QED
  BY <1>1, TpcSessionInvariant, TpcTypeInvariant, TpcMembershipInvariant, PTL
==============================================================================
