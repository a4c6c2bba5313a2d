---------------------------- MODULE ClientServer ----------------------------
(***************************************************************************)
(* The C++ client against the thread-per-client server: each login is a    *)
(* connection of its own, and the server's handler for it has the name of  *)
(* the client's StompProtocol object.  The bytes on their way to the       *)
(* server are what the client wrote and the server has not taken; those on *)
(* their way back are the server's outbox.                                 *)
(*                                                                         *)
(* One user has this client only, so whatever refuses a login is the       *)
(* user's own earlier session.                                             *)
(***************************************************************************)
EXTENDS StompClient

CONSTANTS Users, Passcodes, SubIds, Receipts, Ids, Empty, Capacity, MaxFrames

ASSUME ServerAssumption ==
  /\ Null \notin Objects \cup Ids \cup Users \cup Passcodes \cup Channels \cup SubIds
                \cup Receipts
  /\ Ids \subseteq Nat
  /\ Capacity \in Nat /\ MaxFrames \in Nat

VARIABLES
  connections, channels, userCredentials, activeUsers, connectionId, username,
  subscriptions, pc, frame, todo, target, leaving, dirty, reply, counter,
  connected, open, clientUp, outbox, sent,
  taken   \* per connection, how much of wire the server has read

serverVars == <<connections, channels, userCredentials, activeUsers, connectionId,
                username, subscriptions, pc, frame, todo, target, leaving, dirty,
                reply, counter, connected, open, clientUp, outbox, sent>>
clientVars == vars
allVars == <<clientVars, serverVars, taken>>

\* The header fields a frame of the client has for the server.
Headers(command, login, passcode, destination, id, receipt) ==
  [command |-> command, login |-> login, passcode |-> passcode,
   destination |-> destination, id |-> id, receipt |-> receipt]

Garbage == Headers("unknown", Null, Null, Null, Null, Null)

ClientFrames ==
  {Garbage}
  \cup {Headers("CONNECT", u, p, Null, Null, Null) : u \in Users, p \in Passcodes}
  \cup {Headers("SEND", Null, Null, c, Null, Null) : c \in Channels}
  \cup {Headers("SUBSCRIBE", Null, Null, c, s, r) : c \in Channels, s \in SubIds, r \in Receipts}
  \cup {Headers("UNSUBSCRIBE", Null, Null, Null, s, r) : s \in SubIds, r \in Receipts}
  \cup {Headers("DISCONNECT", Null, Null, Null, Null, r) : r \in Receipts}

Server == INSTANCE TpcServer WITH Handlers <- Objects, Frames <- ClientFrames

InitBoth == Init /\ Server!Init /\ taken = [p \in Objects |-> 0]
-----------------------------------------------------------------------------
(* What the server decodes *)

\* Where the next delimiter the server has not read is.
Ends(p) == {k \in DOMAIN wire[p] : k > taken[p] /\ wire[p][k] = Delimiter}

NextEnd(p) == CHOOSE k \in Ends(p) : \A j \in Ends(p) : k \leq j

\* A second frame before the delimiter is body to the first; nothing before
\* the delimiter is a frame without a command.
Decodes(p, f) ==
  /\ Ends(p) # {}
  /\ IF NextEnd(p) = taken[p] + 1
     THEN f = Garbage
     ELSE LET w == wire[p][taken[p] + 1]
          IN  /\ f.command = w.command
              /\ f.receipt = w.receipt /\ f.id = w.id /\ f.destination = w.channel

ServerReceives(p) ==
  /\ \E f \in ClientFrames : Decodes(p, f) /\ Server!Receive(p, f)
  /\ taken' = [taken EXCEPT ![p] = NextEnd(p)]
  /\ UNCHANGED clientVars

\* What the reader reads of a server frame; the text mentions no
\* command, and the dates are numbers that a client wrote.
Text(m) ==
  [command   |-> m.command,
   mentions  |-> {},
   receiptId |-> IF m.command = "RECEIPT" THEN m.receiptId ELSE Null,
   dated     |-> TRUE]

\* What was read of message m when the socket failed in the middle of it:
\* nothing that says what it is, or from its command on what there was of it;
\* of a number the first digits, of a date enough for stol or too little.
Cuts(m) ==
  {Null} \cup
    {[command |-> m.command, mentions |-> m.mentions, receiptId |-> r, dated |-> d] :
       r \in {Null} \cup (IF m.receiptId = Null THEN {} ELSE Beginnings(m.receiptId)),
       d \in IF m.command = "MESSAGE" THEN BOOLEAN ELSE {m.dated}}

\* The client's Messages are what this server sends, whole or cut.
ASSUME TextAssumption ==
  \A m \in Server!ServerFrame :
    Text(m) \in Messages /\ Cuts(Text(m)) \subseteq Messages \cup {Null}

\* The null that process returns to send nothing is no frame.
ASSUME ReplyAssumption == Null \notin Server!ServerFrame

Gone(p) == ~ open[p] \/ ~ clientUp[p]

\* What a reader has when its connection is reset.
Remains(p) ==
  IF outbox[p] = <<>> THEN {Null} ELSE Cuts(Text(Head(outbox[p])))
-----------------------------------------------------------------------------
ClientOnly == UNCHANGED <<serverVars, taken>>

Typed ==
  \/ (\E p \in Objects : Login(p) /\ Server!Accept(p)) /\ UNCHANGED taken
  \/ /\ ClientOnly
     /\ \/ LoginFails \/ ReportThrows \/ Logout
        \/ \E c \in Channels : Join(c) \/ Leave(c) \/ \E n \in 1..MaxEvents : Report(c, n)

Sends(t) ==
  \/ Payload(t) \/ End(t)
  \/ at[t] \in {"payload", "null"} /\ Gone(Object(t)) /\ WriteFails(t)

KeyboardRuns == (Inside(Keyboard) \/ Sends(Keyboard) \/ KeyboardDone) /\ ClientOnly

ReaderRuns(p) ==
  \/ /\ \/ Inside(p) \/ Sends(p) \/ ErrorDone(p) \/ Test(p)
        \/ HandleOther(p) \/ HandleError(p) \/ HandleThrows(p)
        \/ Gone(p) /\ \E m \in Remains(p) : GetFails(p, m)
     /\ ClientOnly
  \/ /\ outbox[p] # <<>>
     /\ Get(p, Text(Head(outbox[p])))
     /\ Server!ClientRead(p)
     /\ UNCHANGED taken
  \/ HandleReceipt(p) /\ Server!ClientDrop(p) /\ UNCHANGED taken

\* The kernel closes the sockets of a client that was terminated.
Killed(p) ==
  /\ at[Keyboard] = "aborted"
  /\ Server!ClientDrop(p)
  /\ UNCHANGED <<clientVars, taken>>

ServerRuns(p) ==
  \/ ServerReceives(p)
  \/ Server!ThreadStep(p) /\ UNCHANGED <<clientVars, taken>>

NextBoth ==
  \/ Typed
  \/ KeyboardRuns
  \/ \E p \in Objects : ReaderRuns(p) \/ ServerRuns(p) \/ Killed(p)

\* Every thread of the two programs runs while it can.
FairBoth ==
  /\ WF_allVars(KeyboardRuns)
  /\ \A p \in Objects : /\ WF_allVars(ReaderRuns(p))
                        /\ WF_allVars(ServerRuns(p))
                        /\ WF_allVars(Killed(p))

SafetyBoth == InitBoth /\ [][NextBoth]_allVars

SpecBoth == SafetyBoth /\ FairBoth
-----------------------------------------------------------------------------
(* Properties *)

\* Nothing is on its way between the client and the server on connection p.
Quiet(p) ==
  /\ taken[p] = Len(wire[p])
  /\ pc[p] = "read"
  /\ outbox[p] = <<>>
  /\ at[p] \in {"test", "get"}

\* When a session is quiet the client and the server agree on it: the client
\* holds a subscription id for a channel exactly if the server does, and the
\* connection is in the channel's list.
SubscriptionsAgree ==
  \A p \in Objects :
    current = p /\ at[Keyboard] = "prompt" /\ isConnected[p] /\ Quiet(p) =>
      \A c \in Channels :
        /\ subscribed[p][c] # Null <=>
             \E k \in DOMAIN channels[c] : channels[c][k] = connectionId[p]
        /\ subscribed[p][c] # Null => subscriptions[p][subscribed[p][c]] = c

\* The client closes a connection only when the server has taken and
\* answered its DISCONNECT: no receipt of another frame passes for that one.
ClosedAfterReceipt ==
  \A p \in Objects :
    socket[p] = "closed" =>
      /\ \E k \in Disconnects(p) : k < taken[p]
      /\ pc[p] \in {"logout", "clean", "reply", "read", "exited"}

\* The server has read all that came on connection p, no table names the
\* session any more, and if there was one, its end is closed.
SessionOver(p) ==
  /\ taken[p] = Len(wire[p])
  /\ pc[p] \in {"read", "exited"}
  /\ username[p] # Null => ~ open[p]
  /\ \A u \in Users : activeUsers[u] # connectionId[p]
  /\ \A c \in Channels : \A k \in DOMAIN channels[c] : channels[c][k] # connectionId[p]

\* Whom the server's thread of p writes to next, or Null.
WritesTo(p) ==
  CASE pc[p] \in {"deliver", "receipt"}      -> target[p]
    [] pc[p] = "reply" /\ reply[p] # Null -> p
    [] OTHER                               -> Null

\* That write does not return: the reader there ended before the receipt came
\* and left the socket open, full of what nobody will read.
Stuck(p) ==
  \E q \in Objects :
    WritesTo(p) = q /\ at[q] = "done" /\ socket[q] = "open" /\ Len(outbox[q]) = Capacity

\* A logout by the user ends the session at the server, in every table, at
\* whatever place the two threads and the server's are when it is written;
\* unless the client is terminated, or the server waits for one that has ended.
LogoutTakesEffect ==
  \A p \in Objects :
    (\E k \in Disconnects(p) : wire[p][k].by = Keyboard)
      ~> SessionOver(p) \/ at[Keyboard] = "aborted" \/ Stuck(p)

\* A reader thread ends after its connection was given up.
ReaderEnds ==
  \A p \in Objects :
    at[p] # "none" /\ ~ isConnected[p] ~> at[p] \in {"done", "aborted"}

\* "close the connection" (StompProtocol.cpp:144): the reader of a connection
\* that was given up leaves the socket closed.
ReaderCloses ==
  \A p \in Objects : at[p] = "done" ~> ~ clientUp[p]

\* "Already logged in. Please logout first." (StompClient.cpp:76): after a
\* logout that the server has acknowledged the user can log in; the session
\* it left is not in the way.
LoginAfterLogout ==
  \A p, q \in Objects :
    pc[p] = "login" /\ socket[q] = "closed" =>
      activeUsers[frame[p].login] # connectionId[q]
=============================================================================
