---------------------------- MODULE StompClient -----------------------------
(***************************************************************************)
(* The C++ client: the keyboard thread (main) executes the user's commands *)
(* on the current StompProtocol object, and a detached thread per object   *)
(* (processServerMessages) handles what the server sends.  The two share   *)
(* the fields of the object; connectionMutex orders disconnect only.       *)
(*                                                                         *)
(* isConnected, receiptCounter and logOutid are plain fields, built        *)
(* without optimisation: a load or a store is a step, as is a write to the *)
(* socket.  subscriptions and its mutex, and eventMutex, are the keyboard  *)
(* thread's alone.  savedEvents is in module EventStore.                   *)
(*                                                                         *)
(* The server and the network are open: any frame may come, and a read or  *)
(* a write may fail.  A module that composes the client conjoins what the  *)
(* other side allows.  Commands that only print an error are no steps.     *)
(***************************************************************************)
EXTENDS Integers, Sequences, FiniteSets

CONSTANTS
  Objects,     \* StompProtocol objects, one per login
  Keyboard,    \* the keyboard thread; an object stands for its reader thread
  Channels,
  Messages,    \* what a server may send
  MaxCommands, \* bound: commands the user enters
  MaxEvents,   \* bound: events in a reported file
  Null

Threads == Objects \cup {Keyboard}

\* A message as text: its command, the other commands its text mentions, and
\* whether its date is a number that stol and stoi accept.
Message == [command   : {"CONNECTED", "RECEIPT", "ERROR", "MESSAGE"},
            mentions  : SUBSET {"CONNECTED", "RECEIPT", "ERROR"},
            receiptId : Nat \cup {Null},
            dated     : BOOLEAN]

ASSUME ClientAssumption ==
  /\ Keyboard \notin Objects
  /\ Null \notin Objects \cup {Keyboard} \cup Channels \cup Nat
  /\ Messages \subseteq Message
  /\ MaxCommands \in Nat /\ MaxEvents \in Nat

VARIABLES
  at,             \* per thread, where it is
  current,        \* main's protocol pointer
  isLogin,        \* main's flag
  commands,       \* commands entered
  events,         \* report: events still to be sent
  isConnected,    \* per object, and so on
  subscribed,     \* subscriptions: per channel, its subscription id or Null
  subscriptionCounter,
  receiptCounter,
  logOutid,
  mutex,          \* the thread that holds connectionMutex, or Null
  draft,          \* per thread, the frame it is sending, or Null
  register,       \* per thread, the loaded receiptCounter
  got,            \* per object, the message its reader handles, or Null
  wire,           \* per object, all that was written to its socket
  socket          \* per object, "new", "open" or "closed"

counters == <<subscriptionCounter, receiptCounter, logOutid, register>>
main == <<current, isLogin, commands, events, subscribed>>
vars == <<at, main, isConnected, counters, mutex, draft, got, wire, socket>>

Place == {"prompt", "lock", "flag", "number", "load", "store", "payload",
          "null", "sent", "none", "test", "get", "handle", "done", "aborted"}

\* What goes through a socket: frames, and the characters that end them.
Frame == [command : {"CONNECT", "SUBSCRIBE", "UNSUBSCRIBE", "SEND", "DISCONNECT"},
          channel : Channels \cup {Null},
          id      : Nat \cup {Null},
          receipt : Nat \cup {Null},
          by      : Threads]  \* ghost: the thread that sends it
Delimiter == [command |-> "delimiter"]

TypeOK ==
  /\ at \in [Threads -> Place]
  /\ current \in Objects \cup {Null}
  /\ isLogin \in BOOLEAN
  /\ commands \in 0..MaxCommands
  /\ events \in 0..MaxEvents
  /\ isConnected \in [Objects -> BOOLEAN]
  /\ subscribed \in [Objects -> [Channels -> Nat \cup {Null}]]
  /\ subscriptionCounter \in [Objects -> Nat]
  /\ receiptCounter \in [Objects -> Nat]
  /\ logOutid \in [Objects -> Int]
  /\ mutex \in [Objects -> Threads \cup {Null}]
  /\ draft \in [Threads -> Frame \cup {Null}]
  /\ register \in [Threads -> Nat]
  /\ got \in [Objects -> Messages \cup {Null}]
  /\ wire \in [Objects -> Seq(Frame \cup {Delimiter})]
  /\ socket \in [Objects -> {"new", "open", "closed"}]

Init ==
  /\ at = [t \in Threads |-> IF t = Keyboard THEN "prompt" ELSE "none"]
  /\ current = Null
  /\ isLogin = FALSE
  /\ commands = 0
  /\ events = 0
  /\ isConnected = [p \in Objects |-> FALSE]
  /\ subscribed = [p \in Objects |-> [c \in Channels |-> Null]]
  /\ subscriptionCounter = [p \in Objects |-> 0]
  /\ receiptCounter = [p \in Objects |-> 0]
  /\ logOutid = [p \in Objects |-> -999]
  /\ mutex = [p \in Objects |-> Null]
  /\ draft = [t \in Threads |-> Null]
  /\ register = [t \in Threads |-> 0]
  /\ got = [p \in Objects |-> Null]
  /\ wire = [p \in Objects |-> <<>>]
  /\ socket = [p \in Objects |-> "new"]

\* The object a thread works on.
Object(t) == IF t = Keyboard THEN current ELSE t

Goto(t, l) == at' = [at EXCEPT ![t] = l]

NewFrame(t, command, channel, id) ==
  [command |-> command, channel |-> channel, id |-> id, receipt |-> Null, by |-> t]

\* std::terminate: every thread stops.  The kernel closes the sockets.
Abort == at' = [t \in Threads |-> "aborted"]
-----------------------------------------------------------------------------
(* Commands.  Each tests protocol and getIsConnected first. *)

Enter ==
  /\ at[Keyboard] = "prompt"
  /\ commands < MaxCommands
  /\ commands' = commands + 1

LoggedIn == current # Null /\ isConnected[current]

\* login to a server that answers: the new object replaces the old one, which
\* nobody deletes, and connect goes on to send CONNECT.
Login(p) ==
  /\ Enter
  /\ ~ LoggedIn
  /\ socket[p] = "new"
  /\ current' = p
  /\ socket' = [socket EXCEPT ![p] = "open"]
  /\ isConnected' = [isConnected EXCEPT ![p] = TRUE]
  /\ draft' = [draft EXCEPT ![Keyboard] = NewFrame(Keyboard, "CONNECT", Null, Null)]
  /\ Goto(Keyboard, "payload")
  /\ UNCHANGED <<isLogin, events, subscribed, counters, mutex, got, wire>>

\* The server can not be reached: running is set to false, and main joins a
\* thread that was never started or is detached, which throws.  A port that
\* is no number throws as well.
LoginFails ==
  /\ Enter
  /\ ~ LoggedIn
  /\ Abort
  /\ UNCHANGED <<current, isLogin, events, subscribed, isConnected, counters,
                 mutex, draft, got, wire, socket>>

Join(c) ==
  /\ Enter
  /\ LoggedIn
  /\ LET id == subscriptionCounter[current] + 1
     IN  /\ subscriptionCounter' = [subscriptionCounter EXCEPT ![current] = id]
         /\ subscribed' = [subscribed EXCEPT ![current][c] = id]
         /\ draft' = [draft EXCEPT ![Keyboard] = NewFrame(Keyboard, "SUBSCRIBE", c, id)]
  /\ Goto(Keyboard, "number")
  /\ UNCHANGED <<current, isLogin, events, isConnected, receiptCounter, logOutid,
                 register, mutex, got, wire, socket>>

\* The command exit <channel>.
Leave(c) ==
  /\ Enter
  /\ LoggedIn
  /\ subscribed[current][c] # Null
  /\ draft' = [draft EXCEPT ![Keyboard] =
                 NewFrame(Keyboard, "UNSUBSCRIBE", Null, subscribed[current][c])]
  /\ subscribed' = [subscribed EXCEPT ![current][c] = Null]
  /\ Goto(Keyboard, "number")
  /\ UNCHANGED <<current, isLogin, events, isConnected, counters, mutex, got, wire,
                 socket>>

\* report of a file with n events for a channel subscribed to.
Report(c, n) ==
  /\ Enter
  /\ LoggedIn
  /\ subscribed[current][c] # Null
  /\ events' = n
  /\ draft' = [draft EXCEPT ![Keyboard] = NewFrame(Keyboard, "SEND", c, Null)]
  /\ Goto(Keyboard, "payload")
  /\ UNCHANGED <<current, isLogin, subscribed, isConnected, counters, mutex, got,
                 wire, socket>>

\* report of a file that parseEventsFile throws on, before anything else.
ReportThrows ==
  /\ Enter
  /\ LoggedIn
  /\ Abort
  /\ UNCHANGED <<current, isLogin, events, subscribed, isConnected, counters,
                 mutex, draft, got, wire, socket>>

Logout ==
  /\ Enter
  /\ LoggedIn
  /\ draft' = [draft EXCEPT ![Keyboard] = NewFrame(Keyboard, "DISCONNECT", Null, Null)]
  /\ Goto(Keyboard, "lock")
  /\ UNCHANGED <<current, isLogin, events, subscribed, isConnected, counters,
                 mutex, got, wire, socket>>
-----------------------------------------------------------------------------
(* disconnect and the sending of a frame, by either thread *)

Lock(t) ==
  LET p == Object(t)
  IN  /\ at[t] = "lock"
      /\ mutex[p] = Null
      /\ mutex' = [mutex EXCEPT ![p] = t]
      /\ Goto(t, "flag")
      /\ UNCHANGED <<main, isConnected, counters, draft, got, wire, socket>>

TestNothing(t) ==  \* mutant: disconnect does not look at isConnected
  LET p == Object(t)
  IN  /\ at[t] = "flag"
      /\ isConnected' = [isConnected EXCEPT ![p] = FALSE]
      /\ Goto(t, "number")
      /\ UNCHANGED <<main, counters, mutex, draft, got, wire, socket>>

\* Not connected any more: nothing to send.
TestAndClear(t) ==
  LET p == Object(t)
  IN  /\ at[t] = "flag"
      /\ isConnected' = [isConnected EXCEPT ![p] = FALSE]
      /\ Goto(t, IF isConnected[p] THEN "number" ELSE "sent")
      /\ UNCHANGED <<main, counters, mutex, draft, got, wire, socket>>

\* The receipt id, and receiptCounter++ in two steps.
Number(t) ==
  LET p == Object(t)
  IN  /\ at[t] = "number"
      /\ draft' = [draft EXCEPT ![t].receipt = receiptCounter[p]]
      /\ logOutid' = IF draft[t].command = "DISCONNECT"
                     THEN [logOutid EXCEPT ![p] = receiptCounter[p]]
                     ELSE logOutid
      /\ Goto(t, "load")
      /\ UNCHANGED <<main, isConnected, subscriptionCounter, receiptCounter,
                     register, mutex, got, wire, socket>>

Load(t) ==
  /\ at[t] = "load"
  /\ register' = [register EXCEPT ![t] = receiptCounter[Object(t)]]
  /\ Goto(t, "store")
  /\ UNCHANGED <<main, isConnected, subscriptionCounter, receiptCounter, logOutid,
                 mutex, draft, got, wire, socket>>

Store(t) ==
  /\ at[t] = "store"
  /\ receiptCounter' = [receiptCounter EXCEPT ![Object(t)] = register[t] + 1]
  /\ Goto(t, "payload")
  /\ UNCHANGED <<main, isConnected, subscriptionCounter, logOutid, register, mutex,
                 draft, got, wire, socket>>

\* sendFrameAscii: the frame, then its delimiter.
Write(t, item, l) ==
  /\ socket[Object(t)] = "open"
  /\ wire' = [wire EXCEPT ![Object(t)] = Append(@, item)]
  /\ Goto(t, l)
  /\ UNCHANGED <<main, isConnected, counters, mutex, draft, got, socket>>

Payload(t) == at[t] = "payload" /\ Write(t, draft[t], "null")

End(t) == at[t] = "null" /\ Write(t, Delimiter, "sent")

\* A write fails; only connect looks at the result, and main ends as when
\* the server can not be reached.
WriteFails(t) ==
  /\ at[t] \in {"payload", "null"}
  /\ IF draft[t].command = "CONNECT" THEN Abort ELSE Goto(t, "sent")
  /\ UNCHANGED <<main, isConnected, counters, mutex, draft, got, wire, socket>>
-----------------------------------------------------------------------------
(* What follows the sending *)

\* A reader is started unless isLogin says that there is one.
LoginDone ==
  /\ at[Keyboard] = "sent"
  /\ draft[Keyboard].command = "CONNECT"
  /\ at' = [at EXCEPT ![Keyboard] = "prompt",
                      ![current] = IF isLogin THEN @ ELSE "test"]
  /\ isLogin' = TRUE
  /\ draft' = [draft EXCEPT ![Keyboard] = Null]
  /\ UNCHANGED <<current, commands, events, subscribed, isConnected, counters,
                 mutex, got, wire, socket>>

SubscriptionDone ==
  /\ at[Keyboard] = "sent"
  /\ draft[Keyboard].command \in {"SUBSCRIBE", "UNSUBSCRIBE"}
  /\ draft' = [draft EXCEPT ![Keyboard] = Null]
  /\ Goto(Keyboard, "prompt")
  /\ UNCHANGED <<main, isConnected, counters, mutex, got, wire, socket>>

NextEvent ==
  /\ at[Keyboard] = "sent"
  /\ draft[Keyboard].command = "SEND"
  /\ events' = events - 1
  /\ IF events > 1
     THEN Goto(Keyboard, "payload") /\ UNCHANGED draft
     ELSE Goto(Keyboard, "prompt") /\ draft' = [draft EXCEPT ![Keyboard] = Null]
  /\ UNCHANGED <<current, isLogin, commands, subscribed, isConnected, counters,
                 mutex, got, wire, socket>>

\* The thread is detached, so there is nothing to join.
LogoutDone ==
  /\ at[Keyboard] = "sent"
  /\ draft[Keyboard].command = "DISCONNECT"
  /\ mutex' = [mutex EXCEPT ![current] = Null]
  /\ current' = Null
  /\ isLogin' = FALSE
  /\ draft' = [draft EXCEPT ![Keyboard] = Null]
  /\ Goto(Keyboard, "prompt")
  /\ UNCHANGED <<commands, events, subscribed, isConnected, counters, got, wire,
                 socket>>

ErrorKeepsMutex(p) ==  \* mutant: connectionMutex is locked without a guard
  /\ at[p] = "sent"
  /\ draft' = [draft EXCEPT ![p] = Null]
  /\ got' = [got EXCEPT ![p] = Null]
  /\ Goto(p, "test")
  /\ UNCHANGED <<main, isConnected, counters, mutex, wire, socket>>

ErrorDone(p) ==
  /\ at[p] = "sent"
  /\ mutex' = [mutex EXCEPT ![p] = Null]
  /\ draft' = [draft EXCEPT ![p] = Null]
  /\ got' = [got EXCEPT ![p] = Null]
  /\ Goto(p, "test")
  /\ UNCHANGED <<main, isConnected, counters, wire, socket>>
-----------------------------------------------------------------------------
(* processServerMessages *)

TestAlways(p) ==  \* mutant: the loop does not look at isConnected
  /\ at[p] = "test"
  /\ Goto(p, "get")
  /\ UNCHANGED <<main, isConnected, counters, mutex, draft, got, wire, socket>>

Test(p) ==
  /\ at[p] = "test"
  /\ Goto(p, IF isConnected[p] THEN "get" ELSE "done")
  /\ UNCHANGED <<main, isConnected, counters, mutex, draft, got, wire, socket>>

Get(p, m) ==
  /\ at[p] = "get"
  /\ got' = [got EXCEPT ![p] = m]
  /\ Goto(p, "handle")
  /\ UNCHANGED <<main, isConnected, counters, mutex, draft, wire, socket>>

\* What was read before the failure is handled all the same; if nothing was,
\* it is an unknown message.
GetFails(p, m) ==
  /\ at[p] = "get"
  /\ isConnected' = [isConnected EXCEPT ![p] = FALSE]
  /\ got' = [got EXCEPT ![p] = m]
  /\ Goto(p, IF m = Null THEN "test" ELSE "handle")
  /\ UNCHANGED <<main, counters, mutex, draft, wire, socket>>

\* Commands are looked for anywhere in the text, in this order.
Says(m, command) == m.command = command \/ command \in m.mentions

Kind(m) ==
  IF Says(m, "CONNECTED") THEN "CONNECTED"
  ELSE IF Says(m, "RECEIPT") THEN "RECEIPT"
  ELSE IF Says(m, "ERROR") THEN "ERROR"
  ELSE "MESSAGE"

\* The numbers that the text of a number begins with; an int has ten digits
\* at most.
Beginnings(n) ==
  {n \div scale : scale \in {1} \cup (1..n \cap {10^k : k \in 1..9})}

\* "receipt-id:" followed by the digits of logOutid, and perhaps by more.
Acknowledges(m, id) == m.receiptId # Null /\ id \in Beginnings(m.receiptId)

HandleOther(p) ==
  /\ at[p] = "handle"
  /\ \/ Kind(got[p]) = "CONNECTED"
     \/ Kind(got[p]) = "MESSAGE" /\ got[p].dated
     \/ Kind(got[p]) = "RECEIPT" /\ ~ Acknowledges(got[p], logOutid[p])
  /\ got' = [got EXCEPT ![p] = Null]
  /\ Goto(p, "test")
  /\ UNCHANGED <<main, isConnected, counters, mutex, draft, wire, socket>>

\* An exception in the reader thread terminates the client.
HandleThrows(p) ==
  /\ at[p] = "handle"
  /\ Kind(got[p]) = "MESSAGE"
  /\ ~ got[p].dated
  /\ Abort
  /\ UNCHANGED <<main, isConnected, counters, mutex, draft, got, wire, socket>>

HandleAnyReceipt(p) ==  \* mutant: any receipt is taken for the DISCONNECT's
  /\ at[p] = "handle"
  /\ Kind(got[p]) = "RECEIPT"
  /\ socket' = [socket EXCEPT ![p] = "closed"]
  /\ isConnected' = [isConnected EXCEPT ![p] = FALSE]
  /\ got' = [got EXCEPT ![p] = Null]
  /\ Goto(p, "test")
  /\ UNCHANGED <<main, counters, mutex, draft, wire>>

HandleReceipt(p) ==
  /\ at[p] = "handle"
  /\ Kind(got[p]) = "RECEIPT"
  /\ Acknowledges(got[p], logOutid[p])
  /\ socket' = [socket EXCEPT ![p] = "closed"]
  /\ isConnected' = [isConnected EXCEPT ![p] = FALSE]
  /\ got' = [got EXCEPT ![p] = Null]
  /\ Goto(p, "test")
  /\ UNCHANGED <<main, counters, mutex, draft, wire>>

\* disconnect; got stays until it is done.
HandleError(p) ==
  /\ at[p] = "handle"
  /\ Kind(got[p]) = "ERROR"
  /\ draft' = [draft EXCEPT ![p] = NewFrame(p, "DISCONNECT", Null, Null)]
  /\ Goto(p, "lock")
  /\ UNCHANGED <<main, isConnected, counters, mutex, got, wire, socket>>
-----------------------------------------------------------------------------
Command ==
  \/ \E p \in Objects : Login(p)
  \/ LoginFails \/ ReportThrows \/ Logout
  \/ \E c \in Channels : Join(c) \/ Leave(c) \/ \E n \in 1..MaxEvents : Report(c, n)

\* Steps of a thread inside disconnect or a sending, without its writes.
Inside(t) ==
  \/ Lock(t) \/ TestAndClear(t) \/ Number(t) \/ Load(t) \/ Store(t)

KeyboardDone == LoginDone \/ SubscriptionDone \/ NextEvent \/ LogoutDone

ReaderStep(p) ==
  \/ Inside(p) \/ Payload(p) \/ End(p) \/ WriteFails(p) \/ ErrorDone(p)
  \/ Test(p) \/ GetFails(p, Null) \/ \E m \in Messages : Get(p, m) \/ GetFails(p, m)
  \/ HandleOther(p) \/ HandleReceipt(p) \/ HandleError(p) \/ HandleThrows(p)

KeyboardStep ==
  \/ Inside(Keyboard) \/ Payload(Keyboard) \/ End(Keyboard) \/ WriteFails(Keyboard)
  \/ KeyboardDone

Next == Command \/ KeyboardStep \/ \E p \in Objects : ReaderStep(p)

(***************************************************************************)
(* Both threads run.  A reader waits in the kernel for as long as the      *)
(* server is silent, so Get has no fairness, and no user has to type.      *)
(***************************************************************************)
Fairness ==
  /\ WF_vars(KeyboardStep)
  /\ \A p \in Objects :
       /\ WF_vars(Inside(p) \/ Payload(p) \/ End(p) \/ WriteFails(p) \/ ErrorDone(p))
       /\ WF_vars(Test(p) \/ HandleOther(p) \/ HandleReceipt(p) \/ HandleError(p) \/ HandleThrows(p))

Safety == Init /\ [][Next]_vars

Spec == Safety /\ Fairness
-----------------------------------------------------------------------------
(* Properties *)

\* Where a thread holds connectionMutex.
InDisconnect(t) ==
  /\ draft[t] # Null
  /\ draft[t].command = "DISCONNECT"
  /\ at[t] \in {"flag", "number", "load", "store", "payload", "null", "sent"}

Disconnects(p) == {k \in DOMAIN wire[p] : wire[p][k].command = "DISCONNECT"}

\* The two threads can both be told to disconnect (a logout, an ERROR); the
\* server is sent at most one DISCONNECT on a connection.
DisconnectOnce == \A p \in Objects : Cardinality(Disconnects(p)) \leq 1

\* A logout by the user is the last thing the server hears on a connection.
LogoutIsLast ==
  \A p \in Objects : \A k \in Disconnects(p) :
    wire[p][k].by = Keyboard =>
      \A j \in DOMAIN wire[p] : j > k => wire[p][j] = Delimiter /\ j = k + 1

\* No thread waits for ever for connectionMutex: the user gets the prompt
\* back after every command, unless the client is terminated.
EveryCommandReturns ==
  at[Keyboard] # "prompt" ~> at[Keyboard] \in {"prompt", "aborted"}

\* "Login successful. Connected to" (StompClient.cpp:64): at the prompt, a
\* connection that is up has a thread that reads it.
LoginHasReader ==
  at[Keyboard] = "prompt" /\ LoggedIn => at[current] # "none"

\* "Generate a unique receipt ID" (StompProtocol.cpp:68): no two frames of a
\* connection ask for the same receipt.
UniqueReceipts ==
  \A p \in Objects : \A j, k \in DOMAIN wire[p] :
    LET f == wire[p][j]
        g == wire[p][k]
    IN  f # Delimiter /\ g # Delimiter /\ j # k /\ f.receipt # Null
          => f.receipt # g.receipt

\* "Send a message to the remote host" (ConnectionHandler.h:45): the frames
\* of the two threads do not run into one another.
FramesWhole ==
  \A p \in Objects : \A k \in DOMAIN wire[p] :
    k + 1 \in DOMAIN wire[p] => wire[p][k] = Delimiter \/ wire[p][k + 1] = Delimiter

\* "Handle ERROR frame" (StompProtocol.cpp:150): the reader gives a
\* connection up on an ERROR frame, not on a message that has the word in it.
OnlyErrorsDisconnect ==
  \A p \in Objects : at[p] = "lock" => got[p].command = "ERROR"

\* "Client terminated gracefully." (StompClient.cpp:193): the client is never
\* terminated.
TerminatesGracefully == at[Keyboard] # "aborted"
=============================================================================
