------------------------- MODULE StompClientProofs --------------------------
(***************************************************************************)
(* What the two threads of the client tell the server at the end of a      *)
(* connection: one DISCONNECT at most, and nothing behind the user's.      *)
(* Proved of Safety, for any number of objects, commands and events and    *)
(* whatever the server sends.                                              *)
(*                                                                         *)
(* The argument: isConnected is tested and cleared in one critical section *)
(* of connectionMutex and is set by the login alone, of an object that is  *)
(* new.  So a thread that found it TRUE, and is on its way to the socket   *)
(* (Pends), is alone, and nobody has written a DISCONNECT before it.       *)
(* After the keyboard thread has written its DISCONNECT it forgets the     *)
(* object, and the reader writes nothing else than a DISCONNECT.           *)
(*                                                                         *)
(* The receipt numbers need one thing more: a reader that counts has given *)
(* the connection up and reads no further, so to a reader that still reads *)
(* the keyboard thread alone has counted, and the logout came last.        *)
(***************************************************************************)
EXTENDS StompClient, FiniteSetTheorems, TLAPS

\* Where a thread has a frame to send, and where that frame will be written.
Writing == {"lock", "flag", "number", "load", "store", "payload", "null", "sent"}
Ahead == {"number", "load", "store", "payload"}

\* A thread in Writing has a frame of its own; the reader's is a DISCONNECT.
DraftsKept ==
  \A t \in Threads : at[t] \in Writing =>
    /\ draft[t] \in Frame
    /\ draft[t].by = t
    /\ t # Keyboard \/ at[t] \in {"lock", "flag"} => draft[t].command = "DISCONNECT"

\* The keyboard thread sends on the current object, and has an event to send.
KeyboardKept ==
  at[Keyboard] \in Writing =>
    /\ current \in Objects
    /\ draft[Keyboard].command = "SEND" => events \geq 1

\* Nothing is written on an object that was not logged in with.
SocketsKept ==
  /\ current # Null => socket[current] # "new"
  /\ \A p \in Objects :
       /\ at[p] \notin {"none", "aborted"} => socket[p] # "new"
       /\ socket[p] = "new" => wire[p] = <<>>

TypeInv == TypeOK /\ DraftsKept /\ KeyboardKept /\ SocketsKept

\* Thread t is about to write a DISCONNECT on p.
Pends(t, p) ==
  /\ Object(t) = p
  /\ at[t] \in Ahead
  /\ draft[t].command = "DISCONNECT"

OneDisconnect ==
  \A p \in Objects :
    /\ isConnected[p] => Disconnects(p) = {} /\ \A t \in Threads : ~ Pends(t, p)
    /\ \A t \in Threads : Pends(t, p) => Disconnects(p) = {}
    /\ \A t, u \in Threads : Pends(t, p) /\ Pends(u, p) => t = u
    /\ \A j, k \in Disconnects(p) : j = k

\* The user's DISCONNECT is the last item, or its delimiter is.
LogoutKept ==
  \A p \in Objects :
    /\ at[p] = "null" => \E k \in Disconnects(p) : wire[p][k].by = p
    /\ \A k \in Disconnects(p) : wire[p][k].by = Keyboard =>
         \/ /\ current = p
            /\ at[Keyboard] = "null"
            /\ draft[Keyboard].command = "DISCONNECT"
            /\ k = Len(wire[p])
         \/ /\ current = p =>
                 \/ at[Keyboard] = "aborted"
                 \/ at[Keyboard] = "sent" /\ draft[Keyboard].command = "DISCONNECT"
            /\ \A j \in DOMAIN wire[p] : j > k => wire[p][j] = Delimiter /\ j = k + 1

ClientInv == TypeInv /\ OneDisconnect /\ LogoutKept
-----------------------------------------------------------------------------
\* Only Null stands for no object.
LEMMA Known ==
  /\ Keyboard \in Threads
  /\ \A p \in Objects : p \in Threads /\ p # Null /\ p # Keyboard /\ Object(p) = p
  /\ Object(Keyboard) = current
BY ClientAssumption DEF Threads, Object

LEMMA NumberedFrame ==
  ASSUME NEW f \in Frame, NEW n \in Nat
  PROVE  /\ [f EXCEPT !.receipt = n] \in Frame
         /\ [f EXCEPT !.receipt = n].command = f.command
         /\ [f EXCEPT !.receipt = n].by = f.by
BY DEF Frame

\* The thread that works on an object has one.
LEMMA BusyObject ==
  ASSUME TypeInv, NEW t \in Threads, at[t] \in Writing
  PROVE  Object(t) \in Objects /\ socket[Object(t)] # "new" /\ draft[t] \in Frame
<1>1. CASE t = Keyboard
  BY <1>1, ClientAssumption DEF TypeInv, KeyboardKept, SocketsKept, DraftsKept, Object
<1>2. CASE t # Keyboard
  BY <1>2 DEF TypeInv, SocketsKept, DraftsKept, Object, Threads, Writing
<1> QED
  BY <1>1, <1>2
-----------------------------------------------------------------------------
(* The type invariant, action by action *)

\* Steps that only move one thread, not to a place with a frame to send, or
\* from one such place to another.
LEMMA TypeMoves ==
  ASSUME TypeInv, NEW t \in Threads, NEW l \in Place \ {"lock", "flag", "aborted", "none"},
         Goto(t, l), at[t] \notin {"prompt", "none", "aborted"},
         l \in Writing => at[t] \in Writing,
         UNCHANGED <<current, isLogin, commands, events, subscribed, draft>>,
         socket' \in [Objects -> {"new", "open", "closed"}],
         \A p \in Objects : socket[p] # "new" => socket'[p] # "new",
         isConnected' \in [Objects -> BOOLEAN],
         subscriptionCounter' \in [Objects -> Nat], receiptCounter' \in [Objects -> Nat],
         logOutid' \in [Objects -> Int], mutex' \in [Objects -> Threads \cup {Null}],
         register' \in [Threads -> Nat], got' \in [Objects -> Messages \cup {Null}],
         wire' \in [Objects -> Seq(Frame \cup {Delimiter})],
         \A p \in Objects : wire'[p] = wire[p] \/ socket[p] # "new"
  PROVE  TypeInv'
<1>1. TypeOK'
  BY DEF TypeInv, TypeOK, Goto
<1>2. /\ at \in [Threads -> Place] /\ at' = [at EXCEPT ![t] = l]
      /\ \A u \in Threads : at'[u] = IF u = t THEN l ELSE at[u]
  BY DEF TypeInv, TypeOK, Goto
<1>3. DraftsKept'
  BY <1>2 DEF TypeInv, DraftsKept
<1>4. KeyboardKept'
  BY <1>2, Known DEF TypeInv, KeyboardKept
<1>5. SocketsKept'
  <2>1. current' # Null => socket'[current'] # "new"
    BY DEF TypeInv, TypeOK, SocketsKept
  <2>2. ASSUME NEW p \in Objects
        PROVE  /\ at'[p] \notin {"none", "aborted"} => socket'[p] # "new"
               /\ socket'[p] = "new" => wire'[p] = <<>>
    <3>1. at'[p] \notin {"none", "aborted"} => at[p] \notin {"none", "aborted"}
      BY <1>2, Known
    <3> QED BY <3>1 DEF TypeInv, SocketsKept
  <2> QED BY <2>1, <2>2 DEF SocketsKept
<1> QED
  BY <1>1, <1>3, <1>4, <1>5 DEF TypeInv

LEMMA TypeAbort ==
  ASSUME TypeInv, Abort, commands' \in 0..MaxCommands,
         UNCHANGED <<current, isLogin, events, subscribed, isConnected, counters, mutex,
                     draft, got, wire, socket>>
  PROVE  TypeInv'
<1>1. TypeOK'
  BY DEF TypeInv, TypeOK, Abort, counters, Place
<1>2. \A t \in Threads : at'[t] = "aborted"
  BY DEF Abort
<1> QED
  BY <1>1, <1>2, Known DEF TypeInv, DraftsKept, KeyboardKept, SocketsKept, Writing

\* A command gives the keyboard thread a frame to send.
LEMMA TypeEntered ==
  ASSUME TypeInv, Enter, NEW f \in Frame, f.by = Keyboard,
         NEW l \in {"lock", "number", "payload"},
         l = "lock" => f.command = "DISCONNECT",
         f.command = "SEND" => events' \geq 1,
         draft' = [draft EXCEPT ![Keyboard] = f],
         Goto(Keyboard, l),
         current' \in Objects, events' \in 0..MaxEvents,
         subscribed' \in [Objects -> [Channels -> Nat \cup {Null}]],
         isConnected' \in [Objects -> BOOLEAN], subscriptionCounter' \in [Objects -> Nat],
         socket' \in [Objects -> {"new", "open", "closed"}],
         socket'[current'] # "new",
         \A p \in Objects : socket[p] # "new" => socket'[p] # "new",
         UNCHANGED <<isLogin, receiptCounter, logOutid, register, mutex, got, wire>>
  PROVE  TypeInv'
<1>1. TypeOK'
  <2>1. commands' \in 0..MaxCommands
    BY ClientAssumption DEF TypeInv, TypeOK, Enter
  <2>2. draft' \in [Threads -> Frame \cup {Null}] /\ at' \in [Threads -> Place]
    BY DEF TypeInv, TypeOK, Goto, Place
  <2> QED BY <2>1, <2>2 DEF TypeInv, TypeOK
<1>2. /\ \A u \in Threads : at'[u] = IF u = Keyboard THEN l ELSE at[u]
      /\ \A u \in Threads : draft'[u] = IF u = Keyboard THEN f ELSE draft[u]
  BY DEF TypeInv, TypeOK, Goto
<1>3. DraftsKept'
  BY <1>2 DEF TypeInv, DraftsKept
<1>4. KeyboardKept'
  BY <1>2, Known DEF TypeInv, KeyboardKept
<1>5. SocketsKept'
  BY <1>2, Known DEF TypeInv, SocketsKept
<1> QED
  BY <1>1, <1>3, <1>4, <1>5 DEF TypeInv

LEMMA TypeCommand ==
  ASSUME TypeInv, Command
  PROVE  TypeInv'
<1> USE DEF Writing
<1>0. commands' \in 0..MaxCommands
  BY ClientAssumption
     DEF Command, Login, LoginFails, ReportThrows, Logout, Join, Leave, Report, Enter, TypeInv, TypeOK
<1>1. ASSUME NEW p \in Objects, Login(p) PROVE TypeInv'
  <2> DEFINE f == NewFrame(Keyboard, "CONNECT", Null, Null)
  <2>1. f \in Frame /\ f.command = "CONNECT" /\ f.by = Keyboard
    BY Known DEF f, NewFrame, Frame
  <2> HIDE DEF f
  <2>2. /\ Enter /\ draft' = [draft EXCEPT ![Keyboard] = f] /\ Goto(Keyboard, "payload")
        /\ current' = p /\ socket' = [socket EXCEPT ![p] = "open"]
        /\ isConnected' = [isConnected EXCEPT ![p] = TRUE]
        /\ UNCHANGED <<isLogin, events, subscribed, counters, mutex, got, wire>>
    BY <1>1 DEF Login, f
  <2>3. /\ socket'[p] # "new" /\ events' \in 0..MaxEvents
        /\ socket' \in [Objects -> {"new", "open", "closed"}]
        /\ isConnected' \in [Objects -> BOOLEAN] /\ subscriptionCounter' \in [Objects -> Nat]
        /\ subscribed' \in [Objects -> [Channels -> Nat \cup {Null}]]
        /\ \A q \in Objects : socket[q] # "new" => socket'[q] # "new"
    BY <2>2 DEF TypeInv, TypeOK, counters
  <2> QED BY <2>1, <2>2, <2>3, TypeEntered DEF counters
<1>2. CASE LoginFails
  BY <1>0, <1>2, TypeAbort DEF LoginFails
<1>3. CASE ReportThrows
  BY <1>0, <1>3, TypeAbort DEF ReportThrows
<1>4. CASE Logout
  <2> DEFINE f == NewFrame(Keyboard, "DISCONNECT", Null, Null)
  <2>1. f \in Frame /\ f.command = "DISCONNECT" /\ f.by = Keyboard
    BY Known DEF f, NewFrame, Frame
  <2> HIDE DEF f
  <2>2. /\ Enter /\ draft' = [draft EXCEPT ![Keyboard] = f] /\ Goto(Keyboard, "lock")
        /\ current \in Objects
        /\ UNCHANGED <<current, isLogin, events, subscribed, isConnected, counters,
                       mutex, got, wire, socket>>
    BY <1>4 DEF Logout, f, LoggedIn, TypeInv, TypeOK
  <2>3. socket[current] # "new"
    BY <2>2, Known DEF TypeInv, SocketsKept
  <2> QED BY <2>1, <2>2, <2>3, TypeEntered DEF counters, TypeInv, TypeOK
<1>5. ASSUME NEW c \in Channels, Join(c) PROVE TypeInv'
  <2> DEFINE id == subscriptionCounter[current] + 1
             f == NewFrame(Keyboard, "SUBSCRIBE", c, id)
  <2>1. current \in Objects /\ id \in Nat
    BY <1>5 DEF Join, LoggedIn, TypeInv, TypeOK
  <2>2. f \in Frame /\ f.command = "SUBSCRIBE" /\ f.by = Keyboard
    BY <2>1, Known DEF f, NewFrame, Frame
  <2>3. /\ subscribed' \in [Objects -> [Channels -> Nat \cup {Null}]]
        /\ subscriptionCounter' \in [Objects -> Nat]
    BY <1>5, <2>1 DEF Join, TypeInv, TypeOK
  <2> HIDE DEF f, id
  <2>4. /\ Enter /\ draft' = [draft EXCEPT ![Keyboard] = f] /\ Goto(Keyboard, "number")
        /\ UNCHANGED <<current, isLogin, events, isConnected, receiptCounter, logOutid,
                       register, mutex, got, wire, socket>>
    BY <1>5 DEF Join, f, id
  <2>5. socket[current] # "new"
    BY <2>1, Known DEF TypeInv, SocketsKept
  <2> QED BY <2>1, <2>2, <2>3, <2>4, <2>5, TypeEntered DEF TypeInv, TypeOK
<1>6. ASSUME NEW c \in Channels, Leave(c) PROVE TypeInv'
  <2> DEFINE f == NewFrame(Keyboard, "UNSUBSCRIBE", Null, subscribed[current][c])
  <2>1. current \in Objects /\ subscribed[current][c] \in Nat \cup {Null}
    BY <1>6 DEF Leave, LoggedIn, TypeInv, TypeOK
  <2>2. f \in Frame /\ f.command = "UNSUBSCRIBE" /\ f.by = Keyboard
    BY <2>1, Known DEF f, NewFrame, Frame
  <2>3. subscribed' \in [Objects -> [Channels -> Nat \cup {Null}]]
    BY <1>6, <2>1 DEF Leave, TypeInv, TypeOK
  <2> HIDE DEF f
  <2>4. /\ Enter /\ draft' = [draft EXCEPT ![Keyboard] = f] /\ Goto(Keyboard, "number")
        /\ UNCHANGED <<current, isLogin, events, isConnected, counters, mutex, got, wire,
                       socket>>
    BY <1>6 DEF Leave, f
  <2>5. socket[current] # "new"
    BY <2>1, Known DEF TypeInv, SocketsKept
  <2> QED BY <2>1, <2>2, <2>3, <2>4, <2>5, TypeEntered DEF TypeInv, TypeOK, counters
<1>7. ASSUME NEW c \in Channels, NEW n \in 1..MaxEvents, Report(c, n) PROVE TypeInv'
  <2> DEFINE f == NewFrame(Keyboard, "SEND", c, Null)
  <2>1. f \in Frame /\ f.command = "SEND" /\ f.by = Keyboard
    BY Known DEF f, NewFrame, Frame
  <2> HIDE DEF f
  <2>2. /\ Enter /\ draft' = [draft EXCEPT ![Keyboard] = f] /\ Goto(Keyboard, "payload")
        /\ current \in Objects /\ events' = n
        /\ UNCHANGED <<current, isLogin, subscribed, isConnected, counters, mutex, got,
                       wire, socket>>
    BY <1>7 DEF Report, f, LoggedIn, TypeInv, TypeOK
  <2>3. socket[current] # "new" /\ n \in 0..MaxEvents /\ n \geq 1
    BY <2>2, Known, ClientAssumption DEF TypeInv, SocketsKept
  <2> QED BY <2>1, <2>2, <2>3, TypeEntered DEF counters, TypeInv, TypeOK
<1> QED
  BY <1>1, <1>2, <1>3, <1>4, <1>5, <1>6, <1>7 DEF Command

\* The two writes append an item to what the object's socket was sent.
LEMMA TypeWrite ==
  ASSUME TypeInv, NEW t \in Threads, NEW item \in Frame \cup {Delimiter},
         NEW l \in {"null", "sent"}, at[t] \in {"payload", "null"}, Write(t, item, l)
  PROVE  TypeInv'
<1>1. Object(t) \in Objects /\ socket[Object(t)] # "new"
  BY BusyObject DEF Writing
<1>2. /\ wire \in [Objects -> Seq(Frame \cup {Delimiter})]
      /\ wire' = [wire EXCEPT ![Object(t)] = Append(@, item)]
  BY DEF Write, TypeInv, TypeOK
<1>3. /\ wire' \in [Objects -> Seq(Frame \cup {Delimiter})]
      /\ \A p \in Objects : wire'[p] = wire[p] \/ p = Object(t)
  BY <1>1, <1>2
<1>4. /\ l \in Place \ {"lock", "flag", "aborted", "none"} /\ Goto(t, l)
      /\ at[t] \in Writing /\ at[t] \notin {"prompt", "none", "aborted"}
      /\ UNCHANGED <<main, isConnected, counters, mutex, draft, got, socket>>
  BY DEF Write, Place, Writing
<1> QED
  BY <1>1, <1>3, <1>4, TypeMoves DEF main, counters, TypeInv, TypeOK

LEMMA TypeSending ==
  ASSUME TypeInv, NEW t \in Threads,
         Inside(t) \/ Payload(t) \/ End(t) \/ WriteFails(t)
  PROVE  TypeInv'
<1>0. /\ at \in [Threads -> Place] /\ draft \in [Threads -> Frame \cup {Null}]
      /\ register \in [Threads -> Nat] /\ receiptCounter \in [Objects -> Nat]
      /\ logOutid \in [Objects -> Int] /\ mutex \in [Objects -> Threads \cup {Null}]
      /\ isConnected \in [Objects -> BOOLEAN] /\ Nat \subseteq Int
  BY DEF TypeInv, TypeOK
<1>1. CASE Lock(t)
  <2>1. Object(t) \in Objects /\ at[t] = "lock"
    BY <1>1, BusyObject DEF Lock, Writing
  <2>2. /\ Goto(t, "flag")
        /\ UNCHANGED <<main, isConnected, counters, draft, got, wire, socket>>
        /\ mutex' \in [Objects -> Threads \cup {Null}]
    BY <1>0, <1>1, <2>1 DEF Lock
  <2>3. \A u \in Threads : at'[u] = IF u = t THEN "flag" ELSE at[u]
    BY <1>0, <2>2 DEF Goto
  <2>4. TypeOK'
    BY <2>2 DEF TypeInv, TypeOK, Goto, main, counters, Place
  <2>5. UNCHANGED <<current, events, draft, socket, wire>>
    BY <2>2 DEF main
  <2>6. DraftsKept'
    BY <2>1, <2>3, <2>5 DEF TypeInv, DraftsKept, Writing
  <2>7. KeyboardKept'
    BY <2>1, <2>3, <2>5, Known DEF TypeInv, KeyboardKept, Writing
  <2>8. SocketsKept'
    BY <2>1, <2>3, <2>5, Known DEF TypeInv, SocketsKept
  <2> QED BY <2>4, <2>6, <2>7, <2>8 DEF TypeInv
<1>2. CASE TestAndClear(t)
  <2>1. PICK l \in {"number", "sent"} : Goto(t, l)
    BY <1>2 DEF TestAndClear
  <2>2. /\ at[t] = "flag"
        /\ isConnected' \in [Objects -> BOOLEAN]
        /\ UNCHANGED <<main, counters, mutex, draft, got, wire, socket>>
    BY <1>0, <1>2 DEF TestAndClear
  <2>3. l \in Place \ {"lock", "flag", "aborted", "none"} /\ at[t] \in Writing
    BY <2>2 DEF Place, Writing
  <2> QED BY <2>1, <2>2, <2>3, TypeMoves DEF main, counters, TypeInv, TypeOK
<1>3. CASE Number(t)
  <2> DEFINE f == [draft[t] EXCEPT !.receipt = receiptCounter[Object(t)]]
  <2>1. Object(t) \in Objects /\ draft[t] \in Frame /\ at[t] = "number"
    BY <1>3, BusyObject DEF Number, Writing
  <2>2. f \in Frame /\ f.command = draft[t].command /\ f.by = draft[t].by
    BY <1>0, <2>1, NumberedFrame
  <2> HIDE DEF f
  <2>3. /\ draft' = [draft EXCEPT ![t] = f]
        /\ Goto(t, "load")
        /\ logOutid' \in [Objects -> Int]
        /\ UNCHANGED <<main, isConnected, subscriptionCounter, receiptCounter,
                       register, mutex, got, wire, socket>>
    BY <1>0, <1>3, <2>1 DEF Number, f
  <2>4. /\ \A u \in Threads : at'[u] = IF u = t THEN "load" ELSE at[u]
        /\ \A u \in Threads : draft'[u] = IF u = t THEN f ELSE draft[u]
    BY <1>0, <2>3 DEF Goto
  <2>5. TypeOK'
    BY <2>2, <2>3 DEF TypeInv, TypeOK, Goto, main, Place
  <2>6. UNCHANGED <<current, events, socket, wire>>
    BY <2>3 DEF main
  <2>7. DraftsKept'
    BY <2>1, <2>2, <2>4 DEF TypeInv, DraftsKept, Writing
  <2>8. KeyboardKept'
    BY <2>1, <2>2, <2>4, <2>6, Known DEF TypeInv, KeyboardKept, Writing
  <2>9. SocketsKept'
    BY <2>1, <2>4, <2>6, Known DEF TypeInv, SocketsKept
  <2> QED BY <2>5, <2>7, <2>8, <2>9 DEF TypeInv
<1>4. CASE Load(t)
  <2>1. Object(t) \in Objects /\ at[t] = "load"
    BY <1>4, BusyObject DEF Load, Writing
  <2>2. /\ Goto(t, "store") /\ register' \in [Threads -> Nat]
        /\ UNCHANGED <<main, isConnected, subscriptionCounter, receiptCounter, logOutid,
                       mutex, draft, got, wire, socket>>
    BY <1>0, <1>4, <2>1 DEF Load
  <2>3. "store" \in Place \ {"lock", "flag", "aborted", "none"} /\ at[t] \in Writing
    BY <2>1 DEF Place, Writing
  <2> QED BY <2>1, <2>2, <2>3, TypeMoves DEF main, TypeInv, TypeOK
<1>5. CASE Store(t)
  <2>1. Object(t) \in Objects /\ at[t] = "store"
    BY <1>5, BusyObject DEF Store, Writing
  <2>2. /\ Goto(t, "payload") /\ receiptCounter' \in [Objects -> Nat]
        /\ UNCHANGED <<main, isConnected, subscriptionCounter, logOutid, register,
                       mutex, draft, got, wire, socket>>
    BY <1>0, <1>5, <2>1 DEF Store
  <2>3. "payload" \in Place \ {"lock", "flag", "aborted", "none"} /\ at[t] \in Writing
    BY <2>1 DEF Place, Writing
  <2> QED BY <2>1, <2>2, <2>3, TypeMoves DEF main, TypeInv, TypeOK
<1>6. CASE Payload(t)
  <2>1. draft[t] \in Frame
    BY <1>6, BusyObject DEF Payload, Writing
  <2> QED BY <1>6, <2>1, TypeWrite DEF Payload
<1>7. CASE End(t)
  BY <1>7, TypeWrite DEF End
<1>8. CASE WriteFails(t)
  <2>1. at[t] \in {"payload", "null"}
        /\ UNCHANGED <<main, isConnected, counters, mutex, draft, got, wire, socket>>
    BY <1>8 DEF WriteFails
  <2>2. CASE Abort
    BY <2>1, <2>2, TypeAbort DEF main, TypeInv, TypeOK
  <2>3. CASE Goto(t, "sent")
    <3>1. "sent" \in Place \ {"lock", "flag", "aborted", "none"} /\ at[t] \in Writing
      BY <2>1 DEF Place, Writing
    <3> QED BY <2>1, <2>3, <3>1, TypeMoves DEF main, counters, TypeInv, TypeOK
  <2> QED BY <1>8, <2>2, <2>3 DEF WriteFails
<1> QED
  BY <1>1, <1>2, <1>3, <1>4, <1>5, <1>6, <1>7, <1>8 DEF Inside

\* Back at the prompt the keyboard thread has nothing to send.
LEMMA TypePrompt ==
  ASSUME TypeInv, at[Keyboard] = "sent",
         NEW q \in Objects, socket[q] # "new",
         at' = [at EXCEPT ![Keyboard] = "prompt"]
         \/ at' = [at EXCEPT ![Keyboard] = "prompt", ![q] = "test"],
         draft' = [draft EXCEPT ![Keyboard] = Null],
         current' \in {current, Null}, isLogin' \in BOOLEAN, events' \in 0..MaxEvents,
         mutex' \in [Objects -> Threads \cup {Null}],
         UNCHANGED <<commands, subscribed, isConnected, counters, got, wire, socket>>
  PROVE  TypeInv'
<1>0. at \in [Threads -> Place] /\ draft \in [Threads -> Frame \cup {Null}] /\ q \in Threads
  BY DEF TypeInv, TypeOK, Threads
<1>1. TypeOK'
  BY <1>0 DEF TypeInv, TypeOK, counters, Place
<1>2. /\ at'[Keyboard] = "prompt"
      /\ \A p \in Objects : at'[p] = at[p] \/ (p = q /\ at'[p] = "test")
      /\ \A p \in Objects : draft'[p] = draft[p]
  BY <1>0, Known
<1>3. DraftsKept'
  BY <1>2 DEF TypeInv, DraftsKept, Threads, Writing
<1>4. KeyboardKept'
  BY <1>2 DEF KeyboardKept, Writing
<1>5. SocketsKept'
  BY <1>2, ClientAssumption DEF TypeInv, SocketsKept
<1> QED
  BY <1>1, <1>3, <1>4, <1>5 DEF TypeInv

LEMMA TypeDone ==
  ASSUME TypeInv, KeyboardDone
  PROVE  TypeInv'
<1>1. /\ at[Keyboard] = "sent" /\ current \in Objects /\ socket[current] # "new"
      /\ draft[Keyboard].command = "SEND" => events \geq 1
      /\ events \in 0..MaxEvents
      /\ mutex \in [Objects -> Threads \cup {Null}]
      /\ isLogin \in BOOLEAN
  BY BusyObject, Known
     DEF KeyboardDone, LoginDone, SubscriptionDone, NextEvent, LogoutDone, Writing,
         TypeInv, KeyboardKept, TypeOK
<1>2. CASE LoginDone
  <2>1. \/ at' = [at EXCEPT ![Keyboard] = "prompt"]
        \/ at' = [at EXCEPT ![Keyboard] = "prompt", ![current] = "test"]
    <3>1. at' = [at EXCEPT ![Keyboard] = "prompt",
                           ![current] = IF isLogin THEN @ ELSE "test"]
      BY <1>2 DEF LoginDone
    <3>2. CASE ~ isLogin
      BY <3>1, <3>2
    <3>3. CASE isLogin
      <4>1. at' = [at EXCEPT ![Keyboard] = "prompt"]
        BY <1>1, <3>1, <3>3, Known DEF TypeInv, TypeOK
      <4> QED BY <4>1
    <3> QED BY <3>2, <3>3
  <2>2. /\ draft' = [draft EXCEPT ![Keyboard] = Null] /\ isLogin' = TRUE
        /\ UNCHANGED <<current, commands, events, subscribed, isConnected, counters,
                       mutex, got, wire, socket>>
    BY <1>2 DEF LoginDone
  <2> QED BY <1>1, <2>1, <2>2, TypePrompt
<1>3. CASE SubscriptionDone
  <2>1. /\ draft' = [draft EXCEPT ![Keyboard] = Null] /\ Goto(Keyboard, "prompt")
        /\ UNCHANGED <<main, isConnected, counters, mutex, got, wire, socket>>
    BY <1>3 DEF SubscriptionDone
  <2> QED BY <1>1, <2>1, TypePrompt DEF Goto, main
<1>4. CASE NextEvent
  <2>0. /\ draft[Keyboard].command = "SEND" /\ events' = events - 1
        /\ events' \in 0..MaxEvents
        /\ UNCHANGED <<current, isLogin, commands, subscribed, isConnected, counters,
                       mutex, got, wire, socket>>
    BY <1>1, <1>4, ClientAssumption DEF NextEvent
  <2>1. CASE events > 1
    <3>1. Goto(Keyboard, "payload") /\ UNCHANGED draft /\ events' \geq 1
      BY <1>1, <1>4, <2>0, <2>1 DEF NextEvent
    <3>2. \A u \in Threads : at'[u] = IF u = Keyboard THEN "payload" ELSE at[u]
      BY <3>1 DEF TypeInv, TypeOK, Goto
    <3>3. TypeOK'
      BY <2>0, <3>1 DEF TypeInv, TypeOK, Goto, Place, counters
    <3>4. DraftsKept'
      BY <1>1, <3>1, <3>2, Known DEF TypeInv, DraftsKept, Writing
    <3>5. KeyboardKept'
      BY <1>1, <2>0, <3>1 DEF KeyboardKept
    <3>6. SocketsKept'
      BY <2>0, <3>2, Known DEF TypeInv, SocketsKept
    <3> QED BY <3>3, <3>4, <3>5, <3>6 DEF TypeInv
  <2>2. CASE ~ (events > 1)
    <3>1. Goto(Keyboard, "prompt") /\ draft' = [draft EXCEPT ![Keyboard] = Null]
      BY <1>4, <2>2 DEF NextEvent
    <3> QED BY <1>1, <2>0, <3>1, TypePrompt DEF Goto
  <2> QED BY <2>1, <2>2
<1>5. CASE LogoutDone
  <2>1. /\ draft' = [draft EXCEPT ![Keyboard] = Null] /\ Goto(Keyboard, "prompt")
        /\ current' = Null /\ isLogin' = FALSE
        /\ mutex' \in [Objects -> Threads \cup {Null}]
        /\ UNCHANGED <<commands, events, subscribed, isConnected, counters, got, wire, socket>>
    BY <1>1, <1>5 DEF LogoutDone
  <2> QED BY <1>1, <2>1, TypePrompt DEF Goto
<1> QED
  BY <1>2, <1>3, <1>4, <1>5 DEF KeyboardDone

LEMMA TypeReader ==
  ASSUME TypeInv, NEW p \in Objects, ReaderStep(p)
  PROVE  TypeInv'
<1>0. /\ p \in Threads /\ p # Keyboard /\ Object(p) = p
      /\ at \in [Threads -> Place] /\ draft \in [Threads -> Frame \cup {Null}]
      /\ got \in [Objects -> Messages \cup {Null}]
      /\ isConnected \in [Objects -> BOOLEAN]
      /\ mutex \in [Objects -> Threads \cup {Null}]
      /\ socket \in [Objects -> {"new", "open", "closed"}]
  BY Known DEF TypeInv, TypeOK
<1>1. CASE Inside(p) \/ Payload(p) \/ End(p) \/ WriteFails(p)
  BY <1>0, <1>1, TypeSending
<1>2. CASE Test(p)
  <2>1. PICK l \in {"get", "done"} : Goto(p, l)
    BY <1>2 DEF Test
  <2>2. /\ at[p] = "test" /\ l \in Place \ {"lock", "flag", "aborted", "none"}
        /\ l \notin Writing
        /\ UNCHANGED <<main, isConnected, counters, mutex, draft, got, wire, socket>>
    BY <1>2 DEF Test, Place, Writing
  <2> QED BY <1>0, <2>1, <2>2, TypeMoves DEF main, counters, TypeInv, TypeOK
<1>3. ASSUME NEW m \in Messages, Get(p, m) PROVE TypeInv'
  <2>1. /\ at[p] = "get" /\ Goto(p, "handle")
        /\ "handle" \in Place \ {"lock", "flag", "aborted", "none"}
        /\ "handle" \notin Writing
        /\ UNCHANGED <<main, isConnected, counters, mutex, draft, wire, socket>>
        /\ got' \in [Objects -> Messages \cup {Null}]
    BY <1>0, <1>3 DEF Get, Place, Writing
  <2> QED BY <1>0, <2>1, TypeMoves DEF main, counters, TypeInv, TypeOK
<1>4. ASSUME NEW m \in Messages \cup {Null}, GetFails(p, m) PROVE TypeInv'
  <2>1. PICK l \in {"test", "handle"} : Goto(p, l)
    BY <1>4 DEF GetFails
  <2>2. /\ at[p] = "get" /\ l \in Place \ {"lock", "flag", "aborted", "none"}
        /\ l \notin Writing
        /\ UNCHANGED <<main, counters, mutex, draft, wire, socket>>
        /\ got' \in [Objects -> Messages \cup {Null}]
        /\ isConnected' \in [Objects -> BOOLEAN]
    BY <1>0, <1>4 DEF GetFails, Place, Writing
  <2> QED BY <1>0, <2>1, <2>2, TypeMoves DEF main, counters, TypeInv, TypeOK
<1>5. CASE HandleOther(p)
  <2>1. /\ at[p] = "handle" /\ Goto(p, "test")
        /\ "test" \in Place \ {"lock", "flag", "aborted", "none"}
        /\ "test" \notin Writing
        /\ UNCHANGED <<main, isConnected, counters, mutex, draft, wire, socket>>
        /\ got' \in [Objects -> Messages \cup {Null}]
    BY <1>0, <1>5 DEF HandleOther, Place, Writing
  <2> QED BY <1>0, <2>1, TypeMoves DEF main, counters, TypeInv, TypeOK
<1>6. CASE HandleReceipt(p)
  <2>1. /\ at[p] = "handle" /\ Goto(p, "test")
        /\ "test" \in Place \ {"lock", "flag", "aborted", "none"}
        /\ "test" \notin Writing
        /\ UNCHANGED <<main, counters, mutex, draft, wire>>
        /\ got' \in [Objects -> Messages \cup {Null}]
        /\ isConnected' \in [Objects -> BOOLEAN]
        /\ socket' \in [Objects -> {"new", "open", "closed"}]
        /\ \A q \in Objects : socket[q] # "new" => socket'[q] # "new"
    BY <1>0, <1>6 DEF HandleReceipt, Place, Writing
  <2> QED BY <1>0, <2>1, TypeMoves DEF main, counters, TypeInv, TypeOK
<1>7. CASE HandleThrows(p)
  BY <1>7, TypeAbort DEF HandleThrows, main, TypeInv, TypeOK
<1>8. CASE HandleError(p)
  <2> DEFINE f == NewFrame(p, "DISCONNECT", Null, Null)
  <2>1. f \in Frame /\ f.command = "DISCONNECT" /\ f.by = p
    BY <1>0 DEF f, NewFrame, Frame
  <2> HIDE DEF f
  <2>2. /\ at[p] = "handle" /\ draft' = [draft EXCEPT ![p] = f] /\ Goto(p, "lock")
        /\ UNCHANGED <<main, isConnected, counters, mutex, got, wire, socket>>
    BY <1>8 DEF HandleError, f
  <2>3. /\ \A u \in Threads : at'[u] = IF u = p THEN "lock" ELSE at[u]
        /\ \A u \in Threads : draft'[u] = IF u = p THEN f ELSE draft[u]
    BY <1>0, <2>2 DEF Goto
  <2>4. TypeOK'
    BY <2>1, <2>2 DEF TypeInv, TypeOK, Goto, main, counters, Place
  <2>5. UNCHANGED <<current, events, socket, wire>>
    BY <2>2 DEF main
  <2>6. DraftsKept'
    BY <2>1, <2>3 DEF TypeInv, DraftsKept
  <2>7. KeyboardKept'
    BY <1>0, <2>3, <2>5, Known DEF TypeInv, KeyboardKept
  <2>8. SocketsKept'
    BY <2>2, <2>3, <2>5, Known DEF TypeInv, SocketsKept
  <2> QED BY <2>4, <2>6, <2>7, <2>8 DEF TypeInv
<1>9. CASE ErrorDone(p)
  <2>1. /\ at[p] = "sent" /\ draft' = [draft EXCEPT ![p] = Null] /\ Goto(p, "test")
        /\ mutex' \in [Objects -> Threads \cup {Null}]
        /\ got' \in [Objects -> Messages \cup {Null}]
        /\ UNCHANGED <<main, isConnected, counters, wire, socket>>
    BY <1>0, <1>9 DEF ErrorDone
  <2>3. /\ \A u \in Threads : at'[u] = IF u = p THEN "test" ELSE at[u]
        /\ \A u \in Threads : draft'[u] = IF u = p THEN Null ELSE draft[u]
    BY <1>0, <2>1 DEF Goto
  <2>4. TypeOK'
    BY <2>1 DEF TypeInv, TypeOK, Goto, main, counters, Place
  <2>5. UNCHANGED <<current, events, socket, wire>>
    BY <2>1 DEF main
  <2>6. DraftsKept'
    BY <2>3 DEF TypeInv, DraftsKept, Writing
  <2>7. KeyboardKept'
    BY <1>0, <2>3, <2>5, Known DEF TypeInv, KeyboardKept
  <2>8. SocketsKept'
    BY <2>1, <2>3, <2>5, Known DEF TypeInv, SocketsKept
  <2> QED BY <2>4, <2>6, <2>7, <2>8 DEF TypeInv
<1> QED
  BY <1>1, <1>2, <1>3, <1>4, <1>5, <1>6, <1>7, <1>8, <1>9 DEF ReaderStep

LEMMA TypeInit == Init => TypeInv
<1> SUFFICES ASSUME Init PROVE TypeInv
  OBVIOUS
<1>1. TypeOK
  <2>1. /\ at \in [Threads -> Place] /\ draft \in [Threads -> Frame \cup {Null}]
        /\ register \in [Threads -> Nat]
    BY DEF Init, Place
  <2>2. commands \in 0..MaxCommands /\ events \in 0..MaxEvents
    BY ClientAssumption DEF Init
  <2>3. /\ wire \in [Objects -> Seq(Frame \cup {Delimiter})]
        /\ socket \in [Objects -> {"new", "open", "closed"}]
        /\ subscribed \in [Objects -> [Channels -> Nat \cup {Null}]]
        /\ logOutid \in [Objects -> Int]
    BY DEF Init
  <2> QED BY <2>1, <2>2, <2>3 DEF Init, TypeOK
<1>2. at[Keyboard] = "prompt" /\ \A p \in Objects : at[p] = "none"
  BY Known DEF Init
<1>3. DraftsKept /\ KeyboardKept
  BY <1>2 DEF DraftsKept, KeyboardKept, Writing, Threads
<1>4. SocketsKept
  BY <1>2 DEF Init, SocketsKept
<1> QED
  BY <1>1, <1>3, <1>4 DEF TypeInv

LEMMA TypeNext == TypeInv /\ [Next]_vars => TypeInv'
<1> SUFFICES ASSUME TypeInv, [Next]_vars PROVE TypeInv'
  OBVIOUS
<1>1. CASE UNCHANGED vars
  BY <1>1 DEF vars, main, counters, TypeInv, TypeOK, DraftsKept, KeyboardKept, SocketsKept
<1>2. CASE KeyboardStep
  BY <1>2, TypeSending, TypeDone, Known DEF KeyboardStep
<1> QED
  BY <1>1, <1>2, TypeCommand, TypeReader DEF Next
-----------------------------------------------------------------------------
(* Who writes a DISCONNECT *)

\* Nothing is written, and nobody sets out to write a DISCONNECT.
LEMMA NobodySetsOut ==
  ASSUME OneDisconnect, UNCHANGED wire,
         \A p \in Objects : isConnected'[p] => isConnected[p],
         \A p \in Objects, t \in Threads : Pends(t, p)' => Pends(t, p)
  PROVE  OneDisconnect'
<1>1. \A p \in Objects : Disconnects(p)' = Disconnects(p)
  BY DEF Disconnects
<1> QED
  BY <1>1 DEF OneDisconnect

\* Nothing is written, and a DISCONNECT of the keyboard thread that is the
\* last item stays so, or is given up.
LEMMA NobodyWrites ==
  ASSUME TypeInv, LogoutKept, UNCHANGED wire,
         \A p \in Objects : at'[p] = "null" => at[p] = "null",
         \A p \in Objects : current' = p => current = p \/ wire[p] = <<>>,
         current' \in Objects /\ at[Keyboard] = "null" /\ draft[Keyboard].command = "DISCONNECT" =>
           \/ at'[Keyboard] = "aborted"
           \/ /\ at'[Keyboard] \in {"null", "sent"}
              /\ draft'[Keyboard].command = "DISCONNECT",
         at[Keyboard] = "aborted" => at'[Keyboard] = "aborted",
         current' \in Objects /\ at[Keyboard] = "sent" /\ draft[Keyboard].command = "DISCONNECT" =>
           \/ at'[Keyboard] = "aborted"
           \/ at'[Keyboard] = "sent" /\ draft'[Keyboard].command = "DISCONNECT"
  PROVE  LogoutKept'
<1> SUFFICES ASSUME NEW p \in Objects, NEW k \in Disconnects(p), wire[p][k].by = Keyboard
             PROVE  \/ /\ current' = p
                       /\ at'[Keyboard] = "null"
                       /\ draft'[Keyboard].command = "DISCONNECT"
                       /\ k = Len(wire[p])
                    \/ /\ current' = p =>
                            \/ at'[Keyboard] = "aborted"
                            \/ at'[Keyboard] = "sent" /\ draft'[Keyboard].command = "DISCONNECT"
                       /\ \A j \in DOMAIN wire[p] : j > k => wire[p][j] = Delimiter /\ j = k + 1
  BY DEF LogoutKept, Disconnects
<1>1. /\ Len(wire[p]) \in Nat /\ DOMAIN wire[p] = 1..Len(wire[p])
      /\ k \in DOMAIN wire[p] /\ wire[p] # <<>>
  BY DEF TypeInv, TypeOK, Disconnects
<1>2. CASE current = p /\ at[Keyboard] = "null" /\ draft[Keyboard].command = "DISCONNECT"
           /\ k = Len(wire[p])
  <2>1. \A j \in DOMAIN wire[p] : ~ (j > k)
    BY <1>1, <1>2
  <2> QED BY <1>2, <2>1
<1>3. CASE /\ current = p =>
                \/ at[Keyboard] = "aborted"
                \/ at[Keyboard] = "sent" /\ draft[Keyboard].command = "DISCONNECT"
           /\ \A j \in DOMAIN wire[p] : j > k => wire[p][j] = Delimiter /\ j = k + 1
  <2>1. ASSUME current' = p
        PROVE  \/ at'[Keyboard] = "aborted"
               \/ at'[Keyboard] = "sent" /\ draft'[Keyboard].command = "DISCONNECT"
    <3>1. current = p /\ current' \in Objects
      BY <1>1, <2>1
    <3> QED BY <1>3, <3>1
  <2> QED BY <1>3, <2>1
<1> QED
  BY <1>2, <1>3 DEF LogoutKept

\* A thread that appends an item to what its object was sent.
LEMMA Appended ==
  ASSUME TypeInv, NEW p \in Objects, NEW item \in Frame \cup {Delimiter},
         wire' = [wire EXCEPT ![p] = Append(@, item)]
  PROVE  /\ \A q \in Objects \ {p} : wire'[q] = wire[q] /\ Disconnects(q)' = Disconnects(q)
         /\ Len(wire[p]) \in Nat /\ DOMAIN wire[p] = 1..Len(wire[p])
         /\ DOMAIN wire'[p] = 1..(Len(wire[p]) + 1)
         /\ Len(wire'[p]) = Len(wire[p]) + 1
         /\ wire'[p][Len(wire[p]) + 1] = item
         /\ \A j \in DOMAIN wire[p] : wire'[p][j] = wire[p][j]
         /\ \A k \in Disconnects(p)' :
              k \in Disconnects(p) \/ (k = Len(wire[p]) + 1 /\ item.command = "DISCONNECT")
         /\ Disconnects(p) \subseteq Disconnects(p)'
         /\ item.command = "DISCONNECT" => Len(wire[p]) + 1 \in Disconnects(p)'
<1>1. wire \in [Objects -> Seq(Frame \cup {Delimiter})]
  BY DEF TypeInv, TypeOK
<1>2. \A q \in Objects \ {p} : wire'[q] = wire[q] /\ Disconnects(q)' = Disconnects(q)
  BY <1>1 DEF Disconnects
<1> DEFINE s == wire[p]
           n == Len(s)
<1>3. s \in Seq(Frame \cup {Delimiter}) /\ wire'[p] = Append(s, item)
  BY <1>1
<1> HIDE DEF s
<1>4. /\ n \in Nat /\ DOMAIN s = 1..n
      /\ DOMAIN Append(s, item) = 1..(n + 1)
      /\ Len(Append(s, item)) = n + 1
      /\ Append(s, item)[n + 1] = item
      /\ \A j \in 1..n : Append(s, item)[j] = s[j]
  BY <1>3
<1>5. \A k : k \in Disconnects(p) <=> k \in 1..n /\ s[k].command = "DISCONNECT"
  BY <1>4 DEF Disconnects, s
<1>6. \A k : k \in Disconnects(p)' <=>
               k \in 1..(n + 1) /\ Append(s, item)[k].command = "DISCONNECT"
  BY <1>3, <1>4 DEF Disconnects
<1>7. /\ \A k \in 1..(n + 1) : k \in 1..n \/ k = n + 1
      /\ \A k \in 1..n : k \in 1..(n + 1)
      /\ n + 1 \in 1..(n + 1)
  BY <1>4
<1>8. /\ \A k \in Disconnects(p)' :
           k \in Disconnects(p) \/ (k = n + 1 /\ item.command = "DISCONNECT")
      /\ Disconnects(p) \subseteq Disconnects(p)'
      /\ item.command = "DISCONNECT" => n + 1 \in Disconnects(p)'
  BY <1>4, <1>5, <1>6, <1>7
<1> QED
  BY <1>2, <1>3, <1>4, <1>8 DEF s

LEMMA WriteOnce ==
  ASSUME TypeInv, OneDisconnect, NEW t \in Threads, NEW item \in Frame \cup {Delimiter},
         item = Delimiter \/ (at[t] = "payload" /\ item = draft[t]),
         NEW l \in {"null", "sent"},
         at[t] \in {"payload", "null"}, Write(t, item, l)
  PROVE  OneDisconnect'
<1>1. PICK p \in Objects : p = Object(t)
  BY BusyObject DEF Writing
<1>2. /\ wire' = [wire EXCEPT ![p] = Append(@, item)]
      /\ at' = [at EXCEPT ![t] = l]
      /\ UNCHANGED <<current, isConnected, draft>>
  BY <1>1 DEF Write, Goto, main
<1>3. at \in [Threads -> Place]
  BY DEF TypeInv, TypeOK
<1>4. /\ \A u \in Threads, q \in Objects : Pends(u, q)' => u # t /\ Pends(u, q)
      /\ \A u \in Threads : Object(u)' = Object(u)
  BY <1>2, <1>3 DEF Pends, Object, Ahead
<1>5. item.command = "DISCONNECT" => Pends(t, p)
  BY <1>1 DEF Pends, Ahead, Delimiter
<1>6. /\ \A q \in Objects \ {p} : Disconnects(q)' = Disconnects(q)
      /\ \A k \in Disconnects(p)' :
           k \in Disconnects(p) \/ (k = Len(wire[p]) + 1 /\ item.command = "DISCONNECT")
  BY <1>1, <1>2, Appended
<1> SUFFICES ASSUME NEW q \in Objects
             PROVE  /\ isConnected[q] =>
                         Disconnects(q)' = {} /\ \A u \in Threads : ~ Pends(u, q)'
                    /\ \A u \in Threads : Pends(u, q)' => Disconnects(q)' = {}
                    /\ \A u, v \in Threads : Pends(u, q)' /\ Pends(v, q)' => u = v
                    /\ \A j, k \in Disconnects(q)' : j = k
  BY <1>2 DEF OneDisconnect
<1>7. CASE item.command = "DISCONNECT" /\ q = p
  BY <1>4, <1>5, <1>6, <1>7 DEF OneDisconnect
<1>8. CASE item.command # "DISCONNECT" \/ q # p
  <2>1. Disconnects(q)' \subseteq Disconnects(q)
    BY <1>6, <1>8
  <2> QED BY <1>4, <2>1 DEF OneDisconnect
<1> QED
  BY <1>7, <1>8

\* The keyboard thread writes nothing behind its DISCONNECT but the
\* delimiter, and the reader nothing at all.
LEMMA WriteLast ==
  ASSUME TypeInv, OneDisconnect, LogoutKept, NEW t \in Threads,
         Payload(t) \/ End(t)
  PROVE  LogoutKept'
<1>1. PICK p \in Objects : p = Object(t)
  BY BusyObject DEF Payload, End, Writing
<1>2. PICK item \in Frame \cup {Delimiter}, l \in {"null", "sent"} :
        /\ Write(t, item, l)
        /\ \/ at[t] = "payload" /\ item = draft[t] /\ l = "null"
           \/ at[t] = "null" /\ item = Delimiter /\ l = "sent"
  BY BusyObject DEF Payload, End, Writing
<1>3. /\ wire' = [wire EXCEPT ![p] = Append(@, item)]
      /\ at' = [at EXCEPT ![t] = l]
      /\ UNCHANGED <<current, draft>>
  BY <1>1, <1>2 DEF Write, Goto, main
<1>4. /\ at \in [Threads -> Place] /\ Keyboard \in Threads
      /\ \A u \in Threads : at'[u] = IF u = t THEN l ELSE at[u]
      /\ \A q \in Objects : q \in Threads /\ q # Keyboard /\ (q = t => q = p)
      /\ t # Keyboard => t = p
      /\ t = Keyboard => current = p
  BY <1>1, <1>3, Known DEF TypeInv, TypeOK, Threads, Object
<1>5. draft[t] \in Frame /\ draft[t].by = t
      /\ (t # Keyboard => draft[t].command = "DISCONNECT")
  BY <1>2 DEF TypeInv, DraftsKept, Writing
<1> DEFINE n == Len(wire[p])
<1>6. /\ \A q \in Objects \ {p} : wire'[q] = wire[q] /\ Disconnects(q)' = Disconnects(q)
      /\ n \in Nat /\ DOMAIN wire[p] = 1..n
      /\ DOMAIN wire'[p] = 1..(n + 1)
      /\ Len(wire'[p]) = n + 1
      /\ wire'[p][n + 1] = item
      /\ \A j \in DOMAIN wire[p] : wire'[p][j] = wire[p][j]
      /\ \A k \in Disconnects(p)' :
           k \in Disconnects(p) \/ (k = n + 1 /\ item.command = "DISCONNECT")
      /\ Disconnects(p) \subseteq Disconnects(p)'
      /\ item.command = "DISCONNECT" => n + 1 \in Disconnects(p)'
  BY <1>3, Appended
<1> HIDE DEF n
<1>7. \A k \in Disconnects(p) : k \in DOMAIN wire[p]
  BY DEF Disconnects
<1>8. item.command = "DISCONNECT" => Disconnects(p) = {} /\ item = draft[t] /\ at[t] = "payload"
  <2>1. item.command = "DISCONNECT" => Pends(t, p)
    BY <1>1, <1>2 DEF Pends, Ahead, Delimiter
  <2> QED BY <1>2, <2>1 DEF OneDisconnect, Delimiter
<1>9. ASSUME NEW q \in Objects, at'[q] = "null"
      PROVE  \E k \in Disconnects(q)' : wire'[q][k].by = q
  <2>1. CASE q = t
    <3>1. item = draft[t] /\ item.command = "DISCONNECT" /\ q = p /\ t = p
      BY <1>2, <1>4, <1>5, <1>9, <2>1
    <3> QED BY <1>5, <1>6, <3>1
  <2>2. CASE q # t
    <3>1. PICK k \in Disconnects(q) : wire[q][k].by = q
      BY <1>4, <1>9, <2>2 DEF LogoutKept
    <3>2. CASE q = p
      BY <1>6, <1>7, <3>1, <3>2
    <3>3. CASE q # p
      BY <1>6, <3>1, <3>3
    <3> QED BY <3>2, <3>3
  <2> QED BY <2>1, <2>2
<1>10. ASSUME NEW q \in Objects, NEW k \in Disconnects(q)', wire'[q][k].by = Keyboard
       PROVE  \/ /\ current' = q
                 /\ at'[Keyboard] = "null"
                 /\ draft'[Keyboard].command = "DISCONNECT"
                 /\ k = Len(wire'[q])
              \/ /\ current' = q =>
                      \/ at'[Keyboard] = "aborted"
                      \/ at'[Keyboard] = "sent" /\ draft'[Keyboard].command = "DISCONNECT"
                 /\ \A j \in DOMAIN wire'[q] : j > k => wire'[q][j] = Delimiter /\ j = k + 1
  <2>1. CASE q # p
    <3>1. k \in Disconnects(q) /\ wire'[q] = wire[q] /\ wire[q][k].by = Keyboard
      BY <1>6, <1>10, <2>1
    <3>2. current = q => t # Keyboard
      BY <1>4, <2>1
    <3>3. current = q => at'[Keyboard] = at[Keyboard]
      BY <1>4, <3>2
    <3>4. CASE /\ current = q
               /\ at[Keyboard] = "null"
               /\ draft[Keyboard].command = "DISCONNECT"
               /\ k = Len(wire[q])
      BY <1>3, <3>1, <3>3, <3>4
    <3>5. CASE /\ current = q =>
                    \/ at[Keyboard] = "aborted"
                    \/ at[Keyboard] = "sent" /\ draft[Keyboard].command = "DISCONNECT"
               /\ \A j \in DOMAIN wire[q] : j > k => wire[q][j] = Delimiter /\ j = k + 1
      BY <1>3, <3>1, <3>3, <3>5
    <3> QED BY <3>1, <3>4, <3>5 DEF LogoutKept
  <2>2. CASE q = p /\ item.command = "DISCONNECT"
    <3>1. k = n + 1 /\ item = draft[t]
      BY <1>6, <1>8, <2>2
    <3>2. t = Keyboard
      BY <1>5, <1>6, <1>10, <2>2, <3>1
    <3> QED BY <1>2, <1>3, <1>4, <1>6, <1>8, <2>2, <3>1, <3>2
  <2>3. CASE q = p /\ item.command # "DISCONNECT"
    <3>1. k \in Disconnects(p) /\ wire[p][k].by = Keyboard /\ k \in 1..n
      BY <1>6, <1>7, <1>10, <2>3
    <3>2. t = Keyboard
      <4>1. ASSUME t # Keyboard PROVE FALSE
        <5>1. t = p /\ at[p] = "null"
          BY <1>2, <1>4, <1>5, <2>3, <4>1
        <5>2. PICK m \in Disconnects(p) : wire[p][m].by = p
          BY <5>1 DEF LogoutKept
        <5>3. m = k
          BY <3>1, <5>2 DEF OneDisconnect
        <5> QED BY <1>4, <3>1, <5>2, <5>3
      <4> QED BY <4>1
    <3>3. current = p /\ at[Keyboard] = "null" /\ draft[Keyboard].command = "DISCONNECT"
          /\ k = n
      BY <1>2, <1>4, <3>1, <3>2 DEF LogoutKept, n
    <3>4. item = Delimiter /\ at'[Keyboard] = "sent"
      BY <1>2, <1>4, <3>2, <3>3
    <3>5. \A j \in DOMAIN wire'[p] : j > k => wire'[p][j] = Delimiter /\ j = k + 1
      BY <1>6, <3>3, <3>4
    <3> QED BY <1>3, <2>3, <3>3, <3>4, <3>5
  <2> QED BY <2>1, <2>2, <2>3
<1> QED
  BY <1>9, <1>10 DEF LogoutKept

\* A thread moves, to no place from which it sends a DISCONNECT unless it was
\* on its way there.
LEMMA Moved ==
  ASSUME TypeInv, OneDisconnect, LogoutKept, NEW t \in Threads, NEW l,
         Goto(t, l), at[t] \notin {"aborted", "null"}, l # "null",
         at[t] # "sent" \/ t # Keyboard,
         l \in Ahead => at[t] \in Ahead,
         \A p \in Objects : isConnected'[p] => isConnected[p],
         draft'[t].command = draft[t].command \/ l \notin Ahead,
         \A u \in Threads \ {t} : draft'[u] = draft[u],
         UNCHANGED <<current, wire>>
  PROVE  OneDisconnect' /\ LogoutKept'
<1>1. \A u \in Threads : at'[u] = IF u = t THEN l ELSE at[u]
  BY DEF TypeInv, TypeOK, Goto
<1>2. \A u \in Threads, p \in Objects : Pends(u, p)' => Pends(u, p)
  BY <1>1 DEF Pends, Object
<1>3. OneDisconnect'
  BY <1>2, NobodySetsOut
<1>4. \A p \in Objects : at'[p] = "null" => at[p] = "null"
  BY <1>1, Known
<1>5. at[Keyboard] \in {"null", "sent"} => at'[Keyboard] = at[Keyboard] /\ draft'[Keyboard] = draft[Keyboard]
  BY <1>1, Known
<1>6. at[Keyboard] = "aborted" => at'[Keyboard] = "aborted"
  BY <1>1, Known
<1>7. LogoutKept'
  BY <1>4, <1>5, <1>6, NobodyWrites
<1> QED
  BY <1>3, <1>7

LEMMA Aborted ==
  ASSUME TypeInv, OneDisconnect, LogoutKept, Abort,
         UNCHANGED <<current, isConnected, wire>>
  PROVE  OneDisconnect' /\ LogoutKept'
<1>1. \A t \in Threads : at'[t] = "aborted"
  BY DEF Abort
<1>2. \A u \in Threads, p \in Objects : ~ Pends(u, p)'
  BY <1>1 DEF Pends, Ahead
<1>3. OneDisconnect'
  BY <1>2, NobodySetsOut
<1>4. (\A p \in Objects : at'[p] # "null") /\ at'[Keyboard] = "aborted"
  BY <1>1, Known
<1>5. LogoutKept'
  BY <1>4, NobodyWrites
<1> QED
  BY <1>3, <1>5

\* A command on the current object, with a frame f for the keyboard thread.
LEMMA Entered ==
  ASSUME TypeInv, OneDisconnect, LogoutKept, at[Keyboard] = "prompt",
         NEW f, NEW l \in {"lock", "number", "payload"},
         l = "lock" \/ f.command # "DISCONNECT",
         draft' = [draft EXCEPT ![Keyboard] = f], Goto(Keyboard, l),
         UNCHANGED <<current, isConnected, wire>>
  PROVE  OneDisconnect' /\ LogoutKept'
<1>1. /\ \A u \in Threads : at'[u] = IF u = Keyboard THEN l ELSE at[u]
      /\ \A u \in Threads : draft'[u] = IF u = Keyboard THEN f ELSE draft[u]
  BY DEF TypeInv, TypeOK, Goto
<1>2. \A u \in Threads, p \in Objects : Pends(u, p)' => Pends(u, p)
  BY <1>1 DEF Pends, Object, Ahead
<1>3. OneDisconnect'
  BY <1>2, NobodySetsOut
<1>4. \A p \in Objects : at'[p] = "null" => at[p] = "null"
  BY <1>1, Known
<1>5. LogoutKept'
  BY <1>4, NobodyWrites
<1> QED
  BY <1>3, <1>5

\* The object of a login is new: nothing was written on it.
LEMMA LoggedInOnce ==
  ASSUME TypeInv, OneDisconnect, LogoutKept, NEW p \in Objects, Login(p)
  PROVE  OneDisconnect' /\ LogoutKept'
<1>1. /\ at[Keyboard] = "prompt" /\ socket[p] = "new" /\ current' = p
      /\ isConnected' = [isConnected EXCEPT ![p] = TRUE]
      /\ draft' = [draft EXCEPT ![Keyboard] = NewFrame(Keyboard, "CONNECT", Null, Null)]
      /\ at' = [at EXCEPT ![Keyboard] = "payload"]
      /\ UNCHANGED wire
  BY DEF Login, Enter, Goto
<1>2. wire[p] = <<>> /\ at[p] \in {"none", "aborted"}
  BY <1>1 DEF TypeInv, SocketsKept
<1>3. /\ \A u \in Threads : at'[u] = IF u = Keyboard THEN "payload" ELSE at[u]
      /\ draft'[Keyboard].command = "CONNECT"
      /\ \A u \in Threads \ {Keyboard} : draft'[u] = draft[u]
  BY <1>1, Known DEF TypeInv, TypeOK, NewFrame
<1>4. \A u \in Threads, q \in Objects : Pends(u, q)' => q # p /\ Pends(u, q)
  BY <1>1, <1>2, <1>3, Known DEF Pends, Object, Threads, Ahead
<1>5. /\ \A q \in Objects : Disconnects(q)' = Disconnects(q)
      /\ Disconnects(p) = {}
  BY <1>1, <1>2 DEF Disconnects
<1>6. \A q \in Objects \ {p} : isConnected'[q] = isConnected[q]
  BY <1>1 DEF TypeInv, TypeOK
<1>7. OneDisconnect'
  BY <1>4, <1>5, <1>6 DEF OneDisconnect
<1>8. \A q \in Objects : at'[q] = "null" => at[q] = "null"
  BY <1>3, Known
<1>9. LogoutKept'
  BY <1>1, <1>2, <1>8, NobodyWrites
<1> QED
  BY <1>7, <1>9

LEMMA CommandKeeps ==
  ASSUME TypeInv, OneDisconnect, LogoutKept, Command
  PROVE  OneDisconnect' /\ LogoutKept'
<1>1. CASE LoginFails
  BY <1>1, Aborted DEF LoginFails
<1>2. CASE ReportThrows
  BY <1>2, Aborted DEF ReportThrows
<1>3. CASE Logout
  BY <1>3, Entered DEF Logout, Enter
<1>4. ASSUME NEW c \in Channels, Join(c) PROVE OneDisconnect' /\ LogoutKept'
  <2> DEFINE f == NewFrame(Keyboard, "SUBSCRIBE", c, subscriptionCounter[current] + 1)
  <2>1. f.command = "SUBSCRIBE"
    BY DEF NewFrame
  <2>2. /\ at[Keyboard] = "prompt"
        /\ draft' = [draft EXCEPT ![Keyboard] = f] /\ Goto(Keyboard, "number")
        /\ UNCHANGED <<current, isConnected, wire>>
    BY <1>4 DEF Join, Enter
  <2> HIDE DEF f
  <2> QED BY <2>1, <2>2, Entered
<1>5. ASSUME NEW c \in Channels, Leave(c) PROVE OneDisconnect' /\ LogoutKept'
  <2> DEFINE f == NewFrame(Keyboard, "UNSUBSCRIBE", Null, subscribed[current][c])
  <2>1. f.command = "UNSUBSCRIBE"
    BY DEF NewFrame
  <2>2. /\ at[Keyboard] = "prompt"
        /\ draft' = [draft EXCEPT ![Keyboard] = f] /\ Goto(Keyboard, "number")
        /\ UNCHANGED <<current, isConnected, wire>>
    BY <1>5 DEF Leave, Enter
  <2> HIDE DEF f
  <2> QED BY <2>1, <2>2, Entered
<1>6. ASSUME NEW c \in Channels, NEW n \in 1..MaxEvents, Report(c, n)
      PROVE  OneDisconnect' /\ LogoutKept'
  <2> DEFINE f == NewFrame(Keyboard, "SEND", c, Null)
  <2>1. f.command = "SEND"
    BY DEF NewFrame
  <2>2. /\ at[Keyboard] = "prompt"
        /\ draft' = [draft EXCEPT ![Keyboard] = f] /\ Goto(Keyboard, "payload")
        /\ UNCHANGED <<current, isConnected, wire>>
    BY <1>6 DEF Report, Enter
  <2> HIDE DEF f
  <2> QED BY <2>1, <2>2, Entered
<1> QED
  BY <1>1, <1>2, <1>3, <1>4, <1>5, <1>6, LoggedInOnce DEF Command

\* The one who finds isConnected TRUE clears it, and is the only one.
LEMMA FirstWins ==
  ASSUME TypeInv, OneDisconnect, LogoutKept, NEW t \in Threads, TestAndClear(t)
  PROVE  OneDisconnect' /\ LogoutKept'
<1>1. PICK p \in Objects : p = Object(t)
  BY BusyObject DEF TestAndClear, Writing
<1>2. PICK l \in {"number", "sent"} : Goto(t, l) /\ (l = "number" => isConnected[p])
  BY <1>1 DEF TestAndClear
<1>3. /\ at[t] = "flag" /\ isConnected' = [isConnected EXCEPT ![p] = FALSE]
      /\ UNCHANGED <<current, draft, wire>>
  BY <1>1 DEF TestAndClear, main
<1>4. /\ \A u \in Threads : at'[u] = IF u = t THEN l ELSE at[u]
      /\ ~ isConnected'[p]
      /\ \A q \in Objects : isConnected'[q] => isConnected[q]
  BY <1>2, <1>3 DEF TypeInv, TypeOK, Goto
<1>5. CASE l = "sent"
  BY <1>2, <1>3, <1>4, <1>5, Moved DEF Ahead
<1>6. CASE l = "number"
  <2>1. Disconnects(p) = {} /\ \A u \in Threads : ~ Pends(u, p)
    BY <1>2, <1>6 DEF OneDisconnect
  <2>2. \A u \in Threads, q \in Objects : Pends(u, q)' => (u = t /\ q = p) \/ Pends(u, q)
    BY <1>1, <1>3, <1>4 DEF Pends, Object
  <2>3. \A q \in Objects : Disconnects(q)' = Disconnects(q)
    BY <1>3 DEF Disconnects
  <2>4. OneDisconnect'
    BY <1>4, <2>1, <2>2, <2>3 DEF OneDisconnect
  <2>5. /\ \A q \in Objects : at'[q] = "null" => at[q] = "null"
        /\ at[Keyboard] \in {"null", "sent", "aborted"} => at'[Keyboard] = at[Keyboard]
    BY <1>3, <1>4, <1>6, Known
  <2>6. LogoutKept'
    BY <1>3, <2>5, NobodyWrites
  <2> QED BY <2>4, <2>6
<1> QED
  BY <1>5, <1>6

LEMMA SendingKeeps ==
  ASSUME TypeInv, OneDisconnect, LogoutKept, NEW t \in Threads,
         Inside(t) \/ Payload(t) \/ End(t) \/ WriteFails(t)
  PROVE  OneDisconnect' /\ LogoutKept'
<1> USE DEF Ahead
<1>1. CASE Lock(t)
  BY <1>1, Moved DEF Lock, main
<1>2. CASE TestAndClear(t)
  BY <1>2, FirstWins
<1>3. CASE Number(t)
  <2>1. draft[t] \in Frame /\ at[t] = "number"
    BY <1>3, BusyObject DEF Number, Writing
  <2>2. /\ draft' = [draft EXCEPT ![t] = [draft[t] EXCEPT !.receipt = receiptCounter[Object(t)]]]
        /\ Goto(t, "load") /\ UNCHANGED <<current, isConnected, wire>>
    BY <1>3 DEF Number, main
  <2>3. /\ draft'[t].command = draft[t].command
        /\ \A u \in Threads \ {t} : draft'[u] = draft[u]
    BY <2>1, <2>2 DEF TypeInv, TypeOK, Frame
  <2> QED BY <2>1, <2>2, <2>3, Moved
<1>4. CASE Load(t)
  BY <1>4, Moved DEF Load, main
<1>5. CASE Store(t)
  BY <1>5, Moved DEF Store, main
<1>6. CASE Payload(t)
  <2>1. draft[t] \in Frame
    BY <1>6, BusyObject DEF Payload, Writing
  <2> QED BY <1>6, <2>1, WriteOnce, WriteLast DEF Payload
<1>7. CASE End(t)
  BY <1>7, WriteOnce, WriteLast DEF End
<1>8. CASE WriteFails(t)
  <2>1. /\ at[t] \in {"payload", "null"}
        /\ UNCHANGED <<current, isConnected, draft, wire>>
    BY <1>8 DEF WriteFails, main
  <2>2. CASE Abort
    BY <2>1, <2>2, Aborted
  <2>3. CASE Goto(t, "sent") /\ at[t] = "payload"
    BY <2>1, <2>3, Moved
  <2>4. CASE Goto(t, "sent") /\ at[t] = "null"
    <3>1. \A u \in Threads : at'[u] = IF u = t THEN "sent" ELSE at[u]
      BY <2>4 DEF TypeInv, TypeOK, Goto
    <3>2. \A u \in Threads, p \in Objects : Pends(u, p)' => Pends(u, p)
      BY <2>1, <3>1 DEF Pends, Object
    <3>3. OneDisconnect'
      BY <2>1, <3>2, NobodySetsOut
    <3>4. \A p \in Objects : at'[p] = "null" => at[p] = "null"
      BY <3>1, Known
    <3>5. /\ at[Keyboard] = "null" => at'[Keyboard] \in {"null", "sent"}
          /\ at[Keyboard] \in {"sent", "aborted"} => at'[Keyboard] = at[Keyboard]
      BY <2>4, <3>1, Known
    <3>6. LogoutKept'
      BY <2>1, <3>4, <3>5, NobodyWrites
    <3> QED BY <3>3, <3>6
  <2> QED BY <1>8, <2>1, <2>2, <2>3, <2>4 DEF WriteFails
<1> QED
  BY <1>1, <1>2, <1>3, <1>4, <1>5, <1>6, <1>7, <1>8 DEF Inside

LEMMA DoneKeeps ==
  ASSUME TypeInv, OneDisconnect, LogoutKept, KeyboardDone
  PROVE  OneDisconnect' /\ LogoutKept'
<1>0. at[Keyboard] = "sent"
  BY DEF KeyboardDone, LoginDone, SubscriptionDone, NextEvent, LogoutDone
<1>1. /\ UNCHANGED <<isConnected, wire>>
      /\ at'[Keyboard] \in {"prompt", "payload"}
      /\ at'[Keyboard] = "payload" => draft'[Keyboard].command = "SEND"
      /\ \A p \in Objects : at'[p] \in {at[p], "test"} /\ draft'[p] = draft[p]
      /\ current' = Null \/ (current' = current /\ draft[Keyboard].command # "DISCONNECT")
  <2>1. CASE LoginDone
    <3>1. /\ at' = [at EXCEPT ![Keyboard] = "prompt",
                              ![current] = IF isLogin THEN @ ELSE "test"]
          /\ draft' = [draft EXCEPT ![Keyboard] = Null]
          /\ draft[Keyboard].command = "CONNECT"
          /\ UNCHANGED <<current, isConnected, wire>>
      BY <2>1 DEF LoginDone
    <3>2. current \in Objects
      BY <1>0 DEF TypeInv, KeyboardKept, Writing
    <3> QED BY <3>1, <3>2, Known DEF TypeInv, TypeOK
  <2>2. CASE SubscriptionDone
    BY <2>2, Known DEF SubscriptionDone, Goto, main, TypeInv, TypeOK
  <2>3. CASE NextEvent
    BY <2>3, Known DEF NextEvent, Goto, TypeInv, TypeOK
  <2>4. CASE LogoutDone
    BY <2>4, Known DEF LogoutDone, Goto, TypeInv, TypeOK
  <2> QED BY <2>1, <2>2, <2>3, <2>4 DEF KeyboardDone
<1>2. \A u \in Threads, p \in Objects : Pends(u, p)' => Pends(u, p)
  BY <1>1 DEF Pends, Object, Threads, Ahead
<1>3. OneDisconnect'
  BY <1>1, <1>2, NobodySetsOut
<1>4. \A p \in Objects : at'[p] = "null" => at[p] = "null"
  BY <1>1
<1>5. LogoutKept'
  BY <1>0, <1>1, <1>4, NobodyWrites, Known
<1> QED
  BY <1>3, <1>5

LEMMA ReaderKeeps ==
  ASSUME TypeInv, OneDisconnect, LogoutKept, NEW p \in Objects, ReaderStep(p)
  PROVE  OneDisconnect' /\ LogoutKept'
<1> USE Known DEF Ahead
<1>0. /\ draft \in [Threads -> Frame \cup {Null}]
      /\ isConnected \in [Objects -> BOOLEAN]
  BY DEF TypeInv, TypeOK
<1>1. CASE Inside(p) \/ Payload(p) \/ End(p) \/ WriteFails(p)
  BY <1>1, SendingKeeps
<1>2. CASE Test(p)
  <2>1. PICK l \in {"get", "done"} : Goto(p, l)
    BY <1>2 DEF Test
  <2> QED BY <1>2, <2>1, Moved DEF Test, main
<1>3. ASSUME NEW m \in Messages, Get(p, m) PROVE OneDisconnect' /\ LogoutKept'
  BY <1>3, Moved DEF Get, main
<1>4. ASSUME NEW m \in Messages \cup {Null}, GetFails(p, m)
      PROVE  OneDisconnect' /\ LogoutKept'
  <2>1. PICK l \in {"test", "handle"} : Goto(p, l)
    BY <1>4 DEF GetFails
  <2>2. \A q \in Objects : isConnected'[q] => isConnected[q]
    BY <1>0, <1>4 DEF GetFails
  <2> QED BY <1>4, <2>1, <2>2, Moved DEF GetFails, main
<1>5. CASE HandleOther(p)
  BY <1>5, Moved DEF HandleOther, main
<1>6. CASE HandleReceipt(p)
  <2>1. \A q \in Objects : isConnected'[q] => isConnected[q]
    BY <1>0, <1>6 DEF HandleReceipt
  <2> QED BY <1>6, <2>1, Moved DEF HandleReceipt, main
<1>7. CASE HandleThrows(p)
  BY <1>7, Aborted DEF HandleThrows, main
<1>8. CASE HandleError(p)
  <2>1. \A u \in Threads \ {p} : draft'[u] = draft[u]
    BY <1>0, <1>8 DEF HandleError
  <2> QED BY <1>8, <2>1, Moved DEF HandleError, main
<1>9. CASE ErrorDone(p)
  <2>1. \A u \in Threads \ {p} : draft'[u] = draft[u]
    BY <1>0, <1>9 DEF ErrorDone
  <2> QED BY <1>9, <2>1, Moved DEF ErrorDone, main
<1> QED
  BY <1>1, <1>2, <1>3, <1>4, <1>5, <1>6, <1>7, <1>8, <1>9 DEF ReaderStep
-----------------------------------------------------------------------------
\* The inductive invariant: threads, frames and sockets fit together, one
\* thread at a time is on its way to write the one DISCONNECT of an object,
\* and the user's is the last thing written.
THEOREM ClientInvariant == Safety => []ClientInv
<1>1. Init => ClientInv
  <2> SUFFICES ASSUME Init PROVE ClientInv
    OBVIOUS
  <2>1. /\ \A p \in Objects : wire[p] = <<>> /\ at[p] = "none"
        /\ at[Keyboard] = "prompt"
    BY Known DEF Init
  <2>2. \A p \in Objects : Disconnects(p) = {}
    BY <2>1 DEF Disconnects
  <2>3. \A t \in Threads, p \in Objects : ~ Pends(t, p)
    BY <2>1 DEF Pends, Threads, Ahead
  <2> QED BY <2>1, <2>2, <2>3, TypeInit DEF ClientInv, OneDisconnect, LogoutKept
<1>2. ClientInv /\ [Next]_vars => ClientInv'
  <2> SUFFICES ASSUME ClientInv, [Next]_vars PROVE ClientInv'
    OBVIOUS
  <2>1. TypeInv'
    BY TypeNext DEF ClientInv
  <2>2. OneDisconnect' /\ LogoutKept'
    <3>1. CASE UNCHANGED vars
      <4>1. \A t \in Threads, p \in Objects : Pends(t, p)' => Pends(t, p)
        BY <3>1 DEF vars, main, Pends, Object
      <4>2. UNCHANGED <<at, wire, isConnected, draft, current>>
        BY <3>1 DEF vars, main
      <4>3. OneDisconnect'
        BY <4>1, <4>2, NobodySetsOut DEF ClientInv
      <4>4. LogoutKept'
        BY <4>2 DEF ClientInv, LogoutKept, Disconnects
      <4> QED BY <4>3, <4>4
    <3>2. CASE KeyboardStep
      BY <3>2, SendingKeeps, DoneKeeps, Known DEF KeyboardStep, ClientInv
    <3> QED BY <3>1, <3>2, CommandKeeps, ReaderKeeps DEF Next, ClientInv
  <2> QED BY <2>1, <2>2 DEF ClientInv
<1> QED
  BY <1>1, <1>2, PTL DEF Safety

\* StompProtocol::disconnect, called by both threads: the server is sent one
\* DISCONNECT at most on a connection.
THEOREM ClientDisconnectOnce == Safety => []DisconnectOnce
<1>1. ClientInv => DisconnectOnce
  <2> SUFFICES ASSUME ClientInv, NEW p \in Objects
               PROVE  Cardinality(Disconnects(p)) \leq 1
    BY DEF DisconnectOnce
  <2>1. CASE Disconnects(p) = {}
    BY <2>1, FS_EmptySet
  <2>2. CASE Disconnects(p) # {}
    <3>1. PICK k \in Disconnects(p) : TRUE
      BY <2>2
    <3>2. Disconnects(p) = {k}
      BY <3>1 DEF ClientInv, OneDisconnect
    <3>3. Cardinality({k}) = 1
      BY FS_Singleton
    <3> QED BY <3>2, <3>3
  <2> QED BY <2>1, <2>2
<1> QED
  BY <1>1, ClientInvariant, PTL

\* The command logout: what the server hears last on the connection is the
\* user's DISCONNECT.
THEOREM ClientLogoutIsLast == Safety => []LogoutIsLast
<1>1. ClientInv => LogoutIsLast
  <2> SUFFICES ASSUME ClientInv, NEW p \in Objects, NEW k \in Disconnects(p),
                      wire[p][k].by = Keyboard,
                      NEW j \in DOMAIN wire[p], j > k
               PROVE  wire[p][j] = Delimiter /\ j = k + 1
    BY DEF LogoutIsLast
  <2>1. /\ DOMAIN wire[p] = 1..Len(wire[p]) /\ Len(wire[p]) \in Nat
        /\ k \in DOMAIN wire[p]
    BY DEF ClientInv, TypeInv, TypeOK, Disconnects
  <2>2. k # Len(wire[p])
    BY <2>1
  <2> QED BY <2>2 DEF ClientInv, LogoutKept
<1> QED
  BY <1>1, ClientInvariant, PTL

\* The fields and the threads keep their types.
THEOREM ClientTypeOK == Safety => []TypeOK
<1>1. ClientInv => TypeOK
  BY DEF ClientInv, TypeInv
<1> QED
  BY <1>1, ClientInvariant, PTL
-----------------------------------------------------------------------------
(* connectionMutex *)

\* Thread t is inside disconnect.
Holds(t) ==
  /\ at[t] \in {"flag", "number", "load", "store", "payload", "null", "sent"}
  /\ draft[t].command = "DISCONNECT"

MutexKept == \A t \in Threads : Holds(t) => mutex[Object(t)] = t

\* Nobody locks, unlocks or enters.
LEMMA SameHolders ==
  ASSUME MutexKept, UNCHANGED mutex,
         \A t \in Threads : Holds(t)' => Holds(t) /\ Object(t)' = Object(t)
  PROVE  MutexKept'
BY DEF MutexKept

\* A thread that is not inside goes where nobody is, or one inside moves on.
LEMMA MovedHolder ==
  ASSUME TypeInv, MutexKept, NEW t \in Threads, NEW l, Goto(t, l),
         \/ l \in {"lock", "test", "get", "handle", "done", "prompt"}
         \/ /\ at[t] \in {"flag", "number", "load", "store", "payload", "null", "sent"}
            /\ draft'[t].command = draft[t].command
         \/ draft'[t].command # "DISCONNECT",
         \A u \in Threads \ {t} : draft'[u] = draft[u],
         UNCHANGED mutex,
         UNCHANGED current \/ at[Keyboard] = "prompt"
  PROVE  MutexKept'
<1>1. \A u \in Threads : at'[u] = IF u = t THEN l ELSE at[u]
  BY DEF TypeInv, TypeOK, Goto
<1>2. \A u \in Threads : Holds(u)' => Holds(u)
  BY <1>1 DEF Holds
<1>3. \A u \in Threads : Holds(u) => Object(u)' = Object(u)
  BY DEF Holds, Object
<1> QED
  BY <1>2, <1>3, SameHolders

LEMMA AbortedHolders ==
  ASSUME MutexKept, Abort, UNCHANGED mutex
  PROVE  MutexKept'
<1>1. \A u \in Threads : at'[u] = "aborted"
  BY DEF Abort
<1> QED
  BY <1>1, SameHolders DEF Holds

LEMMA CommandMutex ==
  ASSUME TypeInv, MutexKept, Command
  PROVE  MutexKept'
<1>0. /\ Keyboard \in Threads
      /\ \A f : draft' = [draft EXCEPT ![Keyboard] = f] =>
           /\ draft'[Keyboard] = f
           /\ \A u \in Threads \ {Keyboard} : draft'[u] = draft[u]
  BY Known DEF TypeInv, TypeOK
<1>1. ASSUME NEW p \in Objects, Login(p) PROVE MutexKept'
  BY <1>0, <1>1, MovedHolder DEF Login, Enter, NewFrame
<1>2. CASE LoginFails \/ ReportThrows
  BY <1>2, AbortedHolders DEF LoginFails, ReportThrows
<1>3. CASE Logout
  BY <1>0, <1>3, MovedHolder DEF Logout
<1>4. ASSUME NEW f, f.command # "DISCONNECT", NEW l, Goto(Keyboard, l),
             draft' = [draft EXCEPT ![Keyboard] = f], UNCHANGED <<current, mutex>>
      PROVE  MutexKept'
  BY <1>0, <1>4, MovedHolder
<1>5. ASSUME NEW c \in Channels, Join(c) PROVE MutexKept'
  <2>1. NewFrame(Keyboard, "SUBSCRIBE", c, subscriptionCounter[current] + 1).command
          # "DISCONNECT"
    BY DEF NewFrame
  <2> QED BY <1>4, <1>5, <2>1 DEF Join
<1>6. ASSUME NEW c \in Channels, Leave(c) PROVE MutexKept'
  <2>1. NewFrame(Keyboard, "UNSUBSCRIBE", Null, subscribed[current][c]).command
          # "DISCONNECT"
    BY DEF NewFrame
  <2> QED BY <1>4, <1>6, <2>1 DEF Leave
<1>7. ASSUME NEW c \in Channels, NEW n \in 1..MaxEvents, Report(c, n) PROVE MutexKept'
  <2>1. NewFrame(Keyboard, "SEND", c, Null).command # "DISCONNECT"
    BY DEF NewFrame
  <2> QED BY <1>4, <1>7, <2>1 DEF Report
<1> QED
  BY <1>1, <1>2, <1>3, <1>5, <1>6, <1>7 DEF Command

LEMMA SendingMutex ==
  ASSUME TypeInv, MutexKept, NEW t \in Threads,
         Inside(t) \/ Payload(t) \/ End(t) \/ WriteFails(t)
  PROVE  MutexKept'
<1>1. CASE Lock(t)
  <2>1. PICK p \in Objects : p = Object(t)
    BY <1>1, BusyObject DEF Lock, Writing
  <2>2. /\ at[t] = "lock" /\ mutex[p] = Null /\ mutex' = [mutex EXCEPT ![p] = t]
        /\ at' = [at EXCEPT ![t] = "flag"]
        /\ UNCHANGED <<current, draft>>
    BY <1>1, <2>1 DEF Lock, Goto, main
  <2>3. /\ \A u \in Threads : at'[u] = IF u = t THEN "flag" ELSE at[u]
        /\ \A q \in Objects : mutex'[q] = IF q = p THEN t ELSE mutex[q]
    BY <2>2 DEF TypeInv, TypeOK
  <2>4. ASSUME NEW u \in Threads \ {t}, Holds(u)'
        PROVE  mutex'[Object(u)'] = u
    <3>1. Holds(u) /\ Object(u)' = Object(u)
      BY <2>2, <2>3, <2>4 DEF Holds, Object
    <3>2. Object(u) \in Objects
      BY <3>1, BusyObject DEF Holds, Writing
    <3>3. mutex[Object(u)] = u /\ u # Null
      BY <3>1, ClientAssumption DEF MutexKept, Threads
    <3> QED BY <2>2, <2>3, <3>1, <3>2, <3>3
  <2>5. Object(t)' = p /\ mutex'[p] = t
    BY <2>1, <2>2, <2>3 DEF Object
  <2> QED BY <2>4, <2>5 DEF MutexKept
<1>2. CASE Number(t)
  <2>1. draft[t] \in Frame
    BY <1>2, BusyObject DEF Number, Writing
  <2>2. /\ draft'[t].command = draft[t].command
        /\ \A u \in Threads \ {t} : draft'[u] = draft[u]
    BY <1>2, <2>1 DEF Number, TypeInv, TypeOK, Frame
  <2> QED BY <1>2, <2>2, MovedHolder DEF Number, main
<1>3. CASE WriteFails(t)
  BY <1>3, MovedHolder, AbortedHolders DEF WriteFails, main
<1>4. CASE TestAndClear(t)
  <2>1. PICK l \in {"number", "sent"} : Goto(t, l)
    BY <1>4 DEF TestAndClear
  <2> QED BY <1>4, <2>1, MovedHolder DEF TestAndClear, main
<1>5. CASE Load(t) \/ Store(t)
  BY <1>5, MovedHolder DEF Load, Store, main
<1>6. CASE Payload(t) \/ End(t)
  BY <1>6, MovedHolder DEF Payload, End, Write, main
<1> QED
  BY <1>1, <1>2, <1>3, <1>4, <1>5, <1>6 DEF Inside

\* A thread leaves disconnect and unlocks.
LEMMA Unlocked ==
  ASSUME TypeInv, MutexKept, NEW t \in Threads, Holds(t), NEW l \in {"prompt", "test"},
         Goto(t, l), NEW p \in Objects, p = Object(t),
         mutex' = [mutex EXCEPT ![p] = Null],
         \A u \in Threads \ {t} : draft'[u] = draft[u],
         \A u \in Threads \ {t} : Object(u)' = Object(u)
  PROVE  MutexKept'
<1>1. /\ \A u \in Threads : at'[u] = IF u = t THEN l ELSE at[u]
      /\ \A q \in Objects \ {p} : mutex'[q] = mutex[q]
  BY DEF TypeInv, TypeOK, Goto
<1>2. ASSUME NEW u \in Threads, Holds(u)' PROVE mutex'[Object(u)'] = u
  <2>1. u # t /\ Holds(u) /\ Object(u)' = Object(u)
    BY <1>1, <1>2 DEF Holds
  <2>2. Object(u) \in Objects
    BY <2>1, BusyObject DEF Holds, Writing
  <2>3. mutex[Object(u)] = u /\ mutex[p] = t
    BY <2>1 DEF MutexKept
  <2> QED BY <1>1, <2>1, <2>2, <2>3
<1> QED
  BY <1>2 DEF MutexKept

LEMMA DoneMutex ==
  ASSUME TypeInv, MutexKept, KeyboardDone
  PROVE  MutexKept'
<1>0. /\ at[Keyboard] = "sent" /\ current \in Objects
      /\ at \in [Threads -> Place] /\ draft \in [Threads -> Frame \cup {Null}]
  BY DEF KeyboardDone, LoginDone, SubscriptionDone, NextEvent, LogoutDone,
         TypeInv, TypeOK, KeyboardKept, Writing
<1>1. CASE LoginDone
  <2>1. /\ at' = [at EXCEPT ![Keyboard] = "prompt",
                            ![current] = IF isLogin THEN @ ELSE "test"]
        /\ draft' = [draft EXCEPT ![Keyboard] = Null]
        /\ UNCHANGED <<current, mutex>>
    BY <1>1 DEF LoginDone
  <2>2. /\ at'[Keyboard] = "prompt"
        /\ \A p \in Objects : at'[p] \in {at[p], "test"} /\ draft'[p] = draft[p]
    BY <1>0, <2>1, Known
  <2> QED BY <2>1, <2>2, SameHolders DEF Holds, Object, Threads
<1>2. CASE SubscriptionDone
  BY <1>0, <1>2, MovedHolder, Known DEF SubscriptionDone, main
<1>3. CASE NextEvent
  BY <1>0, <1>3, MovedHolder, Known DEF NextEvent
<1>4. CASE LogoutDone
  <2>1. /\ Holds(Keyboard)
        /\ \A u \in Threads \ {Keyboard} : draft'[u] = draft[u] /\ Object(u)' = Object(u)
    BY <1>0, <1>4 DEF LogoutDone, Holds, Object
  <2> QED BY <1>0, <1>4, <2>1, Unlocked, Known DEF LogoutDone
<1> QED
  BY <1>1, <1>2, <1>3, <1>4 DEF KeyboardDone

LEMMA ReaderMutex ==
  ASSUME TypeInv, MutexKept, NEW p \in Objects, ReaderStep(p)
  PROVE  MutexKept'
<1> USE Known
<1>0. draft \in [Threads -> Frame \cup {Null}]
  BY DEF TypeInv, TypeOK
<1>1. CASE Inside(p) \/ Payload(p) \/ End(p) \/ WriteFails(p)
  BY <1>1, SendingMutex
<1>2. CASE ErrorDone(p)
  <2>1. /\ Holds(p)
        /\ \A u \in Threads \ {p} : draft'[u] = draft[u] /\ Object(u)' = Object(u)
    BY <1>0, <1>2 DEF ErrorDone, Holds, Object, main, TypeInv, DraftsKept, Writing
  <2> QED BY <1>2, <2>1, Unlocked DEF ErrorDone
<1>3. CASE HandleThrows(p)
  BY <1>3, AbortedHolders DEF HandleThrows
<1>4. CASE HandleError(p)
  <2>1. \A u \in Threads \ {p} : draft'[u] = draft[u]
    BY <1>0, <1>4 DEF HandleError
  <2> QED BY <1>4, <2>1, MovedHolder DEF HandleError, main
<1>5. CASE Test(p) \/ HandleOther(p) \/ HandleReceipt(p)
  <2>1. PICK l \in {"test", "get", "done"} : Goto(p, l)
    BY <1>5 DEF Test, HandleOther, HandleReceipt
  <2> QED BY <1>5, <2>1, MovedHolder DEF Test, HandleOther, HandleReceipt, main
<1>6. ASSUME NEW m \in Messages \cup {Null}, Get(p, m) \/ GetFails(p, m)
      PROVE  MutexKept'
  <2>1. PICK l \in {"test", "handle"} : Goto(p, l)
    BY <1>6 DEF Get, GetFails
  <2> QED BY <1>6, <2>1, MovedHolder DEF Get, GetFails, main
<1> QED
  BY <1>1, <1>2, <1>3, <1>4, <1>5, <1>6 DEF ReaderStep

\* lock_guard in StompProtocol::disconnect: the two threads of an object are
\* never both between its first line and its return.
THEOREM ClientDisconnectExclusive ==
  Safety => [](\A t, u \in Threads :
                 InDisconnect(t) /\ InDisconnect(u) /\ Object(t) = Object(u) => t = u)
<1>1. Init => MutexKept
  BY DEF Init, MutexKept, Holds
<1>2. TypeInv /\ MutexKept /\ [Next]_vars => MutexKept'
  <2> SUFFICES ASSUME TypeInv, MutexKept, [Next]_vars PROVE MutexKept'
    OBVIOUS
  <2>1. CASE UNCHANGED vars
    BY <2>1, SameHolders DEF vars, main, Holds, Object
  <2>2. CASE KeyboardStep
    BY <2>2, SendingMutex, DoneMutex, Known DEF KeyboardStep
  <2> QED BY <2>1, <2>2, CommandMutex, ReaderMutex DEF Next
<1>3. MutexKept => \A t, u \in Threads :
                     InDisconnect(t) /\ InDisconnect(u) /\ Object(t) = Object(u) => t = u
  BY DEF MutexKept, Holds, InDisconnect
<1>4. ClientInv => TypeInv
  BY DEF ClientInv
<1> QED
  BY <1>1, <1>2, <1>3, <1>4, ClientInvariant, PTL DEF Safety
-----------------------------------------------------------------------------
(* Receipt numbers *)

\* The reader of p may still read a message: it did not disconnect itself.
Reading(p) == isConnected[p] \/ at[p] \in {"get", "handle"}

Numbered(f) == f # Delimiter /\ f.receipt # Null

\* The number of a frame has been counted, and is not after that of the logout;
\* if it is that number the frame is the logout.
InOrder(p, f) ==
  /\ f.receipt < receiptCounter[p]
  /\ \/ logOutid[p] = -999
     \/ f.receipt < logOutid[p]
     \/ f.receipt = logOutid[p] /\ f.command = "DISCONNECT"

\* The frame that the keyboard thread sends on p has the counter's number until
\* that is stored.
DraftInOrder(p) ==
  /\ at[Keyboard] = "number" => logOutid[p] = -999
  /\ at[Keyboard] \in {"load", "store"} =>
       /\ draft[Keyboard].receipt = receiptCounter[p]
       /\ \/ logOutid[p] = -999
          \/ draft[Keyboard].receipt = logOutid[p] /\ draft[Keyboard].command = "DISCONNECT"
  /\ at[Keyboard] = "store" => register[Keyboard] = receiptCounter[p]
  /\ at[Keyboard] = "payload" /\ draft[Keyboard].receipt # Null => InOrder(p, draft[Keyboard])

NumbersOf(p) ==
  /\ isConnected[p] \/ socket[p] = "new" => logOutid[p] = -999
  /\ Reading(p) => \A k \in DOMAIN wire[p] : Numbered(wire[p][k]) => InOrder(p, wire[p][k])
  /\ Reading(p) /\ current = p => DraftInOrder(p)

\* The frames of a report have no number.
EventsUnnumbered ==
  at[Keyboard] \in Writing /\ draft[Keyboard].command = "SEND" =>
    at[Keyboard] \in {"payload", "null", "sent"} /\ draft[Keyboard].receipt = Null

\* A reader that handles a message has one.
MessageKept == \A p \in Objects : at[p] = "handle" => got[p] \in Messages

NumbersKept == \A p \in Objects : NumbersOf(p)

NumbersInv == NumbersKept /\ EventsUnnumbered /\ MessageKept

\* Only a DISCONNECT has the number that the receipt names, or one that begins
\* with it and is greater: the reader may hold a receipt that was cut.
LogoutNumbered ==
  \A p \in Objects :
    at[p] = "handle" /\ Acknowledges(got[p], logOutid[p]) =>
      \A k \in DOMAIN wire[p] :
        /\ Numbered(wire[p][k])
        /\ got[p].receiptId \leq wire[p][k].receipt
        => wire[p][k].command = "DISCONNECT"

\* Nothing is counted, written or begun on p.
LEMMA NumbersStay ==
  ASSUME NumbersKept, NEW p \in Objects,
         isConnected'[p] \/ socket'[p] = "new" =>
           (isConnected[p] \/ socket[p] = "new") /\ logOutid'[p] = logOutid[p],
         Reading(p)' =>
           /\ Reading(p)
           /\ receiptCounter'[p] = receiptCounter[p]
           /\ logOutid'[p] = logOutid[p]
           /\ \A k \in DOMAIN wire'[p] :
                wire'[p][k] # Delimiter => k \in DOMAIN wire[p] /\ wire'[p][k] = wire[p][k],
         Reading(p)' /\ current' = p =>
           \/ at'[Keyboard] \notin {"number", "load", "store", "payload"}
           \/ /\ at'[Keyboard] = at[Keyboard]
              /\ current' = current
              /\ draft'[Keyboard] = draft[Keyboard]
              /\ register'[Keyboard] = register[Keyboard]
           \/ at'[Keyboard] = "payload" /\ draft'[Keyboard].receipt = Null
           \/ at'[Keyboard] = "number" /\ isConnected[p]
  PROVE  NumbersOf(p)'
<1>1. isConnected'[p] \/ socket'[p] = "new" => logOutid'[p] = -999
  BY DEF NumbersKept, NumbersOf
<1>2. ASSUME Reading(p)'
      PROVE  (\A k \in DOMAIN wire[p] : Numbered(wire[p][k]) => InOrder(p, wire[p][k]))'
  <2>1. /\ Reading(p) /\ receiptCounter'[p] = receiptCounter[p] /\ logOutid'[p] = logOutid[p]
        /\ \A k \in DOMAIN wire'[p] :
             wire'[p][k] # Delimiter => k \in DOMAIN wire[p] /\ wire'[p][k] = wire[p][k]
    BY <1>2
  <2>2. \A k \in DOMAIN wire[p] : Numbered(wire[p][k]) => InOrder(p, wire[p][k])
    BY <2>1 DEF NumbersKept, NumbersOf
  <2>3. SUFFICES ASSUME NEW k \in DOMAIN wire'[p], Numbered(wire'[p][k])
                 PROVE  InOrder(p, wire[p][k])'
    OBVIOUS
  <2>4. k \in DOMAIN wire[p] /\ wire'[p][k] = wire[p][k]
    BY <2>1, <2>3 DEF Numbered
  <2>5. InOrder(p, wire[p][k])
    BY <2>2, <2>3, <2>4
  <2> QED
    BY <2>1, <2>4, <2>5 DEF InOrder
<1>3. ASSUME Reading(p)', current' = p
      PROVE  DraftInOrder(p)'
  <2>1. /\ Reading(p) /\ receiptCounter'[p] = receiptCounter[p] /\ logOutid'[p] = logOutid[p]
    BY <1>3
  <2>2. CASE at'[Keyboard] \notin {"number", "load", "store", "payload"}
    BY <2>2 DEF DraftInOrder
  <2>3. CASE /\ at'[Keyboard] = at[Keyboard]
             /\ current' = current
             /\ draft'[Keyboard] = draft[Keyboard]
             /\ register'[Keyboard] = register[Keyboard]
    <3>1. DraftInOrder(p)
      BY <1>3, <2>1, <2>3 DEF NumbersKept, NumbersOf
    <3> QED
      BY <2>1, <2>3, <3>1 DEF DraftInOrder, InOrder
  <2>4. CASE at'[Keyboard] = "payload" /\ draft'[Keyboard].receipt = Null
    BY <2>4 DEF DraftInOrder
  <2>5. CASE at'[Keyboard] = "number" /\ isConnected[p]
    BY <2>1, <2>5 DEF DraftInOrder, NumbersKept, NumbersOf
  <2> QED
    BY <1>3, <2>2, <2>3, <2>4, <2>5
<1> QED
  BY <1>1, <1>2, <1>3 DEF NumbersOf

\* A thread moves to a place where it has nothing to send.
LEMMA NumbersMoved ==
  ASSUME TypeInv, NumbersKept, NEW t \in Threads, NEW l, Goto(t, l),
         l \notin {"number", "load", "store", "payload"},
         t \in Objects /\ l \in {"get", "handle"} => Reading(t),
         \A p \in Objects : isConnected'[p] => isConnected[p],
         \A p \in Objects : socket'[p] = "new" => socket[p] = "new",
         t # Keyboard => draft'[Keyboard] = draft[Keyboard],
         current' \in {current, Null},
         UNCHANGED <<wire, receiptCounter, logOutid, register>>
  PROVE  NumbersKept'
<1> SUFFICES ASSUME NEW p \in Objects
             PROVE  NumbersOf(p)'
  BY DEF NumbersKept
<1>1. \A u \in Threads : at'[u] = IF u = t THEN l ELSE at[u]
  BY DEF TypeInv, TypeOK, Goto
<1>2. Reading(p)' => Reading(p)
  BY <1>1, Known DEF Reading
<1>3. current' = p => current = p
  BY Known
<1>4. at'[Keyboard] = IF Keyboard = t THEN l ELSE at[Keyboard]
  BY <1>1, Known
<1> QED
  BY <1>2, <1>3, <1>4, NumbersStay

\* Every thread stops.
LEMMA NumbersAborted ==
  ASSUME TypeInv, NumbersKept, Abort,
         UNCHANGED <<isConnected, socket, wire, receiptCounter, logOutid>>
  PROVE  NumbersKept'
<1> SUFFICES ASSUME NEW p \in Objects
             PROVE  NumbersOf(p)'
  BY DEF NumbersKept
<1>1. at'[p] = "aborted" /\ at'[Keyboard] = "aborted"
  BY Known DEF Abort
<1>2. Reading(p)' => Reading(p)
  BY <1>1 DEF Reading
<1> QED
  BY <1>1, <1>2, NumbersStay

\* A command on the current object, with a frame f for the keyboard thread.
LEMMA NumbersEntered ==
  ASSUME TypeInv, NumbersKept, NEW f, NEW l \in {"lock", "number", "payload"}, LoggedIn,
         draft' = [draft EXCEPT ![Keyboard] = f], Goto(Keyboard, l),
         l = "payload" => f.receipt = Null,
         UNCHANGED <<current, isConnected, socket, wire, receiptCounter, logOutid>>
  PROVE  NumbersKept'
<1> SUFFICES ASSUME NEW p \in Objects
             PROVE  NumbersOf(p)'
  BY DEF NumbersKept
<1>1. at'[Keyboard] = l /\ at'[p] = at[p] /\ draft'[Keyboard] = f
  BY Known DEF TypeInv, TypeOK, Goto
<1>2. Reading(p)' => Reading(p)
  BY <1>1 DEF Reading
<1>3. current' = p => isConnected[p]
  BY Known DEF LoggedIn
<1> QED
  BY <1>1, <1>2, <1>3, NumbersStay

LEMMA NumbersLogin ==
  ASSUME TypeInv, NumbersKept, NEW q \in Objects, Login(q)
  PROVE  NumbersKept'
<1> SUFFICES ASSUME NEW p \in Objects
             PROVE  NumbersOf(p)'
  BY DEF NumbersKept
<1>1. /\ socket[q] = "new" /\ current' = q
      /\ isConnected' = [isConnected EXCEPT ![q] = TRUE]
      /\ socket' = [socket EXCEPT ![q] = "open"]
      /\ draft' = [draft EXCEPT ![Keyboard] = NewFrame(Keyboard, "CONNECT", Null, Null)]
      /\ at' = [at EXCEPT ![Keyboard] = "payload"]
      /\ UNCHANGED <<wire, receiptCounter, logOutid, register>>
  BY DEF Login, Goto, counters
<1>2. at'[Keyboard] = "payload" /\ at'[p] = at[p] /\ draft'[Keyboard].receipt = Null
  BY <1>1, Known DEF TypeInv, TypeOK, NewFrame
<1>3. CASE p = q
  <2>1. wire'[p] = <<>> /\ logOutid'[p] = -999
    BY <1>1, <1>3 DEF TypeInv, SocketsKept, NumbersKept, NumbersOf
  <2> QED
    BY <1>2, <2>1 DEF NumbersOf, DraftInOrder
<1>4. CASE p # q
  <2>1. isConnected'[p] = isConnected[p] /\ socket'[p] = socket[p]
    BY <1>1, <1>4 DEF TypeInv, TypeOK
  <2>2. Reading(p)' => Reading(p)
    BY <1>2, <2>1 DEF Reading
  <2> QED
    BY <1>1, <1>4, <2>1, <2>2, NumbersStay
<1> QED
  BY <1>3, <1>4

LEMMA NumbersCommand ==
  ASSUME TypeInv, NumbersKept, Command
  PROVE  NumbersKept'
<1>1. CASE LoginFails
  BY <1>1, NumbersAborted DEF LoginFails, counters
<1>2. CASE ReportThrows
  BY <1>2, NumbersAborted DEF ReportThrows, counters
<1>3. CASE Logout
  <2> DEFINE f == NewFrame(Keyboard, "DISCONNECT", Null, Null)
  <2>1. /\ LoggedIn /\ draft' = [draft EXCEPT ![Keyboard] = f] /\ Goto(Keyboard, "lock")
        /\ UNCHANGED <<current, isConnected, socket, wire, receiptCounter, logOutid>>
    BY <1>3 DEF Logout, counters
  <2> HIDE DEF f
  <2> QED
    BY <2>1, NumbersEntered
<1>4. ASSUME NEW c \in Channels, Join(c) PROVE NumbersKept'
  <2> DEFINE f == NewFrame(Keyboard, "SUBSCRIBE", c, subscriptionCounter[current] + 1)
  <2>1. /\ LoggedIn /\ draft' = [draft EXCEPT ![Keyboard] = f] /\ Goto(Keyboard, "number")
        /\ UNCHANGED <<current, isConnected, socket, wire, receiptCounter, logOutid>>
    BY <1>4 DEF Join
  <2> HIDE DEF f
  <2> QED
    BY <2>1, NumbersEntered
<1>5. ASSUME NEW c \in Channels, Leave(c) PROVE NumbersKept'
  <2> DEFINE f == NewFrame(Keyboard, "UNSUBSCRIBE", Null, subscribed[current][c])
  <2>1. /\ LoggedIn /\ draft' = [draft EXCEPT ![Keyboard] = f] /\ Goto(Keyboard, "number")
        /\ UNCHANGED <<current, isConnected, socket, wire, receiptCounter, logOutid>>
    BY <1>5 DEF Leave, counters
  <2> HIDE DEF f
  <2> QED
    BY <2>1, NumbersEntered
<1>6. ASSUME NEW c \in Channels, NEW n \in 1..MaxEvents, Report(c, n)
      PROVE  NumbersKept'
  <2> DEFINE f == NewFrame(Keyboard, "SEND", c, Null)
  <2>1. f.receipt = Null
    BY DEF NewFrame
  <2>2. /\ LoggedIn /\ draft' = [draft EXCEPT ![Keyboard] = f] /\ Goto(Keyboard, "payload")
        /\ UNCHANGED <<current, isConnected, socket, wire, receiptCounter, logOutid>>
    BY <1>6 DEF Report, counters
  <2> HIDE DEF f
  <2> QED
    BY <2>1, <2>2, NumbersEntered
<1> QED
  BY <1>1, <1>2, <1>3, <1>4, <1>5, <1>6, NumbersLogin DEF Command

\* A reader on its way to write its DISCONNECT will read no more.
LEMMA GivenUp ==
  ASSUME TypeInv, OneDisconnect, LogoutKept, NEW p \in Objects, at[p] \in Ahead \cup {"null"}
  PROVE  ~ isConnected[p] /\ ~ Reading(p)
<1>1. CASE at[p] \in Ahead
  <2>1. draft[p].command = "DISCONNECT"
    BY <1>1, Known DEF TypeInv, DraftsKept, Writing, Ahead
  <2> QED
    BY <1>1, <2>1, Known DEF OneDisconnect, Pends, Reading, Ahead
<1>2. CASE at[p] = "null"
  <2>1. Disconnects(p) # {}
    BY <1>2 DEF LogoutKept
  <2> QED
    BY <1>2, <2>1 DEF OneDisconnect, Reading
<1> QED
  BY <1>1, <1>2

\* A step of the reader q, which counts and writes once it has given up only.
LEMMA NumbersReader ==
  ASSUME TypeInv, NumbersKept, NEW q \in Objects, NEW l, Goto(q, l),
         l \in {"get", "handle"} => Reading(q),
         \A p \in Objects : isConnected'[p] => isConnected[p],
         \A p \in Objects : socket'[p] = "new" => socket[p] = "new",
         \A p \in Objects \ {q} : /\ wire'[p] = wire[p]
                                  /\ receiptCounter'[p] = receiptCounter[p]
                                  /\ logOutid'[p] = logOutid[p],
         \/ UNCHANGED <<wire, receiptCounter, logOutid>>
         \/ ~ isConnected[q] /\ socket[q] # "new" /\ l \notin {"get", "handle"},
         draft'[Keyboard] = draft[Keyboard], register'[Keyboard] = register[Keyboard],
         UNCHANGED current
  PROVE  NumbersKept'
<1> SUFFICES ASSUME NEW p \in Objects
             PROVE  NumbersOf(p)'
  BY DEF NumbersKept
<1>1. \A u \in Threads : at'[u] = IF u = q THEN l ELSE at[u]
  BY DEF TypeInv, TypeOK, Goto
<1>2. at'[Keyboard] = at[Keyboard]
  BY <1>1, Known
<1>3. Reading(p)' => Reading(p)
  BY <1>1, Known DEF Reading
<1>4. CASE wire'[p] = wire[p] /\ receiptCounter'[p] = receiptCounter[p] /\ logOutid'[p] = logOutid[p]
  BY <1>2, <1>3, <1>4, NumbersStay
<1>5. CASE p = q /\ ~ isConnected[q] /\ socket[q] # "new" /\ l \notin {"get", "handle"}
  <2>1. ~ Reading(p)' /\ ~ isConnected'[p] /\ socket'[p] # "new"
    BY <1>1, <1>5, Known DEF Reading
  <2> QED
    BY <2>1, NumbersStay
<1> QED
  BY <1>4, <1>5

LEMMA NumbersSent ==
  ASSUME TypeInv, OneDisconnect, LogoutKept, NumbersKept, NEW q \in Objects,
         Inside(q) \/ Payload(q) \/ End(q) \/ WriteFails(q)
  PROVE  NumbersKept'
<1>0. /\ q \in Threads /\ q # Keyboard /\ Object(q) = q
      /\ draft \in [Threads -> Frame \cup {Null}] /\ register \in [Threads -> Nat]
      /\ wire \in [Objects -> Seq(Frame \cup {Delimiter})]
      /\ receiptCounter \in [Objects -> Nat] /\ logOutid \in [Objects -> Int]
      /\ isConnected \in [Objects -> BOOLEAN] /\ Keyboard \in Threads
  BY Known DEF TypeInv, TypeOK
<1>1. CASE Lock(q)
  BY <1>0, <1>1, NumbersReader DEF Lock, main, counters
<1>2. CASE TestAndClear(q)
  <2>1. PICK l \in {"number", "sent"} : Goto(q, l)
    BY <1>2 DEF TestAndClear
  <2>2. \A p \in Objects : isConnected'[p] => isConnected[p]
    BY <1>0, <1>2 DEF TestAndClear
  <2> QED
    BY <1>0, <1>2, <2>1, <2>2, NumbersReader DEF TestAndClear, main, counters
<1>3. ASSUME at[q] \in Ahead \cup {"null"}
      PROVE  ~ isConnected[q] /\ socket[q] # "new"
  BY <1>0, <1>3, GivenUp, BusyObject DEF Ahead, Writing
<1>4. CASE Number(q)
  <2>1. draft'[Keyboard] = draft[Keyboard] /\ \A p \in Objects \ {q} : logOutid'[p] = logOutid[p]
    BY <1>0, <1>4 DEF Number
  <2> QED
    BY <1>0, <1>3, <1>4, <2>1, NumbersReader DEF Number, Ahead, main
<1>5. CASE Load(q)
  <2>1. register'[Keyboard] = register[Keyboard]
    BY <1>0, <1>5 DEF Load
  <2> QED
    BY <1>0, <1>5, <2>1, NumbersReader DEF Load, main
<1>6. CASE Store(q)
  <2>1. \A p \in Objects \ {q} : receiptCounter'[p] = receiptCounter[p]
    BY <1>0, <1>6 DEF Store
  <2> QED
    BY <1>0, <1>3, <1>6, <2>1, NumbersReader DEF Store, Ahead, main
<1>7. CASE Payload(q)
  <2>1. \A p \in Objects \ {q} : wire'[p] = wire[p]
    BY <1>0, <1>7 DEF Payload, Write
  <2> QED
    BY <1>0, <1>3, <1>7, <2>1, NumbersReader DEF Payload, Write, Ahead, main, counters
<1>8. CASE End(q)
  <2>1. \A p \in Objects \ {q} : wire'[p] = wire[p]
    BY <1>0, <1>8 DEF End, Write
  <2> QED
    BY <1>0, <1>3, <1>8, <2>1, NumbersReader DEF End, Write, main, counters
<1>9. CASE WriteFails(q) /\ Abort
  BY <1>9, NumbersAborted DEF WriteFails, counters
<1>10. CASE WriteFails(q) /\ Goto(q, "sent")
  BY <1>0, <1>10, NumbersReader DEF WriteFails, main, counters
<1> QED
  BY <1>1, <1>2, <1>4, <1>5, <1>6, <1>7, <1>8, <1>9, <1>10 DEF Inside, WriteFails

\* The keyboard thread counts and writes on the current object.
LEMMA NumbersTyped ==
  ASSUME TypeInv, OneDisconnect, NumbersKept,
         Inside(Keyboard) \/ Payload(Keyboard) \/ End(Keyboard) \/ WriteFails(Keyboard)
  PROVE  NumbersKept'
<1>0. /\ Keyboard \in Threads /\ Object(Keyboard) = current
      /\ at \in [Threads -> Place]
      /\ draft \in [Threads -> Frame \cup {Null}] /\ register \in [Threads -> Nat]
      /\ wire \in [Objects -> Seq(Frame \cup {Delimiter})]
      /\ receiptCounter \in [Objects -> Nat] /\ logOutid \in [Objects -> Int]
      /\ isConnected \in [Objects -> BOOLEAN]
  BY Known DEF TypeInv, TypeOK
<1>a. ASSUME at[Keyboard] \in Writing
      PROVE  current \in Objects /\ socket[current] # "new" /\ draft[Keyboard] \in Frame
  BY <1>0, <1>a, BusyObject
<1>b. \A f \in Frame : f.receipt # Null => f.receipt \in Nat
  BY DEF Frame
<1>c. \A p \in Objects : \A k \in DOMAIN wire[p] : Numbered(wire[p][k]) => wire[p][k].receipt \in Nat
  BY <1>0, <1>b DEF Numbered
<1>d. ASSUME NEW l, Goto(Keyboard, l)
      PROVE  /\ at'[Keyboard] = l
             /\ \A p \in Objects : at'[p] = at[p]
  BY <1>0, <1>d, Known DEF Goto
<1>1. CASE Lock(Keyboard)
  BY <1>0, <1>1, NumbersMoved DEF Lock, main, counters
<1>2. CASE TestAndClear(Keyboard)
  <2> SUFFICES ASSUME NEW p \in Objects
               PROVE  NumbersOf(p)'
    BY DEF NumbersKept
  <2>1. /\ at'[Keyboard] = IF isConnected[current] THEN "number" ELSE "sent"
        /\ \A q \in Objects : at'[q] = at[q]
    BY <1>0, <1>2, <1>d DEF TestAndClear
  <2>2. isConnected'[p] => isConnected[p]
    BY <1>0, <1>2 DEF TestAndClear
  <2>3. UNCHANGED <<current, wire, receiptCounter, logOutid, socket>>
    BY <1>2 DEF TestAndClear, main, counters
  <2>4. Reading(p)' => Reading(p)
    BY <2>1, <2>2 DEF Reading
  <2> QED
    BY <2>1, <2>2, <2>3, <2>4, NumbersStay
<1>3. CASE Number(Keyboard)
  <2> DEFINE d == draft[Keyboard]
  <2>1. at[Keyboard] = "number" /\ current \in Objects /\ socket[current] # "new" /\ d \in Frame
    BY <1>3, <1>a DEF Number, Writing
  <2>2. /\ draft'[Keyboard] = [d EXCEPT !.receipt = receiptCounter[current]]
        /\ UNCHANGED <<current, isConnected, receiptCounter, wire, socket>>
        /\ logOutid'[current] = IF d.command = "DISCONNECT" THEN receiptCounter[current]
                                                            ELSE logOutid[current]
        /\ \A p \in Objects \ {current} : logOutid'[p] = logOutid[p]
    BY <1>0, <1>3, <2>1 DEF Number, main
  <2>3. /\ draft'[Keyboard].receipt = receiptCounter[current]
        /\ draft'[Keyboard].command = d.command
    BY <1>0, <2>1, <2>2, NumberedFrame
  <2>4. at'[Keyboard] = "load" /\ \A p \in Objects : at'[p] = at[p]
    BY <1>3, <1>d DEF Number
  <2>5. d.command = "DISCONNECT" => ~ isConnected[current]
    BY <1>0, <2>1 DEF OneDisconnect, Pends, Ahead
  <2> HIDE DEF d
  <2> SUFFICES ASSUME NEW p \in Objects
               PROVE  NumbersOf(p)'
    BY DEF NumbersKept
  <2>6. Reading(p)' <=> Reading(p)
    BY <2>2, <2>4 DEF Reading
  <2>7. CASE p # current
    BY <2>2, <2>6, <2>7, NumbersStay
  <2>8. CASE p = current
    <3>1. isConnected'[p] \/ socket'[p] = "new" => logOutid'[p] = -999
      BY <2>1, <2>2, <2>5, <2>8 DEF NumbersKept, NumbersOf
    <3>2. ASSUME Reading(p)
          PROVE  /\ \A k \in DOMAIN wire[p] : Numbered(wire[p][k]) => InOrder(p, wire[p][k])
                 /\ logOutid[p] = -999
      BY <2>1, <2>8, <3>2 DEF NumbersKept, NumbersOf, DraftInOrder
    <3>3. ASSUME Reading(p), NEW k \in DOMAIN wire[p], Numbered(wire[p][k])
          PROVE  InOrder(p, wire[p][k])'
      <4>1. InOrder(p, wire[p][k])
        BY <3>2, <3>3
      <4> QED
        BY <2>2, <2>8, <3>2, <4>1 DEF InOrder, NumbersKept, NumbersOf
    <3>4. Reading(p) => DraftInOrder(p)'
      BY <2>2, <2>3, <2>4, <2>8, <3>2 DEF DraftInOrder
    <3> QED
      BY <2>2, <2>6, <3>1, <3>3, <3>4 DEF NumbersOf
  <2> QED
    BY <2>7, <2>8
<1>4. CASE Load(Keyboard)
  <2>1. at[Keyboard] = "load" /\ current \in Objects
    BY <1>4, <1>a DEF Load, Writing
  <2>2. /\ register'[Keyboard] = receiptCounter[current]
        /\ UNCHANGED <<current, isConnected, receiptCounter, logOutid, wire, socket, draft>>
    BY <1>0, <1>4, <2>1 DEF Load, main
  <2>3. at'[Keyboard] = "store" /\ \A p \in Objects : at'[p] = at[p]
    BY <1>4, <1>d DEF Load
  <2> SUFFICES ASSUME NEW p \in Objects
               PROVE  NumbersOf(p)'
    BY DEF NumbersKept
  <2>4. Reading(p)' <=> Reading(p)
    BY <2>2, <2>3 DEF Reading
  <2>5. CASE p # current
    BY <2>2, <2>4, <2>5, NumbersStay
  <2>6. CASE p = current
    <3>1. Reading(p) => DraftInOrder(p)
      BY <2>6 DEF NumbersKept, NumbersOf
    <3>2. Reading(p) => DraftInOrder(p)'
      BY <2>1, <2>2, <2>3, <2>6, <3>1 DEF DraftInOrder
    <3> QED
      BY <2>2, <2>4, <3>2 DEF NumbersKept, NumbersOf, InOrder
  <2> QED
    BY <2>5, <2>6
<1>5. CASE Store(Keyboard)
  <2>1. at[Keyboard] = "store" /\ current \in Objects
    BY <1>5, <1>a DEF Store, Writing
  <2>2. /\ receiptCounter'[current] = register[Keyboard] + 1
        /\ \A p \in Objects \ {current} : receiptCounter'[p] = receiptCounter[p]
        /\ UNCHANGED <<current, isConnected, logOutid, wire, socket, draft>>
    BY <1>0, <1>5, <2>1 DEF Store, main
  <2>3. at'[Keyboard] = "payload" /\ \A p \in Objects : at'[p] = at[p]
    BY <1>5, <1>d DEF Store
  <2> SUFFICES ASSUME NEW p \in Objects
               PROVE  NumbersOf(p)'
    BY DEF NumbersKept
  <2>4. Reading(p)' <=> Reading(p)
    BY <2>2, <2>3 DEF Reading
  <2>5. CASE p # current
    BY <2>2, <2>4, <2>5, NumbersStay
  <2>6. CASE p = current
    <3>1. Reading(p) => DraftInOrder(p) /\ register[Keyboard] = receiptCounter[p]
      BY <2>1, <2>6 DEF NumbersKept, NumbersOf, DraftInOrder
    <3>2. receiptCounter[p] \in Nat
      BY <1>0
    <3>3. Reading(p) => receiptCounter'[p] = receiptCounter[p] + 1
      BY <2>2, <2>6, <3>1
    <3>4. Reading(p) => DraftInOrder(p)'
      BY <2>1, <2>2, <2>3, <2>6, <3>1, <3>2, <3>3 DEF DraftInOrder, InOrder
    <3>5. ASSUME Reading(p), NEW k \in DOMAIN wire[p], Numbered(wire[p][k])
          PROVE  InOrder(p, wire[p][k])'
      <4>1. InOrder(p, wire[p][k]) /\ wire[p][k].receipt \in Nat
        BY <3>5, <1>c DEF NumbersKept, NumbersOf
      <4> QED
        BY <2>2, <3>2, <3>3, <3>5, <4>1 DEF InOrder
    <3> QED
      BY <2>2, <2>4, <3>4, <3>5 DEF NumbersKept, NumbersOf
  <2> QED
    BY <2>5, <2>6
<1>6. ASSUME NEW item \in Frame \cup {Delimiter}, NEW l \in {"null", "sent"},
             at[Keyboard] \in {"payload", "null"}, Write(Keyboard, item, l),
             item # Delimiter => item = draft[Keyboard] /\ at[Keyboard] = "payload"
      PROVE  NumbersKept'
  <2>1. current \in Objects
    BY <1>6, <1>a DEF Writing
  <2>2. /\ wire' = [wire EXCEPT ![current] = Append(@, item)]
        /\ UNCHANGED <<current, isConnected, receiptCounter, logOutid, socket, draft, register>>
    BY <1>0, <1>6 DEF Write, main, counters
  <2>3. at'[Keyboard] = l /\ \A p \in Objects : at'[p] = at[p]
    BY <1>6, <1>d DEF Write
  <2> SUFFICES ASSUME NEW p \in Objects
               PROVE  NumbersOf(p)'
    BY DEF NumbersKept
  <2>4. Reading(p)' <=> Reading(p)
    BY <2>2, <2>3 DEF Reading
  <2>5. CASE p # current
    <3>1. wire'[p] = wire[p]
      BY <1>0, <2>2, <2>5
    <3> QED
      BY <2>2, <2>4, <2>5, <3>1, NumbersStay
  <2>6. CASE p = current
    <3>1. wire[p] \in Seq(Frame \cup {Delimiter}) /\ wire'[p] = Append(wire[p], item)
      BY <1>0, <2>2, <2>6
    <3>2. \A k \in DOMAIN wire'[p] : \/ k \in DOMAIN wire[p] /\ wire'[p][k] = wire[p][k]
                                     \/ wire'[p][k] = item
      BY <3>1
    <3>3. Reading(p) /\ Numbered(item) => InOrder(p, item)
      BY <1>6, <2>6 DEF Numbered, NumbersKept, NumbersOf, DraftInOrder
    <3>4. DraftInOrder(p)'
      BY <2>3 DEF DraftInOrder
    <3> QED
      BY <2>2, <2>4, <3>2, <3>3, <3>4 DEF NumbersKept, NumbersOf, InOrder
  <2> QED
    BY <2>5, <2>6
<1>7. CASE Payload(Keyboard)
  <2>1. draft[Keyboard] \in Frame
    BY <1>7, <1>a DEF Payload, Writing
  <2> QED
    BY <1>6, <1>7, <2>1 DEF Payload
<1>8. CASE End(Keyboard)
  <2>1. at[Keyboard] = "null" /\ Write(Keyboard, Delimiter, "sent")
    BY <1>8 DEF End
  <2>2. Delimiter \in Frame \cup {Delimiter} /\ "sent" \in {"null", "sent"}
    OBVIOUS
  <2> QED
    BY <1>6, <2>1, <2>2
<1>9. CASE WriteFails(Keyboard) /\ Abort
  BY <1>9, NumbersAborted DEF WriteFails, counters
<1>10. CASE WriteFails(Keyboard) /\ Goto(Keyboard, "sent")
  BY <1>0, <1>10, NumbersMoved DEF WriteFails, main, counters
<1> QED
  BY <1>1, <1>2, <1>3, <1>4, <1>5, <1>7, <1>8, <1>9, <1>10 DEF Inside, WriteFails

LEMMA NumbersDone ==
  ASSUME TypeInv, NumbersKept, EventsUnnumbered, KeyboardDone
  PROVE  NumbersKept'
<1>0. at \in [Threads -> Place] /\ draft \in [Threads -> Frame \cup {Null}] /\ Keyboard \in Threads
  BY Known DEF TypeInv, TypeOK
<1>1. CASE LoginDone
  <2> SUFFICES ASSUME NEW p \in Objects
               PROVE  NumbersOf(p)'
    BY DEF NumbersKept
  <2>1. UNCHANGED <<current, isConnected, receiptCounter, logOutid, wire, socket>>
    BY <1>1 DEF LoginDone, counters
  <2>2. at'[Keyboard] = "prompt" /\ (at'[p] = at[p] \/ at'[p] = "test")
    BY <1>0, <1>1, Known DEF LoginDone, TypeInv, KeyboardKept, Writing
  <2>3. Reading(p)' => Reading(p)
    BY <2>1, <2>2 DEF Reading
  <2> QED
    BY <2>1, <2>2, <2>3, NumbersStay
<1>2. CASE SubscriptionDone
  BY <1>0, <1>2, NumbersMoved, Known DEF SubscriptionDone, main, counters
<1>3. CASE NextEvent
  <2>1. UNCHANGED <<current, isConnected, receiptCounter, logOutid, wire, socket, register>>
    BY <1>3 DEF NextEvent, counters
  <2>2. CASE Goto(Keyboard, "prompt")
    BY <1>0, <2>1, <2>2, NumbersMoved, Known
  <2>3. CASE Goto(Keyboard, "payload") /\ UNCHANGED draft
    <3> SUFFICES ASSUME NEW p \in Objects
                 PROVE  NumbersOf(p)'
      BY DEF NumbersKept
    <3>1. /\ at'[Keyboard] = "payload" /\ at'[p] = at[p]
          /\ draft'[Keyboard].receipt = Null
      BY <1>0, <1>3, <2>3, Known DEF Goto, NextEvent, EventsUnnumbered, Writing
    <3>2. Reading(p)' => Reading(p)
      BY <2>1, <3>1 DEF Reading
    <3> QED
      BY <2>1, <3>1, <3>2, NumbersStay
  <2> QED
    BY <1>3, <2>2, <2>3 DEF NextEvent
<1>4. CASE LogoutDone
  BY <1>0, <1>4, NumbersMoved, Known DEF LogoutDone, counters
<1> QED
  BY <1>1, <1>2, <1>3, <1>4 DEF KeyboardDone

LEMMA NumbersRead ==
  ASSUME TypeInv, OneDisconnect, LogoutKept, NumbersKept, NEW p \in Objects, ReaderStep(p)
  PROVE  NumbersKept'
<1>0. /\ p \in Threads /\ p # Keyboard
      /\ draft \in [Threads -> Frame \cup {Null}] /\ isConnected \in [Objects -> BOOLEAN]
      /\ socket \in [Objects -> {"new", "open", "closed"}]
  BY Known DEF TypeInv, TypeOK
<1>1. CASE Inside(p) \/ Payload(p) \/ End(p) \/ WriteFails(p)
  BY <1>1, NumbersSent
<1>2. CASE ErrorDone(p)
  <2>1. draft'[Keyboard] = draft[Keyboard]
    BY <1>0, <1>2, Known DEF ErrorDone
  <2> QED
    BY <1>2, <2>1, NumbersReader DEF ErrorDone, main, counters
<1>3. CASE Test(p)
  <2>1. PICK l : Goto(p, l) /\ (l \in {"get", "handle"} => Reading(p))
    BY <1>3 DEF Test, Reading
  <2> QED
    BY <1>3, <2>1, NumbersReader DEF Test, main, counters
<1>4. ASSUME NEW m, Get(p, m) \/ GetFails(p, m)
      PROVE  NumbersKept'
  <2>1. at[p] = "get" /\ UNCHANGED <<wire, receiptCounter, logOutid, draft, register, current, socket>>
    BY <1>4 DEF Get, GetFails, main, counters
  <2>2. \A q \in Objects : isConnected'[q] => isConnected[q]
    BY <1>0, <1>4 DEF Get, GetFails
  <2>3. PICK l : Goto(p, l)
    BY <1>4 DEF Get, GetFails
  <2>4. Reading(p)
    BY <2>1 DEF Reading
  <2> QED
    BY <2>1, <2>2, <2>3, <2>4, NumbersReader
<1>5. CASE HandleOther(p)
  BY <1>5, NumbersReader DEF HandleOther, main, counters
<1>6. CASE HandleReceipt(p)
  <2>1. /\ \A q \in Objects : isConnected'[q] => isConnected[q]
        /\ \A q \in Objects : socket'[q] = "new" => socket[q] = "new"
    BY <1>0, <1>6 DEF HandleReceipt
  <2> QED
    BY <1>6, <2>1, NumbersReader DEF HandleReceipt, main, counters
<1>7. CASE HandleError(p)
  <2>1. draft'[Keyboard] = draft[Keyboard]
    BY <1>0, <1>7, Known DEF HandleError
  <2> QED
    BY <1>7, <2>1, NumbersReader DEF HandleError, main, counters
<1>8. CASE HandleThrows(p)
  BY <1>8, NumbersAborted DEF HandleThrows, counters
<1> QED
  BY <1>1, <1>2, <1>3, <1>4, <1>5, <1>6, <1>7, <1>8 DEF ReaderStep

LEMMA EventsNext ==
  ASSUME TypeInv, EventsUnnumbered, Next
  PROVE  EventsUnnumbered'
<1>0. /\ at \in [Threads -> Place] /\ draft \in [Threads -> Frame \cup {Null}] /\ Keyboard \in Threads
      /\ \A p \in Objects : p # Keyboard
  BY Known DEF TypeInv, TypeOK
<1>1. CASE Command
  BY <1>0, <1>1
     DEF Command, Login, LoginFails, ReportThrows, Logout, Join, Leave, Report, Goto, Abort,
         NewFrame, EventsUnnumbered, Writing
<1>2. CASE Inside(Keyboard)
  <2>1. at[Keyboard] \in Writing /\ at[Keyboard] \notin {"payload", "null", "sent"}
    BY <1>2 DEF Inside, Lock, TestAndClear, Number, Load, Store, Writing
  <2>2. draft[Keyboard] \in Frame /\ draft[Keyboard].command # "SEND"
    BY <2>1 DEF EventsUnnumbered, TypeInv, DraftsKept, Threads
  <2>3. \/ draft' = draft
        \/ draft' = [draft EXCEPT ![Keyboard].receipt = receiptCounter[current]]
    BY <1>2, Known DEF Inside, Lock, TestAndClear, Number, Load, Store
  <2>4. draft'[Keyboard].command = draft[Keyboard].command
    BY <1>0, <2>2, <2>3 DEF Frame
  <2> QED
    BY <2>2, <2>4 DEF EventsUnnumbered
<1>3. CASE Payload(Keyboard) \/ End(Keyboard) \/ WriteFails(Keyboard)
  <2>1. at[Keyboard] \in {"payload", "null"} /\ UNCHANGED draft
    BY <1>3 DEF Payload, End, WriteFails, Write
  <2>2. at'[Keyboard] \in {"null", "sent", "aborted"}
    BY <1>0, <1>3 DEF Payload, End, WriteFails, Write, Goto, Abort
  <2> QED
    BY <2>1, <2>2 DEF EventsUnnumbered, Writing
<1>4. CASE KeyboardDone
  <2>1. CASE at'[Keyboard] = "prompt"
    BY <2>1 DEF EventsUnnumbered, Writing
  <2>2. CASE NextEvent
    BY <1>0, <2>2 DEF NextEvent, Goto, EventsUnnumbered, Writing
  <2>3. CASE LoginDone \/ SubscriptionDone \/ LogoutDone
    <3>1. CASE LoginDone
      BY <1>0, <2>1, <3>1 DEF LoginDone, TypeInv, KeyboardKept, Writing
    <3> QED
      BY <1>0, <2>1, <2>3, <3>1 DEF SubscriptionDone, LogoutDone, Goto
  <2> QED
    BY <1>4, <2>2, <2>3 DEF KeyboardDone
<1>5. ASSUME NEW p \in Objects, ReaderStep(p)
      PROVE  EventsUnnumbered'
  <2>1. at'[Keyboard] \in {at[Keyboard], "aborted"}
    BY <1>0, <1>5
       DEF ReaderStep, Inside, Lock, TestAndClear, Number, Load, Store, Payload, End, WriteFails,
           Write, ErrorDone, Test, Get, GetFails, HandleOther, HandleReceipt, HandleError,
           HandleThrows, Goto, Abort, Threads
  <2>2. draft'[Keyboard] = draft[Keyboard]
    BY <1>0, <1>5
       DEF ReaderStep, Inside, Lock, TestAndClear, Number, Load, Store, Payload, End, WriteFails,
           Write, ErrorDone, Test, Get, GetFails, HandleOther, HandleReceipt, HandleError,
           HandleThrows
  <2> QED
    BY <2>1, <2>2 DEF EventsUnnumbered, Writing
<1> QED
  BY <1>1, <1>2, <1>3, <1>4, <1>5 DEF Next, KeyboardStep

LEMMA MessageNext ==
  ASSUME TypeInv, MessageKept, Next
  PROVE  MessageKept'
<1> SUFFICES ASSUME NEW p \in Objects, at'[p] = "handle"
             PROVE  got'[p] \in Messages
  BY DEF MessageKept
<1>0. /\ at \in [Threads -> Place] /\ got \in [Objects -> Messages \cup {Null}]
      /\ Keyboard \in Threads /\ p \in Threads /\ p # Keyboard
  BY Known DEF TypeInv, TypeOK
<1> USE DEF Goto, Abort
<1>1. CASE at[p] = "handle" /\ got'[p] = got[p]
  BY <1>1 DEF MessageKept
<1>2. CASE Command
  BY <1>0, <1>1, <1>2 DEF Command, Login, LoginFails, ReportThrows, Logout, Join, Leave, Report
<1>3. CASE KeyboardDone
  BY <1>0, <1>1, <1>3 DEF KeyboardDone, LoginDone, SubscriptionDone, NextEvent, LogoutDone
<1>4. ASSUME NEW t \in Threads, Inside(t) \/ Payload(t) \/ End(t) \/ WriteFails(t)
      PROVE  got'[p] \in Messages
  BY <1>0, <1>1, <1>4
     DEF Inside, Lock, TestAndClear, Number, Load, Store, Payload, End, Write, WriteFails
<1>5. ASSUME NEW q \in Objects, NEW m \in Messages \cup {Null}, GetFails(q, m)
      PROVE  got'[p] \in Messages
  <2>1. q \in Threads
    BY DEF Threads
  <2> QED
    BY <1>0, <1>1, <1>5, <2>1 DEF GetFails
<1>6. ASSUME NEW q \in Objects, NEW m \in Messages, Get(q, m)
      PROVE  got'[p] \in Messages
  <2>1. q \in Threads
    BY DEF Threads
  <2> QED
    BY <1>0, <1>1, <1>6, <2>1 DEF Get
<1>7. ASSUME NEW q \in Objects, ErrorDone(q) \/ Test(q) \/ HandleOther(q) \/ HandleReceipt(q)
                                \/ HandleError(q) \/ HandleThrows(q)
      PROVE  got'[p] \in Messages
  <2>1. q \in Threads
    BY DEF Threads
  <2> QED
    BY <1>0, <1>1, <1>7, <2>1
       DEF ErrorDone, Test, HandleOther, HandleReceipt, HandleError, HandleThrows
<1>8. CASE KeyboardStep
  BY <1>0, <1>3, <1>4, <1>8 DEF KeyboardStep
<1>9. ASSUME NEW q \in Objects, ReaderStep(q)
      PROVE  got'[p] \in Messages
  <2>1. q \in Threads
    BY DEF Threads
  <2> QED
    BY <1>4, <1>5, <1>6, <1>7, <1>9, <2>1 DEF ReaderStep
<1> QED
  BY <1>2, <1>8, <1>9 DEF Next

LEMMA NumbersNext ==
  ClientInv /\ NumbersInv /\ [Next]_vars => NumbersInv'
<1> SUFFICES ASSUME TypeInv, OneDisconnect, LogoutKept, NumbersInv, [Next]_vars
             PROVE  NumbersInv'
  BY DEF ClientInv
<1> USE DEF NumbersInv
<1>1. CASE UNCHANGED vars
  BY <1>1 DEF vars, main, counters, EventsUnnumbered, MessageKept, NumbersKept, NumbersOf,
              Reading, InOrder, DraftInOrder
<1>2. CASE Command
  BY <1>2, NumbersCommand, EventsNext, MessageNext DEF Next
<1>3. CASE KeyboardStep
  BY <1>3, NumbersTyped, NumbersDone, EventsNext, MessageNext DEF Next, KeyboardStep
<1>4. ASSUME NEW p \in Objects, ReaderStep(p)
      PROVE  NumbersInv'
  BY <1>4, NumbersRead, EventsNext, MessageNext DEF Next
<1> QED
  BY <1>1, <1>2, <1>3, <1>4 DEF Next

LEMMA Quotient ==
  \A n \in Nat : \A t \in Nat \ {0} : n \div t \in Nat /\ n \div t \leq n
OBVIOUS

\* What the text of a number begins with is not above it.
LEMMA BeginningsBelow ==
  \A n \in Nat : \A b \in Beginnings(n) : b \in Nat /\ b \leq n
<1> SUFFICES ASSUME NEW n \in Nat, NEW b \in Beginnings(n)
             PROVE  b \in Nat /\ b \leq n
  OBVIOUS
<1>1. PICK scale \in {1} \cup (1..n \cap {10^k : k \in 1..9}) : b = n \div scale
  BY DEF Beginnings
<1>2. scale \in Nat \ {0}
  BY <1>1
<1> QED
  BY <1>1, <1>2, Quotient

\* receiptCounter and logOutid are written by both threads and without a lock;
\* still, as long as the reader of an object reads, the numbers on the wire are
\* in order and the logout has the last one.  So the receipt on which the reader
\* closes the connection is the receipt of a DISCONNECT and of nothing else,
\* although the digits of logOutid are only searched for in the text.
THEOREM ClientLogoutNumber == Safety => []LogoutNumbered
<1>1. Init => NumbersInv
  BY Known DEF Init, NumbersInv, MessageKept, NumbersKept, NumbersOf, Reading, EventsUnnumbered, Writing
<1>2. ClientInv /\ NumbersInv => LogoutNumbered
  <2> SUFFICES ASSUME TypeInv, NumbersKept, MessageKept, NEW p \in Objects, at[p] = "handle",
                      Acknowledges(got[p], logOutid[p]),
                      NEW k \in DOMAIN wire[p], Numbered(wire[p][k]),
                      got[p].receiptId \leq wire[p][k].receipt
               PROVE  wire[p][k].command = "DISCONNECT"
    BY DEF ClientInv, NumbersInv, LogoutNumbered
  <2>1. got[p].receiptId \in Nat
    BY ClientAssumption DEF Acknowledges, MessageKept, Message
  <2>2. logOutid[p] \in Nat /\ logOutid[p] \leq got[p].receiptId
    BY <2>1, BeginningsBelow DEF Acknowledges
  <2>3. InOrder(p, wire[p][k])
    BY DEF NumbersKept, NumbersOf, Reading
  <2>4. wire[p][k].receipt \in Nat
    <3>1. wire[p] \in Seq(Frame \cup {Delimiter})
      BY DEF TypeInv, TypeOK
    <3>2. wire[p][k] \in Frame
      BY <3>1 DEF Numbered
    <3> QED
      BY <3>2 DEF Frame, Numbered
  <2> QED
    BY <2>1, <2>2, <2>3, <2>4 DEF InOrder
<1> QED
  BY <1>1, <1>2, NumbersNext, ClientInvariant, PTL DEF Safety
=============================================================================
