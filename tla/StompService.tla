---------------------------- MODULE StompService ----------------------------
(***************************************************************************)
(* What the STOMP server promises its clients, without threads, frames,    *)
(* sockets or connection tables: a user has one session at a time; a       *)
(* published message reaches every member of the channel that stays        *)
(* connected, exactly once; and publishing comes to an end.                *)
(***************************************************************************)
EXTENDS Sequences

CONSTANTS
  Clients,   \* connections, one per client
  Users,     \* login names
  Channels,  \* destinations
  NoChannel, \* the client publishes nothing
  Notice     \* whatever else a client is sent: answers and receipts

VARIABLES
  session,   \* per user, the clients logged in as that user
  member,    \* per client, the channels it is subscribed to
  sending,   \* per client, the channel of the message being published
  due,       \* per client, who must still be sent that message
  inbox,     \* per client, what was sent to it and not read yet
  gone       \* clients whose connection has ended

vars == <<session, member, sending, due, inbox, gone>>

Init ==
  /\ session = [u \in Users |-> {}]
  /\ member = [c \in Clients |-> {}]
  /\ sending = [c \in Clients |-> NoChannel]
  /\ due = [c \in Clients |-> {}]
  /\ inbox = [c \in Clients |-> <<>>]
  /\ gone = {}

\* A client logs in as a user nobody is logged in as.
Login(c, u) ==
  /\ session[u] = {}
  /\ \A v \in Users : c \notin session[v]
  /\ session' = [session EXCEPT ![u] = {c}]
  /\ UNCHANGED <<member, sending, due, inbox, gone>>

Logout(c, u) ==
  /\ c \in session[u]
  /\ session' = [session EXCEPT ![u] = {}]
  /\ UNCHANGED <<member, sending, due, inbox, gone>>

Subscribe(c, ch) ==
  /\ \E u \in Users : c \in session[u]
  /\ ch \notin member[c]
  /\ member' = [member EXCEPT ![c] = @ \cup {ch}]
  /\ UNCHANGED <<session, sending, due, inbox, gone>>

\* On request, or while a logout is being carried out.
Unsubscribe(c, ch) ==
  /\ ch \in member[c]
  /\ member' = [member EXCEPT ![c] = @ \ {ch}]
  /\ UNCHANGED <<session, sending, due, inbox, gone>>

\* A member publishes: the message is due to everyone who is a member now.
Publish(c, ch) ==
  /\ sending[c] = NoChannel
  /\ ch \in member[c]
  /\ sending' = [sending EXCEPT ![c] = ch]
  /\ due' = [due EXCEPT ![c] = {r \in Clients : ch \in member[r]}]
  /\ UNCHANGED <<session, member, inbox, gone>>

Deliver(c, r) ==
  /\ r \in due[c] \ gone
  /\ due' = [due EXCEPT ![c] = @ \ {r}]
  /\ inbox' = [inbox EXCEPT
                 ![r] = Append(@, [from |-> c, destination |-> sending[c]])]
  /\ UNCHANGED <<session, member, sending, gone>>

\* Only a client that is gone is left out.
Skip(c, r) ==
  /\ r \in due[c] \cap gone
  /\ due' = [due EXCEPT ![c] = @ \ {r}]
  /\ UNCHANGED <<session, member, sending, inbox, gone>>

Done(c) ==
  /\ sending[c] # NoChannel
  /\ due[c] = {}
  /\ sending' = [sending EXCEPT ![c] = NoChannel]
  /\ UNCHANGED <<session, member, due, inbox, gone>>

\* A client is told something that is no message.
Notify(c) ==
  /\ c \notin gone
  /\ inbox' = [inbox EXCEPT ![c] = Append(@, Notice)]
  /\ UNCHANGED <<session, member, sending, due, gone>>

Read(c) ==
  /\ inbox[c] # <<>>
  /\ inbox' = [inbox EXCEPT ![c] = Tail(@)]
  /\ UNCHANGED <<session, member, sending, due, gone>>

\* The connection ends; what its client has not read may be lost.
Leave(c) ==
  /\ gone' = gone \cup {c}
  /\ inbox' \in {inbox, [inbox EXCEPT ![c] = <<>>]}
  /\ UNCHANGED <<session, member, sending, due>>

Next ==
  \E c \in Clients :
    \/ \E u \in Users : Login(c, u) \/ Logout(c, u)
    \/ \E ch \in Channels : Subscribe(c, ch) \/ Unsubscribe(c, ch) \/ Publish(c, ch)
    \/ \E r \in Clients : Deliver(c, r) \/ Skip(c, r)
    \/ Done(c) \/ Notify(c) \/ Read(c) \/ Leave(c)

Fairness ==
  \A c \in Clients : /\ WF_vars(Done(c))
                     /\ \A r \in Clients : WF_vars(Deliver(c, r) \/ Skip(c, r))

Safety == Init /\ [][Next]_vars

Spec == Safety /\ Fairness
=============================================================================
