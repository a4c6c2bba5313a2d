----------------------------- MODULE EventStore ------------------------------
(***************************************************************************)
(* savedEvents of one channel: the reader thread adds each event and sorts *)
(* the vector, the keyboard thread goes over it twice for a summary.  They *)
(* share no lock: eventMutex is the keyboard thread's alone.               *)
(*                                                                         *)
(* std::sort of up to 16 elements is an insertion sort, here of the last   *)
(* element, and copies one event per step.  A push_back moves the vector   *)
(* when it is full; who goes over it then reads freed memory: anything, or *)
(* a crash.  Other clients' reports come through the server in any order;  *)
(* this client's own come back to it as well.                              *)
(***************************************************************************)
EXTENDS EventText

CONSTANTS
  Users,        \* names, as texts
  User,         \* the one of this client
  Channel,      \* as a text
  Reports,      \* events as read from files
  MaxReports,   \* bound: messages on the channel
  SubscriptionIds,  \* of the senders, as texts
  ConnectionIds

ASSUME EventAssumption ==
  /\ User \in Users
  /\ MaxReports \in 0..16
  /\ \A e \in Reports : "date" \in DOMAIN e /\ e.date \in Int

VARIABLES
  subscribed,   \* this client is
  mail,         \* MESSAGE texts that are on their way to it
  reports,      \* ghost: user and event of each message sent to it, in order
  saved,        \* savedEvents[channel]
  capacity,     \* of the vector
  reader,       \* [at, text, event, hole]
  summary,      \* [at, user, i, end, stale, total, active, forces, listed, quiet]
  console       \* the last message printed

vars == <<subscribed, mail, reports, saved, capacity, reader, summary, console>>

NoSummary == [at |-> "none", user |-> <<>>, i |-> 1, end |-> 0, stale |-> FALSE,
              total |-> 0, active |-> 0, forces |-> 0, listed |-> <<>>, quiet |-> TRUE]

Waiting == [at |-> "get", text |-> <<>>, event |-> Null, hole |-> 0]

Init ==
  /\ subscribed = FALSE
  /\ mail = <<>>
  /\ reports = <<>>
  /\ saved = <<>>
  /\ capacity = 0
  /\ reader = Waiting
  /\ summary = NoSummary
  /\ console = <<>>

Alive == reader.at # "aborted"

AtPrompt == summary.at \in {"none", "done"}
-----------------------------------------------------------------------------
(* The channel *)

Join ==
  /\ Alive /\ AtPrompt
  /\ ~ subscribed
  /\ subscribed' = TRUE
  /\ UNCHANGED <<mail, reports, saved, capacity, reader, summary, console>>

Exit ==
  /\ Alive /\ AtPrompt
  /\ subscribed
  /\ subscribed' = FALSE
  /\ UNCHANGED <<mail, reports, saved, capacity, reader, summary, console>>

\* The text that reaches a subscriber when u reports e.
Message(u, e, subscription, connection) ==
  LET send == ParseFrame(DecodeText(SendText(Channel, Body(u, e))))
  IN  EncodeFrame(MessageFrame(send, subscription, connection), MessageKeys)

Texts ==
  [u \in Users, e \in Reports |->
     {Message(u, e, s, c) : s \in SubscriptionIds, c \in ConnectionIds}]

\* sendEventToChannel of any client that has joined, and the server.
Report(u, e) ==
  /\ Alive
  /\ u = User => AtPrompt
  /\ subscribed
  /\ Len(reports) < MaxReports
  /\ \E t \in Texts[<<u, e>>] : mail' = Append(mail, t)
  /\ reports' = Append(reports, [user |-> u, event |-> e])
  /\ UNCHANGED <<subscribed, saved, capacity, reader, summary, console>>
-----------------------------------------------------------------------------
(* The reader thread: the MESSAGE branch of processServerMessages *)

Disturbed(moved) ==
  summary' = IF AtPrompt THEN summary
             ELSE [summary EXCEPT !.quiet = FALSE, !.stale = @ \/ moved]

\* push_back; a full vector moves to memory twice the size.
Receive ==
  /\ reader.at = "get"
  /\ mail # <<>>
  /\ ~ Undated(Head(mail))
  /\ mail' = Tail(mail)
  /\ LET e == ParseEvent(Head(mail))
         n == Len(saved) + 1
     IN  /\ saved' = Append(saved, e)
         /\ capacity' = IF n > capacity THEN Max({1, 2 * capacity}) ELSE capacity
         /\ Disturbed(n > capacity)
         /\ reader' = [at |-> "sort", text |-> Head(mail), event |-> e, hole |-> n]
  /\ UNCHANGED <<subscribed, reports, console>>

\* stol throws in the reader thread: the client is terminated.
ReceiveThrows ==
  /\ reader.at = "get"
  /\ mail # <<>>
  /\ Undated(Head(mail))
  /\ reader' = [reader EXCEPT !.at = "aborted"]
  /\ UNCHANGED <<subscribed, mail, reports, saved, capacity, summary, console>>

LaterOrEqual(k) ==  \* mutant: the comparison is not strict
  k > 1 /\ reader.event.date \leq saved[k - 1].date

Later(k) == k > 1 /\ reader.event.date < saved[k - 1].date

Shift ==
  /\ reader.at = "sort"
  /\ Later(reader.hole)
  /\ saved' = [saved EXCEPT ![reader.hole] = saved[reader.hole - 1]]
  /\ reader' = [reader EXCEPT !.hole = @ - 1]
  /\ Disturbed(FALSE)
  /\ UNCHANGED <<subscribed, mail, reports, capacity, console>>

Place ==
  /\ reader.at = "sort"
  /\ ~ Later(reader.hole)
  /\ saved' = [saved EXCEPT ![reader.hole] = reader.event]
  /\ reader' = [reader EXCEPT !.at = "print"]
  /\ Disturbed(FALSE)
  /\ UNCHANGED <<subscribed, mail, reports, capacity, console>>

Show ==
  /\ reader.at = "print"
  /\ console' = Printed(reader.text)
  /\ reader' = Waiting
  /\ UNCHANGED <<subscribed, mail, reports, saved, capacity, summary>>
-----------------------------------------------------------------------------
(* The keyboard thread: handleSummaryCommand *)

Summarise(u) ==
  /\ Alive /\ AtPrompt
  /\ subscribed
  /\ summary' = [NoSummary EXCEPT !.at = "count", !.user = u, !.end = Len(saved),
                                  !.quiet = reader.at \in {"get", "print"}]
  /\ UNCHANGED <<subscribed, mail, reports, saved, capacity, reader, console>>

Says(e, key) == <<key>> \in DOMAIN e.info /\ e.info[<<key>>] = <<"true">>

\* What element i of the vector is found to be: after a move the old memory
\* still has it, or something that is nobody's event.
Reads(i) ==
  IF summary.stale THEN {saved[i], Null} ELSE {saved[i]}

AnyOwner(e) == e # Null  \* mutant: everybody's events are counted

Mine(e) == e # Null /\ e.owner = summary.user

Count ==
  /\ Alive
  /\ summary.at = "count"
  /\ summary.i \leq summary.end
  /\ \E e \in Reads(summary.i) :
       LET one(b) == IF b THEN 1 ELSE 0
           says(key) == Mine(e) /\ Says(e, key)
       IN  summary' = [summary EXCEPT !.i = @ + 1,
                                      !.total = @ + one(Mine(e)),
                                      !.active = @ + one(says("active")),
                                      !.forces = @ + one(says("forces_arrival_at_scene"))]
  /\ UNCHANGED <<subscribed, mail, reports, saved, capacity, reader, console>>

\* The second loop takes the vector as it is now.
Counted ==
  /\ Alive
  /\ summary.at = "count"
  /\ summary.i > summary.end
  /\ summary' = [summary EXCEPT !.at = "list", !.i = 1, !.end = Len(saved), !.stale = FALSE]
  /\ UNCHANGED <<subscribed, mail, reports, saved, capacity, reader, console>>

List ==
  /\ Alive
  /\ summary.at = "list"
  /\ summary.i \leq summary.end
  /\ \E e \in Reads(summary.i) :
       summary' = [summary EXCEPT !.i = @ + 1,
                                  !.listed = IF Mine(e) THEN Append(@, e) ELSE @]
  /\ UNCHANGED <<subscribed, mail, reports, saved, capacity, reader, console>>

Listed ==
  /\ Alive
  /\ summary.at = "list"
  /\ summary.i > summary.end
  /\ summary' = [summary EXCEPT !.at = "done"]
  /\ UNCHANGED <<subscribed, mail, reports, saved, capacity, reader, console>>

\* Freed memory is not always readable.
SummaryCrashes ==
  /\ Alive
  /\ summary.at \in {"count", "list"}
  /\ summary.i \leq summary.end
  /\ summary.stale
  /\ reader' = [reader EXCEPT !.at = "aborted"]
  /\ UNCHANGED <<subscribed, mail, reports, saved, capacity, summary, console>>
-----------------------------------------------------------------------------
Next ==
  \/ Join \/ Exit
  \/ \E u \in Users : Summarise(u) \/ \E e \in Reports : Report(u, e)
  \/ Receive \/ ReceiveThrows \/ Shift \/ Place \/ Show
  \/ Count \/ Counted \/ List \/ Listed \/ SummaryCrashes

Spec == Init /\ [][Next]_vars
-----------------------------------------------------------------------------
(* Properties *)

\* What a subscriber should save when r.user reports r.event.
Expected(r) ==
  [r.event EXCEPT !.owner = r.user,
                  !.info = (<<"active">> :> Flag(r.event.info, "active"))
                             @@ (<<"forces_arrival_at_scene">> :>
                                   Flag(r.event.info, "forces_arrival_at_scene"))
                             @@ (<<"description">> :> r.event.description)]

\* A message as it was sent.
Sent == [user : Users, event : Reports]

ASSUME NullIsNoEvent == \A r \in Sent : Expected(r) # Null

TextsOf(r) == Texts[<<r.user, r.event>>]

\* A report reaches a subscriber with its fields, or with a date that is none.
TextsSurvive ==
  \A r \in Sent : \A t \in TextsOf(r) : Undated(t) \/ ParseEvent(t) = Expected(r)

\* By date, then by arrival.
Precedes(r, i, j) ==
  \/ r[i].event.date < r[j].event.date
  \/ r[i].event.date = r[j].event.date /\ i < j

\* The first n messages of r in that order.
InOrder(r, n) ==
  [k \in 1..n |->
     Expected(r[CHOOSE i \in 1..n : Cardinality({j \in 1..n : Precedes(r, j, i)}) = k - 1])]

Handled == Len(reports) - Len(mail)

\* Through body, codec, MESSAGE and the search for labels, every event that
\* was reported is saved once, with its fields, by date.
SavedAsReported ==
  reader.at \in {"get", "print"} => saved = InOrder(reports, Handled)

\* l has the events of u among the first n of s, in their order.
Lists(l, s, u, n) ==
  \E q \in [DOMAIN l -> 1..n] :
    /\ \A j, k \in DOMAIN l : j < k => q[j] < q[k]
    /\ {q[k] : k \in DOMAIN l} = {k \in 1..n : s[k].owner = u}
    /\ \A k \in DOMAIN l : l[k] = s[q[k]]

\* A summary that no message disturbed lists the user's events by date, and
\* its totals are those of the list.
SummaryExact ==
  summary.at = "done" /\ summary.quiet =>
    LET flagged(key) == {k \in DOMAIN summary.listed : Says(summary.listed[k], key)}
    IN  /\ \E s \in {InOrder(reports, n) : n \in 0..Len(reports)} :
             Lists(summary.listed, s, summary.user, Len(s))
        /\ summary.total = Len(summary.listed)
        /\ summary.active = Cardinality(flagged("active"))
        /\ summary.forces = Cardinality(flagged("forces_arrival_at_scene"))

\* "Iterate over events for the given channel" (StompProtocol.cpp:366): the
\* numbers of a summary are those of its reports.
SummaryConsistent == summary.at = "done" => summary.total = Len(summary.listed)

\* "Replace the epoch timestamp in the original message with the date-time
\* string" (StompProtocol.cpp:186).
DateReadable ==
  console # <<>> => Field(console, "date time") = <<"date">>
=============================================================================
