# A verification of the STOMP server and client

TLA+ models of this repository's Java server (thread-per-client and reactor) and
C++ client, TLC configurations that check them on small instances, and TLAPS
proofs that hold for instances of any size.

Abbreviations: `srv/` and `impl/stomp/` are under
`src/server/src/main/java/bgu/spl/net/`, `client/` is `src/client/`.

## The system

| Part | State | Operations | Talks to |
|---|---|---|---|
| `srv/ActorThreadPool` | `playingNow`, a weak map of task queues, an executor | `submit`, `complete`, `shutdown` | called by the reactor's selector thread; runs tasks on workers |
| `srv/ConnectionsImpl` | four concurrent maps: handlers by id, subscriber lists by channel, passcodes, active users | `send` (to an id, to a channel), `addConnection`, `subscribeToChannel`, `unsubscribeFromChannel`, `registerUser`, `authenticateUser`, `loginUser`, `logoutUser` | shared by every protocol object; writes to connection handlers |
| `impl/stomp/StompProtocol` | `connectionId`, `username`, `subscriptions` | `process` of CONNECT, SUBSCRIBE, UNSUBSCRIBE, SEND, DISCONNECT | one per connection, run by that connection's thread or act |
| `srv/BaseServer`, `srv/BlockingConnectionHandler` | id counter; per connection a socket and `connected` | accept loop; read loop, `send`, `close` | a thread per client; `send` is called by the threads of other clients |
| `srv/Reactor`, `srv/NonBlockingConnectionHandler` | selector tasks, `connectionId`; per connection a write queue, interest ops; a buffer pool | `serve`, `handleAccept`, `handleReadWrite`, `updateInterestedOps`; `continueRead`, `continueWrite`, `send` | selector thread, pool workers |
| `impl/stomp/StompEncoderDecoder`, `StompFrame` | bytes of the unfinished frame | `decodeNextByte`, `encode` | one per connection |
| `client/src/StompClient`, `StompProtocol`, `ConnectionHandler` | `isConnected`, `isLogin`, `subscriptions`, counters, `savedEvents` | keyboard commands; reader loop | keyboard thread and reader thread share one protocol object |
| `client/src/event`, `include/json.hpp` | the file, lexer, parser, the value under construction | `parseEventsFile` | keyboard thread |
| `include/json.hpp`, the rest | a value; the bytes it is written to or read from | pointers, `patch_inplace`, `diff`, `merge_patch`, `flatten`; `to_*` and `from_*` of five binary formats | no caller in the client |

What is hard here: handlers of different connections run concurrently on the
shared tables, with one atomic operation at a time and nothing that makes a
sequence of them atomic; threads write to each other's sockets, which may be
full or closed; clients vanish at any time; the pool must keep the order of one
connection's bytes without holding a worker for it; and in the client two
threads share unsynchronised state. `PROJECT.json` lists the hazards one by one,
with the line and the properties that cover them.

What makes each part correct:

* pool: tasks of one act run one at a time, in order, and none is forgotten;
* tables and protocol: one session per user, the right passcode, the two records
  of a subscription agree, a logout leaves nothing behind, a message reaches
  every subscriber that stays, once;
* thread-per-client server: every frame read is dealt with, whatever other
  clients do;
* reactor: no write wakeup is lost, frames are decoded whole and in order, what
  arrives is worked off, ids are unique, the selector thread survives its clients;
* client: one DISCONNECT per connection and nothing after it, the prompt comes
  back, both sides agree on the subscriptions, a logout ends the session;
* codec, events: what a subscriber saves is what was reported, by date, and a
  summary adds up;
* JSON reader: a file is read as the grammar says or refused;
* JSON values: a difference applied to its source gives its target, a patch that
  fails stops exactly where it failed, the functions that follow a pointer agree
  on what it names, and a value written in a binary format is read back.

## Modules

    SerialActors <-- ActorPool <-- MCActorPool
         |               ^-------- ActorPoolProofs
         v
      Reactor <-- MCReactor, ReactorProofs
         ^
    StompBroker <-- TpcServer <-- MCTpcServer
    StompService <-----'   ^----- TpcProofs <-- TpcRefinement
                           ^----- ClientServer <-- MCClientServer
    StompClient <-- MCStompClient    |  ^
         ^   ^-- StompClientProofs <-+--+-- ClientServerProofs --> TpcProofs
         '---------------------------'
    StompBroker <-- BrokerProofs <-- TpcProofs, ReactorProofs
    StompCodec <-- EventText <-- EventStore <-- MCEventStore, EventStoreProofs
    JsonValue <-- JsonLexer, JsonGrammar <-- JsonParser <-- EventsFile <-- MCEventsFile
        ^-- JsonPatch <-- MCJsonData
        '-- JsonWriter <-- JsonReader <-- JsonBinary <-- MCJsonData

### Server

**SerialActors** is what the pool promises: one FIFO queue per act, at most one
task of an act running.

**ActorPool** is `ActorThreadPool`. `pc` says where a thread is; it is inside
`submit` or `complete` exactly while it owns `monitor[act]`. `Submit`, `Play` and
`Defer` are the branches of `submit`; `Lookup` and `Create` the two critical
sections of `pendingRunnablesOf`; `Execute` the call of `threads.execute` (which
throws after `shutdownNow`); `Take` and `Finish` the worker; `EnterComplete`,
`Drain` and `Poll` `complete`; `Collect` the garbage collector emptying the weak
map. The refinement mapping puts the task already handed to the executor in front
of the pending queue.

**StompBroker** has the tables of `ConnectionsImpl` and the handlers of
`StompProtocol`, one step per access to a shared table. Purely local work (header
checks, the protocol's own map) is part of the step it leads to. `Throws` and
`Refused` are the conditions under which `process` throws or answers ERROR. A
frame is a record of the headers the code looks at; `Null` is a missing one. The
actions say nothing of sockets; the two servers EXTEND this module and conjoin
them. `registerUser` followed by `authenticateUser` is one step, since the entry
compared with is never replaced; `connections.remove` and the `close` after it are
one step, since a sender sees the handler through the map or not at all.

**TpcServer** adds `BaseServer` and `BlockingConnectionHandler`: `Accept`,
`Receive`, `Exit` (every way the loop of `run` ends), `Reply`, `Write` (any
thread's `send`), `Close`. A socket is a bounded FIFO (`outbox`): a write waits
while it is full, may be lost or fail when the client is gone, fails when the
server has closed it. Clients read, and drop their connection at any time.

**StompService** is what the server promises: `session`, `member`, the message
being published and to whom it is `due`, `inbox`. The mapping reads `session` off
`activeUsers`, `member` off the subscriber lists, `due` off the ids the iterator
has not visited. Only a client whose connection has ended may be left out. In an
`inbox` an answer or a receipt is a `Notice`; what it says is the protocol's business.

**Reactor** is `Reactor` with `NonBlockingConnectionHandler`. The selector thread
goes round its loop at `at`: `Wait` is `select` with the keys it found,
`RunTask` one of `selectorTasks`, `Accept`, `Add` and `RegisterKey` the parts of
`handleAccept`, `Read` the read of `continueRead`, `WriteHead` and `Unwatch`
`continueWrite`. The pool is `SerialActors`, which `ActorPool` implements, so the
two levels meet in one abstract interface. A task is a buffer, or `StartTask`, the
`protocol.start` that `handleAccept` submits; that one reads the field
`connectionId` when it runs, not when it was submitted.

The bytes of a frame are two pieces, `Begin` and `End`; the first stands for as many
bytes as one likes. A chunk is any number of pieces, so it may begin and end inside a
frame, or complete none. `NextPiece` is `decodeNextByte`: the text so far (`decoder`)
grows, or it is complete, cleared and parsed. `TaskEnds` releases the buffer when it is
used up and when `process` or `parseFrame` throws, in the second case with what is left
in it, which may be the beginning of a cut frame. The decoder then takes the end, from
the next chunk, for a whole frame: `Rest` says what it reads as. A
worker that answers appends to a write queue and then, in a step of its own
(`Watch`), asks for writability; the key it looked up may be cancelled before the
selector uses it.

### Client

**StompClient** is `StompClient.cpp` and `StompProtocol.cpp`: the keyboard thread
and one detached reader thread per `StompProtocol` object. `at` says where a
thread is. Each load or store of `isConnected`, `receiptCounter` and `logOutid` is
a step, and so are the two writes of a frame (its text, then its terminator), so
that two threads can interleave at each; `connectionMutex` is taken by `disconnect`
alone. The environment is open: any message of `Messages` may come at any time, and
reads and writes may fail. A message is its command, the other commands its text
mentions (`message.find` looks at the whole text), a receipt id and whether its
date is a number.

**ClientServer** joins that client with TpcServer: a login is a connection, the
server's handler has the name of the client's object. The bytes towards the server
are what the client has written (`wire`) beyond what the server has `taken`;
`Decodes` makes frames of them, and garbage of two frames that ran into one
another. Bytes towards the client are the server's `outbox`. When the connection is
reset in the middle of a message, `getFrameAscii` fails but the reader handles what it
has (`StompProtocol.cpp:123-130`): `Cuts` is what a message is after such a cut, without
its command, with the first digits of its receipt or with part of its date.

**StompCodec** is `StompEncoderDecoder` and `StompFrame` on texts. A text is a
sequence of pieces: line end, colon, space, and words nothing looks into. A
non-ASCII piece becomes another text when its bytes are decoded one by one.
**EventText** follows an event: the body `sendEventToChannel` writes, the MESSAGE
`handleSend` makes, the search for labels of `parseEventMessage`. **EventStore** is
`savedEvents` of one channel: the reader adds and sorts (the insertion sort that
`std::sort` is for up to 16 elements, one copy per step), the keyboard thread goes
over the vector twice for a summary, and no lock orders the two. After a
`push_back` that moves the vector the other thread reads freed memory: what was
there, something else, or a crash. A torn read of one event is not followed
further.

### The reader of event files

**JsonLexer** is `lexer::scan` of the vendored `json.hpp`, one character a step,
with `get` and `unget`, escapes, surrogates, UTF-8 and the places of `scan_number`.
**JsonParser** is `sax_parse_internal` with `json_sax_dom_parser`; a pointer into
the value is the path to it. **EventsFile** is `parseEventsFile` with the
conversions it uses and `dump`. **JsonValue** has the values and `dump`.
**JsonGrammar** is the reference: what a text denotes by RFC 8259, split
declaratively, with nothing taken from the code.

Numbers are scaled: an unsigned of 8 bits, an integer from -128, `int` of 7 bits,
floats of at most 9 digits before the point and with the `%.5g`-like shape of
`to_chars` at 5 digits instead of 17. Floats are decimals with so few digits that
no double rounds them: rounding (`strtod`, Grisu2) is not modelled.

What a reader should know of the code here. A `date_time` that is a string throws
`type_error.302`, and `data/events1_partial.json` is such a file; a missing or
unreadable file throws `parse_error.101`. No caller catches: the client is
terminated (`ReportThrows` in StompClient). A `date_time` that is a fraction, a boolean
or too large for an `int` is converted without an error; `EventsExact` says what a
report keeps, dates an `int` holds among them, and leaves those out. A number is known
to end when the character after it is read, and that one is ungotten before the parser
looks at the number. If it is a line end, `unget` takes back the line but can not give
back the column: a number refused at the end of its line, as in `[1 2` and a line end,
is reported at column 0. `PositionExact` pins this and is about every state, those after
an `unget` included.

### JSON values

The client calls nothing of this part of the vendored header; it is modelled as
the library it is, for any caller.

**JsonPatch** has the functions on pointers (`split`, `array_index`,
`get_checked`, `get_unchecked`, `get_and_create`, `contains`, `flatten`,
`unflatten`) as operators, and a call of `patch_inplace` or `merge_patch` as a
machine: `doc` is the value in place, an operation of the patch is a step, and an
exception ends the call with `doc` as it then is. `Add`, `TakeAway`, `Replace`,
`Move`, `Copy` and `Test` are the cases of the switch, `Refuse` and `NotAPatch`
what is thrown before it. `Diff` is the patch that `diff` computes. An exception is
its number.

**JsonWriter** has `binary_writer` for CBOR, MessagePack, UBJSON, BJData and BSON,
byte by byte, with the widths its comparisons choose and the sizes BSON computes
ahead. **JsonReader** has `binary_reader`: an operator gets the bytes and how many
are consumed, and gives a value or the number of the exception. Numbers have their
full width, as sequences of bytes, so that every boundary of 8, 16, 32 and 64 bits
is the real one; floats are their bits. **JsonBinary** writes a value and reads it
back, cuts the bytes short or adds one, and reads bytes of other origin, writes
the value and reads that. **MCJsonData** runs both machines.

`Expected` in JsonBinary says what a format does not keep. Subtypes of binary
values have 8 bits in MessagePack and BSON; in CBOR they are read only with the tag
handler `store`. UBJSON and BJData make an array of numbers of a binary value. An
ndarray of BJData with one dimension, or one row, comes back as a plain array, one
of type "char" as strings; and if such a character is above 127, it is written and
can not be read. NaN and infinity are halves in CBOR.

What else a reader should know of the code here:

* `remove` of a child of a number or a string is accepted and does nothing; `add`
  to one reaches `JSON_ASSERT(false)` (`Aborts`);
* a `move` whose `add` fails has removed the value already, and it is lost;
* `operator[]` with a pointer that throws half way leaves the containers it
  created; `contains("/")` throws `out_of_range.404` or answers, by the kind of the
  value it is at;
* where an exception is thrown while arguments are evaluated, either order is a
  behaviour of the model (`Thrown`);
* CBOR: a negative number below the range of `int64_t` wraps round; a size of
  eight bytes FF means an indefinite length;
* UBJSON and BJData: a string with a negative size is empty; a BJData size of eight
  bytes FF means that there is none, and a dimension with the marker 0 is skipped;
* BSON: the sizes in a document are not looked at; a boolean at the end of the input
  is true; a string whose zero byte is missing gives a discarded value without an
  exception.

## Runs

| Run | Instance | Shows |
|---|---|---|
| `pool` | 2 acts, 3 tasks, 2 callers, 2 workers | mutual exclusion, no forgotten task, nothing starts after a shutdown, the inductive invariant; the pool implements `SerialActors` with its fairness; every task runs |
| `tpc_channels` | 2 connections, 2 users, 2 passcodes, 1 channel, 3 frames each of every kind | the tables keep their types, also where a frame is refused or `process` throws; one session per user, authentication, the session invariant; the records of a subscription agree; a logout is complete; the server implements `StompService` |
| `tpc_progress` | 2 connections: log in, subscribe, publish | every frame is answered, every publication ends |
| `client_threads` | 2 logins, 4 commands, 2 events a file, any server | one DISCONNECT per connection, nothing after the user's, the prompt comes back |
| `session_agree` | 2 logins of one user, 3 commands, messages cut when a connection breaks | client and server agree on subscriptions; a socket is closed only for its own receipt; a logout ends the session in every table; a reader ends |
| `reactor` | 2 clients: an exception with a message behind it while another logs in; up to 3 frames; a logout; a client that leaves; in any chunks | no lost write wakeup; frames are decoded whole and in order, and torn only by an exception; what arrived is worked off |
| `events` | 3 messages, 2 users, 4 reports | what is saved is what was reported, by date; an undisturbed summary adds up |
| `json` | 18584 files | the reader agrees with the grammar; position, stacks, events and `dump` are right; no read gets stuck |
| `json_data` | 12173 calls: all pairs of 28 documents, and 533 operations with what may follow them; 19 pointers; 185 values in up to 10 formats; 9873 byte streams | a difference and a merge patch lead to their target, each operation of a patch changes what it names and a failed one no more than that; pointers agree; `unflatten` inverts `flatten`; what is written is read back, and not from a part of it; sizes are right |
| `tpc_stale_user` | 2 connections, 1 user | **violated**: see findings |
| `reactor_ids` | 2 clients that come at the same time | **violated**: see findings |
| `reactor_dies` | 2 clients, 1 frame each | **violated**: see findings |

### Further configurations

The type invariants `TypeOK` of StompClient, Reactor and JsonParser hold when added
to `client_threads`, `reactor` and `json`, and so does `BuffersExclusive` of Reactor:
a buffer of `BUFFER_POOL` has one owner, without which `FramesInOrder` fails. Those
of StompClient and Reactor are theorems.

Each of the following checks a property that quotes a comment or a message of the
code, or says what a user of it expects, and ends with a counterexample. Run them by
hand: `tlc -workers 2 -config X.cfg M`. `client_broken` lists four such
properties and `session_broken` two; keep one of them to see its counterexample.

| Configuration | Module | Property | What the counterexample shows |
|---|---|---|---|
| `tpc_reused_id` | MCTpcServer | `LogoutClean` | a subscription id used for a second channel makes the protocol forget the first, while its list keeps the connection; subscribing again enters it twice, and `logoutUser` ("Remove the user from all channels", `ConnectionsImpl:101`) removes one entry |
| `reactor_caught` | MCReactor | `SelectorGoesOn` | a write fails, `close()` is called, and `continueWrite` goes on for ever with a queue that does not empty |
| `reactor_logout` | MCReactor | `LogoutIsOwn` | a second DISCONNECT in the stream is processed after the logout, with the user name still set, and logs out and closes the session the user has on another connection |
| `client_broken` | MCStompClient | `LoginHasReader` | after an ERROR ended the reader, `isLogin` is still true: the next login is "successful" and nobody reads it |
| `client_broken` | MCStompClient | `UniqueReceipts` | keyboard and reader load the same `receiptCounter` ("Generate a unique receipt ID") |
| `client_broken` | MCStompClient | `FramesWhole` | the text of one thread's frame comes between the text and the terminator of the other's |
| `client_words` | MCStompClient | `OnlyErrorsDisconnect` | an event whose text has the word ERROR makes every subscriber disconnect |
| `client_broken` | MCStompClient | `TerminatesGracefully` | a refused TCP connection leads to `join` on a thread that was never started, or was detached; a date that is no number and a file that does not parse terminate the client as well |
| `session_broken` | MCClientServer | `ReaderCloses` | `disconnect` clears `isConnected` first, so the reader can leave its loop without the receipt, and the socket stays open |
| `session_broken` | MCClientServer | `LoginAfterLogout` | the receipt is sent before `logoutUser`: a client that logs in again at once finds its old session in the way |
| `events_race` | MCEventStore | `SummaryConsistent` | a message arrives between the two passes: the totals are not those of the list |
| `events_text` | MCEventStore | `SavedAsReported` | a line end, a label, a space at the end or a letter outside ASCII is not saved as reported |
| `events_digits` | MCEventStore | `DateReadable` | the digits of the date are first found in a header, which is replaced, and the date stays |

Where these show that the code goes wrong, the passing runs go on beside it:
`reactor` runs with `Spaced` (no client connects before the start task of the one
before has run, so that ids are unique), `events` with texts free of line ends and of
its labels before the right one, and subscription ids without the digits of a date;
`tpc_channels` and `tpc_progress` with ids that stand for one channel
(`OneChannelPerId`), as the C++ client's counter ensures. No theorem about the reactor
assumes `Spaced`.

### Bounds

`MaxFrames` bounds what a client sends and `Capacity` what a socket holds; `Ids`
bounds the connections. Two connections make every pairwise race, and a publisher
is a member of its channel, so a fan-out visits two; the theorems have any number. Three frames are log in, subscribe, publish (or
leave). A capacity of one makes every second unread frame block its writer. In the
pool two tasks of an act give one running and one waiting, the third makes order
visible. In the client two logins make the leftovers of the first meet the second;
four commands are login, logout or a join, and two more; two events make a report
send more than one frame. In the reactor the scripts of MCReactor have up to three
frames, that is six pieces, in any chunks; one client sends a frame on which `process`
throws and another behind it while the second logs in. With two buffers a chunk is
decoded while the next waits; a third read waits for one of them. The theorems have any
scripts and any number of buffers. Three messages make the insertion sort
move two elements and the vector move twice. The files string together the pieces
of each construct of JSON up to length four, which takes every branch of the lexer
and the parser that is modelled, plus whole event files.

In `json_data` the documents have up to three levels and the patches two
operations, the second of which meets what the first has left. Values are one
below, at and above each boundary between widths; strings and binaries have up to
256 bytes and arrays up to 24 elements: writers choose sizes of up to 16 bits, and
readers meet the larger ones in streams. A long text is cut up to three bytes from
its ends. Streams of two bytes have any first byte and one of eight second ones;
longer ones are made for each branch of the readers.

`session_agree` has `Capacity = 2`: a reader that left its loop without the receipt
leaves its socket open and unread, two messages fill it, and the server's thread blocks
in its next write, as with every client that stops reading. `LogoutTakesEffect` names
this case (`Stuck`) and promises the end of the session in all others, so it does not
depend on the bound: it was checked with 1, 2 and 3.

Symmetry is used in safety runs only, over connections, acts, tasks and threads.
Deadlock is checked in `json`, where a read must reach its end; elsewhere the
system may stop: the tasks are done, the user has typed all commands, the clients
have come and gone.

### Fairness

A thread inside the server keeps running (weak fairness per thread): the JVM
schedules it, and it waits for nothing but monitors and sockets. A job queued in
the executor is eventually taken (strong fairness per job): the queue is FIFO and
workers come back for the next. The selector thread, and in the reactor each
worker's task, have weak fairness for the same reason. Clients read what they are
sent, as the client's reader thread does; without it a full socket holds up every
publisher of the channel for good, which is the design of this server and not a
property to be proved. In `StompClient` the keyboard thread and each reader have
weak fairness of what they do by themselves, but a `Get` has none: the server may
be silent. In `ClientServer` the server is there, so `ReaderRuns` includes the read
of what it has sent; `Killed` is the kernel closing the sockets of a terminated
client. Nobody has to connect, type, send, log out or shut down.

## Findings

* `tpc_stale_user`: a client whose connection is lost stays in `activeUsers`, in
  the channels and in the map of handlers: the loop in `BlockingConnectionHandler`
  ends at line 37, and `ConnectionsImpl.disconnect`, written for this, has no
  caller. The user can not log in again: "User is already logged in"
  (`ConnectionsImpl:94`) is then said of a user nobody is logged in as.
* `reactor_ids`: `handleAccept` is to "Assign a unique connectionId" (`Reactor:102`),
  but the task it submits reads the field when it runs. After a second accept it gets
  the other connection's id: both protocols work under one id, and the table maps it
  to one of the handlers only.
* `reactor_dies`: a worker looks the key up and asks for writability, the client
  leaves and its channel is closed, and the selector thread uses the cancelled key
  (or, if the key was gone already, none). The exception leaves `serve`, "the main
  loop of the server" (`Server:12`), while the pool's threads keep the process
  alive without a listener.

The further configurations above are disagreements of the same kind.

What `FramesInOrder` has to allow is one more thing to know of the reactor: after an
exception in `process` the end of a frame whose beginning was dropped is decoded as a
frame its client never sent. `TornOnlyByThrow` says that nothing else does this.

## Proofs

`ActorPoolProofs` proves, for any sets of acts, tasks and threads (callers and
workers disjoint, `Null` none of them): `PoolInvariant` (`IndInv`), `PoolTypeOK`,
`PoolMutualExclusion`, `PoolNothingStranded` and `PoolNothingStartsWhenDown`. None
of the last three is inductive. What carries them is the *token* of an act: the one
job that is in the executor or with the thread that will schedule, run or complete
a task. There is at most one (`TokenUnique`), it exists only while the act plays
(`TokenPlays`) and, until a shutdown, as long as it does (`PlayingCarried`); the
monitor (`MonitorOwned`) makes the test of `playingNow` and of the queue still true
when acted upon (`DeferredPlays`, `PendingMapped`); so a waiting task is always of
an act that plays (`PendingPlays`). Each action has a lemma, with a step per
conjunct.

Its second part proves `PoolImplementsSerialActors`: the pool's `Safety` implies
`SerialActors`' `Safety` under the refinement mapping. The mapping chooses, per
act, the task in the executor and the task that runs; because the token is unique,
the sets it chooses from have at most one element. Each action is then a step of
the abstract queue of its act or changes nothing there.

`TpcProofs` proves, for any connections, users, channels, frames and bounds,
`TpcSessionInvariant` (`SessionInv`), `TpcOneSession` and `TpcAuthentication`. Ids
are unique because they come from the counter (`Registered`); `loginUser` enters a
user only if nobody has it; only a session's own `logoutUser` takes it out again
(`SessionAgrees`); and it does so once, because a connection that has logged out
has its `connected` flag down and processes no other frame (`SilentAfterLogout`).
That a login took the right passcode needs more than the check itself: the entry it
was compared with is not replaced before the login (`LoginInv`), since
`registerUser` only makes entries where there is none. `SessionTypeOK` is the part
of the types the argument needs. The assumptions are `NullIsNoValue`,
`FramesAssumption` and `IdsAreNumbers`.

`BrokerProofs` has what holds in both servers: the tables and the protocols keep
their types, and a protocol that delivers, logs in, logs out or cleans up has the
target, the passcode, the user or the id it needs (`Equipped`), for every silent step
and every step in which a frame is written. What is not routine in it is
`RemoveFirst`, the `remove` of a list: the least place of an id exists (numbers are
well-founded), and what is left is a list of ids again. `TpcTypeOK` in `TpcProofs`
and `ReactorTypeOK` are the full type invariants of the two servers on top of it.

The last part of `TpcProofs` proves `TpcMembership` (`MembershipAgrees`) and
`TpcLogoutClean` (`LogoutClean`) under `OneChannelPerId`, which the client's
`subscriptionCounter` justifies and `tpc_reused_id` shows to be needed. A channel
is then subscribed with one id at most, so SUBSCRIBE never replaces an entry nor
adds a connection that is listed; a connection is in a list once, so removing the
first entry is removing it; and ids are not given twice, so nothing brings it back
after its logout.

`TpcRefinement` proves `TpcImplementsService`: under the same condition the server's
`Safety` implies `ImplementsStompService`, the safety part of `StompService` under the
refinement mapping. `Login`, `Logout`, `Subscribe`, `Unsubscribe` and `Snapshot` are the
steps of the same meaning; a step of the cleanup is an `Unsubscribe`; a write is a
`Deliver` or a `Notify` if both ends of the socket are up, and else a `Skip` or nothing;
passing an id over is a `Skip`; and a connection leaves when either end is closed. The steps
need to know, besides the invariants above, `DeliveryInv` (`TpcDelivery`): an id is once
in the list a fan-out walks over and not the id being written to (so nobody is sent a
message twice, and `due` loses one client at a time); who is not found in the map has
been closed (so only a client that is gone is passed over); and a message has a sender.
Connections that are accepted meanwhile disturb nothing, since their ids are above all
those in lists, sessions, fan-outs and messages (`IdsGrow`).

`StompClientProofs` proves, for any number of objects, commands, events and
messages, and whatever the server sends, `ClientDisconnectOnce` (`DisconnectOnce`),
`ClientLogoutIsLast` (`LogoutIsLast`), `ClientTypeOK` and `ClientDisconnectExclusive`
(both threads are never inside `disconnect`). `isConnected` is tested and cleared in
one critical section of `connectionMutex`, and set only by the login of an object that
is new. So a thread that found it true and has not yet written its DISCONNECT
(`Pends`) is alone, and no DISCONNECT was written before (`OneDisconnect`). After the
user's, the keyboard thread forgets the object, and the reader writes nothing but a
DISCONNECT, for which it would have to find `isConnected` true (`LogoutKept`). The loads and stores of
`receiptCounter` may interleave in any way; nothing here depends on them.

`ClientLogoutNumber` is about those numbers: what the reader would take for the receipt of
the logout names a DISCONNECT and no other frame on the wire. The counter is loaded and
stored without a lock and the digits of `logOutid` are searched for, so that the receipt
12 would do for a logout 1. But a reader that counts has given the connection up and
handles nothing more (`Reading`): while it reads, the keyboard thread alone has counted, a
frame on the wire has a number that was counted, and none is greater than the logout's
(`NumbersInv`); and a number whose digits begin with those of another is not less. Since
a receipt may have been cut, the theorem speaks of the number that the reader holds and
of every greater one.

`ClientServerProofs` is about the two programs together, for any number of logins,
commands, events, ids and bounds. `BothImplement`: the client of the composition takes
only steps of `StompClient`, the server only steps of `TpcServer`, so the theorems on each
apply; the one condition is that `Messages` has what this server sends
(`TextAssumption`). `ClosedOnAnswer` (`ClosedAfterReceipt`): a receipt in a reply, in an
outbox or with the reader has the number of a frame that the server has taken
(`TracedInv`), which the frame being processed carries from the wire to its answer; what
the reader has of it when the connection broke begins that number (`ReadsAnswer`), so
the number is not less (`BeginningsBelow`). The receipt
of a DISCONNECT is made when the session is over, and it stays over (`OverStays`: ids are
not given twice, and its thread answers no other frame). With `ClientLogoutNumber` the frame was a
DISCONNECT. The invariants of `TpcProofs` and `StompClientProofs` are used and not proved
again. `ReceiptsAnswer` is `TracedInv` itself.

`SidesAgree` (`SubscriptionsAgree`): when a session is quiet, the client holds a
subscription id for a channel exactly if the server lists the connection there, under that
id. The property speaks of quiet states only, so it is far from inductive. What holds in
every state of a connection that is up (`AgreeInv`) goes by the frames on the wire, the one
thing both programs have. A channel is subscribed with an id after some of these frames
(`Stands`) if one of them says so and none after it says otherwise.

* `ClientSide`. The client's map is what the frames it has written leave, with the one it
  is about to write (`Records`). The reader writes nothing on a connection that is up, so
  frames and delimiters take turns (`Alternates`), and no id is given twice.
* `ServerSide`. The server has taken whole frames (`Reads`), and its map and lists are what
  those it has acted upon leave (`Mirrors`), unless it has refused one (`Refusing`). From
  then on the two may differ: the client counts a subscription it asked for as its own, and
  the server goes on with the frames that follow. The ERROR is then in the reply, in the
  outbox or in the reader's hands, so the session is not quiet, until the reader gives the
  connection up.
* `Unused` and `KnownLists`. A login finds a handler with no subscriptions and an id that
  is in no list, above all that were given out.

A step of another connection moves no entry of this one in the lists (`OthersSide`). The assumption it adds is `ReplyAssumption`: the
`null` by which `process` sends nothing is no frame. `TracedInv` and `AgreeInv` were
model-checked on the instance of `session_agree`.

`ReactorProofs` proves, for any connections, ids, frames, scripts and buffers:

* `ReactorTypeOK`. The types say that a chunk or a key that is used is there: the
  selector thread has a handler wherever it works on one, a worker that decodes has a
  read task (`PoolTypes`), and `connectionId` is an id before anything reads it
  (`CounterKnown`).
* `ReactorNoLostWakeup`. Who appends to a write queue remembers the handler (`wake`)
  until its task is in `selectorTasks`, and the task sets the interest ops. They are
  given up in two places only. `RegisterKey` does it for a handler that never had a
  key, so a frame in its queue still has its task to come (`KeysAfterAccept`), which
  needs that a client is accepted once. `Unwatch` does it after the queue was seen
  empty in `Drained`, and the selector thread ran no task in between: a frame appended
  meanwhile still has its task to come (the last conjunct of `WakeupInv`).
* `ReactorBuffersExclusive`. Every read task has one place, in a queue or as the task
  that runs (`OwnPlaces`). A queue only moves up or grows at its end (`Before` says where
  a task was); a buffer taken from `BUFFER_POOL` is in no place, and one that is
  released was the task's that ended.
* `ReactorFramesInOrder`. `Stream` is what a client sent and no worker took, in one
  order: the text of the decoder, the rest of the worker's buffer, the chunks of the
  tasks that wait, and the socket. A step appends a frame at its end, moves its pieces
  from one part to the next, takes pieces from its front, or cuts off a beginning (an
  exception) or an end (the network). The buffer it fills or clears is in nobody
  else's chunk, by `ReactorBuffersExclusive`. That only `Pieces(f)` and torn ends are
  taken needs to know what is in it (`StreamInv`): beginnings and ends of the same
  frame alternate, but for the first piece, which may be torn; the last frame is
  complete as long as its client is there; and while a frame is processed the decoder
  is empty, so that an exception does not leave half a text. That concatenation of any
  number of chunks is associative (`FlattenAppend`, `FlattenTail`) goes by the least
  length at which it would fail.
* `ReactorTornOnlyByThrow`, from the same invariant: what is behind a whole frame is
  the beginning of one, and only an exception cuts at another place.

`EventStoreProofs` proves, for any users, events and numbers of subscriptions and
connections, and any number of messages up to the 16 for which `std::sort` is an
insertion sort, `SavedInOrder` (`SavedAsReported`) and `SummaryOfReports`
(`SummaryExact`) under `TextsSurvive`: the text of each message is read as the event that
was sent, or has a date that `stol` refuses. This is a condition on the constants, which
TLC evaluates for those of `events` (`PlainTextsSurvive`); the texts of `events_text` do
not meet it, and there `SavedAsReported` is violated.

* The texts on their way are, in order, those of the messages not yet handled
  (`MailInv`), since one is put at the end and one is taken from the front.
* A permutation puts the messages that were handled in order (`Sorts`). While the reader
  sorts one more in, the vector is that order with a hole. A shift moves the hole past a
  later date, and filling it where no later date is before it gives the permutation of
  one message more (`SortsOneMore`), with those of the same date by arrival because the
  comparison is strict. An order has one permutation (`SortsOrders`), so this is
  `InOrder`.
* As long as a summary is quiet (`QuietInv`), both its loops see one vector, which is in
  order. After the first i-1 elements the counters are the numbers of those that are the
  user's and flagged, and the list is an increasing map onto those that are the user's.
  Such a map is a bijection, so the list has the counted numbers (`ListsCounts`).

Dates are integers (`EventAssumption`) and no event is `Null` (`NullIsNoEvent`), which is
what is read in freed memory.

The assumptions are those of the modules: `Null` is no value, no handler and no task,
`Frames` are frames, ids are positive numbers, a script is a sequence of sets of
frames. The inductive invariants were model-checked before they were proved.

Only model-checked: everything under fairness (`EveryTaskRuns`,
`EveryFrameAnswered`, `PublishesToTheEnd`, `EveryFrameProcessed`,
`EveryCommandReturns`, `LogoutTakesEffect`, `ReaderEnds`, the fairness of
`SerialActors`), since the prover does not reason about ENABLED; that texts survive body, codec and the
search for labels, which goes token by token over given texts; and the JSON
reader, whose grammar and `dump` are recursive operators, and the patches, readers and
writers, recursive over values, about which tlapm proves nothing.

## Not modelled

* `ConnectionsImpl.broadcast`, `disconnect`, `isUserLoggedIn`, `getConnectionId`;
  `Reactor.close`, `BaseServer.close`; `Event(frame_body)`, `split_str`,
  `setDateTime` and the member `extractField`; `getLine` and `sendLine` outside of
  `echoClient`: they have no caller.
* `epochToDate` and the cut of a description to 27 characters: layout. Of `stol`
  only whether it throws and the number of digits are kept.
* Of `json.hpp`: parser callbacks, comments, pretty printing, input of wide
  characters, SAX handlers of a user, iterators and the container interface beyond
  what the modelled functions call, conversions to other types than `string` and
  `int`. The text of exceptions is wording. `strtod` is left open for the
  high-precision numbers of UBJSON; the conversion of a NaN is that of x86-64. The
  data of an ndarray that does not fit its type is undefined (another member of the
  union is read) and is not among the values. Running out of memory or stack is not
  modelled.
* The byte loops of `ConnectionHandler.getBytes` and `sendBytes`: a frame is
  received whole, or the read fails and leaves what `Cuts` says, and it is written in
  its two calls.
* `echoClient`, the echo, news feed and remote command programs: examples of the
  course skeleton, not reachable from `StompServer` and `StompClient`.
* `StompServer`, `Server` and the build files hold no state.
* The inside of the concurrent maps, of the executor, of `WeakHashMap` (whose `get`
  mutates it under a read lock) and of TCP.

The command `send` of the repository's README is not in `StompClient.cpp`, so no
model has it.

What would come next: a proof that the reactor, too, implements `StompService`.
