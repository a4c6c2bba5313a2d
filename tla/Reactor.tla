------------------------------- MODULE Reactor -------------------------------
(***************************************************************************)
(* The reactor server: one selector thread (serve) accepts, reads chunks   *)
(* of bytes and writes; a pool of workers decodes the chunks and has       *)
(* StompProtocol process the frames.  A worker that wants a frame written  *)
(* appends it to the write queue of the connection and asks the selector   *)
(* thread, through selectorTasks, to watch for writability.                *)
(*                                                                         *)
(* The pool is its abstract specification, SerialActors, which ActorPool   *)
(* implements.  The bytes of a frame are two pieces, its beginning and its *)
(* end with the null character; where it is cut is not said.  A chunk is   *)
(* any number of pieces, so that it may begin and end inside a frame, or   *)
(* complete none; the decoder keeps a beginning until its end has come.    *)
(* A client connects before it is a handler: the two share a name.  What   *)
(* it is sent is not followed further than the socket, whether the socket  *)
(* has room is a choice of every write.                                    *)
(***************************************************************************)
EXTENDS StompBroker

CONSTANTS
  Buffers,    \* bound: ByteBuffers that can be out at a time
  Scripts,    \* bound: what the clients may send, per client; Null, it leaves
  Rest        \* what the end of a frame reads as when its beginning is missing

ASSUME ReactorAssumption ==
  /\ Ids \subseteq Nat \ {0}
  /\ Scripts \subseteq [Handlers -> Seq(Frames \cup {Null})]
  /\ Rest \in [Frames -> SUBSET Frames \ {{}}]

Piece == [frame : Frames, last : BOOLEAN]

Begin(f) == [frame |-> f, last |-> FALSE]

End(f) == [frame |-> f, last |-> TRUE]

Pieces(f) == <<Begin(f), End(f)>>

VARIABLES
  counter,    \* Reactor.connectionId, not volatile
  queue, running, down,  \* the pool
  step,       \* where the running task is
  wake,       \* the handler a worker is about to have watched, or Null
  decoder,    \* StompEncoderDecoder: per handler, the text of its StringBuilder
  content,    \* per buffer, the pieces left in it
  bufferPool, \* BUFFER_POOL
  closed,     \* the channel is closed
  key,        \* its selection key
  ops,        \* the key's interest ops
  writeQueue,
  selectorTasks,
  at,         \* where the selector thread is
  ready,      \* the selected keys still to be handled, with their ready ops
  current,    \* the handler it works on, or Null
  client,     \* per client, "away", "waiting", "up" or "gone"
  inbox,      \* pieces that arrived and were not read
  sent        \* per client, how far it is in a script

pool == <<queue, running, down>>
buffers == <<decoder, content, bufferPool>>
channel == <<closed, key, ops>>
selector == <<at, ready, current>>
network == <<client, inbox, sent>>
vars == <<brokerVars, counter, pool, step, wake, buffers, channel, writeQueue,
          selectorTasks, selector, network>>

\* What handleAccept and continueRead submit.
Task == [kind : {"start", "read"}, buffer : Buffers \cup {Null}]

ASSUME NullIsNoTask == Null \notin Task

StartTask == [kind |-> "start", buffer |-> Null]
ReadTask(b) == [kind |-> "read", buffer |-> b]

Pool == INSTANCE SerialActors WITH Acts <- Handlers, Tasks <- Task, NoTask <- Null

TypeOK ==
  /\ BrokerTypeOK
  /\ counter \in Nat
  /\ queue \in [Handlers -> Seq(Task)]
  /\ running \in [Handlers -> Task \cup {Null}]
  /\ down \in BOOLEAN
  /\ step \in [Handlers -> {"idle", "begin", "add", "frames"}]
  /\ wake \in [Handlers -> Handlers \cup {Null}]
  /\ decoder \in [Handlers -> Seq(Piece)]
  /\ content \in [Buffers -> Seq(Piece)]
  /\ bufferPool \subseteq Buffers
  /\ closed \in [Handlers -> BOOLEAN]
  /\ key \in [Handlers -> {"none", "valid", "cancelled", "gone"}]
  /\ ops \in [Handlers -> SUBSET {"read", "write"}]
  /\ writeQueue \in [Handlers -> Seq(ServerFrame)]
  /\ selectorTasks \in Seq([handler : Handlers, found : BOOLEAN])
  /\ at \in {"select", "tasks", "keys", "add", "register", "readable", "read",
             "valid", "writable", "write", "drained", "unwatch", "dead"}
  /\ ready \in [Handlers -> SUBSET {"accept", "read", "write"}]
  /\ current \in Handlers \cup {Null}
  /\ client \in [Handlers -> {"away", "waiting", "up", "gone"}]
  /\ inbox \in [Handlers -> Seq(Piece)]
  /\ sent \in [Handlers -> Seq(Frames \cup {Null})]

Init ==
  /\ BrokerInit
  /\ counter = 0
  /\ Pool!Init
  /\ step = [h \in Handlers |-> "idle"]
  /\ wake = [h \in Handlers |-> Null]
  /\ decoder = [h \in Handlers |-> <<>>]
  /\ content = [b \in Buffers |-> <<>>]
  /\ bufferPool = {}
  /\ closed = [h \in Handlers |-> FALSE]
  /\ key = [h \in Handlers |-> "none"]
  /\ ops = [h \in Handlers |-> {}]
  /\ writeQueue = [h \in Handlers |-> <<>>]
  /\ selectorTasks = <<>>
  /\ at = "select"
  /\ ready = [h \in Handlers |-> {}]
  /\ current = Null
  /\ client = [h \in Handlers |-> "away"]
  /\ inbox = [h \in Handlers |-> <<>>]
  /\ sent = [h \in Handlers |-> <<>>]

\* The selector thread goes on with label l, for handler h.
Select(l, h) == at' = l /\ current' = h

\* A RuntimeException leaves serve: selector and server socket are closed.
Die == Select("dead", Null) /\ UNCHANGED ready

CloseChannel(h) ==
  /\ closed' = [closed EXCEPT ![h] = TRUE]
  /\ key' = [key EXCEPT ![h] = IF @ = "valid" THEN "cancelled" ELSE @]

\* Buffers that a task has.
Leased ==
  {b \in Buffers : \E h \in Handlers :
     ReadTask(b) \in ToSet(queue[h]) \cup {running[h]}}
-----------------------------------------------------------------------------
(* serve: select, the tasks, and a round over the selected keys *)

Ready(h) ==
  {o \in {"accept", "read", "write"} :
     \/ o = "accept" /\ client[h] = "waiting"
     \/ /\ key[h] = "valid"
        /\ o \in ops[h]
        /\ o = "read" => inbox[h] # <<>> \/ client[h] = "gone"}

\* select returns when a key is ready or after a wakeup; cancelled keys are
\* deregistered.  Sockets that are full are not ready for writing.
Wait ==
  /\ at = "select"
  /\ \E full \in SUBSET {h \in Handlers : "write" \in Ready(h)} :
       ready' = [h \in Handlers |-> IF h \in full THEN Ready(h) \ {"write"} ELSE Ready(h)]
  /\ selectorTasks # <<>> \/ \E h \in Handlers : ready'[h] # {}
  /\ key' = [h \in Handlers |-> IF key[h] = "cancelled" THEN "gone" ELSE key[h]]
  /\ Select("tasks", Null)
  /\ UNCHANGED <<brokerVars, counter, pool, step, wake, buffers, closed, ops,
                 writeQueue, selectorTasks, network>>

\* key.interestOps(ops), on a key that is missing or cancelled, throws.
RunTask ==
  /\ at = "tasks"
  /\ selectorTasks # <<>>
  /\ selectorTasks' = Tail(selectorTasks)
  /\ LET task == Head(selectorTasks)
         h == task.handler
     IN  IF task.found /\ key[h] = "valid"
         THEN ops' = [ops EXCEPT ![h] = {"read", "write"}] /\ UNCHANGED selector
         ELSE Die /\ UNCHANGED ops
  /\ UNCHANGED <<brokerVars, counter, pool, step, wake, buffers, closed, key,
                 writeQueue, network>>

NoMoreTasks ==
  /\ at = "tasks"
  /\ selectorTasks = <<>>
  /\ Select("keys", Null)
  /\ UNCHANGED <<brokerVars, counter, pool, step, wake, buffers, channel,
                 writeQueue, selectorTasks, ready, network>>

\* Keys come in no particular order; one that is not valid any more is left.
NextKey(h) ==
  /\ at = "keys"
  /\ ready[h] \cap {"read", "write"} # {}
  /\ IF key[h] = "valid"
     THEN Select("readable", h) /\ UNCHANGED ready
     ELSE ready' = [ready EXCEPT ![h] = @ \ {"read", "write"}] /\ UNCHANGED <<at, current>>
  /\ UNCHANGED <<brokerVars, counter, pool, step, wake, buffers, channel,
                 writeQueue, selectorTasks, network>>

EndOfRound ==
  /\ at = "keys"
  /\ \A h \in Handlers : ready[h] = {}
  /\ Select("select", Null)
  /\ UNCHANGED <<brokerVars, counter, pool, step, wake, buffers, channel,
                 writeQueue, selectorTasks, ready, network>>
-----------------------------------------------------------------------------
(* handleAccept *)

\* The server socket's key is ready once; one client is accepted per round.
Accept(h) ==
  /\ at = "keys"
  /\ "accept" \in ready[h]
  /\ counter + 1 \in Ids
  /\ counter' = counter + 1
  /\ client' = [client EXCEPT ![h] = IF @ = "waiting" THEN "up" ELSE @]
  /\ connectionId' = [connectionId EXCEPT ![h] = counter']
  /\ pc' = [pc EXCEPT ![h] = "read"]
  /\ Pool!Submit(h, StartTask)
  /\ ready' = [g \in Handlers |-> ready[g] \ {"accept"}]
  /\ Select("add", h)
  /\ UNCHANGED <<tables, username, subscriptions, frame, todo, target, leaving,
                 dirty, reply, step, wake, buffers, channel, writeQueue,
                 selectorTasks, inbox, sent>>

Add ==
  /\ at = "add"
  /\ connections' = [connections EXCEPT ![counter] = current]
  /\ Select("register", current)
  /\ UNCHANGED <<channels, userCredentials, activeUsers, pc, locals, counter, pool,
                 step, wake, buffers, channel, writeQueue, selectorTasks, ready,
                 network>>

\* register on a channel closed meanwhile: an IOException, which ends serve
\* and shuts down the pool.
RegisterKey(h) ==
  /\ at = "register"
  /\ h = current
  /\ IF closed[h]
     THEN Die /\ Pool!Shutdown /\ UNCHANGED <<key, ops>>
     ELSE /\ key' = [key EXCEPT ![h] = "valid"]
          /\ ops' = [ops EXCEPT ![h] = {"read"}]
          /\ Select("keys", Null)
          /\ UNCHANGED <<pool, ready>>
  /\ UNCHANGED <<brokerVars, counter, step, wake, buffers, closed, writeQueue,
                 selectorTasks, network>>
-----------------------------------------------------------------------------
(* handleReadWrite, continueRead and continueWrite *)

\* Done with the key that is being handled.
NextRound == at' = "keys" /\ current' = Null
             /\ ready' = [ready EXCEPT ![current] = @ \ {"read", "write"}]

\* isAcceptable and isReadable, on a key that was cancelled, throw.
IsReadable ==
  /\ at = "readable"
  /\ IF key[current] # "valid" THEN Die
     ELSE /\ Select(IF "read" \in ready[current] THEN "read" ELSE "valid", current)
          /\ UNCHANGED ready
  /\ UNCHANGED <<brokerVars, counter, pool, step, wake, buffers, channel,
                 writeQueue, selectorTasks, network>>

ReadReleasesBuffer(h) ==  \* mutant: continueRead releases the buffer itself
  /\ at = "read"
  /\ h = current
  /\ Select("valid", h)
  /\ \E n \in 1..Len(inbox[h]) :
       LET b == CHOOSE b \in Buffers : bufferPool # {} => b \in bufferPool
       IN  /\ content' = [content EXCEPT ![b] = SubSeq(inbox[h], 1, n)]
           /\ bufferPool' = bufferPool \cup {b}
           /\ Pool!Submit(h, ReadTask(b))
           /\ inbox' = [inbox EXCEPT ![h] = SubSeq(@, n + 1, Len(@))]
  /\ UNCHANGED <<channel, brokerVars, counter, step, wake, decoder, writeQueue,
                 selectorTasks, ready, client, sent>>

\* A buffer of BUFFER_POOL, or a new one, takes what has arrived; at the end
\* of the stream, or if the channel is closed, nothing is submitted.
Read(h) ==
  /\ at = "read"
  /\ h = current
  /\ Select("valid", h)
  /\ IF closed[h] \/ inbox[h] = <<>>
     THEN CloseChannel(h) /\ UNCHANGED <<pool, buffers, inbox>>
     ELSE \E n \in 1..Len(inbox[h]) :
          /\ Leased # Buffers
          /\ LET b == CHOOSE b \in Buffers :
                        IF bufferPool # {} THEN b \in bufferPool ELSE b \notin Leased
             IN  /\ content' = [content EXCEPT ![b] = SubSeq(inbox[h], 1, n)]
                 /\ bufferPool' = bufferPool \ {b}
                 /\ Pool!Submit(h, ReadTask(b))
                 /\ inbox' = [inbox EXCEPT ![h] = SubSeq(@, n + 1, Len(@))]
          /\ UNCHANGED <<closed, key>>
  /\ UNCHANGED <<brokerVars, counter, step, wake, decoder, ops, writeQueue,
                 selectorTasks, ready, client, sent>>

IsValid ==
  /\ at = "valid"
  /\ IF key[current] = "valid" THEN Select("writable", current) /\ UNCHANGED ready
                               ELSE NextRound
  /\ UNCHANGED <<brokerVars, counter, pool, step, wake, buffers, channel,
                 writeQueue, selectorTasks, network>>

IsWritable ==
  /\ at = "writable"
  /\ IF key[current] # "valid" THEN Die
     ELSE IF "write" \in ready[current] THEN Select("write", current) /\ UNCHANGED ready
     ELSE NextRound
  /\ UNCHANGED <<brokerVars, counter, pool, step, wake, buffers, channel,
                 writeQueue, selectorTasks, network>>

\* The loop of continueWrite: the head is written, or stays because the
\* socket is full, or fails, and the channel is closed, and the loop goes on.
WriteHead(h) ==
  /\ at = "write"
  /\ h = current
  /\ writeQueue[h] # <<>>
  /\ \/ /\ ~ closed[h]
        /\ writeQueue' = [writeQueue EXCEPT ![h] = Tail(@)]
        /\ UNCHANGED <<closed, key, selector>>
     \/ /\ ~ closed[h] /\ client[h] = "up"
        /\ NextRound
        /\ UNCHANGED <<writeQueue, closed, key>>
     \/ /\ closed[h] \/ client[h] = "gone"
        /\ CloseChannel(h)
        /\ UNCHANGED <<writeQueue, selector>>
  /\ UNCHANGED <<brokerVars, counter, pool, step, wake, buffers, ops, selectorTasks,
                 network>>

NothingToWrite ==
  /\ at = "write"
  /\ writeQueue[current] = <<>>
  /\ Select("drained", current)
  /\ UNCHANGED <<brokerVars, counter, pool, step, wake, buffers, channel,
                 writeQueue, selectorTasks, ready, network>>

\* The queue is looked at again; shouldTerminate is never true.
Drained ==
  /\ at = "drained"
  /\ IF writeQueue[current] = <<>> THEN Select("unwatch", current) /\ UNCHANGED ready
                                   ELSE NextRound
  /\ UNCHANGED <<brokerVars, counter, pool, step, wake, buffers, channel,
                 writeQueue, selectorTasks, network>>

Unwatch ==
  /\ at = "unwatch"
  /\ IF key[current] = "valid"
     THEN ops' = [ops EXCEPT ![current] = {"read"}] /\ NextRound
     ELSE Die /\ UNCHANGED ops
  /\ UNCHANGED <<brokerVars, counter, pool, step, wake, buffers, closed, key,
                 writeQueue, selectorTasks, network>>
-----------------------------------------------------------------------------
(* The workers: the task of handleAccept, and that of continueRead *)

Start(h) ==
  /\ Pool!Start(h)
  /\ step' = [step EXCEPT ![h] = IF running'[h] = StartTask THEN "begin" ELSE "frames"]
  /\ UNCHANGED <<brokerVars, counter, wake, buffers, channel, writeQueue,
                 selectorTasks, selector, network>>

\* The field is read when the task runs, once for the protocol ...
BeginProtocol(h) ==
  /\ step[h] = "begin"
  /\ connectionId' = [connectionId EXCEPT ![h] = counter]
  /\ step' = [step EXCEPT ![h] = "add"]
  /\ UNCHANGED <<tables, pc, username, subscriptions, frame, todo, target, leaving,
                 dirty, reply, counter, pool, wake, buffers, channel, writeQueue,
                 selectorTasks, selector, network>>

\* ... and once for the table.
AddAgain(h) ==
  /\ step[h] = "add"
  /\ connections' = [connections EXCEPT ![counter] = h]
  /\ step' = [step EXCEPT ![h] = "idle"]
  /\ Pool!Finish(h)
  /\ UNCHANGED <<channels, userCredentials, activeUsers, pc, locals, counter, wake,
                 buffers, channel, writeQueue, selectorTasks, selector, network>>

\* The worker decodes and processes frames, when it asks for no wakeup.
Decoding(h) == step[h] = "frames" /\ wake[h] = Null

Buffer(h) == running[h].buffer

\* What parseFrame makes of a text that ends with the null character.
Reads(text) ==
  LET f == Last(text).frame
  IN  IF text = Pieces(f) THEN {f} ELSE Rest[f]

\* decodeNextByte as far as the next piece goes: the text grows, or it is
\* complete, is cleared and parsed.
NextPiece(h) ==
  /\ Decoding(h)
  /\ pc[h] = "read"
  /\ content[Buffer(h)] # <<>>
  /\ content' = [content EXCEPT ![Buffer(h)] = Tail(@)]
  /\ LET text == Append(decoder[h], Head(content[Buffer(h)]))
     IN  IF Last(text).last
         THEN /\ decoder' = [decoder EXCEPT ![h] = <<>>]
              /\ \E f \in Reads(text) : frame' = [frame EXCEPT ![h] = f]
              /\ Goto(h, "process")
         ELSE /\ decoder' = [decoder EXCEPT ![h] = text]
              /\ UNCHANGED <<frame, pc>>
  /\ UNCHANGED <<tables, connectionId, username, subscriptions, todo, target,
                 leaving, dirty, reply, counter, pool, step, wake, bufferPool,
                 channel, writeQueue, selectorTasks, selector, network>>

TaskEndsUncompleted(h) ==  \* mutant: the pool's complete is not in a finally
  /\ Decoding(h)
  /\ \/ /\ pc[h] = "read" /\ content[Buffer(h)] = <<>>
        /\ Pool!Finish(h)
     \/ pc[h] = "process" /\ Throws(h) /\ UNCHANGED pool
  /\ content' = [content EXCEPT ![Buffer(h)] = <<>>]
  /\ bufferPool' = bufferPool \cup {Buffer(h)}
  /\ frame' = [frame EXCEPT ![h] = Null]
  /\ Goto(h, "read")
  /\ step' = [step EXCEPT ![h] = "idle"]
  /\ UNCHANGED <<tables, connectionId, username, subscriptions, todo, target,
                 leaving, dirty, reply, counter, wake, decoder, channel,
                 writeQueue, selectorTasks, selector, network>>

TaskEndsDropsText(h) ==  \* mutant: each chunk is decoded from scratch
  /\ Decoding(h)
  /\ \/ pc[h] = "read" /\ content[Buffer(h)] = <<>>
     \/ pc[h] = "process" /\ Throws(h)
  /\ decoder' = [decoder EXCEPT ![h] = <<>>]
  /\ content' = [content EXCEPT ![Buffer(h)] = <<>>]
  /\ bufferPool' = bufferPool \cup {Buffer(h)}
  /\ frame' = [frame EXCEPT ![h] = Null]
  /\ Goto(h, "read")
  /\ step' = [step EXCEPT ![h] = "idle"]
  /\ Pool!Finish(h)
  /\ UNCHANGED <<tables, connectionId, username, subscriptions, todo, target,
                 leaving, dirty, reply, counter, wake, channel, writeQueue,
                 selectorTasks, selector, network>>

\* The buffer is used up, or process threw, and it is released in any case,
\* in the second case with what is left in it, the first bytes of a frame
\* that the next chunk completes included.
TaskEnds(h) ==
  /\ Decoding(h)
  /\ \/ pc[h] = "read" /\ content[Buffer(h)] = <<>>
     \/ pc[h] = "process" /\ Throws(h)
  /\ content' = [content EXCEPT ![Buffer(h)] = <<>>]
  /\ bufferPool' = bufferPool \cup {Buffer(h)}
  /\ frame' = [frame EXCEPT ![h] = Null]
  /\ Goto(h, "read")
  /\ step' = [step EXCEPT ![h] = "idle"]
  /\ Pool!Finish(h)
  /\ UNCHANGED <<tables, connectionId, username, subscriptions, todo, target,
                 leaving, dirty, reply, counter, wake, decoder, channel,
                 writeQueue, selectorTasks, selector, network>>

\* A frame is added to the write queue of g; the wakeup is next.
Write(h, g, msg) ==
  /\ writeQueue' = [writeQueue EXCEPT ![g] = Append(@, msg)]
  /\ wake' = [wake EXCEPT ![h] = g]

NoWrite == UNCHANGED <<writeQueue, wake>>

WorkerRest == UNCHANGED <<counter, pool, step, buffers, selectorTasks, selector,
                          network, ops>>

Deliver(h) ==
  /\ Decoding(h)
  /\ Delivered(h)
  /\ Write(h, target[h], MessageOf(h))
  /\ WorkerRest /\ UNCHANGED <<closed, key>>

SendReceipt(h) ==
  /\ Decoding(h)
  /\ Receipted(h)
  /\ IF Null \in {target[h], Receipt(h)} THEN NoWrite
                                         ELSE Write(h, target[h], Receipt(h))
  /\ WorkerRest /\ UNCHANGED <<closed, key>>

Reply(h) ==
  /\ Decoding(h)
  /\ pc[h] = "reply"
  /\ IF reply[h] = Null THEN NoWrite ELSE Write(h, h, reply[h])
  /\ reply' = [reply EXCEPT ![h] = Null]
  /\ frame' = [frame EXCEPT ![h] = Null]
  /\ Goto(h, "read")
  /\ UNCHANGED <<tables, connectionId, username, subscriptions, todo, target,
                 leaving, dirty>>
  /\ WorkerRest /\ UNCHANGED <<closed, key>>

\* close of the handler that logoutUser removed.
Close(h) ==
  /\ Decoding(h)
  /\ Unregister(h)
  /\ IF Evicted(h) = Null THEN UNCHANGED <<closed, key>> ELSE CloseChannel(Evicted(h))
  /\ NoWrite /\ WorkerRest

Process(h) ==
  /\ Decoding(h)
  /\ Silent(h)
  /\ NoWrite /\ WorkerRest /\ UNCHANGED <<closed, key>>

WatchDirectly(h) ==  \* mutant: the worker sets the interest ops itself
  /\ wake[h] # Null
  /\ ops' = [ops EXCEPT ![wake[h]] = {"read", "write"}]
  /\ wake' = [wake EXCEPT ![h] = Null]
  /\ UNCHANGED <<brokerVars, counter, pool, step, buffers, closed, key, writeQueue,
                 selectorTasks, selector, network>>

\* updateInterestedOps: the key is looked up here and used in the selector
\* thread; wakeup makes a select return.
Watch(h) ==
  /\ wake[h] # Null
  /\ selectorTasks' =
       Append(selectorTasks, [handler |-> wake[h],
                              found   |-> key[wake[h]] \notin {"none", "gone"}])
  /\ wake' = [wake EXCEPT ![h] = Null]
  /\ UNCHANGED <<brokerVars, counter, pool, step, buffers, channel, writeQueue,
                 selector, network>>
-----------------------------------------------------------------------------
(* The clients *)

Connect(h) ==
  /\ client[h] = "away"
  /\ client' = [client EXCEPT ![h] = "waiting"]
  /\ UNCHANGED <<brokerVars, counter, pool, step, wake, buffers, channel,
                 writeQueue, selectorTasks, selector, inbox, sent>>

\* One script at least goes on with f on the part of h.
Follows(h, f) ==
  /\ sent' = [sent EXCEPT ![h] = Append(@, f)]
  /\ \E script \in Scripts : \A g \in Handlers : IsPrefix(sent'[g], script[g])

ClientSend(h, f) ==
  /\ client[h] = "up"
  /\ ~ closed[h]
  /\ Follows(h, f)
  /\ inbox' = [inbox EXCEPT ![h] = @ \o Pieces(f)]
  /\ UNCHANGED <<brokerVars, counter, pool, step, wake, buffers, channel,
                 writeQueue, selectorTasks, selector, client>>

\* What it sent may still arrive, or some of it, or nothing.
ClientDrop(h) ==
  /\ client[h] = "up"
  /\ client' = [client EXCEPT ![h] = "gone"]
  /\ Follows(h, Null)
  /\ \E n \in 0..Len(inbox[h]) : inbox' = [inbox EXCEPT ![h] = SubSeq(@, 1, n)]
  /\ UNCHANGED <<brokerVars, counter, pool, step, wake, buffers, channel,
                 writeQueue, selectorTasks, selector>>
-----------------------------------------------------------------------------
SelectorStep ==
  \/ Wait \/ RunTask \/ NoMoreTasks \/ EndOfRound \/ Add
  \/ IsReadable \/ IsValid \/ IsWritable \/ NothingToWrite \/ Drained \/ Unwatch
  \/ \E h \in Handlers :
       NextKey(h) \/ Accept(h) \/ RegisterKey(h) \/ Read(h) \/ WriteHead(h)

TaskStep(h) ==
  \/ BeginProtocol(h) \/ AddAgain(h) \/ NextPiece(h) \/ TaskEnds(h)
  \/ Process(h) \/ Deliver(h) \/ SendReceipt(h) \/ Reply(h) \/ Close(h) \/ Watch(h)

ClientStep(h) ==
  \/ Connect(h) \/ ClientDrop(h)
  \/ \E f \in Frames : ClientSend(h, f)

Next ==
  \/ SelectorStep
  \/ \E h \in Handlers : Start(h) \/ TaskStep(h) \/ ClientStep(h)

\* The selector thread and the workers run.
Fairness ==
  /\ WF_vars(SelectorStep)
  /\ \A h \in Handlers : /\ WF_vars(Start(h))
                         /\ WF_vars(TaskStep(h))

Safety == Init /\ [][Next]_vars

Spec == Safety /\ Fairness

\* bound: clients that arrive one by one; nobody connects before the pool has
\* run what handleAccept submitted for the one before.
Settled ==
  /\ at \notin {"add", "register"}
  /\ \A h \in Handlers : StartTask \notin ToSet(queue[h]) \cup {running[h]}

Spaced ==
  \A h \in Handlers :
    client[h] = "away" /\ client'[h] = "waiting" =>
      Settled /\ \A g \in Handlers : client[g] # "waiting"

SpacedSafety == Init /\ [][Next /\ Spaced]_vars

SpacedSpec == SpacedSafety /\ Fairness
-----------------------------------------------------------------------------
(* Properties *)

\* A frame in a write queue is not forgotten: while the key is valid the
\* selector watches for writability, or was or will be asked to.
NoLostWakeup ==
  \A h \in Handlers :
    writeQueue[h] # <<>> /\ key[h] = "valid" /\ at # "dead" =>
      \/ "write" \in ops[h]
      \/ \E k \in DOMAIN selectorTasks : selectorTasks[k].handler = h
      \/ \E g \in Handlers : wake[g] = h

\* The task that runs is at place 0 of its handler, its queue at the others.
TaskAt(h, k) == IF k = 0 THEN running[h] ELSE queue[h][k]

\* A buffer has one owner: BUFFER_POOL or one task, so that no chunk is
\* overwritten before its frames are decoded.
BuffersExclusive ==
  /\ bufferPool \cap Leased = {}
  /\ \A g, h \in Handlers, b \in Buffers :
       \A j \in 0..Len(queue[g]), k \in 0..Len(queue[h]) :
         TaskAt(g, j) = ReadTask(b) /\ TaskAt(h, k) = ReadTask(b) => g = h /\ j = k

PiecesOf(task) == IF task = Null \/ task = StartTask THEN <<>> ELSE content[task.buffer]

\* What h's client has sent and no worker has taken, in this order: the rest
\* of the chunk being decoded, the chunks waiting in the pool, the socket.
Unprocessed(h) ==
  PiecesOf(running[h])
    \o FlattenSeq([k \in DOMAIN queue[h] |-> PiecesOf(queue[h][k])])
    \o inbox[h]

\* With what the decoder has of the next frame.
Stream(h) == decoder[h] \o Unprocessed(h)

\* Frames are decoded whole, in the order sent, none twice.  Only when process
\* throws is something dropped (the rest of that chunk), or when the network
\* loses it, and only what is left of a frame whose beginning was dropped so
\* is decoded to something that was not sent.
FramesInOrder ==
  [][\A h \in Handlers :
       LET s == Stream(h)
           t == Stream(h)'
       IN  \/ t = s
           \/ \E f \in Frames : t = s \o Pieces(f)
           \/ \E f \in Frames : s = Pieces(f) \o t /\ frame'[h] = f
           \/ s # <<>> /\ Head(s).last /\ t = Tail(s) /\ frame'[h] \in Rest[Head(s).frame]
           \/ pc[h] = "process" /\ Throws(h) /\ IsSuffix(t, s)
           \/ client'[h] # client[h] /\ IsPrefix(t, s)
           \/ down']_vars

\* What comes next of h's client is the end of a frame without its beginning.
Torn(h) == Stream(h) # <<>> /\ Head(Stream(h)).last

\* A frame loses its beginning only when process throws on an earlier one, or
\* with the pool: nothing else makes the server read what was not sent.
TornOnlyByThrow ==
  [][\A h \in Handlers :
       Torn(h)' => Torn(h) \/ (pc[h] = "process" /\ Throws(h)) \/ down']_vars

\* The selector thread is in the loop of continueWrite with a channel that
\* was closed, where nothing but another exception awaits it.
Caught == at = "write" /\ closed[current]

\* The pool has tasks of h.
Busy(h) == queue[h] # <<>> \/ running[h] # Null

\* What arrived is read and a worker is done with it, unless the connection is
\* closed first or the selector thread is dead or caught; with a chunk that
\* was read, a worker is done in any case but the end of the pool.
EveryFrameProcessed ==
  \A h \in Handlers :
    inbox[h] # <<>> \/ Busy(h) ~>
      \/ ~ Busy(h) /\ (inbox[h] = <<>> \/ closed[h] \/ at = "dead" \/ Caught)
      \/ down

\* h's session is over: logoutUser has taken its user out of activeUsers.
LoggedOut(h) ==
  pc[h] = "clean" \/ \E i \in Ids : connectionId[h] = i /\ connections[i] # h

\* At most one connection is logged in as a user at a time.
OneSessionPerUser ==
  \A g, h \in Handlers :
    /\ username[g] # Null
    /\ username[g] = username[h]
    /\ ~ LoggedOut(g) /\ ~ LoggedOut(h)
    => g = h

\* "Assign a unique connectionId" (Reactor.java:102).
UniqueIds ==
  \A g, h \in Handlers :
    connectionId[g] # Null /\ connectionId[g] = connectionId[h] => g = h

\* "The main loop of the server" (Server.java:12): it does not end because
\* of what clients do.
SelectorSurvives == at # "dead"

\* The main loop is "handling new clients" (Server.java:12): it is not caught
\* for ever with the connection of a client that left.
SelectorGoesOn == Caught ~> ~ Caught

\* "Close the connection" (ConnectionsImpl.java:105): the connection that a
\* DISCONNECT closes is the one it came on.
LogoutIsOwn ==
  \A h \in Handlers :
    pc[h] = "clean" /\ leaving[h] # Null => leaving[h] = connectionId[h]
=============================================================================
