---------------------------- MODULE ReactorProofs -----------------------------
(***************************************************************************)
(* Proofs about Reactor, for any connections, frames, scripts and buffers: *)
(* types, that no write wakeup is lost, that a buffer has one owner, and   *)
(* that frames are decoded in the order they were sent, none of them torn  *)
(* but by an exception.                                                    *)
(*                                                                         *)
(* The argument for the wakeup: who appends to a write queue remembers the *)
(* handler until its task is in selectorTasks, and the task sets the       *)
(* interest ops.  They are cleared in two places only.  RegisterKey does   *)
(* so for a handler without a key, so that what is in its queue has its    *)
(* task still to come (or will kill the selector thread).  Unwatch does so *)
(* after it saw the queue empty, and no task has run in between.           *)
(*                                                                         *)
(* The argument for the frames: what a client sent and no worker took is   *)
(* in one order over the decoder's text, the buffer being decoded, the     *)
(* chunks in the pool and the socket, and every step adds a frame to its   *)
(* end, or takes a piece from its front, or cuts one of the ends off.  So  *)
(* beginnings and ends alternate in it, but for its first piece (StreamInv)*)
(***************************************************************************)
EXTENDS Reactor, BrokerProofs, SequenceTheorems, WellFoundedInduction

\* What is submitted.
Submitted == {StartTask} \cup {ReadTask(b) : b \in Buffers}

\* A task runs where its steps say.
PoolTypes ==
  /\ queue \in [Handlers -> Seq(Submitted)]
  /\ running \in [Handlers -> Submitted \cup {Null}]
  /\ down \in BOOLEAN
  /\ step \in [Handlers -> {"idle", "begin", "add", "frames"}]
  /\ wake \in [Handlers -> Handlers \cup {Null}]
  /\ \A h \in Handlers :
       /\ step[h] \in {"begin", "add"} => running[h] = StartTask
       /\ step[h] = "frames" => running[h] \in {ReadTask(b) : b \in Buffers}

BufferTypes ==
  /\ decoder \in [Handlers -> Seq(Piece)]
  /\ content \in [Buffers -> Seq(Piece)]
  /\ bufferPool \subseteq Buffers

ChannelTypes ==
  /\ closed \in [Handlers -> BOOLEAN]
  /\ key \in [Handlers -> {"none", "valid", "cancelled", "gone"}]
  /\ ops \in [Handlers -> SUBSET {"read", "write"}]

WriteTypes ==
  /\ writeQueue \in [Handlers -> Seq(ServerFrame)]
  /\ selectorTasks \in Seq([handler : Handlers, found : BOOLEAN])

\* Places with a handler the selector thread works on.
Working == {"add", "register", "readable", "read", "valid", "writable", "write",
            "drained", "unwatch"}

SelectorTypes ==
  /\ at \in {"select", "tasks", "keys", "dead"} \cup Working
  /\ ready \in [Handlers -> SUBSET {"accept", "read", "write"}]
  /\ current \in Handlers \cup {Null}
  /\ at \in Working => current \in Handlers

ClientTypes ==
  /\ client \in [Handlers -> {"away", "waiting", "up", "gone"}]
  /\ inbox \in [Handlers -> Seq(Piece)]
  /\ sent \in [Handlers -> Seq(Frames \cup {Null})]

\* Before the first accept nothing is there to work on.
CounterKnown ==
  \/ counter \in Ids
  \/ /\ counter = 0
     /\ at \notin Working
     /\ \A h \in Handlers : /\ queue[h] = <<>>
                            /\ step[h] = "idle"
                            /\ key[h] = "none"

TypeInv ==
  /\ BrokerInv
  /\ PoolTypes
  /\ BufferTypes
  /\ ChannelTypes
  /\ WriteTypes
  /\ SelectorTypes
  /\ ClientTypes
  /\ CounterKnown

\* Somebody will ask the selector thread to watch h for writability.
WatchComes(h) ==
  \/ \E k \in DOMAIN selectorTasks : selectorTasks[k].handler = h
  \/ \E g \in Handlers : wake[g] = h

\* A handler has no key before it is registered, once.
KeysAfterAccept ==
  \A h \in Handlers :
    /\ "accept" \in ready[h] => client[h] = "waiting"
    /\ client[h] \in {"away", "waiting"} => key[h] = "none"
    /\ at \in {"add", "register"} /\ current = h =>
         client[h] \notin {"away", "waiting"} /\ key[h] = "none"

\* Interest in writability is given up only when another task will renew it.
WakeupInv ==
  at # "dead" =>
    \A h \in Handlers :
      writeQueue[h] # <<>> =>
        /\ key[h] \in {"none", "valid"} =>
             (key[h] = "valid" /\ "write" \in ops[h]) \/ WatchComes(h)
        /\ at = "unwatch" /\ current = h => WatchComes(h)

-----------------------------------------------------------------------------
(* Types, for the pool *)

LEMMA SubmitTypes ==
  ASSUME PoolTypes, NEW h \in Handlers, NEW t \in Submitted, Pool!Submit(h, t),
         UNCHANGED <<step, wake>>
  PROVE  PoolTypes'
<1>1. queue' \in [Handlers -> Seq(Submitted)]
  BY DEF PoolTypes, Pool!Submit
<1> QED
  BY <1>1 DEF PoolTypes, Pool!Submit

\* The buffer a chunk goes to.
FreeBuffer ==
  CHOOSE b \in Buffers : IF bufferPool # {} THEN b \in bufferPool ELSE b \notin Leased

LEMMA FreeBufferIs ==
  ASSUME BufferTypes, Leased # Buffers
  PROVE  FreeBuffer \in Buffers /\ FreeBuffer \in bufferPool \cup (Buffers \ Leased)
<1>1. \E b \in Buffers : IF bufferPool # {} THEN b \in bufferPool ELSE b \notin Leased
  BY DEF BufferTypes, Leased
<1> QED
  BY <1>1 DEF FreeBuffer

\* What Read does with a chunk of n frames.
LEMMA ReadChunk ==
  ASSUME NEW h \in Handlers, Read(h), ~ (closed[h] \/ inbox[h] = <<>>)
  PROVE  \E n \in 1..Len(inbox[h]) :
           /\ Leased # Buffers
           /\ content' = [content EXCEPT ![FreeBuffer] = SubSeq(inbox[h], 1, n)]
           /\ bufferPool' = bufferPool \ {FreeBuffer}
           /\ Pool!Submit(h, ReadTask(FreeBuffer))
           /\ inbox' = [inbox EXCEPT ![h] = SubSeq(@, n + 1, Len(@))]
           /\ UNCHANGED <<closed, key>>
BY DEF Read, FreeBuffer

LEMMA PoolTypesKept ==
  ASSUME TypeInv, Next
  PROVE  PoolTypes'
<1>1. ASSUME UNCHANGED <<pool, step, wake>>
      PROVE  PoolTypes'
  BY <1>1 DEF TypeInv, PoolTypes, pool
<1>2. ASSUME NEW h \in Handlers, Accept(h)
      PROVE  PoolTypes'
  BY <1>2, SubmitTypes DEF Accept, Submitted, TypeInv
<1>3. ASSUME NEW h \in Handlers, Read(h)
      PROVE  PoolTypes'
  <2>1. CASE closed[h] \/ inbox[h] = <<>>
    BY <1>1, <1>3, <2>1 DEF Read
  <2>2. CASE ~ (closed[h] \/ inbox[h] = <<>>)
    <3>1. FreeBuffer \in Buffers /\ Pool!Submit(h, ReadTask(FreeBuffer))
      BY <1>3, <2>2, ReadChunk, FreeBufferIs DEF TypeInv
    <3> QED
      BY <1>3, <3>1, SubmitTypes DEF Read, Submitted, TypeInv
  <2> QED
    BY <2>1, <2>2
<1>4. ASSUME NEW h \in Handlers, RegisterKey(h)
      PROVE  PoolTypes'
  <2>1. CASE Pool!Shutdown
    <3>1. PICK dropped \in SUBSET Handlers :
            queue' = [a \in Handlers |-> IF a \in dropped THEN Tail(queue[a]) ELSE queue[a]]
            /\ \A a \in dropped : queue[a] # <<>>
      BY <2>1 DEF Pool!Shutdown
    <3>2. \A a \in Handlers : queue[a] \in Seq(Submitted)
      BY DEF TypeInv, PoolTypes
    <3>3. \A a \in dropped : Tail(queue[a]) \in Seq(Submitted)
      BY <3>1, <3>2
    <3>4. queue' \in [Handlers -> Seq(Submitted)]
      BY <3>1, <3>2, <3>3
    <3> QED
      BY <1>4, <2>1, <3>4 DEF RegisterKey, Pool!Shutdown, TypeInv, PoolTypes
  <2>2. CASE UNCHANGED pool
    BY <1>1, <1>4, <2>2 DEF RegisterKey
  <2> QED
    BY <1>4, <2>1, <2>2 DEF RegisterKey
<1>5. ASSUME NEW h \in Handlers, Start(h)
      PROVE  PoolTypes'
  <2> USE DEF TypeInv, PoolTypes
  <2>1. Head(queue[h]) \in Submitted /\ Tail(queue[h]) \in Seq(Submitted)
    <3>1. queue[h] \in Seq(Submitted) /\ queue[h] # <<>>
      BY <1>5 DEF Start, Pool!Start
    <3> QED
      BY <3>1
  <2>2. queue' \in [Handlers -> Seq(Submitted)]
    BY <1>5, <2>1 DEF Start, Pool!Start
  <2>3. running' = [running EXCEPT ![h] = Head(queue[h])]
    BY <1>5 DEF Start, Pool!Start
  <2>4. running' \in [Handlers -> Submitted \cup {Null}] /\ running'[h] = Head(queue[h])
    BY <2>1, <2>3
  <2>5. step' = [step EXCEPT ![h] = IF running'[h] = StartTask THEN "begin" ELSE "frames"]
    BY <1>5 DEF Start
  <2>6. \A g \in Handlers \ {h} : running'[g] = running[g] /\ step'[g] = step[g]
    BY <2>3, <2>5
  <2>7. /\ step'[h] \in {"begin", "add"} => running'[h] = StartTask
        /\ step'[h] = "frames" => running'[h] \in {ReadTask(b) : b \in Buffers}
    BY <2>1, <2>4, <2>5 DEF Submitted
  <2> QED
    BY <1>5, <2>2, <2>4, <2>5, <2>6, <2>7 DEF Start, Pool!Start
<1>6. ASSUME NEW h \in Handlers, BeginProtocol(h)
      PROVE  PoolTypes'
  BY <1>6 DEF BeginProtocol, TypeInv, PoolTypes, pool
<1>7. ASSUME NEW h \in Handlers, AddAgain(h) \/ TaskEnds(h)
      PROVE  PoolTypes'
  <2>1. step' = [step EXCEPT ![h] = "idle"] /\ Pool!Finish(h) /\ UNCHANGED wake
    BY <1>7 DEF AddAgain, TaskEnds
  <2> QED
    BY <2>1 DEF Pool!Finish, TypeInv, PoolTypes
<1>8. ASSUME NEW h \in Handlers, Deliver(h) \/ SendReceipt(h) \/ Reply(h)
      PROVE  PoolTypes'
  <2>1. UNCHANGED <<pool, step>>
    BY <1>8 DEF Deliver, SendReceipt, Reply, WorkerRest
  <2>2. wake' = wake \/ \E g \in Handlers : wake' = [wake EXCEPT ![h] = g]
    BY <1>8 DEF Deliver, Delivered, SendReceipt, Receipted, Reply, Write, NoWrite,
                TypeInv, BrokerInv, BrokerTypeOK, Equipped
  <2> QED
    BY <2>1, <2>2 DEF TypeInv, PoolTypes, pool
<1>9. ASSUME NEW h \in Handlers, Watch(h)
      PROVE  PoolTypes'
  BY <1>9 DEF Watch, TypeInv, PoolTypes, pool
<1>10. ASSUME NEW h \in Handlers,
              \/ NextKey(h) \/ WriteHead(h) \/ NextPiece(h) \/ Process(h) \/ Close(h)
              \/ ClientStep(h)
       PROVE  UNCHANGED <<pool, step, wake>>
  BY <1>10 DEF NextKey, WriteHead, NextPiece, Process, Close, ClientStep, Connect,
               ClientDrop, ClientSend, NoWrite, WorkerRest
<1>11. ASSUME \/ Wait \/ RunTask \/ NoMoreTasks \/ EndOfRound \/ Add \/ IsReadable
              \/ IsValid \/ IsWritable \/ NothingToWrite \/ Drained \/ Unwatch
       PROVE  UNCHANGED <<pool, step, wake>>
  BY <1>11 DEF Wait, RunTask, NoMoreTasks, EndOfRound, Add, IsReadable, IsValid,
               IsWritable, NothingToWrite, Drained, Unwatch
<1> QED
  BY <1>1, <1>2, <1>3, <1>4, <1>5, <1>6, <1>7, <1>8, <1>9, <1>10, <1>11
     DEF Next, SelectorStep, TaskStep

-----------------------------------------------------------------------------
(* Types, for the buffers, the channels and the write queues *)

\* The buffer of a task that decodes.
LEMMA DecodingBuffer ==
  ASSUME PoolTypes, NEW h \in Handlers, Decoding(h)
  PROVE  Buffer(h) \in Buffers /\ running[h] = ReadTask(Buffer(h))
BY DEF PoolTypes, Decoding, Buffer, ReadTask

\* What the decoder has with the next piece, and what it is parsed to.
LEMMA NextText ==
  ASSUME PoolTypes, BufferTypes, NEW h \in Handlers, NextPiece(h)
  PROVE  /\ Buffer(h) \in Buffers
         /\ content[Buffer(h)] \in Seq(Piece)
         /\ Head(content[Buffer(h)]) \in Piece
         /\ Tail(content[Buffer(h)]) \in Seq(Piece)
         /\ decoder[h] \in Seq(Piece)
         /\ Append(decoder[h], Head(content[Buffer(h)])) \in Seq(Piece)
         /\ Last(Append(decoder[h], Head(content[Buffer(h)]))) = Head(content[Buffer(h)])
         /\ Reads(Append(decoder[h], Head(content[Buffer(h)]))) \subseteq Frames
<1>1. Buffer(h) \in Buffers /\ content[Buffer(h)] # <<>>
  BY DecodingBuffer DEF NextPiece
<1>2. content[Buffer(h)] \in Seq(Piece) /\ decoder[h] \in Seq(Piece)
  BY <1>1 DEF BufferTypes
<1>3. Head(content[Buffer(h)]) \in Piece /\ Tail(content[Buffer(h)]) \in Seq(Piece)
  BY <1>1, <1>2
<1>4. ASSUME NEW d \in Seq(Piece), NEW e \in Piece
      PROVE  /\ Append(d, e) \in Seq(Piece) /\ Last(Append(d, e)) = e
             /\ Reads(Append(d, e)) \subseteq Frames
  <2>1. Append(d, e) \in Seq(Piece) /\ Last(Append(d, e)) = e
    BY DEF Last
  <2>2. e.frame \in Frames
    BY DEF Piece
  <2>3. Rest[e.frame] \subseteq Frames
    BY <2>2, ReactorAssumption
  <2> QED
    BY <2>1, <2>2, <2>3 DEF Reads
<1> QED
  BY <1>1, <1>2, <1>3, <1>4

LEMMA BufferTypesKept ==
  ASSUME TypeInv, Next
  PROVE  BufferTypes'
<1>1. ASSUME UNCHANGED buffers
      PROVE  BufferTypes'
  BY <1>1 DEF TypeInv, BufferTypes, buffers
<1>2. ASSUME NEW h \in Handlers, Read(h)
      PROVE  BufferTypes'
  <2>1. CASE closed[h] \/ inbox[h] = <<>>
    BY <1>1, <1>2, <2>1 DEF Read
  <2>2. CASE ~ (closed[h] \/ inbox[h] = <<>>)
    <3>1. PICK n \in 1..Len(inbox[h]) :
            /\ Leased # Buffers
            /\ content' = [content EXCEPT ![FreeBuffer] = SubSeq(inbox[h], 1, n)]
            /\ bufferPool' = bufferPool \ {FreeBuffer}
      BY <1>2, <2>2, ReadChunk
    <3>2. inbox[h] \in Seq(Piece)
      BY DEF TypeInv, ClientTypes
    <3>3. SubSeq(inbox[h], 1, n) \in Seq(Piece)
      BY <3>2
    <3>4. decoder' = decoder
      BY <1>2 DEF Read
    <3> QED
      BY <3>1, <3>3, <3>4 DEF TypeInv, BufferTypes
  <2> QED
    BY <2>1, <2>2
<1>3. ASSUME NEW h \in Handlers, NextPiece(h)
      PROVE  BufferTypes'
  <2>1. /\ Buffer(h) \in Buffers
        /\ Tail(content[Buffer(h)]) \in Seq(Piece)
        /\ Append(decoder[h], Head(content[Buffer(h)])) \in Seq(Piece)
    BY <1>3, NextText DEF TypeInv
  <2>2. /\ content' = [content EXCEPT ![Buffer(h)] = Tail(@)]
        /\ bufferPool' = bufferPool
        /\ \/ decoder' = [decoder EXCEPT ![h] = <<>>]
           \/ decoder' = [decoder EXCEPT ![h] = Append(decoder[h], Head(content[Buffer(h)]))]
    BY <1>3 DEF NextPiece
  <2>3. decoder \in [Handlers -> Seq(Piece)] /\ content \in [Buffers -> Seq(Piece)]
    BY DEF TypeInv, BufferTypes
  <2>4. <<>> \in Seq(Piece)
    OBVIOUS
  <2> DEFINE text == Append(decoder[h], Head(content[Buffer(h)]))
  <2>5. text \in Seq(Piece) /\ decoder' \in {[decoder EXCEPT ![h] = <<>>], [decoder EXCEPT ![h] = text]}
    BY <2>1, <2>2
  <2> HIDE DEF text
  <2>6. decoder' \in [Handlers -> Seq(Piece)]
    BY <2>3, <2>4, <2>5
  <2>7. content' \in [Buffers -> Seq(Piece)]
    BY <2>1, <2>2, <2>3
  <2> QED
    BY <2>2, <2>6, <2>7 DEF TypeInv, BufferTypes
<1>4. ASSUME NEW h \in Handlers, TaskEnds(h)
      PROVE  BufferTypes'
  <2>1. Buffer(h) \in Buffers
    BY <1>4, DecodingBuffer DEF TaskEnds, TypeInv
  <2> QED
    BY <1>4, <2>1 DEF TaskEnds, TypeInv, BufferTypes
<1>5. ASSUME NEW h \in Handlers,
             \/ NextKey(h) \/ Accept(h) \/ RegisterKey(h) \/ WriteHead(h) \/ Start(h)
             \/ BeginProtocol(h) \/ AddAgain(h) \/ Watch(h) \/ ClientStep(h)
      PROVE  UNCHANGED buffers
  BY <1>5 DEF NextKey, Accept, RegisterKey, WriteHead, Start, BeginProtocol, AddAgain,
              Watch, ClientStep, Connect, ClientDrop, ClientSend
<1>6. ASSUME NEW h \in Handlers,
             Process(h) \/ Deliver(h) \/ SendReceipt(h) \/ Reply(h) \/ Close(h)
      PROVE  UNCHANGED buffers
  BY <1>6 DEF Process, Deliver, SendReceipt, Reply, Close, WorkerRest
<1>7. ASSUME \/ Wait \/ RunTask \/ NoMoreTasks \/ EndOfRound \/ Add \/ IsReadable
             \/ IsValid \/ IsWritable \/ NothingToWrite \/ Drained \/ Unwatch
      PROVE  UNCHANGED buffers
  BY <1>7 DEF Wait, RunTask, NoMoreTasks, EndOfRound, Add, IsReadable, IsValid,
              IsWritable, NothingToWrite, Drained, Unwatch
<1> QED
  BY <1>1, <1>2, <1>3, <1>4, <1>5, <1>6, <1>7 DEF Next, SelectorStep, TaskStep

LEMMA CloseTypes ==
  ASSUME ChannelTypes, NEW h \in Handlers, CloseChannel(h), UNCHANGED ops
  PROVE  ChannelTypes'
BY DEF ChannelTypes, CloseChannel

LEMMA ChannelTypesKept ==
  ASSUME TypeInv, Next
  PROVE  ChannelTypes'
<1>1. ASSUME UNCHANGED channel
      PROVE  ChannelTypes'
  BY <1>1 DEF TypeInv, ChannelTypes, channel
<1>2. CASE Wait
  BY <1>2 DEF Wait, TypeInv, ChannelTypes
<1>3. CASE RunTask
  BY <1>3 DEF RunTask, TypeInv, ChannelTypes
<1>4. CASE Unwatch
  BY <1>4 DEF Unwatch, TypeInv, ChannelTypes
<1>5. ASSUME NEW h \in Handlers, RegisterKey(h)
      PROVE  ChannelTypes'
  BY <1>5 DEF RegisterKey, TypeInv, ChannelTypes
<1>6. ASSUME NEW h \in Handlers, Read(h)
      PROVE  ChannelTypes'
  <2>1. CASE closed[h] \/ inbox[h] = <<>>
    BY <1>6, <2>1, CloseTypes DEF Read, TypeInv
  <2>2. CASE ~ (closed[h] \/ inbox[h] = <<>>)
    BY <1>1, <1>6, <2>2 DEF Read, channel
  <2> QED
    BY <2>1, <2>2
<1>7. ASSUME NEW h \in Handlers, WriteHead(h)
      PROVE  ChannelTypes'
  <2>1. CASE CloseChannel(h)
    BY <1>7, <2>1, CloseTypes DEF WriteHead, TypeInv
  <2>2. CASE UNCHANGED <<closed, key>>
    BY <1>1, <1>7, <2>2 DEF WriteHead, channel
  <2> QED
    BY <1>7, <2>1, <2>2 DEF WriteHead
<1>8. ASSUME NEW h \in Handlers, Close(h)
      PROVE  ChannelTypes'
  <2>1. Evicted(h) \in Handlers \cup {Null}
    BY DEF Evicted, TypeInv, BrokerInv, BrokerTypeOK
  <2> QED
    BY <1>1, <1>8, <2>1, CloseTypes DEF Close, WorkerRest, TypeInv, channel
<1>9. ASSUME NEW h \in Handlers,
             \/ NextKey(h) \/ Accept(h) \/ Start(h) \/ BeginProtocol(h) \/ AddAgain(h)
             \/ NextPiece(h) \/ TaskEnds(h) \/ Watch(h) \/ ClientStep(h)
      PROVE  UNCHANGED channel
  BY <1>9 DEF NextKey, Accept, Start, BeginProtocol, AddAgain, NextPiece, TaskEnds,
              Watch, ClientStep, Connect, ClientDrop, ClientSend
<1>10. ASSUME NEW h \in Handlers, Process(h) \/ Deliver(h) \/ SendReceipt(h) \/ Reply(h)
       PROVE  UNCHANGED channel
  BY <1>10 DEF Process, Deliver, SendReceipt, Reply, WorkerRest, channel
<1>11. ASSUME \/ NoMoreTasks \/ EndOfRound \/ Add \/ IsReadable \/ IsValid
              \/ IsWritable \/ NothingToWrite \/ Drained
       PROVE  UNCHANGED channel
  BY <1>11 DEF NoMoreTasks, EndOfRound, Add, IsReadable, IsValid, IsWritable,
               NothingToWrite, Drained
<1> QED
  BY <1>1, <1>2, <1>3, <1>4, <1>5, <1>6, <1>7, <1>8, <1>9, <1>10, <1>11
     DEF Next, SelectorStep, TaskStep

\* The target of a write, and what is written.
LEMMA WriteTo ==
  ASSUME TypeInv, NEW h \in Handlers, Deliver(h) \/ SendReceipt(h) \/ Reply(h)
  PROVE  \/ NoWrite
         \/ \E g \in Handlers, m \in ServerFrame : Write(h, g, m)
<1> USE DEF TypeInv
<1>1. CASE Deliver(h)
  <2>1. pc[h] = "deliver" /\ target[h] \in Handlers
    BY <1>1 DEF Deliver, Delivered, BrokerInv, Equipped
  <2>2. MessageOf(h) \in ServerFrame
    BY <2>1, MessageType
  <2> QED
    BY <1>1, <2>1, <2>2 DEF Deliver
<1>2. CASE SendReceipt(h)
  <2>1. Receipt(h) \in ServerFrame \cup {Null}
    BY <1>2, ReceiptType DEF SendReceipt, Receipted, BrokerInv, FrameKept
  <2>2. target[h] \in Handlers \cup {Null}
    BY DEF BrokerInv, BrokerTypeOK
  <2> QED
    BY <1>2, <2>1, <2>2 DEF SendReceipt
<1>3. CASE Reply(h)
  <2>1. reply[h] \in ServerFrame \cup {Null}
    BY DEF BrokerInv, BrokerTypeOK
  <2> QED
    BY <1>3, <2>1 DEF Reply
<1> QED
  BY <1>1, <1>2, <1>3

LEMMA WriteTypesKept ==
  ASSUME TypeInv, Next
  PROVE  WriteTypes'
<1>1. ASSUME UNCHANGED <<writeQueue, selectorTasks>>
      PROVE  WriteTypes'
  BY <1>1 DEF TypeInv, WriteTypes
<1>2. ASSUME NEW h \in Handlers, NEW g \in Handlers, NEW m \in ServerFrame,
             Write(h, g, m), UNCHANGED selectorTasks
      PROVE  WriteTypes'
  <2>1. Append(writeQueue[g], m) \in Seq(ServerFrame)
    BY DEF TypeInv, WriteTypes
  <2> QED
    BY <1>2, <2>1 DEF Write, TypeInv, WriteTypes
<1>3. ASSUME NEW h \in Handlers, Deliver(h) \/ SendReceipt(h) \/ Reply(h)
      PROVE  WriteTypes'
  <2>1. UNCHANGED selectorTasks
    BY <1>3 DEF Deliver, SendReceipt, Reply, WorkerRest
  <2> QED
    BY <1>1, <1>2, <1>3, <2>1, WriteTo DEF NoWrite
<1>4. ASSUME NEW h \in Handlers, WriteHead(h)
      PROVE  WriteTypes'
  <2>1. writeQueue[h] \in Seq(ServerFrame) /\ writeQueue[h] # <<>>
    BY <1>4 DEF WriteHead, TypeInv, WriteTypes
  <2>2. Tail(writeQueue[h]) \in Seq(ServerFrame)
    BY <2>1
  <2> QED
    BY <1>4, <2>2 DEF WriteHead, TypeInv, WriteTypes
<1>5. CASE RunTask
  <2>1. selectorTasks' \in Seq([handler : Handlers, found : BOOLEAN])
    BY <1>5 DEF RunTask, TypeInv, WriteTypes
  <2> QED
    BY <1>5, <2>1 DEF RunTask, TypeInv, WriteTypes
<1>6. ASSUME NEW h \in Handlers, Watch(h)
      PROVE  WriteTypes'
  <2>1. wake[h] \in Handlers
    BY <1>6 DEF Watch, TypeInv, PoolTypes
  <2>2. [handler |-> wake[h], found |-> key[wake[h]] \notin {"none", "gone"}]
          \in [handler : Handlers, found : BOOLEAN]
    BY <2>1
  <2>3. selectorTasks' \in Seq([handler : Handlers, found : BOOLEAN])
    BY <1>6, <2>2 DEF Watch, TypeInv, WriteTypes
  <2> QED
    BY <1>6, <2>3 DEF Watch, TypeInv, WriteTypes
<1>7. ASSUME NEW h \in Handlers,
             \/ NextKey(h) \/ Accept(h) \/ RegisterKey(h) \/ Read(h) \/ Start(h)
             \/ BeginProtocol(h) \/ AddAgain(h) \/ NextPiece(h) \/ TaskEnds(h)
             \/ ClientStep(h)
      PROVE  UNCHANGED <<writeQueue, selectorTasks>>
  BY <1>7 DEF NextKey, Accept, RegisterKey, Read, Start, BeginProtocol, AddAgain,
              NextPiece, TaskEnds, ClientStep, Connect, ClientDrop, ClientSend
<1>8. ASSUME NEW h \in Handlers, Process(h) \/ Close(h)
      PROVE  UNCHANGED <<writeQueue, selectorTasks>>
  BY <1>8 DEF Process, Close, NoWrite, WorkerRest
<1>9. ASSUME \/ Wait \/ NoMoreTasks \/ EndOfRound \/ Add \/ IsReadable \/ IsValid
             \/ IsWritable \/ NothingToWrite \/ Drained \/ Unwatch
      PROVE  UNCHANGED <<writeQueue, selectorTasks>>
  BY <1>9 DEF Wait, NoMoreTasks, EndOfRound, Add, IsReadable, IsValid, IsWritable,
              NothingToWrite, Drained, Unwatch
<1> QED
  BY <1>1, <1>3, <1>4, <1>5, <1>6, <1>7, <1>8, <1>9 DEF Next, SelectorStep, TaskStep

-----------------------------------------------------------------------------
(* Types, for the selector thread, the clients and the protocols *)

\* The workers and the clients leave the selector thread where it is.
LEMMA OthersLeaveSelector ==
  ASSUME NEW h \in Handlers, Start(h) \/ TaskStep(h) \/ ClientStep(h)
  PROVE  UNCHANGED selector
<1>1. ASSUME \/ Start(h) \/ BeginProtocol(h) \/ AddAgain(h) \/ NextPiece(h) \/ TaskEnds(h)
             \/ Watch(h) \/ ClientStep(h)
      PROVE  UNCHANGED selector
  BY <1>1 DEF Start, BeginProtocol, AddAgain, NextPiece, TaskEnds, Watch, ClientStep,
              Connect, ClientDrop, ClientSend
<1>2. ASSUME Process(h) \/ Deliver(h) \/ SendReceipt(h) \/ Reply(h) \/ Close(h)
      PROVE  UNCHANGED selector
  BY <1>2 DEF Process, Deliver, SendReceipt, Reply, Close, WorkerRest
<1> QED
  BY <1>1, <1>2 DEF TaskStep

LEMMA SelectorTypesKept ==
  ASSUME TypeInv, Next
  PROVE  SelectorTypes'
<1> USE DEF TypeInv, SelectorTypes, Working, Select, Die, NextRound
<1>1. ASSUME UNCHANGED selector
      PROVE  SelectorTypes'
  BY <1>1 DEF selector
<1>2. CASE Wait
  <2>1. \A h \in Handlers : Ready(h) \subseteq {"accept", "read", "write"}
    BY DEF Ready
  <2>2. ready' \in [Handlers -> SUBSET {"accept", "read", "write"}]
    BY <1>2, <2>1 DEF Wait
  <2> QED
    BY <1>2, <2>2 DEF Wait
<1>3. CASE RunTask \/ NoMoreTasks \/ EndOfRound \/ Add
  BY <1>1, <1>3 DEF RunTask, NoMoreTasks, EndOfRound, Add, selector
<1>4. CASE IsReadable \/ IsValid \/ IsWritable
  BY <1>4 DEF IsReadable, IsValid, IsWritable
<1>5. CASE NothingToWrite \/ Drained \/ Unwatch
  BY <1>5 DEF NothingToWrite, Drained, Unwatch
<1>6. ASSUME NEW h \in Handlers, NextKey(h) \/ Accept(h)
      PROVE  SelectorTypes'
  BY <1>6 DEF NextKey, Accept
<1>7. ASSUME NEW h \in Handlers, RegisterKey(h) \/ Read(h)
      PROVE  SelectorTypes'
  BY <1>7 DEF RegisterKey, Read
<1>8. ASSUME NEW h \in Handlers, WriteHead(h)
      PROVE  SelectorTypes'
  BY <1>1, <1>8 DEF WriteHead
<1> QED
  BY <1>1, <1>2, <1>3, <1>4, <1>5, <1>6, <1>7, <1>8, OthersLeaveSelector
     DEF Next, SelectorStep

LEMMA PiecesTypes ==
  ASSUME NEW f \in Frames
  PROVE  /\ Begin(f) \in Piece /\ End(f) \in Piece
         /\ Pieces(f) \in Seq(Piece) /\ Pieces(f) # <<>>
BY DEF Begin, End, Pieces, Piece

LEMMA PieceIs ==
  ASSUME NEW e \in Piece
  PROVE  e.frame \in Frames /\ e = IF e.last THEN End(e.frame) ELSE Begin(e.frame)
BY DEF Piece, Begin, End

LEMMA SentTypes ==
  ASSUME ClientTypes, NEW h \in Handlers, NEW f \in Frames \cup {Null}, Follows(h, f)
  PROVE  sent' \in [Handlers -> Seq(Frames \cup {Null})]
<1>1. Append(sent[h], f) \in Seq(Frames \cup {Null})
  BY DEF ClientTypes
<1> QED
  BY <1>1 DEF ClientTypes, Follows

LEMMA ClientTypesKept ==
  ASSUME TypeInv, Next
  PROVE  ClientTypes'
<1> USE DEF TypeInv, ClientTypes
<1>1. ASSUME UNCHANGED network
      PROVE  ClientTypes'
  BY <1>1 DEF network
<1>2. ASSUME NEW h \in Handlers, Accept(h)
      PROVE  ClientTypes'
  BY <1>2 DEF Accept
<1>3. ASSUME NEW h \in Handlers, Read(h)
      PROVE  ClientTypes'
  <2>1. CASE closed[h] \/ inbox[h] = <<>>
    BY <1>3, <2>1 DEF Read
  <2>2. CASE ~ (closed[h] \/ inbox[h] = <<>>)
    <3>1. PICK n \in 1..Len(inbox[h]) :
            inbox' = [inbox EXCEPT ![h] = SubSeq(@, n + 1, Len(@))]
      BY <1>3, <2>2, ReadChunk
    <3>2. SubSeq(inbox[h], n + 1, Len(inbox[h])) \in Seq(Piece)
      <4>1. inbox[h] \in Seq(Piece)
        OBVIOUS
      <4> QED
        BY <4>1
    <3> QED
      BY <1>3, <3>1, <3>2 DEF Read
  <2> QED
    BY <2>1, <2>2
<1>4. ASSUME NEW h \in Handlers, Connect(h)
      PROVE  ClientTypes'
  BY <1>4 DEF Connect
<1>5. ASSUME NEW h \in Handlers, ClientDrop(h)
      PROVE  ClientTypes'
  <2>1. PICK n \in 0..Len(inbox[h]) : inbox' = [inbox EXCEPT ![h] = SubSeq(@, 1, n)]
    BY <1>5 DEF ClientDrop
  <2>2. inbox[h] \in Seq(Piece)
    OBVIOUS
  <2>3. SubSeq(inbox[h], 1, n) \in Seq(Piece)
    BY <2>2
  <2>4. sent' \in [Handlers -> Seq(Frames \cup {Null})]
    BY <1>5, SentTypes DEF ClientDrop
  <2> QED
    BY <1>5, <2>1, <2>3, <2>4 DEF ClientDrop
<1>6. ASSUME NEW h \in Handlers, NEW f \in Frames, ClientSend(h, f)
      PROVE  ClientTypes'
  <2>1. inbox[h] \in Seq(Piece) /\ Pieces(f) \in Seq(Piece)
    BY PiecesTypes
  <2>2. inbox[h] \o Pieces(f) \in Seq(Piece)
    BY <2>1
  <2>3. sent' \in [Handlers -> Seq(Frames \cup {Null})]
    BY <1>6, SentTypes DEF ClientSend
  <2> QED
    BY <1>6, <2>2, <2>3 DEF ClientSend
<1>7. ASSUME NEW h \in Handlers,
             \/ NextKey(h) \/ RegisterKey(h) \/ WriteHead(h) \/ Start(h)
             \/ BeginProtocol(h) \/ AddAgain(h) \/ NextPiece(h) \/ TaskEnds(h) \/ Watch(h)
      PROVE  UNCHANGED network
  BY <1>7 DEF NextKey, RegisterKey, WriteHead, Start, BeginProtocol, AddAgain,
              NextPiece, TaskEnds, Watch
<1>8. ASSUME NEW h \in Handlers,
             Process(h) \/ Deliver(h) \/ SendReceipt(h) \/ Reply(h) \/ Close(h)
      PROVE  UNCHANGED network
  BY <1>8 DEF Process, Deliver, SendReceipt, Reply, Close, WorkerRest
<1>9. ASSUME \/ Wait \/ RunTask \/ NoMoreTasks \/ EndOfRound \/ Add \/ IsReadable
             \/ IsValid \/ IsWritable \/ NothingToWrite \/ Drained \/ Unwatch
      PROVE  UNCHANGED network
  BY <1>9 DEF Wait, RunTask, NoMoreTasks, EndOfRound, Add, IsReadable, IsValid,
              IsWritable, NothingToWrite, Drained, Unwatch
<1> QED
  BY <1>1, <1>2, <1>3, <1>4, <1>5, <1>6, <1>7, <1>8, <1>9
     DEF Next, SelectorStep, TaskStep, ClientStep

\* Only Accept changes the counter.
LEMMA CounterStays ==
  ASSUME Next
  PROVE  UNCHANGED counter \/ \E h \in Handlers : Accept(h)
<1>1. ASSUME NEW h \in Handlers,
             \/ NextKey(h) \/ RegisterKey(h) \/ Read(h) \/ WriteHead(h) \/ Start(h)
             \/ BeginProtocol(h) \/ AddAgain(h) \/ NextPiece(h) \/ TaskEnds(h)
             \/ Watch(h) \/ ClientStep(h)
      PROVE  UNCHANGED counter
  BY <1>1 DEF NextKey, RegisterKey, Read, WriteHead, Start, BeginProtocol, AddAgain,
              NextPiece, TaskEnds, Watch, ClientStep, Connect, ClientDrop, ClientSend
<1>2. ASSUME NEW h \in Handlers,
             Process(h) \/ Deliver(h) \/ SendReceipt(h) \/ Reply(h) \/ Close(h)
      PROVE  UNCHANGED counter
  BY <1>2 DEF Process, Deliver, SendReceipt, Reply, Close, WorkerRest
<1>3. ASSUME \/ Wait \/ RunTask \/ NoMoreTasks \/ EndOfRound \/ Add \/ IsReadable
             \/ IsValid \/ IsWritable \/ NothingToWrite \/ Drained \/ Unwatch
      PROVE  UNCHANGED counter
  BY <1>3 DEF Wait, RunTask, NoMoreTasks, EndOfRound, Add, IsReadable, IsValid,
              IsWritable, NothingToWrite, Drained, Unwatch
<1> QED
  BY <1>1, <1>2, <1>3 DEF Next, SelectorStep, TaskStep

\* Before the first accept, the tasks, the keys and the rounds are void.
LEMMA CounterKept ==
  ASSUME TypeInv, Next
  PROVE  CounterKnown'
<1>1. ASSUME NEW h \in Handlers, Accept(h)
      PROVE  CounterKnown'
  BY <1>1 DEF Accept, CounterKnown
<1>2. CASE counter \in Ids /\ UNCHANGED counter
  BY <1>2 DEF CounterKnown
<1>3. ASSUME counter \notin Ids, UNCHANGED counter, ~ \E h \in Handlers : Accept(h)
      PROVE  CounterKnown'
  <2> USE DEF TypeInv, CounterKnown
  <2>1. /\ counter = 0 /\ at \notin Working
        /\ \A h \in Handlers : queue[h] = <<>> /\ step[h] = "idle" /\ key[h] = "none"
    BY <1>3
  <2>2. ASSUME UNCHANGED <<at, queue, step, key>>
        PROVE  CounterKnown'
    BY <1>3, <2>1, <2>2
  <2>3. CASE Wait \/ RunTask \/ NoMoreTasks \/ EndOfRound
    <3>1. UNCHANGED <<queue, step>> /\ at' \in {"select", "tasks", "keys", "dead"}
      BY <2>1, <2>3 DEF Wait, RunTask, NoMoreTasks, EndOfRound, Select, Die, pool, selector
    <3>2. \A h \in Handlers : key'[h] = "none"
      BY <2>1, <2>3 DEF Wait, RunTask, NoMoreTasks, EndOfRound, channel
    <3> QED
      BY <1>3, <2>1, <3>1, <3>2 DEF Working
  <2>4. CASE Add \/ IsReadable \/ IsValid \/ IsWritable \/ NothingToWrite \/ Drained \/ Unwatch
    BY <2>1, <2>4 DEF Add, IsReadable, IsValid, IsWritable, NothingToWrite, Drained,
                      Unwatch, Working
  <2>5. ASSUME NEW h \in Handlers, RegisterKey(h) \/ Read(h) \/ WriteHead(h)
        PROVE  FALSE
    BY <2>1, <2>5 DEF RegisterKey, Read, WriteHead, Working
  <2>6. ASSUME NEW h \in Handlers, NextKey(h)
        PROVE  CounterKnown'
    BY <2>1, <2>2, <2>6 DEF NextKey, pool, channel
  <2>7. ASSUME NEW h \in Handlers, Start(h)
        PROVE  FALSE
    BY <2>1, <2>7 DEF Start, Pool!Start
  <2>8. ASSUME NEW h \in Handlers, TaskStep(h)
        PROVE  CounterKnown'
    <3>1. Watch(h)
      BY <2>1, <2>8 DEF TaskStep, BeginProtocol, AddAgain, NextPiece, TaskEnds, Process,
                        Deliver, SendReceipt, Reply, Close, Decoding
    <3> QED
      BY <2>2, <3>1 DEF Watch, pool, channel, selector
  <2>9. ASSUME NEW h \in Handlers, ClientStep(h)
        PROVE  CounterKnown'
    BY <2>2, <2>9, OthersLeaveSelector
       DEF ClientStep, Connect, ClientDrop, ClientSend, pool, channel, selector
  <2> QED
    BY <1>3, <2>3, <2>4, <2>5, <2>6, <2>7, <2>8, <2>9 DEF Next, SelectorStep
<1> QED
  BY <1>1, <1>2, <1>3, CounterStays

LEMMA BrokerKept ==
  ASSUME TypeInv, Next
  PROVE  BrokerInv'
<1> USE DEF TypeInv
<1>1. ASSUME UNCHANGED brokerVars
      PROVE  BrokerInv'
  BY <1>1, StillKeeps
<1>2. ASSUME NEW h \in Handlers, Accept(h)
      PROVE  BrokerInv'
  <2>1. connections' \in [Ids -> Handlers \cup {Null}]
    BY <1>2 DEF Accept, tables, BrokerInv, BrokerTypeOK
  <2>2. counter' \in Ids
    BY <1>2 DEF Accept
  <2> QED
    BY <1>2, <2>1, <2>2, JoinKeeps DEF Accept, Goto, tables
<1>3. CASE Add
  <2>1. current \in Handlers
    BY <1>3 DEF Add, SelectorTypes, Working
  <2>2. connections' \in [Ids -> Handlers \cup {Null}]
    BY <1>3, <2>1 DEF Add, BrokerInv, BrokerTypeOK
  <2> QED
    BY <1>3, <2>2, AddKeeps DEF Add
<1>4. ASSUME NEW h \in Handlers, BeginProtocol(h)
      PROVE  BrokerInv'
  <2>1. counter \in Ids
    BY <1>4 DEF BeginProtocol, CounterKnown
  <2>2. connections' \in [Ids -> Handlers \cup {Null}]
    BY <1>4 DEF BeginProtocol, tables, BrokerInv, BrokerTypeOK
  <2> QED
    BY <1>4, <2>1, <2>2, JoinKeeps DEF BeginProtocol, tables
<1>5. ASSUME NEW h \in Handlers, AddAgain(h)
      PROVE  BrokerInv'
  <2>1. connections' \in [Ids -> Handlers \cup {Null}]
    BY <1>5 DEF AddAgain, BrokerInv, BrokerTypeOK
  <2> QED
    BY <1>5, <2>1, AddKeeps DEF AddAgain
<1>6. ASSUME NEW h \in Handlers, NextPiece(h)
      PROVE  BrokerInv'
  <2> DEFINE text == Append(decoder[h], Head(content[Buffer(h)]))
  <2>1. CASE Last(text).last
    <3>1. PICK f \in Reads(text) : frame' = [frame EXCEPT ![h] = f] /\ Goto(h, "process")
      BY <1>6, <2>1 DEF NextPiece
    <3>2. f \in Frames
      BY <1>6, NextText
    <3> QED
      BY <1>6, <3>1, <3>2, TakeKeeps DEF NextPiece
  <2>2. CASE ~ Last(text).last
    BY <1>1, <1>6, <2>2 DEF NextPiece, brokerVars, locals
  <2> QED
    BY <2>1, <2>2
<1>7. ASSUME NEW h \in Handlers, TaskEnds(h)
      PROVE  BrokerInv'
  BY <1>7, DoneKeeps DEF TaskEnds
<1>8. ASSUME NEW h \in Handlers, Reply(h)
      PROVE  BrokerInv'
  BY <1>8, DoneKeeps DEF Reply
<1>9. ASSUME NEW h \in Handlers, Process(h)
      PROVE  BrokerInv'
  BY <1>9, SilentKeeps DEF Process
<1>10. ASSUME NEW h \in Handlers, Deliver(h) \/ SendReceipt(h) \/ Close(h)
       PROVE  BrokerInv'
  BY <1>10, WritingKeeps DEF Deliver, SendReceipt, Close
<1>11. ASSUME NEW h \in Handlers,
              \/ NextKey(h) \/ RegisterKey(h) \/ Read(h) \/ WriteHead(h) \/ Start(h)
              \/ Watch(h) \/ ClientStep(h)
       PROVE  UNCHANGED brokerVars
  BY <1>11 DEF NextKey, RegisterKey, Read, WriteHead, Start, Watch, ClientStep, Connect,
               ClientDrop, ClientSend
<1>12. ASSUME \/ Wait \/ RunTask \/ NoMoreTasks \/ EndOfRound \/ IsReadable \/ IsValid
              \/ IsWritable \/ NothingToWrite \/ Drained \/ Unwatch
       PROVE  UNCHANGED brokerVars
  BY <1>12 DEF Wait, RunTask, NoMoreTasks, EndOfRound, IsReadable, IsValid, IsWritable,
               NothingToWrite, Drained, Unwatch
<1> QED
  BY <1>1, <1>2, <1>3, <1>4, <1>5, <1>6, <1>7, <1>8, <1>9, <1>10, <1>11, <1>12
     DEF Next, SelectorStep, TaskStep

\* The types of the reactor.
THEOREM ReactorTypeInvariant == Safety => []TypeInv
<1>1. Init => TypeInv
  <2> SUFFICES ASSUME Init PROVE TypeInv
    OBVIOUS
  <2>1. BrokerInv
    BY BrokerStarts DEF Init
  <2>2. PoolTypes
    <3>1. queue \in [Handlers -> Seq(Submitted)]
      BY DEF Init, Pool!Init
    <3>2. /\ running \in [Handlers -> Submitted \cup {Null}]
          /\ wake \in [Handlers -> Handlers \cup {Null}]
          /\ down \in BOOLEAN
      BY DEF Init, Pool!Init
    <3>3. \A h \in Handlers : step[h] = "idle"
      BY DEF Init
    <3>4. step \in [Handlers -> {"idle", "begin", "add", "frames"}]
      BY DEF Init
    <3> QED
      BY <3>1, <3>2, <3>3, <3>4 DEF PoolTypes
  <2>3. BufferTypes /\ ChannelTypes /\ WriteTypes /\ SelectorTypes
    BY DEF Init, BufferTypes, ChannelTypes, WriteTypes, SelectorTypes, Working
  <2>4. ClientTypes
    BY DEF Init, ClientTypes
  <2>5. CounterKnown
    BY DEF Init, CounterKnown, Working, Pool!Init
  <2> QED
    BY <2>1, <2>2, <2>3, <2>4, <2>5 DEF TypeInv
<1>2. TypeInv /\ [Next]_vars => TypeInv'
  <2> SUFFICES ASSUME TypeInv, [Next]_vars
               PROVE  TypeInv'
    OBVIOUS
  <2>1. CASE UNCHANGED vars
    <3>1. BrokerInv'
      BY <2>1, StillKeeps DEF TypeInv, vars
    <3> QED
      BY <2>1, <3>1 DEF TypeInv, PoolTypes, BufferTypes, ChannelTypes, WriteTypes,
             SelectorTypes, ClientTypes, CounterKnown, vars, pool, buffers, channel,
             selector, network
  <2>2. CASE Next
    BY <2>2, BrokerKept, PoolTypesKept, BufferTypesKept, ChannelTypesKept, WriteTypesKept,
       SelectorTypesKept, ClientTypesKept, CounterKept DEF TypeInv
  <2> QED
    BY <2>1, <2>2
<1> QED
  BY <1>1, <1>2, PTL DEF Safety

\* Every state of the reactor is well formed: a task has a buffer, a handler
\* that is written to is there, the selector thread has a handler to work on.
THEOREM ReactorTypeOK == Safety => []TypeOK
<1>1. TypeInv => TypeOK
  <2> SUFFICES ASSUME TypeInv PROVE TypeOK
    OBVIOUS
  <2>1. Submitted \subseteq Task
    BY DEF Submitted, Task, StartTask, ReadTask
  <2>2. \A h \in Handlers : queue[h] \in Seq(Task)
    BY <2>1 DEF TypeInv, PoolTypes
  <2>3. queue \in [Handlers -> Seq(Task)]
    BY <2>2 DEF TypeInv, PoolTypes
  <2>4. counter \in Nat
    <3>1. Ids \subseteq Nat
      BY ReactorAssumption
    <3>2. counter \in Ids \/ counter = 0
      BY DEF TypeInv, CounterKnown
    <3>3. 0 \in Nat
      OBVIOUS
    <3> QED
      BY <3>1, <3>2, <3>3, Zenon
  <2>5. at \in {"select", "tasks", "keys", "add", "register", "readable", "read",
                "valid", "writable", "write", "drained", "unwatch", "dead"}
    BY DEF TypeInv, SelectorTypes, Working
  <2> QED
    BY <2>1, <2>3, <2>4, <2>5 DEF TypeInv, TypeOK, BrokerInv, PoolTypes,
       BufferTypes, ChannelTypes, WriteTypes, SelectorTypes, ClientTypes
<1> QED
  BY <1>1, ReactorTypeInvariant, PTL

-----------------------------------------------------------------------------
(* Write wakeups *)

LEMMA KeysKept ==
  ASSUME TypeInv, KeysAfterAccept, Next
  PROVE  KeysAfterAccept'
<1> USE DEF KeysAfterAccept, Select, Die
<1>0. /\ key \in [Handlers -> {"none", "valid", "cancelled", "gone"}]
      /\ client \in [Handlers -> {"away", "waiting", "up", "gone"}]
      /\ ready \in [Handlers -> SUBSET {"accept", "read", "write"}]
      /\ at \in Working => current \in Handlers
  BY DEF TypeInv, ChannelTypes, ClientTypes, SelectorTypes
<1>1. ASSUME UNCHANGED <<selector, client, key>>
      PROVE  KeysAfterAccept'
  BY <1>1 DEF selector
<1>2. CASE Wait
  <2>1. \A h \in Handlers : "accept" \in ready'[h] => client[h] = "waiting"
    <3>1. \A h \in Handlers : ready'[h] \subseteq Ready(h)
      BY <1>2 DEF Wait
    <3>2. \A h \in Handlers : "accept" \in Ready(h) => client[h] = "waiting"
      BY DEF Ready, TypeInv, ChannelTypes
    <3> QED
      BY <3>1, <3>2
  <2>2. \A h \in Handlers : key[h] = "none" => key'[h] = "none"
    BY <1>2 DEF Wait
  <2> QED
    BY <1>2, <2>1, <2>2 DEF Wait, network
<1>3. ASSUME \/ RunTask \/ NoMoreTasks \/ EndOfRound \/ IsReadable \/ IsValid
             \/ IsWritable \/ NothingToWrite \/ Drained \/ Unwatch
      PROVE  KeysAfterAccept'
  <2>1. UNCHANGED <<client, key>>
    BY <1>3 DEF RunTask, NoMoreTasks, EndOfRound, IsReadable, IsValid, IsWritable,
                NothingToWrite, Drained, Unwatch, channel, network
  <2>2. \A h \in Handlers : ready'[h] \subseteq ready[h]
    BY <1>0, <1>3 DEF RunTask, NoMoreTasks, EndOfRound, IsReadable, IsValid, IsWritable,
                      NothingToWrite, Drained, Unwatch, selector, NextRound, Working
  <2>3. at' \notin {"add", "register"}
    BY <1>3 DEF RunTask, NoMoreTasks, EndOfRound, IsReadable, IsValid, IsWritable,
                NothingToWrite, Drained, Unwatch, selector, NextRound
  <2> QED
    BY <2>1, <2>2, <2>3
<1>4. CASE Add
  BY <1>4 DEF Add, channel, network
<1>5. ASSUME NEW g \in Handlers, Accept(g)
      PROVE  KeysAfterAccept'
  <2>1. client[g] = "waiting" /\ key[g] = "none" /\ client' = [client EXCEPT ![g] = "up"]
    BY <1>0, <1>5 DEF Accept
  <2>2. \A h \in Handlers : "accept" \notin ready'[h]
    BY <1>5 DEF Accept
  <2> QED
    BY <1>0, <1>5, <2>1, <2>2 DEF Accept, channel
<1>6. ASSUME NEW g \in Handlers, RegisterKey(g)
      PROVE  KeysAfterAccept'
  BY <1>0, <1>6 DEF RegisterKey, network
<1>7. ASSUME NEW g \in Handlers, NextKey(g)
      PROVE  KeysAfterAccept'
  BY <1>0, <1>7 DEF NextKey, channel, network
<1>8. ASSUME NEW g \in Handlers, CloseChannel(g)
      PROVE  \A h \in Handlers : key[h] = "none" => key'[h] = "none"
  BY <1>0, <1>8 DEF CloseChannel
<1>9. ASSUME NEW g \in Handlers, Read(g)
      PROVE  KeysAfterAccept'
  <2>1. \A h \in Handlers : key[h] = "none" => key'[h] = "none"
    BY <1>8, <1>9 DEF Read
  <2> QED
    BY <1>9, <2>1 DEF Read
<1>10. ASSUME NEW g \in Handlers, WriteHead(g)
       PROVE  KeysAfterAccept'
  <2>1. \A h \in Handlers : key[h] = "none" => key'[h] = "none"
    BY <1>8, <1>10 DEF WriteHead
  <2>2. at' \in {"write", "keys"} /\ UNCHANGED client
    BY <1>10 DEF WriteHead, NextRound, selector, network
  <2>3. \A h \in Handlers : ready'[h] \subseteq ready[h]
    BY <1>0, <1>10 DEF WriteHead, NextRound, selector
  <2> QED
    BY <2>1, <2>2, <2>3
<1>11. ASSUME NEW g \in Handlers, Close(g)
       PROVE  KeysAfterAccept'
  <2>1. Evicted(g) \in Handlers \cup {Null}
    BY DEF Evicted, TypeInv, BrokerInv, BrokerTypeOK
  <2>2. \A h \in Handlers : key[h] = "none" => key'[h] = "none"
    BY <1>8, <1>11, <2>1 DEF Close
  <2> QED
    BY <1>11, <2>2 DEF Close, WorkerRest, selector, network
<1>12. ASSUME NEW g \in Handlers, Connect(g) \/ ClientDrop(g)
       PROVE  KeysAfterAccept'
  BY <1>0, <1>12 DEF Connect, ClientDrop, channel, selector
<1>13. ASSUME NEW g \in Handlers,
              \/ Start(g) \/ BeginProtocol(g) \/ AddAgain(g) \/ NextPiece(g) \/ TaskEnds(g)
              \/ Watch(g) \/ \E f \in Frames : ClientSend(g, f)
       PROVE  UNCHANGED <<selector, client, key>>
  BY <1>13 DEF Start, BeginProtocol, AddAgain, NextPiece, TaskEnds, Watch, ClientSend,
               channel, network
<1>14. ASSUME NEW g \in Handlers, Process(g) \/ Deliver(g) \/ SendReceipt(g) \/ Reply(g)
       PROVE  UNCHANGED <<selector, client, key>>
  BY <1>14 DEF Process, Deliver, SendReceipt, Reply, WorkerRest, network
<1> QED
  BY <1>1, <1>2, <1>3, <1>4, <1>5, <1>6, <1>7, <1>9, <1>10, <1>11, <1>12, <1>13, <1>14
     DEF Next, SelectorStep, TaskStep, ClientStep

\* A step that asks for nothing, clears no interest, and adds no frame.
LEMMA StillWatched ==
  ASSUME WakeupInv, UNCHANGED <<ops, selectorTasks, wake>>,
         \A h \in Handlers : writeQueue'[h] # <<>> => writeQueue[h] # <<>>,
         \A h \in Handlers : key'[h] \in {"none", "valid"} => key'[h] = key[h],
         at' # "dead" => at # "dead",
         at' = "unwatch" =>
           UNCHANGED <<at, current>> \/ writeQueue'[current'] = <<>>
  PROVE  WakeupInv'
BY DEF WakeupInv, WatchComes

\* A worker appends a frame and remembers to ask.
LEMMA WriteWatched ==
  ASSUME TypeInv, WakeupInv, NEW h \in Handlers, NEW g \in Handlers, NEW m,
         wake[h] = Null, Write(h, g, m), UNCHANGED <<key, ops, selectorTasks, at, current>>
  PROVE  WakeupInv'
<1>1. wake' = [wake EXCEPT ![h] = g] /\ wake \in [Handlers -> Handlers \cup {Null}]
  BY DEF Write, TypeInv, PoolTypes
<1>2. WatchComes(g)'
  BY <1>1 DEF WatchComes
<1>3. ASSUME NEW x \in Handlers, WatchComes(x)
      PROVE  WatchComes(x)'
  <2>1. \A y \in Handlers : wake[y] = x => wake'[y] = x
    BY <1>1, NullIsNoValue
  <2> QED
    BY <1>3, <2>1 DEF WatchComes
<1>4. \A x \in Handlers \ {g} : writeQueue'[x] = writeQueue[x]
  BY DEF Write, TypeInv, WriteTypes
<1> QED
  BY <1>2, <1>3, <1>4 DEF WakeupInv

\* The oldest request is carried out, the others stay.
LEMMA RunTaskWatched ==
  ASSUME TypeInv, WakeupInv, RunTask
  PROVE  WakeupInv'
<1> USE DEF RunTask, Select, Die
<1>1. CASE at' = "dead"
  BY <1>1 DEF WakeupInv
<1>2. CASE at' # "dead"
  <2> DEFINE h == Head(selectorTasks).handler
  <2>1. /\ selectorTasks \in Seq([handler : Handlers, found : BOOLEAN])
        /\ selectorTasks # <<>>
    BY DEF TypeInv, WriteTypes
  <2>2. Head(selectorTasks) = selectorTasks[1]
    BY <2>1
  <2>3. h \in Handlers
    <3> DEFINE R == [handler : Handlers, found : BOOLEAN]
    <3>1. Head(selectorTasks) \in R
      <4>1. selectorTasks \in Seq(R) /\ selectorTasks # <<>>
        BY <2>1
      <4> HIDE DEF R
      <4> QED
        BY <4>1
    <3> QED
      BY <3>1
  <2>4. /\ key[h] = "valid" /\ ops' = [ops EXCEPT ![h] = {"read", "write"}]
        /\ UNCHANGED <<at, current, key, wake, writeQueue>> /\ at = "tasks"
    BY <1>2 DEF selector
  <2>5. ops \in [Handlers -> SUBSET {"read", "write"}]
    BY DEF TypeInv, ChannelTypes
  <2>6. ASSUME NEW x \in Handlers \ {h}, WatchComes(x)
        PROVE  WatchComes(x)'
    <3>1. ASSUME NEW k \in DOMAIN selectorTasks, selectorTasks[k].handler = x
          PROVE  \E j \in DOMAIN selectorTasks' : selectorTasks'[j].handler = x
      <4>1. k # 1 /\ k \in 1..Len(selectorTasks)
        BY <2>1, <2>2, <2>6, <3>1
      <4>2. /\ selectorTasks' = Tail(selectorTasks)
            /\ k - 1 \in DOMAIN selectorTasks'
            /\ selectorTasks'[k - 1] = selectorTasks[k]
        BY <2>1, <4>1
      <4> QED
        BY <3>1, <4>2
    <3> QED
      BY <2>4, <2>6, <3>1 DEF WatchComes
  <2>7. "write" \in ops'[h] /\ \A x \in Handlers \ {h} : ops'[x] = ops[x]
    BY <2>3, <2>4, <2>5
  <2> HIDE DEF h
  <2> QED
    BY <2>3, <2>4, <2>6, <2>7 DEF WakeupInv
<1> QED
  BY <1>1, <1>2

\* What was remembered is asked for.
LEMMA WatchWatched ==
  ASSUME TypeInv, WakeupInv, NEW h \in Handlers, Watch(h)
  PROVE  WakeupInv'
<1>1. /\ selectorTasks \in Seq([handler : Handlers, found : BOOLEAN])
      /\ wake \in [Handlers -> Handlers \cup {Null}]
      /\ wake[h] \in Handlers
  BY DEF TypeInv, WriteTypes, PoolTypes, Watch
<1>2. PICK t \in [handler : Handlers, found : BOOLEAN] :
        t.handler = wake[h] /\ selectorTasks' = Append(selectorTasks, t)
  <2> DEFINE t == [handler |-> wake[h], found |-> key[wake[h]] \notin {"none", "gone"}]
  <2>1. t \in [handler : Handlers, found : BOOLEAN] /\ t.handler = wake[h]
    BY <1>1
  <2>2. selectorTasks' = Append(selectorTasks, t)
    BY DEF Watch
  <2> HIDE DEF t
  <2> QED
    BY <2>1, <2>2
<1>3. ASSUME NEW x \in Handlers, WatchComes(x)
      PROVE  WatchComes(x)'
  <2>1. CASE \E k \in DOMAIN selectorTasks : selectorTasks[k].handler = x
    <3>1. PICK k \in DOMAIN selectorTasks : selectorTasks[k].handler = x
      BY <2>1
    <3>2. k \in DOMAIN selectorTasks' /\ selectorTasks'[k] = selectorTasks[k]
      BY <1>1, <1>2, <3>1
    <3> QED
      BY <3>1, <3>2 DEF WatchComes
  <2>2. CASE wake[h] = x
    <3> DEFINE k == Len(selectorTasks) + 1
    <3>1. k \in DOMAIN selectorTasks' /\ selectorTasks'[k] = t
      BY <1>1, <1>2
    <3> QED
      BY <1>2, <2>2, <3>1 DEF WatchComes
  <2>3. ASSUME NEW g \in Handlers \ {h}, wake[g] = x
        PROVE  WatchComes(x)'
    <3>1. wake'[g] = x
      BY <1>1, <2>3 DEF Watch
    <3> QED
      BY <3>1 DEF WatchComes
  <2> QED
    BY <1>3, <2>1, <2>2, <2>3 DEF WatchComes
<1>4. UNCHANGED <<writeQueue, key, ops, at, current>>
  BY DEF Watch, channel, selector
<1> QED
  BY <1>3, <1>4 DEF WakeupInv

LEMMA WakeupKept ==
  ASSUME TypeInv, KeysAfterAccept, WakeupInv, Next
  PROVE  WakeupInv'
<1> USE DEF Select, Die
<1>0. /\ key \in [Handlers -> {"none", "valid", "cancelled", "gone"}]
      /\ ops \in [Handlers -> SUBSET {"read", "write"}]
      /\ at \in Working => current \in Handlers
  BY DEF TypeInv, ChannelTypes, SelectorTypes
<1>1. ASSUME UNCHANGED <<key, ops, selectorTasks, wake, at, current, writeQueue>>
      PROVE  WakeupInv'
  BY <1>1, StillWatched
<1>2. CASE Wait
  <2>1. \A h \in Handlers : key'[h] \in {"none", "valid"} => key'[h] = key[h]
    BY <1>2 DEF Wait
  <2> QED
    BY <1>2, <2>1, StillWatched DEF Wait
<1>3. CASE RunTask
  BY <1>3, RunTaskWatched
<1>4. CASE NoMoreTasks \/ EndOfRound \/ Add
  BY <1>4, StillWatched DEF NoMoreTasks, EndOfRound, Add, channel
<1>5. CASE IsReadable \/ IsValid \/ IsWritable
  BY <1>5, StillWatched DEF IsReadable, IsValid, IsWritable, channel, NextRound
<1>6. CASE NothingToWrite \/ Drained
  BY <1>6, StillWatched DEF NothingToWrite, Drained, channel, NextRound
<1>7. CASE Unwatch
  <2>1. CASE at' = "dead"
    BY <2>1 DEF WakeupInv
  <2>2. CASE at' # "dead"
    <3>1. /\ current \in Handlers /\ at' = "keys" /\ at = "unwatch"
          /\ ops' = [ops EXCEPT ![current] = {"read"}]
          /\ UNCHANGED <<key, writeQueue, selectorTasks, wake>>
      BY <1>0, <1>7, <2>2 DEF Unwatch, NextRound, Working
    <3>2. \A x \in Handlers \ {current} : ops'[x] = ops[x]
      BY <3>1
    <3>3. \A x \in Handlers : WatchComes(x) => WatchComes(x)'
      BY <3>1 DEF WatchComes
    <3> QED
      BY <3>1, <3>2, <3>3 DEF WakeupInv
  <2> QED
    BY <2>1, <2>2
<1>8. ASSUME NEW h \in Handlers, NextKey(h) \/ Accept(h)
      PROVE  WakeupInv'
  BY <1>8, StillWatched DEF NextKey, Accept, channel
<1>9. ASSUME NEW h \in Handlers, RegisterKey(h)
      PROVE  WakeupInv'
  <2>1. CASE at' = "dead"
    BY <2>1 DEF WakeupInv
  <2>2. CASE at' # "dead"
    <3>1. /\ key' = [key EXCEPT ![h] = "valid"] /\ at' = "keys" /\ at = "register"
          /\ ops' = [ops EXCEPT ![h] = {"read"}]
          /\ UNCHANGED <<writeQueue, selectorTasks, wake>>
      BY <1>9, <2>2 DEF RegisterKey
    <3>2. key[h] = "none"
      BY <1>9 DEF RegisterKey, KeysAfterAccept
    <3>3. \A x \in Handlers \ {h} : ops'[x] = ops[x] /\ key'[x] = key[x]
      BY <1>0, <3>1
    <3>4. \A x \in Handlers : WatchComes(x) => WatchComes(x)'
      BY <3>1 DEF WatchComes
    <3> QED
      BY <3>1, <3>2, <3>3, <3>4 DEF WakeupInv
  <2> QED
    BY <2>1, <2>2
<1>10. ASSUME NEW h \in Handlers, CloseChannel(h)
       PROVE  \A x \in Handlers : key'[x] \in {"none", "valid"} => key'[x] = key[x]
  BY <1>0, <1>10 DEF CloseChannel
<1>11. ASSUME NEW h \in Handlers, Read(h)
       PROVE  WakeupInv'
  <2>1. \A x \in Handlers : key'[x] \in {"none", "valid"} => key'[x] = key[x]
    BY <1>10, <1>11 DEF Read
  <2> QED
    BY <1>11, <2>1, StillWatched DEF Read
<1>12. ASSUME NEW h \in Handlers, WriteHead(h)
       PROVE  WakeupInv'
  <2>1. \A x \in Handlers : key'[x] \in {"none", "valid"} => key'[x] = key[x]
    BY <1>10, <1>12 DEF WriteHead
  <2>2. \A x \in Handlers : writeQueue'[x] # <<>> => writeQueue[x] # <<>>
    BY <1>12 DEF WriteHead, TypeInv, WriteTypes
  <2>3. at' \in {"write", "keys"} /\ at = "write" /\ UNCHANGED <<ops, selectorTasks, wake>>
    BY <1>12 DEF WriteHead, NextRound, selector
  <2> QED
    BY <2>1, <2>2, <2>3, StillWatched
<1>13. ASSUME NEW h \in Handlers, Close(h)
       PROVE  WakeupInv'
  <2>1. Evicted(h) \in Handlers \cup {Null}
    BY DEF Evicted, TypeInv, BrokerInv, BrokerTypeOK
  <2>2. \A x \in Handlers : key'[x] \in {"none", "valid"} => key'[x] = key[x]
    BY <1>10, <1>13, <2>1 DEF Close
  <2> QED
    BY <1>13, <2>2, StillWatched DEF Close, NoWrite, WorkerRest, selector
<1>14. ASSUME NEW h \in Handlers, Deliver(h) \/ SendReceipt(h) \/ Reply(h)
       PROVE  WakeupInv'
  <2>1. UNCHANGED <<key, ops, selectorTasks, at, current>> /\ wake[h] = Null
    BY <1>14 DEF Deliver, SendReceipt, Reply, WorkerRest, selector, Decoding
  <2>2. CASE NoWrite
    BY <1>1, <2>1, <2>2 DEF NoWrite
  <2>3. ASSUME NEW g \in Handlers, NEW m \in ServerFrame, Write(h, g, m)
        PROVE  WakeupInv'
    BY <2>1, <2>3, WriteWatched
  <2> QED
    BY <1>14, <2>2, <2>3, WriteTo
<1>15. ASSUME NEW h \in Handlers, Watch(h)
       PROVE  WakeupInv'
  BY <1>15, WatchWatched
<1>16. ASSUME NEW h \in Handlers,
              \/ Start(h) \/ BeginProtocol(h) \/ AddAgain(h) \/ NextPiece(h) \/ TaskEnds(h)
              \/ ClientStep(h)
       PROVE  UNCHANGED <<key, ops, selectorTasks, wake, at, current, writeQueue>>
  BY <1>16 DEF Start, BeginProtocol, AddAgain, NextPiece, TaskEnds, ClientStep, Connect,
               ClientDrop, ClientSend, channel, selector
<1>17. ASSUME NEW h \in Handlers, Process(h)
       PROVE  UNCHANGED <<key, ops, selectorTasks, wake, at, current, writeQueue>>
  BY <1>17 DEF Process, NoWrite, WorkerRest, selector
<1> QED
  BY <1>1, <1>2, <1>3, <1>4, <1>5, <1>6, <1>7, <1>8, <1>9, <1>11, <1>12, <1>13, <1>14,
     <1>15, <1>16, <1>17 DEF Next, SelectorStep, TaskStep

THEOREM ReactorWakeupInvariant == Safety => [](KeysAfterAccept /\ WakeupInv)
<1>1. Init => KeysAfterAccept /\ WakeupInv
  BY DEF Init, KeysAfterAccept, WakeupInv
<1>2. TypeInv /\ KeysAfterAccept /\ WakeupInv /\ [Next]_vars
        => (KeysAfterAccept /\ WakeupInv)'
  <2>1. CASE UNCHANGED vars
    BY <2>1 DEF KeysAfterAccept, WakeupInv, WatchComes, vars, channel, selector, network
  <2>2. CASE Next
    BY <2>2, KeysKept, WakeupKept
  <2> QED
    BY <2>1, <2>2
<1> QED
  BY <1>1, <1>2, ReactorTypeInvariant, PTL DEF Safety

\* A frame in a write queue is never forgotten: the selector thread watches
\* its channel, or has the task to do so, or a worker is about to submit it;
\* whatever the workers, the other channels and the clients do meanwhile.
THEOREM ReactorNoLostWakeup == Safety => []NoLostWakeup
<1>1. WakeupInv => NoLostWakeup
  BY DEF WakeupInv, WatchComes, NoLostWakeup
<1> QED
  BY <1>1, ReactorWakeupInvariant, PTL

-----------------------------------------------------------------------------
(* Buffers *)

\* Each read task of the pool has a place of its own.
OwnPlaces ==
  \A g, h \in Handlers, b \in Buffers :
    \A j \in 0..Len(queue[g]), k \in 0..Len(queue[h]) :
      TaskAt(g, j) = ReadTask(b) /\ TaskAt(h, k) = ReadTask(b) => g = h /\ j = k

\* The task t is with the pool of h.
Placed(h, t) == \E k \in 0..Len(queue[h]) : TaskAt(h, k) = t

\* The buffers of the pool are those of the read tasks with a place.
LeasedByPlace ==
  \A b \in Buffers : b \in Leased <=> \E h \in Handlers : Placed(h, ReadTask(b))

LEMMA LeasedPlaces == PoolTypes => LeasedByPlace
<1> SUFFICES ASSUME PoolTypes, NEW b \in Buffers
             PROVE  b \in Leased <=> \E h \in Handlers : Placed(h, ReadTask(b))
  BY DEF LeasedByPlace
<1>1. ASSUME NEW h \in Handlers
      PROVE  ReadTask(b) \in ToSet(queue[h]) \cup {running[h]} <=> Placed(h, ReadTask(b))
  <2>1. queue[h] \in Seq(Submitted)
    BY <1>1 DEF PoolTypes
  <2>2. DOMAIN queue[h] = 1..Len(queue[h]) /\ Len(queue[h]) \in Nat
    BY <2>1
  <2>3. 0..Len(queue[h]) = {0} \cup 1..Len(queue[h]) /\ 0 \notin 1..Len(queue[h])
    BY <2>2
  <2>4. ToSet(queue[h]) = {queue[h][k] : k \in 1..Len(queue[h])}
    BY <2>2 DEF ToSet
  <2>5. TaskAt(h, 0) = running[h] /\ \A k \in 1..Len(queue[h]) : TaskAt(h, k) = queue[h][k]
    BY <2>3 DEF TaskAt
  <2> QED
    BY <2>3, <2>4, <2>5 DEF Placed
<1> QED
  BY <1>1 DEF Leased

\* A queue whose head is taken.
LEMMA TailFacts ==
  ASSUME NEW S, NEW q \in Seq(S), q # <<>>
  PROVE  /\ Len(Tail(q)) = Len(q) - 1
         /\ Tail(q) # q
         /\ Head(q) = q[1]
         /\ \A j \in 1..Len(Tail(q)) : Tail(q)[j] = q[j + 1]
<1>1. Len(Tail(q)) = Len(q) - 1 /\ Len(q) \in Nat
  OBVIOUS
<1>2. \A m, n \in Nat : m = n - 1 => m # n
  OBVIOUS
<1>3. Tail(q) # q
  BY <1>1, <1>2, Zenon
<1>4. Head(q) = q[1] /\ \A j \in 1..Len(Tail(q)) : Tail(q)[j] = q[j + 1]
  OBVIOUS
<1> QED
  BY <1>1, <1>3, <1>4

\* The pool of h starts its oldest task or drops it, or ends the one that runs.
Shrinks(h) ==
  \/ queue'[h] = queue[h] /\ running'[h] \in {running[h], Null}
  \/ /\ queue[h] # <<>>
     /\ queue'[h] = Tail(queue[h])
     /\ running'[h] \in {running[h], Head(queue[h])}

\* Where the task that is at place k of h then was before.
Before(h, k) ==
  IF k = 0 THEN IF running'[h] = running[h] THEN 0 ELSE 1
           ELSE IF queue'[h] = queue[h] THEN k ELSE k + 1

LEMMA ShrinkPlaces ==
  ASSUME PoolTypes, NEW h \in Handlers, Shrinks(h), NEW b \in Buffers,
         NEW k \in 0..Len(queue'[h]), TaskAt(h, k)' = ReadTask(b)
  PROVE  /\ Before(h, k) \in 0..Len(queue[h])
         /\ TaskAt(h, Before(h, k)) = ReadTask(b)
         /\ Before(h, k) = 0 => k = 0 /\ running'[h] = running[h]
         /\ \A j \in 0..Len(queue'[h]) : Before(h, j) = Before(h, k) /\ TaskAt(h, j)' = ReadTask(b) => j = k
<1>1. ReadTask(b) # Null
  BY NullIsNoTask DEF Task, ReadTask
<1>2. queue[h] \in Seq(Submitted) /\ Len(queue[h]) \in Nat
  BY DEF PoolTypes
<1> HIDE DEF ReadTask
<1>3. CASE queue'[h] = queue[h] /\ running'[h] \in {running[h], Null}
  BY <1>1, <1>2, <1>3 DEF Before, TaskAt
<1>4. CASE /\ queue[h] # <<>>
           /\ queue'[h] = Tail(queue[h])
           /\ running'[h] \in {running[h], Head(queue[h])}
  <2>1. /\ Len(queue'[h]) = Len(queue[h]) - 1
        /\ queue'[h] # queue[h]
        /\ Head(queue[h]) = queue[h][1]
        /\ \A j \in 1..Len(queue'[h]) : queue'[h][j] = queue[h][j + 1]
    BY <1>2, <1>4, TailFacts
  <2> QED
    BY <1>2, <1>4, <2>1 DEF Before, TaskAt
<1> QED
  BY <1>3, <1>4 DEF Shrinks

\* Then the read tasks that are left have had places before.
LEMMA ShrinkKeeps ==
  ASSUME PoolTypes, PoolTypes', OwnPlaces, \A h \in Handlers : Shrinks(h)
  PROVE  OwnPlaces' /\ Leased' \subseteq Leased
<1>1. OwnPlaces'
  <2> SUFFICES ASSUME NEW g \in Handlers, NEW h \in Handlers, NEW b \in Buffers,
                      NEW j \in 0..Len(queue'[g]), NEW k \in 0..Len(queue'[h]),
                      TaskAt(g, j)' = ReadTask(b), TaskAt(h, k)' = ReadTask(b)
               PROVE  g = h /\ j = k
    BY DEF OwnPlaces
  <2>1. /\ Before(g, j) \in 0..Len(queue[g]) /\ TaskAt(g, Before(g, j)) = ReadTask(b)
        /\ Before(h, k) \in 0..Len(queue[h]) /\ TaskAt(h, Before(h, k)) = ReadTask(b)
    BY ShrinkPlaces
  <2>2. g = h /\ Before(g, j) = Before(h, k)
    BY <2>1 DEF OwnPlaces
  <2> QED
    BY <2>2, ShrinkPlaces
<1>2. LeasedByPlace /\ LeasedByPlace'
  BY LeasedPlaces, PTL
<1>3. ASSUME NEW b \in Buffers, b \in Leased'
      PROVE  b \in Leased
  <2>1. PICK h \in Handlers : Placed(h, ReadTask(b))'
    BY <1>2, <1>3 DEF LeasedByPlace
  <2>2. PICK k \in 0..Len(queue'[h]) : TaskAt(h, k)' = ReadTask(b)
    BY <2>1 DEF Placed
  <2>3. Before(h, k) \in 0..Len(queue[h]) /\ TaskAt(h, Before(h, k)) = ReadTask(b)
    BY <2>2, ShrinkPlaces
  <2>4. Placed(h, ReadTask(b))
    BY <2>3 DEF Placed
  <2> QED
    BY <1>2, <2>4 DEF LeasedByPlace
<1> QED
  BY <1>1, <1>3 DEF Leased

\* A task that is submitted comes after those of its handler.
LEMMA SubmitPlaces ==
  ASSUME PoolTypes, NEW h \in Handlers, NEW t \in Submitted, Pool!Submit(h, t),
         NEW g \in Handlers, NEW k \in 0..Len(queue'[g])
  PROVE  \/ k \in 0..Len(queue[g]) /\ TaskAt(g, k)' = TaskAt(g, k)
         \/ g = h /\ k = Len(queue[h]) + 1 /\ TaskAt(g, k)' = t
<1>1. /\ queue'[h] = Append(queue[h], t)
      /\ g # h => queue'[g] = queue[g]
      /\ running' = running
  BY DEF Pool!Submit, PoolTypes
<1>2. queue[h] \in Seq(Submitted) /\ queue[g] \in Seq(Submitted)
  BY DEF PoolTypes
<1>3. CASE g # h
  BY <1>1, <1>3 DEF TaskAt
<1>4. CASE g = h
  <2>1. /\ Len(queue[h]) \in Nat
        /\ Len(queue'[h]) = Len(queue[h]) + 1
        /\ queue'[h][Len(queue[h]) + 1] = t
        /\ \A j \in 1..Len(queue[h]) : queue'[h][j] = queue[h][j]
    BY <1>1, <1>2
  <2> QED
    BY <1>1, <1>4, <2>1 DEF TaskAt
<1> QED
  BY <1>3, <1>4

LEMMA SubmitKeeps ==
  ASSUME PoolTypes, PoolTypes', OwnPlaces, NEW h \in Handlers, NEW t \in Submitted,
         Pool!Submit(h, t), \A b \in Leased : t # ReadTask(b)
  PROVE  OwnPlaces' /\ \A b \in Leased' : b \in Leased \/ t = ReadTask(b)
<1>1. LeasedByPlace /\ LeasedByPlace'
  BY LeasedPlaces, PTL
<1>2. OwnPlaces'
  <2> SUFFICES ASSUME NEW f \in Handlers, NEW g \in Handlers, NEW b \in Buffers,
                      NEW j \in 0..Len(queue'[f]), NEW k \in 0..Len(queue'[g]),
                      TaskAt(f, j)' = ReadTask(b), TaskAt(g, k)' = ReadTask(b)
               PROVE  f = g /\ j = k
    BY DEF OwnPlaces
  <2>1. CASE t = ReadTask(b)
    <3>1. b \notin Leased
      BY <2>1
    <3>2. ~ Placed(f, ReadTask(b)) /\ ~ Placed(g, ReadTask(b))
      BY <1>1, <3>1 DEF LeasedByPlace
    <3>3. f = h /\ j = Len(queue[h]) + 1
      BY <3>2, SubmitPlaces DEF Placed
    <3>4. g = h /\ k = Len(queue[h]) + 1
      BY <3>2, SubmitPlaces DEF Placed
    <3> QED
      BY <3>3, <3>4
  <2>2. CASE t # ReadTask(b)
    <3>1. j \in 0..Len(queue[f]) /\ TaskAt(f, j) = ReadTask(b)
      BY <2>2, SubmitPlaces
    <3>2. k \in 0..Len(queue[g]) /\ TaskAt(g, k) = ReadTask(b)
      BY <2>2, SubmitPlaces
    <3> QED
      BY <3>1, <3>2 DEF OwnPlaces
  <2> QED
    BY <2>1, <2>2
<1>3. ASSUME NEW b \in Buffers, b \in Leased', t # ReadTask(b)
      PROVE  b \in Leased
  <2>1. PICK g \in Handlers : Placed(g, ReadTask(b))'
    BY <1>1, <1>3 DEF LeasedByPlace
  <2>2. PICK k \in 0..Len(queue'[g]) : TaskAt(g, k)' = ReadTask(b)
    BY <2>1 DEF Placed
  <2>3. k \in 0..Len(queue[g]) /\ TaskAt(g, k) = ReadTask(b)
    BY <1>3, <2>2, SubmitPlaces
  <2> QED
    BY <1>1, <2>3 DEF LeasedByPlace, Placed
<1> QED
  BY <1>2, <1>3 DEF Leased

\* What the pool does with the task that starts or ends, or when it is shut down.
LEMMA PoolShrinks ==
  ASSUME PoolTypes,
         \/ \E h \in Handlers : Pool!Start(h) \/ Pool!Finish(h)
         \/ Pool!Shutdown
         \/ UNCHANGED pool
  PROVE  \A g \in Handlers : Shrinks(g)
<1>1. ASSUME NEW h \in Handlers, Pool!Start(h)
      PROVE  \A g \in Handlers : Shrinks(g)
  BY <1>1 DEF Pool!Start, Shrinks, PoolTypes
<1>2. ASSUME NEW h \in Handlers, Pool!Finish(h)
      PROVE  \A g \in Handlers : Shrinks(g)
  BY <1>2 DEF Pool!Finish, Shrinks, PoolTypes
<1>3. CASE Pool!Shutdown
  BY <1>3 DEF Pool!Shutdown, Shrinks
<1>4. CASE UNCHANGED pool
  BY <1>4 DEF pool, Shrinks
<1> QED
  BY <1>1, <1>2, <1>3, <1>4

LEMMA ReadTasks ==
  /\ \A b, c \in Buffers : ReadTask(b) = ReadTask(c) => b = c
  /\ \A b \in Buffers : ReadTask(b) \notin {StartTask, Null}
<1>1. \A b \in Buffers : ReadTask(b).buffer = b /\ ReadTask(b).kind = "read"
  BY DEF ReadTask
<1>2. StartTask.kind = "start"
  BY DEF StartTask
<1>3. \A b \in Buffers : ReadTask(b) \in Task
  BY DEF ReadTask, Task
<1> QED
  BY <1>1, <1>2, <1>3, NullIsNoTask

LEMMA BuffersSplit == BuffersExclusive <=> OwnPlaces /\ bufferPool \cap Leased = {}
BY DEF BuffersExclusive, OwnPlaces

\* A task that ends leaves no place with its buffer.
LEMMA EndReleases ==
  ASSUME TypeInv, TypeInv', OwnPlaces, NEW h \in Handlers, TaskEnds(h)
  PROVE  Buffer(h) \in Buffers /\ Buffer(h) \notin Leased'
<1>1. Buffer(h) \in Buffers /\ running[h] = ReadTask(Buffer(h))
  BY DecodingBuffer DEF TaskEnds, TypeInv
<1>2. PICK b \in Buffers : b = Buffer(h)
  BY <1>1
<1>3. Pool!Finish(h) /\ running'[h] = Null
  BY DEF TaskEnds, Pool!Finish, TypeInv, PoolTypes
<1> SUFFICES ASSUME b \in Leased'
             PROVE  FALSE
  BY <1>1, <1>2
<1>4. LeasedByPlace'
  BY LeasedPlaces, PTL DEF TypeInv
<1>5. PICK g \in Handlers : Placed(g, ReadTask(b))'
  BY <1>4 DEF LeasedByPlace
<1>6. PICK k \in 0..Len(queue'[g]) : TaskAt(g, k)' = ReadTask(b)
  BY <1>5 DEF Placed
<1>7. \A f \in Handlers : Shrinks(f)
  BY <1>3, PoolShrinks DEF TypeInv
<1>8. /\ Before(g, k) \in 0..Len(queue[g])
      /\ TaskAt(g, Before(g, k)) = ReadTask(b)
      /\ Before(g, k) = 0 => k = 0 /\ running'[g] = running[g]
  BY <1>6, <1>7, ShrinkPlaces DEF TypeInv
<1>9. 0 \in 0..Len(queue[h]) /\ TaskAt(h, 0) = ReadTask(b)
  <2>1. Len(queue[h]) \in Nat
    BY DEF TypeInv, PoolTypes
  <2> QED
    BY <1>1, <1>2, <2>1 DEF TaskAt
<1>10. g = h /\ Before(g, k) = 0
  BY <1>8, <1>9 DEF OwnPlaces
<1> QED
  BY <1>1, <1>2, <1>3, <1>8, <1>10, ReadTasks

LEMMA BuffersKept ==
  ASSUME TypeInv, TypeInv', BuffersExclusive, Next
  PROVE  BuffersExclusive'
<1>1. OwnPlaces /\ bufferPool \cap Leased = {} /\ PoolTypes /\ PoolTypes'
  BY BuffersSplit DEF TypeInv
<1>2. (BuffersExclusive <=> OwnPlaces /\ bufferPool \cap Leased = {})'
  BY BuffersSplit, PTL
<1>3. ASSUME \/ \E h \in Handlers : Pool!Start(h) \/ Pool!Finish(h)
             \/ Pool!Shutdown
             \/ UNCHANGED pool,
             UNCHANGED bufferPool
      PROVE  BuffersExclusive'
  BY <1>1, <1>2, <1>3, PoolShrinks, ShrinkKeeps
<1>4. ASSUME NEW h \in Handlers, Accept(h)
      PROVE  BuffersExclusive'
  <2>1. Pool!Submit(h, StartTask) /\ UNCHANGED bufferPool /\ StartTask \in Submitted
    BY <1>4 DEF Accept, Submitted, buffers
  <2>2. \A b \in Buffers : StartTask # ReadTask(b)
    BY ReadTasks
  <2>3. Leased \subseteq Buffers /\ Leased' \subseteq Buffers
    BY DEF Leased
  <2>4. OwnPlaces' /\ \A b \in Leased' : b \in Leased \/ StartTask = ReadTask(b)
    BY <1>1, <2>1, <2>2, <2>3, SubmitKeeps
  <2> QED
    BY <1>1, <1>2, <2>1, <2>2, <2>3, <2>4
<1>5. ASSUME NEW h \in Handlers, Read(h)
      PROVE  BuffersExclusive'
  <2>1. CASE closed[h] \/ inbox[h] = <<>>
    BY <1>3, <1>5, <2>1 DEF Read, buffers
  <2>2. CASE ~ (closed[h] \/ inbox[h] = <<>>)
    <3>1. PICK b \in Buffers : b = FreeBuffer
      BY <1>5, <2>2, ReadChunk, FreeBufferIs DEF TypeInv
    <3>2. /\ bufferPool' = bufferPool \ {b}
          /\ Pool!Submit(h, ReadTask(b))
          /\ b \in bufferPool \cup (Buffers \ Leased)
      BY <1>5, <2>2, <3>1, ReadChunk, FreeBufferIs DEF TypeInv
    <3>3. b \notin Leased /\ ReadTask(b) \in Submitted
      BY <1>1, <3>2 DEF Submitted
    <3>4. Leased \subseteq Buffers /\ Leased' \subseteq Buffers
      BY DEF Leased
    <3>5. \A c \in Leased : ReadTask(b) # ReadTask(c)
      BY <3>3, <3>4, ReadTasks
    <3>6. OwnPlaces' /\ \A c \in Leased' : c \in Leased \/ ReadTask(b) = ReadTask(c)
      BY <1>1, <3>2, <3>3, <3>5, SubmitKeeps
    <3>7. \A c \in Leased' : c \in Leased \/ c = b
      BY <3>4, <3>6, ReadTasks
    <3> QED
      BY <1>1, <1>2, <3>2, <3>6, <3>7
  <2> QED
    BY <2>1, <2>2
<1>6. ASSUME NEW h \in Handlers, TaskEnds(h)
      PROVE  BuffersExclusive'
  <2>1. Pool!Finish(h) /\ bufferPool' = bufferPool \cup {Buffer(h)}
    BY <1>6 DEF TaskEnds
  <2>2. OwnPlaces' /\ Leased' \subseteq Leased
    BY <1>1, <2>1, PoolShrinks, ShrinkKeeps
  <2>3. Buffer(h) \notin Leased'
    BY <1>1, <1>6, EndReleases
  <2> QED
    BY <1>1, <1>2, <2>1, <2>2, <2>3
<1>7. ASSUME NEW h \in Handlers, NextPiece(h)
      PROVE  BuffersExclusive'
  BY <1>3, <1>7 DEF NextPiece
<1>8. ASSUME NEW h \in Handlers, RegisterKey(h)
      PROVE  BuffersExclusive'
  BY <1>3, <1>8 DEF RegisterKey, buffers
<1>9. ASSUME NEW h \in Handlers, Start(h) \/ AddAgain(h)
      PROVE  BuffersExclusive'
  BY <1>3, <1>9 DEF Start, AddAgain, buffers
<1>10. ASSUME NEW h \in Handlers,
              \/ NextKey(h) \/ WriteHead(h) \/ BeginProtocol(h) \/ Watch(h) \/ ClientStep(h)
       PROVE  UNCHANGED <<pool, buffers>>
  BY <1>10 DEF NextKey, WriteHead, BeginProtocol, Watch, ClientStep, Connect, ClientDrop,
               ClientSend
<1>11. ASSUME NEW h \in Handlers,
              Process(h) \/ Deliver(h) \/ SendReceipt(h) \/ Reply(h) \/ Close(h)
       PROVE  UNCHANGED <<pool, buffers>>
  BY <1>11 DEF Process, Deliver, SendReceipt, Reply, Close, WorkerRest
<1>12. ASSUME \/ Wait \/ RunTask \/ NoMoreTasks \/ EndOfRound \/ Add \/ IsReadable
              \/ IsValid \/ IsWritable \/ NothingToWrite \/ Drained \/ Unwatch
       PROVE  UNCHANGED <<pool, buffers>>
  BY <1>12 DEF Wait, RunTask, NoMoreTasks, EndOfRound, Add, IsReadable, IsValid,
               IsWritable, NothingToWrite, Drained, Unwatch
<1>13. ASSUME UNCHANGED <<pool, buffers>>
       PROVE  BuffersExclusive'
  BY <1>3, <1>13 DEF buffers
<1> QED
  BY <1>4, <1>5, <1>6, <1>7, <1>8, <1>9, <1>10, <1>11, <1>12, <1>13
     DEF Next, SelectorStep, TaskStep

\* A buffer is with BUFFER_POOL or with one task of the pool, so that continueRead
\* never reads into one whose frames are still to be decoded.
THEOREM ReactorBuffersExclusive == Safety => []BuffersExclusive
<1>1. Init => BuffersExclusive
  <2> SUFFICES ASSUME Init PROVE BuffersExclusive
    OBVIOUS
  <2>1. bufferPool = {} /\ \A h \in Handlers : queue[h] = <<>> /\ running[h] = Null
    BY DEF Init, Pool!Init
  <2>2. \A h \in Handlers, b \in Buffers :
          \A k \in 0..Len(queue[h]) : TaskAt(h, k) # ReadTask(b)
    BY <2>1, ReadTasks DEF TaskAt
  <2> QED
    BY <2>1, <2>2 DEF BuffersExclusive
<1>2. TypeInv /\ TypeInv' /\ BuffersExclusive /\ [Next]_vars => BuffersExclusive'
  <2>1. CASE UNCHANGED vars
    BY <2>1 DEF BuffersExclusive, TaskAt, Leased, vars, pool, buffers
  <2>2. CASE Next
    BY <2>2, BuffersKept
  <2> QED
    BY <2>1, <2>2
<1> QED
  BY <1>1, <1>2, ReactorTypeInvariant, PTL DEF Safety

-----------------------------------------------------------------------------
(* Sequences of sequences, one after the other *)

\* Induction, for a set of numbers.
LEMMA Inductive ==
  ASSUME NEW T \in SUBSET Nat, 0 \in T, \A n \in T : n + 1 \in T
  PROVE  T = Nat
<1> DEFINE R == OpToRel(<, Nat)
<1> SUFFICES ASSUME Nat \ T # {}
             PROVE  FALSE
  OBVIOUS
<1>1. PICK m \in Nat \ T : \A n \in Nat \ T : ~ (<<n, m>> \in R)
  <2>1. IsWellFoundedOn(R, Nat)
    BY NatLessThanWellFounded
  <2> HIDE DEF R
  <2> QED
    BY <2>1, WFMin
<1>2. R = {ss \in Nat \X Nat : ss[1] < ss[2]}
  BY DEF OpToRel
<1> HIDE DEF R
<1>3. m - 1 \in Nat
  OBVIOUS
<1>4. <<m - 1, m>> \in R
  BY <1>2, <1>3
<1>5. m - 1 \in T
  BY <1>1, <1>3, <1>4
<1>6. m = (m - 1) + 1
  BY <1>3
<1> QED
  BY <1>1, <1>5, <1>6

\* A sequence with one more item, and one with an item at each end.
LEMMA AppendFacts ==
  ASSUME NEW W, NEW q \in Seq(W), NEW x \in W
  PROVE  /\ Append(q, x) \in Seq(W) /\ Append(q, x) # <<>>
         /\ Len(Append(q, x)) = Len(q) + 1 /\ Len(q) \in Nat
         /\ Append(q, x)[Len(q) + 1] = x /\ \A i \in 1..Len(q) : q[i] = Append(q, x)[i]
OBVIOUS

LEMMA SingleFacts ==
  ASSUME NEW W, NEW r \in Seq(W), Len(r) = 1
  PROVE  r = Append(<<>>, Head(r)) /\ Tail(r) = <<>> /\ Head(r) \in W
<1>0. r # <<>>
  OBVIOUS
<1>1. Head(r) \in W /\ Head(r) = r[1] /\ Tail(r) = <<>>
  <2>1. Head(r) \in W /\ Tail(r) \in Seq(W) /\ Len(Tail(r)) = 0
    BY <1>0, HeadTailProperties
  <2>2. Tail(r) = <<>>
    BY <2>1, EmptySeq
  <2> QED
    BY <1>0, <2>1, <2>2
<1>2. Append(<<>>, Head(r)) \in Seq(W) /\ Len(Append(<<>>, Head(r))) = 1 /\ Append(<<>>, Head(r))[1] = r[1]
  BY <1>1
<1>3. r = Append(<<>>, Head(r))
  BY <1>2
<1> QED
  BY <1>1, <1>3

LEMMA BothEnds ==
  ASSUME NEW W, NEW r \in Seq(W), NEW n \in Nat, Len(r) = n + 2
  PROVE  LET s == SubSeq(r, 1, n + 1)
             x == r[n + 2]
         IN  /\ s \in Seq(W) /\ Len(s) = n + 1 /\ x \in W /\ s # <<>>
             /\ Head(s) = Head(r) /\ Head(r) \in W
             /\ r = Append(s, x)
             /\ Tail(r) = Append(Tail(s), x) /\ Tail(s) \in Seq(W)
<1> DEFINE s == SubSeq(r, 1, n + 1)
           x == r[n + 2]
<1>1. /\ s \in Seq(W) /\ Len(s) = n + 1 /\ x \in W /\ s # <<>>
      /\ \A i \in 1..n + 1 : s[i] = r[i]
  OBVIOUS
<1> HIDE DEF s
<1>2. Head(s) = Head(r) /\ Head(r) \in W
  BY <1>1
<1>3. r = Append(s, x)
  <2>1. Append(s, x) \in Seq(W) /\ Len(Append(s, x)) = n + 2
    BY <1>1
  <2>2. ASSUME NEW i \in 1..n + 2
        PROVE  Append(s, x)[i] = r[i]
    BY <1>1
  <2> HIDE DEF x
  <2> QED
    BY <2>1, <2>2
<1>4. Tail(s) \in Seq(W) /\ Len(Tail(s)) = n /\ \A i \in 1..n : Tail(s)[i] = r[i + 1]
  BY <1>1
<1>5. Tail(r) = Append(Tail(s), x)
  <2>1. /\ Tail(r) \in Seq(W) /\ Len(Tail(r)) = n + 1
        /\ \A i \in 1..n + 1 : Tail(r)[i] = r[i + 1]
    OBVIOUS
  <2>2. /\ Append(Tail(s), x) \in Seq(W) /\ Len(Append(Tail(s), x)) = n + 1
        /\ \A i \in 1..n + 1 : Append(Tail(s), x)[i] = IF i = n + 1 THEN x ELSE Tail(s)[i]
    BY <1>1, <1>4
  <2>3. ASSUME NEW i \in 1..n + 1
        PROVE  Append(Tail(s), x)[i] = Tail(r)[i]
    <3>0. i = n + 1 \/ i \in 1..n
      OBVIOUS
    <3>1. CASE i = n + 1
      BY <2>1, <2>2, <3>1
    <3>2. CASE i \in 1..n
      BY <1>4, <2>1, <2>2, <3>2
    <3> QED
      BY <3>0, <3>1, <3>2
  <2> HIDE DEF x
  <2> QED
    BY <2>1, <2>2, <2>3
<1> QED
  BY <1>1, <1>2, <1>3, <1>4, <1>5 DEF s

\* FlattenSeq adds up what comes so far.
Flattens(g, q) ==
  g = [i \in 1..Len(q) |-> IF i = 1 THEN q[i] ELSE g[i - 1] \o q[i]]

LEMMA FlattenIs ==
  ASSUME NEW S, NEW q \in Seq(Seq(S)), q # <<>>
  PROVE  FlattenSeq(q) = (CHOOSE g : Flattens(g, q))[Len(q)]
<1>1. Len(q) # 0
  OBVIOUS
<1> QED
  BY <1>1 DEF FlattenSeq, Flattens

LEMMA FlattenStarts ==
  ASSUME NEW S, NEW q \in Seq(Seq(S))
  PROVE  \E g : Flattens(g, q)
<1> DEFINE Q(n) == {r \in Seq(Seq(S)) : Len(r) = n}
           T == {n \in Nat : \A r \in Q(n) : \E g : Flattens(g, r)}
<1>1. 0 \in T
  <2> SUFFICES ASSUME NEW r \in Q(0)
               PROVE  \E g : Flattens(g, r)
    OBVIOUS
  <2>1. 1..Len(r) = {}
    OBVIOUS
  <2>2. Flattens([i \in {} |-> <<>>], r)
    BY <2>1 DEF Flattens
  <2> QED
    BY <2>2
<1>2. ASSUME NEW n \in T
      PROVE  n + 1 \in T
  <2> SUFFICES ASSUME NEW r \in Q(n + 1)
               PROVE  \E g : Flattens(g, r)
    OBVIOUS
  <2> DEFINE s == SubSeq(r, 1, n)
  <2>1. /\ s \in Q(n) /\ n \in Nat /\ Len(r) = n + 1 /\ Len(s) = n
        /\ \A i \in 1..n : s[i] = r[i]
    OBVIOUS
  <2>2. PICK g : Flattens(g, s)
    BY <2>1
  <2> DEFINE h == [i \in 1..n + 1 |-> IF i \leq n THEN g[i]
                                      ELSE IF i = 1 THEN r[i] ELSE g[n] \o r[i]]
  <2> HIDE DEF s
  <2>3. \A i \in 1..n : g[i] = IF i = 1 THEN s[i] ELSE g[i - 1] \o s[i]
    BY <2>1, <2>2 DEF Flattens
  <2>4. \A i \in 1..n + 1 : h[i] = IF i = 1 THEN r[i] ELSE h[i - 1] \o r[i]
    <3> SUFFICES ASSUME NEW i \in 1..n + 1
                 PROVE  h[i] = IF i = 1 THEN r[i] ELSE h[i - 1] \o r[i]
      OBVIOUS
    <3>1. CASE i \leq n
      <4>1. i # 1 => i - 1 \in 1..n + 1 /\ i - 1 \leq n
        BY <2>1, <3>1
      <4> QED
        BY <2>1, <2>3, <3>1, <4>1
    <3>2. CASE i = n + 1 /\ i # 1
      <4>1. i - 1 = n /\ n \in 1..n + 1 /\ n \leq n /\ ~ (n + 1 \leq n)
        BY <2>1, <3>2
      <4>2. h[n] = g[n]
        BY <4>1
      <4>3. h[i] = g[n] \o r[i]
        BY <3>2, <4>1
      <4> QED
        BY <3>2, <4>1, <4>2, <4>3
    <3>3. CASE i = n + 1 /\ i = 1
      BY <2>1, <3>3
    <3>4. i \leq n \/ i = n + 1
      BY <2>1
    <3> QED
      BY <3>1, <3>2, <3>3, <3>4
  <2>5. h = [i \in 1..Len(r) |-> IF i = 1 THEN r[i] ELSE h[i - 1] \o r[i]]
    <3>1. h = [i \in 1..n + 1 |-> h[i]]
      OBVIOUS
    <3> HIDE DEF h
    <3>2. h = [i \in 1..n + 1 |-> IF i = 1 THEN r[i] ELSE h[i - 1] \o r[i]]
      BY <2>4, <3>1, Zenon
    <3> QED
      BY <2>1, <3>2
  <2> QED
    BY <2>5 DEF Flattens
<1> HIDE DEF T
<1>3. T = Nat
  BY <1>1, <1>2, Inductive DEF T
<1> QED
  BY <1>3 DEF T

LEMMA FlattenUnique ==
  ASSUME NEW S, NEW q \in Seq(Seq(S)), NEW r \in Seq(Seq(S)), NEW g, NEW h,
         Flattens(g, q), Flattens(h, r), Len(q) \leq Len(r),
         \A i \in 1..Len(q) : q[i] = r[i]
  PROVE  \A i \in 1..Len(q) : g[i] = h[i] /\ g[i] \in Seq(S)
<1> DEFINE T == {n \in Nat : n \in 1..Len(q) => g[n] = h[n] /\ g[n] \in Seq(S)}
<1>1. /\ \A i \in 1..Len(q) : g[i] = IF i = 1 THEN q[i] ELSE g[i - 1] \o q[i]
      /\ \A i \in 1..Len(r) : h[i] = IF i = 1 THEN r[i] ELSE h[i - 1] \o r[i]
  BY DEF Flattens
<1>2. 0 \in T
  OBVIOUS
<1>3. ASSUME NEW n \in T
      PROVE  n + 1 \in T
  <2>0. n \in Nat /\ (n \in 1..Len(q) => g[n] = h[n] /\ g[n] \in Seq(S))
    OBVIOUS
  <2> SUFFICES ASSUME n + 1 \in 1..Len(q)
               PROVE  g[n + 1] = h[n + 1] /\ g[n + 1] \in Seq(S)
    OBVIOUS
  <2>1. q[n + 1] = r[n + 1] /\ q[n + 1] \in Seq(S) /\ n + 1 \in 1..Len(r)
    OBVIOUS
  <2>2. CASE n = 0
    BY <1>1, <2>1, <2>2
  <2>3. CASE n # 0
    <3>1. n \in 1..Len(q) /\ n + 1 # 1 /\ (n + 1) - 1 = n
      BY <2>0, <2>3
    <3>2. g[n + 1] = g[n] \o q[n + 1] /\ h[n + 1] = h[n] \o r[n + 1]
      BY <1>1, <2>1, <3>1
    <3>3. g[n] = h[n] /\ g[n] \in Seq(S)
      BY <2>0, <3>1
    <3>4. g[n] \o q[n + 1] \in Seq(S)
      BY <2>1, <3>3, ConcatProperties
    <3> QED
      BY <2>1, <3>2, <3>3, <3>4
  <2> QED
    BY <2>2, <2>3
<1> HIDE DEF T
<1>4. T = Nat
  BY <1>2, <1>3, Inductive DEF T
<1> SUFFICES ASSUME NEW i \in 1..Len(q)
             PROVE  g[i] = h[i] /\ g[i] \in Seq(S)
  OBVIOUS
<1>5. i \in T
  BY <1>4
<1> QED
  BY <1>5 DEF T

\* The laws the proofs below use.
LEMMA FlattenAppend ==
  ASSUME NEW S, NEW q \in Seq(Seq(S)), NEW x \in Seq(S)
  PROVE  FlattenSeq(q) \in Seq(S) /\ FlattenSeq(Append(q, x)) = FlattenSeq(q) \o x
<1> DEFINE r == Append(q, x)
           g == CHOOSE f : Flattens(f, q)
           h == CHOOSE f : Flattens(f, r)
<1>1. /\ r \in Seq(Seq(S)) /\ r # <<>> /\ Len(r) = Len(q) + 1 /\ Len(q) \in Nat
      /\ r[Len(q) + 1] = x /\ \A i \in 1..Len(q) : q[i] = r[i]
  BY AppendFacts
<1> HIDE DEF r
<1>2. Flattens(g, q)
  BY FlattenStarts
<1>3. Flattens(h, r)
  BY <1>1, FlattenStarts
<1>4. FlattenSeq(r) = h[Len(q) + 1]
  BY <1>1, FlattenIs
<1>5. q # <<>> => FlattenSeq(q) = g[Len(q)]
  BY FlattenIs
<1> HIDE DEF g, h
<1>6. \A i \in 1..Len(q) : g[i] = h[i] /\ g[i] \in Seq(S)
  <2>1. Len(q) \leq Len(r)
    BY <1>1
  <2> QED
    BY <1>1, <1>2, <1>3, <2>1, FlattenUnique
<1>7. h[Len(q) + 1] = IF Len(q) + 1 = 1 THEN x ELSE h[(Len(q) + 1) - 1] \o x
  <2>1. \A i \in 1..Len(r) : h[i] = IF i = 1 THEN r[i] ELSE h[i - 1] \o r[i]
    BY <1>3 DEF Flattens
  <2>2. Len(q) + 1 \in 1..Len(r)
    BY <1>1
  <2> QED
    BY <1>1, <2>1, <2>2
<1>8. CASE q = <<>>
  <2>1. FlattenSeq(q) = <<>>
    BY <1>8 DEF FlattenSeq
  <2>2. Len(q) = 0
    BY <1>8
  <2>3. h[Len(q) + 1] = x
    BY <1>7, <2>2
  <2>4. <<>> \o x = x /\ <<>> \in Seq(S)
    BY ConcatEmptySeq
  <2> QED
    BY <1>4, <2>1, <2>3, <2>4 DEF r
<1>9. CASE q # <<>>
  <2>1. Len(q) \in 1..Len(q) /\ (Len(q) + 1) - 1 = Len(q) /\ Len(q) + 1 # 1
    BY <1>1, <1>9
  <2> QED
    BY <1>4, <1>5, <1>6, <1>7, <1>9, <2>1 DEF r
<1> QED
  BY <1>8, <1>9

LEMMA Associates ==
  ASSUME NEW S
  PROVE  \A x, y, z \in Seq(S) : (x \o y) \o z = x \o (y \o z)
BY ConcatAssociative

LEMMA FlattenTail ==
  ASSUME NEW S, NEW q \in Seq(Seq(S)), q # <<>>
  PROVE  /\ FlattenSeq(Tail(q)) \in Seq(S)
         /\ FlattenSeq(q) = Head(q) \o FlattenSeq(Tail(q))
<1>0. Tail(q) \in Seq(Seq(S))
  OBVIOUS
<1>a. \A x, y, z \in Seq(S) : (x \o y) \o z = x \o (y \o z)
  BY Associates, SMTT(60)
<1> DEFINE Q(n) == {r \in Seq(Seq(S)) : Len(r) = n + 1}
           T == {n \in Nat : \A r \in Q(n) : FlattenSeq(r) = Head(r) \o FlattenSeq(Tail(r))}
<1>1. 0 \in T
  <2> SUFFICES ASSUME NEW r \in Q(0)
               PROVE  FlattenSeq(r) = Head(r) \o FlattenSeq(Tail(r))
    OBVIOUS
  <2>1. r = Append(<<>>, Head(r)) /\ Tail(r) = <<>> /\ Head(r) \in Seq(S)
    BY SingleFacts
  <2>2. FlattenSeq(<<>>) = <<>> /\ <<>> \in Seq(Seq(S))
    BY DEF FlattenSeq
  <2>3. FlattenSeq(Append(<<>>, Head(r))) = FlattenSeq(<<>>) \o Head(r)
    BY <2>1, <2>2, FlattenAppend
  <2>4. <<>> \o Head(r) = Head(r) /\ Head(r) \o <<>> = Head(r)
    BY <2>1, ConcatEmptySeq
  <2> QED
    BY <2>1, <2>2, <2>3, <2>4
<1>2. ASSUME NEW n \in T
      PROVE  n + 1 \in T
  <2> SUFFICES ASSUME NEW r \in Q(n + 1)
               PROVE  FlattenSeq(r) = Head(r) \o FlattenSeq(Tail(r))
    OBVIOUS
  <2> DEFINE s == SubSeq(r, 1, n + 1)
             x == r[n + 2]
  <2>1. /\ s \in Seq(Seq(S)) /\ Len(s) = n + 1 /\ x \in Seq(S) /\ n \in Nat /\ s # <<>>
        /\ Head(s) = Head(r) /\ Head(r) \in Seq(S)
        /\ r = Append(s, x)
        /\ Tail(r) = Append(Tail(s), x) /\ Tail(s) \in Seq(Seq(S))
    <3>1. n \in Nat /\ Len(r) = n + 2
      OBVIOUS
    <3> QED
      BY <3>1, BothEnds
  <2>4. FlattenSeq(s) = Head(s) \o FlattenSeq(Tail(s))
    BY <2>1
  <2> HIDE DEF s, x
  <2>5. /\ FlattenSeq(r) = FlattenSeq(s) \o x
        /\ FlattenSeq(Tail(r)) = FlattenSeq(Tail(s)) \o x
        /\ FlattenSeq(Tail(s)) \in Seq(S)
    BY <2>1, FlattenAppend
  <2>6. (Head(s) \o FlattenSeq(Tail(s))) \o x = Head(s) \o (FlattenSeq(Tail(s)) \o x)
    <3> DEFINE y == Head(s)
               z == FlattenSeq(Tail(s))
    <3>1. y \in Seq(S) /\ z \in Seq(S) /\ x \in Seq(S)
      BY <2>1, <2>5
    <3> HIDE DEF y, z, T, Q
    <3>2. (y \o z) \o x = y \o (z \o x)
      BY <1>a, <3>1, Zenon
    <3> QED
      BY <3>2 DEF y, z
  <2> QED
    BY <2>1, <2>4, <2>5, <2>6
<1> HIDE DEF T
<1>3. T = Nat
  BY <1>1, <1>2, Inductive DEF T
<1>4. Len(q) - 1 \in Nat /\ Len(q) = (Len(q) - 1) + 1
  OBVIOUS
<1>5. Len(q) - 1 \in T
  BY <1>3, <1>4
<1>6. FlattenSeq(q) = Head(q) \o FlattenSeq(Tail(q))
  BY <1>4, <1>5 DEF T
<1>7. q[1] \in Seq(S)
  BY <1>4
<1> QED
  BY <1>0, <1>6, <1>7, FlattenAppend

LEMMA ConcatFacts ==
  ASSUME NEW S, NEW a \in Seq(S), NEW b \in Seq(S)
  PROVE  /\ a \o b \in Seq(S)
         /\ \A x \in S : a \o Append(b, x) = Append(a \o b, x)
         /\ a # <<>> => /\ a \o b # <<>>
                        /\ Head(a \o b) = Head(a)
                        /\ Tail(a \o b) = Tail(a) \o b
         /\ IsPrefix(a, a \o b)
         /\ IsSuffix(b, a \o b)
<1> DEFINE d == a \o b
<1>1. /\ d \in Seq(S) /\ Len(d) = Len(a) + Len(b) /\ Len(a) \in Nat /\ Len(b) \in Nat
      /\ \A i \in 1..Len(a) : d[i] = a[i]
      /\ \A i \in 1..Len(b) : d[Len(a) + i] = b[i]
  OBVIOUS
<1>2. ASSUME NEW x \in S
      PROVE  a \o Append(b, x) = Append(d, x)
  OBVIOUS
<1>3. ASSUME a # <<>>
      PROVE  d # <<>> /\ Head(d) = Head(a) /\ Tail(d) = Tail(a) \o b
  <2>1. d # <<>> /\ Head(d) = Head(a)
    BY <1>1, <1>3
  <2>2. Tail(d) = Tail(a) \o b
    <3> DEFINE u == Tail(d)
               v == Tail(a) \o b
    <3>1. /\ u \in Seq(S) /\ Len(u) = Len(a) + Len(b) - 1
          /\ \A i \in 1..Len(u) : u[i] = d[i + 1]
      BY <1>1, <2>1, HeadTailProperties
    <3>2. /\ Tail(a) \in Seq(S) /\ Len(Tail(a)) = Len(a) - 1 /\ Len(a) \geq 1
          /\ \A i \in 1..Len(a) - 1 : Tail(a)[i] = a[i + 1]
      BY <1>1, <1>3, HeadTailProperties, EmptySeq
    <3>3. /\ v \in Seq(S) /\ Len(v) = Len(a) + Len(b) - 1
          /\ \A i \in 1..Len(v) : v[i] = IF i \leq Len(a) - 1 THEN Tail(a)[i] ELSE b[i - (Len(a) - 1)]
      BY <1>1, <3>2, ConcatProperties
    <3> HIDE DEF u, v, d
    <3>4. ASSUME NEW i \in 1..Len(u)
          PROVE  u[i] = v[i]
      <4>1. CASE i \leq Len(a) - 1
        BY <1>1, <3>1, <3>2, <3>3, <4>1
      <4>2. CASE ~ (i \leq Len(a) - 1)
        <5>1. i - (Len(a) - 1) \in 1..Len(b) /\ Len(a) + (i - (Len(a) - 1)) = i + 1
          BY <1>1, <3>1, <3>2, <4>2
        <5>2. d[i + 1] = b[i - (Len(a) - 1)]
          BY <1>1, <5>1
        <5>3. v[i] = b[i - (Len(a) - 1)]
          BY <1>1, <3>1, <3>2, <3>3, <4>2
        <5> QED
          BY <3>1, <5>2, <5>3
      <4> QED
        BY <4>1, <4>2
    <3>5. u = v
      BY <3>1, <3>3, <3>4, SeqEqual
    <3> QED
      BY <3>5 DEF u, v
  <2> QED
    BY <2>1, <2>2
<1>4. IsPrefix(a, d)
  <2>1. /\ SubSeq(a, 1, Len(a)) \in Seq(S) /\ Len(SubSeq(a, 1, Len(a))) = Len(a)
        /\ \A i \in 1..Len(a) : SubSeq(a, 1, Len(a))[i] = a[i]
    OBVIOUS
  <2> HIDE DEF d
  <2>2. /\ SubSeq(d, 1, Len(a)) \in Seq(S) /\ Len(SubSeq(d, 1, Len(a))) = Len(a)
        /\ \A i \in 1..Len(a) : SubSeq(d, 1, Len(a))[i] = d[i]
    BY <1>1
  <2>3. SubSeq(a, 1, Len(a)) = SubSeq(d, 1, Len(a))
    BY <1>1, <2>1, <2>2, SeqEqual
  <2> QED
    BY <1>1, <2>3 DEF IsPrefix
<1>5. IsSuffix(b, d)
  <2> HIDE DEF d
  <2> DEFINE u == Reverse(b)
             v == Reverse(d)
  <2>1. /\ u \in Seq(S) /\ Len(u) = Len(b)
        /\ \A i \in 1..Len(b) : u[i] = b[Len(b) - i + 1]
    BY <1>1 DEF Reverse
  <2>2. /\ v \in Seq(S) /\ Len(v) = Len(d)
        /\ \A i \in 1..Len(d) : v[i] = d[Len(d) - i + 1]
    BY <1>1 DEF Reverse
  <2>3. ASSUME NEW i \in 1..Len(b)
        PROVE  u[i] = v[i]
    <3> DEFINE j == Len(b) - i + 1
    <3>1. j \in 1..Len(b) /\ Len(d) - i + 1 = Len(a) + j /\ i \in 1..Len(d)
      <4>1. /\ Len(d) = Len(a) + Len(b) /\ Len(a) \in Nat /\ Len(b) \in Nat
            /\ i \in Nat /\ 1 \leq i /\ i \leq Len(b)
        BY <1>1
      <4> QED
        BY <4>1
    <3> HIDE DEF j
    <3>2. u[i] = b[j]
      BY <2>1 DEF j
    <3>3. v[i] = d[Len(a) + j]
      BY <2>2, <3>1
    <3> QED
      BY <1>1, <3>1, <3>2, <3>3
  <2> HIDE DEF u, v
  <2>4. /\ SubSeq(u, 1, Len(u)) \in Seq(S) /\ Len(SubSeq(u, 1, Len(u))) = Len(b)
        /\ \A i \in 1..Len(b) : SubSeq(u, 1, Len(u))[i] = u[i]
    BY <1>1, <2>1
  <2>5. /\ SubSeq(v, 1, Len(u)) \in Seq(S) /\ Len(SubSeq(v, 1, Len(u))) = Len(b)
        /\ \A i \in 1..Len(b) : SubSeq(v, 1, Len(u))[i] = v[i]
    BY <1>1, <2>1, <2>2
  <2>6. SubSeq(u, 1, Len(u)) = SubSeq(v, 1, Len(u))
    BY <2>3, <2>4, <2>5, SeqEqual
  <2>7. Len(u) \leq Len(v)
    BY <1>1, <2>1, <2>2
  <2>8. IsPrefix(u, v)
    BY <2>6, <2>7 DEF IsPrefix
  <2> QED
    BY <2>8 DEF IsSuffix, u, v
<1> QED
  BY <1>1, <1>2, <1>3, <1>4, <1>5

-----------------------------------------------------------------------------
(* FramesInOrder: what is between a client and the worker *)

\* Unprocessed, for contents c of the buffers, the running task r, the queue
\* q and the socket i.
PiecesIn(c, task) == IF task = Null \/ task = StartTask THEN <<>> ELSE c[task.buffer]

Chunks(c, q) == [k \in DOMAIN q |-> PiecesIn(c, q[k])]

Between(c, r, q, i) == PiecesIn(c, r) \o FlattenSeq(Chunks(c, q)) \o i

Contents == [Buffers -> Seq(Piece)]

LEMMA BetweenIs ==
  ASSUME NEW h \in Handlers
  PROVE  /\ Unprocessed(h) = Between(content, running[h], queue[h], inbox[h])
         /\ Unprocessed(h)' = Between(content', running'[h], queue'[h], inbox'[h])
BY DEF Unprocessed, Between, Chunks, PiecesOf, PiecesIn

LEMMA PiecesInIs ==
  ASSUME NEW c \in Contents
  PROVE  /\ PiecesIn(c, Null) = <<>> /\ PiecesIn(c, StartTask) = <<>>
         /\ \A b \in Buffers : PiecesIn(c, ReadTask(b)) = c[b]
         /\ \A t \in Submitted \cup {Null} : PiecesIn(c, t) \in Seq(Piece)
<1>1. PiecesIn(c, Null) = <<>> /\ PiecesIn(c, StartTask) = <<>>
  BY DEF PiecesIn
<1>2. ASSUME NEW b \in Buffers
      PROVE  PiecesIn(c, ReadTask(b)) = c[b]
  <2>1. ReadTask(b) # Null /\ ReadTask(b) # StartTask
    BY ReadTasks
  <2>2. ReadTask(b).buffer = b
    BY DEF ReadTask
  <2> QED
    BY <2>1, <2>2 DEF PiecesIn
<1>3. <<>> \in Seq(Piece) /\ \A b \in Buffers : c[b] \in Seq(Piece)
  BY DEF Contents
<1> QED
  BY <1>1, <1>2, <1>3 DEF Submitted

LEMMA ChunksTypes ==
  ASSUME NEW c \in Contents, NEW q \in Seq(Submitted)
  PROVE  /\ Chunks(c, q) \in Seq(Seq(Piece)) /\ Len(Chunks(c, q)) = Len(q)
         /\ DOMAIN q = 1..Len(q) /\ Len(q) \in Nat
         /\ \A k \in 1..Len(q) : Chunks(c, q)[k] = PiecesIn(c, q[k])
         /\ FlattenSeq(Chunks(c, q)) \in Seq(Piece)
<1>1. DOMAIN q = 1..Len(q) /\ Len(q) \in Nat /\ \A k \in 1..Len(q) : q[k] \in Submitted
  OBVIOUS
<1>2. \A k \in 1..Len(q) : PiecesIn(c, q[k]) \in Seq(Piece)
  BY <1>1, PiecesInIs
<1>3. Chunks(c, q) = [k \in 1..Len(q) |-> PiecesIn(c, q[k])]
  BY <1>1 DEF Chunks
<1>4. Chunks(c, q) \in [1..Len(q) -> Seq(Piece)]
  BY <1>2, <1>3
<1>5. Chunks(c, q) \in Seq(Seq(Piece)) /\ Len(Chunks(c, q)) = Len(q)
  BY <1>1, <1>4
<1>6. <<>> \in Seq(Piece)
  BY EmptySeq
<1>7. FlattenSeq(Chunks(c, q)) \in Seq(Piece)
  BY <1>5, <1>6, FlattenAppend
<1> QED
  BY <1>1, <1>3, <1>5, <1>7

LEMMA ChunksAppend ==
  ASSUME NEW c \in Contents, NEW q \in Seq(Submitted), NEW t \in Submitted
  PROVE  FlattenSeq(Chunks(c, Append(q, t))) = FlattenSeq(Chunks(c, q)) \o PiecesIn(c, t)
<1> DEFINE p == Append(q, t)
           u == Chunks(c, p)
           v == Append(Chunks(c, q), PiecesIn(c, t))
<1>1. /\ p \in Seq(Submitted) /\ Len(p) = Len(q) + 1 /\ Len(q) \in Nat
      /\ p[Len(q) + 1] = t /\ \A k \in 1..Len(q) : p[k] = q[k]
  OBVIOUS
<1> HIDE DEF p
<1>2. PiecesIn(c, t) \in Seq(Piece)
  BY PiecesInIs
<1>3. /\ Chunks(c, q) \in Seq(Seq(Piece)) /\ Len(Chunks(c, q)) = Len(q)
      /\ \A k \in 1..Len(q) : Chunks(c, q)[k] = PiecesIn(c, q[k])
  BY ChunksTypes
<1>4. /\ u \in Seq(Seq(Piece)) /\ Len(u) = Len(q) + 1
      /\ \A k \in 1..Len(q) + 1 : u[k] = PiecesIn(c, p[k])
  BY <1>1, ChunksTypes
<1>5. /\ v \in Seq(Seq(Piece)) /\ Len(v) = Len(q) + 1
      /\ v[Len(q) + 1] = PiecesIn(c, t)
      /\ \A k \in 1..Len(q) : v[k] = PiecesIn(c, q[k])
  BY <1>2, <1>3, AppendProperties
<1> HIDE DEF u, v
<1>6. ASSUME NEW k \in 1..Len(u)
      PROVE  u[k] = v[k]
  <2>1. k \in 1..Len(q) \/ k = Len(q) + 1
    BY <1>1, <1>4
  <2> QED
    BY <1>1, <1>4, <1>5, <2>1
<1>7. u = v
  BY <1>4, <1>5, <1>6, SeqEqual
<1>8. FlattenSeq(v) = FlattenSeq(Chunks(c, q)) \o PiecesIn(c, t)
  BY <1>2, <1>3, FlattenAppend DEF v
<1> QED
  BY <1>7, <1>8 DEF u, p

LEMMA ChunksTail ==
  ASSUME NEW c \in Contents, NEW q \in Seq(Submitted), q # <<>>
  PROVE  FlattenSeq(Chunks(c, q)) = PiecesIn(c, Head(q)) \o FlattenSeq(Chunks(c, Tail(q)))
<1> DEFINE p == Tail(q)
           u == Chunks(c, p)
           w == Chunks(c, q)
           v == Tail(w)
<1>1. /\ p \in Seq(Submitted) /\ Len(p) = Len(q) - 1 /\ Len(q) \in Nat /\ Len(q) \geq 1
      /\ Head(q) = q[1] /\ \A k \in 1..Len(q) - 1 : p[k] = q[k + 1]
  BY HeadTailProperties, EmptySeq
<1> HIDE DEF p
<1>2. /\ w \in Seq(Seq(Piece)) /\ Len(w) = Len(q) /\ w # <<>>
      /\ \A k \in 1..Len(q) : w[k] = PiecesIn(c, q[k])
  BY <1>1, ChunksTypes
<1>3. /\ u \in Seq(Seq(Piece)) /\ Len(u) = Len(q) - 1
      /\ \A k \in 1..Len(q) - 1 : u[k] = PiecesIn(c, p[k])
  BY <1>1, ChunksTypes
<1> HIDE DEF u, w
<1>4. /\ v \in Seq(Seq(Piece)) /\ Len(v) = Len(q) - 1
      /\ \A k \in 1..Len(q) - 1 : v[k] = w[k + 1]
  BY <1>2, HeadTailProperties
<1> HIDE DEF v
<1>5. ASSUME NEW k \in 1..Len(u)
      PROVE  u[k] = v[k]
  <2>1. k \in 1..Len(q) - 1 /\ k + 1 \in 1..Len(q)
    BY <1>1, <1>3
  <2> QED
    BY <1>1, <1>2, <1>3, <1>4, <2>1
<1>6. u = v
  BY <1>3, <1>4, <1>5, SeqEqual
<1>7. FlattenSeq(w) = Head(w) \o FlattenSeq(v)
  BY <1>2, FlattenTail DEF v
<1>8. Head(w) = PiecesIn(c, Head(q))
  BY <1>1, <1>2
<1> QED
  BY <1>6, <1>7, <1>8 DEF u, w, p

\* The three parts of what is between a client and the worker.
LEMMA Parts ==
  ASSUME NEW c \in Contents, NEW r \in Submitted \cup {Null}, NEW q \in Seq(Submitted),
         NEW i \in Seq(Piece)
  PROVE  /\ PiecesIn(c, r) \in Seq(Piece)
         /\ FlattenSeq(Chunks(c, q)) \in Seq(Piece)
         /\ PiecesIn(c, r) \o FlattenSeq(Chunks(c, q)) \in Seq(Piece)
         /\ FlattenSeq(Chunks(c, q)) \o i \in Seq(Piece)
         /\ Between(c, r, q, i) \in Seq(Piece)
         /\ Between(c, r, q, i) = (PiecesIn(c, r) \o FlattenSeq(Chunks(c, q))) \o i
         /\ Between(c, r, q, i) = PiecesIn(c, r) \o (FlattenSeq(Chunks(c, q)) \o i)
<1>a. \A x, y, z \in Seq(Piece) : (x \o y) \o z = x \o (y \o z)
  BY Associates, SMTT(60)
<1> DEFINE x == PiecesIn(c, r)
           y == FlattenSeq(Chunks(c, q))
<1>1. x \in Seq(Piece) /\ y \in Seq(Piece)
  BY PiecesInIs, ChunksTypes
<1>2. Between(c, r, q, i) = (x \o y) \o i
  BY DEF Between
<1> HIDE DEF x, y
<1>3. x \o y \in Seq(Piece) /\ y \o i \in Seq(Piece) /\ (x \o y) \o i \in Seq(Piece)
  BY <1>1
<1>4. (x \o y) \o i = x \o (y \o i)
  BY <1>1, <1>a, Zenon
<1> QED
  BY <1>1, <1>2, <1>3, <1>4 DEF x, y

LEMMA OtherContents ==
  ASSUME NEW c \in Contents, NEW d \in Contents, NEW r \in Submitted \cup {Null},
         NEW q \in Seq(Submitted),
         \A b \in Buffers : \/ d[b] = c[b]
                            \/ r # ReadTask(b) /\ \A k \in 1..Len(q) : q[k] # ReadTask(b)
  PROVE  PiecesIn(d, r) = PiecesIn(c, r) /\ Chunks(d, q) = Chunks(c, q)
<1>1. ASSUME NEW t \in Submitted \cup {Null}, t = r \/ \E k \in 1..Len(q) : t = q[k]
      PROVE  PiecesIn(d, t) = PiecesIn(c, t)
  <2>1. CASE t \in {StartTask, Null}
    BY <2>1, PiecesInIs
  <2>2. CASE \E b \in Buffers : t = ReadTask(b)
    <3>1. PICK b \in Buffers : t = ReadTask(b)
      BY <2>2
    <3>2. d[b] = c[b]
      BY <1>1, <3>1
    <3> QED
      BY <3>1, <3>2, PiecesInIs
  <2> QED
    BY <2>1, <2>2 DEF Submitted
<1>2. DOMAIN q = 1..Len(q) /\ \A k \in 1..Len(q) : q[k] \in Submitted
  OBVIOUS
<1>3. \A k \in DOMAIN q : PiecesIn(d, q[k]) = PiecesIn(c, q[k])
  BY <1>1, <1>2
<1>4. Chunks(d, q) = Chunks(c, q)
  BY <1>3 DEF Chunks
<1> QED
  BY <1>1, <1>4

\* Accepting submits no frames, starting a task loses none.
LEMMA SubmitStart ==
  ASSUME NEW c \in Contents, NEW r \in Submitted \cup {Null}, NEW q \in Seq(Submitted),
         NEW i \in Seq(Piece)
  PROVE  Between(c, r, Append(q, StartTask), i) = Between(c, r, q, i)
<1>1. FlattenSeq(Chunks(c, Append(q, StartTask))) = FlattenSeq(Chunks(c, q)) \o <<>>
  BY ChunksAppend, PiecesInIs DEF Submitted
<1>2. FlattenSeq(Chunks(c, q)) \o <<>> = FlattenSeq(Chunks(c, q))
  BY Parts, ConcatEmptySeq
<1> QED
  BY <1>1, <1>2 DEF Between

LEMMA StartTakes ==
  ASSUME NEW c \in Contents, NEW q \in Seq(Submitted), q # <<>>, NEW i \in Seq(Piece)
  PROVE  Between(c, Head(q), Tail(q), i) = Between(c, Null, q, i)
<1>1. FlattenSeq(Chunks(c, q)) = PiecesIn(c, Head(q)) \o FlattenSeq(Chunks(c, Tail(q)))
  BY ChunksTail
<1>2. <<>> \o FlattenSeq(Chunks(c, q)) = FlattenSeq(Chunks(c, q))
  BY ChunksTypes, ConcatEmptySeq
<1> QED
  BY <1>1, <1>2, PiecesInIs DEF Between

\* A chunk is cut off the front of the socket.
LEMMA Regroup ==
  \A x, y, i \in Seq(Piece) : \A n \in 1..Len(i) :
    (x \o (y \o SubSeq(i, 1, n))) \o SubSeq(i, n + 1, Len(i)) = (x \o y) \o i
<1>1. \A x, y, z \in Seq(Piece) : (x \o y) \o z = x \o (y \o z)
  BY Associates, SMTT(60)
<1>2. ASSUME NEW i \in Seq(Piece), NEW n \in 1..Len(i)
      PROVE  /\ SubSeq(i, 1, n) \in Seq(Piece)
             /\ SubSeq(i, n + 1, Len(i)) \in Seq(Piece)
             /\ SubSeq(i, 1, n) \o SubSeq(i, n + 1, Len(i)) = i
  <2>1. Len(i) \in Nat /\ 1 \in 1..Len(i) + 1 /\ n \in 1 - 1..Len(i) /\ Len(i) \in n..Len(i)
    OBVIOUS
  <2>2. SubSeq(i, 1, n) \o SubSeq(i, n + 1, Len(i)) = SubSeq(i, 1, Len(i))
    BY <2>1, ConcatAdjacentSubSeq
  <2> QED
    BY <2>2, SubSeqFull
<1> SUFFICES ASSUME NEW x \in Seq(Piece), NEW y \in Seq(Piece), NEW i \in Seq(Piece),
                    NEW n \in 1..Len(i)
             PROVE  (x \o (y \o SubSeq(i, 1, n))) \o SubSeq(i, n + 1, Len(i)) = (x \o y) \o i
  OBVIOUS
<1> DEFINE z == SubSeq(i, 1, n)
           w == SubSeq(i, n + 1, Len(i))
           v == y \o z
<1>3. z \in Seq(Piece) /\ w \in Seq(Piece) /\ z \o w = i
  BY <1>2
<1> HIDE DEF z, w
<1>4. v \in Seq(Piece)
  BY <1>3
<1>5. (x \o y) \o i = x \o (y \o i)
  BY <1>1, Zenon
<1>6. v \o w = y \o (z \o w)
  BY <1>1, <1>3, Zenon
<1>7. w \in Seq(Piece)
  BY <1>3
<1> HIDE DEF v
<1>8. (x \o v) \o w = x \o (v \o w)
  BY <1>1, <1>4, <1>7, Zenon
<1> QED
  BY <1>3, <1>5, <1>6, <1>8, Zenon DEF v, z, w

\* A chunk moves from the socket to a buffer that no task has.
LEMMA ReadMoves ==
  ASSUME NEW c \in Contents, NEW d \in Contents, NEW r \in Submitted \cup {Null},
         NEW q \in Seq(Submitted), NEW i \in Seq(Piece), NEW n \in 1..Len(i),
         NEW b \in Buffers, d[b] = SubSeq(i, 1, n),
         PiecesIn(d, r) = PiecesIn(c, r), Chunks(d, q) = Chunks(c, q)
  PROVE  Between(d, r, Append(q, ReadTask(b)), SubSeq(i, n + 1, Len(i))) = Between(c, r, q, i)
<1> DEFINE x == PiecesIn(c, r)
           y == FlattenSeq(Chunks(c, q))
           z == SubSeq(i, 1, n)
           w == SubSeq(i, n + 1, Len(i))
<1>1. FlattenSeq(Chunks(d, Append(q, ReadTask(b)))) = y \o z
  BY ChunksAppend, PiecesInIs DEF Submitted
<1>2. Between(d, r, Append(q, ReadTask(b)), w) = (x \o (y \o z)) \o w
  BY <1>1 DEF Between
<1>3. x \in Seq(Piece) /\ y \in Seq(Piece)
  BY Parts
<1>4. Between(c, r, q, i) = (x \o y) \o i
  BY DEF Between
<1> HIDE DEF x, y
<1>5. (x \o (y \o z)) \o w = (x \o y) \o i
  <2>1. i \in Seq(Piece) /\ n \in 1..Len(i)
    OBVIOUS
  <2> QED
    BY <1>3, <2>1, Regroup, ZenonT(60)
<1> QED
  BY <1>2, <1>4, <1>5

\* The next frame is the first of them.
LEMMA NextTakes ==
  ASSUME NEW c \in Contents, NEW d \in Contents, NEW r \in Submitted \cup {Null},
         NEW q \in Seq(Submitted), NEW i \in Seq(Piece),
         PiecesIn(c, r) # <<>>, PiecesIn(d, r) = Tail(PiecesIn(c, r)), Chunks(d, q) = Chunks(c, q)
  PROVE  /\ Between(c, r, q, i) # <<>>
         /\ Between(d, r, q, i) = Tail(Between(c, r, q, i))
         /\ Head(Between(c, r, q, i)) = Head(PiecesIn(c, r))
<1> DEFINE x == PiecesIn(c, r)
           y == FlattenSeq(Chunks(c, q)) \o i
<1>1. x \in Seq(Piece) /\ y \in Seq(Piece) /\ Between(c, r, q, i) = x \o y
  BY Parts
<1>2. Between(d, r, q, i) = Tail(x) \o y
  <2>1. Between(d, r, q, i) = PiecesIn(d, r) \o (FlattenSeq(Chunks(d, q)) \o i)
    BY Parts
  <2> QED
    BY <2>1
<1> HIDE DEF y
<1>3. x \o y # <<>> /\ Head(x \o y) = Head(x) /\ Tail(x \o y) = Tail(x) \o y
  BY <1>1, ConcatFacts
<1> QED
  BY <1>1, <1>2, <1>3

\* What is left when a task ends, when a client sends, when it goes away.
LEMMA EndLeaves ==
  ASSUME NEW c \in Contents, NEW d \in Contents, NEW r \in Submitted \cup {Null},
         NEW q \in Seq(Submitted), NEW i \in Seq(Piece), Chunks(d, q) = Chunks(c, q)
  PROVE  /\ PiecesIn(c, r) \in Seq(Piece)
         /\ Between(c, r, q, i) = PiecesIn(c, r) \o Between(d, Null, q, i)
         /\ PiecesIn(c, r) = <<>> => Between(d, Null, q, i) = Between(c, r, q, i)
<1> DEFINE x == PiecesIn(c, r)
           y == FlattenSeq(Chunks(c, q)) \o i
<1>1. x \in Seq(Piece) /\ y \in Seq(Piece) /\ Between(c, r, q, i) = x \o y
  BY Parts
<1>2. Between(d, Null, q, i) = <<>> \o y
  <2>1. Between(d, Null, q, i) = PiecesIn(d, Null) \o (FlattenSeq(Chunks(d, q)) \o i)
    <3>1. Null \in Submitted \cup {Null}
      OBVIOUS
    <3> QED
      BY <3>1, Parts
  <2>2. PiecesIn(d, Null) = <<>>
    BY PiecesInIs
  <2> QED
    BY <2>1, <2>2
<1> HIDE DEF y
<1>3. <<>> \o y = y
  BY <1>1, ConcatEmptySeq
<1> QED
  BY <1>1, <1>2, <1>3

LEMMA SendAppends ==
  ASSUME NEW c \in Contents, NEW r \in Submitted \cup {Null}, NEW q \in Seq(Submitted),
         NEW i \in Seq(Piece), NEW j \in Seq(Piece)
  PROVE  Between(c, r, q, i \o j) = Between(c, r, q, i) \o j
<1> DEFINE x == PiecesIn(c, r) \o FlattenSeq(Chunks(c, q))
<1>1. x \in Seq(Piece) /\ Between(c, r, q, i) = x \o i
  BY Parts
<1>2. Between(c, r, q, i \o j) = x \o (i \o j)
  <2>1. i \o j \in Seq(Piece)
    OBVIOUS
  <2> QED
    BY <2>1, Parts
<1> HIDE DEF x
<1>3. (x \o i) \o j = x \o (i \o j)
  BY <1>1, ConcatAssociative
<1> QED
  BY <1>1, <1>2, <1>3

LEMMA DropLeaves ==
  ASSUME NEW c \in Contents, NEW r \in Submitted \cup {Null}, NEW q \in Seq(Submitted),
         NEW i \in Seq(Piece), NEW n \in 0..Len(i)
  PROVE  \E z \in Seq(Piece) :
           Between(c, r, q, i) = Between(c, r, q, SubSeq(i, 1, n)) \o z
<1> DEFINE w == SubSeq(i, 1, n)
           z == SubSeq(i, n + 1, Len(i))
<1>1. Len(i) \in Nat /\ 1 \in 1..Len(i) + 1 /\ n \in 1 - 1..Len(i) /\ Len(i) \in n..Len(i)
  OBVIOUS
<1>2. w \o z = SubSeq(i, 1, Len(i))
  BY <1>1, ConcatAdjacentSubSeq
<1>3. w \in Seq(Piece) /\ z \in Seq(Piece)
  BY <1>1
<1>4. w \o z = i
  BY <1>2, SubSeqFull
<1> HIDE DEF w, z
<1>5. Between(c, r, q, w \o z) = Between(c, r, q, w) \o z
  BY <1>3, SendAppends
<1> QED
  BY <1>3, <1>4, <1>5 DEF w

\* Types of what is between the client of h and the worker.
LEMMA PartTypes ==
  ASSUME TypeInv, NEW h \in Handlers
  PROVE  /\ content \in Contents /\ running[h] \in Submitted \cup {Null}
         /\ queue[h] \in Seq(Submitted) /\ inbox[h] \in Seq(Piece)
BY DEF TypeInv, PoolTypes, BufferTypes, ClientTypes, Contents

LEMMA NotPlaced ==
  ASSUME NEW g \in Handlers, queue[g] \in Seq(Submitted), NEW b \in Buffers,
         ~ Placed(g, ReadTask(b))
  PROVE  running[g] # ReadTask(b) /\ \A k \in 1..Len(queue[g]) : queue[g][k] # ReadTask(b)
<1>1. Len(queue[g]) \in Nat
  OBVIOUS
<1>2. TaskAt(g, 0) = running[g] /\ \A k \in 1..Len(queue[g]) : TaskAt(g, k) = queue[g][k]
  BY <1>1 DEF TaskAt
<1>3. 0 \in 0..Len(queue[g]) /\ \A k \in 1..Len(queue[g]) : k \in 0..Len(queue[g])
  BY <1>1
<1> QED
  BY <1>2, <1>3 DEF Placed

\* Only buffers that the pool of g has no task with change.
LEMMA Untouched ==
  ASSUME TypeInv, TypeInv', NEW g \in Handlers,
         \A b \in Buffers : content'[b] = content[b] \/ ~ Placed(g, ReadTask(b))
  PROVE  /\ PiecesIn(content', running[g]) = PiecesIn(content, running[g])
         /\ Chunks(content', queue[g]) = Chunks(content, queue[g])
<1>1. /\ content \in Contents /\ running[g] \in Submitted \cup {Null}
      /\ queue[g] \in Seq(Submitted)
  BY PartTypes
<1>2. content' \in Contents
  BY DEF TypeInv, BufferTypes, Contents
<1>3. \A b \in Buffers : \/ content'[b] = content[b]
                         \/ /\ running[g] # ReadTask(b)
                            /\ \A k \in 1..Len(queue[g]) : queue[g][k] # ReadTask(b)
  BY <1>1, NotPlaced
<1> QED
  BY <1>1, <1>2, <1>3, OtherContents

LEMMA NotMine ==
  ASSUME TypeInv, TypeInv', NEW g \in Handlers,
         queue'[g] = queue[g], running'[g] = running[g], inbox'[g] = inbox[g],
         \A b \in Buffers : content'[b] = content[b] \/ ~ Placed(g, ReadTask(b))
  PROVE  Unprocessed(g)' = Unprocessed(g)
<1>1. /\ PiecesIn(content', running[g]) = PiecesIn(content, running[g])
      /\ Chunks(content', queue[g]) = Chunks(content, queue[g])
  BY Untouched
<1> QED
  BY <1>1, BetweenIs DEF Between

\* What a step does to the bytes of h: nothing, or the client sends a frame, or
\* the worker takes a piece, throws the rest of its chunk away, or the client is
\* lost, or the pool is shut down.
Stays(h) == UNCHANGED <<Unprocessed(h), decoder[h]>>

Sends(h) ==
  /\ decoder'[h] = decoder[h] /\ client[h] = "up"
  /\ \E f \in Frames : Unprocessed(h)' = Unprocessed(h) \o Pieces(f)

Takes(h) ==
  /\ pc[h] = "read" /\ Unprocessed(h) # <<>> /\ Unprocessed(h)' = Tail(Unprocessed(h))
  /\ LET e == Head(Unprocessed(h))
     IN  IF e.last THEN decoder'[h] = <<>> /\ frame'[h] \in Reads(Append(decoder[h], e))
                   ELSE decoder'[h] = Append(decoder[h], e) /\ pc'[h] = "read"

Wastes(h) ==
  /\ pc[h] = "process" /\ Throws(h) /\ decoder'[h] = decoder[h]
  /\ \E z \in Seq(Piece) : Unprocessed(h) = z \o Unprocessed(h)'

Loses(h) ==
  /\ client[h] = "up" /\ client'[h] = "gone" /\ decoder'[h] = decoder[h]
  /\ \E z \in Seq(Piece) : Unprocessed(h) = Unprocessed(h)' \o z

Moves(h) == Stays(h) \/ Sends(h) \/ Takes(h) \/ Wastes(h) \/ Loses(h) \/ down'

\* The pool and the buffers do not change.
LEMMA StaysThere ==
  ASSUME TypeInv, TypeInv', UNCHANGED <<pool, content, decoder>>, NEW g \in Handlers,
         inbox'[g] = inbox[g]
  PROVE  Moves(g)
<1>1. queue'[g] = queue[g] /\ running'[g] = running[g] /\ \A b \in Buffers : content'[b] = content[b]
  BY DEF pool
<1>2. Unprocessed(g)' = Unprocessed(g)
  BY <1>1, NotMine
<1> QED
  BY <1>2 DEF Moves, Stays

LEMMA AcceptInOrder ==
  ASSUME TypeInv, TypeInv', NEW h \in Handlers, Accept(h), NEW g \in Handlers
  PROVE  Moves(g)
<1>1. /\ queue' = [queue EXCEPT ![h] = Append(@, StartTask)] /\ running' = running
      /\ content' = content /\ decoder' = decoder /\ inbox' = inbox
  BY DEF Accept, Pool!Submit, buffers
<1>2. queue \in [Handlers -> Seq(Submitted)]
  BY DEF TypeInv, PoolTypes
<1>3. Unprocessed(g)' = Unprocessed(g)
  <2>1. CASE g # h
    <3>1. queue'[g] = queue[g]
      BY <1>1, <1>2, <2>1
    <3> QED
      BY <1>1, <3>1, NotMine
  <2>2. CASE g = h
    <3>1. queue'[g] = Append(queue[g], StartTask)
      BY <1>1, <1>2, <2>2
    <3>2. Between(content, running[g], Append(queue[g], StartTask), inbox[g])
            = Between(content, running[g], queue[g], inbox[g])
      BY PartTypes, SubmitStart
    <3> QED
      BY <1>1, <3>1, <3>2, BetweenIs
  <2> QED
    BY <2>1, <2>2
<1> QED
  BY <1>1, <1>3 DEF Moves, Stays

LEMMA ReadInOrder ==
  ASSUME TypeInv, TypeInv', BuffersExclusive, NEW h \in Handlers, Read(h), NEW g \in Handlers
  PROVE  Moves(g)
<1>1. CASE closed[h] \/ inbox[h] = <<>>
  <2>1. UNCHANGED <<pool, content, decoder, inbox>>
    BY <1>1 DEF Read, buffers
  <2> QED
    BY <2>1, StaysThere
<1>2. CASE ~ (closed[h] \/ inbox[h] = <<>>)
  <2>1. PICK b \in Buffers : b = FreeBuffer
    BY <1>2, ReadChunk, FreeBufferIs DEF TypeInv
  <2>2. PICK n \in 1..Len(inbox[h]) :
          /\ content' = [content EXCEPT ![b] = SubSeq(inbox[h], 1, n)]
          /\ Pool!Submit(h, ReadTask(b))
          /\ inbox' = [inbox EXCEPT ![h] = SubSeq(@, n + 1, Len(@))]
    BY <1>2, <2>1, ReadChunk
  <2>3. b \in bufferPool \cup (Buffers \ Leased)
    BY <1>2, <2>1, ReadChunk, FreeBufferIs DEF TypeInv
  <2>4. \A f \in Handlers : ~ Placed(f, ReadTask(b))
    <3>1. b \notin Leased
      BY <2>3 DEF BuffersExclusive
    <3> QED
      BY <3>1, LeasedPlaces DEF LeasedByPlace, TypeInv
  <2>5. /\ queue' = [queue EXCEPT ![h] = Append(@, ReadTask(b))] /\ running' = running
        /\ queue \in [Handlers -> Seq(Submitted)] /\ inbox \in [Handlers -> Seq(Piece)]
        /\ content \in [Buffers -> Seq(Piece)]
    BY <2>2 DEF Pool!Submit, TypeInv, PoolTypes, ClientTypes, BufferTypes
  <2>6. \A a \in Buffers : content'[a] = content[a] \/ ~ Placed(g, ReadTask(a))
    BY <2>2, <2>4, <2>5
  <2>7. Unprocessed(g)' = Unprocessed(g)
    <3>1. CASE g # h
      <4>1. queue'[g] = queue[g] /\ inbox'[g] = inbox[g]
        BY <2>2, <2>5, <3>1
      <4> QED
        BY <2>5, <2>6, <4>1, NotMine
    <3>2. CASE g = h
      <4>1. /\ queue'[g] = Append(queue[g], ReadTask(b))
            /\ inbox'[g] = SubSeq(inbox[g], n + 1, Len(inbox[g]))
            /\ content'[b] = SubSeq(inbox[g], 1, n)
        BY <2>2, <2>5, <3>2
      <4>2. /\ content \in Contents /\ running[g] \in Submitted \cup {Null}
            /\ queue[g] \in Seq(Submitted) /\ inbox[g] \in Seq(Piece)
            /\ content' \in Contents
        BY PartTypes DEF TypeInv, BufferTypes, Contents
      <4>3. /\ PiecesIn(content', running[g]) = PiecesIn(content, running[g])
            /\ Chunks(content', queue[g]) = Chunks(content, queue[g])
        BY <2>6, Untouched
      <4>4. Between(content', running[g], Append(queue[g], ReadTask(b)),
                    SubSeq(inbox[g], n + 1, Len(inbox[g])))
              = Between(content, running[g], queue[g], inbox[g])
        <5>1. n \in 1..Len(inbox[g])
          BY <3>2
        <5> QED
          BY <4>1, <4>2, <4>3, <5>1, ReadMoves
      <4> QED
        BY <2>5, <4>1, <4>4, BetweenIs
    <3> QED
      BY <3>1, <3>2
  <2> QED
    BY <2>7 DEF Read, Moves, Stays
<1> QED
  BY <1>1, <1>2

LEMMA StartInOrder ==
  ASSUME TypeInv, TypeInv', NEW h \in Handlers, Start(h), NEW g \in Handlers
  PROVE  Moves(g)
<1>1. /\ running[h] = Null /\ queue[h] # <<>>
      /\ running' = [running EXCEPT ![h] = Head(queue[h])]
      /\ queue' = [queue EXCEPT ![h] = Tail(@)]
      /\ content' = content /\ decoder' = decoder /\ inbox' = inbox
  BY DEF Start, Pool!Start, buffers, network
<1>2. queue \in [Handlers -> Seq(Submitted)] /\ running \in [Handlers -> Submitted \cup {Null}]
  BY DEF TypeInv, PoolTypes
<1>3. Unprocessed(g)' = Unprocessed(g)
  <2>1. CASE g # h
    <3>1. queue'[g] = queue[g] /\ running'[g] = running[g]
      BY <1>1, <1>2, <2>1
    <3> QED
      BY <1>1, <3>1, NotMine
  <2>2. CASE g = h
    <3>1. queue'[g] = Tail(queue[g]) /\ running'[g] = Head(queue[g])
      BY <1>1, <1>2, <2>2
    <3>2. Between(content, Head(queue[g]), Tail(queue[g]), inbox[g])
            = Between(content, Null, queue[g], inbox[g])
      BY <1>1, <2>2, PartTypes, StartTakes
    <3> QED
      BY <1>1, <2>2, <3>1, <3>2, BetweenIs
  <2> QED
    BY <2>1, <2>2
<1> QED
  BY <1>1, <1>3 DEF Moves, Stays

\* The buffer of the task that h runs is nowhere else.
LEMMA OnlyRunning ==
  ASSUME TypeInv, BuffersExclusive, NEW h \in Handlers, NEW b \in Buffers, running[h] = ReadTask(b)
  PROVE  /\ \A g \in Handlers : g # h => ~ Placed(g, ReadTask(b))
         /\ \A k \in 1..Len(queue[h]) : queue[h][k] # ReadTask(b)
<1>1. \A g \in Handlers : Len(queue[g]) \in Nat
  BY DEF TypeInv, PoolTypes
<1>2. 0 \in 0..Len(queue[h]) /\ TaskAt(h, 0) = ReadTask(b)
  BY <1>1 DEF TaskAt
<1>3. ASSUME NEW g \in Handlers, NEW k \in 0..Len(queue[g]), TaskAt(g, k) = ReadTask(b)
      PROVE  g = h /\ k = 0
  BY <1>2, <1>3, BuffersSplit DEF OwnPlaces
<1>4. ASSUME NEW k \in 1..Len(queue[h]), queue[h][k] = ReadTask(b)
      PROVE  FALSE
  <2>1. k \in 0..Len(queue[h]) /\ k # 0
    BY <1>1
  <2>2. TaskAt(h, k) = ReadTask(b)
    BY <1>4, <2>1 DEF TaskAt
  <2> QED
    BY <1>3, <2>1, <2>2
<1> QED
  BY <1>3, <1>4 DEF Placed

\* What changes in the buffer of the task that h runs is nothing to the chunks
\* that wait.
LEMMA ChunksWait ==
  ASSUME TypeInv, TypeInv', BuffersExclusive, NEW h \in Handlers, NEW b \in Buffers,
         running[h] = ReadTask(b), \A a \in Buffers : a # b => content'[a] = content[a]
  PROVE  /\ Chunks(content', queue[h]) = Chunks(content, queue[h])
         /\ \A g \in Handlers : g # h =>
              \A a \in Buffers : content'[a] = content[a] \/ ~ Placed(g, ReadTask(a))
<1>1. /\ content \in Contents /\ queue[h] \in Seq(Submitted) /\ content' \in Contents
      /\ Null \in Submitted \cup {Null}
  BY PartTypes DEF TypeInv, BufferTypes, Contents
<1>2. \A k \in 1..Len(queue[h]) : queue[h][k] # ReadTask(b)
  BY OnlyRunning
<1>3. \A a \in Buffers : \/ content'[a] = content[a]
                         \/ /\ Null # ReadTask(a)
                            /\ \A k \in 1..Len(queue[h]) : queue[h][k] # ReadTask(a)
  BY <1>2, ReadTasks
<1>4. Chunks(content', queue[h]) = Chunks(content, queue[h])
  BY <1>1, <1>3, OtherContents
<1> QED
  BY <1>4, OnlyRunning

LEMMA NextPieceInOrder ==
  ASSUME TypeInv, TypeInv', BuffersExclusive, NEW h \in Handlers, NextPiece(h), NEW g \in Handlers
  PROVE  Moves(g)
<1>1. PICK b \in Buffers : b = Buffer(h) /\ running[h] = ReadTask(b)
  BY DecodingBuffer DEF NextPiece, TypeInv
<1>2. /\ content[b] # <<>> /\ content' = [content EXCEPT ![b] = Tail(@)]
      /\ pc[h] = "read"
      /\ UNCHANGED <<queue, running, inbox>>
  BY <1>1 DEF NextPiece, pool, network
<1>3. /\ content \in [Buffers -> Seq(Piece)] /\ decoder \in [Handlers -> Seq(Piece)]
      /\ DOMAIN frame = Handlers
  BY DEF TypeInv, BufferTypes, BrokerInv, BrokerTypeOK
<1>4. content'[b] = Tail(content[b]) /\ \A a \in Buffers : a # b => content'[a] = content[a]
  BY <1>2, <1>3
<1> DEFINE e == Head(content[b])
<1>5. /\ e \in Piece /\ Last(Append(decoder[h], e)) = e
      /\ \/ /\ e.last
            /\ decoder' = [decoder EXCEPT ![h] = <<>>]
            /\ \E f \in Reads(Append(decoder[h], e)) : frame' = [frame EXCEPT ![h] = f]
         \/ /\ ~ e.last
            /\ decoder' = [decoder EXCEPT ![h] = Append(decoder[h], e)]
            /\ pc' = pc
  <2>1. e \in Piece /\ Last(Append(decoder[h], e)) = e
    BY <1>1, NextText DEF TypeInv
  <2> HIDE DEF e
  <2>2. e = Head(content[Buffer(h)])
    BY <1>1 DEF e
  <2> QED
    BY <2>1, <2>2 DEF NextPiece
<1> HIDE DEF e
<1>6. CASE g # h
  <2>1. Unprocessed(g)' = Unprocessed(g)
    BY <1>1, <1>2, <1>4, <1>6, ChunksWait, NotMine
  <2>2. decoder'[g] = decoder[g]
    BY <1>3, <1>5, <1>6
  <2> QED
    BY <2>1, <2>2 DEF Moves, Stays
<1>7. CASE g = h
  <2>1. /\ content \in Contents /\ running[h] \in Submitted \cup {Null}
        /\ queue[h] \in Seq(Submitted) /\ inbox[h] \in Seq(Piece)
        /\ content' \in Contents
    BY PartTypes DEF TypeInv, BufferTypes, Contents
  <2>2. PiecesIn(content, running[h]) = content[b] /\ PiecesIn(content', running[h]) = content'[b]
    BY <1>1, <2>1, PiecesInIs
  <2>3. Chunks(content', queue[h]) = Chunks(content, queue[h])
    BY <1>1, <1>4, ChunksWait
  <2>4. /\ Between(content, running[h], queue[h], inbox[h]) # <<>>
        /\ Between(content', running[h], queue[h], inbox[h])
             = Tail(Between(content, running[h], queue[h], inbox[h]))
        /\ Head(Between(content, running[h], queue[h], inbox[h])) = e
    <3>1. /\ PiecesIn(content, running[h]) # <<>>
          /\ PiecesIn(content', running[h]) = Tail(PiecesIn(content, running[h]))
      BY <1>2, <1>4, <2>2
    <3>2. /\ Between(content, running[h], queue[h], inbox[h]) # <<>>
          /\ Between(content', running[h], queue[h], inbox[h])
               = Tail(Between(content, running[h], queue[h], inbox[h]))
          /\ Head(Between(content, running[h], queue[h], inbox[h]))
               = Head(PiecesIn(content, running[h]))
      BY <2>1, <2>3, <3>1, NextTakes
    <3> QED
      BY <2>2, <3>2 DEF e
  <2>5. /\ Unprocessed(h) # <<>> /\ Unprocessed(h)' = Tail(Unprocessed(h))
        /\ Head(Unprocessed(h)) = e
    BY <1>2, <2>4, BetweenIs
  <2>6. IF e.last THEN decoder'[h] = <<>> /\ frame'[h] \in Reads(Append(decoder[h], e))
                  ELSE decoder'[h] = Append(decoder[h], e) /\ pc'[h] = "read"
    BY <1>2, <1>3, <1>5
  <2>7. Takes(h)
    BY <1>2, <2>5, <2>6 DEF Takes
  <2> QED
    BY <1>7, <2>7 DEF Moves
<1> QED
  BY <1>6, <1>7

LEMMA TaskEndsInOrder ==
  ASSUME TypeInv, TypeInv', BuffersExclusive, NEW h \in Handlers, TaskEnds(h), NEW g \in Handlers
  PROVE  Moves(g)
<1>1. PICK b \in Buffers : b = Buffer(h) /\ running[h] = ReadTask(b)
  BY DecodingBuffer DEF TaskEnds, TypeInv
<1>2. /\ content' = [content EXCEPT ![b] = <<>>]
      /\ content[b] = <<>> \/ (pc[h] = "process" /\ Throws(h))
      /\ running' = [running EXCEPT ![h] = Null]
      /\ UNCHANGED <<queue, inbox, decoder>>
  BY <1>1 DEF TaskEnds, Pool!Finish, network
<1>3. content \in [Buffers -> Seq(Piece)] /\ running \in [Handlers -> Submitted \cup {Null}]
  BY DEF TypeInv, BufferTypes, PoolTypes
<1>4. \A a \in Buffers : a # b => content'[a] = content[a]
  BY <1>2, <1>3
<1>5. CASE g # h
  <2>1. running'[g] = running[g]
    BY <1>2, <1>3, <1>5
  <2>2. Unprocessed(g)' = Unprocessed(g)
    BY <1>1, <1>2, <1>4, <1>5, <2>1, ChunksWait, NotMine
  <2> QED
    BY <1>2, <2>2 DEF Moves, Stays
<1>6. CASE g = h
  <2>1. /\ content \in Contents /\ running[h] \in Submitted \cup {Null}
        /\ queue[h] \in Seq(Submitted) /\ inbox[h] \in Seq(Piece)
        /\ content' \in Contents
    BY PartTypes DEF TypeInv, BufferTypes, Contents
  <2>2. PiecesIn(content, running[h]) = content[b] /\ running'[h] = Null
    BY <1>1, <1>2, <1>3, <2>1, PiecesInIs
  <2>3. Chunks(content', queue[h]) = Chunks(content, queue[h])
    BY <1>1, <1>4, ChunksWait
  <2>4. /\ Between(content, running[h], queue[h], inbox[h])
             = content[b] \o Between(content', Null, queue[h], inbox[h])
        /\ content[b] = <<>> => Between(content', Null, queue[h], inbox[h])
                                  = Between(content, running[h], queue[h], inbox[h])
    <3>1. /\ Between(content, running[h], queue[h], inbox[h])
               = PiecesIn(content, running[h]) \o Between(content', Null, queue[h], inbox[h])
          /\ PiecesIn(content, running[h]) = <<>> =>
               Between(content', Null, queue[h], inbox[h])
                 = Between(content, running[h], queue[h], inbox[h])
      BY <2>1, <2>3, EndLeaves
    <3> QED
      BY <2>2, <3>1
  <2>5. /\ Unprocessed(h) = Between(content, running[h], queue[h], inbox[h])
        /\ Unprocessed(h)' = Between(content', Null, queue[h], inbox[h])
    BY <1>2, <2>2, BetweenIs
  <2>6. CASE content[b] = <<>>
    BY <1>2, <1>6, <2>4, <2>5, <2>6 DEF Moves, Stays
  <2>7. CASE pc[h] = "process" /\ Throws(h)
    BY <1>2, <1>3, <1>6, <2>4, <2>5, <2>7 DEF Moves, Wastes
  <2> QED
    BY <1>2, <2>6, <2>7
<1> QED
  BY <1>5, <1>6

LEMMA AddAgainInOrder ==
  ASSUME TypeInv, TypeInv', NEW h \in Handlers, AddAgain(h), NEW g \in Handlers
  PROVE  Moves(g)
<1>1. /\ running[h] = StartTask /\ running' = [running EXCEPT ![h] = Null]
      /\ running \in [Handlers -> Submitted \cup {Null}]
      /\ UNCHANGED <<queue, content, decoder, inbox>>
  BY DEF AddAgain, Pool!Finish, buffers, network, TypeInv, PoolTypes
<1>2. Unprocessed(g)' = Unprocessed(g)
  <2>1. CASE g # h
    <3>1. running'[g] = running[g]
      BY <1>1, <2>1
    <3> QED
      BY <1>1, <3>1, NotMine
  <2>2. CASE g = h
    <3>1. PiecesIn(content, running[g]) = PiecesIn(content, running'[g])
      BY <1>1, <2>2 DEF PiecesIn
    <3> QED
      BY <1>1, <3>1, BetweenIs DEF Between
  <2> QED
    BY <2>1, <2>2
<1> QED
  BY <1>1, <1>2 DEF Moves, Stays

LEMMA ClientInOrder ==
  ASSUME TypeInv, TypeInv', NEW h \in Handlers, ClientStep(h), NEW g \in Handlers
  PROVE  Moves(g)
<1>1. UNCHANGED <<pool, content, decoder>>
  BY DEF ClientStep, Connect, ClientDrop, ClientSend, buffers
<1>2. ASSUME inbox'[g] = inbox[g]
      PROVE  Moves(g)
  BY <1>1, <1>2, StaysThere
<1>3. /\ content \in Contents /\ running[g] \in Submitted \cup {Null}
      /\ queue[g] \in Seq(Submitted) /\ inbox[g] \in Seq(Piece)
      /\ inbox \in [Handlers -> Seq(Piece)] /\ DOMAIN client = Handlers
  BY PartTypes DEF TypeInv, ClientTypes
<1>4. CASE Connect(h)
  BY <1>2, <1>4 DEF Connect
<1>5. ASSUME NEW f \in Frames, ClientSend(h, f)
      PROVE  Moves(g)
  <2>1. inbox' = [inbox EXCEPT ![h] = @ \o Pieces(f)] /\ client[h] = "up"
    BY <1>5 DEF ClientSend
  <2>2. CASE g # h
    BY <1>2, <1>3, <2>1, <2>2
  <2>3. CASE g = h
    <3>1. inbox'[g] = inbox[g] \o Pieces(f)
      BY <1>3, <2>1, <2>3
    <3>2. Between(content, running[g], queue[g], inbox[g] \o Pieces(f))
            = Between(content, running[g], queue[g], inbox[g]) \o Pieces(f)
      BY <1>3, PiecesTypes, SendAppends
    <3>3. Unprocessed(g)' = Unprocessed(g) \o Pieces(f)
      BY <1>1, <3>1, <3>2, BetweenIs DEF pool
    <3> QED
      BY <1>1, <2>1, <2>3, <3>3 DEF Moves, Sends
  <2> QED
    BY <2>2, <2>3
<1>6. CASE ClientDrop(h)
  <2>1. client[h] = "up" /\ client' = [client EXCEPT ![h] = "gone"]
    BY <1>6 DEF ClientDrop
  <2>2. PICK n \in 0..Len(inbox[h]) : inbox' = [inbox EXCEPT ![h] = SubSeq(@, 1, n)]
    BY <1>6 DEF ClientDrop
  <2>3. CASE g # h
    BY <1>2, <1>3, <2>2, <2>3
  <2>4. CASE g = h
    <3>1. inbox'[g] = SubSeq(inbox[g], 1, n) /\ client'[g] = "gone" /\ n \in 0..Len(inbox[g])
      BY <1>3, <2>1, <2>2, <2>4
    <3>2. \E z \in Seq(Piece) :
            Between(content, running[g], queue[g], inbox[g])
              = Between(content, running[g], queue[g], SubSeq(inbox[g], 1, n)) \o z
      BY <1>3, <3>1, DropLeaves
    <3>3. \E z \in Seq(Piece) : Unprocessed(g) = Unprocessed(g)' \o z
      BY <1>1, <3>1, <3>2, BetweenIs DEF pool
    <3> QED
      BY <1>1, <2>1, <2>4, <3>1, <3>3 DEF Moves, Loses
  <2> QED
    BY <2>3, <2>4
<1> QED
  BY <1>4, <1>5, <1>6 DEF ClientStep

LEMMA RegisterInOrder ==
  ASSUME TypeInv, TypeInv', NEW h \in Handlers, RegisterKey(h), NEW g \in Handlers
  PROVE  Moves(g)
<1>1. CASE closed[h]
  <2>1. down'
    BY <1>1 DEF RegisterKey, Pool!Shutdown
  <2> QED
    BY <2>1 DEF Moves
<1>2. CASE ~ closed[h]
  <2>1. UNCHANGED <<pool, content, decoder, inbox>>
    BY <1>2 DEF RegisterKey, buffers, network
  <2> QED
    BY <2>1, StaysThere
<1> QED
  BY <1>1, <1>2

LEMMA NextInOrder ==
  ASSUME TypeInv, TypeInv', BuffersExclusive, Next, NEW g \in Handlers
  PROVE  Moves(g)
<1>1. ASSUME UNCHANGED <<pool, buffers, inbox>>
      PROVE  Moves(g)
  BY <1>1, StaysThere DEF buffers
<1>2. ASSUME NEW h \in Handlers,
             \/ Accept(h) \/ Read(h) \/ RegisterKey(h) \/ Start(h) \/ AddAgain(h)
             \/ NextPiece(h) \/ TaskEnds(h) \/ ClientStep(h)
      PROVE  Moves(g)
  BY <1>2, AcceptInOrder, ReadInOrder, RegisterInOrder, StartInOrder, AddAgainInOrder,
     NextPieceInOrder, TaskEndsInOrder, ClientInOrder
<1>3. ASSUME NEW h \in Handlers, NextKey(h) \/ WriteHead(h) \/ BeginProtocol(h) \/ Watch(h)
      PROVE  UNCHANGED <<pool, buffers, inbox>>
  BY <1>3 DEF NextKey, WriteHead, BeginProtocol, Watch, network
<1>4. ASSUME NEW h \in Handlers,
             Process(h) \/ Deliver(h) \/ SendReceipt(h) \/ Reply(h) \/ Close(h)
      PROVE  UNCHANGED <<pool, buffers, inbox>>
  BY <1>4 DEF Process, Deliver, SendReceipt, Reply, Close, WorkerRest, network
<1>5. ASSUME \/ Wait \/ RunTask \/ NoMoreTasks \/ EndOfRound \/ Add \/ IsReadable
             \/ IsValid \/ IsWritable \/ NothingToWrite \/ Drained \/ Unwatch
      PROVE  UNCHANGED <<pool, buffers, inbox>>
  BY <1>5 DEF Wait, RunTask, NoMoreTasks, EndOfRound, Add, IsReadable, IsValid,
              IsWritable, NothingToWrite, Drained, Unwatch, network
<1> QED
  BY <1>1, <1>2, <1>3, <1>4, <1>5 DEF Next, SelectorStep, TaskStep

-----------------------------------------------------------------------------
(* FramesInOrder: the bytes of a client are frames, but for a torn one *)

\* The pieces of frames, one after the other; the first may be torn.
Alternates(s) ==
  \A k \in 1..Len(s) - 1 :
    IF s[k].last THEN ~ s[k + 1].last ELSE s[k + 1] = End(s[k].frame)

\* A frame is complete when no more comes.
Complete(s) == s # <<>> => Last(s).last

StreamOf(h) ==
  /\ Alternates(Stream(h))
  /\ client[h] # "gone" => Complete(Stream(h))
  /\ \A k \in 1..Len(decoder[h]) : ~ decoder[h][k].last
  /\ decoder[h] # <<>> => pc[h] = "read"

StreamInv == ~ down => \A h \in Handlers : StreamOf(h)

LEMMA SendAlternates ==
  ASSUME NEW s \in Seq(Piece), Alternates(s), Complete(s), NEW f \in Frames
  PROVE  /\ Alternates(s \o Pieces(f)) /\ Complete(s \o Pieces(f))
         /\ (s \o Pieces(f))[1] = IF s = <<>> THEN Begin(f) ELSE s[1]
<1> DEFINE t == s \o Pieces(f)
<1>1. Pieces(f) \in Seq(Piece) /\ Len(Pieces(f)) = 2
      /\ Pieces(f)[1] = Begin(f) /\ Pieces(f)[2] = End(f)
  BY PiecesTypes DEF Pieces
<1>2. /\ t \in Seq(Piece) /\ Len(t) = Len(s) + 2 /\ Len(s) \in Nat
      /\ \A i \in 1..Len(s) : t[i] = s[i]
      /\ t[Len(s) + 1] = Begin(f) /\ t[Len(s) + 2] = End(f)
  <2> DEFINE p == Pieces(f)
  <2>1. p \in Seq(Piece) /\ Len(p) = 2 /\ p[1] = Begin(f) /\ p[2] = End(f)
    BY <1>1
  <2> HIDE DEF p
  <2>2. /\ s \o p \in Seq(Piece) /\ Len(s \o p) = Len(s) + Len(p)
        /\ \A i \in 1..Len(s) + Len(p) :
             (s \o p)[i] = IF i <= Len(s) THEN s[i] ELSE p[i - Len(s)]
    BY <2>1, ConcatProperties
  <2>3. Len(s) \in Nat
    OBVIOUS
  <2>4. (Len(s) + 1) - Len(s) = 1 /\ (Len(s) + 2) - Len(s) = 2
    BY <2>3
  <2> QED
    BY <2>1, <2>2, <2>3, <2>4 DEF p
<1>3. ~ Begin(f).last /\ End(f).last /\ Begin(f).frame = f
  BY DEF Begin, End
<1> HIDE DEF t
<1>4. Complete(t)
  BY <1>2, <1>3 DEF Complete, Last
<1>5. ASSUME NEW k \in 1..Len(t) - 1
      PROVE  IF t[k].last THEN ~ t[k + 1].last ELSE t[k + 1] = End(t[k].frame)
  <2>1. CASE k < Len(s)
    <3>1. k \in 1..Len(s) - 1 /\ t[k] = s[k] /\ t[k + 1] = s[k + 1]
      BY <1>2, <2>1
    <3> QED
      BY <3>1 DEF Alternates
  <2>2. CASE k = Len(s)
    <3>1. s # <<>> /\ t[k] = s[k] /\ t[k + 1] = Begin(f)
      BY <1>2, <2>2
    <3>2. s[k].last
      BY <2>2, <3>1 DEF Complete, Last
    <3> QED
      BY <1>3, <3>1, <3>2
  <2>3. CASE k = Len(s) + 1
    <3>1. t[k] = Begin(f) /\ t[k + 1] = End(f)
      BY <1>2, <2>3
    <3> QED
      BY <1>3, <3>1
  <2> QED
    BY <1>2, <2>1, <2>2, <2>3
<1>6. t[1] = IF s = <<>> THEN Begin(f) ELSE s[1]
  BY <1>2
<1> QED
  BY <1>4, <1>5, <1>6 DEF t, Alternates

LEMMA PartsAlternate ==
  ASSUME NEW a \in Seq(Piece), NEW b \in Seq(Piece), Alternates(a \o b)
  PROVE  /\ Alternates(a) /\ Alternates(b)
         /\ Complete(a \o b) => Complete(b)
         /\ a # <<>> => (a \o b)[1] = a[1]
<1> DEFINE d == a \o b
<1>1. /\ Len(a) \in Nat /\ Len(b) \in Nat /\ Len(d) = Len(a) + Len(b)
      /\ \A i \in 1..Len(a) : d[i] = a[i]
      /\ \A i \in 1..Len(b) : d[Len(a) + i] = b[i]
  BY ConcatProperties
<1>2. Alternates(d)
  OBVIOUS
<1> HIDE DEF d
<1>3. ASSUME NEW k \in 1..Len(a) - 1
      PROVE  IF a[k].last THEN ~ a[k + 1].last ELSE a[k + 1] = End(a[k].frame)
  <2>1. k \in 1..Len(d) - 1 /\ d[k] = a[k] /\ d[k + 1] = a[k + 1]
    BY <1>1
  <2> QED
    BY <1>2, <2>1 DEF Alternates
<1>4. ASSUME NEW k \in 1..Len(b) - 1
      PROVE  IF b[k].last THEN ~ b[k + 1].last ELSE b[k + 1] = End(b[k].frame)
  <2>1. /\ Len(a) + k \in 1..Len(d) - 1 /\ d[Len(a) + k] = b[k]
        /\ d[(Len(a) + k) + 1] = b[k + 1]
    BY <1>1
  <2> QED
    BY <1>2, <2>1 DEF Alternates
<1>5. ASSUME Complete(d), b # <<>>
      PROVE  Last(b).last
  <2>1. d # <<>> /\ Last(d) = Last(b)
    BY <1>1, <1>5 DEF Last
  <2> QED
    BY <1>5, <2>1 DEF Complete
<1>6. a # <<>> => d[1] = a[1]
  BY <1>1
<1> QED
  BY <1>3, <1>4, <1>5, <1>6 DEF d, Alternates, Complete

\* A whole frame is the first two pieces, or one that is torn the first.
LEMMA FirstFrame ==
  ASSUME NEW d \in Seq(Piece), NEW u \in Seq(Piece), u # <<>>, Alternates(d \o u),
         \A k \in 1..Len(d) : ~ d[k].last
  PROVE  IF Head(u).last
         THEN \/ \E f \in Frames : /\ Head(u).frame = f /\ Append(d, Head(u)) = Pieces(f)
                                   /\ d \o u = Pieces(f) \o Tail(u)
              \/ d = <<>>
         ELSE /\ Append(d, Head(u)) \o Tail(u) = d \o u
              /\ \A k \in 1..Len(Append(d, Head(u))) : ~ Append(d, Head(u))[k].last
<1> DEFINE e == Head(u)
           t == Tail(u)
           c == Append(d, e)
           s == d \o u
<1>1. e \in Piece /\ t \in Seq(Piece) /\ u = <<e>> \o t
  BY HeadTailProperties, ConcatProperties
<1>2. c \in Seq(Piece) /\ c = d \o <<e>> /\ Len(c) = Len(d) + 1 /\ Len(d) \in Nat
      /\ c[Len(d) + 1] = e /\ \A i \in 1..Len(d) : c[i] = d[i]
  BY <1>1, AppendIsConcat
<1>3. c \o t = s
  <2>1. <<e>> \in Seq(Piece)
    BY <1>1
  <2>2. (d \o <<e>>) \o t = d \o (<<e>> \o t)
    BY <1>1, <2>1, ConcatAssociative
  <2> QED
    BY <1>1, <1>2, <2>2
<1>4. Alternates(c)
  BY <1>1, <1>2, <1>3, PartsAlternate
<1>5. \A k \in 1..Len(d) : ~ d[k].last
  OBVIOUS
<1> HIDE DEF c, s, e, t
<1>6. CASE ~ e.last
  <2>1. \A k \in 1..Len(c) : ~ c[k].last
    BY <1>2, <1>5, <1>6
  <2> QED
    BY <1>3, <1>6, <2>1 DEF e, t, c, s
<1>7. CASE e.last /\ d # <<>>
  <2>1. Len(d) = 1
    <3>1. SUFFICES ASSUME Len(d) # 1 PROVE FALSE
      OBVIOUS
    <3>2. Len(d) > 1
      BY <1>2, <1>7, <3>1
    <3>3. 1 \in 1..Len(c) - 1 /\ c[1] = d[1] /\ c[1 + 1] = d[2] /\ 1 \in 1..Len(d) /\ 2 \in 1..Len(d)
      BY <1>2, <3>2
    <3>4. c[1 + 1] = End(c[1].frame)
      BY <1>4, <1>5, <3>3 DEF Alternates
    <3>5. d[2] = End(c[1].frame)
      BY <3>3, <3>4
    <3>6. ~ d[2].last
      BY <1>5, <3>3
    <3> QED
      BY <3>5, <3>6 DEF End
  <2>2. 1 \in 1..Len(c) - 1 /\ c[1] = d[1] /\ c[1 + 1] = e /\ ~ d[1].last /\ Len(c) = 2
    BY <1>2, <1>5, <2>1
  <2>3. e = End(d[1].frame)
    BY <1>4, <2>2 DEF Alternates
  <2>4. d[1] \in Piece /\ d[1].frame \in Frames /\ d[1] = Begin(d[1].frame)
    <3>1. d[1] \in Piece
      BY <2>1
    <3> QED
      BY <2>2, <3>1, PieceIs
  <2>5. c = Pieces(d[1].frame)
    <3> DEFINE p == Pieces(d[1].frame)
    <3>1. p \in Seq(Piece) /\ Len(p) = 2 /\ p[1] = d[1] /\ p[2] = e
      BY <2>3, <2>4, PiecesTypes DEF Pieces
    <3> HIDE DEF p
    <3>2. Len(c) = Len(p) /\ \A i \in 1..Len(c) : c[i] = p[i]
      BY <2>2, <3>1
    <3>3. c = p
      BY <1>2, <3>1, <3>2, SeqEqual
    <3> QED
      BY <3>3 DEF p
  <2>6. e.frame = d[1].frame
    BY <2>3 DEF End
  <2> QED
    BY <1>3, <1>7, <2>4, <2>5, <2>6 DEF e, t, c, s
<1>8. CASE e.last /\ d = <<>>
  BY <1>8 DEF e
<1> QED
  BY <1>6, <1>7, <1>8

\* A text is begun only while its next piece is waited for.
LEMMA TextKept ==
  ASSUME TypeInv, Next, NEW g \in Handlers, decoder[g] # <<>> => pc[g] = "read"
  PROVE  decoder'[g] # <<>> => pc'[g] = "read"
<1> USE DEF TypeInv
<1>1. pc \in [Handlers -> Step] /\ DOMAIN pc = Handlers /\ DOMAIN decoder = Handlers
  BY DEF BrokerInv, BrokerTypeOK, BufferTypes
<1>2. ASSUME UNCHANGED <<decoder, pc>>
      PROVE  decoder'[g] # <<>> => pc'[g] = "read"
  BY <1>2
<1>3. ASSUME NEW h \in Handlers, UNCHANGED decoder, pc[h] # "read",
             \A k \in Handlers \ {h} : pc'[k] = pc[k]
      PROVE  decoder'[g] # <<>> => pc'[g] = "read"
  BY <1>3
<1>4. ASSUME NEW h \in Handlers, Accept(h) \/ TaskEnds(h)
      PROVE  decoder'[g] # <<>> => pc'[g] = "read"
  <2>1. UNCHANGED decoder /\ pc' = [pc EXCEPT ![h] = "read"]
    BY <1>4 DEF Accept, TaskEnds, Goto, buffers
  <2> QED
    BY <1>1, <2>1
<1>5. ASSUME NEW h \in Handlers, NextPiece(h)
      PROVE  decoder'[g] # <<>> => pc'[g] = "read"
  <2>1. pc[h] = "read"
    BY <1>5 DEF NextPiece
  <2>2. \/ decoder' = [decoder EXCEPT ![h] = <<>>] /\ pc' = [pc EXCEPT ![h] = "process"]
        \/ /\ decoder' = [decoder EXCEPT ![h] = Append(decoder[h], Head(content[Buffer(h)]))]
           /\ pc' = pc
    BY <1>5 DEF NextPiece, Goto
  <2>3. CASE g = h
    BY <1>1, <2>1, <2>2, <2>3
  <2>4. CASE g # h
    <3>1. decoder'[g] = decoder[g] /\ pc'[g] = pc[g]
      BY <1>1, <2>2, <2>4
    <3> QED
      BY <3>1
  <2> QED
    BY <2>3, <2>4
<1>6. ASSUME NEW h \in Handlers, Process(h)
      PROVE  UNCHANGED decoder /\ pc[h] # "read" /\ \A k \in Handlers \ {h} : pc'[k] = pc[k]
  <2>1. UNCHANGED decoder
    BY <1>6 DEF Process, WorkerRest, buffers
  <2>2. pc[h] # "read"
    BY <1>6 DEF Process, Silent, Refuse, Register, Login, Subscribe, Unsubscribe,
                Snapshot, Visit, EndOfSend, Farewell, Logout, Clean, Handles
  <2>3. \E l : pc' = [pc EXCEPT ![h] = l]
    <3>1. CASE Refuse(h) \/ Register(h) \/ Login(h)
      BY <3>1 DEF Refuse, Register, Login, Answer, Goto
    <3>2. CASE Subscribe(h) \/ Unsubscribe(h) \/ EndOfSend(h)
      BY <3>2 DEF Subscribe, Unsubscribe, EndOfSend, Answer, Goto
    <3>3. CASE Snapshot(h) \/ Visit(h) \/ Farewell(h) \/ Logout(h)
      BY <3>3 DEF Snapshot, Visit, Farewell, Logout, Goto
    <3>4. CASE \E ch \in Channels : Clean(h, ch)
      <4>1. pc' = [pc EXCEPT ![h] = pc[h]]
        BY <1>1, <3>4 DEF Clean
      <4> QED
        BY <4>1
    <3> QED
      BY <1>6, <3>1, <3>2, <3>3, <3>4 DEF Process, Silent
  <2> QED
    BY <1>1, <2>1, <2>2, <2>3
<1>7. ASSUME NEW h \in Handlers, Deliver(h) \/ SendReceipt(h) \/ Close(h)
      PROVE  UNCHANGED decoder /\ pc[h] # "read" /\ \A k \in Handlers \ {h} : pc'[k] = pc[k]
  <2>1. UNCHANGED decoder /\ pc[h] # "read"
    BY <1>7 DEF Deliver, SendReceipt, Close, Delivered, Receipted, Unregister, WorkerRest,
                buffers
  <2>2. \E l : pc' = [pc EXCEPT ![h] = l]
    BY <1>7 DEF Deliver, SendReceipt, Close, Delivered, Receipted, Unregister, Answer, Goto
  <2> QED
    BY <1>1, <2>1, <2>2
<1>8. ASSUME NEW h \in Handlers, Reply(h)
      PROVE  UNCHANGED decoder /\ pc[h] # "read" /\ \A k \in Handlers \ {h} : pc'[k] = pc[k]
  <2>1. UNCHANGED decoder /\ pc[h] # "read" /\ pc' = [pc EXCEPT ![h] = "read"]
    BY <1>8 DEF Reply, WorkerRest, buffers, Goto
  <2> QED
    BY <1>1, <2>1
<1>9. ASSUME NEW h \in Handlers,
             \/ NextKey(h) \/ RegisterKey(h) \/ Read(h) \/ WriteHead(h) \/ Start(h)
             \/ BeginProtocol(h) \/ AddAgain(h) \/ Watch(h) \/ ClientStep(h)
      PROVE  UNCHANGED <<decoder, pc>>
  BY <1>9 DEF NextKey, RegisterKey, Read, WriteHead, Start, BeginProtocol, AddAgain, Watch,
              ClientStep, Connect, ClientDrop, ClientSend, brokerVars, buffers
<1>10. ASSUME \/ Wait \/ RunTask \/ NoMoreTasks \/ EndOfRound \/ Add \/ IsReadable
              \/ IsValid \/ IsWritable \/ NothingToWrite \/ Drained \/ Unwatch
       PROVE  UNCHANGED <<decoder, pc>>
  BY <1>10 DEF Wait, RunTask, NoMoreTasks, EndOfRound, Add, IsReadable, IsValid,
               IsWritable, NothingToWrite, Drained, Unwatch, brokerVars, buffers
<1> QED
  BY <1>2, <1>3, <1>4, <1>5, <1>6, <1>7, <1>8, <1>9, <1>10
     DEF Next, SelectorStep, TaskStep

\* The pool does not come back, nor does a client that left.
LEMMA GoneStays ==
  ASSUME TypeInv, Next
  PROVE  /\ down => down'
         /\ \A h \in Handlers : client[h] = "gone" => client'[h] = "gone"
<1>1. client \in [Handlers -> {"away", "waiting", "up", "gone"}]
  BY DEF TypeInv, ClientTypes
<1>2. ASSUME NEW h \in Handlers, Accept(h)
      PROVE  UNCHANGED down /\ \A g \in Handlers : client[g] = "gone" => client'[g] = "gone"
  BY <1>1, <1>2 DEF Accept, Pool!Submit
<1>3. ASSUME NEW h \in Handlers, ClientStep(h)
      PROVE  UNCHANGED down /\ \A g \in Handlers : client[g] = "gone" => client'[g] = "gone"
  BY <1>1, <1>3 DEF ClientStep, Connect, ClientDrop, ClientSend, pool
<1>4. ASSUME NEW h \in Handlers, Read(h) \/ Start(h) \/ AddAgain(h) \/ TaskEnds(h)
      PROVE  UNCHANGED <<down, client>>
  BY <1>4 DEF Read, Start, AddAgain, TaskEnds, Pool!Submit, Pool!Start, Pool!Finish, pool,
              network
<1>5. ASSUME NEW h \in Handlers, RegisterKey(h)
      PROVE  (down => down') /\ UNCHANGED client
  BY <1>5 DEF RegisterKey, Pool!Shutdown, pool, network
<1>6. ASSUME NEW h \in Handlers,
             \/ NextKey(h) \/ WriteHead(h) \/ BeginProtocol(h) \/ NextPiece(h) \/ Watch(h)
      PROVE  UNCHANGED <<down, client>>
  BY <1>6 DEF NextKey, WriteHead, BeginProtocol, NextPiece, Watch, pool, network
<1>7. ASSUME NEW h \in Handlers,
             Process(h) \/ Deliver(h) \/ SendReceipt(h) \/ Reply(h) \/ Close(h)
      PROVE  UNCHANGED <<down, client>>
  BY <1>7 DEF Process, Deliver, SendReceipt, Reply, Close, WorkerRest, pool, network
<1>8. ASSUME \/ Wait \/ RunTask \/ NoMoreTasks \/ EndOfRound \/ Add \/ IsReadable
             \/ IsValid \/ IsWritable \/ NothingToWrite \/ Drained \/ Unwatch
      PROVE  UNCHANGED <<down, client>>
  BY <1>8 DEF Wait, RunTask, NoMoreTasks, EndOfRound, Add, IsReadable, IsValid,
              IsWritable, NothingToWrite, Drained, Unwatch, pool, network
<1> QED
  BY <1>2, <1>3, <1>4, <1>5, <1>6, <1>7, <1>8 DEF Next, SelectorStep, TaskStep

LEMMA StreamTypes ==
  ASSUME TypeInv, TypeInv', NEW h \in Handlers
  PROVE  /\ decoder[h] \in Seq(Piece) /\ decoder'[h] \in Seq(Piece)
         /\ Unprocessed(h) \in Seq(Piece) /\ Unprocessed(h)' \in Seq(Piece)
         /\ Stream(h) = decoder[h] \o Unprocessed(h)
         /\ Stream(h)' = decoder'[h] \o Unprocessed(h)'
         /\ Stream(h) \in Seq(Piece) /\ Stream(h)' \in Seq(Piece)
<1>1. decoder[h] \in Seq(Piece) /\ decoder'[h] \in Seq(Piece)
  BY DEF TypeInv, BufferTypes
<1>2. Unprocessed(h) \in Seq(Piece)
  <2>1. Between(content, running[h], queue[h], inbox[h]) \in Seq(Piece)
    BY PartTypes, Parts
  <2> QED
    BY <2>1, BetweenIs
<1>3. /\ content' \in Contents /\ running'[h] \in Submitted \cup {Null}
      /\ queue'[h] \in Seq(Submitted) /\ inbox'[h] \in Seq(Piece)
  BY DEF TypeInv, PoolTypes, BufferTypes, ClientTypes, Contents
<1>4. Unprocessed(h)' \in Seq(Piece)
  <2>1. Between(content', running'[h], queue'[h], inbox'[h]) \in Seq(Piece)
    BY <1>3, Parts
  <2> QED
    BY <2>1, BetweenIs
<1>5. Stream(h) = decoder[h] \o Unprocessed(h) /\ Stream(h)' = decoder'[h] \o Unprocessed(h)'
  BY DEF Stream
<1> QED
  BY <1>1, <1>2, <1>4, <1>5, ConcatProperties

\* What a step does to the stream of h, as FramesInOrder has it.
Ordered(h) ==
  LET s == Stream(h)
      t == Stream(h)'
  IN  \/ t = s
      \/ \E f \in Frames : t = s \o Pieces(f)
      \/ \E f \in Frames : s = Pieces(f) \o t /\ frame'[h] = f
      \/ s # <<>> /\ Head(s).last /\ t = Tail(s) /\ frame'[h] \in Rest[Head(s).frame]
      \/ pc[h] = "process" /\ Throws(h) /\ IsSuffix(t, s)
      \/ client'[h] # client[h] /\ IsPrefix(t, s)

TornBy(h) == Torn(h)' => Torn(h) \/ (pc[h] = "process" /\ Throws(h))

StillStream(h) ==
  /\ Alternates(Stream(h)')
  /\ client'[h] # "gone" => Complete(Stream(h)')
  /\ \A k \in 1..Len(decoder'[h]) : ~ decoder'[h][k].last

LEMMA StaysStream ==
  ASSUME TypeInv, TypeInv', NEW h \in Handlers, StreamOf(h), Stays(h),
         client[h] = "gone" => client'[h] = "gone"
  PROVE  Ordered(h) /\ TornBy(h) /\ StillStream(h)
<1>1. Stream(h)' = Stream(h) /\ decoder'[h] = decoder[h]
  BY StreamTypes DEF Stays
<1> QED
  BY <1>1 DEF Ordered, TornBy, StillStream, StreamOf, Torn

LEMMA SendsStream ==
  ASSUME TypeInv, TypeInv', NEW h \in Handlers, StreamOf(h), Sends(h)
  PROVE  Ordered(h) /\ TornBy(h) /\ StillStream(h)
<1>1. PICK f \in Frames : Unprocessed(h)' = Unprocessed(h) \o Pieces(f)
  BY DEF Sends
<1> DEFINE s == Stream(h)
           t == Stream(h)'
           p == Pieces(f)
<1>2. /\ s \in Seq(Piece) /\ t \in Seq(Piece) /\ p \in Seq(Piece) /\ t = s \o p
      /\ decoder'[h] = decoder[h]
  <2>1. p \in Seq(Piece)
    BY PiecesTypes
  <2>2. \A x, y, z \in Seq(Piece) : (x \o y) \o z = x \o (y \o z)
    BY Associates, SMTT(60)
  <2>3. decoder[h] \in Seq(Piece) /\ Unprocessed(h) \in Seq(Piece)
    BY StreamTypes
  <2>4. (decoder[h] \o Unprocessed(h)) \o p = decoder[h] \o (Unprocessed(h) \o p)
    BY <2>1, <2>2, <2>3, Zenon
  <2> QED
    BY <1>1, <2>1, <2>4, StreamTypes DEF Sends
<1>3. /\ Alternates(s) /\ Complete(s) /\ client[h] = "up"
      /\ \A k \in 1..Len(decoder[h]) : ~ decoder[h][k].last
  BY DEF StreamOf, Sends
<1>4. Alternates(t) /\ Complete(t) /\ t[1] = IF s = <<>> THEN Begin(f) ELSE s[1]
  <2>1. \A x \in Seq(Piece) : Alternates(x) /\ Complete(x) =>
          /\ Alternates(x \o Pieces(f)) /\ Complete(x \o Pieces(f))
          /\ (x \o Pieces(f))[1] = IF x = <<>> THEN Begin(f) ELSE x[1]
    BY SendAlternates
  <2>2. Alternates(s \o p) /\ Complete(s \o p) /\ (s \o p)[1] = IF s = <<>> THEN Begin(f) ELSE s[1]
    BY <1>2, <1>3, <2>1, Zenon
  <2> QED
    BY <1>2, <2>2
<1>5. Ordered(h)
  BY <1>2 DEF Ordered
<1>6. TornBy(h)
  <2>1. Head(t) = t[1] /\ Head(s) = s[1] /\ ~ Begin(f).last
    BY DEF Begin
  <2> QED
    BY <1>4, <2>1 DEF TornBy, Torn
<1> QED
  BY <1>2, <1>3, <1>4, <1>5, <1>6 DEF StillStream

LEMMA LosesStream ==
  ASSUME TypeInv, TypeInv', NEW h \in Handlers, StreamOf(h), Loses(h)
  PROVE  Ordered(h) /\ TornBy(h) /\ StillStream(h)
<1>1. PICK z \in Seq(Piece) : Unprocessed(h) = Unprocessed(h)' \o z
  BY DEF Loses
<1> DEFINE s == Stream(h)
           t == Stream(h)'
<1>2. s \in Seq(Piece) /\ t \in Seq(Piece) /\ s = t \o z /\ decoder'[h] = decoder[h]
  <2>1. \A x, y, w \in Seq(Piece) : (x \o y) \o w = x \o (y \o w)
    BY Associates, SMTT(60)
  <2>2. decoder[h] \in Seq(Piece) /\ Unprocessed(h)' \in Seq(Piece)
    BY StreamTypes
  <2>3. (decoder[h] \o Unprocessed(h)') \o z = decoder[h] \o (Unprocessed(h)' \o z)
    BY <2>1, <2>2, Zenon
  <2> QED
    BY <1>1, <2>3, StreamTypes DEF Loses
<1>3. Alternates(s) /\ \A k \in 1..Len(decoder[h]) : ~ decoder[h][k].last
  BY DEF StreamOf
<1>4. Alternates(t) /\ (t # <<>> => s[1] = t[1])
  BY <1>2, <1>3, PartsAlternate
<1>5. IsPrefix(t, s) /\ (t # <<>> => s # <<>>)
  BY <1>2, ConcatFacts
<1>6. Ordered(h)
  BY <1>5 DEF Ordered, Loses
<1>7. TornBy(h)
  <2>1. Head(t) = t[1] /\ Head(s) = s[1]
    OBVIOUS
  <2> QED
    BY <1>4, <1>5, <2>1 DEF TornBy, Torn
<1> QED
  BY <1>2, <1>3, <1>4, <1>6, <1>7 DEF StillStream, Loses

LEMMA WastesStream ==
  ASSUME TypeInv, TypeInv', NEW h \in Handlers, StreamOf(h), Wastes(h),
         client[h] = "gone" => client'[h] = "gone"
  PROVE  Ordered(h) /\ TornBy(h) /\ StillStream(h)
<1>1. PICK z \in Seq(Piece) : Unprocessed(h) = z \o Unprocessed(h)'
  BY DEF Wastes
<1>2. decoder[h] = <<>> /\ decoder'[h] = <<>> /\ pc[h] = "process" /\ Throws(h)
  BY DEF Wastes, StreamOf
<1> DEFINE s == Stream(h)
           t == Stream(h)'
<1>3. s \in Seq(Piece) /\ t \in Seq(Piece) /\ s = z \o t
  <2>1. \A u \in Seq(Piece) : <<>> \o u = u
    OBVIOUS
  <2> QED
    BY <1>1, <1>2, <2>1, StreamTypes
<1>4. Alternates(s) /\ (client[h] # "gone" => Complete(s))
  BY DEF StreamOf
<1>5. Alternates(t) /\ (Complete(s) => Complete(t))
  BY <1>3, <1>4, PartsAlternate
<1>6. IsSuffix(t, s)
  BY <1>3, ConcatFacts
<1>7. Ordered(h) /\ TornBy(h)
  BY <1>2, <1>6 DEF Ordered, TornBy
<1> QED
  BY <1>2, <1>4, <1>5, <1>7 DEF StillStream

LEMMA TakesStream ==
  ASSUME TypeInv, TypeInv', NEW h \in Handlers, StreamOf(h), Takes(h),
         client[h] = "gone" => client'[h] = "gone"
  PROVE  Ordered(h) /\ TornBy(h) /\ StillStream(h)
<1> DEFINE s == Stream(h)
           t == Stream(h)'
           d == decoder[h]
           u == Unprocessed(h)
           e == Head(u)
<1>1. /\ d \in Seq(Piece) /\ u \in Seq(Piece) /\ u # <<>> /\ s = d \o u
      /\ s \in Seq(Piece) /\ t \in Seq(Piece) /\ t = decoder'[h] \o Tail(u)
  BY StreamTypes DEF Takes
<1>2. e \in Piece /\ Tail(u) \in Seq(Piece) /\ u = <<e>> \o Tail(u) /\ <<e>> \in Seq(Piece)
  <2>1. e \in Piece /\ Tail(u) \in Seq(Piece)
    BY <1>1, HeadTailProperties
  <2>2. u = <<e>> \o Tail(u)
    BY <1>1, HeadTailProperties, ConcatProperties
  <2> QED
    BY <2>1, <2>2
<1>3. /\ Alternates(s) /\ (client[h] # "gone" => Complete(s))
      /\ \A k \in 1..Len(d) : ~ d[k].last
  BY DEF StreamOf
<1>4. IF e.last THEN decoder'[h] = <<>> /\ frame'[h] \in Reads(Append(d, e))
                ELSE decoder'[h] = Append(d, e)
  BY DEF Takes
<1>5. IF e.last
      THEN \/ \E f \in Frames : /\ e.frame = f /\ Append(d, e) = Pieces(f)
                                /\ s = Pieces(f) \o Tail(u)
           \/ d = <<>>
      ELSE /\ Append(d, e) \o Tail(u) = s
           /\ \A k \in 1..Len(Append(d, e)) : ~ Append(d, e)[k].last
  BY <1>1, <1>3, FirstFrame
<1>p. \A a, b \in Seq(Piece) : Alternates(a \o b) =>
        Alternates(b) /\ (Complete(a \o b) => Complete(b))
  BY PartsAlternate
<1>6. \A v \in Seq(Piece) : <<>> \o v = v
  OBVIOUS
<1>7. Last(Append(d, e)) = e
  BY <1>1, <1>2 DEF Last
<1> HIDE DEF s, t, d, u, e
<1>8. CASE ~ e.last
  <2>1. t = s
    BY <1>1, <1>4, <1>5, <1>8
  <2> QED
    BY <1>3, <1>4, <1>5, <1>8, <2>1 DEF Ordered, TornBy, Torn, StillStream, s, t
<1>9. ASSUME NEW f \in Frames, e.last, e.frame = f, Append(d, e) = Pieces(f),
             s = Pieces(f) \o Tail(u)
      PROVE  Ordered(h) /\ TornBy(h) /\ StillStream(h)
  <2>1. t = Tail(u) /\ s = Pieces(f) \o t /\ decoder'[h] = <<>>
    BY <1>1, <1>2, <1>4, <1>6, <1>9
  <2>2. frame'[h] = f
    BY <1>4, <1>7, <1>9 DEF Reads
  <2>3. Pieces(f) \in Seq(Piece) /\ Len(Pieces(f)) = 2 /\ Pieces(f)[2] = End(f)
    BY PiecesTypes DEF Pieces
  <2>4. Alternates(t) /\ (Complete(s) => Complete(t))
    BY <1>1, <1>3, <1>p, <2>1, <2>3, Zenon
  <2>5. t # <<>> => ~ Head(t).last
    <3> DEFINE p == Pieces(f)
    <3>0. p \in Seq(Piece) /\ Len(p) = 2 /\ p[2].last
      BY <2>3 DEF End
    <3>1. s = p \o t
      BY <2>1
    <3> HIDE DEF p
    <3> SUFFICES ASSUME t # <<>> PROVE ~ Head(t).last
      OBVIOUS
    <3>2. /\ Len(t) \in Nat /\ Len(t) >= 1 /\ Len(s) = 2 + Len(t)
          /\ \A i \in 1..Len(s) : s[i] = IF i <= 2 THEN p[i] ELSE t[i - 2]
      <4>1. /\ Len(p \o t) = Len(p) + Len(t)
            /\ \A i \in 1..Len(p) + Len(t) :
                 (p \o t)[i] = IF i <= Len(p) THEN p[i] ELSE t[i - Len(p)]
        <5>1. p \in Seq(Piece) /\ t \in Seq(Piece)
          BY <1>1, <3>0
        <5> QED
          BY <5>1, ConcatProperties
      <4>2. Len(t) \in Nat /\ Len(t) >= 1
        BY <1>1
      <4> QED
        BY <3>0, <3>1, <4>1, <4>2
    <3>3. 2 \in 1..Len(s) - 1 /\ s[2] = p[2] /\ s[2 + 1] = t[1]
      BY <3>2
    <3>4. ~ s[2 + 1].last
      BY <1>3, <3>0, <3>3 DEF Alternates
    <3> QED
      BY <3>3, <3>4
  <2>6. Ordered(h)
    BY <2>1, <2>2 DEF Ordered, s, t
  <2>7. TornBy(h)
    BY <2>5 DEF TornBy, Torn, t
  <2>8. \A k \in 1..Len(decoder'[h]) : ~ decoder'[h][k].last
    BY <2>1
  <2> QED
    BY <1>3, <2>4, <2>6, <2>7, <2>8 DEF StillStream, s, t
<1>10. CASE e.last /\ d = <<>>
  <2>1. s = u /\ t = Tail(u) /\ decoder'[h] = <<>>
    BY <1>1, <1>2, <1>4, <1>6, <1>10
  <2>2. frame'[h] \in Rest[e.frame]
    <3>1. Append(d, e) # Pieces(e.frame)
      <4>1. Len(Append(d, e)) = 1 /\ Len(Pieces(e.frame)) = 2
        BY <1>1, <1>2, <1>10 DEF Pieces
      <4> QED
        BY <4>1
    <3> QED
      BY <1>4, <1>7, <1>10, <3>1 DEF Reads
  <2>3. Alternates(t) /\ (Complete(s) => Complete(t))
    <3>1. s = <<e>> \o t
      BY <1>2, <2>1
    <3> QED
      BY <1>1, <1>2, <1>3, <1>p, <3>1, Zenon
  <2>4. s # <<>> /\ Head(s) = e /\ t = Tail(s)
    BY <1>1, <2>1 DEF e
  <2>5. Ordered(h)
    BY <1>10, <2>2, <2>4 DEF Ordered, s, t
  <2>6. TornBy(h)
    BY <1>10, <2>4 DEF TornBy, Torn, s
  <2>7. \A k \in 1..Len(decoder'[h]) : ~ decoder'[h][k].last
    BY <2>1
  <2> QED
    BY <1>3, <2>3, <2>5, <2>6, <2>7 DEF StillStream, s, t
<1> QED
  BY <1>5, <1>8, <1>9, <1>10

LEMMA StepStream ==
  ASSUME TypeInv, TypeInv', BuffersExclusive, StreamInv, Next, NEW h \in Handlers, ~ down'
  PROVE  Ordered(h) /\ TornBy(h) /\ StillStream(h)
<1>1. ~ down /\ (client[h] = "gone" => client'[h] = "gone")
  BY GoneStays
<1>2. StreamOf(h)
  BY <1>1 DEF StreamInv
<1>3. Stays(h) \/ Sends(h) \/ Takes(h) \/ Wastes(h) \/ Loses(h)
  BY NextInOrder DEF Moves
<1> QED
  BY <1>1, <1>2, <1>3, StaysStream, SendsStream, TakesStream, WastesStream, LosesStream

\* While the pool runs, the bytes of a client are the pieces of frames.
THEOREM ReactorStreamInvariant == Safety => []StreamInv
<1>1. Init => StreamInv
  <2> SUFFICES ASSUME Init, NEW h \in Handlers PROVE StreamOf(h)
    BY DEF StreamInv
  <2>1. decoder[h] = <<>> /\ running[h] = Null /\ queue[h] = <<>> /\ inbox[h] = <<>>
    BY DEF Init, Pool!Init
  <2>2. Stream(h) = <<>>
    <3>1. PiecesOf(running[h]) = <<>>
      BY <2>1 DEF PiecesOf
    <3>2. [k \in DOMAIN queue[h] |-> PiecesOf(queue[h][k])] = <<>>
      BY <2>1
    <3>3. FlattenSeq(<<>>) = <<>>
      BY DEF FlattenSeq
    <3> QED
      BY <2>1, <3>1, <3>2, <3>3 DEF Stream, Unprocessed
  <2> QED
    BY <2>1, <2>2 DEF StreamOf, Alternates, Complete
<1>2. TypeInv /\ TypeInv' /\ BuffersExclusive /\ StreamInv /\ [Next]_vars => StreamInv'
  <2> SUFFICES ASSUME TypeInv, TypeInv', BuffersExclusive, StreamInv, [Next]_vars
               PROVE  StreamInv'
    OBVIOUS
  <2>1. CASE UNCHANGED vars
    BY <2>1 DEF StreamInv, StreamOf, Stream, Unprocessed, PiecesOf, vars, pool, buffers,
                network, brokerVars, locals
  <2>2. CASE Next
    <3> SUFFICES ASSUME ~ down', NEW h \in Handlers PROVE StreamOf(h)'
      BY DEF StreamInv
    <3>1. StillStream(h)
      BY <2>2, StepStream
    <3>2. decoder'[h] # <<>> => pc'[h] = "read"
      BY <2>2, GoneStays, TextKept DEF StreamInv, StreamOf
    <3> QED
      BY <3>1, <3>2 DEF StillStream, StreamOf
  <2> QED
    BY <2>1, <2>2
<1> QED
  BY <1>1, <1>2, ReactorTypeInvariant, ReactorBuffersExclusive, PTL DEF Safety

\* Frames are decoded whole, in the order sent, none twice, however the chunks
\* cut them, except for the end of one whose beginning was dropped.
THEOREM ReactorFramesInOrder == Safety => FramesInOrder
<1>1. TypeInv /\ TypeInv' /\ BuffersExclusive /\ StreamInv /\ [Next]_vars =>
        [\A h \in Handlers : Ordered(h) \/ down']_vars
  <2> SUFFICES ASSUME TypeInv, TypeInv', BuffersExclusive, StreamInv, Next,
                      NEW h \in Handlers, ~ down'
               PROVE  Ordered(h)
    OBVIOUS
  <2> QED
    BY StepStream
<1>2. [][\A h \in Handlers : Ordered(h) \/ down']_vars => FramesInOrder
  <2>1. [\A h \in Handlers : Ordered(h) \/ down']_vars =>
          [\A h \in Handlers :
             LET s == Stream(h)
                 t == Stream(h)'
             IN  \/ t = s
                 \/ \E f \in Frames : t = s \o Pieces(f)
                 \/ \E f \in Frames : s = Pieces(f) \o t /\ frame'[h] = f
                 \/ s # <<>> /\ Head(s).last /\ t = Tail(s) /\ frame'[h] \in Rest[Head(s).frame]
                 \/ pc[h] = "process" /\ Throws(h) /\ IsSuffix(t, s)
                 \/ client'[h] # client[h] /\ IsPrefix(t, s)
                 \/ down']_vars
    BY DEF Ordered
  <2> QED
    BY <2>1, PTL DEF FramesInOrder
<1> QED
  BY <1>1, <1>2, ReactorTypeInvariant, ReactorBuffersExclusive, ReactorStreamInvariant, PTL
     DEF Safety

\* Nothing but an exception of process, or the end of the pool, makes the
\* server read the end of a frame without its beginning.
THEOREM ReactorTornOnlyByThrow == Safety => TornOnlyByThrow
<1>1. TypeInv /\ TypeInv' /\ BuffersExclusive /\ StreamInv /\ [Next]_vars =>
        [\A h \in Handlers :
           Torn(h)' => Torn(h) \/ (pc[h] = "process" /\ Throws(h)) \/ down']_vars
  <2> SUFFICES ASSUME TypeInv, TypeInv', BuffersExclusive, StreamInv, Next,
                      NEW h \in Handlers, ~ down'
               PROVE  TornBy(h)
    BY DEF TornBy
  <2> QED
    BY StepStream
<1> QED
  BY <1>1, ReactorTypeInvariant, ReactorBuffersExclusive, ReactorStreamInvariant, PTL
     DEF Safety, TornOnlyByThrow

==============================================================================
