----------------------------- MODULE ActorPool ------------------------------
(***************************************************************************)
(* ActorThreadPool (srv/ActorThreadPool.java): tasks of one act run one at *)
(* a time and in submission order, on a fixed pool of worker threads.      *)
(*                                                                         *)
(* A thread is inside submit() or complete() exactly while it owns the     *)
(* act's monitor; each access to a shared structure inside is a step:      *)
(*    submit(act, r)  Submit, then Play, Execute                           *)
(*                              or Defer, Lookup, [Create,] Enqueue        *)
(*    complete(act)   EnterComplete, Lookup, [Create,] then Drain          *)
(*                                                    or Poll, Execute     *)
(* The ExecutorService is external: a bag of jobs that idle workers take.  *)
(***************************************************************************)
EXTENDS Naturals, Sequences, FiniteSets

CONSTANTS
  Acts,        \* the connection handlers used as actors
  Tasks,       \* the Runnables; each is a fresh object, submitted once
  Submitters,  \* threads that call submit (the selector thread)
  Workers,     \* threads of newFixedThreadPool
  Null         \* no owner, no job, no task

Threads == Submitters \cup Workers
Job == [act : Acts, task : Tasks]

ASSUME ThreadsAssumption == Submitters \cap Workers = {}
ASSUME NullAssumption == Null \notin Threads \cup Tasks \cup Job

VARIABLES
  monitor,    \* per act, the thread inside synchronized (act), or Null
  playingNow, \* acts with a task scheduled or running
  mapped,     \* acts that have an entry in the WeakHashMap acts
  pending,    \* the queue of that entry; empty when there is none
  ready,      \* jobs handed to threads.execute and not yet taken
  down,       \* has shutdownNow been called?
  fresh,      \* history: tasks not submitted yet
  pc,         \* per thread, where it is
  job         \* per thread, the act and the task it works on, or Null

vars == <<monitor, playingNow, mapped, pending, ready, down, fresh, pc, job>>

TypeOK ==
  /\ monitor \in [Acts -> Threads \cup {Null}]
  /\ playingNow \in SUBSET Acts
  /\ mapped \in SUBSET Acts
  /\ pending \in [Acts -> Seq(Tasks)]
  /\ ready \in SUBSET Job
  /\ down \in BOOLEAN
  /\ fresh \in SUBSET Tasks
  /\ pc \in [Threads -> {"idle", "submit", "run", "finally",
                         "lookup", "create", "found", "execute"}]
  /\ job \in [Threads -> Job \cup {Null}]
  /\ \A th \in Threads : pc[th] = "idle" <=> job[th] = Null

Init ==
  /\ monitor = [a \in Acts |-> Null]
  /\ playingNow = {}
  /\ mapped = {}
  /\ pending = [a \in Acts |-> <<>>]
  /\ ready = {}
  /\ down = FALSE
  /\ fresh = Tasks
  /\ pc = [th \in Threads |-> "idle"]
  /\ job = [th \in Threads |-> Null]

Goto(th, l) == pc' = [pc EXCEPT ![th] = l]

\* The end of the synchronized block: the thread is done with its job.
Leave(th) ==
  /\ monitor' = [monitor EXCEPT ![job[th].act] = Null]
  /\ job' = [job EXCEPT ![th] = Null]
  /\ Goto(th, "idle")
-----------------------------------------------------------------------------
(* submit(act, r) *)

Submit(s, a, t) ==
  /\ pc[s] = "idle"
  /\ monitor[a] = Null
  /\ t \in fresh
  /\ monitor' = [monitor EXCEPT ![a] = s]
  /\ fresh' = fresh \ {t}
  /\ job' = [job EXCEPT ![s] = [act |-> a, task |-> t]]
  /\ Goto(s, "submit")
  /\ UNCHANGED <<playingNow, mapped, pending, ready, down>>

PlayAlways(s) ==  \* mutant: the membership test is dropped
  /\ pc[s] = "submit"
  /\ playingNow' = playingNow \cup {job[s].act}
  /\ Goto(s, "execute")
  /\ UNCHANGED <<monitor, mapped, pending, ready, down, fresh, job>>

\* The act is not playing: it is now, and its task goes to the executor.
Play(s) ==
  /\ pc[s] = "submit"
  /\ job[s].act \notin playingNow
  /\ playingNow' = playingNow \cup {job[s].act}
  /\ Goto(s, "execute")
  /\ UNCHANGED <<monitor, mapped, pending, ready, down, fresh, job>>

\* The act is playing: the task will wait behind the others.
Defer(s) ==
  /\ pc[s] = "submit"
  /\ job[s].act \in playingNow
  /\ Goto(s, "lookup")
  /\ UNCHANGED <<monitor, playingNow, mapped, pending, ready, down, fresh, job>>

Enqueue(s) ==
  /\ s \in Submitters
  /\ pc[s] = "found"
  /\ pending' = [pending EXCEPT ![job[s].act] = Append(@, job[s].task)]
  /\ Leave(s)
  /\ UNCHANGED <<playingNow, mapped, ready, down, fresh>>
-----------------------------------------------------------------------------
(* pendingRunnablesOf(act): the read lock and the write lock are two       *)
(* critical sections; only the act's monitor makes the pair atomic.        *)

Lookup(th) ==
  /\ pc[th] = "lookup"
  /\ Goto(th, IF job[th].act \in mapped THEN "found" ELSE "create")
  /\ UNCHANGED <<monitor, playingNow, mapped, pending, ready, down, fresh, job>>

Create(th) ==
  /\ pc[th] = "create"
  /\ mapped' = mapped \cup {job[th].act}
  /\ pending' = [pending EXCEPT ![job[th].act] = <<>>]
  /\ Goto(th, "found")
  /\ UNCHANGED <<monitor, playingNow, ready, down, fresh, job>>
-----------------------------------------------------------------------------
(* execute(r, act), and the worker's lambda: r.run() finally complete(act) *)

\* threads.execute; after shutdownNow it throws RejectedExecutionException,
\* which leaves submit or complete with the act still in playingNow.
Execute(th) ==
  /\ pc[th] = "execute"
  /\ ready' = IF down THEN ready ELSE ready \cup {job[th]}
  /\ Leave(th)
  /\ UNCHANGED <<playingNow, mapped, pending, down, fresh>>

Take(w, j) ==
  /\ pc[w] = "idle"
  /\ j \in ready
  /\ ready' = ready \ {j}
  /\ job' = [job EXCEPT ![w] = j]
  /\ Goto(w, "run")
  /\ UNCHANGED <<monitor, playingNow, mapped, pending, down, fresh>>

\* r.run() returns or throws: either way the finally block follows.
Finish(w) ==
  /\ pc[w] = "run"
  /\ Goto(w, "finally")
  /\ UNCHANGED <<monitor, playingNow, mapped, pending, ready, down, fresh, job>>
-----------------------------------------------------------------------------
(* complete(act) *)

EnterComplete(w) ==
  /\ pc[w] = "finally"
  /\ monitor[job[w].act] = Null
  /\ monitor' = [monitor EXCEPT ![job[w].act] = w]
  /\ Goto(w, "lookup")
  /\ UNCHANGED <<playingNow, mapped, pending, ready, down, fresh, job>>

DrainAlways(w) ==  \* mutant: playingNow is left without looking at the queue
  /\ w \in Workers
  /\ pc[w] = "found"
  /\ playingNow' = playingNow \ {job[w].act}
  /\ Leave(w)
  /\ UNCHANGED <<mapped, pending, ready, down, fresh>>

DrainKeepsPlaying(w) ==  \* mutant: playingNow.remove is missing
  /\ w \in Workers
  /\ pc[w] = "found"
  /\ pending[job[w].act] = <<>>
  /\ Leave(w)
  /\ UNCHANGED <<playingNow, mapped, pending, ready, down, fresh>>

\* Nothing waits: the act stops playing.
Drain(w) ==
  /\ w \in Workers
  /\ pc[w] = "found"
  /\ pending[job[w].act] = <<>>
  /\ playingNow' = playingNow \ {job[w].act}
  /\ Leave(w)
  /\ UNCHANGED <<mapped, pending, ready, down, fresh>>

PollNewest(w) ==  \* mutant: the queue is used as a stack
  /\ w \in Workers
  /\ pc[w] = "found"
  /\ LET q == pending[job[w].act]
     IN  /\ q # <<>>
         /\ pending' = [pending EXCEPT ![job[w].act] = SubSeq(q, 1, Len(q) - 1)]
         /\ job' = [job EXCEPT ![w].task = q[Len(q)]]
  /\ Goto(w, "execute")
  /\ UNCHANGED <<monitor, playingNow, mapped, ready, down, fresh>>

\* The oldest waiting task is scheduled in turn.
Poll(w) ==
  /\ w \in Workers
  /\ pc[w] = "found"
  /\ pending[job[w].act] # <<>>
  /\ pending' = [pending EXCEPT ![job[w].act] = Tail(@)]
  /\ job' = [job EXCEPT ![w] = [act  |-> job[w].act,
                                task |-> Head(pending[job[w].act])]]
  /\ Goto(w, "execute")
  /\ UNCHANGED <<monitor, playingNow, mapped, ready, down, fresh>>
-----------------------------------------------------------------------------

ShutdownGraceful ==  \* mutant: shutdown() instead of shutdownNow()
  /\ ~ down
  /\ down' = TRUE
  /\ UNCHANGED <<monitor, playingNow, mapped, pending, ready, fresh, pc, job>>

\* shutdown(): shutdownNow drops the queued jobs and interrupts the running.
Shutdown ==
  /\ ~ down
  /\ down' = TRUE
  /\ ready' = {}
  /\ UNCHANGED <<monitor, playingNow, mapped, pending, fresh, pc, job>>

\* The entry of a WeakHashMap goes when its key is unreachable: playingNow,
\* the executor's lambdas and the callers' arguments are strong references.
\* (References held outside the pool are not modelled: more is collected.)
Collect(a) ==
  /\ a \in mapped \ playingNow
  /\ \A th \in Threads : job[th] # Null => job[th].act # a
  /\ \A j \in ready : j.act # a
  /\ mapped' = mapped \ {a}
  /\ pending' = [pending EXCEPT ![a] = <<>>]
  /\ UNCHANGED <<monitor, playingNow, ready, down, fresh, pc, job>>

SubmitterStep(s) ==
  \/ Play(s) \/ Defer(s) \/ Lookup(s) \/ Create(s) \/ Enqueue(s) \/ Execute(s)

WorkerStep(w) ==
  \/ Finish(w) \/ EnterComplete(w) \/ Lookup(w) \/ Create(w)
  \/ Drain(w) \/ Poll(w) \/ Execute(w)

Next ==
  \/ \E s \in Submitters : \/ \E a \in Acts, t \in Tasks : Submit(s, a, t)
                           \/ SubmitterStep(s)
  \/ \E w \in Workers : \/ \E j \in Job : Take(w, j)
                        \/ WorkerStep(w)
  \/ Shutdown
  \/ \E a \in Acts : Collect(a)

(***************************************************************************)
(* A thread inside the pool keeps running, tasks return, and the queue of  *)
(* the executor is FIFO, so a job that idle workers keep coming back for   *)
(* is taken.  Nobody has to submit, and nobody has to shut down.           *)
(***************************************************************************)
Fairness ==
  /\ \A s \in Submitters : WF_vars(SubmitterStep(s))
  /\ \A w \in Workers : WF_vars(WorkerStep(w))
  /\ \A j \in Job : SF_vars(\E w \in Workers : Take(w, j))

Safety == Init /\ [][Next]_vars

Spec == Safety /\ Fairness
-----------------------------------------------------------------------------
(* Properties *)

\* No two workers run tasks of the same act at the same time: this is what
\* lets StompProtocol and StompEncoderDecoder go without locks.
MutualExclusion ==
  \A v, w \in Workers :
    pc[v] = "run" /\ pc[w] = "run" /\ job[v].act = job[w].act => v = w

\* th holds the one token of an act: it schedules, runs or completes a task.
Carries(th, a) ==
  /\ pc[th] # "idle"
  /\ job[th].act = a
  /\ th \in Workers \/ pc[th] = "execute"

\* A task left waiting has someone who will come for it: the act is in
\* playingNow and a job of it is queued or a thread is on its way to
\* complete(act).  Otherwise the task would wait for an unrelated submit.
NothingStranded ==
  \A a \in Acts : pending[a] # <<>> /\ ~ down =>
    /\ a \in playingNow
    /\ \/ \E j \in ready : j.act = a
       \/ \E th \in Threads : Carries(th, a)

\* Once shutdownNow has been called no task starts.
NothingStartsWhenDown ==
  [][\A w \in Workers : down /\ pc[w] # "run" => pc'[w] # "run"]_vars

\* The token of an act is unique, exists only while the act is playing, and
\* the monitor is owned by the thread inside the critical section.
TokenUnique ==
  /\ \A a \in Acts : \A th1, th2 \in Threads :
       Carries(th1, a) /\ Carries(th2, a) => th1 = th2
  /\ \A j \in ready : \A th \in Threads : ~ Carries(th, j.act)
  /\ \A i, j \in ready : i.act = j.act => i = j

TokenPlays ==
  /\ \A j \in ready : j.act \in playingNow
  /\ \A th \in Threads : \A a \in Acts : Carries(th, a) => a \in playingNow

InMonitor(th) == pc[th] \in {"submit", "lookup", "create", "found", "execute"}

MonitorOwned ==
  \A th \in Threads :
    InMonitor(th) => monitor[job[th].act] = th

\* A submitter past the membership test found the act playing, and only the
\* owner of the monitor can end that.
DeferredPlays ==
  \A s \in Submitters :
    pc[s] \in {"lookup", "create", "found"} => job[s].act \in playingNow

PlaceOfThread ==
  /\ \A s \in Submitters : pc[s] \notin {"run", "finally"}
  /\ \A w \in Workers : pc[w] # "submit"

PendingMapped ==
  /\ \A a \in Acts : a \notin mapped => pending[a] = <<>>
  /\ \A th \in Threads : pc[th] = "found" => job[th].act \in mapped
  /\ \A th \in Threads : pc[th] = "create" => job[th].act \notin mapped

\* An act in playingNow always has its token, until a shutdown destroys it.
PlayingCarried ==
  \A a \in playingNow : ~ down => (\E j \in ready : j.act = a)
                                 \/ \E th \in Threads : Carries(th, a)

PendingPlays == \A a \in Acts : pending[a] # <<>> => a \in playingNow

DownEmpty == down => ready = {}

IndInv ==
  /\ TypeOK
  /\ PlaceOfThread
  /\ MonitorOwned
  /\ TokenUnique
  /\ TokenPlays
  /\ PlayingCarried
  /\ DeferredPlays
  /\ PendingMapped
  /\ PendingPlays
  /\ DownEmpty

\* Every submitted task runs or is dropped by a shutdown: the pool loses no
\* task and no act starves while workers keep coming back.
EveryTaskRuns ==
  \A a \in Acts, t \in Tasks :
    (\E s \in Submitters : job[s] = [act |-> a, task |-> t])
      ~> (down \/ \E w \in Workers : pc[w] = "run"
                                     /\ job[w] = [act |-> a, task |-> t])
-----------------------------------------------------------------------------
(* Refinement of SerialActors *)

\* The task that is next for an act: handed to the executor, or about to be.
Scheduled(a) ==
  {t \in Tasks :
     \/ [act |-> a, task |-> t] \in ready
     \/ \E th \in Threads : pc[th] = "execute"
                            /\ job[th] = [act |-> a, task |-> t]}

\* A queue q behind the scheduled task, if there is one.
Behind(S, q) == IF S = {} THEN q ELSE <<CHOOSE t \in S : TRUE>> \o q

queueBar == [a \in Acts |-> Behind(Scheduled(a), pending[a])]

Running(a) ==
  {t \in Tasks :
     \E w \in Workers : pc[w] = "run" /\ job[w] = [act |-> a, task |-> t]}

OneOf(S) == IF S = {} THEN Null ELSE CHOOSE t \in S : TRUE

runningBar == [a \in Acts |-> OneOf(Running(a))]

Serial == INSTANCE SerialActors
            WITH queue <- queueBar, running <- runningBar, NoTask <- Null

\* The threads, the monitor, playingNow and the map of queues implement one
\* FIFO queue per act, run one task at a time.
ImplementsSerialActors == Serial!Spec
=============================================================================
