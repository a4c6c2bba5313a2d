-------------------------- MODULE ActorPoolProofs ---------------------------
(***************************************************************************)
(* Proofs about ActorPool, for any sets of acts, tasks and threads.        *)
(*                                                                         *)
(* The argument is the token of an act: the one job that is queued in the  *)
(* executor, or held by the one thread that will schedule, run or complete *)
(* it.  IndInv says there is at most one, there is one exactly while the   *)
(* act plays, and the monitor protects the steps that create and destroy   *)
(* it.  Each lemma below takes one action and goes through the conjuncts.  *)
(***************************************************************************)
EXTENDS ActorPool, TLAPS

\* Entering submit: the thread only gains the monitor.
LEMMA SubmitKeeps ==
  ASSUME IndInv, NEW s \in Submitters, NEW a \in Acts, NEW t \in Tasks,
         Submit(s, a, t)
  PROVE  IndInv'
<1> USE ThreadsAssumption, NullAssumption DEF IndInv, TypeOK, Job, Threads
<1>1. TypeOK'
  BY DEF Submit, Goto
<1>2. \A x \in Threads, b \in Acts : Carries(x, b)' <=> Carries(x, b)
  BY DEF Submit, Goto, Carries, PlaceOfThread
<1>3. PlaceOfThread'
  BY DEF Submit, Goto, PlaceOfThread
<1>4. MonitorOwned'
  BY DEF Submit, Goto, MonitorOwned, InMonitor, Carries, TokenUnique, PlaceOfThread
<1>5. TokenUnique'
  BY <1>2 DEF Submit, Goto, TokenUnique, TokenPlays
<1>6. TokenPlays'
  BY <1>2 DEF Submit, Goto, TokenPlays, TokenUnique
<1>7. PlayingCarried'
  BY <1>2 DEF Submit, Goto, PlayingCarried, TokenUnique
<1>8. DeferredPlays'
  BY DEF Submit, Goto, DeferredPlays, MonitorOwned, InMonitor, PlaceOfThread
<1>9. PendingMapped'
  BY DEF Submit, Goto, PendingMapped, MonitorOwned, InMonitor
<1>10. PendingPlays'
  BY DEF Submit, Goto, PendingPlays, PendingMapped, DeferredPlays, PlaceOfThread
<1>11. DownEmpty'
  BY DEF Submit, Goto, DownEmpty
<1> QED
  BY <1>1, <1>3, <1>4, <1>5, <1>6, <1>7, <1>8, <1>9, <1>10, <1>11

\* The act starts to play and the submitter carries its token.
LEMMA PlayKeeps ==
  ASSUME IndInv, NEW s \in Submitters, Play(s)
  PROVE  IndInv'
<1> USE ThreadsAssumption, NullAssumption DEF IndInv, TypeOK, Job, Threads
<1>1. TypeOK'
  BY DEF Play, Goto
<1>3. PlaceOfThread'
  BY DEF Play, Goto, PlaceOfThread
<1>4. MonitorOwned'
  BY DEF Play, Goto, MonitorOwned, InMonitor, Carries, TokenUnique, PlaceOfThread
<1>5. TokenUnique'
  BY DEF Play, Goto, TokenUnique, TokenPlays, Carries
<1>6. TokenPlays'
  BY DEF Play, Goto, TokenPlays, TokenUnique, Carries
<1>7. PlayingCarried'
  BY DEF Play, Goto, PlayingCarried, TokenUnique, Carries
<1>8. DeferredPlays'
  BY DEF Play, Goto, DeferredPlays, MonitorOwned, InMonitor, PlaceOfThread
<1>9. PendingMapped'
  BY DEF Play, Goto, PendingMapped, MonitorOwned, InMonitor
<1>10. PendingPlays'
  BY DEF Play, Goto, PendingPlays, PendingMapped, DeferredPlays, PlaceOfThread
<1>11. DownEmpty'
  BY DEF Play, Goto, DownEmpty
<1> QED
  BY <1>1, <1>3, <1>4, <1>5, <1>6, <1>7, <1>8, <1>9, <1>10, <1>11

\* The submitter will use the queue of an act that is playing.
LEMMA DeferKeeps ==
  ASSUME IndInv, NEW s \in Submitters, Defer(s)
  PROVE  IndInv'
<1> USE ThreadsAssumption, NullAssumption DEF IndInv, TypeOK, Job, Threads
<1>1. TypeOK'
  BY DEF Defer, Goto
<1>2. \A x \in Threads, b \in Acts : Carries(x, b)' <=> Carries(x, b)
  BY DEF Defer, Goto, Carries, PlaceOfThread
<1>3. PlaceOfThread'
  BY DEF Defer, Goto, PlaceOfThread
<1>4. MonitorOwned'
  BY DEF Defer, Goto, MonitorOwned, InMonitor, Carries, TokenUnique, PlaceOfThread
<1>5. TokenUnique'
  BY <1>2 DEF Defer, Goto, TokenUnique, TokenPlays
<1>6. TokenPlays'
  BY <1>2 DEF Defer, Goto, TokenPlays, TokenUnique
<1>7. PlayingCarried'
  BY <1>2 DEF Defer, Goto, PlayingCarried, TokenUnique
<1>8. DeferredPlays'
  BY DEF Defer, Goto, DeferredPlays, MonitorOwned, InMonitor, PlaceOfThread
<1>9. PendingMapped'
  BY DEF Defer, Goto, PendingMapped, MonitorOwned, InMonitor
<1>10. PendingPlays'
  BY DEF Defer, Goto, PendingPlays, PendingMapped, DeferredPlays, PlaceOfThread
<1>11. DownEmpty'
  BY DEF Defer, Goto, DownEmpty
<1> QED
  BY <1>1, <1>3, <1>4, <1>5, <1>6, <1>7, <1>8, <1>9, <1>10, <1>11

\* The task waits behind an act that is playing.
LEMMA EnqueueKeeps ==
  ASSUME IndInv, NEW s \in Submitters, Enqueue(s)
  PROVE  IndInv'
<1> USE ThreadsAssumption, NullAssumption DEF IndInv, TypeOK, Job, Threads
<1>1. TypeOK'
  BY DEF Enqueue, Leave, Goto
<1>2. \A x \in Threads, b \in Acts : Carries(x, b)' <=> Carries(x, b)
  BY DEF Enqueue, Leave, Goto, Carries, PlaceOfThread
<1>3. PlaceOfThread'
  BY DEF Enqueue, Leave, Goto, PlaceOfThread
<1>4. MonitorOwned'
  BY DEF Enqueue, Leave, Goto, MonitorOwned, InMonitor, Carries, TokenUnique, PlaceOfThread
<1>5. TokenUnique'
  BY <1>2 DEF Enqueue, Leave, Goto, TokenUnique, TokenPlays
<1>6. TokenPlays'
  BY <1>2 DEF Enqueue, Leave, Goto, TokenPlays, TokenUnique
<1>7. PlayingCarried'
  BY <1>2 DEF Enqueue, Leave, Goto, PlayingCarried, TokenUnique
<1>8. DeferredPlays'
  BY DEF Enqueue, Leave, Goto, DeferredPlays, MonitorOwned, InMonitor, PlaceOfThread
<1>9. PendingMapped'
  BY DEF Enqueue, Leave, Goto, PendingMapped, MonitorOwned, InMonitor
<1>10. PendingPlays'
  BY DEF Enqueue, Leave, Goto, PendingPlays, PendingMapped, DeferredPlays, PlaceOfThread
<1>11. DownEmpty'
  BY DEF Enqueue, Leave, Goto, DownEmpty
<1> QED
  BY <1>1, <1>3, <1>4, <1>5, <1>6, <1>7, <1>8, <1>9, <1>10, <1>11

\* The read-locked lookup decides between found and create.
LEMMA LookupKeeps ==
  ASSUME IndInv, NEW th \in Threads, Lookup(th)
  PROVE  IndInv'
<1> USE ThreadsAssumption, NullAssumption DEF IndInv, TypeOK, Job, Threads
<1>1. TypeOK'
  BY DEF Lookup, Goto
<1>2. \A x \in Threads, b \in Acts : Carries(x, b)' <=> Carries(x, b)
  BY DEF Lookup, Goto, Carries, PlaceOfThread
<1>3. PlaceOfThread'
  BY DEF Lookup, Goto, PlaceOfThread
<1>4. MonitorOwned'
  BY DEF Lookup, Goto, MonitorOwned, InMonitor, Carries, TokenUnique, PlaceOfThread
<1>5. TokenUnique'
  BY <1>2 DEF Lookup, Goto, TokenUnique, TokenPlays
<1>6. TokenPlays'
  BY <1>2 DEF Lookup, Goto, TokenPlays, TokenUnique
<1>7. PlayingCarried'
  BY <1>2 DEF Lookup, Goto, PlayingCarried, TokenUnique
<1>8. DeferredPlays'
  BY DEF Lookup, Goto, DeferredPlays, MonitorOwned, InMonitor, PlaceOfThread
<1>9. PendingMapped'
  BY DEF Lookup, Goto, PendingMapped, MonitorOwned, InMonitor
<1>10. PendingPlays'
  BY DEF Lookup, Goto, PendingPlays, PendingMapped, DeferredPlays, PlaceOfThread
<1>11. DownEmpty'
  BY DEF Lookup, Goto, DownEmpty
<1> QED
  BY <1>1, <1>3, <1>4, <1>5, <1>6, <1>7, <1>8, <1>9, <1>10, <1>11

\* The write-locked creation makes an empty queue.
LEMMA CreateKeeps ==
  ASSUME IndInv, NEW th \in Threads, Create(th)
  PROVE  IndInv'
<1> USE ThreadsAssumption, NullAssumption DEF IndInv, TypeOK, Job, Threads
<1>1. TypeOK'
  BY DEF Create, Goto
<1>2. \A x \in Threads, b \in Acts : Carries(x, b)' <=> Carries(x, b)
  BY DEF Create, Goto, Carries, PlaceOfThread
<1>3. PlaceOfThread'
  BY DEF Create, Goto, PlaceOfThread
<1>4. MonitorOwned'
  BY DEF Create, Goto, MonitorOwned, InMonitor, Carries, TokenUnique, PlaceOfThread
<1>5. TokenUnique'
  BY <1>2 DEF Create, Goto, TokenUnique, TokenPlays
<1>6. TokenPlays'
  BY <1>2 DEF Create, Goto, TokenPlays, TokenUnique
<1>7. PlayingCarried'
  BY <1>2 DEF Create, Goto, PlayingCarried, TokenUnique
<1>8. DeferredPlays'
  BY DEF Create, Goto, DeferredPlays, MonitorOwned, InMonitor, PlaceOfThread
<1>9. PendingMapped'
  BY DEF Create, Goto, PendingMapped, MonitorOwned, InMonitor
<1>10. PendingPlays'
  BY DEF Create, Goto, PendingPlays, PendingMapped, DeferredPlays, PlaceOfThread
<1>11. DownEmpty'
  BY DEF Create, Goto, DownEmpty
<1> QED
  BY <1>1, <1>3, <1>4, <1>5, <1>6, <1>7, <1>8, <1>9, <1>10, <1>11

\* The token goes from the thread to the executor, or is lost to a shutdown.
LEMMA ExecuteKeeps ==
  ASSUME IndInv, NEW th \in Threads, Execute(th)
  PROVE  IndInv'
<1> USE ThreadsAssumption, NullAssumption DEF IndInv, TypeOK, Job, Threads
<1>1. TypeOK'
  BY DEF Execute, Leave, Goto
<1>3. PlaceOfThread'
  BY DEF Execute, Leave, Goto, PlaceOfThread
<1>4. MonitorOwned'
  BY DEF Execute, Leave, Goto, MonitorOwned, InMonitor, Carries, TokenUnique, PlaceOfThread
<1>5. TokenUnique'
  BY DEF Execute, Leave, Goto, TokenUnique, TokenPlays, Carries
<1>6. TokenPlays'
  BY DEF Execute, Leave, Goto, TokenPlays, TokenUnique, Carries
<1>7. PlayingCarried'
  BY DEF Execute, Leave, Goto, PlayingCarried, TokenUnique, Carries
<1>8. DeferredPlays'
  BY DEF Execute, Leave, Goto, DeferredPlays, MonitorOwned, InMonitor, PlaceOfThread
<1>9. PendingMapped'
  BY DEF Execute, Leave, Goto, PendingMapped, MonitorOwned, InMonitor
<1>10. PendingPlays'
  BY DEF Execute, Leave, Goto, PendingPlays, PendingMapped, DeferredPlays, PlaceOfThread
<1>11. DownEmpty'
  BY DEF Execute, Leave, Goto, DownEmpty
<1> QED
  BY <1>1, <1>3, <1>4, <1>5, <1>6, <1>7, <1>8, <1>9, <1>10, <1>11

\* The token goes from the executor to the worker.
LEMMA TakeKeeps ==
  ASSUME IndInv, NEW w \in Workers, NEW j \in Job, Take(w, j)
  PROVE  IndInv'
<1> USE ThreadsAssumption, NullAssumption DEF IndInv, TypeOK, Job, Threads
<1>1. TypeOK'
  BY DEF Take, Goto
<1>3. PlaceOfThread'
  BY DEF Take, Goto, PlaceOfThread
<1>4. MonitorOwned'
  BY DEF Take, Goto, MonitorOwned, InMonitor, Carries, TokenUnique, PlaceOfThread
<1>5. TokenUnique'
  BY DEF Take, Goto, TokenUnique, TokenPlays, Carries
<1>6. TokenPlays'
  BY DEF Take, Goto, TokenPlays, TokenUnique, Carries
<1>7. PlayingCarried'
  BY DEF Take, Goto, PlayingCarried, TokenUnique, Carries
<1>8. DeferredPlays'
  BY DEF Take, Goto, DeferredPlays, MonitorOwned, InMonitor, PlaceOfThread
<1>9. PendingMapped'
  BY DEF Take, Goto, PendingMapped, MonitorOwned, InMonitor
<1>10. PendingPlays'
  BY DEF Take, Goto, PendingPlays, PendingMapped, DeferredPlays, PlaceOfThread
<1>11. DownEmpty'
  BY DEF Take, Goto, DownEmpty
<1> QED
  BY <1>1, <1>3, <1>4, <1>5, <1>6, <1>7, <1>8, <1>9, <1>10, <1>11

\* The worker keeps the token in its finally block.
LEMMA FinishKeeps ==
  ASSUME IndInv, NEW w \in Workers, Finish(w)
  PROVE  IndInv'
<1> USE ThreadsAssumption, NullAssumption DEF IndInv, TypeOK, Job, Threads
<1>1. TypeOK'
  BY DEF Finish, Goto
<1>2. \A x \in Threads, b \in Acts : Carries(x, b)' <=> Carries(x, b)
  BY DEF Finish, Goto, Carries, PlaceOfThread
<1>3. PlaceOfThread'
  BY DEF Finish, Goto, PlaceOfThread
<1>4. MonitorOwned'
  BY DEF Finish, Goto, MonitorOwned, InMonitor, Carries, TokenUnique, PlaceOfThread
<1>5. TokenUnique'
  BY <1>2 DEF Finish, Goto, TokenUnique, TokenPlays
<1>6. TokenPlays'
  BY <1>2 DEF Finish, Goto, TokenPlays, TokenUnique
<1>7. PlayingCarried'
  BY <1>2 DEF Finish, Goto, PlayingCarried, TokenUnique
<1>8. DeferredPlays'
  BY DEF Finish, Goto, DeferredPlays, MonitorOwned, InMonitor, PlaceOfThread
<1>9. PendingMapped'
  BY DEF Finish, Goto, PendingMapped, MonitorOwned, InMonitor
<1>10. PendingPlays'
  BY DEF Finish, Goto, PendingPlays, PendingMapped, DeferredPlays, PlaceOfThread
<1>11. DownEmpty'
  BY DEF Finish, Goto, DownEmpty
<1> QED
  BY <1>1, <1>3, <1>4, <1>5, <1>6, <1>7, <1>8, <1>9, <1>10, <1>11

\* The worker enters the monitor with the token.
LEMMA EnterCompleteKeeps ==
  ASSUME IndInv, NEW w \in Workers, EnterComplete(w)
  PROVE  IndInv'
<1> USE ThreadsAssumption, NullAssumption DEF IndInv, TypeOK, Job, Threads
<1>1. TypeOK'
  BY DEF EnterComplete, Goto
<1>2. \A x \in Threads, b \in Acts : Carries(x, b)' <=> Carries(x, b)
  BY DEF EnterComplete, Goto, Carries, PlaceOfThread
<1>3. PlaceOfThread'
  BY DEF EnterComplete, Goto, PlaceOfThread
<1>4. MonitorOwned'
  BY DEF EnterComplete, Goto, MonitorOwned, InMonitor, Carries, TokenUnique, PlaceOfThread
<1>5. TokenUnique'
  BY <1>2 DEF EnterComplete, Goto, TokenUnique, TokenPlays
<1>6. TokenPlays'
  BY <1>2 DEF EnterComplete, Goto, TokenPlays, TokenUnique
<1>7. PlayingCarried'
  BY <1>2 DEF EnterComplete, Goto, PlayingCarried, TokenUnique
<1>8. DeferredPlays'
  BY DEF EnterComplete, Goto, DeferredPlays, MonitorOwned, InMonitor, PlaceOfThread
<1>9. PendingMapped'
  BY DEF EnterComplete, Goto, PendingMapped, MonitorOwned, InMonitor
<1>10. PendingPlays'
  BY DEF EnterComplete, Goto, PendingPlays, PendingMapped, DeferredPlays, PlaceOfThread
<1>11. DownEmpty'
  BY DEF EnterComplete, Goto, DownEmpty
<1> QED
  BY <1>1, <1>3, <1>4, <1>5, <1>6, <1>7, <1>8, <1>9, <1>10, <1>11

\* The token is destroyed together with the membership in playingNow.
LEMMA DrainKeeps ==
  ASSUME IndInv, NEW w \in Workers, Drain(w)
  PROVE  IndInv'
<1> USE ThreadsAssumption, NullAssumption DEF IndInv, TypeOK, Job, Threads
<1>1. TypeOK'
  BY DEF Drain, Leave, Goto
<1>3. PlaceOfThread'
  BY DEF Drain, Leave, Goto, PlaceOfThread
<1>4. MonitorOwned'
  BY DEF Drain, Leave, Goto, MonitorOwned, InMonitor, Carries, TokenUnique, PlaceOfThread
<1>5. TokenUnique'
  BY DEF Drain, Leave, Goto, TokenUnique, TokenPlays, Carries
<1>6. TokenPlays'
  BY DEF Drain, Leave, Goto, TokenPlays, TokenUnique, Carries
<1>7. PlayingCarried'
  BY DEF Drain, Leave, Goto, PlayingCarried, TokenUnique, Carries
<1>8. DeferredPlays'
  BY DEF Drain, Leave, Goto, DeferredPlays, MonitorOwned, InMonitor, PlaceOfThread
<1>9. PendingMapped'
  BY DEF Drain, Leave, Goto, PendingMapped, MonitorOwned, InMonitor
<1>10. PendingPlays'
  BY DEF Drain, Leave, Goto, PendingPlays, PendingMapped, DeferredPlays, PlaceOfThread
<1>11. DownEmpty'
  BY DEF Drain, Leave, Goto, DownEmpty
<1> QED
  BY <1>1, <1>3, <1>4, <1>5, <1>6, <1>7, <1>8, <1>9, <1>10, <1>11

\* The worker keeps the token for the next task of the act.
LEMMA PollKeeps ==
  ASSUME IndInv, NEW w \in Workers, Poll(w)
  PROVE  IndInv'
<1> USE ThreadsAssumption, NullAssumption DEF IndInv, TypeOK, Job, Threads
<1>1. TypeOK'
  <2>1. job[w] \in Job
    BY DEF Poll
  <2>2. pending[job[w].act] \in Seq(Tasks) /\ pending[job[w].act] # <<>>
    BY <2>1 DEF Poll
  <2>3. /\ Head(pending[job[w].act]) \in Tasks
        /\ Tail(pending[job[w].act]) \in Seq(Tasks)
    BY <2>2
  <2> QED
    BY <2>1, <2>3 DEF Poll, Goto
<1>2. \A x \in Threads, b \in Acts : Carries(x, b)' <=> Carries(x, b)
  BY DEF Poll, Goto, Carries, PlaceOfThread
<1>3. PlaceOfThread'
  BY DEF Poll, Goto, PlaceOfThread
<1>4. MonitorOwned'
  BY DEF Poll, Goto, MonitorOwned, InMonitor, Carries, TokenUnique, PlaceOfThread
<1>5. TokenUnique'
  BY <1>2 DEF Poll, Goto, TokenUnique, TokenPlays
<1>6. TokenPlays'
  BY <1>2 DEF Poll, Goto, TokenPlays, TokenUnique
<1>7. PlayingCarried'
  BY <1>2 DEF Poll, Goto, PlayingCarried, TokenUnique
<1>8. DeferredPlays'
  BY DEF Poll, Goto, DeferredPlays, MonitorOwned, InMonitor, PlaceOfThread
<1>9. PendingMapped'
  BY DEF Poll, Goto, PendingMapped, MonitorOwned, InMonitor
<1>10. PendingPlays'
  BY DEF Poll, Goto, PendingPlays, PendingMapped, DeferredPlays, PlaceOfThread
<1>11. DownEmpty'
  BY DEF Poll, Goto, DownEmpty
<1> QED
  BY <1>1, <1>3, <1>4, <1>5, <1>6, <1>7, <1>8, <1>9, <1>10, <1>11

\* The jobs of the executor are dropped: down excuses what they carried.
LEMMA ShutdownKeeps ==
  ASSUME IndInv, Shutdown
  PROVE  IndInv'
<1> USE ThreadsAssumption, NullAssumption DEF IndInv, TypeOK, Job, Threads
<1>1. TypeOK'
  BY DEF Shutdown
<1>2. \A x \in Threads, b \in Acts : Carries(x, b)' <=> Carries(x, b)
  BY DEF Shutdown, Carries, PlaceOfThread
<1>3. PlaceOfThread'
  BY DEF Shutdown, PlaceOfThread
<1>4. MonitorOwned'
  BY DEF Shutdown, MonitorOwned, InMonitor, Carries, TokenUnique, PlaceOfThread
<1>5. TokenUnique'
  BY <1>2 DEF Shutdown, TokenUnique, TokenPlays
<1>6. TokenPlays'
  BY <1>2 DEF Shutdown, TokenPlays, TokenUnique
<1>7. PlayingCarried'
  BY <1>2 DEF Shutdown, PlayingCarried, TokenUnique
<1>8. DeferredPlays'
  BY DEF Shutdown, DeferredPlays, MonitorOwned, InMonitor, PlaceOfThread
<1>9. PendingMapped'
  BY DEF Shutdown, PendingMapped, MonitorOwned, InMonitor
<1>10. PendingPlays'
  BY DEF Shutdown, PendingPlays, PendingMapped, DeferredPlays, PlaceOfThread
<1>11. DownEmpty'
  BY DEF Shutdown, DownEmpty
<1> QED
  BY <1>1, <1>3, <1>4, <1>5, <1>6, <1>7, <1>8, <1>9, <1>10, <1>11

\* Only the empty queue of an idle act is collected.
LEMMA CollectKeeps ==
  ASSUME IndInv, NEW a \in Acts, Collect(a)
  PROVE  IndInv'
<1> USE ThreadsAssumption, NullAssumption DEF IndInv, TypeOK, Job, Threads
<1>1. TypeOK'
  BY DEF Collect
<1>2. \A x \in Threads, b \in Acts : Carries(x, b)' <=> Carries(x, b)
  BY DEF Collect, Carries, PlaceOfThread
<1>3. PlaceOfThread'
  BY DEF Collect, PlaceOfThread
<1>4. MonitorOwned'
  BY DEF Collect, MonitorOwned, InMonitor, Carries, TokenUnique, PlaceOfThread
<1>5. TokenUnique'
  BY <1>2 DEF Collect, TokenUnique, TokenPlays
<1>6. TokenPlays'
  BY <1>2 DEF Collect, TokenPlays, TokenUnique
<1>7. PlayingCarried'
  BY <1>2 DEF Collect, PlayingCarried, TokenUnique
<1>8. DeferredPlays'
  BY DEF Collect, DeferredPlays, MonitorOwned, InMonitor, PlaceOfThread
<1>9. PendingMapped'
  BY DEF Collect, PendingMapped, MonitorOwned, InMonitor
<1>10. PendingPlays'
  BY DEF Collect, PendingPlays, PendingMapped, DeferredPlays, PlaceOfThread
<1>11. DownEmpty'
  BY DEF Collect, DownEmpty
<1> QED
  BY <1>1, <1>3, <1>4, <1>5, <1>6, <1>7, <1>8, <1>9, <1>10, <1>11

\* A step that changes nothing.
LEMMA StutterKeeps ==
  ASSUME IndInv, UNCHANGED vars
  PROVE  IndInv'
<1> USE ThreadsAssumption, NullAssumption DEF IndInv, TypeOK, Job, Threads
<1>1. TypeOK'
  BY DEF vars
<1>2. \A x \in Threads, b \in Acts : Carries(x, b)' <=> Carries(x, b)
  BY DEF vars, Carries, PlaceOfThread
<1>3. PlaceOfThread'
  BY DEF vars, PlaceOfThread
<1>4. MonitorOwned'
  BY DEF vars, MonitorOwned, InMonitor, Carries, TokenUnique, PlaceOfThread
<1>5. TokenUnique'
  BY <1>2 DEF vars, TokenUnique, TokenPlays
<1>6. TokenPlays'
  BY <1>2 DEF vars, TokenPlays, TokenUnique
<1>7. PlayingCarried'
  BY <1>2 DEF vars, PlayingCarried, TokenUnique
<1>8. DeferredPlays'
  BY DEF vars, DeferredPlays, MonitorOwned, InMonitor, PlaceOfThread
<1>9. PendingMapped'
  BY DEF vars, PendingMapped, MonitorOwned, InMonitor
<1>10. PendingPlays'
  BY DEF vars, PendingPlays, PendingMapped, DeferredPlays, PlaceOfThread
<1>11. DownEmpty'
  BY DEF vars, DownEmpty
<1> QED
  BY <1>1, <1>3, <1>4, <1>5, <1>6, <1>7, <1>8, <1>9, <1>10, <1>11
-----------------------------------------------------------------------------

\* Nobody is inside the pool and nothing is queued.
LEMMA InitInv ==
  ASSUME Init
  PROVE  IndInv
<1> USE DEF Init, Threads
<1>1. TypeOK
  <2>1. \A a \in Acts : <<>> \in Seq(Tasks)
    OBVIOUS
  <2> QED
    BY <2>1 DEF TypeOK
<1>2. PlaceOfThread /\ MonitorOwned
  BY DEF PlaceOfThread, MonitorOwned, InMonitor
<1>3. TokenUnique /\ TokenPlays
  BY DEF TokenUnique, TokenPlays, Carries
<1>4. PlayingCarried /\ DeferredPlays
  BY DEF PlayingCarried, DeferredPlays
<1>5. PendingMapped /\ PendingPlays
  BY DEF PendingMapped, PendingPlays
<1>6. DownEmpty
  BY DEF DownEmpty
<1> QED
  BY <1>1, <1>2, <1>3, <1>4, <1>5, <1>6 DEF IndInv

\* Every step of the pool keeps IndInv.
LEMMA NextInv ==
  ASSUME IndInv, [Next]_vars
  PROVE  IndInv'
<1>1. ASSUME NEW s \in Submitters, NEW a \in Acts, NEW t \in Tasks, Submit(s, a, t)
      PROVE  IndInv'
  BY <1>1, SubmitKeeps
<1>2. ASSUME NEW s \in Submitters, SubmitterStep(s)
      PROVE  IndInv'
  BY <1>2, PlayKeeps, DeferKeeps, LookupKeeps, CreateKeeps, EnqueueKeeps,
     ExecuteKeeps DEF SubmitterStep, Threads
<1>3. ASSUME NEW w \in Workers, NEW j \in Job, Take(w, j)
      PROVE  IndInv'
  BY <1>3, TakeKeeps
<1>4. ASSUME NEW w \in Workers, WorkerStep(w)
      PROVE  IndInv'
  BY <1>4, FinishKeeps, EnterCompleteKeeps, LookupKeeps, CreateKeeps, DrainKeeps,
     PollKeeps, ExecuteKeeps DEF WorkerStep, Threads
<1>5. ASSUME Shutdown
      PROVE  IndInv'
  BY <1>5, ShutdownKeeps
<1>6. ASSUME NEW a \in Acts, Collect(a)
      PROVE  IndInv'
  BY <1>6, CollectKeeps
<1>7. CASE UNCHANGED vars
  BY <1>7, StutterKeeps
<1> QED
  BY <1>1, <1>2, <1>3, <1>4, <1>5, <1>6, <1>7 DEF Next

\* The token invariant holds in every reachable state of the pool.
THEOREM PoolInvariant == Safety => []IndInv
<1>1. Init => IndInv
  BY InitInv
<1>2. IndInv /\ [Next]_vars => IndInv'
  BY NextInv
<1> QED
  BY <1>1, <1>2, PTL DEF Safety

\* Every state of the pool is well formed, for any acts, tasks and threads.
THEOREM PoolTypeOK == Safety => []TypeOK
<1>1. IndInv => TypeOK
  BY DEF IndInv
<1> QED
  BY <1>1, PoolInvariant, PTL

\* Two workers never run tasks of one act at a time: each would carry the
\* act's token.
THEOREM PoolMutualExclusion == Safety => []MutualExclusion
<1>1. IndInv => MutualExclusion
  BY DEF IndInv, TypeOK, TokenUnique, Carries, MutualExclusion, Job, Threads
<1> QED
  BY <1>1, PoolInvariant, PTL

\* A waiting task has an act that plays, and a playing act has its token.
THEOREM PoolNothingStranded == Safety => []NothingStranded
<1>1. IndInv => NothingStranded
  BY DEF IndInv, PendingPlays, PlayingCarried, NothingStranded
<1> QED
  BY <1>1, PoolInvariant, PTL

\* After shutdownNow the executor is empty and nothing is added to it, so
\* no worker starts a task.
THEOREM PoolNothingStartsWhenDown == Safety => NothingStartsWhenDown
<1> DEFINE Quiet == \A w \in Workers : down /\ pc[w] # "run" => pc'[w] # "run"
<1>1. ASSUME IndInv, [Next]_vars
      PROVE  Quiet
  <2> USE ThreadsAssumption, <1>1 DEF IndInv, TypeOK, Threads, Goto, Leave
  <2> SUFFICES ASSUME NEW w \in Workers, down, pc[w] # "run"
               PROVE  pc'[w] # "run"
    OBVIOUS
  <2>1. ASSUME NEW s \in Submitters, NEW a \in Acts, NEW t \in Tasks,
               Submit(s, a, t)
        PROVE  pc'[w] # "run"
    BY <2>1 DEF Submit
  <2>2. ASSUME NEW s \in Submitters, SubmitterStep(s)
        PROVE  pc'[w] # "run"
    BY <2>2 DEF SubmitterStep, Play, Defer, Lookup, Create, Enqueue, Execute
  <2>3. ASSUME NEW v \in Workers, NEW j \in Job, Take(v, j)
        PROVE  pc'[w] # "run"
    BY <2>3 DEF Take, DownEmpty
  <2>4. ASSUME NEW v \in Workers, WorkerStep(v)
        PROVE  pc'[w] # "run"
    BY <2>4 DEF WorkerStep, Finish, EnterComplete, Lookup, Create, Drain, Poll,
                Execute
  <2>5. CASE Shutdown
    BY <2>5 DEF Shutdown
  <2>6. ASSUME NEW a \in Acts, Collect(a)
        PROVE  pc'[w] # "run"
    BY <2>6 DEF Collect
  <2>7. CASE UNCHANGED vars
    BY <2>7 DEF vars
  <2> QED
    BY <2>1, <2>2, <2>3, <2>4, <2>5, <2>6, <2>7 DEF Next
<1>2. IndInv /\ [Next]_vars => [Quiet]_vars
  BY <1>1
<1> QED
  BY <1>2, PoolInvariant, PTL DEF Safety, NothingStartsWhenDown
-----------------------------------------------------------------------------
(***************************************************************************)
(* Refinement of SerialActors.  Every step of ActorPool is a step of       *)
(* SerialActors, or none: the steps that hand a task to the executor or to *)
(* the queue are Submit, taking and running a job are Start and Finish,    *)
(* and what a shutdown drops is what SerialActors lets it drop.  An act    *)
(* has one token (IndInv), so that the sets the mapping chooses from have  *)
(* one element at most.                                                    *)
(***************************************************************************)

LEMMA BehindNone == \A q : Behind({}, q) = q
  BY DEF Behind

LEMMA BehindOne == \A x, q : Behind({x}, q) = <<x>> \o q
  BY DEF Behind

LEMMA OneOfAtMostOne == OneOf({}) = Null /\ \A x : OneOf({x}) = x
  BY DEF OneOf

LEMMA ConsTail ==
  ASSUME NEW q \in Seq(Tasks), NEW t \in Tasks
  PROVE  /\ <<t>> \o q # <<>>
         /\ Head(<<t>> \o q) = t
         /\ Tail(<<t>> \o q) = q
         /\ \A u \in Tasks : <<t>> \o Append(q, u) = Append(<<t>> \o q, u)
         /\ q # <<>> => <<Head(q)>> \o Tail(q) = q
  OBVIOUS

\* What the mapping makes of a state and of its successor.
LEMMA View ==
  /\ queueBar = [b \in Acts |-> Behind(Scheduled(b), pending[b])]
  /\ queueBar' = [b \in Acts |-> Behind(Scheduled(b)', pending'[b])]
  /\ runningBar = [b \in Acts |-> OneOf(Running(b))]
  /\ runningBar' = [b \in Acts |-> OneOf(Running(b)')]
  BY DEF queueBar, runningBar

\* Steps that change the queue, or the task, of one act.
LEMMA QueueUpdate ==
  ASSUME NEW a \in Acts, NEW q, Behind(Scheduled(a)', pending'[a]) = q,
         \A b \in Acts \ {a} : /\ Scheduled(b)' = Scheduled(b)
                               /\ pending'[b] = pending[b]
  PROVE  queueBar' = [queueBar EXCEPT ![a] = q]
<1>1. \A b \in Acts : queueBar'[b] = IF b = a THEN q ELSE queueBar[b]
  BY View
<1>2. /\ queueBar' = [b \in Acts |-> queueBar'[b]]
      /\ queueBar = [b \in Acts |-> queueBar[b]]
  BY View, Zenon
<1> QED
  BY <1>1, <1>2

LEMMA RunningUpdate ==
  ASSUME NEW a \in Acts, NEW r, OneOf(Running(a)') = r,
         \A b \in Acts \ {a} : Running(b)' = Running(b)
  PROVE  runningBar' = [runningBar EXCEPT ![a] = r]
<1>1. \A b \in Acts : runningBar'[b] = IF b = a THEN r ELSE runningBar[b]
  BY View
<1>2. /\ runningBar' = [b \in Acts |-> runningBar'[b]]
      /\ runningBar = [b \in Acts |-> runningBar[b]]
  BY View, Zenon
<1> QED
  BY <1>1, <1>2

\* Scheduled and Running look at ready and at the jobs of two places.
LEMMA ViewFrame ==
  ASSUME ready' = ready,
         \A th \in Threads : /\ pc'[th] = "execute" <=> pc[th] = "execute"
                             /\ pc'[th] = "run" <=> pc[th] = "run"
                             /\ pc[th] \in {"execute", "run"} => job'[th] = job[th]
  PROVE  \A b \in Acts : Scheduled(b)' = Scheduled(b) /\ Running(b)' = Running(b)
  BY DEF Scheduled, Running, Threads

LEMMA SameView ==
  ASSUME \A b \in Acts : /\ Scheduled(b)' = Scheduled(b)
                         /\ Running(b)' = Running(b)
                         /\ pending'[b] = pending[b],
         down' = down
  PROVE  UNCHANGED Serial!vars
  BY View DEF Serial!vars

\* One token per act: one scheduled task at most, and none while one runs.
LEMMA ScheduledOnce ==
  ASSUME IndInv, NEW a \in Acts, NEW t \in Scheduled(a)
  PROVE  Scheduled(a) = {t}
<1>1. t \in Tasks
  BY DEF Scheduled
<1> SUFFICES ASSUME NEW u \in Scheduled(a) PROVE u = t
  OBVIOUS
<1> DEFINE J(x) == [act |-> a, task |-> x]
<1>2. \A x : J(x).act = a /\ J(x).task = x
  OBVIOUS
<1>3. \A x : x \in Scheduled(a) =>
        J(x) \in ready \/ \E th \in Threads : pc[th] = "execute" /\ job[th] = J(x)
  BY DEF Scheduled
<1>4. \A x : \A th \in Threads : pc[th] = "execute" /\ job[th] = J(x) => Carries(th, a)
  BY DEF Carries
<1> HIDE DEF J
<1>5. CASE J(t) \in ready /\ J(u) \in ready
  BY <1>2, <1>5 DEF IndInv, TokenUnique
<1>6. CASE J(t) \in ready /\ J(u) \notin ready
  BY <1>2, <1>3, <1>4, <1>6 DEF IndInv, TokenUnique
<1>7. CASE J(t) \notin ready /\ J(u) \in ready
  BY <1>2, <1>3, <1>4, <1>7 DEF IndInv, TokenUnique
<1>8. CASE J(t) \notin ready /\ J(u) \notin ready
  BY <1>2, <1>3, <1>4, <1>8 DEF IndInv, TokenUnique
<1> QED
  BY <1>5, <1>6, <1>7, <1>8

LEMMA RunningOnce ==
  ASSUME IndInv, NEW a \in Acts, NEW t \in Running(a)
  PROVE  Running(a) = {t} /\ Scheduled(a) = {}
<1> DEFINE J(x) == [act |-> a, task |-> x]
<1>1. \A x : J(x).act = a /\ J(x).task = x
  OBVIOUS
<1>2. \A x \in Running(a) :
        \E w \in Workers : pc[w] = "run" /\ job[w] = J(x)
  BY DEF Running
<1>3. \A x \in Running(a), w \in Workers :
        pc[w] = "run" /\ job[w] = J(x) => Carries(w, a)
  BY DEF Carries
<1>4. \A x \in Scheduled(a) :
        J(x) \in ready \/ \E th \in Threads : pc[th] = "execute" /\ job[th] = J(x)
  BY DEF Scheduled
<1>5. \A x \in Scheduled(a), th \in Threads :
        pc[th] = "execute" /\ job[th] = J(x) => Carries(th, a)
  BY DEF Carries
<1> HIDE DEF J
<1>6. PICK w \in Workers : pc[w] = "run" /\ job[w] = J(t) /\ Carries(w, a)
  BY <1>2, <1>3
<1>7. ASSUME NEW u \in Running(a) PROVE u = t
  BY <1>1, <1>2, <1>3, <1>6 DEF IndInv, TokenUnique, Threads
<1>8. ASSUME NEW u \in Scheduled(a) PROVE FALSE
  BY <1>1, <1>4, <1>5, <1>6 DEF IndInv, TokenUnique, Threads
<1> QED
  BY <1>7, <1>8

\* Steps that neither take, run nor hand over a task.
LEMMA QuietSim ==
  ASSUME IndInv,
         \/ \E s \in Submitters : \/ \E a \in Acts, t \in Tasks : Submit(s, a, t)
                                  \/ Defer(s)
         \/ \E th \in Threads : Lookup(th) \/ Create(th)
         \/ \E w \in Workers : EnterComplete(w) \/ Drain(w)
         \/ \E a \in Acts : Collect(a)
         \/ UNCHANGED vars
  PROVE  UNCHANGED Serial!vars
<1> USE ThreadsAssumption, NullAssumption DEF IndInv, TypeOK, Job, Threads
<1>1. ASSUME NEW s \in Submitters, NEW a \in Acts, NEW t \in Tasks, Submit(s, a, t)
      PROVE  UNCHANGED Serial!vars
  BY <1>1, ViewFrame, SameView DEF Submit, Goto
<1>2. ASSUME NEW s \in Submitters, Defer(s)
      PROVE  UNCHANGED Serial!vars
  BY <1>2, ViewFrame, SameView DEF Defer, Goto
<1>3. ASSUME NEW th \in Threads, Lookup(th)
      PROVE  UNCHANGED Serial!vars
  BY <1>3, ViewFrame, SameView DEF Lookup, Goto
<1>4. ASSUME NEW th \in Threads, Create(th)
      PROVE  UNCHANGED Serial!vars
  BY <1>4, ViewFrame, SameView DEF Create, Goto, PendingMapped
<1>5. ASSUME NEW w \in Workers, EnterComplete(w)
      PROVE  UNCHANGED Serial!vars
  BY <1>5, ViewFrame, SameView DEF EnterComplete, Goto
<1>6. ASSUME NEW w \in Workers, Drain(w)
      PROVE  UNCHANGED Serial!vars
  BY <1>6, ViewFrame, SameView DEF Drain, Leave, Goto
<1>7. ASSUME NEW a \in Acts, Collect(a)
      PROVE  UNCHANGED Serial!vars
  BY <1>7, ViewFrame, SameView DEF Collect, PendingPlays
<1>8. CASE UNCHANGED vars
  BY <1>8, ViewFrame, SameView DEF vars
<1> QED
  BY <1>1, <1>2, <1>3, <1>4, <1>5, <1>6, <1>7, <1>8

\* The act starts to play: its task is the queue.
LEMMA PlaySim ==
  ASSUME IndInv, NEW s \in Submitters, Play(s)
  PROVE  \E a \in Acts, t \in Tasks : Serial!Submit(a, t)
<1> USE ThreadsAssumption, NullAssumption DEF IndInv, TypeOK, Job, Threads
<1>1. PICK a \in Acts, t \in Tasks : job[s] = [act |-> a, task |-> t]
  BY DEF Play
<1>2. Scheduled(a) = {}
  BY <1>1 DEF Play, Scheduled, TokenPlays, Carries
<1>3. Scheduled(a)' = {t}
  BY <1>1, <1>2 DEF Play, Goto, Scheduled
<1>4. \A b \in Acts \ {a} : Scheduled(b)' = Scheduled(b)
  BY <1>1 DEF Play, Goto, Scheduled
<1>5. \A b \in Acts : Running(b)' = Running(b)
  BY <1>1 DEF Play, Goto, Running
<1>6. pending[a] = <<>> /\ pending' = pending
  BY <1>1 DEF Play, PendingPlays
<1>7. queueBar[a] = <<>>
  BY <1>2, <1>6, BehindNone, View
<1>8. <<t>> \o <<>> = Append(<<>>, t)
  OBVIOUS
<1>9. Behind(Scheduled(a)', pending'[a]) = Append(queueBar[a], t)
  BY <1>3, <1>6, <1>7, <1>8, BehindOne
<1>10. queueBar' = [queueBar EXCEPT ![a] = Append(queueBar[a], t)]
  BY <1>4, <1>6, <1>9, QueueUpdate
<1>11. runningBar' = runningBar /\ down' = down
  BY <1>5, View DEF Play
<1> QED
  BY <1>10, <1>11 DEF Serial!Submit

\* A task is added behind the scheduled one, if there is one.
LEMMA EnqueueSim ==
  ASSUME IndInv, NEW s \in Submitters, Enqueue(s)
  PROVE  \E a \in Acts, t \in Tasks : Serial!Submit(a, t)
<1> USE ThreadsAssumption, NullAssumption DEF IndInv, TypeOK, Job, Threads
<1>1. PICK a \in Acts, t \in Tasks : job[s] = [act |-> a, task |-> t]
  BY DEF Enqueue
<1> DEFINE q == pending[a]
<1>2. /\ q \in Seq(Tasks)
      /\ pending' = [pending EXCEPT ![a] = Append(q, t)]
  BY <1>1 DEF Enqueue
<1>3. \A b \in Acts : Scheduled(b)' = Scheduled(b) /\ Running(b)' = Running(b)
  BY ViewFrame DEF Enqueue, Leave, Goto
<1>4. Behind(Scheduled(a), Append(q, t)) = Append(Behind(Scheduled(a), q), t)
  <2>1. CASE Scheduled(a) = {}
    BY <2>1, BehindNone
  <2>2. ASSUME NEW u \in Scheduled(a)
        PROVE  Behind(Scheduled(a), Append(q, t)) = Append(Behind(Scheduled(a), q), t)
    <3>1. Scheduled(a) = {u} /\ u \in Tasks
      BY ScheduledOnce DEF Scheduled
    <3>2. <<u>> \o Append(q, t) = Append(<<u>> \o q, t)
      BY <1>2, <3>1, ConsTail
    <3> QED BY <3>1, <3>2, BehindOne
  <2> QED BY <2>1, <2>2
<1>5. queueBar[a] = Behind(Scheduled(a), q)
  BY View
<1>6. Scheduled(a)' = Scheduled(a) /\ pending'[a] = Append(q, t)
  BY <1>2, <1>3
<1>7. Behind(Scheduled(a)', pending'[a]) = Append(queueBar[a], t)
  BY <1>4, <1>5, <1>6
<1>8. \A b \in Acts \ {a} : Scheduled(b)' = Scheduled(b) /\ pending'[b] = pending[b]
  BY <1>2, <1>3
<1>9. queueBar' = [queueBar EXCEPT ![a] = Append(queueBar[a], t)]
  BY <1>7, <1>8, QueueUpdate
<1>10. runningBar' = runningBar /\ down' = down
  BY <1>3, View DEF Enqueue
<1> QED
  BY <1>9, <1>10 DEF Serial!Submit

\* The job moves from a thread to the executor; after a shutdown it is lost.
LEMMA ExecuteSim ==
  ASSUME IndInv, NEW th \in Threads, Execute(th)
  PROVE  UNCHANGED Serial!vars \/ \E a \in Acts : Serial!Drop(a)
<1> USE ThreadsAssumption, NullAssumption DEF IndInv, TypeOK, Job
<1>1. PICK a \in Acts, t \in Tasks : job[th] = [act |-> a, task |-> t]
  BY DEF Execute
<1>2. t \in Scheduled(a)
  BY <1>1 DEF Scheduled, Execute
<1>3. Scheduled(a) = {t}
  BY <1>2, ScheduledOnce
<1>4. \A b \in Acts : Running(b)' = Running(b)
  BY <1>1 DEF Execute, Leave, Goto, Running, Threads
<1>5. pending' = pending /\ down' = down
  BY DEF Execute
<1>6. runningBar' = runningBar
  BY <1>4, View
<1>7. \A b \in Acts \ {a} : Scheduled(b)' = Scheduled(b)
  BY <1>1 DEF Execute, Leave, Goto, Scheduled
<1>8. CASE ~ down
  <2>1. ready' = ready \cup {job[th]}
    BY <1>8 DEF Execute
  <2>2. \A x \in Scheduled(a)' : x \in Scheduled(a)
    BY <1>1, <1>2, <2>1 DEF Execute, Leave, Goto, Scheduled
  <2>3. t \in Scheduled(a)'
    BY <1>1, <2>1 DEF Scheduled
  <2>4. Scheduled(a)' = Scheduled(a)
    BY <1>3, <2>2, <2>3
  <2>5. \A b \in Acts : Scheduled(b)' = Scheduled(b)
    BY <1>7, <2>4
  <2> QED
    BY <1>4, <1>5, <2>5, SameView
<1>9. CASE down
  <2>1. ready' = ready /\ ready = {}
    BY <1>9 DEF Execute, DownEmpty
  <2>2. \A x \in Scheduled(a)' : x \in Scheduled(a) /\ x # t
    <3>1. \A o \in Threads : pc[o] = "execute" /\ job[o].act = a => o = th
      BY <1>1 DEF TokenUnique, Carries, Execute
    <3> QED
      BY <1>1, <2>1, <3>1 DEF Execute, Leave, Goto, Scheduled
  <2>3. Scheduled(a)' = {}
    BY <1>3, <2>2
  <2>4. pending[a] \in Seq(Tasks)
    OBVIOUS
  <2>5. queueBar[a] = <<t>> \o pending[a]
    BY <1>3, BehindOne, View
  <2>6. queueBar[a] # <<>> /\ Tail(queueBar[a]) = pending[a]
    BY <2>4, <2>5, ConsTail
  <2>7. Behind(Scheduled(a)', pending'[a]) = Tail(queueBar[a])
    BY <1>5, <2>3, <2>6, BehindNone
  <2>8. queueBar' = [queueBar EXCEPT ![a] = Tail(queueBar[a])]
    BY <1>5, <1>7, <2>7, QueueUpdate
  <2> QED
    BY <1>5, <1>6, <1>9, <2>6, <2>8 DEF Serial!Drop
<1> QED
  BY <1>8, <1>9

\* A worker takes the scheduled task.
LEMMA TakeSim ==
  ASSUME IndInv, NEW w \in Workers, NEW j \in Job, Take(w, j)
  PROVE  \E a \in Acts : Serial!Start(a)
<1> USE ThreadsAssumption, NullAssumption DEF IndInv, TypeOK, Job
<1>1. PICK a \in Acts, t \in Tasks : j = [act |-> a, task |-> t]
  OBVIOUS
<1>2. j \in ready /\ ~ down
  BY DEF Take, DownEmpty
<1>3. Scheduled(a) = {t}
  <2>1. t \in Scheduled(a)
    BY <1>1, <1>2 DEF Scheduled
  <2> QED BY <2>1, ScheduledOnce
<1>4. Running(a) = {}
  <2>1. ASSUME NEW u \in Running(a) PROVE FALSE
    BY <1>3, <2>1, RunningOnce
  <2> QED BY <2>1
<1>5. Scheduled(a)' = {}
  <2>1. \A x \in Scheduled(a)' : x \in Scheduled(a)
    BY DEF Take, Goto, Scheduled, Threads
  <2>2. t \notin Scheduled(a)'
    BY <1>1, <1>2 DEF Take, Goto, Scheduled, Threads, TokenUnique, Carries
  <2> QED BY <1>3, <2>1, <2>2
<1>6. Running(a)' = {t}
  <2>1. t \in Running(a)'
    BY <1>1 DEF Take, Goto, Running, Threads
  <2>2. \A x \in Running(a)' : x = t \/ x \in Running(a)
    BY <1>1 DEF Take, Goto, Running, Threads
  <2> QED BY <1>4, <2>1, <2>2
<1>7. \A b \in Acts \ {a} : Scheduled(b)' = Scheduled(b) /\ Running(b)' = Running(b)
  BY <1>1 DEF Take, Goto, Scheduled, Running, Threads
<1>8. pending' = pending /\ down' = down
  BY DEF Take
<1>9. pending[a] \in Seq(Tasks)
  OBVIOUS
<1>10. queueBar[a] = <<t>> \o pending[a]
  BY <1>3, BehindOne, View
<1>11. queueBar[a] # <<>> /\ Head(queueBar[a]) = t /\ Tail(queueBar[a]) = pending[a]
  BY <1>9, <1>10, ConsTail
<1>12. Behind(Scheduled(a)', pending'[a]) = Tail(queueBar[a])
  BY <1>5, <1>8, <1>11, BehindNone
<1>13. queueBar' = [queueBar EXCEPT ![a] = Tail(queueBar[a])]
  BY <1>7, <1>8, <1>12, QueueUpdate
<1>14. runningBar[a] = Null
  BY <1>4, OneOfAtMostOne, View
<1>15. runningBar' = [runningBar EXCEPT ![a] = t]
  BY <1>6, <1>7, OneOfAtMostOne, RunningUpdate
<1> QED
  BY <1>2, <1>8, <1>11, <1>13, <1>14, <1>15 DEF Serial!Start

\* The task returns or throws.
LEMMA FinishSim ==
  ASSUME IndInv, NEW w \in Workers, Finish(w)
  PROVE  \E a \in Acts : Serial!Finish(a)
<1> USE ThreadsAssumption, NullAssumption DEF IndInv, TypeOK, Job
<1>1. PICK a \in Acts, t \in Tasks : job[w] = [act |-> a, task |-> t]
  BY DEF Finish, Threads
<1>2. t \in Running(a)
  BY <1>1 DEF Finish, Running
<1>3. Running(a) = {t}
  BY <1>2, RunningOnce
<1>4. Running(a)' = {}
  <2>1. \A v \in Workers : pc[v] = "run" /\ job[v].act = a => v = w
    BY <1>1 DEF Finish, TokenUnique, Carries, Threads
  <2> QED
    BY <1>1, <2>1 DEF Finish, Goto, Running, Threads
<1>5. \A b \in Acts \ {a} : Running(b)' = Running(b)
  BY <1>1 DEF Finish, Goto, Running, Threads
<1>6. \A b \in Acts : Scheduled(b)' = Scheduled(b)
  BY DEF Finish, Goto, Scheduled, Threads
<1>7. pending' = pending /\ down' = down
  BY DEF Finish
<1>8. queueBar' = queueBar
  BY <1>6, <1>7, View
<1>9. runningBar[a] = t /\ t # Null
  BY <1>3, OneOfAtMostOne, View
<1>10. runningBar' = [runningBar EXCEPT ![a] = Null]
  BY <1>4, <1>5, OneOfAtMostOne, RunningUpdate
<1> QED
  BY <1>7, <1>8, <1>9, <1>10 DEF Serial!Finish

\* The first of the waiting tasks becomes the scheduled one.
LEMMA PollSim ==
  ASSUME IndInv, NEW w \in Workers, Poll(w)
  PROVE  UNCHANGED Serial!vars
<1> USE ThreadsAssumption, NullAssumption DEF IndInv, TypeOK, Job
<1>1. PICK a \in Acts, t \in Tasks : job[w] = [act |-> a, task |-> t]
  BY DEF Poll, Threads
<1> DEFINE q == pending[a]
           h == Head(q)
<1>2. /\ q \in Seq(Tasks) /\ q # <<>>
      /\ pending' = [pending EXCEPT ![a] = Tail(q)]
      /\ job' = [job EXCEPT ![w] = [act |-> a, task |-> h]]
      /\ h \in Tasks
  BY <1>1 DEF Poll
<1>3. Scheduled(a) = {}
  <2>1. w \in Threads /\ Carries(w, a) /\ pc[w] = "found"
    BY <1>1 DEF Poll, Carries, Threads
  <2>2. ASSUME NEW u \in Tasks, [act |-> a, task |-> u] \in ready PROVE FALSE
    BY <2>1, <2>2 DEF TokenUnique
  <2>3. ASSUME NEW u \in Tasks, NEW th \in Threads, pc[th] = "execute",
               job[th] = [act |-> a, task |-> u]
        PROVE  FALSE
    <3>1. Carries(th, a)
      BY <2>3 DEF Carries
    <3> QED BY <2>1, <2>3, <3>1 DEF TokenUnique
  <2> QED BY <2>2, <2>3 DEF Scheduled
<1>4. Scheduled(a)' = {h}
  <2>1. h \in Scheduled(a)'
    BY <1>1, <1>2 DEF Poll, Goto, Scheduled, Threads
  <2>2. \A x \in Scheduled(a)' : x = h \/ x \in Scheduled(a)
    BY <1>1, <1>2 DEF Poll, Goto, Scheduled, Threads
  <2> QED BY <1>3, <2>1, <2>2
<1>5. \A b \in Acts \ {a} : Scheduled(b)' = Scheduled(b)
  BY <1>1, <1>2 DEF Poll, Goto, Scheduled, Threads
<1>6. \A b \in Acts : Running(b)' = Running(b)
  BY <1>1, <1>2 DEF Poll, Goto, Running, Threads
<1>7. queueBar[a] = q
  BY <1>3, BehindNone, View
<1>8. <<h>> \o Tail(q) = q
  BY <1>2, ConsTail
<1>9. Behind(Scheduled(a)', pending'[a]) = queueBar[a]
  BY <1>2, <1>4, <1>7, <1>8, BehindOne
<1>10. queueBar' = [queueBar EXCEPT ![a] = queueBar[a]]
  BY <1>2, <1>5, <1>9, QueueUpdate
<1>11. queueBar' = queueBar
  <2>1. queueBar = [b \in Acts |-> queueBar[b]]
    BY View, Zenon
  <2> QED BY <1>10, <2>1
<1>12. runningBar' = runningBar /\ down' = down
  BY <1>6, View DEF Poll
<1> QED
  BY <1>11, <1>12 DEF Serial!vars

\* The acts whose job is in the executor lose it.
LEMMA ShutdownSim ==
  ASSUME IndInv, Shutdown
  PROVE  Serial!Shutdown
<1> USE ThreadsAssumption, NullAssumption DEF IndInv, TypeOK, Job
<1> DEFINE D == {a \in Acts : \E t \in Tasks : [act |-> a, task |-> t] \in ready}
<1>1. \A b \in Acts : Running(b)' = Running(b)
  BY DEF Shutdown, Running
<1>2. ASSUME NEW a \in D
      PROVE  queueBar[a] # <<>> /\ queueBar'[a] = Tail(queueBar[a])
  <2>1. PICK t \in Tasks : [act |-> a, task |-> t] \in ready
    OBVIOUS
  <2>2. Scheduled(a) = {t}
    <3>1. t \in Scheduled(a)
      BY <2>1 DEF Scheduled
    <3> QED BY <3>1, ScheduledOnce
  <2>3. Scheduled(a)' = {}
    BY <2>1 DEF Shutdown, Scheduled, TokenUnique, Carries
  <2>4. queueBar[a] = <<t>> \o pending[a] /\ pending[a] \in Seq(Tasks)
    BY <2>2, BehindOne, View
  <2>5. queueBar[a] # <<>> /\ Tail(queueBar[a]) = pending[a]
    BY <2>4, ConsTail
  <2>6. queueBar'[a] = pending[a]
    BY <2>3, BehindNone, View DEF Shutdown
  <2> QED BY <2>5, <2>6
<1>3. ASSUME NEW a \in Acts \ D
      PROVE  queueBar'[a] = queueBar[a]
  <2>1. Scheduled(a)' = Scheduled(a)
    BY DEF Shutdown, Scheduled
  <2> QED BY <2>1, View DEF Shutdown
<1>4. queueBar' = [a \in Acts |-> IF a \in D THEN Tail(queueBar[a]) ELSE queueBar[a]]
  <2>1. queueBar' = [a \in Acts |-> queueBar'[a]]
    BY View, Zenon
  <2> HIDE DEF D
  <2> QED BY <1>2, <1>3, <2>1
<1>5. D \in SUBSET {a \in Acts : queueBar[a] # <<>>}
  BY <1>2
<1>6. runningBar' = runningBar
  BY <1>1, View
<1> HIDE DEF D
<1> QED
  BY <1>4, <1>5, <1>6 DEF Serial!Shutdown, Shutdown

LEMMA InitSim == Init => Serial!Init
<1> SUFFICES ASSUME Init PROVE Serial!Init
  OBVIOUS
<1>1. \A a \in Acts : Scheduled(a) = {} /\ Running(a) = {}
  BY DEF Init, Scheduled, Running, Threads
<1> QED
  BY <1>1, BehindNone, OneOfAtMostOne, View DEF Init, Serial!Init

LEMMA NextSim ==
  ASSUME IndInv, [Next]_vars
  PROVE  [Serial!Next]_(Serial!vars)
<1>1. \A s \in Submitters : s \in Threads
  BY DEF Threads
<1>2. \A w \in Workers : w \in Threads
  BY DEF Threads
<1>3. ASSUME NEW s \in Submitters, NEW a \in Acts, NEW t \in Tasks, Submit(s, a, t)
      PROVE  [Serial!Next]_(Serial!vars)
  BY <1>3, QuietSim
<1>4. ASSUME NEW s \in Submitters, SubmitterStep(s)
      PROVE  [Serial!Next]_(Serial!vars)
  BY <1>1, <1>4, QuietSim, PlaySim, EnqueueSim, ExecuteSim DEF SubmitterStep, Serial!Next
<1>5. ASSUME NEW w \in Workers, NEW j \in Job, Take(w, j)
      PROVE  [Serial!Next]_(Serial!vars)
  BY <1>5, TakeSim DEF Serial!Next
<1>6. ASSUME NEW w \in Workers, WorkerStep(w)
      PROVE  [Serial!Next]_(Serial!vars)
  BY <1>2, <1>6, QuietSim, FinishSim, PollSim, ExecuteSim DEF WorkerStep, Serial!Next
<1>7. CASE Shutdown
  BY <1>7, ShutdownSim DEF Serial!Next
<1>8. ASSUME NEW a \in Acts, Collect(a)
      PROVE  [Serial!Next]_(Serial!vars)
  BY <1>8, QuietSim
<1>9. CASE UNCHANGED vars
  BY <1>9, QuietSim
<1> QED
  BY <1>3, <1>4, <1>5, <1>6, <1>7, <1>8, <1>9 DEF Next

\* The threads, the monitor, playingNow and the weak map of queues implement
\* the safety part of SerialActors: a FIFO queue per act, one task at a time.
THEOREM PoolImplementsSerialActors == Safety => Serial!Safety
<1>1. IndInv /\ [Next]_vars => [Serial!Next]_(Serial!vars)
  BY NextSim
<1> QED
  BY <1>1, InitSim, PoolInvariant, PTL DEF Safety, Serial!Safety
==============================================================================
