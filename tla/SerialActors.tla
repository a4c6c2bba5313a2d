---------------------------- MODULE SerialActors ----------------------------
(***************************************************************************)
(* What an ActorThreadPool promises its caller, without threads, locks or  *)
(* maps: every act owns a FIFO queue of submitted tasks, and at most one   *)
(* task of an act runs at a time.  Shutting the pool down may drop queued  *)
(* tasks but never reorders them, and starts nothing afterwards.           *)
(***************************************************************************)
EXTENDS Naturals, Sequences

CONSTANTS
  Acts,    \* the actors (connection handlers) tasks are submitted for
  Tasks,   \* the Runnable objects
  NoTask   \* no task is running

VARIABLES
  queue,   \* per act, the tasks accepted and not yet started, oldest first
  running, \* per act, the task being run, or NoTask
  down     \* has the pool been shut down?

vars == <<queue, running, down>>

Init ==
  /\ queue = [a \in Acts |-> <<>>]
  /\ running = [a \in Acts |-> NoTask]
  /\ down = FALSE

\* A task is accepted at the end of its act's queue.
Submit(a, t) ==
  /\ queue' = [queue EXCEPT ![a] = Append(@, t)]
  /\ UNCHANGED <<running, down>>

\* The oldest task of an act that runs nothing is started.
Start(a) ==
  /\ ~ down
  /\ running[a] = NoTask
  /\ queue[a] # <<>>
  /\ running' = [running EXCEPT ![a] = Head(queue[a])]
  /\ queue' = [queue EXCEPT ![a] = Tail(@)]
  /\ UNCHANGED down

\* The running task returns or throws.
Finish(a) ==
  /\ running[a] # NoTask
  /\ running' = [running EXCEPT ![a] = NoTask]
  /\ UNCHANGED <<queue, down>>

\* The pool stops: the task due next may be dropped, for any set of acts.
Shutdown ==
  /\ ~ down
  /\ down' = TRUE
  /\ \E dropped \in SUBSET {a \in Acts : queue[a] # <<>>} :
       queue' = [a \in Acts |-> IF a \in dropped THEN Tail(queue[a])
                                                 ELSE queue[a]]
  /\ UNCHANGED running

\* A task that comes up after the shutdown is dropped.
Drop(a) ==
  /\ down
  /\ queue[a] # <<>>
  /\ queue' = [queue EXCEPT ![a] = Tail(@)]
  /\ UNCHANGED <<running, down>>

Next ==
  \/ \E a \in Acts : \/ \E t \in Tasks : Submit(a, t)
                     \/ Start(a)
                     \/ Finish(a)
                     \/ Drop(a)
  \/ Shutdown

Fairness == \A a \in Acts : WF_vars(Start(a)) /\ WF_vars(Finish(a))

Safety == Init /\ [][Next]_vars

Spec == Safety /\ Fairness
=============================================================================
