----------------------------- MODULE ThreadPool -----------------------------
(***************************************************************************)
(* ThreadPool: worker threads that execute queued tasks, and the thread    *)
(* that owns the pool, enqueues the tasks and destroys the pool.           *)
(*                                                                         *)
(* Every critical section of mEventMutex is one action.  A notification    *)
(* comes after the section it belongs to, so the workers may act between   *)
(* the two; a worker that sleeps gives up the mutex in the same instant.   *)
(* A task is known by its ticket: the first one enqueued has ticket 1.     *)
(***************************************************************************)
EXTENDS Naturals, Sequences

CONSTANTS
  Workers,   \* the threads of a pool
  MaxTasks   \* bound on the tasks of a pool

ASSUME WorkersAssumption == Workers # {}
ASSUME MaxTasksAssumption == MaxTasks \in Nat

VARIABLES
  pool,      \* where the owner is
  mTasks,    \* the queue
  mStopping,
  worker,    \* where each worker is
  task,      \* the task it took last
  enqueued,  \* how many tasks this pool has been given
  finished   \* those whose future is ready

poolVars == <<pool, mTasks, mStopping, worker, task, enqueued, finished>>

(* none: no pool; open: between two calls; notifying: in enqueue, before   *)
(* notify_one; stopping: in stop, before notify_all; joining: after it.    *)
OwnerLabels == {"none", "open", "notifying", "stopping", "joining"}

(* ready: wants the mutex, to test the predicate; asleep: in mEventVar.wait *)
WorkerLabels == {"ready", "asleep", "running", "ended"}

Asleep == {w \in Workers : worker[w] = "asleep"}

PoolTypeOK ==
  /\ pool \in OwnerLabels
  /\ mTasks \in Seq(Nat)
  /\ mStopping \in BOOLEAN
  /\ worker \in [Workers -> WorkerLabels]
  /\ task \in [Workers -> Nat]
  /\ enqueued \in Nat
  /\ finished \subseteq Nat

PoolInit ==
  /\ pool = "none"
  /\ mTasks = <<>>
  /\ mStopping = FALSE
  /\ worker = [w \in Workers |-> "ended"]
  /\ task = [w \in Workers |-> 0]
  /\ enqueued = 0
  /\ finished = {}

-----------------------------------------------------------------------------
(* The owner. *)

Construct ==
  /\ pool = "none"
  /\ pool' = "open"
  /\ mTasks' = <<>>
  /\ mStopping' = FALSE
  /\ worker' = [w \in Workers |-> "ready"]
  /\ task' = [w \in Workers |-> 0]
  /\ enqueued' = 0
  /\ finished' = {}

Enqueue ==
  /\ pool = "open" /\ enqueued < MaxTasks
  /\ pool' = "notifying"
  /\ enqueued' = enqueued + 1
  /\ mTasks' = Append(mTasks, enqueued + 1)
  /\ UNCHANGED <<mStopping, worker, task, finished>>

NotifyOne ==
  /\ pool = "notifying"
  /\ pool' = "open"
  /\ IF Asleep = {}
     THEN UNCHANGED worker
     ELSE \E w \in Asleep : worker' = [worker EXCEPT ![w] = "ready"]
  /\ UNCHANGED <<mTasks, mStopping, task, enqueued, finished>>

Stop ==
  /\ pool = "open"
  /\ pool' = "stopping"
  /\ mStopping' = TRUE
  /\ UNCHANGED <<mTasks, worker, task, enqueued, finished>>

(* Seeded fault: stop wakes one of the workers only. *)
NotifyAllOnce ==
  /\ pool = "stopping"
  /\ pool' = "joining"
  /\ IF Asleep = {}
     THEN UNCHANGED worker
     ELSE \E w \in Asleep : worker' = [worker EXCEPT ![w] = "ready"]
  /\ UNCHANGED <<mTasks, mStopping, task, enqueued, finished>>

NotifyAll ==
  /\ pool = "stopping"
  /\ pool' = "joining"
  /\ worker' = [w \in Workers |-> IF w \in Asleep THEN "ready" ELSE worker[w]]
  /\ UNCHANGED <<mTasks, mStopping, task, enqueued, finished>>

(* The last join returns. *)
Join ==
  /\ pool = "joining"
  /\ \A w \in Workers : worker[w] = "ended"
  /\ pool' = "none"
  /\ UNCHANGED <<mTasks, mStopping, worker, task, enqueued, finished>>

-----------------------------------------------------------------------------
(* A worker. *)

Take(w) ==
  /\ worker[w] = "ready" /\ mTasks # <<>>
  /\ worker' = [worker EXCEPT ![w] = "running"]
  /\ task' = [task EXCEPT ![w] = Head(mTasks)]
  /\ mTasks' = Tail(mTasks)
  /\ UNCHANGED <<pool, mStopping, enqueued, finished>>

Sleep(w) ==
  /\ worker[w] = "ready" /\ mTasks = <<>> /\ ~mStopping
  /\ worker' = [worker EXCEPT ![w] = "asleep"]
  /\ UNCHANGED <<pool, mTasks, mStopping, task, enqueued, finished>>

(* A spurious wakeup; wait then tests the predicate again. *)
Wake(w) ==
  /\ worker[w] = "asleep"
  /\ worker' = [worker EXCEPT ![w] = "ready"]
  /\ UNCHANGED <<pool, mTasks, mStopping, task, enqueued, finished>>

(* Seeded fault: a worker leaves as soon as the pool stops. *)
EndAtOnce(w) ==
  /\ worker[w] = "ready" /\ mStopping
  /\ worker' = [worker EXCEPT ![w] = "ended"]
  /\ UNCHANGED <<pool, mTasks, mStopping, task, enqueued, finished>>

End(w) ==
  /\ worker[w] = "ready" /\ mStopping /\ mTasks = <<>>
  /\ worker' = [worker EXCEPT ![w] = "ended"]
  /\ UNCHANGED <<pool, mTasks, mStopping, task, enqueued, finished>>

(* The task has returned, or has thrown, which makes its future ready too. *)
Finish(w) ==
  /\ worker[w] = "running"
  /\ worker' = [worker EXCEPT ![w] = "ready"]
  /\ finished' = finished \cup {task[w]}
  /\ UNCHANGED <<pool, mTasks, mStopping, task, enqueued>>

PoolNext ==
  \/ Construct \/ Enqueue \/ NotifyOne \/ Stop \/ NotifyAll \/ Join
  \/ \E w \in Workers : Take(w) \/ Sleep(w) \/ Wake(w) \/ End(w) \/ Finish(w)

PoolSpec == PoolInit /\ [][PoolNext]_poolVars

-----------------------------------------------------------------------------
Running == {w \in Workers : worker[w] = "running"}

(* The queue holds the latest tasks, in the order in which they came; each *)
(* of the earlier ones is finished or is being executed by exactly one     *)
(* worker.  So no task is lost, executed twice or overtaken, also when the *)
(* pool stops with tasks in its queue, and the destructor returns only     *)
(* when all are executed: what they point to may be freed after it.        *)
TasksKept ==
  /\ Len(mTasks) <= enqueued
  /\ \A i \in 1 .. Len(mTasks) : mTasks[i] = enqueued - Len(mTasks) + i
  /\ finished \cup {task[w] : w \in Running} = 1 .. (enqueued - Len(mTasks))
  /\ \A w \in Running : task[w] \notin finished
  /\ \A v, w \in Running : task[v] = task[w] => v = w
  /\ pool = "none" => finished = 1 .. enqueued
=============================================================================
