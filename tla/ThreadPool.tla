----------------------------- MODULE ThreadPool -----------------------------
(***************************************************************************)
(* ThreadPool: a vector of started workers behind a mutex, shared by the   *)
(* clones of the pool (src/src/embarrasingly_parallel/pool.rs).            *)
(*                                                                         *)
(* A worker is what TaskQueue promises and the module Worker implements:   *)
(* it runs the tasks that are posted to it, and ends when nobody has a     *)
(* handle of it.  The pool has one handle of each of its workers; other    *)
(* threads get theirs from tasks that run.  The actors that call the pool  *)
(* are its users and the tasks: a task may own a clone of the pool, and    *)
(* call it from the worker's thread.                                       *)
(*                                                                         *)
(* A panic may be caught by the user or the task that made the call.  It   *)
(* aborts the process when it drops, while it unwinds, the end of a chain  *)
(* started by start_detached, and so by `execute`; which chains there are  *)
(* is left open.  The order of a worker's tasks is in Worker.              *)
(***************************************************************************)
EXTENDS Naturals, Sequences, SequencesExt, FiniteSets, FiniteSetsExt, Functions

CONSTANTS Tasks, Users,
          NoOne,
          MaxWorkers,   \* bound: how many threads can be started
          MaxCalls,     \* bound: how many calls there are, besides posts
          MaxHandles    \* bound: how many other handles of a worker there are

ASSUME ThreadPoolAssumption == /\ IsFiniteSet(Tasks) /\ IsFiniteSet(Users)
                               /\ Tasks \cap Users = {}
                               /\ NoOne \notin Tasks \cup Users
                               /\ {MaxWorkers, MaxCalls, MaxHandles} \subseteq Nat

Actors == Users \cup Tasks
Workers == 1 .. MaxWorkers

VARIABLES threads, pending_joins,   \* the ThreadPoolState
          poisoned,                 \* is its mutex?
          job,                      \* what its holder does: set_thread_count to a
                                    \* goal, or join a worker, and keep a handle
          owners,                   \* who has a clone of the ThreadPool
          call,                     \* the call of the pool that an actor is in
          cross,                    \* how many handles of a worker other threads have
          mode, pending, running,   \* of each worker, as in TaskQueue
          fresh,                    \* the tasks that were not posted yet
          calls,                    \* how many calls are left
          aborted                   \* is the process?

state == <<threads, pending_joins>>
mutex == <<poisoned, job>>
worker == <<mode, pending, running>>
outside == <<cross, worker, fresh, calls, aborted>>
vars == <<state, mutex, owners, call, outside>>

\* What the steps of a worker leave alone.
pool == <<state, mutex, owners, call, calls>>

TypeOK ==
  /\ threads \in Seq(Workers) /\ pending_joins \in Seq(Workers)
  /\ poisoned \in BOOLEAN /\ aborted \in BOOLEAN
  /\ job \in [by : Actors \cup {NoOne}, goal : 0 .. MaxWorkers,
              joined : SUBSET Workers, kept : SUBSET Workers]
  /\ calls \in Nat
  /\ owners \subseteq Actors
  /\ call \in [Actors -> {"none", "post", "post all", "resize", "join"}]
  /\ cross \in [Workers -> 0 .. MaxHandles]
  /\ mode \in [Workers -> {"unborn", "serving", "failed", "dead", "over"}]
  /\ pending \in [Workers -> SUBSET Tasks] /\ running \in [Workers -> SUBSET Tasks]
  /\ fresh \subseteq Tasks

\* ThreadPool::new has started some threads, and its caller has the pool.
NoJob == [by |-> NoOne, goal |-> 0, joined |-> {}, kept |-> {}]

Init ==
  /\ \E n \in 0 .. MaxWorkers :
       /\ threads = [w \in 1 .. n |-> w]
       /\ mode = [w \in Workers |-> IF w <= n THEN "serving" ELSE "unborn"]
  /\ pending_joins = <<>>
  /\ poisoned = FALSE /\ job = NoJob
  /\ \E u \in Users : owners = {u}
  /\ call = [a \in Actors |-> "none"]
  /\ cross = [w \in Workers |-> 0]
  /\ pending = [w \in Workers |-> {}] /\ running = [w \in Workers |-> {}]
  /\ fresh = Tasks
  /\ calls = MaxCalls
  /\ aborted = FALSE

----------------------------------------------------------------------------

Members == ToSet(threads)

\* Wrong variant: the pool keeps the thread's handle only.
HandlesOutside(w) == cross[w] + (IF w \in job.kept THEN 1 ELSE 0)

\* Wrong variant: pending_joins has the CrossThreadPools, too.
HandlesPending(w) ==
  cross[w] + (IF w \in Members \cup job.kept \cup job.joined \cup ToSet(pending_joins) THEN 1 ELSE 0)

\* The uses of a worker that keep its thread alive, besides its tasks.
Handles(w) == cross[w] + (IF w \in Members THEN 1 ELSE 0) + (IF w \in job.kept THEN 1 ELSE 0)

\* A send to a worker whose receiver is gone fails.
Deaf(w) == mode[w] \in {"dead", "over"}

\* Who runs, and is not in a call.
Acting(a) == /\ ~aborted
             /\ a \in Users \/ \E w \in Workers : a \in running[w]
             /\ call[a] = "none"

Returns(a) == call' = [call EXCEPT ![a] = "none"]

\* Wrong variant: the state owns itself.
LeaveCycle(S) == owners' = owners \ S /\ UNCHANGED state

\* Actors drop their clones.  The state goes with the last one: the handles of
\* its workers are dropped, and their threads detached.
Leave(S) ==
  /\ owners' = owners \ S
  /\ IF owners \subseteq S THEN threads' = <<>> /\ pending_joins' = <<>>
                           ELSE UNCHANGED state

Abort == /\ aborted' = TRUE
         /\ UNCHANGED <<pool, cross, worker, fresh>>

\* So many tasks are left, besides one for each call that will post.
Free(n) ==
  Cardinality(fresh) >= n + Cardinality({a \in Actors : call[a] \in {"post", "post all"}})

----------------------------------------------------------------------------
(* The calls of a ThreadPool. *)

Call(a, what) ==
  /\ Acting(a) /\ a \in owners
  /\ what \in {"post", "post all"} => Free(1)
  /\ IF what = "post" THEN UNCHANGED calls ELSE calls > 0 /\ calls' = calls - 1
  /\ call' = [call EXCEPT ![a] = what]
  /\ UNCHANGED <<state, mutex, owners, cross, worker, fresh, aborted>>

\* a gets the mutex, for the time of this step or longer.
Enters(a, what) == ~aborted /\ call[a] = what /\ job.by = NoOne /\ ~poisoned

\* lock().unwrap() of a poisoned mutex.
Refused(a) ==
  /\ ~aborted
  /\ call[a] # "none" /\ job.by = NoOne /\ poisoned
  /\ \/ /\ Returns(a)
        /\ IF call[a] = "join" THEN Leave({a}) ELSE UNCHANGED <<owners, state>>
        /\ UNCHANGED <<mutex, outside>>
     \/ call[a] = "post" /\ Abort

\* The tasks get there, and may own a clone of the pool.
Deliver(a, f) ==
  /\ pending' = [w \in Workers |->
                   IF w \in DOMAIN f THEN pending[w] \cup {f[w]} ELSE pending[w]]
  /\ fresh' = fresh \ Range(f)
  /\ owners' \in {owners} \cup (IF a \in owners THEN {owners \cup Range(f)} ELSE {})
  /\ UNCHANGED <<state, mutex, cross, mode, running, calls, aborted>>

\* Wrong variant: a worker is chosen before the mutex is locked.
PostStale(a) ==
  /\ Enters(a, "post")
  /\ \E w \in Members \cup ToSet(pending_joins), t \in fresh :
       ~Deaf(w) /\ Deliver(a, [v \in {w} |-> t])
  /\ Returns(a)

\* ThreadPoolOperationState::start sends to any thread.
Post(a) ==
  /\ Enters(a, "post")
  /\ \E w \in Members, t \in fresh : ~Deaf(w) /\ Deliver(a, [v \in {w} |-> t])
  /\ Returns(a)

\* gen_range on an empty range, or a send to a worker that has panicked, panics
\* with the mutex locked.
PostFails(a) ==
  /\ Enters(a, "post")
  /\ threads = <<>> \/ \E w \in Members : Deaf(w)
  /\ \/ /\ poisoned' = TRUE
        /\ Returns(a)
        /\ \E t \in fresh : fresh' = fresh \ {t}
        /\ UNCHANGED <<state, job, owners, cross, worker, calls, aborted>>
     \/ Abort

\* execute_all.  It is cut short where the model has not enough tasks for it.
PostAll(a) ==
  /\ Enters(a, "post all")
  /\ \A w \in Members : ~Deaf(w)
  /\ LET reached == IF Free(Len(threads) - 1) THEN Members ELSE {}
     IN  \E f \in [reached -> fresh] : IsInjective(f) /\ Deliver(a, f)
  /\ Returns(a)

PostAllFails(a) ==
  /\ Enters(a, "post all")
  /\ \E w \in Members : Deaf(w)
  /\ Abort

\* set_thread_count.
Resize(a, n) ==
  /\ Enters(a, "resize")
  /\ job' = [NoJob EXCEPT !.by = a, !.goal = n]
  /\ UNCHANGED <<state, poisoned, owners, call, outside>>

Holds(a, what) == ~aborted /\ job.by = a /\ call[a] = what

Shrink(a) ==
  /\ Holds(a, "resize") /\ Len(threads) > job.goal
  /\ threads' = Front(threads)
  /\ pending_joins' = Append(pending_joins, Last(threads))
  /\ UNCHANGED <<mutex, owners, call, outside>>

Grow(a) ==
  /\ Holds(a, "resize") /\ Len(threads) < job.goal
  /\ \E w \in Workers :
       /\ mode[w] = "unborn" /\ \A v \in 1 .. w - 1 : mode[v] # "unborn"
       /\ threads' = Append(threads, w)
       /\ mode' = [mode EXCEPT ![w] = "serving"]
  /\ UNCHANGED <<pending_joins, mutex, owners, call, cross, pending, running, fresh,
                 calls, aborted>>

\* set_thread_count is done, or Worker::start fails and leaves the pool as it is.
Resized(a) ==
  /\ Holds(a, "resize") /\ Len(threads) <= job.goal
  /\ job' = NoJob
  /\ Returns(a)
  /\ UNCHANGED <<state, poisoned, owners, outside>>

\* join.
Join(a) ==
  /\ Enters(a, "join")
  /\ job' = [NoJob EXCEPT !.by = a]
  /\ UNCHANGED <<state, poisoned, owners, call, outside>>

\* The pattern (_, h) leaves the CrossThreadPool where it is while h is joined.
JoinThread(a) ==
  /\ Holds(a, "join") /\ job.joined = {} /\ threads # <<>>
  /\ job' = [job EXCEPT !.joined = {Last(threads)}, !.kept = {Last(threads)}]
  /\ threads' = Front(threads)
  /\ UNCHANGED <<pending_joins, poisoned, owners, call, outside>>

JoinPending(a) ==
  /\ Holds(a, "join") /\ job.joined = {} /\ threads = <<>> /\ pending_joins # <<>>
  /\ job' = [job EXCEPT !.joined = {Last(pending_joins)}]
  /\ pending_joins' = Front(pending_joins)
  /\ UNCHANGED <<threads, poisoned, owners, call, outside>>

Joined(a) ==
  /\ Holds(a, "join") /\ \E w \in job.joined : mode[w] = "over"
  /\ job' = [NoJob EXCEPT !.by = a]
  /\ UNCHANGED <<state, poisoned, owners, call, outside>>

\* Nothing is left to join, or h.join().unwrap() panics for a thread that did.
JoinEnds(a) ==
  /\ Holds(a, "join")
  /\ \/ job.joined = {} /\ threads = <<>> /\ pending_joins = <<>> /\ UNCHANGED poisoned
     \/ (\E w \in job.joined : mode[w] = "dead") /\ poisoned' = TRUE
  /\ job' = NoJob
  /\ Returns(a)
  /\ Leave({a})
  /\ UNCHANGED outside

----------------------------------------------------------------------------
(* Clones, and handles of the workers. *)

ClonePool(a, u) ==
  /\ Acting(a) /\ a \in owners /\ u \in Users \ owners
  /\ owners' = owners \cup {u}
  /\ UNCHANGED <<state, mutex, call, outside>>

DropPool(a) ==
  /\ Acting(a) /\ a \in owners
  /\ Leave({a})
  /\ UNCHANGED <<mutex, call, outside>>

\* A task that runs makes a CrossThreadPool for another thread, or a thread clones
\* the one that it has.
Share(w) ==
  /\ ~aborted /\ cross[w] < MaxHandles
  /\ cross[w] > 0 \/ \E t \in running[w] : Acting(t)
  /\ cross' = [cross EXCEPT ![w] = @ + 1]
  /\ UNCHANGED <<pool, worker, fresh, aborted>>

Release(w) ==
  /\ ~aborted /\ cross[w] > 0
  /\ cross' = [cross EXCEPT ![w] = @ - 1]
  /\ UNCHANGED <<pool, worker, fresh, aborted>>

\* A thread posts to the worker that it has a handle of, or a task to the worker
\* that runs it.
Send(w) ==
  /\ ~aborted /\ ~Deaf(w) /\ Free(1)
  /\ \E t \in fresh, a \in running[w] \cup {NoOne} :
       /\ IF a = NoOne THEN cross[w] > 0 ELSE Acting(a)
       /\ Deliver(a, [v \in {w} |-> t])
  /\ UNCHANGED call

SendFails(w) ==
  /\ ~aborted /\ cross[w] > 0
  /\ Deaf(w) /\ Free(1)
  /\ \/ /\ \E t \in fresh : fresh' = fresh \ {t}
        /\ UNCHANGED <<pool, cross, worker, aborted>>
     \/ Abort

----------------------------------------------------------------------------
(* The workers. *)

Run(w) ==
  /\ ~aborted /\ mode[w] = "serving" /\ running[w] = {}
  /\ \E t \in pending[w] : /\ running' = [running EXCEPT ![w] = {t}]
                           /\ pending' = [pending EXCEPT ![w] = @ \ {t}]
  /\ UNCHANGED <<pool, cross, mode, fresh, aborted>>

\* What the task has captured goes first, then the task.
Finished(w) == \E t \in running[w] : Acting(t) /\ t \notin owners

TaskReturns(w) ==
  /\ Finished(w)
  /\ running' = [running EXCEPT ![w] = {}]
  /\ UNCHANGED <<pool, cross, mode, pending, fresh, aborted>>

TaskPanics(w) ==
  /\ Finished(w)
  /\ \/ /\ running' = [running EXCEPT ![w] = {}]
        /\ mode' = [mode EXCEPT ![w] = "failed"]
        /\ UNCHANGED <<pool, cross, pending, fresh, aborted>>
     \/ Abort

\* The worker that is unwound drops the tasks of its own queue, with their clones.
DropTask(w) ==
  /\ ~aborted /\ mode[w] = "failed"
  /\ \/ /\ \E t \in pending[w] : /\ pending' = [pending EXCEPT ![w] = @ \ {t}]
                                 /\ IF t \in owners THEN Leave({t})
                                                    ELSE UNCHANGED <<owners, state>>
        /\ UNCHANGED <<mutex, call, cross, mode, running, fresh, calls, aborted>>
     \/ pending[w] # {} /\ Abort

\* What is left is in the other queue, and leaked.
Unwound(w) ==
  /\ ~aborted /\ mode[w] = "failed"
  /\ mode' = [mode EXCEPT ![w] = "dead"]
  /\ UNCHANGED <<pool, cross, pending, running, fresh, aborted>>

\* Wrong variant: a worker without handles does not look into its queue again.
WorkerEndsEarly(w) ==
  /\ ~aborted /\ mode[w] = "serving" /\ Handles(w) = 0 /\ running[w] = {}
  /\ mode' = [mode EXCEPT ![w] = "over"]
  /\ UNCHANGED <<pool, cross, pending, running, fresh, aborted>>

WorkerEnds(w) ==
  /\ ~aborted /\ mode[w] = "serving" /\ Handles(w) = 0 /\ pending[w] = {} /\ running[w] = {}
  /\ mode' = [mode EXCEPT ![w] = "over"]
  /\ UNCHANGED <<pool, cross, pending, running, fresh, aborted>>

----------------------------------------------------------------------------

Proceed(a) == \/ Refused(a)
              \/ Post(a) \/ PostFails(a) \/ PostAll(a) \/ PostAllFails(a)
              \/ \E n \in 0 .. MaxWorkers : Resize(a, n)
              \/ Shrink(a) \/ Grow(a) \/ Resized(a)
              \/ Join(a) \/ JoinThread(a) \/ JoinPending(a) \/ Joined(a) \/ JoinEnds(a)

Serve(w) == \/ Run(w) \/ TaskReturns(w)
            \/ \E t \in running[w] : DropPool(t)
            \/ Unwound(w) \/ WorkerEnds(w)

Next ==
  \/ \E a \in Actors : \/ \E what \in {"post", "post all", "resize", "join"} : Call(a, what)
                       \/ Proceed(a)
                       \/ DropPool(a)
                       \/ \E u \in Users : ClonePool(a, u)
  \/ \E w \in Workers : \/ Serve(w) \/ TaskPanics(w) \/ DropTask(w)
                        \/ Share(w) \/ Release(w) \/ Send(w) \/ SendFails(w)

\* Threads run: calls go on when they can, workers serve, and tasks come to their
\* end and drop what they own.  Nobody need make a call or drop a handle.  These
\* steps are finitely many, by the bounds, so that none of them starves another.
Fairness == WF_vars((\E a \in Actors : Proceed(a)) \/ \E w \in Workers : Serve(w))

Spec == Init /\ [][Next]_vars /\ Fairness

----------------------------------------------------------------------------
(* Properties. *)

\* A worker that will be started is a queue with a handle, and a dead one is over.
Mode(w) == CASE mode[w] = "unborn" -> "serving" [] mode[w] = "dead" -> "over"
             [] mode[w] \notin {"unborn", "dead"} -> mode[w]
Uses(w) == IF mode[w] = "unborn" THEN 1 ELSE Handles(w)

Queue(w) == INSTANCE TaskQueue WITH mode <- Mode(w), handles <- Uses(w),
                                    pending <- pending[w], running <- running[w]

\* The pool and its users keep to what a worker expects: a post comes from one who
\* has a handle, or from a task that runs, also while set_thread_count and join
\* take workers out of the pool.
WorkersAreQueues ==
  /\ \A w \in Workers : Queue(w)!Init
  /\ [][\A w \in Workers : Queue(w)!Next \/ UNCHANGED Queue(w)!vars]_vars

\* The mutex is poisoned by a post to a pool without threads, or after the panic
\* of a task, and by nothing else: a worker that is in the pool does not end.
PoisonExplained ==
  poisoned => threads = <<>> \/ \E w \in Workers : mode[w] = "dead"

\* A task that waits for the mutex, while the pool is joined.
Blocked(w) == /\ job.by # NoOne /\ call[job.by] = "join"
              /\ \E t \in running[w] : call[t] # "none"

\* The tasks that were accepted are run, also by a worker that has left the pool,
\* until none is left; unless a task of the same worker panics, or waits for a join.
TasksRun ==
  []<>(\A w \in Workers : \/ pending[w] = {} \/ mode[w] \in {"failed", "dead"}
                          \/ Blocked(w) \/ aborted)

\* When the last clone and the last handle are gone, all threads come to an end.
ThreadsEnd ==
  <>[](owners = {} /\ \A w \in Workers : cross[w] = 0)
    => <>(aborted \/ \A w \in Workers : mode[w] \in {"unborn", "dead", "over"})

\* Nobody but a join keeps the worker that it waits for.
Unused == \A w \in job.joined : cross[w] = 0 /\ ~Blocked(w)

Joining == job.by # NoOne /\ call[job.by] = "join"

\* "This function won't wait for threads to complete", says set_thread_count: join
\* does so, for the threads that have left the pool, and comes back.
ShrunkIsJoined == <>[]Unused => (Joining /\ threads = <<>> /\ job.kept = {} ~> job.by = NoOne \/ aborted)

\* join "blocks until each of the threads has stopped", and a thread stops when its
\* "scheduler has to no longer have any uses".  But join itself has a use of each
\* thread that it waits for.
JoinReturns == <>[]Unused => (Joining ~> job.by = NoOne \/ aborted)
=============================================================================
