------------------------------- MODULE Worker -------------------------------
(***************************************************************************)
(* A worker of the embarrasingly-parallel scheduler, and its two queues:   *)
(* src/src/embarrasingly_parallel/worker.rs with tasks.rs,                 *)
(* cross_thread_pool.rs and thread_local_pool.rs, on the channels of       *)
(* src/src/sync.                                                           *)
(*                                                                         *)
(* Other threads send tasks to xtc, the cross-thread channel, and wake the *)
(* worker's poll.  The worker moves them to stc, the same-thread channel,  *)
(* and runs one task in each turn of its loop.  Every CrossThreadPool,     *)
(* ThreadLocalPool and task owns a sender of xtc: the worker is done when  *)
(* there are none.                                                         *)
(*                                                                         *)
(* The worker runs in a thread of its own (Worker::start, which calls      *)
(* `run`), or its owner calls `run` and `run_one` (Worker::new), and has a *)
(* ThreadLocalPool too.  A step is one use of the poll or of the mutex of  *)
(* xtc; stc belongs to one thread.  A clone of a sender and the push that  *)
(* follows it are one step: the caller's own sender is there all along.    *)
(*                                                                         *)
(* mio's Waker leaves one event for the next poll, however often it is     *)
(* used before that, and mio may report an event that nobody caused.  The  *)
(* poll does not fail, nor return without an event when it has no timeout. *)
(* A task's function owns no pool besides the one it is called with.       *)
(***************************************************************************)
EXTENDS Naturals, Sequences, SequencesExt, FiniteSets

CONSTANTS Tasks,      \* the tasks that may be posted, once each
          Users,      \* the other threads
          Starter,    \* the one that called Worker::start
          MayPanic    \* may a task panic?

ASSUME WorkerAssumption == /\ Starter \in Users
                           /\ IsFiniteSet(Tasks) /\ IsFiniteSet(Users)
                           /\ MayPanic \in BOOLEAN

VARIABLES xtc, stc,       \* the queues of the two channels
          cnt_sender,     \* of xtc
          has_receiver,   \* of xtc
          woken,          \* is there an event for the poll?
          cross,          \* the other threads that own a CrossThreadPool
          home,           \* does the worker's owner have its ThreadLocalPool?
          pc,             \* where the worker is
          call,           \* what it was called with
          running,        \* the task that it runs, if any
          ended,          \* how the worker came to its end
          sent,           \* the tasks that were sent to xtc, in that order
          ran,            \* the tasks whose function was called, in that order
          fresh           \* the tasks that were not posted yet

vars == <<xtc, stc, cnt_sender, has_receiver, woken, cross, home, pc, call, running,
          ended, sent, ran, fresh>>

pools == <<cross, home>>
history == <<sent, ran, fresh>>

TypeOK ==
  /\ xtc \in Seq(Tasks) /\ stc \in Seq(Tasks)
  /\ cnt_sender \in Nat
  /\ has_receiver \in BOOLEAN /\ woken \in BOOLEAN /\ home \in BOOLEAN
  /\ cross \subseteq Users
  /\ pc \in {"idle", "poll", "drain", "run", "running", "leaving", "over"}
  /\ call \in {"none", "run", "one", "block"}
  /\ running \in {<<>>} \cup {<<t>> : t \in Tasks}
  /\ ended \in {"no", "ok", "panic", "dropped"}
  /\ sent \in Seq(Tasks) /\ ran \in Seq(Tasks)
  /\ fresh \subseteq Tasks

\* start has a thread run the worker at once; new leaves it to its owner.
Init ==
  /\ xtc = <<>> /\ stc = <<>>
  /\ cnt_sender = 1
  /\ has_receiver = TRUE
  /\ woken = FALSE
  /\ \/ cross = {Starter} /\ home = FALSE /\ pc = "poll" /\ call = "run"
     \/ cross = {} /\ home = TRUE /\ pc = "idle" /\ call = "none"
  /\ running = <<>>
  /\ ended = "no"
  /\ sent = <<>> /\ ran = <<>> /\ fresh = Tasks

----------------------------------------------------------------------------
(* The senders of xtc. *)

Clone == cnt_sender' = cnt_sender + 1

\* Wrong variant: Drop for Sender does not wake the worker.
LoseSilently(n) ==
  /\ cnt_sender' = cnt_sender - n
  /\ UNCHANGED woken

\* Drop for Sender, n times: the last one wakes the worker.
Lose(n) ==
  /\ cnt_sender' = cnt_sender - n
  /\ woken' = (woken \/ (n > 0 /\ cnt_sender = n))

\* CrossThreadPool::execute: a wakeup, and a task with a sender of its own.
Send(u, t) ==
  /\ u \in cross /\ t \in fresh /\ has_receiver
  /\ Clone
  /\ woken' = TRUE
  /\ xtc' = Append(xtc, t)
  /\ sent' = Append(sent, t)
  /\ fresh' = fresh \ {t}
  /\ UNCHANGED <<stc, has_receiver, pc, call, running, ended, ran>> /\ UNCHANGED pools

\* execute when the worker is gone: the task is dropped, and u panics.
SendFails(u, t) ==
  /\ u \in cross /\ t \in fresh /\ ~has_receiver
  /\ woken' = TRUE
  /\ fresh' = fresh \ {t}
  /\ UNCHANGED <<xtc, stc, cnt_sender, has_receiver, pc, call, running, ended, sent, ran>>
  /\ UNCHANGED pools

\* Wrong variant: a derived Clone, which does not count.
ShareUncounted(v) ==
  /\ v \in Users \ cross
  /\ \/ cross # {}
     \/ pc = "running" \/ (home /\ pc \in {"idle", "over"})
  /\ cross' = cross \cup {v}
  /\ UNCHANGED <<xtc, stc, cnt_sender, has_receiver, woken, home, pc, call, running, ended>>
  /\ UNCHANGED history

\* v gets a CrossThreadPool: the clone of another thread's, or one made of the
\* ThreadLocalPool of a task that runs, or of the worker's owner.
Share(v) ==
  /\ v \in Users \ cross
  /\ \/ cross # {}
     \/ pc = "running" \/ (home /\ pc \in {"idle", "over"})
  /\ cross' = cross \cup {v}
  /\ Clone
  /\ UNCHANGED <<xtc, stc, has_receiver, woken, home, pc, call, running, ended>>
  /\ UNCHANGED history

\* u drops its CrossThreadPool.
DropCross(u) ==
  /\ u \in cross
  /\ cross' = cross \ {u}
  /\ Lose(1)
  /\ UNCHANGED <<xtc, stc, has_receiver, home, pc, call, running, ended>>
  /\ UNCHANGED history

----------------------------------------------------------------------------
(* The worker's loop. *)

\* Only a call that may block and finds nothing to do waits for an event.
MayBlock == call # "one" /\ stc = <<>>

\* The poll returns with an event ...
PollEvent ==
  /\ pc = "poll" /\ woken
  /\ woken' = FALSE
  /\ pc' = "drain"
  /\ UNCHANGED <<xtc, stc, cnt_sender, has_receiver, call, running, ended>>
  /\ UNCHANGED pools /\ UNCHANGED history

\* ... or at once, without one: and so without an error.
PollNothing ==
  /\ pc = "poll" /\ ~woken /\ ~MayBlock
  /\ pc' = "run"
  /\ UNCHANGED <<xtc, stc, cnt_sender, has_receiver, woken, call, running, ended>>
  /\ UNCHANGED pools /\ UNCHANGED history

\* mio's events are hints: one may come for nothing.
SpuriousEvent ==
  /\ pc = "poll" /\ ~woken
  /\ woken' = TRUE
  /\ UNCHANGED <<xtc, stc, cnt_sender, has_receiver, pc, call, running, ended>>
  /\ UNCHANGED pools /\ UNCHANGED history

\* Wrong variant: no loop, but one task for each event.
MoveOne ==
  /\ pc = "drain" /\ xtc # <<>>
  /\ xtc' = Tail(xtc)
  /\ stc' = Append(stc, Head(xtc))
  /\ pc' = "run"
  /\ UNCHANGED <<cnt_sender, has_receiver, woken, call, running, ended>>
  /\ UNCHANGED pools /\ UNCHANGED history

\* Wrong variant: try_pop takes the task that came last.
MoveLast ==
  /\ pc = "drain" /\ xtc # <<>>
  /\ xtc' = Front(xtc)
  /\ stc' = Append(stc, Last(xtc))
  /\ UNCHANGED <<cnt_sender, has_receiver, woken, pc, call, running, ended>>
  /\ UNCHANGED pools /\ UNCHANGED history

\* poll_move_send_tasks_to_tasks: try_recv has a task.
Move ==
  /\ pc = "drain" /\ xtc # <<>>
  /\ xtc' = Tail(xtc)
  /\ stc' = Append(stc, Head(xtc))
  /\ UNCHANGED <<cnt_sender, has_receiver, woken, pc, call, running, ended>>
  /\ UNCHANGED pools /\ UNCHANGED history

\* Where a turn of the loop ends: in `run` there is another.
NextTurn == IF call = "run" THEN pc' = "poll" ELSE pc' = "idle"

\* try_recv has none, and there are tasks to run.
Drained ==
  /\ pc = "drain" /\ xtc = <<>> /\ stc # <<>>
  /\ pc' = "run"
  /\ UNCHANGED <<xtc, stc, cnt_sender, has_receiver, woken, call, running, ended>>
  /\ UNCHANGED pools /\ UNCHANGED history

\* Wrong variant: an empty channel is not an error.
EmptyIsOk ==
  /\ pc = "drain" /\ xtc = <<>> /\ stc = <<>> /\ cnt_sender > 0
  /\ pc' = "run"
  /\ UNCHANGED <<xtc, stc, cnt_sender, has_receiver, woken, call, running, ended>>
  /\ UNCHANGED pools /\ UNCHANGED history

\* Nothing to run, but there are senders: TryRecvError::Empty.
Empty ==
  /\ pc = "drain" /\ xtc = <<>> /\ stc = <<>> /\ cnt_sender > 0
  /\ NextTurn
  /\ UNCHANGED <<xtc, stc, cnt_sender, has_receiver, woken, call, running, ended>>
  /\ UNCHANGED pools /\ UNCHANGED history

\* Wrong variant: a lone sender counts as none.
DisconnectedByOne ==
  /\ pc = "drain" /\ xtc = <<>> /\ stc = <<>> /\ cnt_sender <= 1
  /\ IF call = "run" THEN pc' = "leaving" /\ ended' = "ok"
                     ELSE pc' = "idle" /\ UNCHANGED ended
  /\ UNCHANGED <<xtc, stc, cnt_sender, has_receiver, woken, call, running>>
  /\ UNCHANGED pools /\ UNCHANGED history

\* Nor are there senders, TryRecvError::Disconnected: `run` returns.
Disconnected ==
  /\ pc = "drain" /\ xtc = <<>> /\ stc = <<>> /\ cnt_sender = 0
  /\ IF call = "run" THEN pc' = "leaving" /\ ended' = "ok"
                     ELSE pc' = "idle" /\ UNCHANGED ended
  /\ UNCHANGED <<xtc, stc, cnt_sender, has_receiver, woken, call, running>>
  /\ UNCHANGED pools /\ UNCHANGED history

\* run_one_task takes the next task and calls its function.
RunTask ==
  /\ pc = "run" /\ stc # <<>>
  /\ stc' = Tail(stc)
  /\ running' = <<Head(stc)>>
  /\ ran' = Append(ran, Head(stc))
  /\ pc' = "running"
  /\ UNCHANGED <<xtc, cnt_sender, has_receiver, woken, call, ended, sent, fresh>>
  /\ UNCHANGED pools

\* The function returns, and its ThreadLocalPool goes.
TaskReturns ==
  /\ pc = "running"
  /\ running' = <<>>
  /\ Lose(1)
  /\ NextTurn
  /\ UNCHANGED <<xtc, stc, has_receiver, call, ended>>
  /\ UNCHANGED pools /\ UNCHANGED history

----------------------------------------------------------------------------
(* The thread of the worker: a task that runs, or the worker's owner. *)

\* ThreadLocalPool::execute.
Execute(t) ==
  /\ t \in fresh
  /\ pc = "running" \/ (home /\ pc = "idle")
  /\ Clone
  /\ stc' = Append(stc, t)
  /\ fresh' = fresh \ {t}
  /\ UNCHANGED <<xtc, has_receiver, woken, pc, call, running, ended, sent, ran>>
  /\ UNCHANGED pools

\* execute when the worker is gone: the task is dropped, and its owner panics.
ExecuteFails(t) ==
  /\ t \in fresh
  /\ home /\ pc = "over"
  /\ fresh' = fresh \ {t}
  /\ UNCHANGED <<xtc, stc, cnt_sender, has_receiver, woken, pc, call, running, ended,
                 sent, ran>>
  /\ UNCHANGED pools

\* The owner calls run, run_one(false) or run_one(true).
Call(how) ==
  /\ pc = "idle"
  /\ pc' = "poll"
  /\ call' = how
  /\ UNCHANGED <<xtc, stc, cnt_sender, has_receiver, woken, running, ended>>
  /\ UNCHANGED pools /\ UNCHANGED history

\* stc is freed with its tasks when its last owner goes: the Worker, or the
\* pool of the owner.
FreeStc(lost) == stc' = <<>> /\ Lose(lost + Len(stc))

\* The owner drops its pool.
DropHome ==
  /\ home /\ pc \in {"idle", "over"}
  /\ home' = FALSE
  /\ IF pc = "over" THEN FreeStc(1) ELSE Lose(1) /\ UNCHANGED stc
  /\ UNCHANGED <<xtc, has_receiver, cross, pc, call, running, ended>>
  /\ UNCHANGED history

\* The end of the Worker: stc_recv goes first, and xtc_recv next, by
\* DropReceiver.  What was left in xtc stays there, in a cycle: its tasks own
\* senders of the channel that owns them.
End(how, lost) ==
  /\ pc' = "leaving"
  /\ ended' = how
  /\ running' = <<>>
  /\ IF home THEN Lose(lost) /\ UNCHANGED stc ELSE FreeStc(lost)
  /\ UNCHANGED <<xtc, has_receiver, call>>
  /\ UNCHANGED pools /\ UNCHANGED history

DropWorker == pc = "idle" /\ End("dropped", 0)

\* A task panics, and `run` is unwound with the Worker that it owns.  A panic in
\* run_one goes on to the owner, who keeps the Worker: as TaskReturns.
TaskPanics == MayPanic /\ pc = "running" /\ call = "run" /\ End("panic", 1)

\* assert!(did_run_a_task) fails in run_one.
AssertFails ==
  /\ pc = "run" /\ stc = <<>>
  /\ pc' = "idle"
  /\ UNCHANGED <<xtc, stc, cnt_sender, has_receiver, woken, call, running, ended>>
  /\ UNCHANGED pools /\ UNCHANGED history

DropReceiver ==
  /\ pc = "leaving"
  /\ has_receiver' = FALSE
  /\ pc' = "over"
  /\ UNCHANGED <<xtc, stc, cnt_sender, woken, call, running, ended>>
  /\ UNCHANGED pools /\ UNCHANGED history

----------------------------------------------------------------------------

\* What the worker does in run and run_one.
Proceed == \/ PollEvent \/ PollNothing
           \/ Move \/ Drained \/ Empty \/ Disconnected
           \/ RunTask \/ TaskReturns
           \/ AssertFails \/ DropReceiver

Next ==
  \/ Proceed \/ SpuriousEvent
  \/ TaskPanics
  \/ \E u \in Users, t \in Tasks : Send(u, t) \/ SendFails(u, t)
  \/ \E u \in Users : Share(u) \/ DropCross(u)
  \/ \E t \in Tasks : Execute(t) \/ ExecuteFails(t)
  \/ \E how \in {"run", "one", "block"} : Call(how)
  \/ DropHome \/ DropWorker

\* A worker goes on with a call, and tasks return.  Its owner need not call it.
Fairness == WF_vars(Proceed)

Spec == Init /\ [][Next]_vars /\ Fairness

----------------------------------------------------------------------------
(* Properties. *)

\* The senders of xtc are the pools, the queued tasks, and the pool of the task
\* that runs: a worker neither stops too early nor stays on for a lost count.
SendersCounted ==
  cnt_sender = Cardinality(cross) + (IF home THEN 1 ELSE 0)
                 + Len(xtc) + Len(stc) + Len(running)

\* run "returns only once all tasks have been executed, and no more can be
\* added", also when a pool is dropped beside the last task.
ReturnsDrained ==
  ended = "ok" =>
    /\ xtc = <<>> /\ stc = <<>>
    /\ cross = {} /\ ~home
    /\ \A i \in DOMAIN sent : Contains(ran, sent[i])

\* The tasks that other threads send are run in the order they were sent,
\* through both queues.
SentOrderKept ==
  \A i, j \in DOMAIN sent :
    i < j /\ Contains(ran, sent[j]) =>
      \E k, l \in DOMAIN ran : ran[k] = sent[i] /\ ran[l] = sent[j] /\ k < l

\* assert!(did_run_a_task) holds in run, and in a run_one that may block.
AssertHolds == pc = "run" /\ call # "one" => stc # <<>>

\* `run` polls, and nobody is left to wake it: an earlier run_one has used up the
\* event of the last sender (see WaitEnds).
Stalled == pc = "poll" /\ cnt_sender = 0 /\ ~woken

Mode == CASE pc = "over" -> "over"
          [] pc = "leaving" /\ ended # "ok" -> "failed"
          [] pc # "over" /\ ended \in {"no", "ok"} ->
               IF call = "run" /\ pc # "idle" /\ ~Stalled THEN "serving" ELSE "idle"

Abstract == INSTANCE TaskQueue WITH
  mode <- Mode,
  handles <- Cardinality(cross) + (IF home THEN 1 ELSE 0),
  pending <- ToSet(xtc) \cup ToSet(stc),
  running <- ToSet(running)

\* The two queues, the wakeups and the count are a TaskQueue: every task is run,
\* and `run` ends once nobody can post, so no wakeup is lost.  A worker that is
\* served never comes to stall.
ServesQueue == Abstract!Spec

\* run_one(true) blocks "until a task becomes available, or the last
\* [ThreadLocalPool] and [CrossThreadPool] have all gone away".  Not so when an
\* earlier run_one has used up the event that says so: it blocks for ever.
WaitEnds == pc = "poll" /\ call = "block" /\ cnt_sender = 0 ~> pc # "poll"
=============================================================================
