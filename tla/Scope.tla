------------------------------- MODULE Scope -------------------------------
(***************************************************************************)
(* The scope that keeps a sender chain's borrowed state alive: the         *)
(* functions scope and scope_send of src/src/scope.rs, the counter behind  *)
(* them (src/src/scope/scope_data.rs) and the receivers that               *)
(* ScopeImpl::wrap and wrap_send box up with their lifetime erased.        *)
(*                                                                         *)
(* Main runs the scope function.  Every wrapped receiver is a closure that *)
(* owns one ScopeDataPtr (its captured `data`) and the receiver; a closure *)
(* is consumed by a signal, or dropped without one.  A receiver in Keepers *)
(* also owns a clone of the scope in a field of its own, as the receivers  *)
(* of Transfer, LetDone, UponError and Split do.                           *)
(*                                                                         *)
(* One step is one access to shared memory: an atomic of ScopeDataSend,    *)
(* the notify mutex, or Main's park token.  Memory is sequentially         *)
(* consistent: the counter's Release decrements and the Acquire load in    *)
(* `running` order everything the properties speak of.                     *)
(***************************************************************************)
EXTENDS Integers, FiniteSets

CONSTANTS Wraps,    \* the closures that may be made by wrap / wrap_send
          Keepers,  \* those whose receiver owns a clone of the scope
          Main,     \* the thread that called scope or scope_send
          Pool      \* any other thread: a scheduler's worker

ASSUME ScopeAssumption ==
  /\ IsFiniteSet(Wraps)
  /\ Keepers \subseteq Wraps
  /\ Main \notin Wraps /\ Pool \notin Wraps /\ Main # Pool

VARIABLES num_running_threads,  \* ScopeDataSend.num_running_threads
          a_thread_panicked,    \* ScopeDataSend.a_thread_panicked
          notify,               \* is ScopeDataSend.notify still Some?
          notifying,            \* who took the count to 0 and is in notify
          token,                \* Main's park token
          main,                 \* where Main is in the scope function
          result,               \* what catch_unwind returned to Main
          outcome,              \* how the scope function ended
          closure,              \* the life of each wrapped receiver
          caller,               \* who invoked or dropped the closure
          unwound               \* the receivers that panicked

vars == <<num_running_threads, a_thread_panicked, notify, notifying, token,
          main, result, outcome, closure, caller, unwound>>

MainStates == {"body", "drop_scope", "check", "park", "left"}
ClosureStates == {"none", "ready", "running", "unwinding", "returned",
                  "dropping", "gone"}

TypeOK ==
  /\ num_running_threads \in Nat
  /\ a_thread_panicked \in BOOLEAN
  /\ notify \in BOOLEAN
  /\ notifying \subseteq Wraps \cup {Main}
  /\ token \in BOOLEAN
  /\ main \in MainStates
  /\ result \in {"none", "ok", "err"}
  /\ outcome \in {"none", "value", "body_panic", "thread_panic"}
  /\ closure \in [Wraps -> ClosureStates]
  /\ caller \in [Wraps -> Wraps \cup {Main, Pool}]
  /\ unwound \subseteq Wraps

Init ==
  /\ num_running_threads = 1
  /\ a_thread_panicked = FALSE
  /\ notify = TRUE
  /\ notifying = {}
  /\ token = FALSE
  /\ main = "body"
  /\ result = "none"
  /\ outcome = "none"
  /\ closure = [w \in Wraps |-> "none"]
  /\ caller = [w \in Wraps |-> Pool]
  /\ unwound = {}

(***************************************************************************)
(* Who is executing.  A call is synchronous: while a closure runs, or is   *)
(* being dropped, the code that called it makes no step.                   *)
(***************************************************************************)
OnStack(w) == closure[w] \in {"running", "unwinding", "returned", "dropping"}
              \/ w \in notifying

Busy(t) == \E w \in Wraps : caller[w] = t /\ OnStack(w)

\* t executes user code of the chain and may touch the scope.
Executing(t) == \/ t = Main /\ main = "body" /\ ~Busy(Main)
                \/ t \in Wraps /\ closure[t] = "running" /\ ~Busy(t)

CalleePanicked(t) == \E w \in unwound : caller[w] = t /\ ~OnStack(w)

\* The ScopeImpl clone inside a keeper's receiver.
Clones(w) == IF w \in Keepers THEN 1 ELSE 0

----------------------------------------------------------------------------
(* The counter. *)

\* Wrong variant: off by one in the test of fetch_sub's result.
DecrementOffByOne(t) ==
  /\ num_running_threads' = num_running_threads - 1
  /\ notifying' = IF num_running_threads <= 2 THEN notifying \cup {t} ELSE notifying

\* decrement_num_running_threads: only the last decrement goes on to notify.
Decrement(t) ==
  /\ num_running_threads' = num_running_threads - 1
  /\ notifying' = IF num_running_threads = 1 THEN notifying \cup {t} ELSE notifying

\* Wrong variant: the no-op callback of detached_scope instead of unpark.
NotifyNobody(t) ==
  /\ t \in notifying
  /\ notifying' = notifying \ {t}
  /\ notify' = FALSE
  /\ UNCHANGED <<num_running_threads, a_thread_panicked, token, main, result, outcome,
                 closure, caller, unwound>>

\* The rest of decrement_num_running_threads: take the callback, and unpark.
Notify(t) ==
  /\ t \in notifying
  /\ notifying' = notifying \ {t}
  /\ notify' = FALSE
  /\ token' = TRUE
  /\ UNCHANGED <<num_running_threads, a_thread_panicked, main, result, outcome,
                 closure, caller, unwound>>

----------------------------------------------------------------------------
(* Wrapped receivers. *)

\* Wrong variant: a derived Clone, which copies the Arc and does not count.
WrapUncounted(t, w) ==
  /\ Executing(t) /\ closure[w] = "none"
  /\ closure' = [closure EXCEPT ![w] = "ready"]
  /\ UNCHANGED <<num_running_threads, a_thread_panicked, notify, notifying, token, main,
                 result, outcome, caller, unwound>>

\* wrap / wrap_send: clone the scope pointer into a new closure.
Wrap(t, w) ==
  /\ Executing(t) /\ closure[w] = "none"
  /\ num_running_threads' = num_running_threads + 1 + Clones(w)
  /\ closure' = [closure EXCEPT ![w] = "ready"]
  /\ UNCHANGED <<a_thread_panicked, notify, notifying, token, main, result,
                 outcome, caller, unwound>>

\* A signal: the closure is called, by t or by a thread of a pool.
Invoke(t, w) ==
  /\ t = Pool \/ Executing(t)
  /\ closure[w] = "ready"
  /\ closure' = [closure EXCEPT ![w] = "running"]
  /\ caller' = [caller EXCEPT ![w] = t]
  /\ UNCHANGED <<num_running_threads, a_thread_panicked, notify, notifying, token,
                 main, result, outcome, unwound>>

\* The receiver returns: consumed, together with its clone of the scope.
Complete(w) ==
  /\ Executing(w) /\ ~CalleePanicked(w)
  /\ num_running_threads' = num_running_threads - Clones(w)
  /\ closure' = [closure EXCEPT ![w] = "returned"]
  /\ UNCHANGED <<a_thread_panicked, notify, notifying, token, main, result,
                 outcome, caller, unwound>>

\* Wrong variant: no catch_unwind in ScopeData::run.
PanicUncaught(w) ==
  /\ Executing(w)
  /\ num_running_threads' = num_running_threads - Clones(w)
  /\ closure' = [closure EXCEPT ![w] = "returned"]
  /\ unwound' = unwound \cup {w}
  /\ UNCHANGED <<a_thread_panicked, notify, notifying, token, main, result, outcome,
                 caller>>

\* The receiver panics, of itself or because what it called did.
Panic(w) ==
  /\ Executing(w)
  /\ num_running_threads' = num_running_threads - Clones(w)
  /\ closure' = [closure EXCEPT ![w] = "unwinding"]
  /\ unwound' = unwound \cup {w}
  /\ UNCHANGED <<a_thread_panicked, notify, notifying, token, main, result,
                 outcome, caller>>

\* ScopeData::run caught the panic: flag it before going on unwinding.
MarkPanicked(w) ==
  /\ closure[w] = "unwinding"
  /\ a_thread_panicked' = TRUE
  /\ closure' = [closure EXCEPT ![w] = "returned"]
  /\ UNCHANGED <<num_running_threads, notify, notifying, token, main, result,
                 outcome, caller, unwound>>

\* Wrong variant: the pointer is counted down by hand and by its Drop.
DropDataTwice(w) ==
  /\ closure[w] = "returned"
  /\ num_running_threads' = num_running_threads - 2
  /\ notifying' = IF num_running_threads = 2 THEN notifying \cup {w} ELSE notifying
  /\ closure' = [closure EXCEPT ![w] = "gone"]
  /\ UNCHANGED <<a_thread_panicked, notify, token, main, result, outcome, caller,
                 unwound>>

\* The closure ends and drops its captured `data`.
DropData(w) ==
  /\ closure[w] = "returned"
  /\ Decrement(w)
  /\ closure' = [closure EXCEPT ![w] = "gone"]
  /\ UNCHANGED <<a_thread_panicked, notify, token, main, result, outcome, caller,
                 unwound>>

\* The closure is dropped without a signal: its captures go in the order the
\* compiler laid them out, `data` first and the receiver after it.
Discard(t, w) ==
  /\ t = Pool \/ Executing(t)
  /\ closure[w] = "ready"
  /\ Decrement(w)
  /\ closure' = [closure EXCEPT ![w] = "dropping"]
  /\ caller' = [caller EXCEPT ![w] = t]
  /\ UNCHANGED <<a_thread_panicked, notify, token, main, result, outcome, unwound>>

DropReceiver(w) ==
  /\ closure[w] = "dropping" /\ w \notin notifying
  /\ IF w \in Keepers THEN Decrement(w)
                      ELSE UNCHANGED <<num_running_threads, notifying>>
  /\ closure' = [closure EXCEPT ![w] = "gone"]
  /\ UNCHANGED <<a_thread_panicked, notify, token, main, result, outcome, caller,
                 unwound>>

----------------------------------------------------------------------------
(* The thread in scope / scope_send. *)

\* f returns, or unwinds into catch_unwind.
LeaveBody(r) ==
  /\ Executing(Main)
  /\ r = "ok" => ~CalleePanicked(Main)
  /\ main' = "drop_scope"
  /\ result' = r
  /\ UNCHANGED <<num_running_threads, a_thread_panicked, notify, notifying, token,
                 outcome, closure, caller, unwound>>

\* The ScopeImpl goes at the end of the block that called f.
DropScope ==
  /\ main = "drop_scope"
  /\ Decrement(Main)
  /\ main' = "check"
  /\ UNCHANGED <<a_thread_panicked, notify, token, result, outcome, closure, caller,
                 unwound>>

\* state.running() was true: around the loop, into park.
CheckRunning ==
  /\ main = "check" /\ Main \notin notifying
  /\ num_running_threads # 0
  /\ main' = "park"
  /\ UNCHANGED <<num_running_threads, a_thread_panicked, notify, notifying, token,
                 result, outcome, closure, caller, unwound>>

\* state.running() was false: resume f's panic, report a thread's, or return.
Leave ==
  /\ main = "check" /\ Main \notin notifying
  /\ num_running_threads = 0
  /\ main' = "left"
  /\ outcome' = IF result = "err" THEN "body_panic"
                 ELSE IF a_thread_panicked THEN "thread_panic" ELSE "value"
  /\ UNCHANGED <<num_running_threads, a_thread_panicked, notify, notifying, token,
                 result, closure, caller, unwound>>

\* thread::park returns when there is a token, which it takes.
Unparked ==
  /\ main = "park" /\ token
  /\ token' = FALSE
  /\ main' = "check"
  /\ UNCHANGED <<num_running_threads, a_thread_panicked, notify, notifying, result,
                 outcome, closure, caller, unwound>>

\* Wrong variant: `if state.running()` instead of `while state.running()`.
WakeLeaves ==
  /\ main = "park"
  /\ main' = "left"
  /\ outcome' = "value"
  /\ UNCHANGED <<num_running_threads, a_thread_panicked, notify, notifying, token,
                 result, closure, caller, unwound>>

\* thread::park may also return for no reason at all.
SpuriousWake ==
  /\ main = "park"
  /\ main' = "check"
  /\ UNCHANGED <<num_running_threads, a_thread_panicked, notify, notifying, token,
                 result, outcome, closure, caller, unwound>>

----------------------------------------------------------------------------

Next ==
  \/ \E t \in Wraps \cup {Main} : Notify(t)
  \/ \E w \in Wraps, t \in Wraps \cup {Main} : Wrap(t, w)
  \/ \E w \in Wraps, t \in Wraps \cup {Main, Pool} : Invoke(t, w) \/ Discard(t, w)
  \/ \E w \in Wraps : Complete(w) \/ Panic(w)
  \/ \E w \in Wraps : MarkPanicked(w) \/ DropData(w) \/ DropReceiver(w)
  \/ \E r \in {"ok", "err"} : LeaveBody(r)
  \/ DropScope \/ CheckRunning \/ Leave \/ Unparked \/ SpuriousWake

\* A thread that is inside the library's own code keeps going.  Nothing is
\* promised of user code, of schedulers, or of spurious wakeups.
Fairness ==
  /\ \A t \in Wraps \cup {Main} : WF_vars(Notify(t))
  /\ \A w \in Wraps : WF_vars(MarkPanicked(w) \/ DropData(w) \/ DropReceiver(w))
  /\ WF_vars(DropScope \/ CheckRunning \/ Leave \/ Unparked)

Spec == Init /\ [][Next]_vars /\ Fairness

----------------------------------------------------------------------------
(* Properties. *)

\* The ScopeDataPtrs in existence: Main's, the captured ones, the keepers'.
DataStates == {"ready", "running", "unwinding", "returned"}
CloneStates == {"ready", "running", "dropping"}
DataHolders == {w \in Wraps : closure[w] \in DataStates}
CloneHolders == {w \in Keepers : closure[w] \in CloneStates}
MainHolders == IF main \in {"body", "drop_scope"} THEN {Main} ELSE {}

\* The counter is the number of pointers to the scope, at every step of every
\* thread: no clone or drop is counted twice or not at all.
CountIsPointers ==
  num_running_threads =
    Cardinality(MainHolders) + Cardinality(DataHolders) + Cardinality(CloneHolders)

\* What the transmute in wrap relies on: as long as a receiver waits for its
\* signal, or runs, the function that owns what it borrows has not returned.
ReceiversWithinScope ==
  main = "left" => \A w \in Wraps : closure[w] \notin {"ready", "running", "unwinding"}

\* The expect in decrement_num_running_threads never fails: whoever gets to
\* notify finds the callback there, and nobody else is on the way to it.
NotifiedOnce ==
  \A t \in notifying : notify /\ notifying = {t} /\ num_running_threads = 0

\* A receiver's panic, on any thread, is never swallowed: scope returns a
\* value only when no receiver has panicked.
PanicReported == outcome = "value" => unwound = {}

\* No wakeup is lost between the last drop and park: once f is done and every
\* receiver has had its signal, the scope function returns.
ScopeReturns ==
  <>[](main # "body" /\ \A w \in Wraps : closure[w] \notin {"ready", "running"})
    => <>(main = "left")
=============================================================================
