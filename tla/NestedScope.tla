----------------------------- MODULE NestedScope -----------------------------
(***************************************************************************)
(* let_value (src/src/let_value.rs) and the nested scopes it lives in      *)
(* (src/src/scope/receiver.rs, src/src/refs.rs).                           *)
(*                                                                         *)
(* LetValueReceiver::set_value keeps the value it got beside its receiver, *)
(* in a ScopeData that a reference count owns, and runs a second chain on  *)
(* references to that value.  A signal of the second chain is only stored. *)
(* It is handed to the receiver when the last pointer to the ScopeData is  *)
(* dropped: by the stack frame of set_value, by the second chain, by a     *)
(* closure that either has wrapped, or by the last ScopedRef.              *)
(*                                                                         *)
(* Level 0 is the scope function of module Scope; level k + 1 is a         *)
(* let_value in the second chain of level k.  A thread has a stack of      *)
(* calls, the innermost first, and only that one makes steps.              *)
(***************************************************************************)
EXTENDS Integers, Sequences, FiniteSets

CONSTANTS Threads,      \* the threads that run the chains
          Main,         \* the one that called the scope function
          Depth,        \* how deep let_value may be nested
          MaxRefs,      \* bound: the references to one value at a time
          MaxClosures   \* bound: the closures wrapped in all scopes

ASSUME NestedScopeAssumption ==
  /\ Main \in Threads
  /\ Depth \in Nat \ {0} /\ MaxRefs \in Nat \ {0} /\ MaxClosures \in Nat

VARIABLES
  stack,      \* the calls of each thread
  aborted,    \* a panic while unwinding has ended the process
  ptrs,       \* the pointers to each scope (level 0: num_running_threads)
  flag,       \* a_thread_panicked of each scope
  signal,     \* the kind of the signal in shared_value of each nested scope
  rcv,        \* where the InnerScopeReceiver of each nested scope is
  refs,       \* the ScopedRefs to the value of each nested scope
  home,       \* the thread they are on: they are not Send
  ready,      \* the wrapped closures of each scope that wait for a call
  wrapped,    \* how many there were, up to MaxClosures
  delivered,  \* what became of the receiver in each nested scope
  result,     \* how the body of the scope function ended
  panicked    \* has any code of the chains panicked?

scopes == <<ptrs, flag, signal, rcv, refs, home, ready, wrapped, delivered>>
vars == <<stack, aborted, scopes, result, panicked>>

Scopes == 0..Depth
Nested == 1..Depth
Kinds == {"value", "error"}   \* done is passed on as error is

\* A call: of the body, of set_value, of a closure, or of ScopeData's drop.
Call(what, lvl, pc) == [what |-> what, lvl |-> lvl, pc |-> pc, unwinding |-> FALSE]
Calls == [what : {"body", "set_value", "closure", "drop"}, lvl : Scopes,
          pc : {"user", "discard", "start", "outer", "rcv", "self", "data", "end"},
          unwinding : BOOLEAN]

TypeOK ==
  /\ stack \in [Threads -> Seq(Calls)]
  /\ aborted \in BOOLEAN
  /\ ptrs \in [Scopes -> Nat]
  /\ flag \in [Scopes -> BOOLEAN]
  /\ signal \in [Nested -> Kinds \cup {"none"}]
  /\ rcv \in [Nested -> {"none", "chain", "stored", "gone"}]
  /\ refs \in [Nested -> 0..MaxRefs]
  /\ home \in [Nested -> Threads]
  /\ ready \in [Scopes -> 0..MaxClosures]
  /\ wrapped \in 0..MaxClosures
  /\ delivered \in [Nested -> Kinds \cup {"none", "dropped"}]
  /\ result \in {"none", "ok", "err"}
  /\ panicked \in BOOLEAN

Init ==
  /\ stack = [t \in Threads |-> IF t = Main THEN <<Call("body", 0, "user")>> ELSE <<>>]
  /\ aborted = FALSE
  /\ ptrs = [k \in Scopes |-> IF k = 0 THEN 1 ELSE 0]
  /\ flag = [k \in Scopes |-> FALSE]
  /\ signal = [k \in Nested |-> "none"]
  /\ rcv = [k \in Nested |-> "none"]
  /\ refs = [k \in Nested |-> 0]
  /\ home = [k \in Nested |-> Main]
  /\ ready = [k \in Scopes |-> 0]
  /\ wrapped = 0
  /\ delivered = [k \in Nested |-> "none"]
  /\ result = "none"
  /\ panicked = FALSE

----------------------------------------------------------------------------
(* Calls and pointers. *)

At(t, what, pc) == /\ ~aborted /\ stack[t] # <<>>
                   /\ Head(stack[t]).what = what /\ Head(stack[t]).pc = pc
Level(t) == Head(stack[t]).lvl
Unwinding(t) == Head(stack[t]).unwinding

\* The chain a call runs the code of: a drop runs the receiver, which is the
\* rest of the chain around the nested scope.
CodeLevel(c) == IF c.what = "drop" THEN c.lvl - 1 ELSE c.lvl

InUserCode(t) == /\ ~aborted /\ stack[t] # <<>>
                 /\ Head(stack[t]).pc = "user" /\ ~Unwinding(t)
UserCode(t, k) == InUserCode(t) /\ CodeLevel(Head(stack[t])) = k

\* Code that may let go of what it owns, unwinding or not.
MayDrop(t, k) == /\ ~aborted /\ stack[t] # <<>>
                 /\ Head(stack[t]).pc \in {"user", "discard"}
                 /\ CodeLevel(Head(stack[t])) = k

Goto(t, pc) == stack' = [stack EXCEPT ![t][1].pc = pc]
Return(t) == stack' = [stack EXCEPT ![t] = Tail(@)]
Enter(t, c) == stack' = [stack EXCEPT ![t] = <<c>> \o @]

\* t drops a pointer to scope k and goes on at pc; the last pointer to a
\* nested scope first drops its ScopeData.
Release(t, k, pc) ==
  /\ ptrs' = [ptrs EXCEPT ![k] = @ - 1]
  /\ stack' = [stack EXCEPT ![t] =
       (IF k > 0 /\ ptrs[k] = 1 THEN <<Call("drop", k, "start")>> ELSE <<>>)
         \o <<[Head(@) EXCEPT !.pc = pc]>> \o Tail(@)]

\* Code that could own something of the chain of scope k, besides t's call.
Others(t, k) ==
  \/ ready[k] > 0
  \/ \E u \in Threads : \E i \in 1..Len(stack[u]) :
       /\ <<u, i>> # <<t, 1>>
       /\ stack[u][i].pc \in {"user", "discard"} /\ CodeLevel(stack[u][i]) = k

\* What t's call at level k owns, and nobody else does, has been dropped.
NothingLeftBehind(t, k) ==
  /\ \A j \in Nested : j = k /\ rcv[j] = "chain" => Others(t, j)
  /\ \A j \in Nested : j <= k /\ refs[j] > 0 => \E i \in j..Depth : Others(t, i)

----------------------------------------------------------------------------
(* What the code of a chain may do. *)

\* ScopeImpl::wrap and wrap_send: a closure with a pointer of its own.
Wrap(t, k) ==
  /\ UserCode(t, k) /\ wrapped < MaxClosures
  /\ ready' = [ready EXCEPT ![k] = @ + 1]
  /\ wrapped' = wrapped + 1
  /\ ptrs' = [ptrs EXCEPT ![k] = @ + 1]
  /\ UNCHANGED <<stack, aborted, flag, signal, rcv, refs, home, delivered, result,
                 panicked>>

\* A closure is called, or dropped, by a thread of a pool or by other code.
Invoke(t, k, pc) ==
  /\ ~aborted /\ ready[k] > 0
  /\ \/ t # Main /\ stack[t] = <<>>
     \/ InUserCode(t)
  /\ ready' = [ready EXCEPT ![k] = @ - 1]
  /\ Enter(t, Call("closure", k, pc))
  /\ UNCHANGED <<aborted, ptrs, flag, signal, rcv, refs, home, wrapped, delivered,
                 result, panicked>>

\* Wrong variant: the outer scope is borrowed, not cloned.
NestUncounted(t, k) ==
  /\ UserCode(t, k - 1) /\ rcv[k] = "none"
  /\ k > 1 => rcv[k - 1] = "chain"
  /\ ptrs' = [ptrs EXCEPT ![k - 1] = @ + 1, ![k] = 3]
  /\ rcv' = [j \in Nested |-> IF j = k THEN "chain" ELSE IF j = k - 1 THEN "stored" ELSE rcv[j]]
  /\ refs' = [refs EXCEPT ![k] = 1]
  /\ home' = [home EXCEPT ![k] = t]
  /\ Enter(t, Call("set_value", k, "user"))
  /\ UNCHANGED <<aborted, flag, signal, ready, wrapped, delivered, result, panicked>>

\* LetValueReceiver::set_value, up to the call of fn_impl.  It has a clone of
\* the outer scope, and the ScopeData gets another.  The nested scope has
\* three pointers: local_scope, local_receiver and the values_ref.
Nest(t, k) ==
  /\ UserCode(t, k - 1) /\ rcv[k] = "none"
  /\ k > 1 => rcv[k - 1] = "chain"
  /\ ptrs' = [ptrs EXCEPT ![k - 1] = @ + 2, ![k] = 3]
  /\ rcv' = [j \in Nested |-> IF j = k THEN "chain" ELSE IF j = k - 1 THEN "stored" ELSE rcv[j]]
  /\ refs' = [refs EXCEPT ![k] = 1]
  /\ home' = [home EXCEPT ![k] = t]
  /\ Enter(t, Call("set_value", k, "user"))
  /\ UNCHANGED <<aborted, flag, signal, ready, wrapped, delivered, result, panicked>>

\* ScopedRef::map_split and distribute: one more reference shares the state.
CloneRef(t, k) ==
  /\ \E j \in k..Depth : UserCode(t, j)
  /\ home[k] = t /\ refs[k] \in 1..(MaxRefs - 1)
  /\ refs' = [refs EXCEPT ![k] = @ + 1]
  /\ UNCHANGED <<stack, aborted, ptrs, flag, signal, rcv, home, ready, wrapped, delivered,
                 result, panicked>>

\* The references share one SendState, which owns one pointer to the scope.
DropRef(t, k) ==
  /\ \E j \in k..Depth : MayDrop(t, j)
  /\ home[k] = t /\ refs[k] > 0
  /\ refs' = [refs EXCEPT ![k] = @ - 1]
  /\ IF refs[k] = 1 THEN Release(t, k, Head(stack[t]).pc) ELSE UNCHANGED <<stack, ptrs>>
  /\ UNCHANGED <<aborted, flag, signal, rcv, home, ready, wrapped, delivered, result,
                 panicked>>

\* InnerScopeReceiver::set_value, set_error, set_done: store, then drop self.
Signal(t, k, kind) ==
  /\ UserCode(t, k) /\ rcv[k] = "chain"
  /\ signal' = [signal EXCEPT ![k] = kind]
  /\ rcv' = [rcv EXCEPT ![k] = "gone"]
  /\ Release(t, k, "user")
  /\ UNCHANGED <<aborted, flag, refs, home, ready, wrapped, delivered, result, panicked>>

\* The chain is dropped before its end: so is the InnerScopeReceiver.
DropRcv(t, k) ==
  /\ MayDrop(t, k) /\ rcv[k] = "chain"
  /\ rcv' = [rcv EXCEPT ![k] = "gone"]
  /\ Release(t, k, Head(stack[t]).pc)
  /\ UNCHANGED <<aborted, flag, signal, refs, home, ready, wrapped, delivered, result,
                 panicked>>

\* The code panics.  A second panic on a thread that is unwinding aborts.
Panic(t) ==
  /\ InUserCode(t)
  /\ panicked' = TRUE
  /\ IF \E i \in 1..Len(stack[t]) : stack[t][i].unwinding
       THEN aborted' = TRUE /\ UNCHANGED stack
       ELSE /\ stack' = [stack EXCEPT ![t][1].unwinding = TRUE]
            /\ UNCHANGED aborted
  /\ UNCHANGED <<scopes, result>>

----------------------------------------------------------------------------
(* How the calls end. *)

\* f returns or unwinds into catch_unwind, and the ScopeImpl goes.
EndBody(t) ==
  /\ At(t, "body", "user") /\ NothingLeftBehind(t, 0)
  /\ result' = IF Unwinding(t) THEN "err" ELSE "ok"
  /\ Return(t)
  /\ ptrs' = [ptrs EXCEPT ![0] = @ - 1]
  /\ UNCHANGED <<aborted, flag, signal, rcv, refs, home, ready, wrapped, delivered, panicked>>

\* fn_impl's sender is started, or its error passed on; drop local_scope.
EndSetValue(t) ==
  /\ At(t, "set_value", "user") /\ NothingLeftBehind(t, Level(t))
  /\ Release(t, Level(t), "self")
  /\ UNCHANGED <<aborted, flag, signal, rcv, refs, home, ready, wrapped, delivered,
                 result, panicked>>

\* ... and what is left of self: its clone of the outer scope.
DropSelf(t) ==
  /\ At(t, "set_value", "self")
  /\ Release(t, Level(t) - 1, "end")
  /\ UNCHANGED <<aborted, flag, signal, rcv, refs, home, ready, wrapped, delivered,
                 result, panicked>>

\* ScopeData::run in a closure: a panic is marked in the scope.
EndClosure(t) ==
  /\ At(t, "closure", "user") /\ NothingLeftBehind(t, Level(t))
  /\ flag' = [flag EXCEPT ![Level(t)] = @ \/ Unwinding(t)]
  /\ Goto(t, "data")
  /\ UNCHANGED <<aborted, ptrs, signal, rcv, refs, home, ready, wrapped, delivered,
                 result, panicked>>

\* Then the closure's data goes.
DropData(t) ==
  /\ At(t, "closure", "data")
  /\ Release(t, Level(t), "end")
  /\ UNCHANGED <<aborted, flag, signal, rcv, refs, home, ready, wrapped, delivered,
                 result, panicked>>

\* A closure that is not called: its data first, then what its receiver owns.
Discard(t) ==
  /\ At(t, "closure", "start")
  /\ Release(t, Level(t), "discard")
  /\ UNCHANGED <<aborted, flag, signal, rcv, refs, home, ready, wrapped, delivered,
                 result, panicked>>

EndDiscard(t) ==
  /\ At(t, "closure", "discard") /\ NothingLeftBehind(t, Level(t))
  /\ Goto(t, "end")
  /\ UNCHANGED <<aborted, scopes, result, panicked>>

\* The caller goes on, or unwinds; a thread of a pool has no caller.
End(t) ==
  LET callers == Tail(stack[t]) IN
  /\ \E what \in {"set_value", "closure", "drop"} : At(t, what, "end")
  /\ stack' = [stack EXCEPT ![t] =
       IF callers = <<>> THEN <<>>
       ELSE [callers EXCEPT ![1].unwinding = callers[1].unwinding \/ Unwinding(t)]]
  /\ UNCHANGED <<aborted, scopes, result, panicked>>

----------------------------------------------------------------------------
(* Drop for ScopeData. *)

\* Drop rcv without a signal: with it goes the InnerScopeReceiver around it.
DropStored(t, k, pc) ==
  IF k > 1 THEN /\ rcv' = [rcv EXCEPT ![k - 1] = "gone"]
                /\ Release(t, k - 1, pc)
           ELSE /\ Goto(t, pc)
                /\ UNCHANGED <<rcv, ptrs>>

\* Wrong variant: the flag stays with the nested scope.
DropPanickedQuietly(t) ==
  /\ At(t, "drop", "start") /\ flag[Level(t)]
  /\ Goto(t, "outer")
  /\ UNCHANGED <<aborted, scopes, result, panicked>>

\* A panic in this scope is one in the outer scope.
DropPanicked(t) ==
  /\ At(t, "drop", "start") /\ flag[Level(t)]
  /\ flag' = [flag EXCEPT ![Level(t) - 1] = TRUE]
  /\ Goto(t, "outer")
  /\ UNCHANGED <<aborted, ptrs, signal, rcv, refs, home, ready, wrapped, delivered,
                 result, panicked>>

\* forward without a signal drops the receiver, and with it the value.
DropSilent(t) ==
  LET k == Level(t) IN
  /\ At(t, "drop", "start") /\ ~flag[k] /\ signal[k] = "none"
  /\ delivered' = [delivered EXCEPT ![k] = "dropped"]
  /\ DropStored(t, k, "outer")
  /\ UNCHANGED <<aborted, flag, signal, refs, home, ready, wrapped, result, panicked>>

\* Wrong variant: whatever was stored is forwarded as a value.
ForwardAsValue(t) ==
  LET k == Level(t) IN
  /\ At(t, "drop", "start") /\ ~flag[k] /\ signal[k] # "none"
  /\ delivered' = [delivered EXCEPT ![k] = "value"]
  /\ rcv' = [j \in Nested |-> IF j = k - 1 THEN "chain" ELSE rcv[j]]
  /\ Goto(t, "user")
  /\ UNCHANGED <<aborted, ptrs, flag, signal, refs, home, ready, wrapped, result, panicked>>

\* forward: the receiver, with the stored signal, inside outer_state.run.  It
\* is called even when the thread is unwinding.
Forward(t) ==
  LET k == Level(t) IN
  /\ At(t, "drop", "start") /\ ~flag[k] /\ signal[k] # "none"
  /\ delivered' = [delivered EXCEPT ![k] = signal[k]]
  /\ rcv' = [j \in Nested |-> IF j = k - 1 THEN "chain" ELSE rcv[j]]
  /\ Goto(t, "user")
  /\ UNCHANGED <<aborted, ptrs, flag, signal, refs, home, ready, wrapped, result, panicked>>

\* The receiver returns or unwinds, the latter being marked in the outer scope.
EndForward(t) ==
  LET k == Level(t) IN
  /\ At(t, "drop", "user") /\ NothingLeftBehind(t, k - 1)
  /\ flag' = [flag EXCEPT ![k - 1] = @ \/ Unwinding(t)]
  /\ Goto(t, "outer")
  /\ UNCHANGED <<aborted, ptrs, signal, rcv, refs, home, ready, wrapped, delivered, result, panicked>>

\* Wrong variant: the clone of the outer scope is leaked.
DropOuterLeaked(t) ==
  /\ At(t, "drop", "outer")
  /\ Goto(t, "rcv")
  /\ UNCHANGED <<aborted, scopes, result, panicked>>

\* The fields of ScopeData go in their order: outer_state ...
DropOuter(t) ==
  /\ At(t, "drop", "outer")
  /\ Release(t, Level(t) - 1, "rcv")
  /\ UNCHANGED <<aborted, flag, signal, rcv, refs, home, ready, wrapped, delivered, result, panicked>>

\* ... and rcv, which is still there after a panic.
DropReceiver(t) ==
  LET k == Level(t) IN
  /\ At(t, "drop", "rcv")
  /\ IF delivered[k] = "none"
       THEN /\ delivered' = [delivered EXCEPT ![k] = "dropped"]
            /\ DropStored(t, k, "end")
       ELSE Goto(t, "end") /\ UNCHANGED <<ptrs, rcv, delivered>>
  /\ UNCHANGED <<aborted, flag, signal, refs, home, ready, wrapped, result, panicked>>

----------------------------------------------------------------------------

UserStep(t) ==
  \/ \E k \in Scopes : Wrap(t, k) \/ Invoke(t, k, "user") \/ Invoke(t, k, "start")
  \/ \E k \in Nested : \/ Nest(t, k) \/ CloneRef(t, k) \/ DropRef(t, k) \/ DropRcv(t, k)
                       \/ \E kind \in Kinds : Signal(t, k, kind)
  \/ Panic(t)
  \/ EndBody(t) \/ EndSetValue(t) \/ EndClosure(t) \/ EndDiscard(t) \/ EndForward(t)

LibraryStep(t) ==
  \/ DropSelf(t) \/ DropData(t) \/ Discard(t) \/ End(t)
  \/ DropPanicked(t) \/ DropSilent(t) \/ Forward(t) \/ DropOuter(t) \/ DropReceiver(t)

Next == \E t \in Threads : UserStep(t) \/ LibraryStep(t)

\* Nothing is promised of the code in the chains, or of the schedulers.
Spec == Init /\ [][Next]_vars /\ \A t \in Threads : WF_vars(LibraryStep(t))

----------------------------------------------------------------------------
(* Properties. *)

AllCalls == UNION {{stack[t][i] : i \in 1..Len(stack[t])} : t \in Threads}
ScopeOver == ptrs[0] = 0

\* What the transmutes in new_scope and the raw pointers of ScopedRef rely on:
\* code runs, and a closure waits, only while every scope around it has a
\* pointer; and a reference never outlives the value it points to, which is
\* moved out of the ScopeData when its receiver gets the signal.
NothingDangles ==
  /\ \A c \in AllCalls : c.pc = "user" => \A j \in 0..CodeLevel(c) : ptrs[j] > 0
  /\ \A k \in Scopes : ready[k] > 0 => \A j \in 0..k : ptrs[j] > 0
  /\ \A k \in Nested : refs[k] > 0 => ptrs[k] > 0 /\ delivered[k] = "none"

\* A panic at any depth and on any thread gets out through all the scopes
\* before the outermost one ends.
PanicReported == ScopeOver /\ panicked => flag[0] \/ result = "err"

\* When the scope is over, the receiver around each nested scope has had the
\* signal of the second chain, or was dropped if there was none, or a panic.
\* The exception is the outermost receiver after a panic: DropOuter ends the
\* scope before DropReceiver is there.
SignalPassedOn ==
  ScopeOver => \A k \in Nested : rcv[k] # "none" =>
    CASE flag[k] -> delivered[k] = "dropped" \/ (k = 1 /\ delivered[k] = "none")
      [] ~flag[k] /\ signal[k] = "none" -> delivered[k] = "dropped"
      [] OTHER -> delivered[k] = signal[k]

\* The pointers between a scope, its receiver and the scope around it are no
\* cycle: when the chains are through, all the scopes come to their end.
Quiet ==
  /\ ~aborted
  /\ \A c \in AllCalls : c.pc \notin {"user", "discard"}
  /\ \A k \in Scopes : ready[k] = 0
  /\ \A k \in Nested : refs[k] = 0 /\ rcv[k] # "chain"
ScopesEnd == <>[]Quiet => <>ScopeOver
=============================================================================
