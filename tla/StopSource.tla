----------------------------- MODULE StopSource -----------------------------
(***************************************************************************)
(* Stop sources and their callbacks: src/src/stop_token/stoppable.rs.      *)
(*                                                                         *)
(* A stop source is a flag and a mutex around a vector of callback slots.  *)
(* request_stop stores the flag first, then takes the mutex and runs every *)
(* callback it finds while it holds the mutex.  register and deregister    *)
(* take the same mutex.  A source made from another source's token         *)
(* (From<StopToken>) registers a callback there that stops it, so a stop   *)
(* may run down a chain of sources, holding the mutex of each.             *)
(*                                                                         *)
(* A thread's calls are the frames of its stack, innermost first:          *)
(*   Stopping(s, at)  request_stop on s; it waits for the mutex when at is *)
(*                    0, and looks at slot `at` next when it has it        *)
(*   Running(c)       the function of callback c                           *)
(* register and deregister do not block once they have the mutex, so each  *)
(* is one step.  (The load of `stopped` in register happens at that step;  *)
(* a store that comes after it commutes with the push.)                    *)
(*                                                                         *)
(* Every caller of the source in src/ runs a function that was refused at  *)
(* once, on its own thread: so does Register here.  The source outlives    *)
(* its callbacks' handles.  No callback uses its own source again here;    *)
(* WhenAll says what may bring one there, and what comes of it.            *)
(***************************************************************************)
EXTENDS Naturals, Sequences

CONSTANTS Threads,
          Sources,
          Callbacks,    \* the callbacks that may be registered, once each
          Home,         \* the source on which each callback is registered
          Forward,      \* the source each callback stops, or Leaf
          Leaf,         \* a callback that runs a function of the user's
          NoOwner,
          MaxRequests   \* bound: calls of request_stop from outside

ASSUME StopSourceAssumption ==
  /\ NoOwner \notin Threads
  /\ Leaf \notin Sources
  /\ Home \in [Callbacks -> Sources]
  /\ Forward \in [Callbacks -> Sources \cup {Leaf}]
  /\ MaxRequests \in Nat

VARIABLES stopped,        \* StopSourceState.stopped
          owner,          \* who holds the mutex around the callbacks
          callbacks,      \* the slots: an emptied one stays, as <<>>
          handle,         \* what became of a callback's StoppableCallback
          callback_slot,  \* StoppableCallback.callback_slot
          stack,          \* the calls each thread is in
          called,         \* how often each callback's function was started
          requests        \* request_stop calls made from outside

vars == <<stopped, owner, callbacks, handle, callback_slot, stack, called, requests>>

Empty == <<>>   \* Option::None of a slot; a callback c is there as <<c>>

Stopping(s, at) == [op |-> "stop", src |-> s, at |-> at]
Running(c) == [op |-> "run", cb |-> c]

Frames == [op : {"stop"}, src : Sources, at : Nat] \cup [op : {"run"}, cb : Callbacks]

TypeOK ==
  /\ stopped \in [Sources -> BOOLEAN]
  /\ owner \in [Sources -> Threads \cup {NoOwner}]
  /\ callbacks \in [Sources -> Seq({Empty} \cup {<<c>> : c \in Callbacks})]
  /\ handle \in [Callbacks -> {"none", "held", "detached", "dropped", "refused"}]
  /\ callback_slot \in [Callbacks -> Nat]
  /\ stack \in [Threads -> Seq(Frames)]
  /\ called \in [Callbacks -> Nat]
  /\ requests \in 0..MaxRequests

Init ==
  /\ stopped = [s \in Sources |-> FALSE]
  /\ owner = [s \in Sources |-> NoOwner]
  /\ callbacks = [s \in Sources |-> <<>>]
  /\ handle = [c \in Callbacks |-> "none"]
  /\ callback_slot = [c \in Callbacks |-> 0]
  /\ stack = [t \in Threads |-> <<>>]
  /\ called = [c \in Callbacks |-> 0]
  /\ requests = 0

Idle(t) == stack[t] = <<>>

InStop(t, s) == /\ ~Idle(t)
                /\ stack[t][1].op = "stop"
                /\ stack[t][1].src = s

At(t) == stack[t][1].at

----------------------------------------------------------------------------
(* The calls. *)

\* What running a callback's function comes to: a user's function, or
\* request_stop on the next source, whose first act is to store the flag.
Call(t, c, rest) ==
  /\ called' = [called EXCEPT ![c] = @ + 1]
  /\ IF Forward[c] = Leaf
     THEN /\ stack' = [stack EXCEPT ![t] = <<Running(c)>> \o rest]
          /\ UNCHANGED stopped
     ELSE /\ stack' = [stack EXCEPT ![t] = <<Stopping(Forward[c], 0)>> \o rest]
          /\ stopped' = [stopped EXCEPT ![Forward[c]] = TRUE]

\* request_stop, called from outside: store the flag.
RequestStop(t, s) ==
  /\ Idle(t) /\ requests < MaxRequests
  /\ requests' = requests + 1
  /\ stopped' = [stopped EXCEPT ![s] = TRUE]
  /\ stack' = [stack EXCEPT ![t] = <<Stopping(s, 0)>>]
  /\ UNCHANGED <<owner, callbacks, handle, callback_slot, called>>

\* request_stop gets the mutex.
Lock(t, s) ==
  /\ InStop(t, s) /\ At(t) = 0
  /\ owner[s] = NoOwner
  /\ owner' = [owner EXCEPT ![s] = t]
  /\ stack' = [stack EXCEPT ![t][1].at = 1]
  /\ UNCHANGED <<stopped, callbacks, handle, callback_slot, called, requests>>

\* Wrong variant: a callback that may be called again (FnMut) stays in its slot.
InvokeSlotKeeping(t, s) ==
  /\ InStop(t, s) /\ At(t) \in 1..Len(callbacks[s])
  /\ \E c \in Callbacks :
       /\ callbacks[s][At(t)] = <<c>>
       /\ Call(t, c, <<Stopping(s, At(t) + 1)>> \o Tail(stack[t]))
  /\ UNCHANGED <<owner, callbacks, handle, callback_slot, requests>>

\* CallbackWrapper::invoke: take the function out of the slot and run it.
InvokeSlot(t, s) ==
  /\ InStop(t, s) /\ At(t) \in 1..Len(callbacks[s])
  /\ \E c \in Callbacks :
       /\ callbacks[s][At(t)] = <<c>>
       /\ callbacks' = [callbacks EXCEPT ![s][At(t)] = Empty]
       /\ Call(t, c, <<Stopping(s, At(t) + 1)>> \o Tail(stack[t]))
  /\ UNCHANGED <<owner, handle, callback_slot, requests>>

\* Wrong variant: the loop moves on only past a callback that it ran.
SkipNoSlot(t, s) ==
  /\ InStop(t, s) /\ At(t) \in 1..Len(callbacks[s])
  /\ callbacks[s][At(t)] = Empty
  /\ UNCHANGED vars

\* A slot that was invoked or cleared before.
SkipSlot(t, s) ==
  /\ InStop(t, s) /\ At(t) \in 1..Len(callbacks[s])
  /\ callbacks[s][At(t)] = Empty
  /\ stack' = [stack EXCEPT ![t][1].at = @ + 1]
  /\ UNCHANGED <<stopped, owner, callbacks, handle, callback_slot, called, requests>>

\* request_stop has seen every slot: release the mutex and return.
Unlock(t, s) ==
  /\ InStop(t, s) /\ At(t) > Len(callbacks[s])
  /\ owner' = [owner EXCEPT ![s] = NoOwner]
  /\ stack' = [stack EXCEPT ![t] = Tail(@)]
  /\ UNCHANGED <<stopped, callbacks, handle, callback_slot, called, requests>>

\* A user's callback function returns.
Return(t) ==
  /\ ~Idle(t) /\ stack[t][1].op = "run"
  /\ stack' = [stack EXCEPT ![t] = Tail(@)]
  /\ UNCHANGED <<stopped, owner, callbacks, handle, callback_slot, called, requests>>

\* Wrong variant: register does not look at `stopped` under the mutex.
RegisterUnchecked(t, c) ==
  LET s == Home[c] IN
  /\ Idle(t) /\ handle[c] = "none"
  /\ owner[s] = NoOwner
  /\ callbacks' = [callbacks EXCEPT ![s] = Append(@, <<c>>)]
  /\ callback_slot' = [callback_slot EXCEPT ![c] = Len(callbacks[s]) + 1]
  /\ handle' = [handle EXCEPT
       ![c] = IF Forward[c] = Leaf THEN "held" ELSE "detached"]
  /\ UNCHANGED <<stopped, owner, stack, called, requests>>

\* register, and what its callers do when it gives the function back.  The
\* callback of From<StopToken> is detached from the start.
Register(t, c) ==
  LET s == Home[c] IN
  /\ Idle(t) /\ handle[c] = "none"
  /\ owner[s] = NoOwner
  /\ IF stopped[s]
     THEN /\ handle' = [handle EXCEPT ![c] = "refused"]
          /\ Call(t, c, <<>>)
          /\ UNCHANGED <<callbacks, callback_slot>>
     ELSE /\ callbacks' = [callbacks EXCEPT ![s] = Append(@, <<c>>)]
          /\ callback_slot' = [callback_slot EXCEPT ![c] = Len(callbacks[s]) + 1]
          /\ handle' = [handle EXCEPT
               ![c] = IF Forward[c] = Leaf THEN "held" ELSE "detached"]
          /\ UNCHANGED <<stopped, stack, called>>
  /\ UNCHANGED <<owner, requests>>

\* Wrong variant: Vec::remove, after which the later callbacks move down.
DropRemoving(t, c) ==
  LET s == Home[c]
      k == callback_slot[c] IN
  /\ Idle(t) /\ handle[c] = "held"
  /\ owner[s] = NoOwner
  /\ handle' = [handle EXCEPT ![c] = "dropped"]
  /\ callbacks' = [callbacks EXCEPT
       ![s] = SubSeq(@, 1, k - 1) \o SubSeq(@, k + 1, Len(@))]
  /\ UNCHANGED <<stopped, owner, callback_slot, stack, called, requests>>

\* Wrong variant: try_lock, so as not to wait for a stop that is under way.
DropTrying(t, c) ==
  LET s == Home[c] IN
  /\ Idle(t) /\ handle[c] = "held"
  /\ handle' = [handle EXCEPT ![c] = "dropped"]
  /\ callbacks' = IF owner[s] = NoOwner
                  THEN [callbacks EXCEPT ![s][callback_slot[c]] = Empty]
                  ELSE callbacks
  /\ UNCHANGED <<stopped, owner, callback_slot, stack, called, requests>>

\* The handle is dropped: deregister clears its slot, which stays in place.
Drop(t, c) ==
  LET s == Home[c] IN
  /\ Idle(t) /\ handle[c] = "held"
  /\ owner[s] = NoOwner
  /\ handle' = [handle EXCEPT ![c] = "dropped"]
  /\ callbacks' = [callbacks EXCEPT ![s][callback_slot[c]] = Empty]
  /\ UNCHANGED <<stopped, owner, callback_slot, stack, called, requests>>

\* detach: the handle forgets its source, so that its drop does nothing.
Detach(t, c) ==
  /\ Idle(t) /\ handle[c] = "held"
  /\ handle' = [handle EXCEPT ![c] = "detached"]
  /\ UNCHANGED <<stopped, owner, callbacks, callback_slot, stack, called, requests>>

----------------------------------------------------------------------------

\* request_stop and the callbacks it runs, to the return of the call.
Proceed(t) == \/ Return(t)
              \/ \E s \in Sources : \/ Lock(t, s) \/ InvokeSlot(t, s)
                                    \/ SkipSlot(t, s) \/ Unlock(t, s)

Next ==
  \E t \in Threads :
    \/ Proceed(t)
    \/ \E s \in Sources : RequestStop(t, s)
    \/ \E c \in Callbacks : Register(t, c) \/ Drop(t, c) \/ Detach(t, c)

\* Every thread goes on with a call it has begun, a user's callback returns,
\* and the mutex is not withheld from a thread that waits for it alone.
Fairness == \A t \in Threads : WF_vars(Proceed(t))

Spec == Init /\ [][Next]_vars /\ Fairness

----------------------------------------------------------------------------
(* Properties. *)

\* A callback's function is started once at most, however many threads
\* request the stop, and whether it was registered or refused.
CalledOnce == \A c \in Callbacks : called[c] <= 1

\* Once the handle's drop has returned the function is not running anywhere,
\* and never will be.
NotAfterDrop ==
  /\ \A c \in Callbacks, t \in Threads : handle[c] = "dropped" =>
       \A i \in 1..Len(stack[t]) : stack[t][i] # Running(c)
  /\ \A c \in Callbacks : handle[c] = "dropped" =>
       \A s \in Sources : \A i \in 1..Len(callbacks[s]) : callbacks[s][i] # <<c>>

\* When a stop was requested and no request_stop on that source is under way,
\* every callback that was accepted and not dropped has been started: none is
\* lost between the store of the flag and the sweep.
StopReachesAll ==
  \A s \in Sources :
    stopped[s] /\ (\A t \in Threads : \A i \in 1..Len(stack[t]) :
                     stack[t][i].op = "stop" => stack[t][i].src # s)
      => \A c \in Callbacks :
           Home[c] = s /\ handle[c] \in {"held", "detached"} => called[c] = 1

\* A handle clears its own callback and nobody else's: slots never move, and
\* the slot of a handle holds its callback until that is run.
SlotsStayPut ==
  \A c \in Callbacks : handle[c] = "held" =>
    /\ callback_slot[c] \in 1..Len(callbacks[Home[c]])
    /\ callbacks[Home[c]][callback_slot[c]] = IF called[c] = 0 THEN <<c>> ELSE Empty

\* request_stop returns, also when it runs down a chain of sources.
StopReturns == \A t \in Threads : ~Idle(t) ~> Idle(t)
=============================================================================
