------------------------------- MODULE Split -------------------------------
(***************************************************************************)
(* A sender chain that is run once and shared by many: Split and SplitSend *)
(* of src/src/split.rs.                                                    *)
(*                                                                         *)
(* The clones of a split share the operation state of the wrapped chain    *)
(* and its completion, each behind a mutex of its own (SplitSend) or in a  *)
(* RefCell (Split, when local is TRUE).  A client is one clone, connected  *)
(* to the receiver of whatever comes after it.  Starting it looks at the   *)
(* completion: when there is none yet, a callback is left and the wrapped  *)
(* chain is started, unless it was before; otherwise its receiver gets the *)
(* signal there and then.                                                  *)
(*                                                                         *)
(* A thread's calls are the frames of its stack, innermost first:          *)
(*   Starting(c, at)     SplitOpState::start of c: waiting for the state   *)
(*                       ("lock"), holding it while c's receiver runs      *)
(*                       ("deliver"), at ensure_started ("ensure"), and    *)
(*                       holding opstate while the chain runs ("run")      *)
(*   Chain               the wrapped chain, up to its CompletionReceiver   *)
(*   Callbacks(ops, at)  set_*: between two callbacks, or in one ("held")  *)
(*   Rcv(c)              the receiver of c                                 *)
(* The wrapped chain, and the schedule() by which a late value is sent,    *)
(* may run at once or be posted to a scheduler.  An unwinding thread drops *)
(* what is on its stack; the mutexes it held are poisoned, and whoever     *)
(* locks one of these later panics in unwrap.                              *)
(***************************************************************************)
EXTENDS Naturals, Sequences

CONSTANTS Threads, Clients,
          Reenter,       \* the client a client's receiver starts, or NoClient
          NoClient,
          Panicky,       \* the clients whose receivers may panic
          Observed,      \* a client: the one that ClientMeetsSignal speaks of
          ChainMayDie,   \* may the chain panic, or be dropped by its scheduler?
          SendReenters,  \* do receivers of SplitSend start clients, too?
          Free, Poisoned

ASSUME SplitAssumption ==
  /\ Free \notin Threads /\ Poisoned \notin Threads /\ Free # Poisoned
  /\ NoClient \notin Clients
  /\ Reenter \in [Clients -> Clients \cup {NoClient}]
  /\ Panicky \subseteq Clients /\ Observed \in Clients
  /\ {ChainMayDie, SendReenters} \subseteq BOOLEAN

VARIABLES local,          \* a Split, on one thread, and not a SplitSend
          opstate,        \* OpStateWrapper.opstate is still Some
          opstate_mutex,  \* its mutex: Free, Poisoned, or the thread that has it
          state_mutex,    \* the mutex around completion and receivers
          completion, receivers,
          chain,          \* the wrapped chain
          tasks,          \* the late values posted to the chain's scheduler
          stack,          \* the calls each thread is in
          begun,          \* the clients that were started
          got,            \* the signals each client's receiver was given
          dropped,        \* the clients whose receiver went in an unwinding
          chain_starts    \* how often the chain was started

vars == <<local, opstate, opstate_mutex, state_mutex, completion, receivers, chain, tasks,
          stack, begun, got, dropped, chain_starts>>

shared == <<local, completion, receivers, tasks, begun, got, dropped>>

Signals == {"value", "error", "done"}

Starting(c, at) == [op |-> "start", client |-> c, at |-> at]
Chain == [op |-> "chain"]
Callbacks(ops, at) == [op |-> "callbacks", ops |-> ops, at |-> at]
Rcv(c) == [op |-> "rcv", client |-> c]

Frames ==
  {Chain} \cup {Rcv(c) : c \in Clients}
    \cup [op : {"start"}, client : Clients, at : {"lock", "deliver", "ensure", "run"}]
    \cup [op : {"callbacks"}, ops : Seq(Clients), at : {"next", "held"}]

TypeOK ==
  /\ local \in BOOLEAN /\ opstate \in BOOLEAN
  /\ {opstate_mutex, state_mutex} \subseteq Threads \cup {Free, Poisoned}
  /\ completion \in {"pending"} \cup Signals
  /\ receivers \in Seq(Clients)
  /\ chain \in {"connected", "posted", "running", "over", "dead", "lost"}
  /\ tasks \subseteq Clients
  /\ stack \in [Threads -> Seq(Frames)]
  /\ begun \subseteq Clients
  /\ got \in [Clients -> Seq(Signals)]
  /\ dropped \subseteq Clients
  /\ chain_starts \in Nat

Init ==
  /\ local \in BOOLEAN
  /\ opstate = TRUE
  /\ opstate_mutex = Free /\ state_mutex = Free
  /\ completion = "pending"
  /\ receivers = <<>>
  /\ chain = "connected"
  /\ tasks = {}
  /\ stack = [t \in Threads |-> <<>>]
  /\ begun = {}
  /\ got = [c \in Clients |-> <<>>]
  /\ dropped = {}
  /\ chain_starts = 0

Idle(t) == stack[t] = <<>>
At(t, op) == ~Idle(t) /\ Head(stack[t]).op = op
InStart(t, at) == At(t, "start") /\ Head(stack[t]).at = at
Client(t) == Head(stack[t]).client

\* A Split is not Send: it stays on one thread.
Usable(t) == local => t = CHOOSE u \in Threads : TRUE

\* The receiver of d starts c.
Starts(d, c) == Reenter[d] = c /\ (local \/ SendReenters)

Push(t, f) == stack' = [stack EXCEPT ![t] = <<f>> \o @]
Pop(t) == stack' = [stack EXCEPT ![t] = Tail(@)]
Goto(t, f) == stack' = [stack EXCEPT ![t] = <<f>> \o Tail(@)]
GotoAndCall(t, f, callee) == stack' = [stack EXCEPT ![t] = <<callee, f>> \o Tail(@)]

----------------------------------------------------------------------------
(* Starting a client. *)

\* start of the operation state of c: by a thread, or by a receiver that runs.
Start(t, c) ==
  /\ c \notin begun
  /\ IF Idle(t) THEN Usable(t) /\ \A d \in Clients : ~Starts(d, c)
                ELSE At(t, "rcv") /\ Starts(Client(t), c)
  /\ begun' = begun \cup {c}
  /\ Push(t, Starting(c, "lock"))
  /\ UNCHANGED <<local, opstate, opstate_mutex, state_mutex, completion, receivers, chain,
                 tasks, got, dropped, chain_starts>>

\* Wrong variant: no drop(state) before ensure_started.
StartPendingLocked(t) ==
  /\ InStart(t, "lock") /\ state_mutex = Free
  /\ completion = "pending"
  /\ receivers' = Append(receivers, Client(t))
  /\ state_mutex' = t
  /\ Goto(t, Starting(Client(t), "ensure"))
  /\ UNCHANGED <<local, opstate, opstate_mutex, completion, chain, tasks, begun, got, dropped,
                 chain_starts>>

\* Wrong variant: the completion was looked at before the lock was taken.
StartPendingUnchecked(t) ==
  /\ InStart(t, "lock") /\ state_mutex = Free
  /\ receivers' = Append(receivers, Client(t))
  /\ Goto(t, Starting(Client(t), "ensure"))
  /\ UNCHANGED <<local, opstate, opstate_mutex, state_mutex, completion, chain, tasks, begun,
                 got, dropped, chain_starts>>

\* Pending: leave a callback and unlock, before the chain is started.
StartPending(t) ==
  /\ InStart(t, "lock") /\ state_mutex = Free
  /\ completion = "pending"
  /\ receivers' = Append(receivers, Client(t))
  /\ Goto(t, Starting(Client(t), "ensure"))
  /\ UNCHANGED <<local, opstate, opstate_mutex, state_mutex, completion, chain, tasks, begun,
                 got, dropped, chain_starts>>

\* A signal is there: give it to the receiver, under the lock.  So does a
\* value whose scheduler runs what it is given at once.
StartSignalled(t) ==
  /\ InStart(t, "lock") /\ state_mutex = Free
  /\ completion # "pending"
  /\ state_mutex' = t
  /\ got' = [got EXCEPT ![Client(t)] = Append(@, completion)]
  /\ GotoAndCall(t, Starting(Client(t), "deliver"), Rcv(Client(t)))
  /\ UNCHANGED <<local, opstate, opstate_mutex, completion, receivers, chain, tasks, begun,
                 dropped, chain_starts>>

\* A value whose scheduler takes it for later.
StartScheduled(t) ==
  /\ InStart(t, "lock") /\ state_mutex = Free
  /\ completion = "value"
  /\ tasks' = tasks \cup {Client(t)}
  /\ Pop(t)
  /\ UNCHANGED <<local, opstate, opstate_mutex, state_mutex, completion, receivers, chain,
                 begun, got, dropped, chain_starts>>

\* The receiver has returned; the guard of the state goes with start.
StartReturn(t) ==
  /\ InStart(t, "deliver")
  /\ state_mutex' = Free
  /\ Pop(t)
  /\ UNCHANGED <<opstate, opstate_mutex, chain, chain_starts>> /\ UNCHANGED shared

\* ensure_started, when the chain was started before.
EnsureAgain(t) ==
  /\ InStart(t, "ensure") /\ opstate_mutex = Free
  /\ ~opstate
  /\ Pop(t)
  /\ UNCHANGED <<opstate, opstate_mutex, state_mutex, chain, chain_starts>>
  /\ UNCHANGED shared

\* Wrong variant: the operation state is not taken out of its Option.
EnsureRunsKeeping(t) ==
  /\ InStart(t, "ensure") /\ opstate_mutex = Free
  /\ opstate
  /\ opstate_mutex' = t
  /\ chain' = "running" /\ chain_starts' = chain_starts + 1
  /\ GotoAndCall(t, Starting(Client(t), "run"), Chain)
  /\ UNCHANGED <<opstate, state_mutex>> /\ UNCHANGED shared

\* ensure_started takes the operation state and starts it, holding the mutex:
\* the chain runs on this thread ...
EnsureRuns(t) ==
  /\ InStart(t, "ensure") /\ opstate_mutex = Free
  /\ opstate /\ opstate' = FALSE
  /\ opstate_mutex' = t
  /\ chain' = "running" /\ chain_starts' = chain_starts + 1
  /\ GotoAndCall(t, Starting(Client(t), "run"), Chain)
  /\ UNCHANGED state_mutex /\ UNCHANGED shared

\* ... or is posted to a scheduler, and start returns.
EnsurePosts(t) ==
  /\ InStart(t, "ensure") /\ opstate_mutex = Free
  /\ opstate /\ opstate' = FALSE
  /\ chain' = "posted" /\ chain_starts' = chain_starts + 1
  /\ Pop(t)
  /\ UNCHANGED <<opstate_mutex, state_mutex>> /\ UNCHANGED shared

\* Wrong variant: what the chain has completed with is given to the receiver of
\* the start that ran it, as well as to its callback.
EnsureReturnDelivers(t) ==
  /\ InStart(t, "run")
  /\ opstate_mutex' = Free
  /\ got' = [got EXCEPT ![Client(t)] = Append(@, completion)]
  /\ Goto(t, Rcv(Client(t)))
  /\ UNCHANGED <<local, opstate, state_mutex, completion, receivers, chain, tasks, begun,
                 dropped, chain_starts>>

\* ensure_started has run the chain, and releases the operation state.
EnsureReturn(t) ==
  /\ InStart(t, "run")
  /\ opstate_mutex' = Free
  /\ Pop(t)
  /\ UNCHANGED <<opstate, state_mutex, chain, chain_starts>> /\ UNCHANGED shared

----------------------------------------------------------------------------
(* The chain, and its completion. *)

\* A scheduler's thread takes up the chain, or a late value.
TakeChain(t) ==
  /\ Idle(t) /\ Usable(t) /\ chain = "posted"
  /\ chain' = "running"
  /\ Push(t, Chain)
  /\ UNCHANGED <<opstate, opstate_mutex, state_mutex, chain_starts>>
  /\ UNCHANGED shared

\* The scheduler calls the WrapValue.  Every scheduler of the crate does so with
\* its set_value; one that sends an error or done instead, which WrapValue passes
\* on to this one client, is left out.
TakeTask(t, c) ==
  /\ Idle(t) /\ Usable(t) /\ c \in tasks
  /\ tasks' = tasks \ {c}
  /\ got' = [got EXCEPT ![c] = Append(@, "value")]
  /\ Push(t, Rcv(c))
  /\ UNCHANGED <<local, opstate, opstate_mutex, state_mutex, completion, receivers, chain,
                 begun, dropped, chain_starts>>

\* Wrong variant: split_off(len), which takes nothing away.
CompleteTakingNone(t, signal) ==
  /\ At(t, "chain") /\ state_mutex = Free
  /\ completion = "pending"
  /\ completion' = signal
  /\ chain' = "over"
  /\ Goto(t, Callbacks(<<>>, "next"))
  /\ UNCHANGED <<local, opstate, opstate_mutex, state_mutex, receivers, tasks, begun, got,
                 dropped, chain_starts>>

\* CompletionReceiver::set_*: assign the signal and take the callbacks away.
\* (ChainStartedOnce says that assign_* never panics: the state is Pending.)
Complete(t, signal) ==
  /\ At(t, "chain") /\ state_mutex = Free
  /\ completion = "pending"
  /\ completion' = signal
  /\ receivers' = <<>>
  /\ chain' = "over"
  /\ Goto(t, Callbacks(receivers, "next"))
  /\ UNCHANGED <<local, opstate, opstate_mutex, state_mutex, tasks, begun, got, dropped,
                 chain_starts>>

\* ReceiverWrapper::invoke: the next receiver gets the signal, under the lock.
Invoke(t) ==
  /\ At(t, "callbacks") /\ Head(stack[t]).at = "next" /\ state_mutex = Free
  /\ LET ops == Head(stack[t]).ops IN
     /\ ops # <<>>
     /\ got' = [got EXCEPT ![Head(ops)] = Append(@, completion)]
     /\ GotoAndCall(t, Callbacks(Tail(ops), "held"), Rcv(Head(ops)))
  /\ state_mutex' = t
  /\ UNCHANGED <<local, opstate, opstate_mutex, completion, receivers, chain, tasks, begun,
                 dropped, chain_starts>>

InvokeReturn(t) ==
  /\ At(t, "callbacks") /\ Head(stack[t]).at = "held"
  /\ state_mutex' = Free
  /\ Goto(t, Callbacks(Head(stack[t]).ops, "next"))
  /\ UNCHANGED <<opstate, opstate_mutex, chain, chain_starts>> /\ UNCHANGED shared

\* Every callback was called: set_* returns, and with it the chain.
CompleteReturn(t) ==
  /\ At(t, "callbacks") /\ Head(stack[t]) = Callbacks(<<>>, "next")
  /\ Pop(t)
  /\ UNCHANGED <<opstate, opstate_mutex, state_mutex, chain, chain_starts>>
  /\ UNCHANGED shared

RcvReturn(t) ==
  /\ At(t, "rcv")
  /\ Pop(t)
  /\ UNCHANGED <<opstate, opstate_mutex, state_mutex, chain, chain_starts>>
  /\ UNCHANGED shared

----------------------------------------------------------------------------
(* Unwinding. *)

\* The clients whose receivers an unwinding of t drops unused.
Carried(t) ==
  {c \in Clients : \E i \in DOMAIN stack[t] :
     LET f == stack[t][i] IN
     \/ f = Starting(c, "lock")
     \/ f.op = "callbacks" /\ \E j \in DOMAIN f.ops : f.ops[j] = c}

\* The guard of a mutex poisons it; a RefCell is just given back.
LetGo(t, mutex) == IF mutex # t THEN mutex ELSE IF local THEN Free ELSE Poisoned

Unwind(t) ==
  /\ opstate_mutex' = LetGo(t, opstate_mutex)
  /\ state_mutex' = LetGo(t, state_mutex)
  /\ dropped' = dropped \cup Carried(t)
  /\ stack' = [stack EXCEPT ![t] = <<>>]
  /\ UNCHANGED <<local, opstate, completion, receivers, tasks, begun, got, chain_starts>>

RcvPanics(t) ==
  /\ At(t, "rcv") /\ Client(t) \in Panicky
  /\ Unwind(t)
  /\ UNCHANGED chain

\* The chain panics, or is dropped, and sends no signal.
ChainDies(t) ==
  /\ ChainMayDie
  /\ At(t, "chain")
  /\ chain' = "dead"
  /\ Unwind(t)

WantsState(t) == \/ InStart(t, "lock")
                 \/ At(t, "chain")
                 \/ /\ At(t, "callbacks")
                    /\ Head(stack[t]).at = "next" /\ Head(stack[t]).ops # <<>>

WantsOpstate(t) == InStart(t, "ensure")

\* unwrap on the lock of a poisoned mutex, or a second borrow_mut.
Unlockable(t, mutex) == mutex = Poisoned \/ (local /\ mutex = t)

LockPanics(t) ==
  /\ \/ WantsState(t) /\ Unlockable(t, state_mutex)
     \/ WantsOpstate(t) /\ Unlockable(t, opstate_mutex)
  /\ chain' = IF At(t, "chain") THEN "lost" ELSE chain
  /\ Unwind(t)

----------------------------------------------------------------------------

\* What a thread does that is in a call.
Proceed(t) ==
  \/ StartPending(t) \/ StartSignalled(t) \/ StartScheduled(t) \/ StartReturn(t)
  \/ EnsureAgain(t) \/ EnsureRuns(t) \/ EnsurePosts(t) \/ EnsureReturn(t)
  \/ \E signal \in Signals : Complete(t, signal)
  \/ Invoke(t) \/ InvokeReturn(t) \/ CompleteReturn(t) \/ RcvReturn(t)
  \/ LockPanics(t)

Next ==
  \E t \in Threads :
    \/ Proceed(t)
    \/ RcvPanics(t) \/ ChainDies(t)
    \/ TakeChain(t)
    \/ \E c \in Clients : Start(t, c) \/ TakeTask(t, c)

\* A thread in a call goes on with it (receivers return, and the chain sends a
\* signal), and schedulers run what was posted to them.
Fairness ==
  /\ \A t \in Threads : WF_vars(Proceed(t))
  /\ WF_vars(\E t \in Threads : TakeChain(t))
  /\ \A c \in Clients : WF_vars(\E t \in Threads : TakeTask(t, c))

Spec == Init /\ [][Next]_vars /\ Fairness

----------------------------------------------------------------------------
(* Properties. *)

\* "The wrapped typed-sender will be run once": however many clients race to
\* start it.  So the assertion of assign_* never fails.
ChainStartedOnce ==
  /\ chain_starts <= 1
  /\ \A t \in Threads : At(t, "chain") => completion = "pending"

\* Every client gets one signal at most, and it is the chain's.
SameSignalOnce ==
  \A c \in Clients : got[c] # <<>> => completion # "pending" /\ got[c] = <<completion>>

\* No callback is left behind by a start that races with the completion, nor is
\* the signal lost for all of them to a lock that panics: poisoned by a client, or
\* borrowed twice.
NoLostCallback == /\ completion # "pending" => receivers = <<>>
                  /\ chain # "lost"

\* The comment in start: "if the sender-chain completes on this thread, we want
\* to avoid dead-lock".  No thread of a SplitSend waits for a mutex that it holds.
NoSelfDeadlock ==
  ~local => \A t \in Threads : /\ WantsState(t) => state_mutex # t
                               /\ WantsOpstate(t) => opstate_mutex # t

\* What any client is promised: once it was started it gets the chain's
\* signal, or is dropped by a panic, as in a Rendezvous.  Only a chain that died
\* without a signal leaves its clients waiting.
Abstract == INSTANCE Rendezvous WITH
  sent <- IF completion = "pending" THEN <<>> ELSE <<completion>>,
  attached <- IF Observed \in dropped THEN "gone"
              ELSE IF Observed \in begun THEN "yes" ELSE "no",
  delivered <- got[Observed]

ClientMeetsSignal == Abstract!Spec
=============================================================================
