-------------------------------- MODULE Chain --------------------------------
(***************************************************************************)
(* A chain of senders, from its start to its end: the sources just,        *)
(* just_error, just_done and io::Write; then, upon_error, upon_done,       *)
(* let_error, let_done, transfer and stop_if_requested; the schedulers they*)
(* go through; and sync_wait, sync_wait_send or start_detached at the end  *)
(* (src/src/just.rs, just_error.rs, just_done.rs, io/write.rs, then.rs,    *)
(* upon_error.rs, upon_done.rs, let_error.rs, let_done.rs, transfer.rs,    *)
(* stop_if_requested.rs, functor.rs, scheduler.rs, sync_wait.rs,           *)
(* start_detached.rs).                                                     *)
(*                                                                         *)
(* A chain is a sequence of stages.  One signal goes along, from receiver  *)
(* to receiver, each called by the one before: so the frames of a thread   *)
(* stay on its stack while the signal goes on elsewhere.  A value comes    *)
(* with its scheduler, here the set of the threads that it runs on.        *)
(*                                                                         *)
(* What a user's function does is in the chain: it returns a value or an   *)
(* error, or panics.  The counters of the scope are in Scope, the queues of*)
(* the workers in Worker; here a queued closure is taken by a thread, or   *)
(* lost with a worker that panics.                                         *)
(***************************************************************************)
EXTENDS Naturals, Sequences

CONSTANTS Main,       \* the thread that starts the chain, and has a Worker
          Pooled,     \* the threads of a threadpool::ThreadPool
          Workers,    \* the threads of the crate's own ThreadPool
          Chains      \* the chains of the program

Threads == {Main} \cup Pooled \cup Workers
Elsewhere == {"queued", "gone", "lost", "leaked"}   \* where no thread has the signal

----------------------------------------------------------------------------
(* The chains that the types allow. *)

\* ImmediateScheduler, threadpool::ThreadPool, the crate's ThreadPool, and the
\* ThreadLocalPool of Main, or its CrossThreadPool in chains that are Send.
Schedulers == {"immediate", "pool", "spread", "local"}

\* Sch::LocalScheduler, the type that a value comes with.
LocalScheduler(sch) == IF sch \in {"spread", "local"} THEN "local" ELSE sch
Types == {"immediate", "pool", "local"}
Of(type) == {sch \in Schedulers : LocalScheduler(sch) = type}

Functions == {"value", "error", "panic"}

Source(op, sch, f) == [op |-> op, sch |-> sch, f |-> f]

\* just, or a write that may fail; and what starts with another signal.
Sources(type) == {Source("schedule", sch, f) : sch \in Of(type), f \in {"value", "error"}}
                   \cup {Source(op, type, "value") : op \in {"error", "done"}}

\* What the function of a let stage makes: a chain, an error, or a panic.
Seconds(type) == {Source("schedule", sch, "value") : sch \in Of(type)}
                   \cup {Source(op, type, "value") : op \in {"done", "error", "panic"}}

Upon(op, sch, f) == [op |-> op, sch |-> sch, f |-> f]
Let(op, second) == [op |-> op, second |-> second]
Then(f) == [op |-> "then", f |-> f]
Transfer(sch) == [op |-> "transfer", sch |-> sch]
StopIfRequested == [op |-> "stop_if_requested"]

\* "lazy" is the LazyScheduler of the pool, for those who are there already.
Stages(type) ==
  {Then(f) : f \in Functions}
    \cup {Upon(op, sch, f) : op \in {"upon_error", "upon_done"}, sch \in Of(type), f \in Functions}
    \cup {Let(op, second) : op \in {"let_error", "let_done"}, second \in Seconds(type)}
    \cup {Transfer(sch) : sch \in Schedulers \cup (IF type = "pool" THEN {"lazy"} ELSE {})}
    \cup {StopIfRequested}

TypeAfter(stage, type) ==
  IF stage.op # "transfer" THEN type
  ELSE IF stage.sch = "lazy" THEN "pool" ELSE LocalScheduler(stage.sch)

AnyStage == UNION {Sources(type) \cup Stages(type) : type \in Types}

\* sender | stage: the stage is one for the type of the sender, and makes its own of it.
Joins(stage, before, after) == stage \in Stages(before) /\ after = TypeAfter(stage, before)

\* A source and its stages, where types[i] is what comes out of stage i.
Typed(chain, types) ==
  /\ chain[1] \in Sources(types[1])
  /\ \A i \in 2..Len(chain) : Joins(chain[i], types[i - 1], types[i])

ASSUME ChainAssumption ==
  /\ Main \notin Pooled \cup Workers /\ Pooled \cap Workers = {}
  /\ Threads \cap Elsewhere = {}
  /\ \A chain \in Chains : /\ chain \in Seq(AnyStage) \ {<<>>}
                           /\ \E types \in [1..Len(chain) -> Types] : Typed(chain, types)

Stays(chain) == \A i \in DOMAIN chain :
  LET s == chain[i] IN
    /\ s.op \in {"schedule", "upon_error", "upon_done", "transfer"}
         => s.sch \in {"immediate", "local"}
    /\ s.op \in {"let_error", "let_done"} => s.second.sch \in {"immediate", "local"}

----------------------------------------------------------------------------

VARIABLES chain, end,  \* the chain, and what it was given to
          signal,      \* the signal, and the threads that its scheduler runs on
          at,          \* the thread that has the signal; or it is "queued", or
                       \* "gone", or "lost" or "leaked" with a queue
          rest,        \* the stages it has to go through
          frames,      \* the threads with receivers of the chain on their stack
          main,        \* where Main is
          outcome,     \* what came out
          stopped, early   \* was a stop requested, and was it before the start?

vars == <<chain, end, signal, at, rest, frames, main, outcome, stopped, early>>
fixed == <<chain, end, early>>

TypeOK ==
  /\ chain \in Chains
  /\ end \in {"sync_wait", "sync_wait_send", "start_detached"}
  /\ signal \in [kind : {"none", "value", "error", "done"}, on : SUBSET Threads]
  /\ at \in Threads \cup Elsewhere
  /\ rest \in Seq(AnyStage)
  /\ frames \subseteq Threads
  /\ main \in {"starting", "receiving", "leaving", "returned"}
  /\ outcome \in {"none", "value", "error", "done", "panic", "aborted"}
  /\ {stopped, early} \subseteq BOOLEAN

Init ==
  /\ chain \in Chains
  /\ end \in {"sync_wait", "sync_wait_send", "start_detached"}
  /\ end = "sync_wait" => Stays(chain)      \* whose scope is not Send
  /\ signal = [kind |-> "none", on |-> {}]
  /\ at = Main
  /\ rest = chain
  /\ frames = {Main}
  /\ main = "starting"
  /\ outcome = "none"
  /\ early \in BOOLEAN /\ (end # "start_detached" => ~early)
  /\ stopped = early

Detached == end = "start_detached"

\* A thread has the signal, and the next stage is one of these.
At(ops) == at \in Threads /\ rest # <<>> /\ Head(rest).op \in ops

Continue(kind) == /\ signal' = [signal EXCEPT !.kind = kind]
                  /\ rest' = Tail(rest)
                  /\ UNCHANGED <<at, frames, main, outcome>>

\* The function of this stage panics, and the thread drops what is left of the
\* chain while it unwinds: a DiscardingReceiver aborts the process then.
Panic ==
  /\ at' = "gone" /\ rest' = <<>>
  /\ signal' = [kind |-> "none", on |-> {}]
  /\ IF Detached THEN outcome' = "aborted" /\ UNCHANGED <<frames, main>>
     ELSE IF at = Main
     THEN outcome' = "panic" /\ main' = "leaving" /\ frames' = frames \ {Main}
     ELSE UNCHANGED <<frames, main, outcome>>

\* f(..) returned: see Functions.
Invoke(f) == IF f = "panic" THEN Panic ELSE Continue(f)

\* schedule().connect(receiver).start(): the receiver's set_value is called at
\* once, or goes to a queue; there it is called by one of the scheduler's threads.
Schedule(sch, receivers) ==
  /\ rest' = receivers
  /\ signal' \in {[kind |-> "value", on |-> on] :
       on \in CASE sch = "immediate" -> {Threads}
                [] sch \in {"pool", "lazy"} -> {Pooled}
                [] sch = "spread" -> {{w} : w \in Workers}
                [] sch = "local" -> {{Main}}}
  /\ at' = IF sch \in {"immediate", "lazy"} THEN at ELSE "queued"
  /\ UNCHANGED <<frames, main, outcome>>

\* A source is started: its receivers follow.  JustDone and JustError send their
\* signal at once.
Begin(source, receivers) ==
  IF source.op = "schedule" THEN Schedule(source.sch, <<Then(source.f)>> \o receivers)
  ELSE /\ signal' = [kind |-> source.op, on |-> {}]
       /\ rest' = receivers
       /\ UNCHANGED <<at, frames, main, outcome>>

----------------------------------------------------------------------------
(* The stages. *)

Start ==
  /\ At({"schedule", "error", "done"})
  /\ Begin(Head(rest), Tail(rest))
  /\ UNCHANGED fixed /\ UNCHANGED stopped

\* Which signal a stage is about.  It passes the others on.
Handles(stage) == CASE stage.op \in {"then", "transfer", "stop_if_requested"} -> "value"
                    [] stage.op \in {"upon_error", "let_error"} -> "error"
                    [] stage.op \in {"upon_done", "let_done"} -> "done"

Passes ==
  /\ At({"then", "transfer", "stop_if_requested", "upon_error", "upon_done", "let_error",
         "let_done"})
  /\ signal.kind # Handles(Head(rest))
  /\ Continue(signal.kind)
  /\ UNCHANGED fixed /\ UNCHANGED stopped

Handled(ops) == /\ At(ops) /\ signal.kind = Handles(Head(rest))
                /\ UNCHANGED fixed /\ UNCHANGED stopped

\* Also what follows a schedule: the receivers of just, write, upon_error,
\* upon_done and transfer that were scheduled, with the function they call.
ThenInvokes == Handled({"then"}) /\ Invoke(Head(rest).f)

UponSchedules ==
  /\ Handled({"upon_error", "upon_done"})
  /\ Schedule(Head(rest).sch, <<Then(Head(rest).f)>> \o Tail(rest))

\* The function makes a chain, whose start is on this thread.
LetStarts ==
  /\ Handled({"let_error", "let_done"})
  /\ LET second == Head(rest).second
     IN  IF second.op = "panic" THEN Panic ELSE Begin(second, Tail(rest))

\* Wrong variant: every scheduler is taken for a lazy one.
TransferAtOnce == Handled({"transfer"}) /\ Schedule("lazy", Tail(rest))

TransferSchedules ==
  /\ Handled({"transfer"})
  /\ Schedule(Head(rest).sch, <<Then("value")>> \o Tail(rest))

StopAsks == Handled({"stop_if_requested"}) /\ Continue(IF stopped THEN "done" ELSE "value")

\* A stop token that was given to start_detached_with_stop_token; sync_wait has none.
RequestStop ==
  /\ Detached /\ ~stopped /\ outcome # "aborted"
  /\ stopped' = TRUE
  /\ UNCHANGED <<chain, end, early, signal, at, rest, frames, main, outcome>>

----------------------------------------------------------------------------
(* The threads. *)

\* A thread that has nothing else to do takes the closure.  Main does so when it
\* is not in sync_wait.
Take(t) ==
  /\ at = "queued" /\ t \in signal.on /\ t \notin frames
  /\ t = Main => main = "returned"
  /\ at' = t
  /\ frames' = frames \cup {t}
  /\ UNCHANGED <<fixed, signal, rest, main, outcome, stopped>>

\* A worker is gone after the panic of another task, or since Main has dropped its
\* own: the closure is leaked or dropped, while a worker unwinds.
Lost(t) ==
  /\ at = "queued" /\ signal.on = {t} /\ t \notin frames
  /\ t = Main => main = "returned"
  /\ at' \in {"lost", "leaked"}
  /\ outcome' = IF Detached /\ at' = "lost"
                THEN IF t = Main THEN "panic" ELSE "aborted"
                ELSE outcome
  /\ UNCHANGED <<fixed, signal, rest, frames, main, stopped>>

\* The signal is elsewhere, and the receivers and start return.
Return(t) ==
  /\ t \in frames /\ at # t /\ outcome # "aborted"
  /\ frames' = frames \ {t}
  /\ main' = IF t = Main /\ main = "starting"
             THEN IF Detached THEN "returned" ELSE "receiving"
             ELSE main
  /\ UNCHANGED <<fixed, signal, at, rest, outcome, stopped>>

----------------------------------------------------------------------------
(* The ends. *)

\* Wrong variant: DiscardingReceiver discards the error, too.
CompleteQuietly ==
  /\ at \in Threads /\ rest = <<>>
  /\ at' = "gone"
  /\ outcome' = signal.kind
  /\ UNCHANGED <<fixed, signal, rest, frames, main, stopped>>

\* SendReceiver, NoSendReceiver, or DiscardingReceiver: which panics on an error.
Complete ==
  /\ at \in Threads /\ rest = <<>>
  /\ at' = "gone"
  /\ outcome' = IF Detached /\ signal.kind = "error" THEN "panic" ELSE signal.kind
  /\ UNCHANGED <<fixed, signal, rest, frames, main, stopped>>

\* Wrong variant: the sender that is dropped last does not wake recv.
ReceiveBlind ==
  /\ main = "receiving" /\ outcome # "none"
  /\ main' = "leaving"
  /\ UNCHANGED <<fixed, signal, at, rest, frames, stopped, outcome>>

\* rx.recv(), which fails when all senders are gone, and in sync_wait whenever
\* nothing is there: then expect panics.
Receive ==
  /\ main = "receiving"
  /\ \/ outcome # "none" /\ UNCHANGED outcome
     \/ /\ outcome = "none" /\ (at \in {"gone", "lost"} \/ end = "sync_wait")
        /\ outcome' = "panic"
  /\ main' = "leaving"
  /\ UNCHANGED <<fixed, signal, at, rest, frames, stopped>>

\* The scope ends with the last closure.
Leave ==
  /\ main = "leaving" /\ frames = {} /\ at \in {"gone", "lost"}
  /\ main' = "returned"
  /\ UNCHANGED <<fixed, signal, at, rest, frames, outcome, stopped>>

----------------------------------------------------------------------------

Run == \/ Start \/ Passes
       \/ ThenInvokes \/ UponSchedules \/ LetStarts \/ TransferSchedules \/ StopAsks
       \/ \E t \in Threads : Take(t) \/ Return(t)
       \/ Complete \/ Receive \/ Leave

Next == Run \/ RequestStop \/ \E t \in Workers \cup {Main} : Lost(t)

\* Threads go on, and those of a pool get to what is queued.
Spec == Init /\ [][Next]_vars /\ WF_vars(Run)

----------------------------------------------------------------------------
(* Properties. *)

\* set_value is called on a thread of the scheduler that it is given, wherever the
\* error and done signals went in between.
ValueOnItsScheduler == at \in Threads /\ signal.kind = "value" => at \in signal.on

\* The algebra of the stages: what each makes of a signal, when a stop is heeded
\* or not.
Effect(sig, stage, stopping) ==
  IF sig = "panic" THEN "panic"
  ELSE CASE stage.op = "then" /\ sig = "value" -> stage.f
         [] stage.op = "stop_if_requested" /\ sig = "value" /\ stopping -> "done"
         [] stage.op = "upon_error" /\ sig = "error" -> stage.f
         [] stage.op = "upon_done" /\ sig = "done" -> stage.f
         [] (stage.op = "let_error" /\ sig = "error") \/ (stage.op = "let_done" /\ sig = "done") ->
              IF stage.second.op = "schedule" THEN stage.second.f ELSE stage.second.op
         [] OTHER -> sig

\* sigs are the signals after each stage, when a stop is heeded from stage k on.
Follows(sigs, k) ==
  /\ sigs[1] = IF chain[1].op = "schedule" THEN chain[1].f ELSE chain[1].op
  /\ \A i \in 2..Len(chain) : sigs[i] = Effect(sigs[i - 1], chain[i], i >= k)

\* From the beginning, from some stage on, or not at all.
HeededFrom == IF early THEN {1} ELSE IF stopped THEN 1 .. Len(chain) + 1 ELSE {Len(chain) + 1}

Over == IF Detached THEN outcome # "none" ELSE main = "returned"

\* What comes out at the end of the chain.
Result(sig) == CASE sig = "panic" -> IF Detached THEN "aborted" ELSE "panic"
                 [] sig = "error" -> IF Detached THEN "panic" ELSE "error"
                 [] sig \in {"value", "done"} -> sig

\* sync_wait returns the signal of the chain, start_detached panics on an error:
\* whatever threads it went through.  A panic of a function is a panic of
\* sync_wait, and aborts what was detached.
OutcomeIsTheChains ==
  Over /\ at # "lost" =>
    \E k \in HeededFrom, sigs \in [1..Len(chain) -> Functions \cup {"done"}] :
      Follows(sigs, k) /\ outcome = Result(sigs[Len(chain)])

\* sync_wait comes back, also when a thread panics and when its closure is
\* dropped; unless it waits for a task of its own thread, or that was leaked.
WaitEnds ==
  <>(Detached \/ main = "returned" \/ at = "leaked" \/ (at = "queued" /\ signal.on = {Main}))
=============================================================================
