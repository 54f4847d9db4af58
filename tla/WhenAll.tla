------------------------------ MODULE WhenAll ------------------------------
(***************************************************************************)
(* Joins of N senders: src/src/when_all.rs and transfer_when_all.rs.       *)
(*                                                                         *)
(* The macros nest pairs to the left, ((1, 2), 3) ..., and put a           *)
(* SplitReceiver in each pair.  So part 1 is the x side of split 1, part p *)
(* the y side of split p - 1, and split k the x side of split k + 1; the   *)
(* last split hands over to the SchedulerReceiver, which is level N here.  *)
(*                                                                         *)
(* The operation state starts the parts in their order.  A part either     *)
(* runs inside its start (inline), and the next one waits, or elsewhere.   *)
(* The part that comes last at a split carries the merged signal on, so    *)
(* that a part's step is one critical section of one split.  (It keeps the *)
(* mutexes below locked; AssertsHold says that nobody comes there again.)  *)
(*                                                                         *)
(* A part that fails requests a stop from the source that all parts share, *)
(* which runs their callbacks with its mutex locked.  A lazy part needs    *)
(* that to come to its end.  Its callback tells it to end, or sends its    *)
(* signal at once, inside the call of the part that failed; with an error  *)
(* or done it then needs the mutex that its own thread has locked.  The    *)
(* callbacks do not panic, and are detached as all of the crate are, so    *)
(* that a part does not come to its end by dropping its handle.            *)
(***************************************************************************)
EXTENDS Naturals, Sequences

CONSTANTS N,         \* the number of parts
          Lazy,      \* the parts that go on until they are stopped
          InCallback,  \* the signals they may send from their stop callbacks
          MayDie     \* may a part panic, or be dropped by its scheduler?

ASSUME WhenAllAssumption ==
  /\ N \in Nat /\ N >= 2
  /\ Lazy \subseteq 1..N
  /\ InCallback \subseteq {"value", "error", "done"}
  /\ MayDie \in BOOLEAN

VARIABLES transfer,   \* transfer_when_all, instead of when_all
          stopped,    \* the flag of the stop source that the parts share
          holder,     \* who has locked its callbacks
          callback,   \* the callback of each lazy part
          next,       \* the part that is started next
          inline,     \* the part before it runs on the starting thread
          at,         \* where each part is
          level,      \* the split to which each part carries ...
          carry,      \* ... this signal
          split,      \* the SplitReceivers
          posted,     \* the value that waits in transfer_when_all's scheduler
          result,     \* the signals that the receiver was given
          said        \* what each part has sent

vars == <<transfer, stopped, holder, callback, next, inline, at, level, carry, split,
          posted, result, said>>

Parts == 1..N
Splits == 1..N - 1

\* Of the callbacks' mutex, beside the parts: the receiver's own stop token.
Nobody == 0
Outer == N + 1

\* A signal, and the parts that it comes from.
Signal(kind, of) == [kind |-> kind, of |-> of]
Kinds == {"value", "error", "done"}

\* The split to which a part comes first.
Entry(p) == IF p = 1 THEN 1 ELSE p - 1

None == <<>>   \* of an Option: x, y, error, and a part without a signal yet

TypeOK ==
  /\ transfer \in BOOLEAN /\ stopped \in BOOLEAN /\ inline \in BOOLEAN
  /\ holder \in 0..N + 1
  /\ callback \in [Lazy -> {"none", "waiting", "told", "sending"}]
  /\ next \in 1..N + 1
  /\ at \in [Parts -> {"idle", "running", "stopping", "arriving", "over", "dead"}]
  /\ level \in [Parts -> Parts]
  /\ carry \in [Parts -> [kind : Kinds \cup {"none"}, of : Seq(Parts)]]
  /\ split \in [Splits -> [x : Seq(Parts), y : Seq(Parts), error : Seq(Parts),
                          done : BOOLEAN, pending : 0..2]]
  /\ \A queue \in {posted, result} :
       queue \in Seq([kind : Kinds, of : Seq(Parts)]) /\ Len(queue) <= 1
  /\ said \in [Parts -> Kinds \cup {"none"}]

\* connect: a receiver's token that was stopped before stops the source at once.
Init ==
  /\ transfer \in BOOLEAN /\ stopped \in BOOLEAN
  /\ holder = Nobody /\ callback = [q \in Lazy |-> "none"]
  /\ next = 1 /\ inline = FALSE
  /\ at = [p \in Parts |-> "idle"]
  /\ level = [p \in Parts |-> Entry(p)]
  /\ carry = [p \in Parts |-> Signal("none", None)]
  /\ split = [k \in Splits |->
       [x |-> None, y |-> None, error |-> None, done |-> FALSE, pending |-> 2]]
  /\ posted = <<>> /\ result = <<>>
  /\ said = [p \in Parts |-> "none"]

----------------------------------------------------------------------------
(* The parts. *)

\* WhenAllOperationState::start: x, then y, when the one before has returned.
Start(inl) ==
  /\ next \in Parts
  /\ inline => at[next - 1] = "over"
  /\ at' = [at EXCEPT ![next] = "running"]
  /\ next' = next + 1
  /\ inline' = inl
  /\ UNCHANGED <<transfer, stopped, holder, callback, level, carry, split, posted, result, said>>

\* A lazy part registers its callback, unless the stop was requested before.
Register(q) ==
  /\ at[q] = "running" /\ callback[q] = "none" /\ holder = Nobody
  /\ callback' = [callback EXCEPT ![q] = IF stopped THEN "told" ELSE "waiting"]
  /\ UNCHANGED <<transfer, stopped, holder, next, inline, at, level, carry, split,
                 posted, result, said>>

\* The sender of a part calls its Wrap, which passes a value on.
Signals(p, kind) ==
  /\ at[p] = "running"
  /\ at' = [at EXCEPT ![p] = IF kind = "value" THEN "arriving" ELSE "stopping"]
  /\ carry' = [carry EXCEPT ![p] = Signal(kind, IF kind = "done" THEN None ELSE <<p>>)]
  /\ said' = [said EXCEPT ![p] = kind]
  /\ UNCHANGED <<transfer, stopped, holder, next, inline, level, split, posted, result>>

Send(p, kind) == Signals(p, kind) /\ UNCHANGED callback

\* A part ends without a signal.  When its panic comes through start, the
\* parts behind it are dropped before they were started.
Die(p) ==
  /\ MayDie
  /\ at[p] = "running"
  /\ at' = [at EXCEPT ![p] = "dead"]
  /\ next' = IF inline /\ p = next - 1 THEN N + 1 ELSE next
  /\ UNCHANGED <<transfer, stopped, holder, callback, inline, level, carry, split,
                 posted, result, said>>

----------------------------------------------------------------------------
(* The stop source. *)

\* request_stop stores the flag, and locks the callbacks when nobody else has.
\* (Between the two only a register that is refused could tell them apart.)
Lock(who) ==
  /\ holder = Nobody
  /\ holder' = who
  /\ stopped' = TRUE
  /\ UNCHANGED <<transfer, callback, next, inline, at, level, carry, split,
                 posted, result, said>>

\* Wrong variant: only the first part has the right stop source.
RequestStopOfOne(p) ==
  /\ at[p] = "stopping"
  /\ IF p = 1 THEN Lock(p)
     ELSE /\ at' = [at EXCEPT ![p] = "arriving"]
          /\ UNCHANGED <<transfer, stopped, holder, callback, next, inline, level, carry,
                         split, posted, result, said>>

\* Wrap::set_error and set_done stop the others before they pass it on.
RequestStop(p) == at[p] = "stopping" /\ Lock(p)

\* The receiver's token, to which connect has linked the source.  (Once it is
\* stopped there are no callbacks left, and no others will be accepted.)
OuterStop == ~stopped /\ Lock(Outer)

Sending(q) == callback[q] = "sending" /\ at[q] # "over"

\* The sweep takes a callback, when the one before has returned, and calls it.
Invoke(q) ==
  /\ holder # Nobody /\ callback[q] = "waiting"
  /\ \A o \in Lazy : ~Sending(o)
  /\ \/ /\ callback' = [callback EXCEPT ![q] = "told"]
        /\ UNCHANGED <<transfer, stopped, holder, next, inline, at, level, carry, split,
                       posted, result, said>>
     \/ /\ callback' = [callback EXCEPT ![q] = "sending"]
        /\ \E kind \in InCallback : Signals(q, kind)

SweepDone == \A q \in Lazy : callback[q] # "waiting" /\ ~Sending(q)

\* request_stop unlocks the callbacks when all have returned, and the part goes on.
Return(p) ==
  /\ at[p] = "stopping" /\ holder = p
  /\ SweepDone
  /\ holder' = Nobody
  /\ at' = [at EXCEPT ![p] = "arriving"]
  /\ UNCHANGED <<transfer, stopped, callback, next, inline, level, carry, split,
                 posted, result, said>>

OuterReturn ==
  /\ holder = Outer
  /\ SweepDone
  /\ holder' = Nobody
  /\ UNCHANGED <<transfer, stopped, callback, next, inline, at, level, carry, split,
                 posted, result, said>>

----------------------------------------------------------------------------
(* The splits. *)

Side(p) == IF level[p] = p - 1 THEN "y" ELSE "x"

\* Wrong variant: the last error is kept (insert, not get_or_insert).
ReceivedLast(k, side, s) ==
  LET r == [split[k] EXCEPT !.pending = @ - 1] IN
  CASE s.kind = "value" -> [r EXCEPT ![side] = s.of]
    [] s.kind = "error" -> [r EXCEPT !.error = s.of]
    [] s.kind = "done" -> [r EXCEPT !.done = TRUE]

\* set_value, set_error and set_done of XSplitReceiver and YSplitReceiver.
Received(k, side, s) ==
  LET r == [split[k] EXCEPT !.pending = @ - 1] IN
  CASE s.kind = "value" -> [r EXCEPT ![side] = s.of]
    [] s.kind = "error" -> [r EXCEPT !.error = IF @ = None THEN s.of ELSE @]
    [] s.kind = "done" -> [r EXCEPT !.done = TRUE]

\* Wrong variant: the last error or done decides.
MergedDoneFirst(r) ==
  IF r.done THEN Signal("done", None)
  ELSE IF r.error # None THEN Signal("error", r.error)
  ELSE Signal("value", r.x \o r.y)

\* maybe_complete: what goes on when both sides have come.
Merged(r) ==
  IF r.error # None THEN Signal("error", r.error)
  ELSE IF r.done THEN Signal("done", None)
  ELSE Signal("value", r.x \o r.y)

\* Wrong variant: a failure does not wait for the other side.
ReadyEarly(r) == r.pending = 0 \/ r.error # None \/ r.done

Ready(r) == r.pending = 0

\* The part p brings a signal to a split, which keeps it, or sends p on.
Arrive(p) ==
  /\ at[p] = "arriving" /\ level[p] < N
  /\ LET k == level[p]
         r == Received(k, Side(p), carry[p]) IN
     /\ split' = [split EXCEPT ![k] = r]
     /\ IF Ready(r)
        THEN /\ level' = [level EXCEPT ![p] = k + 1]
             /\ carry' = [carry EXCEPT ![p] = Merged(r)]
             /\ UNCHANGED at
        ELSE /\ at' = [at EXCEPT ![p] = "over"]
             /\ UNCHANGED <<level, carry>>
  /\ UNCHANGED <<transfer, stopped, holder, callback, next, inline, posted, result, said>>

----------------------------------------------------------------------------
(* The receiver. *)

\* SchedulerReceiver of when_all, on the thread of the part that came last; in
\* transfer_when_all so for errors and done, or if its scheduler runs it at once.
Finish(p) ==
  /\ at[p] = "arriving" /\ level[p] = N
  /\ result' = Append(result, carry[p])
  /\ at' = [at EXCEPT ![p] = "over"]
  /\ UNCHANGED <<transfer, stopped, holder, callback, next, inline, level, carry, split,
                 posted, said>>

\* SchedulerReceiver::set_value of transfer_when_all starts a schedule() ...
Transfer(p) ==
  /\ transfer
  /\ at[p] = "arriving" /\ level[p] = N /\ carry[p].kind = "value"
  /\ posted' = Append(posted, carry[p])
  /\ at' = [at EXCEPT ![p] = "over"]
  /\ UNCHANGED <<transfer, stopped, holder, callback, next, inline, level, carry, split,
                 result, said>>

\* ... and its scheduler calls the WrapValue.
RunPosted ==
  /\ posted # <<>>
  /\ result' = Append(result, Head(posted))
  /\ posted' = <<>>
  /\ UNCHANGED <<transfer, stopped, holder, callback, next, inline, at, level, carry,
                 split, said>>

----------------------------------------------------------------------------

SendAny(p) == \E kind \in Kinds : Send(p, kind)

\* A part that has sent its signal, up to the return of that call.
Proceed(p) == RequestStop(p) \/ Return(p) \/ Arrive(p) \/ Finish(p) \/ Transfer(p)

Sweep == OuterReturn \/ \E q \in Lazy : Invoke(q)

Next ==
  \/ \E inl \in BOOLEAN : Start(inl)
  \/ \E p \in Parts : SendAny(p) \/ Die(p) \/ Proceed(p)
  \/ \E q \in Lazy : Register(q)
  \/ Sweep \/ RunPosted \/ OuterStop

\* Threads go on, and each takes the mutex once.  Parts send a signal, a lazy one
\* once it was told to, and the scheduler runs what was posted to it.
Fairness ==
  /\ WF_vars(\E inl \in BOOLEAN : Start(inl))
  /\ \A p \in Parts : /\ WF_vars(Proceed(p))
                      /\ WF_vars(SendAny(p) /\ (p \in Lazy => callback[p] = "told"))
  /\ \A q \in Lazy : WF_vars(Register(q))
  /\ WF_vars(Sweep)
  /\ WF_vars(RunPosted)

Spec == Init /\ [][Next]_vars /\ Fairness

----------------------------------------------------------------------------
(* Properties. *)

\* The panics of the splits and the expects of SchedulerReceiver are never
\* reached: no side comes twice, no signal comes after the merge, and the
\* receiver is there for the one signal.
AssertsHold ==
  \A p \in Parts : at[p] = "arriving" =>
    IF level[p] = N THEN result = <<>> /\ posted = <<>>
    ELSE LET r == split[level[p]] IN
         /\ r.pending > 0
         /\ IF Side(p) = "x" THEN r.x = None ELSE r.y = None

\* "Even if an error or done signal is received, the code will wait for all
\* senders": the join, with its precedence and the order of its values.  It comes
\* to its end if parts send only values from their stop callbacks (InCallback).
Abstract == INSTANCE Join WITH sent <- said

JoinsAll == Abstract!Spec

\* "... so that the other sender-chains can terminate early": when a part fails,
\* or the receiver is stopped, then the parts that wait for a stop get it, also
\* those that were not started yet, and the join comes to its end.  That is so
\* if a part that fails has left its stop callback: from inside, it waits for the
\* mutex that the sweep on its own thread holds.
FailureEndsAll ==
  (stopped \/ \E p \in Parts : said[p] \in {"error", "done"})
    ~> (result # <<>> \/ \E p \in Parts : at[p] = "dead")

Failed(p) == said[p] = "error"

\* The part that brings the join to its end does not put its error in the place
\* of one that came before: the splits get_or_insert.
LateErrorLoses ==
  \A p \in Parts :
    at[p] = "arriving" /\ level[p] = N /\ carry[p] = Signal("error", <<p>>)
      => \A q \in Parts \ {p} : ~Failed(q)
=============================================================================
