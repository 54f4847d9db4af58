------------------------------ MODULE TaskQueue ------------------------------
(***************************************************************************)
(* What a worker of the embarrasingly-parallel scheduler promises those    *)
(* who post tasks to it (src/src/embarrasingly_parallel/worker.rs:101-105  *)
(* and 129-132): while it is served, every task is run; it comes to its    *)
(* end once all tasks have been run and no more can be added, or when a    *)
(* task panics, or its owner drops it.                                     *)
(*                                                                         *)
(* A handle is a CrossThreadPool or a ThreadLocalPool.  Only who has one,  *)
(* or is a task that runs, can post.                                       *)
(***************************************************************************)
EXTENDS Naturals

CONSTANT Tasks

VARIABLES mode,      \* "idle" until the owner runs it for good, then "serving",
                     \* "failed" after a panic or a drop, at last "over"
          handles,   \* how many handles there are
          pending,   \* the tasks that were posted and not run
          running    \* the task that runs, if any: a set of at most one

vars == <<mode, handles, pending, running>>

TypeOK == /\ mode \in {"idle", "serving", "failed", "over"}
          /\ handles \in Nat
          /\ pending \subseteq Tasks /\ running \subseteq Tasks

Init == /\ mode \in {"idle", "serving"}
        /\ handles = 1
        /\ pending = {} /\ running = {}

\* Somebody may post, and make a new handle of the one they have.
Usable == handles > 0 \/ running # {}

Post(t) == /\ Usable /\ mode # "over"
           /\ t \notin pending \cup running
           /\ pending' = pending \cup {t}
           /\ UNCHANGED <<mode, handles, running>>

Share == /\ Usable
         /\ handles' = handles + 1
         /\ UNCHANGED <<mode, pending, running>>

Release == /\ handles > 0
           /\ handles' = handles - 1
           /\ UNCHANGED <<mode, pending, running>>

Serve == /\ mode = "idle"
         /\ mode' = "serving"
         /\ UNCHANGED <<handles, pending, running>>

Run == /\ mode \in {"idle", "serving"} /\ running = {}
       /\ \E t \in pending : running' = {t} /\ pending' = pending \ {t}
       /\ UNCHANGED <<mode, handles>>

Return == /\ running # {}
          /\ running' = {}
          /\ UNCHANGED <<mode, handles, pending>>

\* An idle worker fails when its owner drops it, a serving one when a task panics.
Fail == /\ mode = "idle" \/ (mode = "serving" /\ running # {})
        /\ mode' = "failed"
        /\ running' = {}
        /\ pending' \in SUBSET pending
        /\ UNCHANGED handles

End == /\ \/ mode = "serving" /\ handles = 0 /\ pending = {} /\ running = {}
          \/ mode = "failed"
       /\ mode' = "over"
       /\ UNCHANGED <<handles, pending, running>>

\* What a failed worker still has is dropped, with the handles of it that it
\* owns, or leaked.
Forget == /\ mode \in {"failed", "over"}
          /\ pending' \in SUBSET pending
          /\ handles' \in {handles, handles - 1} \cap Nat
          /\ UNCHANGED <<mode, running>>

Next == \/ \E t \in Tasks : Post(t)
        \/ Share \/ Release \/ Serve
        \/ Run \/ Return \/ Fail \/ End \/ Forget

Fairness == /\ WF_vars(mode = "serving" /\ (Run \/ Return))
            /\ WF_vars(End)

Spec == Init /\ [][Next]_vars /\ Fairness
=============================================================================
