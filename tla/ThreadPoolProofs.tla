-------------------------- MODULE ThreadPoolProofs --------------------------
(***************************************************************************)
(* Proofs about ThreadPool, for any number of workers, users and tasks.    *)
(* Who takes a worker out of the pool has its one handle, or lets go of    *)
(* it; so no worker ends while it is in the pool.                          *)
(***************************************************************************)
EXTENDS ThreadPool, SequenceTheorems, TLAPS

----------------------------------------------------------------------------
(* The inductive invariant. *)

\* The workers of which the pool, or a join, has a handle.
Using == Members \cup job.kept

\* There is one handle at most: a worker is once in the vector, or with the join.
OneHandle ==
  /\ \A i, j \in 1..Len(threads) : threads[i] = threads[j] => i = j
  /\ job.kept \cap Members = {}

\* Of a worker that was not started, or has ended, nobody has a handle.
NoUseIsLate ==
  \A w \in Workers : mode[w] \in {"unborn", "over"} => cross[w] = 0 /\ w \notin Using

\* Workers run tasks while they are served, and only tasks that were posted.
TasksInv ==
  \A w \in Workers : /\ running[w] # {} => mode[w] = "serving"
                     /\ fresh \cap (pending[w] \cup running[w]) = {}

\* Nobody works on the pool after the mutex is poisoned.
PoisonInv == poisoned => job.by = NoOne /\ (threads = <<>> \/ \E w \in Workers : mode[w] = "dead")

PoolInv == TypeOK /\ OneHandle /\ NoUseIsLate /\ TasksInv /\ PoisonInv

----------------------------------------------------------------------------
(* Vectors. *)

\* A vector has nothing twice.
NoTwice(s) == \A i, j \in 1..Len(s) : s[i] = s[j] => i = j

LEMMA ToSetIs ==
  ASSUME NEW S, NEW s \in Seq(S)
  PROVE  /\ ToSet(s) \subseteq S
         /\ \A x : x \in ToSet(s) <=> \E i \in 1..Len(s) : s[i] = x
         /\ s = <<>> <=> ToSet(s) = {}
BY DEF ToSet

LEMMA EmptyVector ==
  ASSUME NEW S
  PROVE  <<>> \in Seq(S) /\ NoTwice(<<>>) /\ ToSet(<<>>) = {}
<1>1. <<>> \in Seq(S) /\ Len(<<>>) = 0
  OBVIOUS
<1> QED
  BY <1>1, ToSetIs DEF NoTwice

\* pop takes the last one out.
LEMMA Popped ==
  ASSUME NEW S, NEW s \in Seq(S), s # <<>>, NoTwice(s)
  PROVE  /\ Front(s) \in Seq(S) /\ Last(s) \in S
         /\ ToSet(Front(s)) = ToSet(s) \ {Last(s)} /\ Last(s) \in ToSet(s)
         /\ NoTwice(Front(s))
<1>1. Len(s) \in Nat /\ Len(s) > 0
  OBVIOUS
<1>2. Front(s) \in Seq(S) /\ Len(Front(s)) = Len(s) - 1 /\ \A i \in 1..Len(s) - 1 : Front(s)[i] = s[i]
  <2>1. \A i \in 1..Len(s) - 1 : s[i] \in S
    BY <1>1
  <2>2. /\ Front(s) \in Seq(S)
        /\ Len(Front(s)) = IF 1 <= Len(s) - 1 THEN Len(s) - 1 - 1 + 1 ELSE 0
        /\ \A i \in 1..(Len(s) - 1) - 1 + 1 : Front(s)[i] = s[1 + i - 1]
    BY <1>1, <2>1, SubSeqProperties DEF Front
  <2>3. ASSUME NEW n \in Nat, n > 0
        PROVE  /\ (IF 1 <= n - 1 THEN n - 1 - 1 + 1 ELSE 0) = n - 1 /\ (n - 1) - 1 + 1 = n - 1
               /\ \A i \in 1..n - 1 : 1 + i - 1 = i
    BY <2>3
  <2>4. Len(Front(s)) = Len(s) - 1
    BY <1>1, <2>2, <2>3
  <2>5. \A i \in 1..Len(s) - 1 : Front(s)[i] = s[i]
    BY <1>1, <2>2, <2>3
  <2> QED
    BY <2>2, <2>4, <2>5
<1>3. Last(s) = s[Len(s)] /\ Last(s) \in S
  BY <1>1 DEF Last
<1>4. NoTwice(Front(s))
  BY <1>1, <1>2 DEF NoTwice
<1>5. Last(s) \in ToSet(s)
  BY <1>1, <1>3, ToSetIs
<1>6. ASSUME NEW x PROVE x \in ToSet(Front(s)) <=> x \in ToSet(s) /\ x # Last(s)
  <2>1. x \in ToSet(Front(s)) <=> \E i \in 1..Len(s) - 1 : s[i] = x
    <3>1. x \in ToSet(Front(s)) <=> \E i \in 1..Len(Front(s)) : Front(s)[i] = x
      BY <1>2, ToSetIs
    <3> QED
      BY <1>2, <3>1
  <2>2. x \in ToSet(s) <=> \E i \in 1..Len(s) : s[i] = x
    BY ToSetIs
  <2>3. ASSUME NEW i \in 1..Len(s) - 1 PROVE s[i] # Last(s)
    BY <1>1, <1>3 DEF NoTwice
  <2>4. \A i \in 1..Len(s) : i \in 1..Len(s) - 1 \/ i = Len(s)
    BY <1>1
  <2>5. \A i \in 1..Len(s) - 1 : i \in 1..Len(s)
    BY <1>1
  <2> QED
    BY <1>3, <2>1, <2>2, <2>3, <2>4, <2>5
<1> QED
  BY <1>2, <1>3, <1>4, <1>5, <1>6

LEMMA PoppedIn ==
  ASSUME NEW S, NEW s \in Seq(S), s # <<>>
  PROVE  Front(s) \in Seq(S) /\ Last(s) \in S
<1>1. Len(s) \in Nat /\ Len(s) > 0 /\ \A i \in 1..Len(s) - 1 : s[i] \in S
  OBVIOUS
<1>2. Front(s) \in Seq(S)
  BY <1>1, SubSeqProperties DEF Front
<1>3. Last(s) \in S
  BY <1>1 DEF Last
<1> QED
  BY <1>2, <1>3

\* push puts one behind the others.
LEMMA Pushed ==
  ASSUME NEW S, NEW s \in Seq(S), NEW x \in S
  PROVE  /\ Append(s, x) \in Seq(S) /\ ToSet(Append(s, x)) = ToSet(s) \cup {x}
         /\ NoTwice(s) /\ x \notin ToSet(s) => NoTwice(Append(s, x))
<1>1. /\ Append(s, x) \in Seq(S) /\ Len(Append(s, x)) = Len(s) + 1
      /\ Append(s, x)[Len(s) + 1] = x /\ \A i \in 1..Len(s) : Append(s, x)[i] = s[i]
      /\ Len(s) \in Nat
  OBVIOUS
<1>2. \A y : y \in ToSet(Append(s, x)) <=> \E i \in 1..Len(s) + 1 : Append(s, x)[i] = y
  BY <1>1, ToSetIs
<1>3. \A y : y \in ToSet(s) <=> \E i \in 1..Len(s) : s[i] = y
  BY ToSetIs
<1>4. \A i \in 1..Len(s) + 1 : i \in 1..Len(s) \/ i = Len(s) + 1
  BY <1>1
<1>5. (\A i \in 1..Len(s) : i \in 1..Len(s) + 1) /\ Len(s) + 1 \in 1..Len(s) + 1
  BY <1>1
<1>6. ToSet(Append(s, x)) = ToSet(s) \cup {x}
  BY <1>1, <1>2, <1>3, <1>4, <1>5
<1>7. NoTwice(s) /\ x \notin ToSet(s) => NoTwice(Append(s, x))
  BY <1>1, <1>3, <1>4 DEF NoTwice
<1> QED
  BY <1>1, <1>6, <1>7

----------------------------------------------------------------------------
(* The handles of a worker. *)

LEMMA HandlesAre ==
  ASSUME PoolInv, NEW w \in Workers
  PROVE  /\ Handles(w) = cross[w] + (IF w \in Using THEN 1 ELSE 0)
         /\ cross[w] \in Nat /\ Handles(w) \in Nat
         /\ mode[w] \in {"unborn", "serving", "failed", "dead", "over"}
         /\ mode[w] \in {"unborn", "over"} => Handles(w) = 0
         /\ cross[w] > 0 \/ w \in Using \/ running[w] # {} => mode[w] \notin {"unborn", "over"}
<1>1. cross[w] \in Nat /\ mode[w] \in {"unborn", "serving", "failed", "dead", "over"}
  <2>1. /\ cross \in [Workers -> 0 .. MaxHandles]
        /\ mode \in [Workers -> {"unborn", "serving", "failed", "dead", "over"}]
    BY DEF PoolInv, TypeOK
  <2>2. MaxHandles \in Nat
    BY ThreadPoolAssumption
  <2> QED
    BY <2>1, <2>2
<1>2. Handles(w) = cross[w] + (IF w \in Using THEN 1 ELSE 0)
  BY <1>1 DEF Handles, Using, PoolInv, OneHandle
<1>3. mode[w] \in {"unborn", "over"} => cross[w] = 0 /\ w \notin Using
  BY DEF PoolInv, NoUseIsLate
<1>4. running[w] # {} => mode[w] = "serving"
  BY DEF PoolInv, TasksInv
<1> QED
  BY <1>1, <1>2, <1>3, <1>4

LEMMA Modes ==
  ASSUME NEW w \in Workers
  PROVE  /\ mode[w] = "unborn" => Mode(w) = "serving"
         /\ mode[w] = "dead" => Mode(w) = "over"
         /\ mode[w] \notin {"unborn", "dead"} => Mode(w) = mode[w]
         /\ mode[w] = "unborn" => Uses(w) = 1
         /\ mode[w] # "unborn" => Uses(w) = Handles(w)
BY DEF Mode, Uses

----------------------------------------------------------------------------
(* The steps of a TaskQueue, in terms of its worker. *)

AbstractStep(w) == Queue(w)!Next \/ UNCHANGED Queue(w)!vars

\* Nothing happens to the worker, or one lets go of a handle of it.
LEMMA LetGo ==
  ASSUME PoolInv, NEW w \in Workers, mode'[w] = mode[w],
         pending'[w] = pending[w], running'[w] = running[w],
         \/ Handles(w)' = Handles(w)
         \/ mode[w] # "unborn" /\ Handles(w) > 0 /\ Handles(w)' = Handles(w) - 1
  PROVE  AbstractStep(w)
<1>1. Mode(w)' = Mode(w)
  BY DEF Mode
<1>2. CASE Handles(w)' = Handles(w)
  <2>1. Uses(w)' = Uses(w)
    BY <1>2 DEF Uses
  <2> QED
    BY <1>1, <2>1 DEF AbstractStep, Queue!vars
<1>3. CASE mode[w] # "unborn" /\ Handles(w) > 0 /\ Handles(w)' = Handles(w) - 1
  <2>1. Uses(w) = Handles(w) /\ Uses(w)' = Handles(w)'
    BY <1>3 DEF Uses
  <2>2. Queue(w)!Release
    BY <1>1, <1>3, <2>1 DEF Queue!Release
  <2> QED
    BY <2>2 DEF AbstractStep, Queue!Next
<1> QED
  BY <1>2, <1>3

\* One who has a handle, or a task that runs, makes a handle.
LEMMA Shared ==
  ASSUME PoolInv, NEW w \in Workers, mode'[w] = mode[w],
         pending'[w] = pending[w], running'[w] = running[w],
         cross[w] > 0 \/ running[w] # {}, Handles(w)' = Handles(w) + 1
  PROVE  AbstractStep(w)
<1>1. Mode(w)' = Mode(w)
  BY DEF Mode
<1>2. mode[w] # "unborn" /\ (Handles(w) > 0 \/ running[w] # {})
  BY HandlesAre
<1>3. Uses(w) = Handles(w) /\ Uses(w)' = Handles(w)'
  BY <1>2 DEF Uses
<1>4. Queue(w)!Share
  BY <1>1, <1>2, <1>3 DEF Queue!Share, Queue!Usable
<1> QED
  BY <1>4 DEF AbstractStep, Queue!Next

\* One who has a handle, or a task that runs, posts a task.
LEMMA Posted ==
  ASSUME PoolInv, NEW w \in Workers, mode'[w] = mode[w], running'[w] = running[w],
         NEW t \in fresh, pending'[w] = pending[w] \cup {t}, Handles(w)' = Handles(w),
         ~Deaf(w), cross[w] > 0 \/ w \in Using \/ running[w] # {}
  PROVE  AbstractStep(w)
<1>1. Mode(w)' = Mode(w) /\ Uses(w)' = Uses(w)
  BY DEF Mode, Uses
<1>2. Handles(w) > 0 \/ running[w] # {}
  BY HandlesAre
<1>3. mode[w] \notin {"unborn", "dead", "over"}
  BY HandlesAre DEF Deaf
<1>4. Mode(w) # "over" /\ Uses(w) = Handles(w)
  BY <1>3, Modes
<1>5. t \in Tasks /\ t \notin pending[w] \cup running[w]
  BY DEF PoolInv, TasksInv, TypeOK
<1>6. Queue(w)!Post(t)
  BY <1>1, <1>2, <1>4, <1>5 DEF Queue!Post, Queue!Usable
<1> QED
  BY <1>5, <1>6 DEF AbstractStep, Queue!Next

----------------------------------------------------------------------------
(* Steps that do nothing to the workers but to let go of them. *)

LEMMA PoolStep ==
  ASSUME PoolInv, TypeOK', UNCHANGED <<cross, mode, pending, running>>,
         fresh' \subseteq fresh,
         NoTwice(threads'), job'.kept \cap Members' = {},
         Members' \cup job'.kept \subseteq Using,
         poisoned' =>
           job'.by = NoOne /\ (threads' = <<>> \/ \E w \in Workers : mode[w] = "dead")
  PROVE  PoolInv' /\ \A w \in Workers : AbstractStep(w)
<1>1. OneHandle'
  BY DEF OneHandle, NoTwice
<1>2. NoUseIsLate'
  BY DEF PoolInv, NoUseIsLate, Using
<1>3. TasksInv'
  BY DEF PoolInv, TasksInv
<1>4. PoisonInv'
  BY DEF PoisonInv
<1>5. PoolInv'
  BY <1>1, <1>2, <1>3, <1>4 DEF PoolInv
<1>6. ASSUME NEW w \in Workers
      PROVE  AbstractStep(w)
  <2>1. /\ Handles(w) = cross[w] + (IF w \in Using THEN 1 ELSE 0)
        /\ cross[w] \in Nat
        /\ w \in Using => mode[w] # "unborn"
    BY HandlesAre
  <2>2. Handles(w)' = cross[w] + (IF w \in Using' THEN 1 ELSE 0)
    BY <1>1, <2>1 DEF Handles, Using, OneHandle
  <2>3. w \in Using' => w \in Using
    BY DEF Using
  <2>4. \/ Handles(w)' = Handles(w)
        \/ mode[w] # "unborn" /\ Handles(w) > 0 /\ Handles(w)' = Handles(w) - 1
    BY <2>1, <2>2, <2>3
  <2> QED
    BY <2>4, LetGo
<1> QED
  BY <1>5, <1>6

\* A step of the pool that is fine for the invariant and for all the workers.
Fine == PoolInv' /\ \A w \in Workers : AbstractStep(w)

LEMMA Vector ==
  ASSUME PoolInv
  PROVE  /\ threads \in Seq(Workers) /\ NoTwice(threads)
         /\ Members \cup job.kept = Using /\ job.kept \cap Members = {}
         /\ job.by \in Actors \cup {NoOne} /\ job.kept \subseteq Workers
BY DEF PoolInv, TypeOK, OneHandle, NoTwice, Using

\* Steps in which no thread comes or goes.
LEMMA QuietStep ==
  ASSUME PoolInv, TypeOK', UNCHANGED <<cross, mode, pending, running, threads>>,
         fresh' \subseteq fresh, job'.kept \subseteq job.kept,
         poisoned' = poisoned, job.by # NoOne \/ job'.by = NoOne \/ ~poisoned
  PROVE  Fine
<1>1. Members' = Members
  BY DEF Members
<1>2. NoTwice(threads') /\ job'.kept \cap Members' = {} /\ Members' \cup job'.kept \subseteq Using
  BY <1>1, Vector DEF NoTwice
<1>3. poisoned' => job'.by = NoOne /\ (threads' = <<>> \/ \E w \in Workers : mode[w] = "dead")
  BY DEF PoolInv, PoisonInv
<1> QED
  BY <1>2, <1>3, PoolStep DEF Fine

\* What the record of a job may be.
Jobs == [by : Actors \cup {NoOne}, goal : 0 .. MaxWorkers,
         joined : SUBSET Workers, kept : SUBSET Workers]

LEMMA JobTypes ==
  /\ NoJob \in Jobs /\ NoJob.kept = {} /\ NoJob.by = NoOne
  /\ NoOne \notin Actors
  /\ TypeOK => job \in Jobs
<1>1. 0 \in 0 .. MaxWorkers
  BY ThreadPoolAssumption
<1>2. NoJob \in Jobs /\ NoJob.kept = {} /\ NoJob.by = NoOne
  BY <1>1 DEF NoJob, Jobs
<1>3. NoOne \notin Actors
  BY ThreadPoolAssumption DEF Actors
<1>4. TypeOK => job \in Jobs
  BY DEF TypeOK, Jobs
<1> QED
  BY <1>2, <1>3, <1>4

\* The actors who leave take the vector with them, if they are the last ones.
LEMMA LeaveStep ==
  ASSUME PoolInv, NEW S, Leave(S), job' = job \/ job' = NoJob,
         UNCHANGED <<cross, mode, pending, running, fresh, calls, aborted>>,
         call' \in [Actors -> {"none", "post", "post all", "resize", "join"}],
         \/ poisoned' = poisoned
         \/ poisoned' = TRUE /\ job' = NoJob /\ \E w \in Workers : mode[w] = "dead"
  PROVE  Fine
<1>1. /\ threads' = threads \/ threads' = <<>>
      /\ pending_joins' = pending_joins \/ pending_joins' = <<>>
      /\ owners' = owners \ S
  BY DEF Leave, state
<1>2. /\ threads \in Seq(Workers) /\ NoTwice(threads)
      /\ Members \cup job.kept = Using /\ job.kept \cap Members = {}
  BY Vector
<1>3. <<>> \in Seq(Workers) /\ NoTwice(<<>>) /\ ToSet(<<>>) = {}
  BY EmptyVector
<1>4. threads' \in Seq(Workers) /\ NoTwice(threads') /\ Members' \subseteq Members
  <2>1. CASE threads' = threads
    BY <1>2, <2>1 DEF Members, NoTwice
  <2>2. CASE threads' = <<>>
    BY <1>3, <2>2 DEF Members, NoTwice
  <2> QED
    BY <1>1, <2>1, <2>2
<1>5. NoJob.kept = {} /\ NoJob.by = NoOne
  BY DEF NoJob
<1>6. job'.kept \subseteq job.kept
  BY <1>5
<1>7. TypeOK'
  <2>1. TypeOK
    BY DEF PoolInv
  <2>2. NoJob \in [by : Actors \cup {NoOne}, goal : 0 .. MaxWorkers,
                   joined : SUBSET Workers, kept : SUBSET Workers]
    BY JobTypes DEF Jobs
  <2>3. job' \in [by : Actors \cup {NoOne}, goal : 0 .. MaxWorkers,
                  joined : SUBSET Workers, kept : SUBSET Workers]
    BY <2>1, <2>2 DEF TypeOK
  <2>4. pending_joins' \in Seq(Workers)
    BY <1>1, <1>3, <2>1 DEF TypeOK
  <2>5. owners' \subseteq Actors
    BY <1>1, <2>1 DEF TypeOK
  <2>6. poisoned' \in BOOLEAN
    BY <2>1 DEF TypeOK
  <2> QED
    BY <1>4, <2>1, <2>3, <2>4, <2>5, <2>6 DEF TypeOK
<1>8. poisoned' => job'.by = NoOne /\ (threads' = <<>> \/ \E w \in Workers : mode[w] = "dead")
  <2>1. CASE poisoned' = poisoned
    BY <1>1, <1>5, <2>1 DEF PoolInv, PoisonInv
  <2>2. CASE poisoned' = TRUE /\ job' = NoJob /\ \E w \in Workers : mode[w] = "dead"
    BY <1>5, <2>2
  <2> QED
    BY <2>1, <2>2
<1>9. job'.kept \cap Members' = {} /\ Members' \cup job'.kept \subseteq Using
  BY <1>2, <1>4, <1>6
<1> QED
  BY <1>4, <1>7, <1>8, <1>9, PoolStep DEF Fine

----------------------------------------------------------------------------
(* The calls of the pool. *)

LEMMA ReturnsTo ==
  ASSUME PoolInv, NEW a \in Actors, Returns(a)
  PROVE  call' \in [Actors -> {"none", "post", "post all", "resize", "join"}]
BY DEF Returns, PoolInv, TypeOK

LEMMA OneLess ==
  ASSUME NEW n \in Nat, n > 0
  PROVE  n - 1 \in Nat
OBVIOUS

LEMMA CallStep ==
  ASSUME PoolInv, NEW a \in Actors, NEW what \in {"post", "post all", "resize", "join"},
         Call(a, what)
  PROVE  Fine
<1>1. /\ call' = [call EXCEPT ![a] = what]
      /\ UNCHANGED <<state, mutex, owners, cross, worker, fresh, aborted>>
  BY DEF Call
<1>2. TypeOK
  BY DEF PoolInv
<1>3. calls' \in Nat
  <2>1. calls \in Nat
    BY <1>2 DEF TypeOK
  <2>2. CASE what = "post"
    BY <2>1, <2>2 DEF Call
  <2>3. CASE what # "post"
    <3>1. calls > 0 /\ calls' = calls - 1
      BY <2>3 DEF Call
    <3> QED
      BY <2>1, <3>1, OneLess
  <2> QED
    BY <2>2, <2>3
<1>4. call' \in [Actors -> {"none", "post", "post all", "resize", "join"}]
  BY <1>1, <1>2 DEF TypeOK
<1>5. TypeOK'
  BY <1>1, <1>2, <1>3, <1>4 DEF TypeOK, state, mutex, worker
<1> QED
  BY <1>1, <1>5, QuietStep DEF state, mutex, worker

LEMMA AbortStep ==
  ASSUME PoolInv, Abort
  PROVE  Fine
<1>1. aborted' = TRUE /\ UNCHANGED <<state, mutex, owners, call, calls, cross, worker, fresh>>
  BY DEF Abort, pool
<1>2. TypeOK'
  BY <1>1 DEF PoolInv, TypeOK, state, mutex, worker
<1> QED
  BY <1>1, <1>2, QuietStep DEF state, mutex, worker

LEMMA RefusedStep ==
  ASSUME PoolInv, NEW a \in Actors, Refused(a)
  PROVE  Fine
<1>1. CASE Abort
  BY <1>1, AbortStep
<1>2. CASE /\ Returns(a)
           /\ IF call[a] = "join" THEN Leave({a}) ELSE UNCHANGED <<owners, state>>
           /\ UNCHANGED <<mutex, outside>>
  <2>1. CASE call[a] = "join"
    BY <1>2, <2>1, LeaveStep, ReturnsTo DEF mutex, outside, worker
  <2>2. CASE call[a] # "join"
    <3>1. UNCHANGED <<owners, state, mutex, outside>>
      BY <1>2, <2>2
    <3>2. TypeOK'
      BY <1>2, <3>1, ReturnsTo DEF PoolInv, TypeOK, state, mutex, outside, worker
    <3> QED
      BY <3>1, <3>2, QuietStep DEF state, mutex, outside, worker
  <2> QED
    BY <2>1, <2>2
<1> QED
  BY <1>1, <1>2 DEF Refused

LEMMA PostFailsStep ==
  ASSUME PoolInv, NEW a \in Actors, PostFails(a)
  PROVE  Fine
<1>1. CASE Abort
  BY <1>1, AbortStep
<1>2. CASE /\ poisoned' = TRUE
           /\ Returns(a)
           /\ \E t \in fresh : fresh' = fresh \ {t}
           /\ UNCHANGED <<state, job, owners, cross, worker, calls, aborted>>
  <2>1. TypeOK'
    <3>1. fresh' \subseteq Tasks /\ poisoned' \in BOOLEAN
      BY <1>2 DEF PoolInv, TypeOK
    <3> QED
      BY <1>2, <3>1, ReturnsTo DEF PoolInv, TypeOK, state, worker
  <2>2. threads = <<>> \/ \E w \in Workers : mode[w] = "dead"
    <3>1. CASE threads = <<>>
      BY <3>1
    <3>2. ASSUME NEW w \in Members, Deaf(w)
          PROVE  w \in Workers /\ mode[w] = "dead"
      <4>1. w \in Workers /\ w \in Using
        BY Vector, ToSetIs DEF Members
      <4> QED
        BY <3>2, <4>1, HandlesAre DEF Deaf
    <3> QED
      BY <3>1, <3>2 DEF PostFails
  <2>3. job.by = NoOne /\ job' = job /\ threads' = threads
    BY <1>2 DEF PostFails, Enters, state
  <2>4. NoTwice(threads') /\ job'.kept \cap Members' = {} /\ Members' \cup job'.kept \subseteq Using
    BY <2>3, Vector DEF NoTwice, Members
  <2>5. fresh' \subseteq fresh
    BY <1>2
  <2> QED
    BY <1>2, <2>1, <2>2, <2>3, <2>4, <2>5, PoolStep DEF Fine, worker
<1> QED
  BY <1>1, <1>2 DEF PostFails

\* Tasks are posted to workers that are there for them.
LEMMA DeliverStep ==
  ASSUME PoolInv, NEW a, NEW D \in SUBSET Workers, NEW f \in [D -> fresh], Deliver(a, f),
         call' \in [Actors -> {"none", "post", "post all", "resize", "join"}],
         \A w \in D : ~Deaf(w) /\ (cross[w] > 0 \/ w \in Using \/ running[w] # {})
  PROVE  Fine
<1>1. TypeOK /\ fresh \subseteq Tasks
  BY DEF PoolInv, TypeOK
<1>2. DOMAIN f = D /\ \A w \in D : f[w] \in fresh
  OBVIOUS
<1>3. /\ pending' = [w \in Workers |-> IF w \in D THEN pending[w] \cup {f[w]} ELSE pending[w]]
      /\ fresh' = fresh \ Range(f)
      /\ owners' = owners \/ owners' = owners \cup Range(f)
      /\ UNCHANGED <<state, mutex, cross, mode, running, calls, aborted>>
  BY <1>2 DEF Deliver
<1>4. Range(f) \subseteq fresh /\ \A w \in D : f[w] \in Range(f)
  BY <1>2 DEF Range
<1>5. \A w \in Workers : pending'[w] = IF w \in D THEN pending[w] \cup {f[w]} ELSE pending[w]
  BY <1>3
<1>6. TypeOK'
  <2>1. pending' \in [Workers -> SUBSET Tasks]
    <3>1. pending \in [Workers -> SUBSET Tasks]
      BY <1>1 DEF TypeOK
    <3>2. ASSUME NEW w \in Workers
          PROVE  (IF w \in D THEN pending[w] \cup {f[w]} ELSE pending[w]) \in SUBSET Tasks
      BY <1>1, <1>2, <3>1
    <3> QED
      BY <1>3, <3>2
  <2>2. owners' \subseteq Actors
    BY <1>1, <1>3, <1>4 DEF TypeOK, Actors
  <2>3. fresh' \subseteq Tasks
    BY <1>1, <1>3
  <2> QED
    BY <1>1, <1>3, <2>1, <2>2, <2>3 DEF TypeOK, state, mutex
<1>7. OneHandle' /\ NoUseIsLate' /\ PoisonInv'
  BY <1>3 DEF PoolInv, OneHandle, NoUseIsLate, PoisonInv, Members, Using, state, mutex
<1>8. TasksInv'
  <2> SUFFICES ASSUME NEW w \in Workers
               PROVE  /\ running'[w] # {} => mode'[w] = "serving"
                      /\ fresh' \cap (pending'[w] \cup running'[w]) = {}
    BY DEF TasksInv
  <2>1. /\ running[w] # {} => mode[w] = "serving"
        /\ fresh \cap (pending[w] \cup running[w]) = {}
    BY DEF PoolInv, TasksInv
  <2> QED
    BY <1>3, <1>4, <1>5, <2>1
<1>9. ASSUME NEW w \in Workers
      PROVE  AbstractStep(w)
  <2>1. Handles(w)' = Handles(w) /\ mode'[w] = mode[w] /\ running'[w] = running[w]
    BY <1>3 DEF Handles, Members, state, mutex
  <2>2. CASE w \in D
    <3>1. PICK t \in fresh : t = f[w]
      BY <1>2, <2>2
    <3>2. pending'[w] = pending[w] \cup {t}
      BY <1>5, <2>2, <3>1
    <3>3. ~Deaf(w) /\ (cross[w] > 0 \/ w \in Using \/ running[w] # {})
      BY <2>2
    <3> QED
      BY <2>1, <3>2, <3>3, Posted
  <2>3. CASE w \notin D
    BY <1>5, <2>1, <2>3, LetGo
  <2> QED
    BY <2>2, <2>3
<1> QED
  BY <1>6, <1>7, <1>8, <1>9 DEF PoolInv, Fine

LEMMA MembersAreUsed ==
  ASSUME PoolInv, NEW w \in Members
  PROVE  w \in Workers /\ w \in Using
BY Vector, ToSetIs DEF Members

LEMMA PostStep ==
  ASSUME PoolInv, NEW a \in Actors, Post(a)
  PROVE  Fine
<1>1. PICK w \in Members, t \in fresh : ~Deaf(w) /\ Deliver(a, [v \in {w} |-> t])
  BY DEF Post
<1>2. w \in Workers /\ w \in Using
  BY MembersAreUsed
<1>3. PICK f : f = [v \in {w} |-> t]
  OBVIOUS
<1>7. PICK D : D = {w}
  OBVIOUS
<1>4. f \in [D -> fresh] /\ Deliver(a, f)
  BY <1>1, <1>3, <1>7
<1>5. call' \in [Actors -> {"none", "post", "post all", "resize", "join"}]
  BY ReturnsTo DEF Post
<1>6. D \in SUBSET Workers /\ \A v \in D : ~Deaf(v) /\ v \in Using
  BY <1>1, <1>2, <1>7
<1> QED
  BY <1>4, <1>5, <1>6, DeliverStep

LEMMA PostAllStep ==
  ASSUME PoolInv, NEW a \in Actors, PostAll(a)
  PROVE  Fine
<1>1. PICK D \in {Members, {}} : \E f \in [D -> fresh] : Deliver(a, f)
  BY DEF PostAll
<1>2. PICK f \in [D -> fresh] : Deliver(a, f)
  BY <1>1
<1>3. \A w \in Members : w \in Workers /\ w \in Using /\ ~Deaf(w)
  BY MembersAreUsed DEF PostAll
<1>4. call' \in [Actors -> {"none", "post", "post all", "resize", "join"}]
  BY ReturnsTo DEF PostAll
<1>5. D \in SUBSET Workers /\ \A w \in D : ~Deaf(w) /\ w \in Using
  BY <1>1, <1>3
<1> QED
  BY <1>2, <1>4, <1>5, DeliverStep

LEMMA SendStep ==
  ASSUME PoolInv, NEW w \in Workers, Send(w)
  PROVE  Fine
<1>1. PICK t \in fresh, a \in running[w] \cup {NoOne} :
        /\ IF a = NoOne THEN cross[w] > 0 ELSE Acting(a)
        /\ Deliver(a, [v \in {w} |-> t])
  BY DEF Send
<1>2. PICK f : f = [v \in {w} |-> t]
  OBVIOUS
<1>6. PICK D : D = {w}
  OBVIOUS
<1>3. f \in [D -> fresh] /\ Deliver(a, f)
  BY <1>1, <1>2, <1>6
<1>4. call' \in [Actors -> {"none", "post", "post all", "resize", "join"}]
  BY DEF Send, PoolInv, TypeOK
<1>5. D \in SUBSET Workers /\ \A v \in D : ~Deaf(v) /\ (cross[v] > 0 \/ running[v] # {})
  BY <1>1, <1>6 DEF Send
<1> QED
  BY <1>3, <1>4, <1>5, DeliverStep

LEMMA SendFailsStep ==
  ASSUME PoolInv, NEW w \in Workers, SendFails(w)
  PROVE  Fine
<1>1. CASE Abort
  BY <1>1, AbortStep
<1>2. CASE /\ \E t \in fresh : fresh' = fresh \ {t}
           /\ UNCHANGED <<pool, cross, worker, aborted>>
  <2>1. fresh' \subseteq fresh
    BY <1>2
  <2>2. UNCHANGED <<state, mutex, owners, call, calls, cross, worker, aborted>>
    BY <1>2 DEF pool
  <2>3. TypeOK'
    BY <2>1, <2>2 DEF PoolInv, TypeOK, state, mutex, worker
  <2> QED
    BY <2>1, <2>2, <2>3, QuietStep DEF state, mutex, worker
<1> QED
  BY <1>1, <1>2 DEF SendFails

----------------------------------------------------------------------------
(* The steps of the one who has the mutex. *)

\* A new job, begun with the mutex or gone on with, and nothing of it kept.
LEMMA NewJob ==
  ASSUME NEW a \in Actors, NEW n \in 0 .. MaxWorkers, NEW S \in SUBSET Workers
  PROVE  /\ [NoJob EXCEPT !.by = a, !.goal = n] \in Jobs
         /\ [NoJob EXCEPT !.by = a, !.goal = n].kept = {}
         /\ [NoJob EXCEPT !.by = a] \in Jobs
         /\ [NoJob EXCEPT !.by = a].kept = {}
         /\ TypeOK => [job EXCEPT !.joined = S, !.kept = S] \in Jobs
         /\ TypeOK => [job EXCEPT !.joined = S, !.kept = S].kept = S
         /\ TypeOK => [job EXCEPT !.joined = S] \in Jobs
         /\ TypeOK => [job EXCEPT !.joined = S].kept = job.kept
<1>1. NoJob \in Jobs /\ NoJob.kept = {} /\ (TypeOK => job \in Jobs)
  BY JobTypes
<1> QED
  BY <1>1 DEF Jobs

LEMMA ResizeStep ==
  ASSUME PoolInv, NEW a \in Actors, NEW n \in 0 .. MaxWorkers, Resize(a, n)
  PROVE  Fine
<1>1. /\ job' = [NoJob EXCEPT !.by = a, !.goal = n] /\ ~poisoned
      /\ UNCHANGED <<state, poisoned, owners, call, outside>>
  BY DEF Resize, Enters
<1>2. job' \in Jobs /\ job'.kept = {}
  BY <1>1, NewJob
<1>3. TypeOK'
  BY <1>1, <1>2 DEF PoolInv, TypeOK, Jobs, state, outside, worker
<1> QED
  BY <1>1, <1>2, <1>3, QuietStep DEF state, outside, worker

LEMMA ResizedStep ==
  ASSUME PoolInv, NEW a \in Actors, Resized(a)
  PROVE  Fine
<1>1. job' = NoJob /\ UNCHANGED <<state, poisoned, owners, outside>>
  BY DEF Resized
<1>2. call' \in [Actors -> {"none", "post", "post all", "resize", "join"}]
  BY ReturnsTo DEF Resized
<1>3. job' \in Jobs /\ job'.kept = {} /\ job'.by = NoOne
  BY <1>1, JobTypes
<1>4. TypeOK'
  BY <1>1, <1>2, <1>3 DEF PoolInv, TypeOK, Jobs, state, outside, worker
<1> QED
  BY <1>1, <1>3, <1>4, QuietStep DEF state, outside, worker

LEMMA JoinStep ==
  ASSUME PoolInv, NEW a \in Actors, Join(a)
  PROVE  Fine
<1>1. /\ job' = [NoJob EXCEPT !.by = a] /\ ~poisoned
      /\ UNCHANGED <<state, poisoned, owners, call, outside>>
  BY DEF Join, Enters
<1>2. job' \in Jobs /\ job'.kept = {}
  <2>1. 0 \in 0 .. MaxWorkers
    BY ThreadPoolAssumption
  <2> QED
    BY <1>1, <2>1, NewJob
<1>3. TypeOK'
  BY <1>1, <1>2 DEF PoolInv, TypeOK, Jobs, state, outside, worker
<1> QED
  BY <1>1, <1>2, <1>3, QuietStep DEF state, outside, worker

LEMMA HolderIsSomebody ==
  ASSUME PoolInv, NEW a \in Actors, NEW what, Holds(a, what)
  PROVE  job.by = a /\ job.by # NoOne /\ ~poisoned
BY JobTypes DEF Holds, PoolInv, PoisonInv

LEMMA ShrinkStep ==
  ASSUME PoolInv, NEW a \in Actors, Shrink(a)
  PROVE  Fine
<1>1. /\ threads' = Front(threads)
      /\ pending_joins' = Append(pending_joins, Last(threads))
      /\ UNCHANGED <<mutex, owners, call, outside>>
      /\ Len(threads) > job.goal
  BY DEF Shrink
<1>2. TypeOK /\ threads \in Seq(Workers) /\ NoTwice(threads)
  BY Vector DEF PoolInv
<1>3. threads # <<>>
  <2>1. job.goal \in Nat
    BY <1>2, JobTypes, ThreadPoolAssumption DEF Jobs
  <2>2. Len(threads) # 0
    BY <1>1, <2>1
  <2> QED
    BY <2>2
<1>4. /\ threads' \in Seq(Workers) /\ Last(threads) \in Workers
      /\ Members' \subseteq Members /\ NoTwice(threads')
  BY <1>1, <1>2, <1>3, Popped DEF Members
<1>5. pending_joins' \in Seq(Workers)
  <2>1. pending_joins \in Seq(Workers)
    BY <1>2 DEF TypeOK
  <2> QED
    BY <1>1, <1>4, <2>1, Pushed
<1>6. TypeOK'
  BY <1>1, <1>2, <1>4, <1>5 DEF TypeOK, mutex, outside, worker
<1>7. job' = job /\ poisoned' = poisoned /\ ~poisoned
  BY <1>1, HolderIsSomebody DEF Shrink, mutex
<1>8. job'.kept \cap Members' = {} /\ Members' \cup job'.kept \subseteq Using
  BY <1>4, <1>7, Vector
<1> QED
  BY <1>1, <1>4, <1>6, <1>7, <1>8, PoolStep DEF Fine, outside, worker

LEMMA JoinThreadStep ==
  ASSUME PoolInv, NEW a \in Actors, JoinThread(a)
  PROVE  Fine
<1>1. /\ threads' = Front(threads) /\ threads # <<>>
      /\ job' = [job EXCEPT !.joined = {Last(threads)}, !.kept = {Last(threads)}]
      /\ UNCHANGED <<pending_joins, poisoned, owners, call, outside>>
  BY DEF JoinThread
<1>2. TypeOK /\ threads \in Seq(Workers) /\ NoTwice(threads)
  BY Vector DEF PoolInv
<1>3. /\ threads' \in Seq(Workers) /\ Last(threads) \in Workers
      /\ Members' = Members \ {Last(threads)} /\ Last(threads) \in Members /\ NoTwice(threads')
  BY <1>1, <1>2, Popped DEF Members
<1>4. job' \in Jobs /\ job'.kept = {Last(threads)}
  <2>1. 0 \in 0 .. MaxWorkers
    BY ThreadPoolAssumption
  <2>2. PICK S \in SUBSET Workers : S = {Last(threads)}
    BY <1>3
  <2>3. job' = [job EXCEPT !.joined = S, !.kept = S]
    BY <1>1, <2>2
  <2>4. job' \in Jobs /\ job'.kept = S
    BY <1>2, <2>1, <2>3, NewJob
  <2> QED
    BY <2>2, <2>4
<1>5. TypeOK'
  BY <1>1, <1>2, <1>3, <1>4 DEF TypeOK, Jobs, outside, worker
<1>6. poisoned' = poisoned /\ ~poisoned
  BY <1>1, HolderIsSomebody DEF JoinThread
<1>7. job'.kept \cap Members' = {} /\ Members' \cup job'.kept \subseteq Using
  BY <1>3, <1>4, Vector
<1> QED
  BY <1>1, <1>3, <1>5, <1>6, <1>7, PoolStep DEF Fine, outside, worker

LEMMA JoinPendingStep ==
  ASSUME PoolInv, NEW a \in Actors, JoinPending(a)
  PROVE  Fine
<1>1. /\ pending_joins' = Front(pending_joins) /\ pending_joins # <<>>
      /\ job' = [job EXCEPT !.joined = {Last(pending_joins)}]
      /\ UNCHANGED <<threads, poisoned, owners, call, outside>>
  BY DEF JoinPending
<1>2. TypeOK /\ pending_joins \in Seq(Workers)
  BY DEF PoolInv, TypeOK
<1>3. pending_joins' \in Seq(Workers) /\ Last(pending_joins) \in Workers
  BY <1>1, <1>2, PoppedIn
<1>4. job' \in Jobs /\ job'.kept = job.kept
  <2>1. 0 \in 0 .. MaxWorkers
    BY ThreadPoolAssumption
  <2>2. PICK S \in SUBSET Workers : S = {Last(pending_joins)}
    BY <1>3
  <2>3. job' = [job EXCEPT !.joined = S]
    BY <1>1, <2>2
  <2> QED
    BY <1>2, <2>1, <2>3, NewJob
<1>5. TypeOK'
  BY <1>1, <1>2, <1>3, <1>4 DEF TypeOK, Jobs, outside, worker
<1>6. poisoned' = poisoned /\ ~poisoned
  BY <1>1, HolderIsSomebody DEF JoinPending
<1> QED
  BY <1>1, <1>4, <1>5, <1>6, QuietStep DEF outside, worker

LEMMA JoinedStep ==
  ASSUME PoolInv, NEW a \in Actors, Joined(a)
  PROVE  Fine
<1>1. /\ job' = [NoJob EXCEPT !.by = a]
      /\ UNCHANGED <<state, poisoned, owners, call, outside>>
  BY DEF Joined
<1>2. job' \in Jobs /\ job'.kept = {}
  <2>1. 0 \in 0 .. MaxWorkers
    BY ThreadPoolAssumption
  <2> QED
    BY <1>1, <2>1, NewJob
<1>3. TypeOK'
  BY <1>1, <1>2 DEF PoolInv, TypeOK, Jobs, state, outside, worker
<1>4. ~poisoned
  BY HolderIsSomebody DEF Joined
<1> QED
  BY <1>1, <1>2, <1>3, <1>4, QuietStep DEF state, outside, worker

LEMMA JoinEndsStep ==
  ASSUME PoolInv, NEW a \in Actors, JoinEnds(a)
  PROVE  Fine
<1>1. /\ job' = NoJob /\ Leave({a}) /\ UNCHANGED outside
      /\ \/ poisoned' = poisoned
         \/ (\E w \in job.joined : mode[w] = "dead") /\ poisoned' = TRUE
  BY DEF JoinEnds
<1>2. job.joined \subseteq Workers
  BY JobTypes DEF PoolInv, Jobs
<1>3. call' \in [Actors -> {"none", "post", "post all", "resize", "join"}]
  BY ReturnsTo DEF JoinEnds
<1> QED
  BY <1>1, <1>2, <1>3, LeaveStep DEF outside, worker

LEMMA ClonePoolStep ==
  ASSUME PoolInv, NEW a \in Actors, NEW u \in Users, ClonePool(a, u)
  PROVE  Fine
<1>1. owners' = owners \cup {u} /\ UNCHANGED <<state, mutex, call, outside>>
  BY DEF ClonePool
<1>2. TypeOK'
  BY <1>1 DEF PoolInv, TypeOK, Actors, state, mutex, outside, worker
<1> QED
  BY <1>1, <1>2, QuietStep DEF state, mutex, outside, worker

LEMMA DropPoolStep ==
  ASSUME PoolInv, NEW a, DropPool(a)
  PROVE  Fine
<1>1. Leave({a}) /\ UNCHANGED <<mutex, call, outside>>
  BY DEF DropPool
<1>2. call' \in [Actors -> {"none", "post", "post all", "resize", "join"}]
  BY <1>1 DEF PoolInv, TypeOK
<1> QED
  BY <1>1, <1>2, LeaveStep DEF mutex, outside, worker

LEMMA PostAllFailsStep ==
  ASSUME PoolInv, NEW a \in Actors, PostAllFails(a)
  PROVE  Fine
BY AbortStep DEF PostAllFails

----------------------------------------------------------------------------
(* The handles that are outside of the pool. *)

\* Only the count of handles changes.
LEMMA CrossStep ==
  ASSUME PoolInv, NEW w \in Workers, NEW n \in 0 .. MaxHandles,
         mode[w] \notin {"unborn", "over"},
         cross' = [cross EXCEPT ![w] = n],
         UNCHANGED <<pool, worker, fresh, aborted>>
  PROVE  /\ PoolInv'
         /\ \A v \in Workers \ {w} : AbstractStep(v)
         /\ cross'[w] = n /\ Handles(w)' = Handles(w) - cross[w] + n
         /\ mode'[w] = mode[w] /\ pending'[w] = pending[w] /\ running'[w] = running[w]
<1>1. /\ UNCHANGED <<state, mutex, owners, call, calls, mode, pending, running, fresh, aborted>>
      /\ threads' = threads /\ job' = job /\ poisoned' = poisoned
  BY DEF pool, state, mutex, worker
<1>2. cross \in [Workers -> 0 .. MaxHandles]
  BY DEF PoolInv, TypeOK
<1>3. /\ cross' \in [Workers -> 0 .. MaxHandles]
      /\ cross'[w] = n /\ \A v \in Workers \ {w} : cross'[v] = cross[v]
  BY <1>2
<1>4. TypeOK'
  BY <1>1, <1>3 DEF PoolInv, TypeOK, state, mutex
<1>5. OneHandle' /\ TasksInv' /\ PoisonInv'
  BY <1>1 DEF PoolInv, OneHandle, TasksInv, PoisonInv, Members
<1>6. NoUseIsLate'
  BY <1>1, <1>3 DEF PoolInv, NoUseIsLate, Using, Members
<1>7. ASSUME NEW v \in Workers \ {w}
      PROVE  AbstractStep(v)
  <2>1. Handles(v)' = Handles(v)
    BY <1>1, <1>3 DEF Handles, Members
  <2> QED
    BY <1>1, <2>1, LetGo
<1>8. Handles(w)' = Handles(w) - cross[w] + n
  <2>1. Handles(w) = cross[w] + (IF w \in Using THEN 1 ELSE 0) /\ cross[w] \in Nat
    BY HandlesAre
  <2>2. PoolInv'
    BY <1>4, <1>5, <1>6 DEF PoolInv
  <2>3. w \in Using' <=> w \in Using
    BY <1>1 DEF Using, Members
  <2>4. Handles(w)' = n + (IF w \in Using THEN 1 ELSE 0)
    BY <1>1, <1>3, <2>2, <2>3 DEF Handles, Using, PoolInv, OneHandle
  <2>5. n \in Int
    BY ThreadPoolAssumption
  <2> QED
    BY <2>1, <2>4, <2>5
<1> QED
  BY <1>1, <1>3, <1>4, <1>5, <1>6, <1>7, <1>8 DEF PoolInv

LEMMA ShareStep ==
  ASSUME PoolInv, NEW w \in Workers, Share(w)
  PROVE  Fine
<1>1. /\ cross[w] > 0 \/ running[w] # {}
      /\ cross' = [cross EXCEPT ![w] = @ + 1]
      /\ UNCHANGED <<pool, worker, fresh, aborted>>
  BY DEF Share
<1>2. cross[w] \in Nat /\ cross[w] + 1 \in 0 .. MaxHandles
  <2>1. cross[w] \in 0 .. MaxHandles /\ MaxHandles \in Nat /\ cross[w] < MaxHandles
    BY ThreadPoolAssumption DEF PoolInv, TypeOK, Share
  <2> QED
    BY <2>1
<1>3. PICK n \in 0 .. MaxHandles : n = cross[w] + 1
  BY <1>2
<1>4. cross' = [cross EXCEPT ![w] = n]
  <2>1. cross \in [Workers -> 0 .. MaxHandles]
    BY DEF PoolInv, TypeOK
  <2> QED
    BY <1>1, <1>3, <2>1
<1>5. mode[w] \notin {"unborn", "over"} /\ Handles(w) \in Nat
  BY <1>1, HandlesAre
<1>6. /\ PoolInv'
      /\ \A v \in Workers \ {w} : AbstractStep(v)
      /\ Handles(w)' = Handles(w) - cross[w] + n
      /\ mode'[w] = mode[w] /\ pending'[w] = pending[w] /\ running'[w] = running[w]
  BY <1>1, <1>4, <1>5, CrossStep
<1>7. Handles(w)' = Handles(w) + 1
  BY <1>2, <1>3, <1>5, <1>6
<1>8. AbstractStep(w)
  BY <1>1, <1>6, <1>7, Shared
<1> QED
  BY <1>6, <1>8 DEF Fine

LEMMA ReleaseStep ==
  ASSUME PoolInv, NEW w \in Workers, Release(w)
  PROVE  Fine
<1>1. /\ cross[w] > 0 /\ cross' = [cross EXCEPT ![w] = @ - 1]
      /\ UNCHANGED <<pool, worker, fresh, aborted>>
  BY DEF Release
<1>2. cross[w] \in Nat /\ cross[w] - 1 \in 0 .. MaxHandles
  <2>1. cross[w] \in 0 .. MaxHandles /\ MaxHandles \in Nat
    BY ThreadPoolAssumption DEF PoolInv, TypeOK
  <2> QED
    BY <1>1, <2>1
<1>3. PICK n \in 0 .. MaxHandles : n = cross[w] - 1
  BY <1>2
<1>4. cross' = [cross EXCEPT ![w] = n]
  <2>1. cross \in [Workers -> 0 .. MaxHandles]
    BY DEF PoolInv, TypeOK
  <2> QED
    BY <1>1, <1>3, <2>1
<1>5. /\ mode[w] \notin {"unborn", "over"} /\ Handles(w) \in Nat
      /\ Handles(w) = cross[w] + (IF w \in Using THEN 1 ELSE 0)
  BY <1>1, HandlesAre
<1>6. /\ PoolInv'
      /\ \A v \in Workers \ {w} : AbstractStep(v)
      /\ Handles(w)' = Handles(w) - cross[w] + n
      /\ mode'[w] = mode[w] /\ pending'[w] = pending[w] /\ running'[w] = running[w]
  BY <1>1, <1>4, <1>5, CrossStep
<1>7. Handles(w)' = Handles(w) - 1 /\ Handles(w) > 0
  <2>1. ASSUME NEW c \in Nat, NEW h \in Nat, c > 0, h = c \/ h = c + 1
        PROVE  h - c + (c - 1) = h - 1 /\ h > 0
    BY <2>1
  <2>2. Handles(w) = cross[w] \/ Handles(w) = cross[w] + 1
    BY <1>2, <1>5
  <2>3. Handles(w)' = Handles(w) - cross[w] + (cross[w] - 1)
    BY <1>3, <1>6
  <2> QED
    BY <1>1, <1>2, <1>5, <2>1, <2>2, <2>3
<1>8. AbstractStep(w)
  BY <1>5, <1>6, <1>7, LetGo
<1> QED
  BY <1>6, <1>8 DEF Fine

----------------------------------------------------------------------------
(* The workers. *)

\* One worker takes a step, in which the pool may come to its end.
LEMMA WorkerStep ==
  ASSUME PoolInv, NEW w \in Workers, TypeOK',
         mode[w] \in {"serving", "failed"},
         UNCHANGED <<job, poisoned, cross, fresh>>,
         threads' = threads \/ threads' = <<>>,
         \A v \in Workers \ {w} : /\ mode'[v] = mode[v] /\ pending'[v] = pending[v]
                                  /\ running'[v] = running[v],
         mode'[w] # "unborn",
         mode'[w] = "over" => Handles(w) = 0,
         running'[w] # {} => mode'[w] = "serving",
         pending'[w] \cup running'[w] \subseteq pending[w] \cup running[w]
  PROVE  /\ PoolInv' /\ \A v \in Workers \ {w} : AbstractStep(v)
         /\ Handles(w)' \in {Handles(w), Handles(w) - 1} \cap Nat
         /\ threads' = threads => Handles(w)' = Handles(w)
<1>1. Members' \subseteq Members /\ NoTwice(threads') /\ Members' = ToSet(threads')
  <2>1. CASE threads' = threads
    BY <2>1, Vector DEF Members, NoTwice
  <2>2. CASE threads' = <<>>
    <3>1. NoTwice(<<>>) /\ ToSet(<<>>) = {}
      BY EmptyVector
    <3> QED
      BY <2>2, <3>1 DEF Members, NoTwice
  <2> QED
    BY <2>1, <2>2
<1>2. OneHandle'
  BY <1>1 DEF PoolInv, OneHandle, NoTwice
<1>3. Using' \subseteq Using
  BY <1>1 DEF Using
<1>4. NoUseIsLate'
  <2>1. ASSUME NEW v \in Workers, mode'[v] \in {"unborn", "over"}
        PROVE  cross'[v] = 0 /\ v \notin Using'
    <3>1. CASE v = w
      <4>1. Handles(w) = 0 /\ Handles(w) = cross[w] + (IF w \in Using THEN 1 ELSE 0)
            /\ cross[w] \in Nat
        BY <2>1, <3>1, HandlesAre
      <4>2. cross[w] = 0 /\ w \notin Using
        BY <4>1
      <4> QED
        BY <1>3, <3>1, <4>2
    <3>2. CASE v # w
      BY <1>3, <2>1, <3>2 DEF PoolInv, NoUseIsLate
    <3> QED
      BY <3>1, <3>2
  <2> QED
    BY <2>1 DEF NoUseIsLate
<1>5. TasksInv'
  <2>1. ASSUME NEW v \in Workers
        PROVE  /\ running'[v] # {} => mode'[v] = "serving"
               /\ fresh' \cap (pending'[v] \cup running'[v]) = {}
    <3>1. /\ running[v] # {} => mode[v] = "serving"
          /\ fresh \cap (pending[v] \cup running[v]) = {}
      BY DEF PoolInv, TasksInv
    <3>2. CASE v = w
      BY <3>1, <3>2
    <3>3. CASE v # w
      BY <3>1, <3>3
    <3> QED
      BY <3>2, <3>3
  <2> QED
    BY <2>1 DEF TasksInv
<1>6. PoisonInv'
  <2>1. ASSUME NEW v \in Workers, mode[v] = "dead"
        PROVE  mode'[v] = "dead"
    BY <2>1
  <2>2. poisoned => job.by = NoOne /\ (threads = <<>> \/ \E v \in Workers : mode[v] = "dead")
    BY DEF PoolInv, PoisonInv
  <2> QED
    BY <2>1, <2>2 DEF PoisonInv
<1>7. PoolInv'
  BY <1>2, <1>4, <1>5, <1>6 DEF PoolInv
<1>8. ASSUME NEW v \in Workers
      PROVE  /\ Handles(v)' = Handles(v) \/ (Handles(v) > 0 /\ Handles(v)' = Handles(v) - 1)
             /\ threads' = threads => Handles(v)' = Handles(v)
             /\ mode[v] = "unborn" => Handles(v)' = Handles(v)
             /\ Handles(v) \in Nat
  <2>1. /\ Handles(v) = cross[v] + (IF v \in Using THEN 1 ELSE 0) /\ cross[v] \in Nat
        /\ v \in Using => mode[v] # "unborn"
    BY HandlesAre
  <2>2. Handles(v)' = cross[v] + (IF v \in Using' THEN 1 ELSE 0)
    BY <1>2, <2>1 DEF Handles, Using, OneHandle
  <2>3. threads' = threads => Using' = Using
    BY DEF Using, Members
  <2>4. threads' = threads => Handles(v)' = Handles(v)
    BY <2>1, <2>2, <2>3
  <2>5. v \in Using' => v \in Using
    BY <1>3
  <2>6. CASE v \in Using
    <3>1. Handles(v) = cross[v] + 1 /\ (Handles(v)' = cross[v] + 1 \/ Handles(v)' = cross[v])
      BY <2>1, <2>2, <2>6
    <3>2. ASSUME NEW c \in Nat
          PROVE  c + 1 \in Nat /\ c + 1 > 0 /\ c = (c + 1) - 1
      BY <3>2
    <3>3. /\ Handles(v)' = Handles(v) \/ (Handles(v) > 0 /\ Handles(v)' = Handles(v) - 1)
          /\ Handles(v) \in Nat
      BY <2>1, <3>1, <3>2
    <3> QED
      BY <2>1, <2>4, <2>6, <3>3
  <2>7. CASE v \notin Using
    <3>1. Handles(v) = cross[v] + 0 /\ Handles(v)' = cross[v] + 0
      BY <2>1, <2>2, <2>5, <2>7
    <3>2. Handles(v) = Handles(v)' /\ Handles(v) \in Nat
      BY <2>1, <3>1
    <3> QED
      BY <3>2
  <2> QED
    BY <2>6, <2>7
<1>9. ASSUME NEW v \in Workers \ {w}
      PROVE  AbstractStep(v)
  <2>1. mode'[v] = mode[v] /\ pending'[v] = pending[v] /\ running'[v] = running[v]
    OBVIOUS
  <2>2. \/ Handles(v)' = Handles(v)
        \/ mode[v] # "unborn" /\ Handles(v) > 0 /\ Handles(v)' = Handles(v) - 1
    BY <1>8
  <2> QED
    BY <2>1, <2>2, LetGo
<1>10. Handles(w)' \in {Handles(w), Handles(w) - 1} \cap Nat
  BY <1>8
<1> QED
  BY <1>7, <1>8, <1>9, <1>10

\* A worker takes a step that is not of the pool: as a queue, it takes it as well.
LEMMA RunStep ==
  ASSUME PoolInv, NEW w \in Workers, Run(w)
  PROVE  Fine
<1>1. PICK t \in pending[w] : /\ running' = [running EXCEPT ![w] = {t}]
                              /\ pending' = [pending EXCEPT ![w] = @ \ {t}]
  BY DEF Run
<1>2. /\ mode[w] = "serving" /\ running[w] = {}
      /\ UNCHANGED <<state, mutex, owners, call, calls, cross, mode, fresh, aborted>>
      /\ threads' = threads /\ job' = job /\ poisoned' = poisoned
  BY DEF Run, pool, state, mutex
<1>3. pending \in [Workers -> SUBSET Tasks] /\ running \in [Workers -> SUBSET Tasks]
  BY DEF PoolInv, TypeOK
<1>4. /\ pending' \in [Workers -> SUBSET Tasks] /\ running' \in [Workers -> SUBSET Tasks]
      /\ running'[w] = {t} /\ pending'[w] = pending[w] \ {t}
      /\ \A v \in Workers \ {w} : pending'[v] = pending[v] /\ running'[v] = running[v]
  BY <1>1, <1>3
<1>5. TypeOK'
  BY <1>2, <1>4 DEF PoolInv, TypeOK, state, mutex
<1>6. /\ PoolInv' /\ \A v \in Workers \ {w} : AbstractStep(v)
      /\ Handles(w)' = Handles(w)
  BY <1>2, <1>4, <1>5, WorkerStep
<1>7. Mode(w) = "serving" /\ Mode(w)' = Mode(w) /\ Uses(w)' = Uses(w)
  BY <1>2, <1>6, Modes DEF Mode, Uses
<1>8. Queue(w)!Run
  BY <1>2, <1>4, <1>7 DEF Queue!Run
<1> QED
  BY <1>6, <1>8 DEF Fine, AbstractStep, Queue!Next

LEMMA TaskReturnsStep ==
  ASSUME PoolInv, NEW w \in Workers, TaskReturns(w)
  PROVE  Fine
<1>1. /\ running[w] # {} /\ running' = [running EXCEPT ![w] = {}]
      /\ UNCHANGED <<state, mutex, owners, call, calls, cross, mode, pending, fresh, aborted>>
      /\ threads' = threads /\ job' = job /\ poisoned' = poisoned
  BY DEF TaskReturns, Finished, pool, state, mutex
<1>2. mode[w] = "serving"
  BY <1>1 DEF PoolInv, TasksInv
<1>3. running \in [Workers -> SUBSET Tasks]
  BY DEF PoolInv, TypeOK
<1>4. /\ running' \in [Workers -> SUBSET Tasks] /\ running'[w] = {}
      /\ \A v \in Workers \ {w} : running'[v] = running[v]
  BY <1>1, <1>3
<1>5. TypeOK'
  BY <1>1, <1>4 DEF PoolInv, TypeOK, state, mutex
<1>6. /\ PoolInv' /\ \A v \in Workers \ {w} : AbstractStep(v)
      /\ Handles(w)' = Handles(w)
  BY <1>1, <1>2, <1>4, <1>5, WorkerStep
<1>7. Mode(w)' = Mode(w) /\ Uses(w)' = Uses(w)
  BY <1>1, <1>6 DEF Mode, Uses
<1>8. Queue(w)!Return
  BY <1>1, <1>4, <1>7 DEF Queue!Return
<1> QED
  BY <1>6, <1>8 DEF Fine, AbstractStep, Queue!Next

\* What is left of TypeOK when a mode changes.
LEMMA ModeSet ==
  ASSUME PoolInv, NEW w \in Workers, NEW m \in {"serving", "failed", "dead", "over"},
         mode' = [mode EXCEPT ![w] = m]
  PROVE  /\ mode' \in [Workers -> {"unborn", "serving", "failed", "dead", "over"}]
         /\ mode'[w] = m /\ \A v \in Workers \ {w} : mode'[v] = mode[v]
BY DEF PoolInv, TypeOK

LEMMA TaskPanicsStep ==
  ASSUME PoolInv, NEW w \in Workers, TaskPanics(w)
  PROVE  Fine
<1>1. CASE Abort
  BY <1>1, AbortStep
<1>2. CASE /\ running' = [running EXCEPT ![w] = {}]
           /\ mode' = [mode EXCEPT ![w] = "failed"]
           /\ UNCHANGED <<pool, cross, pending, fresh, aborted>>
  <2>1. /\ UNCHANGED <<state, mutex, owners, call, calls, cross, pending, fresh, aborted>>
        /\ threads' = threads /\ job' = job /\ poisoned' = poisoned
    BY <1>2 DEF pool, state, mutex
  <2>2. running[w] # {} /\ mode[w] = "serving"
    BY DEF TaskPanics, Finished, PoolInv, TasksInv
  <2>3. running \in [Workers -> SUBSET Tasks]
    BY DEF PoolInv, TypeOK
  <2>4. /\ running' \in [Workers -> SUBSET Tasks] /\ running'[w] = {}
        /\ \A v \in Workers \ {w} : running'[v] = running[v]
    BY <1>2, <2>3
  <2>5. /\ mode' \in [Workers -> {"unborn", "serving", "failed", "dead", "over"}]
        /\ mode'[w] = "failed" /\ \A v \in Workers \ {w} : mode'[v] = mode[v]
    BY <1>2, ModeSet
  <2>6. TypeOK'
    BY <2>1, <2>4, <2>5 DEF PoolInv, TypeOK, state, mutex
  <2>7. /\ PoolInv' /\ \A v \in Workers \ {w} : AbstractStep(v)
        /\ Handles(w)' = Handles(w)
    BY <2>1, <2>2, <2>4, <2>5, <2>6, WorkerStep
  <2>8. /\ Mode(w) = "serving" /\ Mode(w)' = "failed"
        /\ Uses(w) = Handles(w) /\ Uses(w)' = Handles(w)'
    BY <2>2, <2>5 DEF Mode, Uses
  <2>9. Queue(w)!Fail
    BY <2>1, <2>2, <2>4, <2>7, <2>8 DEF Queue!Fail
  <2> QED
    BY <2>7, <2>9 DEF Fine, AbstractStep, Queue!Next
<1> QED
  BY <1>1, <1>2 DEF TaskPanics

LEMMA UnwoundStep ==
  ASSUME PoolInv, NEW w \in Workers, Unwound(w)
  PROVE  Fine
<1>1. /\ mode[w] = "failed" /\ mode' = [mode EXCEPT ![w] = "dead"]
      /\ UNCHANGED <<state, mutex, owners, call, calls, cross, pending, running, fresh, aborted>>
      /\ threads' = threads /\ job' = job /\ poisoned' = poisoned
  BY DEF Unwound, pool, state, mutex
<1>2. /\ mode' \in [Workers -> {"unborn", "serving", "failed", "dead", "over"}]
      /\ mode'[w] = "dead" /\ \A v \in Workers \ {w} : mode'[v] = mode[v]
  BY <1>1, ModeSet
<1>3. running[w] = {}
  BY <1>1 DEF PoolInv, TasksInv
<1>4. TypeOK'
  BY <1>1, <1>2 DEF PoolInv, TypeOK, state, mutex
<1>5. /\ PoolInv' /\ \A v \in Workers \ {w} : AbstractStep(v)
      /\ Handles(w)' = Handles(w)
  BY <1>1, <1>2, <1>3, <1>4, WorkerStep
<1>6. /\ Mode(w) = "failed" /\ Mode(w)' = "over"
      /\ Uses(w) = Handles(w) /\ Uses(w)' = Handles(w)'
  BY <1>1, <1>2 DEF Mode, Uses
<1>7. Queue(w)!End
  BY <1>1, <1>5, <1>6 DEF Queue!End
<1> QED
  BY <1>5, <1>7 DEF Fine, AbstractStep, Queue!Next

LEMMA WorkerEndsStep ==
  ASSUME PoolInv, NEW w \in Workers, WorkerEnds(w)
  PROVE  Fine
<1>1. /\ mode[w] = "serving" /\ Handles(w) = 0 /\ pending[w] = {} /\ running[w] = {}
      /\ mode' = [mode EXCEPT ![w] = "over"]
      /\ UNCHANGED <<state, mutex, owners, call, calls, cross, pending, running, fresh, aborted>>
      /\ threads' = threads /\ job' = job /\ poisoned' = poisoned
  BY DEF WorkerEnds, pool, state, mutex
<1>2. /\ mode' \in [Workers -> {"unborn", "serving", "failed", "dead", "over"}]
      /\ mode'[w] = "over" /\ \A v \in Workers \ {w} : mode'[v] = mode[v]
  BY <1>1, ModeSet
<1>3. TypeOK'
  BY <1>1, <1>2 DEF PoolInv, TypeOK, state, mutex
<1>4. /\ PoolInv' /\ \A v \in Workers \ {w} : AbstractStep(v)
      /\ Handles(w)' = Handles(w)
  BY <1>1, <1>2, <1>3, WorkerStep
<1>5. /\ Mode(w) = "serving" /\ Mode(w)' = "over"
      /\ Uses(w) = Handles(w) /\ Uses(w)' = Handles(w)'
  BY <1>1, <1>2 DEF Mode, Uses
<1>6. Queue(w)!End
  BY <1>1, <1>4, <1>5 DEF Queue!End
<1> QED
  BY <1>4, <1>6 DEF Fine, AbstractStep, Queue!Next

\* The last clone may be in a task that is dropped: the pool goes with it, and its
\* handle of the worker itself.
LEMMA DropTaskStep ==
  ASSUME PoolInv, NEW w \in Workers, DropTask(w)
  PROVE  Fine
<1>1. CASE Abort
  BY <1>1, AbortStep
<1>2. CASE /\ \E t \in pending[w] : /\ pending' = [pending EXCEPT ![w] = @ \ {t}]
                                    /\ IF t \in owners THEN Leave({t})
                                                       ELSE UNCHANGED <<owners, state>>
           /\ UNCHANGED <<mutex, call, cross, mode, running, fresh, calls, aborted>>
  <2>1. PICK t \in pending[w] : /\ pending' = [pending EXCEPT ![w] = @ \ {t}]
                                /\ IF t \in owners THEN Leave({t})
                                                   ELSE UNCHANGED <<owners, state>>
    BY <1>2
  <2>2. /\ threads' = threads \/ threads' = <<>>
        /\ pending_joins' = pending_joins \/ pending_joins' = <<>>
        /\ owners' \subseteq owners
    BY <2>1 DEF Leave, state
  <2>3. mode[w] = "failed" /\ running[w] = {}
    BY DEF DropTask, PoolInv, TasksInv
  <2>4. pending \in [Workers -> SUBSET Tasks]
    BY DEF PoolInv, TypeOK
  <2>5. /\ pending' \in [Workers -> SUBSET Tasks] /\ pending'[w] = pending[w] \ {t}
        /\ \A v \in Workers \ {w} : pending'[v] = pending[v]
    BY <2>1, <2>4
  <2>6. threads' \in Seq(Workers) /\ pending_joins' \in Seq(Workers)
    <3>1. threads \in Seq(Workers) /\ pending_joins \in Seq(Workers)
      BY DEF PoolInv, TypeOK
    <3>2. <<>> \in Seq(Workers)
      BY EmptyVector
    <3> QED
      BY <2>2, <3>1, <3>2
  <2>7. job' = job /\ poisoned' = poisoned
    BY <1>2 DEF mutex
  <2>8. TypeOK'
    BY <1>2, <2>2, <2>5, <2>6, <2>7 DEF PoolInv, TypeOK
  <2>9. /\ PoolInv' /\ \A v \in Workers \ {w} : AbstractStep(v)
        /\ Handles(w)' \in {Handles(w), Handles(w) - 1} \cap Nat
    BY <1>2, <2>2, <2>3, <2>5, <2>7, <2>8, WorkerStep
  <2>10. /\ Mode(w) = "failed" /\ Mode(w)' = "failed"
         /\ Uses(w) = Handles(w) /\ Uses(w)' = Handles(w)'
    BY <1>2, <2>3 DEF Mode, Uses
  <2>11. Queue(w)!Forget
    BY <1>2, <2>5, <2>9, <2>10 DEF Queue!Forget
  <2> QED
    BY <2>9, <2>11 DEF Fine, AbstractStep, Queue!Next
<1> QED
  BY <1>1, <1>2 DEF DropTask

----------------------------------------------------------------------------
(* A thread is started. *)

LEMMA GrowStep ==
  ASSUME PoolInv, NEW a \in Actors, Grow(a)
  PROVE  Fine
<1>1. PICK w \in Workers : /\ mode[w] = "unborn"
                           /\ threads' = Append(threads, w)
                           /\ mode' = [mode EXCEPT ![w] = "serving"]
  BY DEF Grow
<1>2. /\ UNCHANGED <<pending_joins, owners, call, cross, pending, running, fresh, calls, aborted>>
      /\ job' = job /\ poisoned' = poisoned /\ ~poisoned
  BY HolderIsSomebody DEF Grow, mutex
<1>3. TypeOK /\ threads \in Seq(Workers) /\ NoTwice(threads) /\ job.kept \cap Members = {}
  BY Vector DEF PoolInv
<1>4. w \notin Members /\ w \notin job.kept /\ cross[w] = 0 /\ running[w] = {}
  BY <1>1 DEF PoolInv, NoUseIsLate, TasksInv, Using
<1>5. threads' \in Seq(Workers) /\ Members' = Members \cup {w} /\ NoTwice(threads')
  BY <1>1, <1>3, <1>4, Pushed DEF Members
<1>6. /\ mode' \in [Workers -> {"unborn", "serving", "failed", "dead", "over"}]
      /\ mode'[w] = "serving" /\ \A v \in Workers \ {w} : mode'[v] = mode[v]
  BY <1>1, ModeSet
<1>7. TypeOK'
  BY <1>2, <1>3, <1>5, <1>6 DEF TypeOK
<1>8. OneHandle'
  BY <1>2, <1>3, <1>4, <1>5 DEF OneHandle, NoTwice
<1>9. NoUseIsLate'
  BY <1>2, <1>5, <1>6 DEF PoolInv, NoUseIsLate, Using
<1>10. TasksInv'
  BY <1>2, <1>4, <1>6 DEF PoolInv, TasksInv
<1>11. PoolInv'
  BY <1>2, <1>7, <1>8, <1>9, <1>10 DEF PoolInv, PoisonInv
<1>12. AbstractStep(w)
  <2>1. Handles(w)' = 1
    <3>1. Handles(w)' = 0 + 1 + 0
      BY <1>2, <1>4, <1>5 DEF Handles
    <3> QED
      BY <3>1
  <2>2. Uses(w) = 1 /\ Uses(w)' = 1
    BY <1>1, <1>6, <2>1 DEF Uses
  <2>3. Mode(w) = "serving" /\ Mode(w)' = "serving"
    BY <1>1, <1>6 DEF Mode
  <2> QED
    BY <1>2, <2>2, <2>3 DEF AbstractStep, Queue!vars
<1>13. ASSUME NEW v \in Workers \ {w}
       PROVE  AbstractStep(v)
  <2>1. Handles(v)' = Handles(v)
    BY <1>2, <1>5 DEF Handles
  <2>2. v \in Workers /\ mode'[v] = mode[v] /\ pending'[v] = pending[v] /\ running'[v] = running[v]
    BY <1>2, <1>6
  <2> QED
    BY <2>1, <2>2, LetGo
<1> QED
  BY <1>11, <1>12, <1>13 DEF Fine

----------------------------------------------------------------------------
(* The theorems. *)

LEMMA InitIsFine ==
  ASSUME Init
  PROVE  PoolInv /\ \A w \in Workers : Queue(w)!Init
<1>1. PICK n \in 0 .. MaxWorkers :
        /\ threads = [w \in 1 .. n |-> w]
        /\ mode = [w \in Workers |-> IF w <= n THEN "serving" ELSE "unborn"]
  BY DEF Init
<1>2. MaxWorkers \in Nat /\ MaxCalls \in Nat /\ MaxHandles \in Nat
  BY ThreadPoolAssumption
<1>3. n \in Nat /\ \A i \in 1 .. n : i \in Workers /\ threads[i] = i
  BY <1>1, <1>2 DEF Workers
<1>4. threads \in Seq(Workers) /\ Len(threads) = n
  BY <1>1, <1>3
<1>5. NoTwice(threads) /\ \A w : w \in Members <=> w \in 1 .. n
  BY <1>3, <1>4, ToSetIs DEF NoTwice, Members
<1>6. /\ pending_joins = <<>> /\ poisoned = FALSE /\ aborted = FALSE
      /\ job = NoJob /\ owners \subseteq Actors
      /\ call = [a \in Actors |-> "none"] /\ cross = [w \in Workers |-> 0]
      /\ pending = [w \in Workers |-> {}] /\ running = [w \in Workers |-> {}]
      /\ fresh = Tasks /\ calls = MaxCalls
  BY DEF Init, Actors
<1>7. job \in Jobs /\ job.kept = {} /\ job.by = NoOne
  BY <1>6, JobTypes
<1>8. TypeOK
  <2>1. pending_joins \in Seq(Workers)
    BY <1>6, EmptyVector
  <2>2. cross \in [Workers -> 0 .. MaxHandles] /\ calls \in Nat
    BY <1>2, <1>6
  <2>3. /\ pending \in [Workers -> SUBSET Tasks] /\ running \in [Workers -> SUBSET Tasks]
        /\ call \in [Actors -> {"none", "post", "post all", "resize", "join"}]
        /\ mode \in [Workers -> {"unborn", "serving", "failed", "dead", "over"}]
    BY <1>1, <1>6
  <2> QED
    BY <1>4, <1>6, <1>7, <2>1, <2>2, <2>3 DEF TypeOK, Jobs
<1>9. OneHandle
  BY <1>5, <1>7 DEF OneHandle, NoTwice
<1>10. \A w \in Workers : w <= n <=> w \in 1 .. n
  BY <1>2, <1>3 DEF Workers
<1>11. NoUseIsLate
  BY <1>1, <1>5, <1>6, <1>7, <1>10 DEF NoUseIsLate, Using
<1>12. TasksInv /\ PoisonInv
  BY <1>6 DEF TasksInv, PoisonInv
<1>13. ASSUME NEW w \in Workers
       PROVE  Queue(w)!Init
  <2>1. mode[w] = "unborn" \/ mode[w] = "serving"
    BY <1>1
  <2>2. Mode(w) = "serving"
    BY <2>1 DEF Mode
  <2>3. mode[w] = "serving" => Handles(w) = 1
    <3>1. mode[w] = "serving" => w \in Members
      BY <1>1, <1>5, <1>10
    <3>2. w \in Members => Handles(w) = 0 + 1 + 0
      BY <1>6, <1>7 DEF Handles
    <3> QED
      BY <3>1, <3>2
  <2>4. Uses(w) = 1
    BY <2>1, <2>3 DEF Uses
  <2> QED
    BY <1>6, <2>2, <2>4 DEF Queue!Init
<1> QED
  BY <1>8, <1>9, <1>11, <1>12, <1>13 DEF PoolInv

LEMMA ProceedStep ==
  ASSUME PoolInv, NEW a \in Actors, Proceed(a)
  PROVE  Fine
BY RefusedStep, PostStep, PostFailsStep, PostAllStep, PostAllFailsStep, ResizeStep, ShrinkStep,
   GrowStep, ResizedStep, JoinStep, JoinThreadStep, JoinPendingStep, JoinedStep, JoinEndsStep
   DEF Proceed

LEMMA ServeStep ==
  ASSUME PoolInv, NEW w \in Workers, Serve(w)
  PROVE  Fine
BY RunStep, TaskReturnsStep, DropPoolStep, UnwoundStep, WorkerEndsStep DEF Serve

LEMMA EveryStep ==
  ASSUME PoolInv, [Next]_vars
  PROVE  Fine
<1>1. ASSUME NEW a \in Actors, NEW what \in {"post", "post all", "resize", "join"}, Call(a, what)
      PROVE  Fine
  BY <1>1, CallStep
<1>2. ASSUME NEW a \in Actors, Proceed(a)
      PROVE  Fine
  BY <1>2, ProceedStep
<1>3. ASSUME NEW a \in Actors, DropPool(a)
      PROVE  Fine
  BY <1>3, DropPoolStep
<1>4. ASSUME NEW a \in Actors, NEW u \in Users, ClonePool(a, u)
      PROVE  Fine
  BY <1>4, ClonePoolStep
<1>5. ASSUME NEW w \in Workers,
             Serve(w) \/ TaskPanics(w) \/ DropTask(w) \/ Share(w) \/ Release(w) \/ Send(w)
               \/ SendFails(w)
      PROVE  Fine
  BY <1>5, ServeStep, TaskPanicsStep, DropTaskStep, ShareStep, ReleaseStep, SendStep, SendFailsStep
<1>6. CASE UNCHANGED vars
  <2>1. UNCHANGED <<state, mutex, owners, call, outside>>
    BY <1>6 DEF vars
  <2>2. TypeOK'
    BY <2>1 DEF PoolInv, TypeOK, state, mutex, outside, worker
  <2> QED
    BY <2>1, <2>2, QuietStep DEF state, mutex, outside, worker
<1> QED
  BY <1>1, <1>2, <1>3, <1>4, <1>5, <1>6 DEF Next

\* The types hold, a worker has one handle of the pool at most, and none while it
\* was not started or after it has ended; what runs was posted to a worker that
\* serves; and who finds the mutex poisoned finds nobody at work on the pool.
THEOREM PoolInvariant == Spec => []PoolInv
<1>1. Init => PoolInv
  BY InitIsFine
<1>2. PoolInv /\ [Next]_vars => PoolInv'
  BY EveryStep DEF Fine
<1> QED
  BY <1>1, <1>2, PTL DEF Spec

\* A send with the mutex locked fails when there is no thread, or after a task has
\* panicked, and for no other reason: no worker ends while the pool has it
\* (pool.rs, the unwrap of the send in ThreadPoolOperationState::start).
THEOREM PoisonIsExplained == Spec => []PoisonExplained
<1>1. PoolInv => PoisonExplained
  BY DEF PoolInv, PoisonInv, PoisonExplained
<1> QED
  BY <1>1, PoolInvariant, PTL

\* Each worker of the pool is used as a TaskQueue: nobody posts to it who has no
\* handle of it and is not one of its tasks, whatever join and set_thread_count do
\* meanwhile; and it ends only when the last handle is gone and all tasks are run.
THEOREM WorkersServeQueues == Spec => WorkersAreQueues
<1>1. Init => \A w \in Workers : Queue(w)!Init
  BY InitIsFine
<1>2. PoolInv /\ [Next]_vars => [\A w \in Workers : Queue(w)!Next \/ UNCHANGED Queue(w)!vars]_vars
  BY EveryStep DEF Fine, AbstractStep
<1> QED
  BY <1>1, <1>2, PoolInvariant, PTL DEF Spec, WorkersAreQueues
=============================================================================
