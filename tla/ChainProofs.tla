---------------------------- MODULE ChainProofs ----------------------------
(***************************************************************************)
(* Proofs about Chain, for chains of any length and any pools; and at the  *)
(* end about EarlyChain, which is started before it has a receiver.        *)
(***************************************************************************)
EXTENDS Chain, EarlyChain, TLAPS

----------------------------------------------------------------------------
(* The inductive invariant. *)

\* What a stage makes of a signal.
Sigs == Functions \cup {"done"}

\* The threads of a scheduler, where the value has this type.
Fits(on, type) == \/ type = "immediate" /\ on = Threads
                  \/ type = "pool" /\ on = Pooled
                  \/ type = "local" /\ \E t \in Workers \cup {Main} : on = {t}

\* p stages are done, but for the function of the last one if d is 1: that was scheduled.
Suffix(p, d) == /\ Len(rest) = Len(chain) - p + d
                /\ \A i \in 1..Len(chain) - p : rest[i + d] = chain[p + i]

\* The first p of the signals that Follows is about.
Made(p, sigs, k) ==
  /\ p > 0 => sigs[1] = IF chain[1].op = "schedule" THEN chain[1].f ELSE chain[1].op
  /\ \A i \in 2..p : sigs[i] = Effect(sigs[i - 1], chain[i], i >= k)

\* The signal is underway, and is that of the stages so far.
Underway(p, d, sigs, types) ==
  /\ Suffix(p, d)
  /\ at = "queued" => d = 1
  /\ \/ p = 0 /\ d = 0 /\ signal.kind = "none"
     \/ /\ p > 0
        /\ d = 0 => signal.kind = sigs[p]
        /\ d = 1 => signal.kind = "value" /\ rest[1] = Then(sigs[p]) /\ sigs[p] \in Functions
        /\ signal.kind = "value" => /\ Fits(signal.on, types[p])
                                    /\ at \in Threads => at \in signal.on

\* What came out, or what Main makes of a panic on another thread when it looks.
Out(sig) == \/ outcome = Result(sig)
            \/ outcome = "none" /\ ~Detached /\ sig = "panic"

Progress(p, d, k, sigs, types) ==
  /\ p \in 0..Len(chain) /\ d \in {0, 1}
  /\ k \in HeededFrom /\ (stopped => k <= p + 1)
  /\ sigs \in [1..Len(chain) -> Sigs] /\ Made(p, sigs, k)
  /\ types \in [1..Len(chain) -> Types] /\ Typed(chain, types)
  /\ at \in Threads \cup {"queued"} => Underway(p, d, sigs, types)
  /\ at = "gone" => p = Len(chain) /\ Out(sigs[p])

ProgressInv == \E p, d, k, sigs, types : Progress(p, d, k, sigs, types)

\* Where Main is says where the signal is, and what came out.
MainInv ==
  /\ early => stopped
  /\ at \in Threads => outcome = "none"
  /\ at = "queued" => outcome = "none" \/ (end = "sync_wait" /\ main = "leaving")
  /\ Detached => main \in {"starting", "returned"} /\ (at = "leaked" => outcome = "none")
  /\ ~Detached => /\ at = Main => main = "starting"
                  /\ main = "returned" => at \in {"gone", "lost"}
                  /\ main \in {"leaving", "returned"} => outcome # "none"

\* In sync_wait, nothing leaves the thread.
StayInv == end = "sync_wait" =>
  /\ Stays(chain)
  /\ at \in Threads => at = Main
  /\ at = "queued" => signal.on = {Main}

ChainInv == TypeOK /\ ProgressInv /\ MainInv /\ StayInv

----------------------------------------------------------------------------
(* Stages and sources. *)

LEMMA StageKinds ==
  ASSUME NEW type \in Types, NEW s \in Stages(type)
  PROVE  \/ s.op = "then" /\ s.f \in Functions
         \/ s.op \in {"upon_error", "upon_done"} /\ s.sch \in Of(type) /\ s.f \in Functions
         \/ s.op \in {"let_error", "let_done"} /\ s.second \in Seconds(type)
         \/ s.op = "transfer" /\ (s.sch \in Schedulers \/ (s.sch = "lazy" /\ type = "pool"))
         \/ s.op = "stop_if_requested"
BY DEF Stages, Then, Upon, Let, Transfer, StopIfRequested

LEMMA SourceKinds ==
  ASSUME NEW type \in Types, NEW s \in Sources(type)
  PROVE  \/ s.op = "schedule" /\ s.sch \in Of(type) /\ s.f \in {"value", "error"}
         \/ s.op \in {"error", "done"}
BY DEF Sources, Source

LEMMA SecondKinds ==
  ASSUME NEW type \in Types, NEW s \in Seconds(type)
  PROVE  \/ s.op = "schedule" /\ s.sch \in Of(type) /\ s.f = "value"
         \/ s.op \in {"done", "error", "panic"}
BY DEF Seconds, Source

LEMMA ThenIsStage ==
  ASSUME NEW f \in Functions
  PROVE  Then(f) \in AnyStage /\ Then(f).op = "then" /\ Then(f).f = f
<1>1. Then(f) \in Stages("pool") /\ "pool" \in Types
  BY DEF Stages, Types
<1> QED
  BY <1>1 DEF AnyStage, Then

\* Any type has schedulers, and a scheduler has a type.
LEMMA SchedulerTypes ==
  /\ \A type : Of(type) \subseteq Schedulers
  /\ \A sch \in Schedulers : LocalScheduler(sch) \in Types /\ sch \in Of(LocalScheduler(sch))
BY DEF Of, Schedulers, LocalScheduler, Types

\* A value that is scheduled comes with the threads of that type.
LEMMA ScheduleFits ==
  ASSUME TypeOK, at \in Threads, NEW sch, NEW receivers,
         Schedule(sch, receivers), NEW type \in Types,
         sch \in Of(type) \/ (sch = "lazy" /\ type = "pool" /\ at \in Pooled)
  PROVE  /\ signal' \in [kind : {"none", "value", "error", "done"}, on : SUBSET Threads]
         /\ signal'.kind = "value" /\ Fits(signal'.on, type)
         /\ at' = "queued" \/ (at' = at /\ at \in signal'.on)
         /\ rest' = receivers /\ UNCHANGED <<frames, main, outcome>>
         /\ sch \in {"immediate", "local"} => at' = at \/ signal'.on = {Main}
<1>1. PICK on : /\ signal' = [kind |-> "value", on |-> on]
                /\ sch = "immediate" => on = Threads
                /\ sch \in {"pool", "lazy"} => on = Pooled
                /\ sch = "spread" => \E w \in Workers : on = {w}
                /\ sch = "local" => on = {Main}
  <2>1. sch \in {"immediate", "pool", "lazy", "spread", "local"}
    BY DEF Of, Schedulers
  <2> QED
    BY <2>1 DEF Schedule
<1>2. rest' = receivers /\ UNCHANGED <<frames, main, outcome>>
      /\ at' = IF sch \in {"immediate", "lazy"} THEN at ELSE "queued"
  BY DEF Schedule
<1>3. signal'.kind = "value" /\ signal'.on = on
  BY <1>1
<1>4. Fits(on, type) /\ on \subseteq Threads
  BY <1>1 DEF Fits, Of, Schedulers, LocalScheduler, Types, Threads
<1>5. at' = "queued" \/ (at' = at /\ at \in on)
  BY <1>1, <1>2 DEF Of, Schedulers, LocalScheduler, Types
<1>6. sch \in {"immediate", "local"} => at' = at \/ on = {Main}
  BY <1>1, <1>2
<1> QED
  BY <1>1, <1>2, <1>3, <1>4, <1>5, <1>6

----------------------------------------------------------------------------
(* What is left of a chain. *)

LEMMA ChainFacts ==
  ASSUME TypeOK
  PROVE  /\ chain \in Seq(AnyStage) /\ Len(chain) \in Nat \ {0}
         /\ \E types \in [1..Len(chain) -> Types] : Typed(chain, types)
BY ChainAssumption DEF TypeOK

\* The next stage is the function that was scheduled, or the next of the chain.
LEMMA SuffixHead ==
  ASSUME TypeOK, NEW p \in 0..Len(chain), NEW d \in {0, 1}, Suffix(p, d)
  PROVE  /\ d = 1 => rest # <<>> /\ Head(rest) = rest[1]
         /\ d = 0 => (rest = <<>> <=> p = Len(chain))
         /\ d = 0 /\ rest # <<>> => p + 1 \in 1..Len(chain) /\ Head(rest) = chain[p + 1]
<1>1. Len(chain) \in Nat /\ rest \in Seq(AnyStage)
  BY ChainFacts DEF TypeOK
<1>2. Len(rest) = Len(chain) - p + d /\ \A i \in 1..Len(chain) - p : rest[i + d] = chain[p + i]
  BY DEF Suffix
<1>3. rest # <<>> => Head(rest) = rest[1]
  BY <1>1
<1>4. rest = <<>> <=> Len(rest) = 0
  BY <1>1
<1>5. ASSUME d = 0, rest # <<>>
      PROVE  p + 1 \in 1..Len(chain) /\ rest[1] = chain[p + 1]
  <2>1. 1 \in 1..Len(chain) - p /\ p + 1 \in 1..Len(chain)
    BY <1>1, <1>2, <1>4, <1>5
  <2> QED
    BY <1>2, <1>5, <2>1
<1> QED
  BY <1>1, <1>2, <1>3, <1>4, <1>5

LEMMA SuffixTail ==
  ASSUME TypeOK, NEW p \in 0..Len(chain), NEW d \in {0, 1}, Suffix(p, d), rest # <<>>,
         chain' = chain, rest' = Tail(rest)
  PROVE  /\ Suffix(IF d = 1 THEN p ELSE p + 1, 0)'
         /\ rest' \in Seq(AnyStage)
<1>1. Len(chain) \in Nat /\ rest \in Seq(AnyStage)
  BY ChainFacts DEF TypeOK
<1>2. Len(rest) = Len(chain) - p + d /\ \A i \in 1..Len(chain) - p : rest[i + d] = chain[p + i]
  BY DEF Suffix
<1>3. Len(rest') = Len(rest) - 1 /\ \A i \in 1..Len(rest) - 1 : rest'[i] = rest[i + 1]
  BY <1>1
<1>4. CASE d = 1
  BY <1>1, <1>2, <1>3, <1>4 DEF Suffix
<1>5. CASE d = 0
  <2>1. \A i \in 1..Len(chain) - (p + 1) :
          rest'[i] = rest[i + 1] /\ i + 1 \in 1..Len(chain) - p /\ p + (i + 1) = (p + 1) + i
    BY <1>1, <1>2, <1>3, <1>5
  <2>2. \A i \in 1..Len(chain) - (p + 1) : rest'[i + 0] = chain[(p + 1) + i]
    BY <1>2, <1>5, <2>1
  <2> QED
    BY <1>1, <1>2, <1>3, <1>5, <2>2 DEF Suffix
<1>6. rest' \in Seq(AnyStage)
  BY <1>1
<1> QED
  BY <1>4, <1>5, <1>6

LEMMA SuffixThen ==
  ASSUME TypeOK, NEW p \in 0..Len(chain), Suffix(p, 0), rest # <<>>, NEW f \in Functions,
         chain' = chain, rest' = <<Then(f)>> \o Tail(rest)
  PROVE  /\ Suffix(p + 1, 1)' /\ rest'[1] = Then(f)
         /\ rest' \in Seq(AnyStage)
<1>1. Len(chain) \in Nat /\ rest \in Seq(AnyStage) /\ Then(f) \in AnyStage
  BY ChainFacts, ThenIsStage DEF TypeOK
<1>2. Len(rest) = Len(chain) - p /\ \A i \in 1..Len(chain) - p : rest[i] = chain[p + i]
  BY <1>1 DEF Suffix
<1>3. /\ Len(rest') = Len(rest) /\ rest'[1] = Then(f) /\ rest' \in Seq(AnyStage)
      /\ \A i \in 2..Len(rest) : rest'[i] = rest[i]
  BY <1>1
<1>4. \A i \in 1..Len(chain) - (p + 1) : i + 1 \in 2..Len(rest) /\ i + 1 \in 1..Len(chain) - p
                                         /\ p + (i + 1) = (p + 1) + i
  BY <1>1, <1>2
<1>5. \A i \in 1..Len(chain) - (p + 1) : rest'[i + 1] = chain[(p + 1) + i]
  BY <1>2, <1>3, <1>4
<1> QED
  BY <1>1, <1>2, <1>3, <1>5 DEF Suffix

----------------------------------------------------------------------------
(* The signals so far. *)

First == IF chain[1].op = "schedule" THEN chain[1].f ELSE chain[1].op

\* What stage p + 1 makes of what came before.
Makes(p, k, sigs, s) ==
  s = IF p = 0 THEN First ELSE Effect(sigs[p], chain[p + 1], p + 1 >= k)

LEMMA OneMore ==
  ASSUME NEW n \in Nat, NEW p \in 0..n - 1, NEW k \in Nat, NEW sigs \in [1..n -> Sigs],
         Made(p, sigs, k), NEW s \in Sigs, Makes(p, k, sigs, s)
  PROVE  \E more \in [1..n -> Sigs] : Made(p + 1, more, k) /\ more[p + 1] = s
<1> DEFINE more == [sigs EXCEPT ![p + 1] = s]
<1>1. more \in [1..n -> Sigs] /\ more[p + 1] = s
  OBVIOUS
<1>2. \A i \in 1..p : more[i] = sigs[i]
  OBVIOUS
<1>3. more[1] = First
  BY <1>1, <1>2 DEF Made, Makes, First
<1>4. ASSUME NEW i \in 2..p + 1
      PROVE  more[i] = Effect(more[i - 1], chain[i], i >= k)
  <2>1. CASE i = p + 1
    <3>1. i - 1 = p /\ p # 0 /\ p \in 1..p
      BY <1>4, <2>1
    <3> QED
      BY <1>1, <1>2, <2>1, <3>1 DEF Makes
  <2>2. CASE i # p + 1
    <3>1. i \in 2..p /\ i \in 1..p /\ i - 1 \in 1..p
      BY <1>4, <2>2
    <3> QED
      BY <1>2, <3>1 DEF Made
  <2> QED
    BY <2>1, <2>2
<1>5. Made(p + 1, more, k)
  BY <1>3, <1>4 DEF Made, First
<1> QED
  BY <1>1, <1>5

\* After a panic there is nothing else.
LEMMA PanicLasts ==
  ASSUME NEW n \in Nat, NEW p \in 1..n, NEW k \in Nat, NEW sigs \in [1..n -> Sigs],
         Made(p, sigs, k), sigs[p] = "panic"
  PROVE  \E all \in [1..n -> Sigs] : Made(n, all, k) /\ all[n] = "panic"
<1> DEFINE all == [i \in 1..n |-> IF i <= p THEN sigs[i] ELSE "panic"]
<1>1. all \in [1..n -> Sigs] /\ all[n] = "panic"
  BY DEF Sigs, Functions
<1>2. all[1] = First
  BY DEF Made, First
<1>3. ASSUME NEW i \in 2..n
      PROVE  all[i] = Effect(all[i - 1], chain[i], i >= k)
  <2>1. CASE i <= p
    <3>1. i \in 2..p /\ all[i] = sigs[i] /\ all[i - 1] = sigs[i - 1]
      BY <1>3, <2>1
    <3> QED
      BY <3>1 DEF Made
  <2>2. CASE i > p
    <3>1. all[i] = "panic" /\ all[i - 1] = "panic"
      BY <1>3, <2>2
    <3> QED
      BY <3>1 DEF Effect
  <2> QED
    BY <1>3, <2>1, <2>2
<1>4. Made(n, all, k)
  BY <1>2, <1>3 DEF Made, First
<1> QED
  BY <1>1, <1>4
----------------------------------------------------------------------------
(* How the signal gets on. *)

LEMMA ProgressFacts ==
  ASSUME TypeOK, NEW p, NEW d, NEW k, NEW sigs, NEW types, Progress(p, d, k, sigs, types)
  PROVE  /\ Len(chain) \in Nat \ {0} /\ p \in 0..Len(chain) /\ d \in {0, 1} /\ k \in Nat
         /\ sigs \in [1..Len(chain) -> Sigs] /\ Made(p, sigs, k)
         /\ p > 0 => sigs[p] \in Sigs /\ types[p] \in Types
<1>1. Len(chain) \in Nat \ {0}
  BY ChainFacts
<1>2. k \in Nat
  BY <1>1 DEF Progress, HeededFrom
<1>3. p \in 0..Len(chain) /\ (p > 0 => p \in 1..Len(chain))
  BY <1>1 DEF Progress
<1> QED
  BY <1>1, <1>2, <1>3 DEF Progress

\* The signals that are known may be extended as the stages do.
LEMMA NewProgress ==
  ASSUME TypeOK, NEW p, NEW d, NEW k, NEW sigs, NEW types, Progress(p, d, k, sigs, types),
         NEW q \in p..Len(chain), NEW e \in {0, 1}, NEW more \in [1..Len(chain) -> Sigs],
         Made(q, more, k), UNCHANGED <<chain, end, early, stopped>>,
         at' \in Threads \cup {"queued"} => Underway(q, e, more, types)',
         at' = "gone" => q = Len(chain) /\ Out(more[q])'
  PROVE  ProgressInv'
<1>1. Len(chain) \in Nat /\ p \in 0..Len(chain) /\ k \in Nat
  BY ProgressFacts
<1>2. q \in 0..Len(chain) /\ (k <= p + 1 => k <= q + 1)
  BY <1>1
<1>3. /\ HeededFrom' = HeededFrom /\ Made(q, more, k)'
      /\ types \in [1..Len(chain) -> Types] /\ Typed(chain, types)
      /\ k \in HeededFrom /\ (stopped => k <= p + 1)
  BY DEF HeededFrom, Made, Progress
<1>4. Progress(q, e, k, more, types)'
  BY <1>2, <1>3 DEF Progress
<1> QED
  BY <1>4 DEF ProgressInv

\* The next stage makes s, or its function that is scheduled is to make it.
LEMMA Advance ==
  ASSUME TypeOK, NEW p, NEW k, NEW sigs, NEW types, Progress(p, 0, k, sigs, types),
         p < Len(chain), NEW e \in {0, 1}, NEW s \in Sigs, Makes(p, k, sigs, s),
         UNCHANGED <<chain, end, early, stopped>>,
         at' \in Threads \cup {"queued"}, at' = "queued" => e = 1, Suffix(p + 1, e)',
         e = 0 => signal'.kind = s,
         e = 1 => signal'.kind = "value" /\ rest'[1] = Then(s) /\ s \in Functions,
         signal'.kind = "value" => /\ Fits(signal'.on, types[p + 1])
                                   /\ at' \in Threads => at' \in signal'.on
  PROVE  ProgressInv'
<1>1. /\ Len(chain) \in Nat /\ p \in 0..Len(chain) - 1 /\ k \in Nat
      /\ sigs \in [1..Len(chain) -> Sigs] /\ Made(p, sigs, k)
  BY ProgressFacts
<1>2. PICK more \in [1..Len(chain) -> Sigs] : Made(p + 1, more, k) /\ more[p + 1] = s
  BY <1>1, OneMore
<1>3. at' # "gone"
  BY ChainAssumption DEF Elsewhere
<1>4. Fits(signal'.on, types[p + 1]) => Fits(signal.on, types[p + 1])'
  BY DEF Fits
<1>5. p + 1 \in p..Len(chain) /\ p + 1 > 0
  BY <1>1
<1>6. Underway(p + 1, e, more, types)'
  BY <1>2, <1>4, <1>5 DEF Underway
<1> QED
  BY <1>2, <1>3, <1>5, <1>6, NewProgress

\* The function that was scheduled returns.
LEMMA Called ==
  ASSUME TypeOK, NEW p, NEW k, NEW sigs, NEW types, Progress(p, 1, k, sigs, types),
         at \in Threads, UNCHANGED <<chain, end, early, stopped, at>>, Suffix(p, 0)',
         signal'.kind = sigs[p], signal'.on = signal.on
  PROVE  ProgressInv'
<1>1. /\ Len(chain) \in Nat /\ p \in 0..Len(chain) /\ k \in Nat
      /\ sigs \in [1..Len(chain) -> Sigs] /\ Made(p, sigs, k)
  BY ProgressFacts
<1>2. at' # "gone" /\ at' # "queued"
  BY ChainAssumption DEF Elsewhere
<1>3. Underway(p, 1, sigs, types)
  BY DEF Progress
<1>4. Fits(signal.on, types[p]) => Fits(signal.on, types[p])'
  BY DEF Fits
<1>5. Underway(p, 0, sigs, types)'
  BY <1>2, <1>3, <1>4 DEF Underway, Fits
<1>6. p \in p..Len(chain)
  BY <1>1
<1> QED
  BY <1>1, <1>2, <1>5, <1>6, NewProgress

\* A function panics, in a stage or when it was scheduled.
LEMMA Dies ==
  ASSUME TypeOK, MainInv, NEW p, NEW d, NEW k, NEW sigs, NEW types,
         Progress(p, d, k, sigs, types), at \in Threads,
         UNCHANGED <<chain, end, early, stopped>>, Panic,
         \/ d = 0 /\ p < Len(chain) /\ Makes(p, k, sigs, "panic")
         \/ d = 1 /\ sigs[p] = "panic"
  PROVE  ProgressInv'
<1>1. /\ Len(chain) \in Nat \ {0} /\ p \in 0..Len(chain) /\ k \in Nat
      /\ sigs \in [1..Len(chain) -> Sigs] /\ Made(p, sigs, k)
  BY ProgressFacts
<1>2. PICK q \in p..Len(chain), more \in [1..Len(chain) -> Sigs] :
        q > 0 /\ Made(q, more, k) /\ more[q] = "panic"
  <2>1. CASE d = 0 /\ p < Len(chain) /\ Makes(p, k, sigs, "panic")
    <3>1. p \in 0..Len(chain) - 1 /\ p + 1 \in p..Len(chain) /\ p + 1 > 0 /\ "panic" \in Sigs
      BY <1>1, <2>1 DEF Sigs, Functions
    <3>2. PICK more \in [1..Len(chain) -> Sigs] : Made(p + 1, more, k) /\ more[p + 1] = "panic"
      BY <1>1, <2>1, <3>1, OneMore
    <3> QED
      BY <3>1, <3>2
  <2>2. CASE d = 1 /\ sigs[p] = "panic"
    <3>1. p > 0
      BY <2>2 DEF Progress, Underway
    <3> QED
      BY <1>1, <2>2, <3>1
  <2> QED
    BY <2>1, <2>2
<1>3. PICK all \in [1..Len(chain) -> Sigs] : Made(Len(chain), all, k) /\ all[Len(chain)] = "panic"
  <2>1. q \in 1..Len(chain)
    BY <1>1, <1>2
  <2> QED
    BY <1>1, <1>2, <2>1, PanicLasts
<1>4. at' = "gone" /\ at' \notin Threads \cup {"queued"}
  BY ChainAssumption DEF Panic, Elsewhere, Threads
<1>5. Out("panic")'
  BY DEF Panic, Out, Result, Detached, MainInv
<1>6. Len(chain) \in p..Len(chain) /\ 0 \in {0, 1}
  BY <1>1
<1> QED
  BY <1>3, <1>4, <1>5, <1>6, NewProgress

\* The signal is where it was, or is taken from a queue.
LEMMA Unmoved ==
  ASSUME TypeOK, ProgressInv, UNCHANGED <<chain, end, early, stopped, signal, rest>>,
         at' \in Threads \cup {"queued"} => /\ at \in Threads \cup {"queued"}
                                            /\ at' = at \/ at' \in Threads \cap signal.on,
         at' = "gone" => at = "gone" /\ \A sig \in Sigs : Out(sig) => Out(sig)'
  PROVE  ProgressInv'
<1> PICK p, d, k, sigs, types : Progress(p, d, k, sigs, types)
  BY DEF ProgressInv
<1>1. /\ Len(chain) \in Nat \ {0} /\ p \in 0..Len(chain) /\ k \in Nat /\ d \in {0, 1}
      /\ sigs \in [1..Len(chain) -> Sigs] /\ Made(p, sigs, k) /\ (p > 0 => sigs[p] \in Sigs)
  BY ProgressFacts
<1>2. at' = "gone" => p = Len(chain) /\ Out(sigs[p])'
  BY <1>1 DEF Progress
<1>3. ASSUME at' \in Threads \cup {"queued"}
      PROVE  Underway(p, d, sigs, types)'
  <2>1. Underway(p, d, sigs, types)
    BY <1>3 DEF Progress
  <2>2. at' = "queued" => at = "queued"
    BY ChainAssumption DEF Elsewhere
  <2>3. Suffix(p, d)'
    BY <2>1 DEF Underway, Suffix
  <2>4. Fits(signal.on, types[p]) => Fits(signal.on, types[p])'
    BY DEF Fits
  <2>5. at' \in Threads => at' \in signal.on \/ at \in Threads
    BY <1>3, ChainAssumption DEF Elsewhere
  <2> QED
    BY <1>3, <2>1, <2>2, <2>3, <2>4, <2>5 DEF Underway, Fits
<1>4. p \in p..Len(chain)
  BY <1>1
<1> QED
  BY <1>1, <1>2, <1>3, <1>4, NewProgress

----------------------------------------------------------------------------
(* The stages. *)

\* The thread with the signal is to call a function that was scheduled, or to start the
\* source, or is at a stage with what the stages before it have made.
LEMMA AtStage ==
  ASSUME TypeOK, ProgressInv, at \in Threads, rest # <<>>
  PROVE  \E p, d, k, sigs, types :
           /\ Progress(p, d, k, sigs, types)
           /\ \/ /\ d = 1 /\ p > 0 /\ sigs[p] \in Functions
                 /\ Head(rest) = Then(sigs[p]) /\ signal.kind = "value"
              \/ /\ d = 0 /\ p = 0 /\ p < Len(chain)
                 /\ Head(rest) = chain[p + 1] /\ chain[p + 1] \in Sources(types[p + 1])
                 /\ types[p + 1] \in Types
              \/ /\ d = 0 /\ p > 0 /\ p < Len(chain) /\ p + 1 > 1
                 /\ Head(rest) = chain[p + 1] /\ chain[p + 1] \in Stages(types[p])
                 /\ types[p] \in Types /\ types[p + 1] = TypeAfter(chain[p + 1], types[p])
                 /\ types[p + 1] \in Types
                 /\ signal.kind = sigs[p] /\ sigs[p] \in {"value", "error", "done"}
                 /\ signal.kind = "value" => Fits(signal.on, types[p]) /\ at \in signal.on
<1> PICK p, d, k, sigs, types : Progress(p, d, k, sigs, types)
  BY DEF ProgressInv
<1>1. /\ Len(chain) \in Nat \ {0} /\ p \in 0..Len(chain) /\ d \in {0, 1}
      /\ sigs \in [1..Len(chain) -> Sigs] /\ (p > 0 => sigs[p] \in Sigs /\ types[p] \in Types)
  BY ProgressFacts
<1>2. Underway(p, d, sigs, types)
  BY DEF Progress
<1>3. Suffix(p, d)
  BY <1>2 DEF Underway
<1>4. CASE d = 1
  <2>1. p > 0 /\ signal.kind = "value" /\ rest[1] = Then(sigs[p]) /\ Head(rest) = rest[1]
    BY <1>1, <1>2, <1>3, <1>4, SuffixHead DEF Underway
  <2>2. sigs[p] \in Functions
    BY <1>2, <1>4 DEF Underway
  <2> QED
    BY <1>4, <2>1, <2>2
<1>5. CASE d = 0
  <2>1. p + 1 \in 1..Len(chain) /\ Head(rest) = chain[p + 1] /\ p < Len(chain)
    BY <1>1, <1>3, <1>5, SuffixHead
  <2>2. types[p + 1] \in Types /\ Typed(chain, types)
    BY <2>1 DEF Progress
  <2>3. CASE p = 0
    BY <1>5, <2>1, <2>2, <2>3 DEF Typed
  <2>4. CASE p > 0
    <3>1. p + 1 \in 2..Len(chain) /\ p + 1 > 1 /\ (p + 1) - 1 = p
      BY <1>1, <2>1, <2>4
    <3>2. Joins(chain[p + 1], types[p], types[p + 1])
      BY <2>2, <3>1 DEF Typed
    <3>3. /\ signal.kind = sigs[p]
          /\ signal.kind = "value" => Fits(signal.on, types[p]) /\ at \in signal.on
      BY <1>2, <1>5, <2>4 DEF Underway
    <3>4. sigs[p] \in {"value", "error", "done"}
      BY <1>1, <2>4, <3>3 DEF TypeOK, Sigs, Functions
    <3> QED
      BY <1>1, <1>5, <2>1, <2>2, <2>4, <3>1, <3>2, <3>3, <3>4 DEF Joins
  <2> QED
    BY <1>1, <2>3, <2>4
<1> QED
  BY <1>1, <1>4, <1>5

\* A stage that sends its signal on, or has it scheduled, moves nothing else.
LEMMA StageKeeps ==
  ASSUME ChainInv, at \in Threads, ProgressInv',
         UNCHANGED <<chain, end, early, stopped, frames, main, outcome>>,
         at' = at \/ (at' = "queued" /\ (end = "sync_wait" => signal'.on = {Main})),
         signal' \in [kind : {"none", "value", "error", "done"}, on : SUBSET Threads],
         rest' \in Seq(AnyStage)
  PROVE  ChainInv'
<1> USE DEF ChainInv
<1>1. at' \in Threads \cup Elsewhere
  BY DEF Elsewhere
<1>2. TypeOK'
  BY <1>1 DEF TypeOK
<1>3. MainInv'
  <2>1. (early => stopped) /\ UNCHANGED <<early, stopped>>
    BY DEF MainInv
  <2>2. at \notin Elsewhere /\ "queued" \notin Threads /\ Main \in Threads
    BY ChainAssumption DEF Elsewhere, Threads
  <2>3. (early => stopped)'
    BY <2>1
  <2> QED
    BY <2>2, <2>3 DEF MainInv, Detached, Elsewhere
<1>4. StayInv'
  BY ChainAssumption DEF StayInv, Stays, Elsewhere
<1> QED
  BY <1>2, <1>3, <1>4

LEMMA PanicKeeps ==
  ASSUME ChainInv, at \in Threads, ProgressInv', Panic, UNCHANGED <<chain, end, early, stopped>>
  PROVE  ChainInv'
<1> USE DEF ChainInv
<1>1. at' = "gone" /\ at' \notin Threads /\ at' \in Elsewhere
  BY ChainAssumption DEF Panic, Elsewhere
<1>2. /\ rest' \in Seq(AnyStage)
      /\ signal' \in [kind : {"none", "value", "error", "done"}, on : SUBSET Threads]
      /\ frames' \subseteq Threads
  BY DEF Panic, TypeOK
<1>3. /\ outcome' \in {"aborted", "panic", outcome}
      /\ main' \in {"leaving", main}
  BY DEF Panic
<1>4. TypeOK'
  BY <1>1, <1>2, <1>3 DEF TypeOK
<1>5. MainInv'
  <2>1. (early => stopped) /\ UNCHANGED <<early, stopped>>
    BY DEF MainInv
  <2>2. (early => stopped)'
    BY <2>1
  <2>3. Main \in Threads
    BY DEF Threads
  <2>4. at \notin {"gone", "lost"}
    BY ChainAssumption DEF Elsewhere
  <2>5. main \in {"starting", "receiving", "leaving", "returned"}
    BY DEF TypeOK
  <2> QED
    BY <1>1, <2>2, <2>3, <2>4, <2>5 DEF MainInv, Detached, Panic
<1>6. StayInv'
  BY <1>1 DEF StayInv, Stays
<1> QED
  BY <1>4, <1>5, <1>6

\* A stage, or the source, whose signal is scheduled with a function behind it.
LEMMA Schedules ==
  ASSUME ChainInv, at \in Threads, rest # <<>>, UNCHANGED <<chain, end, early, stopped>>,
         NEW p, NEW k, NEW sigs, NEW types, Progress(p, 0, k, sigs, types), p < Len(chain),
         NEW f \in Functions, NEW sch, Schedule(sch, <<Then(f)>> \o Tail(rest)),
         Makes(p, k, sigs, f), types[p + 1] \in Types,
         \/ sch \in Of(types[p + 1])
         \/ sch = "lazy" /\ types[p + 1] = "pool" /\ at \in Pooled,
         end = "sync_wait" => sch \in {"immediate", "local"}
  PROVE  ChainInv'
<1>1. TypeOK /\ p \in 0..Len(chain) /\ Suffix(p, 0)
  BY ProgressFacts DEF ChainInv, Progress, Underway
<1>2. /\ signal' \in [kind : {"none", "value", "error", "done"}, on : SUBSET Threads]
      /\ signal'.kind = "value" /\ Fits(signal'.on, types[p + 1])
      /\ at' = "queued" \/ (at' = at /\ at \in signal'.on)
      /\ rest' = <<Then(f)>> \o Tail(rest) /\ UNCHANGED <<frames, main, outcome>>
      /\ sch \in {"immediate", "local"} => at' = at \/ signal'.on = {Main}
  BY <1>1, ScheduleFits
<1>3. Suffix(p + 1, 1)' /\ rest'[1] = Then(f) /\ rest' \in Seq(AnyStage)
  BY <1>1, <1>2, SuffixThen
<1>4. f \in Sigs /\ "queued" \notin Threads
  BY ChainAssumption DEF Sigs, Elsewhere
<1>5. ProgressInv'
  BY <1>1, <1>2, <1>3, <1>4, Advance
<1> QED
  BY <1>2, <1>3, <1>5, StageKeeps

\* A stage, or the source, that calls the next one.
LEMMA SendsOn ==
  ASSUME ChainInv, at \in Threads, rest # <<>>, UNCHANGED <<chain, end, early, stopped>>,
         NEW p, NEW k, NEW sigs, NEW types, Progress(p, 0, k, sigs, types), p < Len(chain),
         NEW s \in {"value", "error", "done"}, Makes(p, k, sigs, s),
         UNCHANGED <<at, frames, main, outcome>>, rest' = Tail(rest),
         signal' \in [kind : {"none", "value", "error", "done"}, on : SUBSET Threads],
         signal'.kind = s,
         s = "value" => Fits(signal'.on, types[p + 1]) /\ at \in signal'.on
  PROVE  ChainInv'
<1>1. TypeOK /\ p \in 0..Len(chain) /\ Suffix(p, 0)
  BY ProgressFacts DEF ChainInv, Progress, Underway
<1>2. Suffix(p + 1, 0)' /\ rest' \in Seq(AnyStage)
  BY <1>1, SuffixTail
<1>3. s \in Sigs /\ at # "queued"
  BY ChainAssumption DEF Sigs, Functions, Elsewhere
<1>4. ProgressInv'
  BY <1>1, <1>2, <1>3, Advance
<1> QED
  BY <1>2, <1>4, StageKeeps

\* The source, or the chain that a let stage has made: a scheduled value, or at once an
\* error or done.
LEMMA Begins ==
  ASSUME ChainInv, at \in Threads, rest # <<>>, UNCHANGED <<chain, end, early, stopped>>,
         NEW p, NEW k, NEW sigs, NEW types, Progress(p, 0, k, sigs, types), p < Len(chain),
         types[p + 1] \in Types, NEW source, Begin(source, Tail(rest)),
         \/ source.op = "schedule" /\ source.f \in Functions /\ source.sch \in Of(types[p + 1])
         \/ source.op \in {"error", "done"},
         Makes(p, k, sigs, IF source.op = "schedule" THEN source.f ELSE source.op),
         end = "sync_wait" /\ source.op = "schedule" => source.sch \in {"immediate", "local"}
  PROVE  ChainInv'
<1>1. CASE source.op = "schedule"
  <2>1. Schedule(source.sch, <<Then(source.f)>> \o Tail(rest)) /\ source.f \in Functions
    BY <1>1 DEF Begin
  <2> QED
    BY <1>1, <2>1, Schedules
<1>2. CASE source.op \in {"error", "done"}
  <2>1. /\ signal' = [kind |-> source.op, on |-> {}]
        /\ rest' = Tail(rest) /\ UNCHANGED <<at, frames, main, outcome>>
    BY <1>2 DEF Begin
  <2>2. /\ signal' \in [kind : {"none", "value", "error", "done"}, on : SUBSET Threads]
        /\ signal'.kind = source.op
    BY <1>2, <2>1
  <2> QED
    BY <1>2, <2>1, <2>2, SendsOn
<1> QED
  BY <1>1, <1>2

LEMMA StartKeeps ==
  ASSUME ChainInv, Start
  PROVE  ChainInv'
<1>1. /\ at \in Threads /\ rest # <<>> /\ Head(rest).op \in {"schedule", "error", "done"}
      /\ Begin(Head(rest), Tail(rest)) /\ UNCHANGED <<chain, end, early, stopped>>
      /\ TypeOK /\ ProgressInv
  BY DEF Start, At, fixed, ChainInv
<1>2. PICK p, d, k, sigs, types :
        /\ Progress(p, d, k, sigs, types) /\ d = 0 /\ p = 0 /\ p < Len(chain)
        /\ Head(rest) = chain[p + 1] /\ chain[p + 1] \in Sources(types[p + 1])
        /\ types[p + 1] \in Types
  BY <1>1, AtStage, StageKinds, ThenIsStage
<1> DEFINE source == chain[p + 1]
<1>3. \/ /\ source.op = "schedule" /\ source.sch \in Of(types[p + 1])
         /\ source.f \in {"value", "error"}
      \/ source.op \in {"error", "done"}
  BY <1>2, SourceKinds
<1>4. Makes(p, k, sigs, IF source.op = "schedule" THEN source.f ELSE source.op)
  BY <1>2 DEF Makes, First
<1>5. end = "sync_wait" /\ source.op = "schedule" => source.sch \in {"immediate", "local"}
  BY <1>1, <1>2, ChainFacts DEF ChainInv, StayInv, Stays
<1>6. {"value", "error"} \subseteq Functions
  BY DEF Functions
<1> QED
  BY <1>1, <1>2, <1>3, <1>4, <1>5, <1>6, Begins

\* The stages behind the source, with what came to them.
LEMMA AtLaterStage ==
  ASSUME ChainInv, at \in Threads, rest # <<>>, Head(rest).op \notin {"schedule", "error", "done"}
  PROVE  \E p, d, k, sigs, types :
           /\ Progress(p, d, k, sigs, types)
           /\ \/ /\ d = 1 /\ p > 0 /\ sigs[p] \in Functions
                 /\ Head(rest) = Then(sigs[p]) /\ signal.kind = "value"
              \/ /\ d = 0 /\ p > 0 /\ p < Len(chain) /\ p + 1 > 1
                 /\ Head(rest) = chain[p + 1] /\ chain[p + 1] \in Stages(types[p])
                 /\ types[p] \in Types /\ types[p + 1] = TypeAfter(chain[p + 1], types[p])
                 /\ types[p + 1] \in Types
                 /\ signal.kind = sigs[p] /\ sigs[p] \in {"value", "error", "done"}
                 /\ signal.kind = "value" => Fits(signal.on, types[p]) /\ at \in signal.on
<1>1. TypeOK /\ ProgressInv
  BY DEF ChainInv
<1> QED
  BY <1>1, AtStage, SourceKinds

LEMMA PassesKeeps ==
  ASSUME ChainInv, Passes
  PROVE  ChainInv'
<1>1. /\ at \in Threads /\ rest # <<>> /\ Head(rest).op \notin {"schedule", "error", "done"}
      /\ signal.kind # Handles(Head(rest)) /\ UNCHANGED <<chain, end, early, stopped>>
      /\ signal' = [signal EXCEPT !.kind = signal.kind] /\ rest' = Tail(rest)
      /\ UNCHANGED <<at, frames, main, outcome>> /\ TypeOK
  BY DEF Passes, At, Continue, fixed, ChainInv
<1>2. \A f \in Functions : Handles(Then(f)) = "value"
  BY DEF Handles, Then
<1>3. PICK p, k, sigs, types :
        /\ Progress(p, 0, k, sigs, types) /\ p > 0 /\ p < Len(chain)
        /\ Head(rest) = chain[p + 1] /\ chain[p + 1] \in Stages(types[p])
        /\ types[p] \in Types /\ types[p + 1] = TypeAfter(chain[p + 1], types[p])
        /\ signal.kind = sigs[p] /\ sigs[p] \in {"value", "error", "done"}
        /\ signal.kind = "value" => Fits(signal.on, types[p]) /\ at \in signal.on
  BY <1>1, <1>2, AtLaterStage
<1>4. Makes(p, k, sigs, sigs[p])
  <2>1. Effect(sigs[p], chain[p + 1], p + 1 >= k) = sigs[p]
    BY <1>1, <1>3, StageKinds DEF Effect, Handles
  <2> QED
    BY <1>3, <2>1 DEF Makes
<1>5. signal.kind = "value" => types[p + 1] = types[p]
  BY <1>1, <1>3 DEF TypeAfter, Handles
<1>6. /\ signal' = signal
      /\ signal \in [kind : {"none", "value", "error", "done"}, on : SUBSET Threads]
  BY <1>1 DEF TypeOK
<1> QED
  BY <1>1, <1>3, <1>4, <1>5, <1>6, SendsOn

LEMMA InvokesKeeps ==
  ASSUME ChainInv, ThenInvokes
  PROVE  ChainInv'
<1>1. /\ at \in Threads /\ rest # <<>> /\ Head(rest).op = "then" /\ signal.kind = "value"
      /\ Invoke(Head(rest).f) /\ UNCHANGED <<chain, end, early, stopped>>
      /\ TypeOK /\ MainInv
  BY DEF ThenInvokes, Handled, Handles, At, fixed, ChainInv
<1>2. PICK p, d, k, sigs, types :
        /\ Progress(p, d, k, sigs, types)
        /\ \/ /\ d = 1 /\ p > 0 /\ sigs[p] \in Functions
              /\ Head(rest) = Then(sigs[p]) /\ signal.kind = "value"
           \/ /\ d = 0 /\ p > 0 /\ p < Len(chain)
              /\ Head(rest) = chain[p + 1] /\ chain[p + 1] \in Stages(types[p])
              /\ types[p] \in Types /\ types[p + 1] = TypeAfter(chain[p + 1], types[p])
              /\ signal.kind = sigs[p]
              /\ signal.kind = "value" => Fits(signal.on, types[p]) /\ at \in signal.on
  BY <1>1, AtLaterStage
<1> DEFINE f == Head(rest).f
<1>3. f \in Functions /\ (d = 1 => f = sigs[p])
      /\ (d = 0 => Makes(p, k, sigs, f) /\ types[p + 1] = types[p])
  <2>1. CASE d = 1
    BY <1>2, <2>1, ThenIsStage
  <2>2. CASE d = 0
    <3>1. f \in Functions
      BY <1>1, <1>2, <2>2, StageKinds
    <3>2. Makes(p, k, sigs, f)
      BY <1>1, <1>2, <2>2, <3>1 DEF Makes, Effect
    <3> QED
      BY <1>1, <1>2, <2>2, <3>1, <3>2 DEF TypeAfter
  <2> QED
    BY <1>2, <2>1, <2>2
<1>4. CASE f = "panic"
  <2>1. Panic
    BY <1>1, <1>4 DEF Invoke
  <2>2. ProgressInv'
    BY <1>1, <1>2, <1>3, <1>4, <2>1, Dies
  <2> QED
    BY <1>1, <2>1, <2>2, PanicKeeps
<1>5. CASE f # "panic"
  <2>1. /\ signal' = [signal EXCEPT !.kind = f] /\ rest' = Tail(rest)
        /\ UNCHANGED <<at, frames, main, outcome>> /\ f \in {"value", "error"}
    BY <1>1, <1>3, <1>5 DEF Invoke, Continue, Functions
  <2>2. /\ signal' \in [kind : {"none", "value", "error", "done"}, on : SUBSET Threads]
        /\ signal'.kind = f /\ signal'.on = signal.on
    BY <1>1, <2>1 DEF TypeOK
  <2>3. CASE d = 1
    <3>1. p \in 0..Len(chain) /\ Suffix(p, 1)
      BY <1>1, <1>2, <2>3, ProgressFacts DEF Progress, Underway
    <3>2. Suffix(p, 0)' /\ rest' \in Seq(AnyStage)
      BY <1>1, <2>1, <3>1, SuffixTail
    <3>3. ProgressInv'
      BY <1>1, <1>2, <1>3, <2>1, <2>2, <2>3, <3>2, Called
    <3> QED
      BY <1>1, <2>1, <2>2, <3>2, <3>3, StageKeeps
  <2>4. CASE d = 0
    BY <1>1, <1>2, <1>3, <2>1, <2>2, <2>4, SendsOn
  <2> QED
    BY <1>2, <2>3, <2>4
<1> QED
  BY <1>4, <1>5

\* A stage that handles its signal, and is not a function that was scheduled.
LEMMA AtHandler ==
  ASSUME ChainInv, NEW ops, Handled(ops), ops \cap {"schedule", "error", "done", "then"} = {}
  PROVE  /\ at \in Threads /\ rest # <<>> /\ UNCHANGED <<chain, end, early, stopped>>
         /\ signal.kind = Handles(Head(rest)) /\ Head(rest).op \in ops
         /\ TypeOK /\ MainInv /\ StayInv
         /\ \E p, k, sigs, types :
              /\ Progress(p, 0, k, sigs, types)
              /\ p > 0 /\ p < Len(chain) /\ p + 1 \in 1..Len(chain)
              /\ Head(rest) = chain[p + 1] /\ chain[p + 1] \in Stages(types[p])
              /\ types[p] \in Types /\ types[p + 1] = TypeAfter(chain[p + 1], types[p])
              /\ types[p + 1] \in Types /\ signal.kind = sigs[p]
              /\ signal.kind = "value" => Fits(signal.on, types[p]) /\ at \in signal.on
<1>1. /\ at \in Threads /\ rest # <<>> /\ UNCHANGED <<chain, end, early, stopped>>
      /\ signal.kind = Handles(Head(rest)) /\ Head(rest).op \in ops
      /\ TypeOK /\ MainInv /\ StayInv
  BY DEF Handled, At, fixed, ChainInv
<1>2. PICK p, d, k, sigs, types :
        /\ Progress(p, d, k, sigs, types)
        /\ \/ d = 1 /\ sigs[p] \in Functions /\ Head(rest) = Then(sigs[p])
           \/ /\ d = 0 /\ p > 0 /\ p < Len(chain)
              /\ Head(rest) = chain[p + 1] /\ chain[p + 1] \in Stages(types[p])
              /\ types[p] \in Types /\ types[p + 1] = TypeAfter(chain[p + 1], types[p])
              /\ types[p + 1] \in Types /\ signal.kind = sigs[p]
              /\ signal.kind = "value" => Fits(signal.on, types[p]) /\ at \in signal.on
  BY <1>1, AtLaterStage
<1>3. d = 0
  BY <1>1, <1>2, ThenIsStage
<1>4. p + 1 \in 1..Len(chain)
  <2>1. Len(chain) \in Nat /\ p \in 0..Len(chain)
    BY <1>1, <1>2, ProgressFacts
  <2> QED
    BY <1>2, <1>3, <2>1
<1> QED
  BY <1>1, <1>2, <1>3, <1>4

LEMMA UponKeeps ==
  ASSUME ChainInv, UponSchedules
  PROVE  ChainInv'
<1>1. Handled({"upon_error", "upon_done"})
      /\ Schedule(Head(rest).sch, <<Then(Head(rest).f)>> \o Tail(rest))
  BY DEF UponSchedules
<1>2. /\ at \in Threads /\ rest # <<>> /\ UNCHANGED <<chain, end, early, stopped>>
      /\ signal.kind = Handles(Head(rest)) /\ Head(rest).op \in {"upon_error", "upon_done"}
      /\ StayInv
  BY <1>1, AtHandler
<1>3. PICK p, k, sigs, types :
        /\ Progress(p, 0, k, sigs, types) /\ p > 0 /\ p < Len(chain) /\ p + 1 \in 1..Len(chain)
        /\ Head(rest) = chain[p + 1] /\ chain[p + 1] \in Stages(types[p])
        /\ types[p] \in Types /\ types[p + 1] = TypeAfter(chain[p + 1], types[p])
        /\ types[p + 1] \in Types /\ signal.kind = sigs[p]
  BY <1>1, AtHandler
<1> DEFINE stage == chain[p + 1]
<1>4. stage.sch \in Of(types[p + 1]) /\ stage.f \in Functions
  BY <1>2, <1>3, StageKinds DEF TypeAfter
<1>5. Makes(p, k, sigs, stage.f)
  BY <1>2, <1>3 DEF Makes, Effect, Handles
<1>6. end = "sync_wait" => stage.sch \in {"immediate", "local"}
  BY <1>2, <1>3 DEF StayInv, Stays
<1> QED
  BY <1>1, <1>2, <1>3, <1>4, <1>5, <1>6, Schedules

LEMMA LetKeeps ==
  ASSUME ChainInv, LetStarts
  PROVE  ChainInv'
<1> DEFINE second == Head(rest).second
<1>1. Handled({"let_error", "let_done"})
      /\ IF second.op = "panic" THEN Panic ELSE Begin(second, Tail(rest))
  BY DEF LetStarts
<1>2. /\ at \in Threads /\ rest # <<>> /\ UNCHANGED <<chain, end, early, stopped>>
      /\ signal.kind = Handles(Head(rest)) /\ Head(rest).op \in {"let_error", "let_done"}
      /\ TypeOK /\ MainInv /\ StayInv
  BY <1>1, AtHandler
<1>3. PICK p, k, sigs, types :
        /\ Progress(p, 0, k, sigs, types) /\ p > 0 /\ p < Len(chain) /\ p + 1 \in 1..Len(chain)
        /\ Head(rest) = chain[p + 1] /\ chain[p + 1] \in Stages(types[p])
        /\ types[p] \in Types /\ types[p + 1] = TypeAfter(chain[p + 1], types[p])
        /\ types[p + 1] \in Types /\ signal.kind = sigs[p]
  BY <1>1, AtHandler
<1>4. second \in Seconds(types[p]) /\ types[p + 1] = types[p]
  BY <1>2, <1>3, StageKinds DEF TypeAfter
<1>5. \/ second.op = "schedule" /\ second.sch \in Of(types[p + 1]) /\ second.f = "value"
      \/ second.op \in {"done", "error", "panic"}
  BY <1>3, <1>4, SecondKinds
<1>6. Makes(p, k, sigs, IF second.op = "schedule" THEN second.f ELSE second.op)
  BY <1>2, <1>3 DEF Makes, Effect, Handles
<1>7. CASE second.op = "panic"
  <2>1. Panic /\ Makes(p, k, sigs, "panic")
    BY <1>1, <1>6, <1>7
  <2>2. ProgressInv'
    BY <1>2, <1>3, <2>1, Dies
  <2> QED
    BY <1>2, <2>1, <2>2, PanicKeeps
<1>8. CASE second.op # "panic"
  <2>1. Begin(second, Tail(rest)) /\ "value" \in Functions
    BY <1>1, <1>8 DEF Functions
  <2>2. end = "sync_wait" /\ second.op = "schedule" => second.sch \in {"immediate", "local"}
    BY <1>2, <1>3 DEF StayInv, Stays
  <2> QED
    BY <1>2, <1>3, <1>5, <1>6, <1>8, <2>1, <2>2, Begins
<1> QED
  BY <1>7, <1>8

LEMMA TransferKeeps ==
  ASSUME ChainInv, TransferSchedules
  PROVE  ChainInv'
<1>1. Handled({"transfer"}) /\ Schedule(Head(rest).sch, <<Then("value")>> \o Tail(rest))
  BY DEF TransferSchedules
<1>2. /\ at \in Threads /\ rest # <<>> /\ UNCHANGED <<chain, end, early, stopped>>
      /\ signal.kind = "value" /\ Head(rest).op = "transfer" /\ StayInv
  BY <1>1, AtHandler DEF Handles
<1>3. PICK p, k, sigs, types :
        /\ Progress(p, 0, k, sigs, types) /\ p > 0 /\ p < Len(chain) /\ p + 1 \in 1..Len(chain)
        /\ Head(rest) = chain[p + 1] /\ chain[p + 1] \in Stages(types[p])
        /\ types[p] \in Types /\ types[p + 1] = TypeAfter(chain[p + 1], types[p])
        /\ types[p + 1] \in Types /\ signal.kind = sigs[p]
        /\ signal.kind = "value" => Fits(signal.on, types[p]) /\ at \in signal.on
  BY <1>1, AtHandler
<1> DEFINE stage == chain[p + 1]
<1>4. stage.sch \in Schedulers \/ (stage.sch = "lazy" /\ types[p] = "pool")
  BY <1>2, <1>3, StageKinds
<1>5. \/ stage.sch \in Of(types[p + 1])
      \/ stage.sch = "lazy" /\ types[p + 1] = "pool" /\ at \in Pooled
  <2>1. CASE stage.sch = "lazy"
    <3>1. types[p] = "pool" /\ types[p + 1] = "pool"
      BY <1>2, <1>3, <1>4, <2>1 DEF Schedulers, TypeAfter
    <3> QED
      BY <1>2, <1>3, <2>1, <3>1 DEF Fits
  <2>2. CASE stage.sch # "lazy"
    BY <1>2, <1>3, <1>4, <2>2, SchedulerTypes DEF TypeAfter
  <2> QED
    BY <2>1, <2>2
<1>6. Makes(p, k, sigs, "value") /\ "value" \in Functions
  BY <1>2, <1>3 DEF Makes, Effect, Functions
<1>7. end = "sync_wait" => stage.sch \in {"immediate", "local"}
  BY <1>2, <1>3 DEF StayInv, Stays
<1> QED
  BY <1>1, <1>2, <1>3, <1>5, <1>6, <1>7, Schedules

LEMMA StopAsksKeeps ==
  ASSUME ChainInv, StopAsks
  PROVE  ChainInv'
<1> DEFINE s == IF stopped THEN "done" ELSE "value"
<1>1. Handled({"stop_if_requested"}) /\ Continue(s)
  BY DEF StopAsks
<1>2. /\ at \in Threads /\ rest # <<>> /\ UNCHANGED <<chain, end, early, stopped>>
      /\ signal.kind = "value" /\ Head(rest).op = "stop_if_requested" /\ TypeOK /\ MainInv
  BY <1>1, AtHandler DEF Handles
<1>3. PICK p, k, sigs, types :
        /\ Progress(p, 0, k, sigs, types) /\ p > 0 /\ p < Len(chain) /\ p + 1 \in 1..Len(chain)
        /\ Head(rest) = chain[p + 1] /\ chain[p + 1] \in Stages(types[p])
        /\ types[p] \in Types /\ types[p + 1] = TypeAfter(chain[p + 1], types[p])
        /\ types[p + 1] \in Types /\ signal.kind = sigs[p]
        /\ signal.kind = "value" => Fits(signal.on, types[p]) /\ at \in signal.on
  BY <1>1, AtHandler
<1>4. p + 1 >= k <=> stopped
  <2>1. k \in HeededFrom /\ (stopped => k <= p + 1) /\ (early => stopped)
    BY <1>2, <1>3 DEF Progress, MainInv
  <2>2. Len(chain) \in Nat /\ p \in 0..Len(chain) /\ k \in Nat
    BY <1>2, <1>3, ProgressFacts
  <2>3. ~stopped => k = Len(chain) + 1
    BY <2>1 DEF HeededFrom
  <2> QED
    BY <1>2, <1>3, <2>1, <2>2, <2>3 DEF TypeOK
<1>5. Makes(p, k, sigs, s)
  BY <1>2, <1>3, <1>4 DEF Makes, Effect
<1>6. /\ signal' \in [kind : {"none", "value", "error", "done"}, on : SUBSET Threads]
      /\ signal'.kind = s /\ signal'.on = signal.on /\ s \in {"value", "error", "done"}
      /\ rest' = Tail(rest) /\ UNCHANGED <<at, frames, main, outcome>>
  BY <1>1, <1>2 DEF TypeOK, Continue
<1>7. types[p + 1] = types[p]
  BY <1>2, <1>3 DEF TypeAfter
<1> QED
  BY <1>2, <1>3, <1>5, <1>6, <1>7, SendsOn

\* A stop is heeded from the next stage on: what was made so far is the same.
LEMMA RequestStopKeeps ==
  ASSUME ChainInv, RequestStop
  PROVE  ChainInv'
<1>1. /\ ~stopped /\ stopped' = TRUE
      /\ UNCHANGED <<chain, end, early, signal, at, rest, frames, main, outcome>>
      /\ TypeOK /\ ProgressInv /\ MainInv /\ StayInv
  BY DEF RequestStop, ChainInv
<1>2. PICK p, d, k, sigs, types : Progress(p, d, k, sigs, types)
  BY <1>1 DEF ProgressInv
<1>3. /\ Len(chain) \in Nat \ {0} /\ p \in 0..Len(chain)
      /\ sigs \in [1..Len(chain) -> Sigs] /\ Made(p, sigs, k)
  BY <1>1, <1>2, ProgressFacts
<1>4. ~early
  BY <1>1 DEF MainInv
<1>5. k = Len(chain) + 1
  BY <1>1, <1>2, <1>4 DEF Progress, HeededFrom
<1>6. Made(p, sigs, p + 1)
  <2>1. \A i \in 2..p : (i >= p + 1) = FALSE /\ (i >= k) = FALSE
    BY <1>3, <1>5
  <2> QED
    BY <1>3, <2>1 DEF Made
<1>7. HeededFrom' = 1..Len(chain) + 1
  BY <1>1, <1>4 DEF HeededFrom
<1>8. p + 1 \in HeededFrom' /\ p + 1 <= p + 1
  BY <1>3, <1>7
<1>9. Made(p, sigs, p + 1)' /\ (Underway(p, d, sigs, types) => Underway(p, d, sigs, types)')
      /\ \A sig : Out(sig) => Out(sig)'
  BY <1>1, <1>6 DEF Made, Underway, Suffix, Fits, Out, Result, Detached
<1>10. Progress(p, d, p + 1, sigs, types)'
  BY <1>1, <1>2, <1>8, <1>9 DEF Progress
<1>11. ProgressInv'
  BY <1>10 DEF ProgressInv
<1>12. TypeOK'
  BY <1>1 DEF TypeOK
<1>13. MainInv' /\ StayInv'
  BY <1>1 DEF MainInv, StayInv, Stays, Detached
<1> QED
  BY <1>11, <1>12, <1>13 DEF ChainInv

LEMMA TakeKeeps ==
  ASSUME ChainInv, NEW t \in Threads, Take(t)
  PROVE  ChainInv'
<1>1. /\ at = "queued" /\ t \in signal.on /\ (t = Main => main = "returned")
      /\ at' = t /\ frames' = frames \cup {t}
      /\ UNCHANGED <<chain, end, early, signal, rest, main, outcome, stopped>>
      /\ TypeOK /\ ProgressInv /\ MainInv /\ StayInv
  BY DEF Take, fixed, ChainInv
<1>2. at' \in Threads /\ at' \notin Elsewhere /\ at' \in Threads \cap signal.on
  BY <1>1, ChainAssumption
<1>3. ProgressInv'
  BY <1>1, <1>2, Unmoved DEF Elsewhere
<1>4. TypeOK'
  BY <1>1, <1>2 DEF TypeOK
<1>5. end # "sync_wait" \/ (t = Main /\ main = "returned")
  BY <1>1 DEF StayInv
<1>6. ~Detached => t # Main
  BY <1>1 DEF MainInv
<1>7. end # "sync_wait"
  BY <1>5, <1>6 DEF Detached
<1>8. outcome = "none"
  BY <1>1, <1>7 DEF MainInv
<1>9. MainInv'
  BY <1>1, <1>2, <1>6, <1>8 DEF MainInv, Detached, Elsewhere
<1>10. StayInv'
  BY <1>1, <1>7 DEF StayInv
<1> QED
  BY <1>3, <1>4, <1>9, <1>10 DEF ChainInv

LEMMA LostKeeps ==
  ASSUME ChainInv, NEW t \in Workers \cup {Main}, Lost(t)
  PROVE  ChainInv'
<1>1. /\ at = "queued" /\ at' \in {"lost", "leaked"}
      /\ outcome' = IF Detached /\ at' = "lost"
                    THEN IF t = Main THEN "panic" ELSE "aborted"
                    ELSE outcome
      /\ UNCHANGED <<chain, end, early, signal, rest, frames, main, stopped>>
      /\ TypeOK /\ ProgressInv /\ MainInv /\ StayInv
  BY DEF Lost, fixed, ChainInv
<1>2. at' \in Elsewhere /\ at' \notin Threads \cup {"queued"} /\ at' # "gone"
  BY <1>1, ChainAssumption DEF Elsewhere
<1>3. ProgressInv'
  BY <1>1, <1>2, Unmoved
<1>4. TypeOK'
  BY <1>1, <1>2 DEF TypeOK
<1>5. MainInv'
  <2>1. Main \in Threads
    BY DEF Threads
  <2> QED
    BY <1>1, <1>2, <2>1 DEF MainInv, Detached
<1>6. StayInv'
  BY <1>1, <1>2 DEF StayInv, Stays
<1> QED
  BY <1>3, <1>4, <1>5, <1>6 DEF ChainInv

LEMMA ReturnKeeps ==
  ASSUME ChainInv, NEW t \in Threads, Return(t)
  PROVE  ChainInv'
<1>1. /\ at # t /\ frames' = frames \ {t}
      /\ main' = IF t = Main /\ main = "starting"
                 THEN IF Detached THEN "returned" ELSE "receiving"
                 ELSE main
      /\ UNCHANGED <<chain, end, early, signal, at, rest, outcome, stopped>>
      /\ TypeOK /\ ProgressInv /\ MainInv /\ StayInv
  BY DEF Return, fixed, ChainInv
<1>2. ProgressInv'
  BY <1>1, Unmoved DEF Out, Result, Detached
<1>3. TypeOK'
  BY <1>1 DEF TypeOK
<1>4. MainInv'
  BY <1>1 DEF MainInv, Detached
<1>5. StayInv'
  BY <1>1 DEF StayInv, Stays
<1> QED
  BY <1>2, <1>3, <1>4, <1>5 DEF ChainInv

LEMMA CompleteKeeps ==
  ASSUME ChainInv, Complete
  PROVE  ChainInv'
<1>1. /\ at \in Threads /\ rest = <<>> /\ at' = "gone"
      /\ outcome' = IF Detached /\ signal.kind = "error" THEN "panic" ELSE signal.kind
      /\ UNCHANGED <<chain, end, early, signal, rest, frames, main, stopped>>
      /\ TypeOK /\ ProgressInv /\ MainInv /\ StayInv
  BY DEF Complete, fixed, ChainInv
<1>2. PICK p, d, k, sigs, types : Progress(p, d, k, sigs, types)
  BY <1>1 DEF ProgressInv
<1>3. /\ Len(chain) \in Nat \ {0} /\ p \in 0..Len(chain) /\ d \in {0, 1}
      /\ sigs \in [1..Len(chain) -> Sigs] /\ Made(p, sigs, k) /\ (p > 0 => sigs[p] \in Sigs)
  BY <1>1, <1>2, ProgressFacts
<1>4. Underway(p, d, sigs, types)
  BY <1>1, <1>2 DEF Progress
<1>5. d = 0 /\ p = Len(chain) /\ p > 0
  BY <1>1, <1>3, <1>4, SuffixHead DEF Underway
<1>6. signal.kind = sigs[p] /\ signal.kind \in {"value", "error", "done"}
  BY <1>1, <1>3, <1>4, <1>5 DEF Underway, TypeOK, Sigs, Functions
<1>7. Out(sigs[p])'
  BY <1>1, <1>6 DEF Out, Result, Detached
<1>8. at' \in Elsewhere /\ at' \notin Threads \cup {"queued"}
  BY <1>1, ChainAssumption DEF Elsewhere
<1>9. p \in p..Len(chain)
  BY <1>3
<1>10. ProgressInv'
  BY <1>1, <1>2, <1>3, <1>5, <1>7, <1>8, <1>9, NewProgress
<1>11. outcome' \in {"value", "error", "done", "panic"}
  BY <1>1, <1>6
<1>12. TypeOK'
  BY <1>1, <1>8, <1>11 DEF TypeOK
<1>13. Main \in Threads
  BY DEF Threads
<1>14. MainInv'
  BY <1>1, <1>8, <1>11, <1>13 DEF MainInv, Detached
<1>15. StayInv'
  BY <1>1, <1>8 DEF StayInv, Stays
<1> QED
  BY <1>10, <1>12, <1>14, <1>15 DEF ChainInv

LEMMA ReceiveKeeps ==
  ASSUME ChainInv, Receive
  PROVE  ChainInv'
<1>1. /\ main = "receiving" /\ main' = "leaving"
      /\ \/ outcome # "none" /\ UNCHANGED outcome
         \/ /\ outcome = "none" /\ (at \in {"gone", "lost"} \/ end = "sync_wait")
            /\ outcome' = "panic"
      /\ UNCHANGED <<chain, end, early, signal, at, rest, frames, stopped>>
      /\ TypeOK /\ ProgressInv /\ MainInv /\ StayInv
  BY DEF Receive, fixed, ChainInv
<1>2. ~Detached /\ outcome' # "none"
  BY <1>1 DEF MainInv
<1>3. \A sig \in Sigs : Out(sig) => Out(sig)'
  BY <1>1 DEF Out, Result, Detached, Sigs, Functions
<1>4. ProgressInv'
  BY <1>1, <1>3, Unmoved
<1>5. TypeOK'
  BY <1>1 DEF TypeOK
<1>6. at \notin Threads
  <2>1. at \in {"gone", "lost"} => at \notin Threads
    BY ChainAssumption DEF Elsewhere
  <2>2. end = "sync_wait" => at \notin Threads
    BY <1>1, <1>2 DEF MainInv, StayInv
  <2> QED
    BY <1>1, <2>1, <2>2 DEF MainInv
<1>7. at = "queued" => end = "sync_wait"
  BY <1>1 DEF MainInv
<1>8. (early => stopped)'
  BY <1>1 DEF MainInv
<1>9. MainInv'
  <2>1. Main \in Threads
    BY DEF Threads
  <2> QED
    BY <1>1, <1>2, <1>6, <1>7, <1>8, <2>1 DEF MainInv, Detached
<1>10. StayInv'
  BY <1>1 DEF StayInv, Stays
<1> QED
  BY <1>4, <1>5, <1>9, <1>10 DEF ChainInv

LEMMA LeaveKeeps ==
  ASSUME ChainInv, Leave
  PROVE  ChainInv'
<1>1. /\ main = "leaving" /\ main' = "returned" /\ at \in {"gone", "lost"}
      /\ UNCHANGED <<chain, end, early, signal, at, rest, frames, outcome, stopped>>
      /\ TypeOK /\ ProgressInv /\ MainInv /\ StayInv
  BY DEF Leave, fixed, ChainInv
<1>2. ProgressInv'
  BY <1>1, Unmoved DEF Out, Result, Detached
<1>3. TypeOK'
  BY <1>1 DEF TypeOK
<1>4. at \notin Threads /\ Main \in Threads
  BY <1>1, ChainAssumption DEF Elsewhere, Threads
<1>5. MainInv'
  BY <1>1, <1>4 DEF MainInv, Detached
<1>6. StayInv'
  BY <1>1 DEF StayInv, Stays
<1> QED
  BY <1>2, <1>3, <1>5, <1>6 DEF ChainInv

LEMMA StutterKeeps ==
  ASSUME ChainInv, UNCHANGED vars
  PROVE  ChainInv'
<1>1. /\ UNCHANGED <<chain, end, signal, at, rest, frames, main, outcome, stopped, early>>
      /\ TypeOK /\ ProgressInv /\ MainInv /\ StayInv
  BY DEF vars, ChainInv
<1>2. ProgressInv'
  BY <1>1, Unmoved DEF Out, Result, Detached
<1>3. TypeOK'
  BY <1>1 DEF TypeOK
<1>4. MainInv' /\ StayInv'
  BY <1>1 DEF MainInv, StayInv, Stays, Detached
<1> QED
  BY <1>2, <1>3, <1>4 DEF ChainInv

----------------------------------------------------------------------------
(* The invariant. *)

LEMMA InitInv == Init => ChainInv
<1> SUFFICES ASSUME Init
             PROVE  ChainInv
  OBVIOUS
<1>1. chain \in Seq(AnyStage) /\ Len(chain) \in Nat \ {0} /\ chain \in Chains
  BY ChainAssumption DEF Init
<1>2. PICK types \in [1..Len(chain) -> Types] : Typed(chain, types)
  BY ChainAssumption DEF Init
<1>3. Main \in Threads /\ Main \notin Elsewhere
  BY ChainAssumption DEF Threads
<1>4. TypeOK
  <2>1. /\ signal \in [kind : {"none", "value", "error", "done"}, on : SUBSET Threads]
        /\ at \in Threads \cup Elsewhere /\ rest \in Seq(AnyStage) /\ frames \subseteq Threads
    BY <1>1, <1>3 DEF Init
  <2>2. {stopped, early} \subseteq BOOLEAN
    BY DEF Init
  <2> QED
    BY <1>1, <2>1, <2>2 DEF Init, TypeOK
<1>5. ProgressInv
  <2> DEFINE k == IF early THEN 1 ELSE Len(chain) + 1
             sigs == [i \in 1..Len(chain) |-> "value"]
  <2>1. k \in HeededFrom /\ (stopped => k <= 0 + 1)
    BY <1>1 DEF Init, HeededFrom
  <2>2. sigs \in [1..Len(chain) -> Sigs]
    BY DEF Sigs, Functions
  <2>3. Made(0, sigs, k)
    BY DEF Made
  <2>4. Suffix(0, 0)
    BY <1>1 DEF Init, Suffix
  <2>5. Underway(0, 0, sigs, types) /\ at # "gone"
    BY <1>3, <2>4 DEF Underway, Init, Elsewhere
  <2>6. Progress(0, 0, k, sigs, types)
    BY <1>1, <1>2, <2>1, <2>2, <2>3, <2>5 DEF Progress
  <2> QED
    BY <2>6 DEF ProgressInv
<1>6. MainInv /\ StayInv
  BY <1>3 DEF Init, MainInv, StayInv, Detached, Elsewhere
<1> QED
  BY <1>4, <1>5, <1>6 DEF ChainInv

LEMMA NextKeeps ==
  ASSUME ChainInv, [Next]_vars
  PROVE  ChainInv'
<1>1. CASE Run
  <2>1. CASE Start
    BY <2>1, StartKeeps
  <2>2. CASE Passes
    BY <2>2, PassesKeeps
  <2>3. CASE ThenInvokes
    BY <2>3, InvokesKeeps
  <2>4. CASE UponSchedules
    BY <2>4, UponKeeps
  <2>5. CASE LetStarts
    BY <2>5, LetKeeps
  <2>6. CASE TransferSchedules
    BY <2>6, TransferKeeps
  <2>7. CASE StopAsks
    BY <2>7, StopAsksKeeps
  <2>8. CASE \E t \in Threads : Take(t) \/ Return(t)
    BY <2>8, TakeKeeps, ReturnKeeps
  <2>9. CASE Complete \/ Receive \/ Leave
    BY <2>9, CompleteKeeps, ReceiveKeeps, LeaveKeeps
  <2> QED
    BY <1>1, <2>1, <2>2, <2>3, <2>4, <2>5, <2>6, <2>7, <2>8, <2>9 DEF Run
<1>2. CASE RequestStop
  BY <1>2, RequestStopKeeps
<1>3. CASE \E t \in Workers \cup {Main} : Lost(t)
  BY <1>3, LostKeeps
<1>4. CASE UNCHANGED vars
  BY <1>4, StutterKeeps
<1> QED
  BY <1>1, <1>2, <1>3, <1>4 DEF Next

\* The signal is what the stages so far make of it, what is left is the end of the chain,
\* a value comes with the threads of its type, and Main is where the signal lets it be:
\* through every stage and scheduler, for chains of any length.
THEOREM ChainInvariant == Spec => []ChainInv
<1>1. ChainInv /\ [Next]_vars => ChainInv'
  BY NextKeeps
<1> QED
  BY InitInv, <1>1, PTL DEF Spec

\* set_value runs on a thread of the scheduler it is given, whatever stages and pools the
\* signal went through.
THEOREM ValuesOnTheirScheduler == Spec => []ValueOnItsScheduler
<1>1. ChainInv => ValueOnItsScheduler
  <2> SUFFICES ASSUME ChainInv, at \in Threads, signal.kind = "value"
               PROVE  at \in signal.on
    BY DEF ValueOnItsScheduler
  <2>1. PICK p, d, k, sigs, types : Progress(p, d, k, sigs, types)
    BY DEF ChainInv, ProgressInv
  <2>2. Underway(p, d, sigs, types)
    BY <2>1 DEF Progress
  <2> QED
    BY <2>2 DEF Underway
<1> QED
  BY ChainInvariant, <1>1, PTL

\* What sync_wait and start_detached come to is what the stages make of the signal, one
\* after the other, with a stop that is heeded from one of them on: for any chain.
THEOREM OutcomeIsAlwaysTheChains == Spec => []OutcomeIsTheChains
<1>1. ChainInv => OutcomeIsTheChains
  <2> SUFFICES ASSUME ChainInv, Over, at # "lost"
               PROVE  \E k \in HeededFrom, sigs \in [1..Len(chain) -> Functions \cup {"done"}] :
                        Follows(sigs, k) /\ outcome = Result(sigs[Len(chain)])
    BY DEF OutcomeIsTheChains
  <2>1. TypeOK /\ MainInv
    BY DEF ChainInv
  <2>2. at = "gone" /\ outcome # "none"
    BY <2>1 DEF Over, MainInv, TypeOK, Elsewhere, Detached
  <2>3. PICK p, d, k, sigs, types : Progress(p, d, k, sigs, types)
    BY DEF ChainInv, ProgressInv
  <2>4. /\ Len(chain) \in Nat \ {0} /\ k \in HeededFrom
        /\ sigs \in [1..Len(chain) -> Functions \cup {"done"}]
        /\ p = Len(chain) /\ Made(p, sigs, k) /\ Out(sigs[p])
    BY <2>1, <2>2, <2>3, ChainFacts DEF Progress, Sigs
  <2>5. Follows(sigs, k)
    BY <2>4 DEF Made, Follows
  <2>6. outcome = Result(sigs[Len(chain)])
    BY <2>2, <2>4 DEF Out
  <2> QED
    BY <2>4, <2>5, <2>6
<1> QED
  BY ChainInvariant, <1>1, PTL

----------------------------------------------------------------------------
(* The chain that ensure_started starts, and its client. *)

\* The state is handed from the one who comes first to the one who comes second: where
\* the chain and the client are says what is in it.

\* The signal of the chain is there from the time it is to be assigned.
SignalKnown == chain_signal = <<>> <=> started \in {"running", "dropped"}

\* What is in the state, before the chain has assigned its signal ...
BeforeSignal ==
  started \in {"running", "dropped", "assign"} =>
    /\ state = IF client = "waiting" THEN "attached" ELSE "pending"
    /\ client \in {"none", "connected", "attach", "waiting", "gone"}
    /\ taken = <<>>

\* ... while the chain is about to call the continuation of the client ...
Continuing ==
  /\ started = "continue" => state = "some" /\ client = "waiting" /\ taken = <<>>
  /\ started = "receiving" => state = "none" /\ client = "waiting" /\ taken = chain_signal

\* ... and after that: the signal is left for a client that may come.
AfterSignal ==
  started \in {"finish", "over"} =>
    /\ state = IF client \in {"none", "connected", "attach", "gone"} THEN "some" ELSE "none"
    /\ taken = IF client \in {"none", "connected", "attach", "gone", "posted"} THEN <<>>
             ELSE chain_signal

\* A value is all that is posted.
Posted == client = "posted" => chain_signal = <<"value">>

EnsureInv ==
  Ensured!TypeOK /\ SignalKnown /\ BeforeSignal /\ Continuing /\ AfterSignal /\ Posted

----------------------------------------------------------------------------

LEMMA EnsureInit == Ensured!Init => EnsureInv
<1> HAVE Ensured!Init
<1>1. Ensured!TypeOK
  <2>1. {linked, stop, aborted} \subseteq BOOLEAN
    BY DEF Ensured!Init
  <2> QED
    BY <2>1 DEF Ensured!Init, Ensured!TypeOK
<1>2. SignalKnown /\ BeforeSignal /\ Continuing /\ AfterSignal /\ Posted
  BY DEF Ensured!Init, SignalKnown, BeforeSignal, Continuing, AfterSignal, Posted
<1> QED
  BY <1>1, <1>2 DEF EnsureInv

\* A signal that is handed over is all that the receiver was given.
LEMMA HandOver ==
  ASSUME taken = <<>>, chain_signal \in {<<s>> : s \in Ensured!Signals}
  PROVE  /\ taken \o chain_signal = chain_signal
         /\ chain_signal \in Seq(Ensured!Signals) /\ chain_signal # <<>>
<1>1. PICK s \in Ensured!Signals : chain_signal = <<s>>
  OBVIOUS
<1> QED
  BY <1>1

LEMMA EnsureKeeps == EnsureInv /\ [Ensured!Next]_(Ensured!vars) => EnsureInv'
<1> SUFFICES ASSUME EnsureInv, [Ensured!Next]_(Ensured!vars)
             PROVE  EnsureInv'
  OBVIOUS
<1> USE DEF EnsureInv, Ensured!TypeOK, SignalKnown, BeforeSignal, Continuing, AfterSignal, Posted
<1>1. ASSUME NEW s \in Ensured!Signals, Ensured!Signal(s)
      PROVE  EnsureInv'
  BY <1>1 DEF Ensured!Signal, Ensured!stopping
<1>2. CASE Ensured!AssignFirst
  BY <1>2 DEF Ensured!AssignFirst, Ensured!stopping
<1>3. CASE Ensured!AssignAttached
  BY <1>3 DEF Ensured!AssignAttached, Ensured!stopping
<1>4. CASE Ensured!Continue
  BY <1>4, HandOver DEF Ensured!Continue, Ensured!stopping
<1>5. CASE Ensured!ContinueReturn \/ Ensured!Complete
  BY <1>5 DEF Ensured!ContinueReturn, Ensured!Complete, Ensured!stopping
<1>6. CASE Ensured!ChainPanics \/ Ensured!ChainDropped
  <2>1. aborted' \in BOOLEAN
    BY <1>6 DEF Ensured!ChainPanics, Ensured!ChainDropped
  <2> QED
    BY <1>6, <2>1 DEF Ensured!ChainPanics, Ensured!ChainDropped, Ensured!stopping
<1>7. CASE Ensured!Connect
  <2>1. {linked', stop'} \subseteq BOOLEAN
    BY <1>7 DEF Ensured!Connect
  <2> QED
    BY <1>7, <2>1 DEF Ensured!Connect, Ensured!chainSide
<1>8. CASE Ensured!Drop \/ Ensured!Start
  BY <1>8 DEF Ensured!Drop, Ensured!Start, Ensured!chainSide, Ensured!stopping
<1>9. CASE Ensured!AttachFirst
  BY <1>9 DEF Ensured!AttachFirst, Ensured!chainSide, Ensured!stopping
<1>10. CASE Ensured!AttachSignalled
  BY <1>10, HandOver DEF Ensured!AttachSignalled, Ensured!chainSide, Ensured!stopping
<1>11. CASE Ensured!AttachScheduled
  BY <1>11 DEF Ensured!AttachScheduled, Ensured!chainSide, Ensured!stopping
<1>12. CASE Ensured!RunScheduled
  BY <1>12 DEF Ensured!RunScheduled, Ensured!chainSide, Ensured!stopping,
     Ensured!Signals
<1>13. CASE Ensured!ReceiverReturn \/ Ensured!ReceiverPanics
  BY <1>13 DEF Ensured!ReceiverReturn, Ensured!ReceiverPanics, Ensured!LetGo,
     Ensured!chainSide, Ensured!stopping
<1>14. CASE Ensured!RequestStop \/ Ensured!Sweep
  BY <1>14 DEF Ensured!RequestStop, Ensured!Sweep, Ensured!chainSide, Ensured!clientSide
<1>15. CASE UNCHANGED Ensured!vars
  BY <1>15 DEF Ensured!vars
<1> QED
  BY <1>1, <1>2, <1>3, <1>4, <1>5, <1>6, <1>7, <1>8, <1>9, <1>10, <1>11, <1>12, <1>13,
     <1>14, <1>15 DEF Ensured!Next, Ensured!ChainStep, Ensured!ClientStep

\* The invariant behind what follows: how far the chain and the client of
\* ensure_started.rs are says what is in the state between them.
THEOREM EnsureInvariant == EnsuredSpec => []EnsureInv
BY EnsureInit, EnsureKeeps, PTL DEF EnsuredSpec, Ensured!Spec

\* No expect or panic of ensure_started.rs about the state is ever reached.
THEOREM ExpectationsAlwaysHold == EnsuredSpec => []ExpectationsHold
<1>1. EnsureInv => ExpectationsHold
  BY DEF EnsureInv, BeforeSignal, Continuing, AfterSignal,
     ExpectationsHold, Ensured!ExpectationsHold, Ensured!TypeOK
<1> QED
  BY <1>1, EnsureInvariant, PTL

----------------------------------------------------------------------------
(* The refinement. *)

\* Each step of the chain and of its client is one of the Rendezvous, or none.
LEMMA StepMeets ==
  ASSUME EnsureInv, [Ensured!Next]_(Ensured!vars)
  PROVE  [Ensured!Abstract!Next]_(Ensured!Abstract!vars)
<1> USE DEF Ensured!Abstract!Next, Ensured!Abstract!vars
<1>1. ASSUME NEW s \in Ensured!Signals, Ensured!Signal(s)
      PROVE  Ensured!Abstract!Send
  BY <1>1 DEF Ensured!Signal, Ensured!Abstract!Send, EnsureInv, SignalKnown
<1>2. CASE \/ Ensured!AssignFirst \/ Ensured!AssignAttached
           \/ Ensured!ContinueReturn \/ Ensured!Complete
  BY <1>2 DEF Ensured!AssignFirst, Ensured!AssignAttached, Ensured!ContinueReturn,
     Ensured!Complete
<1>3. CASE Ensured!Continue
  <2>1. client = "waiting" /\ taken = <<>> /\ chain_signal \in {<<s>> : s \in Ensured!Signals}
    BY <1>3 DEF Ensured!Continue, EnsureInv, Ensured!TypeOK, Continuing, SignalKnown
  <2>2. taken \o chain_signal = chain_signal /\ chain_signal # <<>>
    BY <2>1, HandOver
  <2>3. Ensured!Abstract!Deliver
    BY <1>3, <2>1, <2>2 DEF Ensured!Continue, Ensured!Abstract!Deliver
  <2> QED
    BY <2>3
<1>4. CASE Ensured!ChainPanics \/ Ensured!ChainDropped
  BY <1>4 DEF Ensured!ChainPanics, Ensured!ChainDropped
<1>5. CASE Ensured!Connect
  BY <1>5 DEF Ensured!Connect, Ensured!chainSide
<1>6. CASE Ensured!Drop
  <2>1. taken = <<>>
    BY <1>6 DEF Ensured!Drop, EnsureInv, Ensured!TypeOK, BeforeSignal, Continuing, AfterSignal
  <2>2. Ensured!Abstract!GiveUp
    BY <1>6, <2>1 DEF Ensured!Drop, Ensured!chainSide, Ensured!Abstract!GiveUp
  <2> QED
    BY <2>2
<1>7. CASE Ensured!Start
  <2>1. Ensured!Abstract!Attach
    BY <1>7 DEF Ensured!Start, Ensured!chainSide, Ensured!Abstract!Attach
  <2> QED
    BY <2>1
<1>8. CASE Ensured!AttachFirst \/ Ensured!AttachScheduled
  BY <1>8 DEF Ensured!AttachFirst, Ensured!AttachScheduled, Ensured!chainSide
<1>9. CASE Ensured!AttachSignalled
  <2>1. taken = <<>> /\ chain_signal \in {<<s>> : s \in Ensured!Signals}
    BY <1>9 DEF Ensured!AttachSignalled, EnsureInv, Ensured!TypeOK, BeforeSignal, Continuing,
       AfterSignal, SignalKnown
  <2>2. taken \o chain_signal = chain_signal /\ chain_signal # <<>>
    BY <2>1, HandOver
  <2>3. Ensured!Abstract!Deliver
    BY <1>9, <2>1, <2>2 DEF Ensured!AttachSignalled, Ensured!chainSide, Ensured!Abstract!Deliver
  <2> QED
    BY <2>3
<1>10. CASE Ensured!RunScheduled
  <2>1. taken = <<>> /\ chain_signal = <<"value">>
    BY <1>10 DEF Ensured!RunScheduled, EnsureInv, Ensured!TypeOK, BeforeSignal, Continuing,
       AfterSignal, Posted
  <2>2. Ensured!Abstract!Deliver
    BY <1>10, <2>1 DEF Ensured!RunScheduled, Ensured!chainSide, Ensured!Abstract!Deliver
  <2> QED
    BY <2>2
<1>11. CASE Ensured!ReceiverReturn \/ Ensured!ReceiverPanics
  BY <1>11 DEF Ensured!ReceiverReturn, Ensured!ReceiverPanics, Ensured!chainSide
<1>12. CASE Ensured!RequestStop \/ Ensured!Sweep
  BY <1>12 DEF Ensured!RequestStop, Ensured!Sweep, Ensured!chainSide, Ensured!clientSide
<1>13. CASE UNCHANGED Ensured!vars
  BY <1>13 DEF Ensured!vars
<1> QED
  BY <1>1, <1>2, <1>3, <1>4, <1>5, <1>6, <1>7, <1>8, <1>9, <1>10, <1>11, <1>12, <1>13
     DEF Ensured!Next, Ensured!ChainStep, Ensured!ClientStep

\* What MeetsSignal says of every step: the client's receiver is given the signal
\* of the chain, at most once, after it was attached, in whatever order the two come.
THEOREM MeetsSignalSafely ==
  EnsuredSpec => /\ Ensured!Abstract!Init
                 /\ [][Ensured!Abstract!Next]_(Ensured!Abstract!vars)
<1>1. Ensured!Init => Ensured!Abstract!Init
  BY DEF Ensured!Init, Ensured!Abstract!Init
<1> QED
  BY <1>1, StepMeets, EnsureInvariant, PTL DEF EnsuredSpec, Ensured!Spec
=============================================================================
