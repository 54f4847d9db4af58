-------------------------- MODULE StopSourceProofs --------------------------
(***************************************************************************)
(* Proofs about StopSource, for any number of threads, sources and         *)
(* callbacks, and whatever is registered where.                            *)
(***************************************************************************)
EXTENDS StopSource, TLAPS

----------------------------------------------------------------------------
(* Stacks.  A frame is known by its level, counted from the oldest call of *)
(* its thread: so a call or a return changes the levels at the top only.   *)

Nth(s, n) == s[Len(s) + 1 - n]

LEMMA PushNth ==
  ASSUME NEW S, NEW s \in Seq(S), NEW f \in S
  PROVE  /\ <<f>> \o s \in Seq(S)
         /\ Len(<<f>> \o s) = Len(s) + 1
         /\ Nth(<<f>> \o s, Len(s) + 1) = f
         /\ \A n \in 1..Len(s) : Nth(<<f>> \o s, n) = Nth(s, n)
<1> DEFINE r == <<f>> \o s
<1>1. r \in Seq(S) /\ Len(r) = Len(s) + 1 /\ Len(s) \in Nat
  OBVIOUS
<1>2. r[1] = f /\ \A i \in 1..Len(s) : r[i + 1] = s[i]
  OBVIOUS
<1> HIDE DEF r
<1>3. Nth(r, Len(s) + 1) = f
  BY <1>1, <1>2 DEF Nth
<1>4. ASSUME NEW n \in 1..Len(s)
      PROVE  Nth(r, n) = Nth(s, n)
  <2>1. Len(s) + 1 - n \in 1..Len(s) /\ Len(r) + 1 - n = (Len(s) + 1 - n) + 1
    BY <1>1
  <2> QED
    BY <1>2, <2>1 DEF Nth
<1> QED
  BY <1>1, <1>3, <1>4 DEF r

LEMMA PopNth ==
  ASSUME NEW S, NEW s \in Seq(S), s # <<>>
  PROVE  /\ Tail(s) \in Seq(S)
         /\ Len(s) \in Nat \ {0} /\ Len(Tail(s)) = Len(s) - 1
         /\ Head(s) = Nth(s, Len(s)) /\ Head(s) \in S
         /\ \A n \in 1..Len(s) - 1 : Nth(Tail(s), n) = Nth(s, n)
<1> DEFINE r == Tail(s)
<1>1. r \in Seq(S) /\ Len(r) = Len(s) - 1 /\ Len(s) \in Nat \ {0}
  OBVIOUS
<1>2. Head(s) = s[1] /\ s[1] \in S /\ \A i \in 1..Len(s) - 1 : r[i] = s[i + 1]
  OBVIOUS
<1> HIDE DEF r
<1>3. Head(s) = Nth(s, Len(s))
  BY <1>1, <1>2 DEF Nth
<1>4. ASSUME NEW n \in 1..Len(s) - 1
      PROVE  Nth(r, n) = Nth(s, n)
  <2>1. Len(s) - n \in 1..Len(s) - 1 /\ Len(r) + 1 - n = Len(s) - n
        /\ Len(s) + 1 - n = (Len(s) - n) + 1
    BY <1>1
  <2> QED
    BY <1>2, <2>1 DEF Nth
<1> QED
  BY <1>1, <1>2, <1>3, <1>4 DEF r

Depth(t) == Len(stack[t])
Level(t, n) == Nth(stack[t], n)

IsStack == stack \in [Threads -> Seq(Frames)]

LEMMA TopOfStack ==
  ASSUME IsStack, NEW t \in Threads
  PROVE  /\ Depth(t) \in Nat
         /\ \A n \in 1..Depth(t) : Level(t, n) \in Frames
         /\ ~Idle(t) => Depth(t) # 0 /\ stack[t][1] = Level(t, Depth(t))
         /\ Idle(t) <=> Depth(t) = 0
<1>1. stack[t] \in Seq(Frames)
  BY DEF IsStack
<1>2. \A n \in 1..Depth(t) : Level(t, n) \in Frames
  <2> TAKE n \in 1..Depth(t)
  <2>1. Len(stack[t]) + 1 - n \in 1..Len(stack[t])
    BY <1>1 DEF Depth
  <2> QED
    BY <1>1, <2>1 DEF Level, Nth
<1>3. stack[t] # <<>> => Head(stack[t]) = stack[t][1]
  BY <1>1
<1> QED
  BY <1>1, <1>2, <1>3, PopNth DEF Depth, Level, Idle

LEMMA NewStack ==
  ASSUME IsStack, NEW t \in Threads, NEW s \in Seq(Frames),
         stack' = [stack EXCEPT ![t] = s]
  PROVE  /\ IsStack'
         /\ Depth(t)' = Len(s) /\ \A n : Level(t, n)' = Nth(s, n)
         /\ \A u \in Threads : u # t => Depth(u)' = Depth(u)
                                        /\ \A n : Level(u, n)' = Level(u, n)
<1>1. IsStack'
  BY DEF IsStack
<1>2. stack'[t] = s /\ \A u \in Threads : u # t => stack'[u] = stack[u]
  BY DEF IsStack
<1> QED
  BY <1>1, <1>2 DEF Depth, Level

\* What a step of t leaves on its stack: the levels up to k, and then fs.
Leaves(t, k, fs) ==
  /\ IsStack'
  /\ Depth(t)' = k + Len(fs)
  /\ \A n \in 1..k : Nth(stack'[t], n) = Level(t, n)
  /\ \A i \in 1..Len(fs) : Nth(stack'[t], k + i) = fs[i]
  /\ \A u \in Threads : u # t => Depth(u)' = Depth(u)
                                 /\ \A n \in 1..Depth(u) : Level(u, n)' = Level(u, n)

LEMMA NewStackLeaves ==
  ASSUME IsStack, NEW t \in Threads, NEW s \in Seq(Frames),
         stack' = [stack EXCEPT ![t] = s],
         NEW k \in Nat, NEW fs, Len(s) = k + Len(fs),
         \A n \in 1..k : Nth(s, n) = Nth(stack[t], n),
         \A i \in 1..Len(fs) : Nth(s, k + i) = fs[i]
  PROVE  Leaves(t, k, fs)
<1>1. /\ IsStack' /\ Depth(t)' = Len(s) /\ \A n : Level(t, n)' = Nth(s, n)
      /\ \A u \in Threads : u # t => Depth(u)' = Depth(u)
                                     /\ \A n : Level(u, n)' = Level(u, n)
  BY NewStack
<1>2. \A n \in 1..k : Nth(stack'[t], n) = Level(t, n)
  BY <1>1 DEF Level
<1>3. \A i \in 1..Len(fs) : Nth(stack'[t], k + i) = fs[i]
  BY <1>1 DEF Level
<1> QED
  BY <1>1, <1>2, <1>3 DEF Leaves

\* So a level after the step was there before, or is one of fs.
Was(t, k, u, n) ==
  /\ n \in 1..Depth(u)
  /\ Level(u, n)' = Level(u, n)
  /\ u # t \/ n <= k

LEMMA LevelsAfter ==
  ASSUME NEW t \in Threads, Depth(t) \in Nat, NEW k \in 0..Depth(t), NEW fs, Len(fs) \in Nat,
         Leaves(t, k, fs), NEW u \in Threads, NEW n \in 1..Depth(u)'
  PROVE  \/ Was(t, k, u, n)
         \/ u = t /\ \E i \in 1..Len(fs) : n = k + i /\ Level(u, n)' = fs[i]
<1>1. CASE u # t
  BY <1>1 DEF Leaves, Was
<1>2. CASE u = t /\ n <= k
  BY <1>2 DEF Leaves, Was, Level
<1>3. CASE u = t /\ n > k
  <2>1. n - k \in 1..Len(fs) /\ n = k + (n - k)
    BY <1>3 DEF Leaves
  <2> QED
    BY <1>3, <2>1 DEF Leaves, Level
<1>4. n \in Nat
  <2>1. CASE u = t
    BY <2>1 DEF Leaves
  <2>2. CASE u # t
    BY <2>2 DEF Leaves
  <2> QED
    BY <2>1, <2>2
<1> QED
  BY <1>1, <1>2, <1>3, <1>4

----------------------------------------------------------------------------
(* The four ways in which a step changes a stack. *)

LEMMA Entered ==
  ASSUME IsStack, NEW t \in Threads, Idle(t), NEW f \in Frames,
         stack' = [stack EXCEPT ![t] = <<f>>]
  PROVE  Depth(t) = 0 /\ Leaves(t, 0, <<f>>)
<1>1. <<f>> \in Seq(Frames) /\ Len(<<f>>) = 0 + Len(<<f>>) /\ 1..0 = {} /\ 0 \in Nat
  OBVIOUS
<1>2. \A i \in 1..Len(<<f>>) : Nth(<<f>>, 0 + i) = <<f>>[i]
  BY DEF Nth
<1>3. Leaves(t, 0, <<f>>)
  BY <1>1, <1>2, NewStackLeaves
<1> QED
  BY <1>3, TopOfStack

LEMMA Popped ==
  ASSUME IsStack, NEW t \in Threads, ~Idle(t), stack' = [stack EXCEPT ![t] = Tail(@)]
  PROVE  Leaves(t, Depth(t) - 1, <<>>)
<1> DEFINE s == Tail(stack[t])
<1>1. stack' = [stack EXCEPT ![t] = s]
  BY DEF IsStack
<1>2. stack[t] \in Seq(Frames) /\ stack[t] # <<>>
  BY DEF IsStack, Idle
<1>3. /\ s \in Seq(Frames) /\ Len(s) = Len(stack[t]) - 1
      /\ \A n \in 1..Len(stack[t]) - 1 : Nth(s, n) = Nth(stack[t], n)
  BY <1>2, PopNth
<1> HIDE DEF s
<1>4. Len(s) \in Nat /\ Len(s) = Len(s) + Len(<< >>) /\ 1..Len(<< >>) = {}
  BY <1>3
<1>5. Leaves(t, Len(s), <<>>)
  BY <1>1, <1>3, <1>4, NewStackLeaves
<1> QED
  BY <1>3, <1>5 DEF Depth

\* The innermost request_stop goes on to slot n.
LEMMA WentOn ==
  ASSUME IsStack, NEW t \in Threads, NEW s \in Sources, InStop(t, s), NEW n \in Nat,
         stack' = [stack EXCEPT ![t][1].at = n]
  PROVE  Leaves(t, Depth(t) - 1, <<Stopping(s, n)>>)
<1> DEFINE f == Stopping(s, n)
           r == [stack[t] EXCEPT ![1] = f]
<1>1. stack[t] \in Seq(Frames) /\ stack[t] # <<>>
  BY DEF IsStack, Idle, InStop
<1>2. Len(stack[t]) \in Nat \ {0} /\ stack[t][1] \in Frames
  BY <1>1
<1>3. [stack[t][1] EXCEPT !.at = n] = f /\ f \in Frames
  BY <1>2 DEF InStop, Frames, Stopping
<1>4. stack' = [stack EXCEPT ![t] = r]
  BY <1>1, <1>2, <1>3 DEF IsStack
<1> HIDE DEF f
<1>5. /\ r \in Seq(Frames) /\ Len(r) = Len(stack[t]) /\ r[1] = f
      /\ \A i \in 2..Len(stack[t]) : r[i] = stack[t][i]
  BY <1>1, <1>2, <1>3
<1> HIDE DEF r
<1>6. ASSUME NEW m \in 1..Len(stack[t]) - 1
      PROVE  Nth(r, m) = Nth(stack[t], m)
  <2>1. Len(stack[t]) + 1 - m \in 2..Len(stack[t])
    BY <1>2
  <2> QED
    BY <1>5, <2>1 DEF Nth
<1>7. Nth(r, Len(stack[t])) = f
  BY <1>2, <1>5 DEF Nth
<1>8. /\ Len(stack[t]) - 1 \in Nat /\ Len(r) = Len(stack[t]) - 1 + Len(<<f>>)
      /\ \A i \in 1..Len(<<f>>) : Nth(r, Len(stack[t]) - 1 + i) = <<f>>[i]
  BY <1>2, <1>5, <1>7
<1>9. Leaves(t, Len(stack[t]) - 1, <<f>>)
  BY <1>4, <1>5, <1>6, <1>8, NewStackLeaves
<1> QED
  BY <1>9 DEF Depth, f

\* It goes on, and calls.
LEMMA Called ==
  ASSUME IsStack, NEW t \in Threads, NEW f \in Frames, NEW callee \in Frames, ~Idle(t),
         stack' = [stack EXCEPT ![t] = <<callee>> \o (<<f>> \o Tail(stack[t]))]
  PROVE  Leaves(t, Depth(t) - 1, <<f, callee>>)
<1> DEFINE r == Tail(stack[t])
           q == <<f>> \o r
           s == <<callee>> \o q
<1>2. stack[t] \in Seq(Frames) /\ stack[t] # <<>>
  BY DEF IsStack, Idle
<1>3. /\ r \in Seq(Frames) /\ Len(r) = Len(stack[t]) - 1
      /\ \A n \in 1..Len(stack[t]) - 1 : Nth(r, n) = Nth(stack[t], n)
  BY <1>2, PopNth
<1>1. stack' = [stack EXCEPT ![t] = s]
  OBVIOUS
<1> HIDE DEF r
<1>4. /\ q \in Seq(Frames) /\ Len(q) = Len(r) + 1 /\ Nth(q, Len(r) + 1) = f
      /\ \A n \in 1..Len(r) : Nth(q, n) = Nth(r, n)
  BY ZenonT(30), <1>3, PushNth
<1> HIDE DEF q
<1>5. /\ s \in Seq(Frames) /\ Len(s) = Len(q) + 1 /\ Nth(s, Len(q) + 1) = callee
      /\ \A n \in 1..Len(q) : Nth(s, n) = Nth(q, n)
  BY <1>4, PushNth
<1> HIDE DEF s
<1>7. Len(stack[t]) \in Nat /\ Len(r) \in Nat
  BY <1>2, <1>3
<1>8. /\ Len(s) = Len(r) + 2 /\ Nth(s, Len(r) + 1) = f /\ Nth(s, Len(r) + 2) = callee
      /\ \A n \in 1..Len(r) : Nth(s, n) = Nth(stack[t], n)
  BY <1>3, <1>4, <1>5, <1>7
<1>9. \A i \in 1..Len(<<f, callee>>) : (i = 1 /\ <<f, callee>>[i] = f)
                                      \/ (i = 2 /\ <<f, callee>>[i] = callee)
  OBVIOUS
<1>10. Leaves(t, Len(r), <<f, callee>>)
  <2>1. Len(<<f, callee>>) = 2
    OBVIOUS
  <2>2. \A i \in 1..Len(<<f, callee>>) : Nth(s, Len(r) + i) = <<f, callee>>[i]
    BY <1>8, <1>9
  <2> QED
    BY <1>1, <1>5, <1>7, <1>8, <2>1, <2>2, NewStackLeaves
<1> QED
  BY <1>3, <1>10 DEF Depth

----------------------------------------------------------------------------
(* The inductive invariant. *)

\* A function in a slot is that of the callback whose handle remembers the slot; it
\* has not been called.
SlotInv ==
  /\ \A s \in Sources : \A i \in DOMAIN callbacks[s] : \A c \in Callbacks :
       callbacks[s][i] = <<c>> => /\ s = Home[c] /\ i = callback_slot[c]
                                  /\ handle[c] \in {"held", "detached"}
  /\ \A c \in Callbacks : handle[c] \in {"held", "detached"} =>
       /\ callback_slot[c] \in DOMAIN callbacks[Home[c]]
       /\ callbacks[Home[c]][callback_slot[c]] = IF called[c] = 0 THEN <<c>> ELSE Empty

CalledInv ==
  \A c \in Callbacks : /\ called[c] \in {0, 1}
                       /\ handle[c] = "none" => called[c] = 0

\* The call at level n of t sweeps the slots of s; runs the function of c; will come
\* to slot i of s.
Sweeps(t, n, s) ==
  n \in 1..Depth(t) /\ Level(t, n).op = "stop" /\ Level(t, n).src = s /\ Level(t, n).at # 0
Runs(t, n, c) == n \in 1..Depth(t) /\ Level(t, n).op = "run" /\ Level(t, n).cb = c
ComesTo(t, n, s, i) ==
  n \in 1..Depth(t) /\ Level(t, n).op = "stop" /\ Level(t, n).src = s /\ Level(t, n).at <= i

\* One call at a time sweeps a source, and its thread has the mutex.
SweepInv ==
  /\ \A t \in Threads : \A n, s : Sweeps(t, n, s) => owner[s] = t
  /\ \A t, u \in Threads : \A n, m, s : Sweeps(t, n, s) /\ Sweeps(u, m, s) => t = u /\ n = m

\* A function runs when it was refused, or from the sweep of its source.
RunsInv ==
  \A t \in Threads : \A n, c : Runs(t, n, c) =>
    \/ handle[c] = "refused"
    \/ handle[c] \in {"held", "detached"} /\ Sweeps(t, n - 1, Home[c])

\* Once a stop was requested, some call will come to each callback that is left.
ReachInv ==
  \A s \in Sources : \A i \in DOMAIN callbacks[s] :
    stopped[s] /\ callbacks[s][i] # Empty =>
      \E t \in Threads : \E n \in 1..Depth(t) : ComesTo(t, n, s, i)

StopInv == TypeOK /\ SlotInv /\ CalledInv /\ SweepInv /\ RunsInv /\ ReachInv

----------------------------------------------------------------------------

\* What the calls do after a step is what they did before, or what fs says.
LEMMA CallsAfter ==
  ASSUME IsStack, NEW t \in Threads, NEW k \in 0..Depth(t), NEW fs, Len(fs) \in Nat,
         Leaves(t, k, fs), NEW u \in Threads
  PROVE  /\ \A n, x : Sweeps(u, n, x)' =>
              \/ Sweeps(u, n, x) /\ (u # t \/ n <= k)
              \/ u = t /\ \E i \in 1..Len(fs) : n = k + i /\ fs[i].op = "stop"
                                                /\ fs[i].src = x /\ fs[i].at # 0
         /\ \A n, x : Runs(u, n, x)' =>
              \/ Runs(u, n, x) /\ (u # t \/ n <= k)
              \/ u = t /\ \E i \in 1..Len(fs) : n = k + i /\ fs[i].op = "run" /\ fs[i].cb = x
<1>1. Depth(t) \in Nat /\ Depth(u) \in Nat
  BY TopOfStack
<1>2. ASSUME NEW n \in 1..Depth(u)'
      PROVE  \/ n \in 1..Depth(u) /\ Level(u, n)' = Level(u, n) /\ (u # t \/ n <= k)
             \/ u = t /\ \E i \in 1..Len(fs) : n = k + i /\ Level(u, n)' = fs[i]
  BY <1>1, LevelsAfter DEF Was
<1> QED
  BY <1>2 DEF Sweeps, Runs

LEMMA CallsKept ==
  ASSUME IsStack, NEW t \in Threads, NEW k \in 0..Depth(t), NEW fs, Len(fs) \in Nat,
         Leaves(t, k, fs), NEW u \in Threads, NEW n \in 1..Depth(u), u # t \/ n <= k
  PROVE  /\ \A x : Sweeps(u, n, x) => Sweeps(u, n, x)'
         /\ \A x, i : ComesTo(u, n, x, i) => ComesTo(u, n, x, i)' /\ n \in 1..Depth(u)'
<1>1. Depth(t) \in Nat /\ Depth(u) \in Nat
  BY TopOfStack
<1>2. n \in 1..Depth(u)' /\ Level(u, n)' = Level(u, n)
  <2>1. CASE u # t
    BY <1>1, <2>1 DEF Leaves
  <2>2. CASE u = t /\ n <= k
    BY <1>1, <2>2 DEF Leaves, Level
  <2> QED
    BY <2>1, <2>2
<1> QED
  BY <1>2 DEF Sweeps, ComesTo

LEMMA CallsNew ==
  ASSUME NEW t \in Threads, NEW k \in Nat, NEW fs, Len(fs) \in Nat, Leaves(t, k, fs),
         NEW i \in 1..Len(fs), fs[i].op = "stop", NEW n, n = k + i
  PROVE  /\ n \in 1..Depth(t)'
         /\ fs[i].at # 0 => Sweeps(t, n, fs[i].src)'
         /\ \A j : fs[i].at <= j => ComesTo(t, n, fs[i].src, j)'
<1>1. n \in 1..Depth(t)' /\ Level(t, n)' = fs[i]
  BY DEF Leaves, Level
<1> QED
  BY <1>1 DEF Sweeps, ComesTo

LEMMA SlotValues ==
  /\ \A c : <<c>> # Empty
  /\ \A c, d : <<c>> = <<d>> => c = d
BY DEF Empty

LEMMA SlotNumbers ==
  ASSUME TypeOK, NEW s \in Sources
  PROVE  /\ Len(callbacks[s]) \in Nat /\ DOMAIN callbacks[s] = 1..Len(callbacks[s])
         /\ \A i \in DOMAIN callbacks[s] : i \in Nat /\ 0 <= i
<1>1. callbacks[s] \in Seq({Empty} \cup {<<c>> : c \in Callbacks})
  BY DEF TypeOK
<1> QED
  BY <1>1

\* A slot that is emptied stays in its place.
LEMMA SlotCleared ==
  ASSUME TypeOK, NEW s \in Sources, NEW k \in DOMAIN callbacks[s],
         callbacks' = [callbacks EXCEPT ![s][k] = Empty]
  PROVE  /\ callbacks' \in [Sources -> Seq({Empty} \cup {<<c>> : c \in Callbacks})]
         /\ \A x \in Sources :
              /\ DOMAIN callbacks'[x] = DOMAIN callbacks[x]
              /\ \A i \in DOMAIN callbacks[x] : callbacks'[x][i] =
                   IF x = s /\ i = k THEN Empty ELSE callbacks[x][i]
BY DEF TypeOK

\* A step that changes no slot.
LEMMA SlotsKept ==
  ASSUME SlotInv, UNCHANGED <<callbacks, callback_slot, called>>,
         \A c \in Callbacks : (handle[c] \in {"held", "detached"}) =
                              (handle'[c] \in {"held", "detached"})
  PROVE  SlotInv'
BY DEF SlotInv

\* A call goes on, enters or returns, and sweeps no source but s.
LEMMA SweepsKept ==
  ASSUME SweepInv, owner' = owner,
         \A u \in Threads : \A n, x : Sweeps(u, n, x)' => Sweeps(u, n, x)
  PROVE  SweepInv'
BY DEF SweepInv

LEMMA RequestStopInv ==
  ASSUME StopInv, NEW t \in Threads, NEW s \in Sources, RequestStop(t, s)
  PROVE  StopInv'
<1> DEFINE f == Stopping(s, 0)
<1>1. IsStack
  BY DEF StopInv, TypeOK, IsStack
<1>2. f \in Frames /\ f.op = "stop" /\ f.at = 0 /\ f.src = s
  BY DEF Stopping, Frames
<1>3. Depth(t) = 0 /\ Leaves(t, 0, <<f>>)
  BY <1>1, <1>2, Entered DEF RequestStop
<1> HIDE DEF f
<1>4. /\ \A i \in 1..Len(<<f>>) : i = 1 /\ <<f>>[i] = f
      /\ Len(<<f>>) = 1 /\ Len(<<f>>) \in Nat /\ <<f>>[1] = f
  OBVIOUS
<1>5. /\ \A u \in Threads : \A n, x : Sweeps(u, n, x)' => Sweeps(u, n, x)
      /\ \A u \in Threads : \A n, x : Runs(u, n, x)' => Runs(u, n, x)
  BY <1>1, <1>2, <1>3, <1>4, CallsAfter
<1>6. ASSUME NEW u \in Threads, NEW n \in 1..Depth(u)
      PROVE  /\ \A x : Sweeps(u, n, x) => Sweeps(u, n, x)'
             /\ \A x, i : ComesTo(u, n, x, i) => ComesTo(u, n, x, i)' /\ n \in 1..Depth(u)'
  BY <1>1, <1>3, <1>4, CallsKept
<1>7. TypeOK'
  <2>1. stack' \in [Threads -> Seq(Frames)]
    BY <1>3 DEF Leaves, IsStack
  <2>2. requests' \in 0..MaxRequests
    BY StopSourceAssumption DEF RequestStop, StopInv, TypeOK
  <2>3. stopped' \in [Sources -> BOOLEAN]
    BY DEF RequestStop, StopInv, TypeOK
  <2> QED
    BY <2>1, <2>2, <2>3 DEF RequestStop, StopInv, TypeOK
<1>8. SlotInv' /\ CalledInv'
  BY SlotsKept DEF RequestStop, StopInv, CalledInv
<1>9. SweepInv'
  BY <1>5, SweepsKept DEF RequestStop, StopInv
<1>10. RunsInv'
  <2>1. \A u \in Threads : \A n, x : Sweeps(u, n, x) => Sweeps(u, n, x)'
    BY <1>6 DEF Sweeps
  <2> QED
    BY <1>5, <2>1 DEF RequestStop, StopInv, RunsInv
<1>11. ReachInv'
  <2> SUFFICES ASSUME NEW x \in Sources, NEW i \in DOMAIN callbacks'[x],
                      stopped'[x], callbacks'[x][i] # Empty
               PROVE  \E u \in Threads : \E n \in 1..Depth(u)' : ComesTo(u, n, x, i)'
    BY DEF ReachInv
  <2>0. callbacks' = callbacks
    BY DEF RequestStop
  <2>1. i \in DOMAIN callbacks[x] /\ callbacks[x][i] # Empty /\ i \in Nat /\ 0 <= i
    BY <2>0, SlotNumbers DEF StopInv
  <2>2. CASE x = s
    <3>1. 1 \in 1..Len(<<f>>) /\ 1 = 0 + 1 /\ 0 \in Nat
      BY <1>4
    <3>2. 1 \in 1..Depth(t)' /\ ComesTo(t, 1, s, i)'
      BY SMTT(30), <1>2, <1>3, <1>4, <2>1, <3>1, CallsNew
    <3> QED
      BY <2>2, <3>2
  <2>3. CASE x # s
    <3>1. stopped[x]
      BY <2>3 DEF RequestStop, StopInv, TypeOK
    <3>2. PICK u \in Threads : \E n \in 1..Depth(u) : ComesTo(u, n, x, i)
      BY <2>1, <3>1 DEF StopInv, ReachInv
    <3> QED
      BY <1>6, <3>2
  <2> QED
    BY <2>2, <2>3
<1> QED
  BY <1>7, <1>8, <1>9, <1>10, <1>11 DEF StopInv

LEMMA StopTop ==
  ASSUME IsStack, NEW t \in Threads, NEW s \in Sources, InStop(t, s)
  PROVE  /\ ~Idle(t) /\ Depth(t) \in Nat \ {0}
         /\ Level(t, Depth(t)).op = "stop" /\ Level(t, Depth(t)).src = s
         /\ Level(t, Depth(t)).at = At(t) /\ At(t) \in Nat
<1>1. /\ ~Idle(t) /\ Depth(t) \in Nat \ {0} /\ stack[t][1] = Level(t, Depth(t))
      /\ Level(t, Depth(t)) \in Frames
  BY TopOfStack DEF InStop
<1>2. stack[t][1].op = "stop" => stack[t][1].at \in Nat
  BY <1>1 DEF Frames
<1> QED
  BY <1>1, <1>2 DEF InStop, At

LEMMA SweepSources ==
  ASSUME IsStack, NEW t \in Threads, NEW n, NEW s, Sweeps(t, n, s)
  PROVE  s \in Sources
<1>1. Level(t, n) \in Frames
  BY TopOfStack DEF Sweeps
<1> QED
  BY <1>1 DEF Sweeps, Frames

LEMMA FreeSource ==
  ASSUME SweepInv, NEW s, owner[s] = NoOwner
  PROVE  \A t \in Threads : \A n : ~Sweeps(t, n, s)
BY StopSourceAssumption DEF SweepInv

\* The innermost request_stop gets the mutex of s, or has it, and goes on to slot n.
LEMMA WentOnInv ==
  ASSUME StopInv, NEW t \in Threads, NEW s \in Sources, InStop(t, s),
         NEW n \in Nat \ {0}, stack' = [stack EXCEPT ![t][1].at = n],
         UNCHANGED <<stopped, callbacks, handle, callback_slot, called, requests>>,
         \A i \in DOMAIN callbacks[s] : callbacks[s][i] # Empty /\ At(t) <= i => n <= i,
         \/ owner' = owner /\ At(t) # 0
         \/ owner[s] = NoOwner /\ owner' = [owner EXCEPT ![s] = t]
  PROVE  StopInv'
<1>1. IsStack
  BY DEF StopInv, TypeOK, IsStack
<1>d. PICK d \in Nat \ {0} : d = Depth(t)
  BY <1>1, StopTop
<1>2. Level(t, d).op = "stop" /\ Level(t, d).src = s /\ Level(t, d).at = At(t) /\ At(t) \in Nat
  BY <1>1, <1>d, StopTop
<1> DEFINE f == Stopping(s, n)
<1>3. f.op = "stop" /\ f.at = n /\ f.src = s
  BY DEF Stopping
<1>4. Leaves(t, d - 1, <<f>>)
  BY <1>1, <1>d, WentOn
<1> HIDE DEF f
<1> DEFINE fs == <<f>>
<1>5. /\ \A i \in 1..Len(fs) : i = 1 /\ fs[i] = f
      /\ Len(fs) \in Nat /\ fs[1] = f /\ 1 \in 1..Len(fs)
  OBVIOUS
<1>fs. Leaves(t, d - 1, fs)
  BY <1>4
<1> HIDE DEF fs
<1>6. d - 1 \in 0..Depth(t) /\ d - 1 \in Nat /\ (d - 1) + 1 = d
  BY <1>d
<1>7. \A u \in Threads :
        /\ \A m, x : Sweeps(u, m, x)' =>
             (Sweeps(u, m, x) /\ (u # t \/ m <= d - 1)) \/ (u = t /\ m = d /\ x = s)
        /\ \A m, x : Runs(u, m, x)' => Runs(u, m, x) /\ (u # t \/ m <= d - 1)
  <2> TAKE u \in Threads
  <2>1. /\ \A m, x : Sweeps(u, m, x)' =>
             \/ Sweeps(u, m, x) /\ (u # t \/ m <= d - 1)
             \/ u = t /\ \E i \in 1..Len(fs) : m = (d - 1) + i /\ fs[i].op = "stop"
                                             /\ fs[i].src = x /\ fs[i].at # 0
        /\ \A m, x : Runs(u, m, x)' =>
             \/ Runs(u, m, x) /\ (u # t \/ m <= d - 1)
             \/ u = t /\ \E i \in 1..Len(fs) : m = (d - 1) + i /\ fs[i].op = "run"
                                                  /\ fs[i].cb = x
    BY <1>1, <1>fs, <1>5, <1>6, CallsAfter
  <2> QED
    BY <1>3, <1>5, <1>6, <2>1
<1>8. ASSUME NEW u \in Threads, NEW m \in 1..Depth(u), u # t \/ m <= d - 1
      PROVE  /\ \A x : Sweeps(u, m, x) => Sweeps(u, m, x)'
             /\ \A x, i : ComesTo(u, m, x, i) => ComesTo(u, m, x, i)' /\ m \in 1..Depth(u)'
  BY <1>1, <1>fs, <1>5, <1>6, <1>8, CallsKept
<1>9. d \in 1..Depth(t)' /\ \A i : n <= i => ComesTo(t, d, s, i)'
  BY <1>3, <1>fs, <1>5, <1>6, CallsNew
<1>10. TypeOK'
  <2>1. stack' \in [Threads -> Seq(Frames)]
    BY <1>4 DEF Leaves, IsStack
  <2>2. owner' \in [Sources -> Threads \cup {NoOwner}]
    BY DEF StopInv, TypeOK
  <2> QED
    BY <2>1, <2>2 DEF StopInv, TypeOK
<1>11. SlotInv' /\ CalledInv'
  BY SlotsKept DEF StopInv, CalledInv
<1>12. SweepInv'
  <2>1. CASE owner' = owner /\ At(t) # 0
    <3>1. Sweeps(t, d, s)
      BY <1>d, <1>2, <2>1 DEF Sweeps
    <3> QED
      BY <1>7, <2>1, <3>1, SweepsKept DEF StopInv
  <2>2. CASE owner[s] = NoOwner /\ owner' = [owner EXCEPT ![s] = t]
    <3>1. \A u \in Threads : \A m : ~Sweeps(u, m, s)
      BY <2>2, FreeSource DEF StopInv
    <3>2. \A u \in Threads : \A m, x : Sweeps(u, m, x) => owner'[x] = u
      BY <1>1, <2>2, <3>1, SweepSources DEF StopInv, TypeOK, SweepInv
    <3>3. owner'[s] = t
      BY <2>2 DEF StopInv, TypeOK
    <3> QED
      BY <1>7, <3>1, <3>2, <3>3 DEF StopInv, SweepInv
  <2> QED
    BY <2>1, <2>2
<1>13. RunsInv'
  <2> SUFFICES ASSUME NEW u \in Threads, NEW m, NEW c, Runs(u, m, c)',
                      handle[c] # "refused"
               PROVE  handle[c] \in {"held", "detached"} /\ Sweeps(u, m - 1, Home[c])'
    BY DEF RunsInv
  <2>1. Runs(u, m, c) /\ (u # t \/ m <= d - 1)
    BY <1>7
  <2>2. handle[c] \in {"held", "detached"} /\ Sweeps(u, m - 1, Home[c])
    BY <2>1 DEF StopInv, RunsInv
  <2>3. m \in Nat /\ m - 1 \in 1..Depth(u) /\ (u # t \/ m - 1 <= d - 1)
    BY <1>1, <2>1, <2>2, TopOfStack DEF Sweeps, Runs
  <2> QED
    BY <1>8, <2>2, <2>3
<1>14. ReachInv'
  <2> SUFFICES ASSUME NEW x \in Sources, NEW i \in DOMAIN callbacks[x],
                      stopped[x], callbacks[x][i] # Empty
               PROVE  \E u \in Threads : \E m \in 1..Depth(u)' : ComesTo(u, m, x, i)'
    BY DEF ReachInv
  <2>1. PICK u \in Threads : \E m \in 1..Depth(u) : ComesTo(u, m, x, i)
    BY DEF StopInv, ReachInv
  <2>2. PICK m \in 1..Depth(u) : ComesTo(u, m, x, i)
    BY <2>1
  <2>3. CASE u # t \/ m <= d - 1
    BY <1>8, <2>2, <2>3
  <2>4. CASE u = t /\ m > d - 1
    <3>1. m = d
      BY <1>d, <2>2, <2>4
    <3>2. x = s /\ At(t) <= i
      BY <1>2, <2>2, <2>4, <3>1 DEF ComesTo
    <3> QED
      BY <1>9, <2>4, <3>1, <3>2
  <2> QED
    BY <1>d, <2>2, <2>3, <2>4
<1> QED
  BY <1>10, <1>11, <1>12, <1>13, <1>14 DEF StopInv

LEMMA LockSkipInv ==
  ASSUME StopInv, NEW t \in Threads, NEW s \in Sources, Lock(t, s) \/ SkipSlot(t, s)
  PROVE  StopInv'
<1>1. IsStack
  BY DEF StopInv, TypeOK, IsStack
<1>2. CASE Lock(t, s)
  <2>1. \A i \in DOMAIN callbacks[s] : 1 <= i
    BY SlotNumbers DEF StopInv
  <2>2. InStop(t, s) /\ stack' = [stack EXCEPT ![t][1].at = 1] /\ 1 \in Nat \ {0}
        /\ UNCHANGED <<stopped, callbacks, handle, callback_slot, called, requests>>
    BY <1>2 DEF Lock
  <2>3. owner[s] = NoOwner /\ owner' = [owner EXCEPT ![s] = t]
    BY <1>2 DEF Lock
  <2> QED
    BY <2>1, <2>2, <2>3, WentOnInv
<1>3. CASE SkipSlot(t, s)
  <2>1. PICK n \in Nat \ {0} : n = At(t) + 1 /\ At(t) \in Nat
    BY <1>1, <1>3, StopTop DEF SkipSlot
  <2>2. \A i \in DOMAIN callbacks[s] : callbacks[s][i] # Empty /\ At(t) <= i => n <= i
    BY <1>3, <2>1, SlotNumbers DEF SkipSlot, StopInv
  <2>3. stack' = [stack EXCEPT ![t][1].at = n]
    BY <1>3, <2>1 DEF SkipSlot, At
  <2>4. At(t) # 0 /\ owner' = owner
    BY <1>3, <2>1 DEF SkipSlot
  <2> QED
    BY <1>3, <2>2, <2>3, <2>4, WentOnInv DEF SkipSlot
<1> QED
  BY <1>2, <1>3

\* What is on the stack when the function of c is called.
Callee(c) == IF Forward[c] = Leaf THEN Running(c) ELSE Stopping(Forward[c], 0)

LEMMA CallFacts ==
  ASSUME TypeOK, NEW t \in Threads, NEW c \in Callbacks, NEW rest, Call(t, c, rest)
  PROVE  /\ stack' = [stack EXCEPT ![t] = <<Callee(c)>> \o rest]
         /\ Callee(c) \in Frames
         /\ Callee(c).op = "run" => Callee(c).cb = c
         /\ Callee(c).op = "stop" => Callee(c).at = 0
         /\ called' = [called EXCEPT ![c] = called[c] + 1]
         /\ stopped' \in [Sources -> BOOLEAN]
         /\ \A x \in Sources : stopped'[x] =>
              stopped[x] \/ (Callee(c).op = "stop" /\ Callee(c).src = x)
<1>1. CASE Forward[c] = Leaf
  BY <1>1 DEF Call, Callee, Running, Frames, TypeOK
<1>2. CASE Forward[c] # Leaf
  <2>1. Forward[c] \in Sources
    BY <1>2, StopSourceAssumption
  <2>2. stopped' = [stopped EXCEPT ![Forward[c]] = TRUE]
    BY <1>2 DEF Call
  <2>3. stopped' \in [Sources -> BOOLEAN] /\ \A x \in Sources : stopped'[x] =>
          stopped[x] \/ Forward[c] = x
    BY <2>1, <2>2 DEF TypeOK
  <2> QED
    BY <1>2, <2>1, <2>3 DEF Call, Callee, Stopping, Frames
<1> QED
  BY <1>1, <1>2

LEMMA InvokeSlotInv ==
  ASSUME StopInv, NEW t \in Threads, NEW s \in Sources, InvokeSlot(t, s)
  PROVE  StopInv'
<1>1. IsStack
  BY DEF StopInv, TypeOK, IsStack
<1>a. PICK a \in Nat : a = At(t) /\ a \in DOMAIN callbacks[s]
  BY SlotNumbers DEF InvokeSlot, StopInv
<1>c. PICK c \in Callbacks :
        /\ callbacks[s][a] = <<c>>
        /\ callbacks' = [callbacks EXCEPT ![s][a] = Empty]
        /\ Call(t, c, <<Stopping(s, At(t) + 1)>> \o Tail(stack[t]))
  BY <1>a DEF InvokeSlot
<1>d. PICK d \in Nat \ {0} : d = Depth(t)
  BY <1>1, StopTop DEF InvokeSlot
<1>2. /\ Level(t, d).op = "stop" /\ Level(t, d).src = s /\ Level(t, d).at = a /\ a # 0
      /\ ~Idle(t)
  BY <1>1, <1>d, <1>a, StopTop, SlotNumbers DEF InvokeSlot, StopInv
<1> DEFINE f == Stopping(s, a + 1)
           g == Callee(c)
<1>3. /\ f \in Frames /\ f.op = "stop" /\ f.at = a + 1 /\ f.at # 0 /\ f.src = s
      /\ g \in Frames /\ (g.op = "run" => g.cb = c) /\ (g.op = "stop" => g.at = 0)
  <2>1. f \in Frames /\ f.op = "stop" /\ f.at = a + 1 /\ f.at # 0 /\ f.src = s
    BY DEF Stopping, Frames
  <2>2. g \in Frames /\ (g.op = "run" => g.cb = c) /\ (g.op = "stop" => g.at = 0)
    BY <1>c, CallFacts DEF StopInv
  <2> QED
    BY <2>1, <2>2
<1>4. Leaves(t, d - 1, <<f, g>>)
  <2>1. stack' = [stack EXCEPT ![t] = <<g>> \o (<<f>> \o Tail(stack[t]))]
    BY ZenonT(30), <1>a, <1>c, CallFacts DEF StopInv
  <2> QED
    BY <1>1, <1>d, <1>2, <1>3, <2>1, Called
<1> HIDE DEF f, g
<1> DEFINE fs == <<f, g>>
<1>5. /\ \A i \in 1..Len(fs) : (i = 1 /\ fs[i] = f) \/ (i = 2 /\ fs[i] = g)
      /\ Len(fs) \in Nat /\ fs[1] = f /\ fs[2] = g /\ 1 \in 1..Len(fs) /\ 2 \in 1..Len(fs)
  OBVIOUS
<1>fs. Leaves(t, d - 1, fs)
  BY <1>4
<1> HIDE DEF fs
<1>6. d - 1 \in 0..Depth(t) /\ d - 1 \in Nat /\ (d - 1) + 1 = d /\ (d - 1) + 2 = d + 1
  BY <1>d
<1>7. \A u \in Threads :
        /\ \A m, x : Sweeps(u, m, x)' =>
             (Sweeps(u, m, x) /\ (u # t \/ m <= d - 1)) \/ (u = t /\ m = d /\ x = s)
        /\ \A m, x : Runs(u, m, x)' =>
             (Runs(u, m, x) /\ (u # t \/ m <= d - 1)) \/ (u = t /\ m = d + 1 /\ x = c)
  <2> TAKE u \in Threads
  <2>1. /\ \A m, x : Sweeps(u, m, x)' =>
             \/ Sweeps(u, m, x) /\ (u # t \/ m <= d - 1)
             \/ u = t /\ \E i \in 1..Len(fs) : m = (d - 1) + i /\ fs[i].op = "stop"
                                             /\ fs[i].src = x /\ fs[i].at # 0
        /\ \A m, x : Runs(u, m, x)' =>
             \/ Runs(u, m, x) /\ (u # t \/ m <= d - 1)
             \/ u = t /\ \E i \in 1..Len(fs) : m = (d - 1) + i /\ fs[i].op = "run"
                                                  /\ fs[i].cb = x
    BY SMTT(30), <1>1, <1>fs, <1>5, <1>6, CallsAfter
  <2> QED
    BY <1>3, <1>5, <1>6, <2>1
<1>8. ASSUME NEW u \in Threads, NEW m \in 1..Depth(u), u # t \/ m <= d - 1
      PROVE  /\ \A x : Sweeps(u, m, x) => Sweeps(u, m, x)'
             /\ \A x, i : ComesTo(u, m, x, i) => ComesTo(u, m, x, i)' /\ m \in 1..Depth(u)'
  BY <1>1, <1>fs, <1>5, <1>6, <1>8, CallsKept
<1>9. /\ d \in 1..Depth(t)' /\ Sweeps(t, d, s)'
      /\ \A i : a + 1 <= i => ComesTo(t, d, s, i)'
  BY <1>3, <1>fs, <1>5, <1>6, CallsNew
<1>10. g.op = "stop" =>
         d + 1 \in 1..Depth(t)' /\ \A i : 0 <= i => ComesTo(t, d + 1, g.src, i)'
  BY <1>3, <1>fs, <1>5, <1>6, CallsNew
<1>11. Sweeps(t, d, s)
  BY <1>d, <1>2 DEF Sweeps
<1>12. /\ s = Home[c] /\ a = callback_slot[c] /\ handle[c] \in {"held", "detached"}
       /\ called[c] = 0 /\ called' = [called EXCEPT ![c] = 1]
  <2>1. s = Home[c] /\ a = callback_slot[c] /\ handle[c] \in {"held", "detached"}
    BY <1>a, <1>c DEF StopInv, SlotInv
  <2>2. called[c] = 0
    BY <1>c, <2>1, SlotValues DEF StopInv, SlotInv
  <2>3. called' = [called EXCEPT ![c] = called[c] + 1]
    BY <1>c DEF Call
  <2>4. 0 + 1 = 1
    OBVIOUS
  <2> QED
    BY <2>1, <2>2, <2>3, <2>4
<1>13. TypeOK'
  <2>1. stack' \in [Threads -> Seq(Frames)]
    BY <1>fs DEF Leaves, IsStack
  <2>2. stopped' \in [Sources -> BOOLEAN]
    BY <1>c, CallFacts DEF StopInv
  <2>3. callbacks' \in [Sources -> Seq({Empty} \cup {<<x>> : x \in Callbacks})]
    BY <1>a, <1>c, SlotCleared DEF StopInv
  <2>4. called' \in [Callbacks -> Nat]
    BY <1>12 DEF StopInv, TypeOK
  <2> QED
    BY <2>1, <2>2, <2>3, <2>4 DEF InvokeSlot, StopInv, TypeOK
<1>14. \A x \in Sources : /\ DOMAIN callbacks'[x] = DOMAIN callbacks[x]
                          /\ \A i \in DOMAIN callbacks[x] : callbacks'[x][i] =
                               IF x = s /\ i = a THEN Empty ELSE callbacks[x][i]
  BY <1>a, <1>c, SlotCleared DEF StopInv
<1>15. SlotInv'
  <2>1. handle' = handle /\ callback_slot' = callback_slot
    BY DEF InvokeSlot
  <2>2. ASSUME NEW x \in Sources, NEW i \in DOMAIN callbacks'[x], NEW e \in Callbacks,
               callbacks'[x][i] = <<e>>
        PROVE  x = Home[e] /\ i = callback_slot[e] /\ handle[e] \in {"held", "detached"}
    <3>1. <<e>> # Empty
      BY SlotValues
    <3>2. i \in DOMAIN callbacks[x] /\ callbacks[x][i] = <<e>>
      BY <1>14, <2>2, <3>1
    <3> QED
      BY <3>2 DEF StopInv, SlotInv
  <2>3. ASSUME NEW e \in Callbacks, handle[e] \in {"held", "detached"}
        PROVE  /\ callback_slot[e] \in DOMAIN callbacks'[Home[e]]
               /\ callbacks'[Home[e]][callback_slot[e]] =
                    IF called'[e] = 0 THEN <<e>> ELSE Empty
    <3>1. /\ callback_slot[e] \in DOMAIN callbacks[Home[e]] /\ Home[e] \in Sources
          /\ callbacks[Home[e]][callback_slot[e]] = IF called[e] = 0 THEN <<e>> ELSE Empty
      BY <2>3, StopSourceAssumption DEF StopInv, SlotInv
    <3>2. CASE e = c
      BY <1>12, <1>14, <3>1, <3>2 DEF StopInv, TypeOK
    <3>3. CASE e # c
      <4>1. called'[e] = called[e]
        BY <1>12, <3>3 DEF StopInv, TypeOK
      <4>2. Home[e] = s /\ callback_slot[e] = a => called[e] # 0
        BY <1>c, <3>1, <3>3, SlotValues
      <4> QED
        BY <1>14, <3>1, <4>1, <4>2
    <3> QED
      BY <3>2, <3>3
  <2> QED
    BY <2>1, <2>2, <2>3 DEF SlotInv
<1>16. CalledInv'
  BY <1>12 DEF InvokeSlot, StopInv, TypeOK, CalledInv
<1>17. SweepInv'
  BY <1>7, <1>11, SweepsKept DEF StopInv, InvokeSlot
<1>18. RunsInv'
  <2> SUFFICES ASSUME NEW u \in Threads, NEW m, NEW x, Runs(u, m, x)',
                      handle[x] # "refused"
               PROVE  handle[x] \in {"held", "detached"} /\ Sweeps(u, m - 1, Home[x])'
    BY DEF RunsInv, InvokeSlot
  <2>1. CASE Runs(u, m, x) /\ (u # t \/ m <= d - 1)
    <3>1. handle[x] \in {"held", "detached"} /\ Sweeps(u, m - 1, Home[x])
      BY <2>1 DEF StopInv, RunsInv
    <3>2. m \in Nat /\ m - 1 \in 1..Depth(u) /\ (u # t \/ m - 1 <= d - 1)
      BY <1>1, <2>1, <3>1, TopOfStack DEF Sweeps, Runs
    <3> QED
      BY <1>8, <3>1, <3>2
  <2>2. CASE u = t /\ m = d + 1 /\ x = c
    <3>1. m - 1 = d
      BY <2>2, <1>d
    <3> QED
      BY <1>9, <1>12, <2>2, <3>1
  <2> QED
    BY <1>7, <2>1, <2>2
<1>19. ReachInv'
  <2> SUFFICES ASSUME NEW x \in Sources, NEW i \in DOMAIN callbacks'[x],
                      stopped'[x], callbacks'[x][i] # Empty
               PROVE  \E u \in Threads : \E m \in 1..Depth(u)' : ComesTo(u, m, x, i)'
    BY DEF ReachInv
  <2>1. /\ i \in DOMAIN callbacks[x] /\ callbacks[x][i] # Empty /\ ~(x = s /\ i = a)
        /\ i \in Nat /\ 0 <= i
    BY <1>14, SlotNumbers DEF StopInv
  <2>2. CASE ~stopped[x]
    <3>1. g.op = "stop" /\ g.src = x
      BY <1>c, <2>2, CallFacts DEF StopInv, g
    <3> QED
      BY <1>10, <2>1, <3>1
  <2>3. CASE stopped[x]
    <3>1. PICK u \in Threads : \E m \in 1..Depth(u) : ComesTo(u, m, x, i)
      BY <2>1, <2>3 DEF StopInv, ReachInv
    <3>2. PICK m \in 1..Depth(u) : ComesTo(u, m, x, i)
      BY <3>1
    <3>3. CASE u # t \/ m <= d - 1
      BY <1>8, <3>2, <3>3
    <3>4. CASE u = t /\ m > d - 1
      <4>1. m = d
        BY <1>d, <3>2, <3>4
      <4>2. x = s /\ a <= i
        BY <1>2, <3>2, <3>4, <4>1 DEF ComesTo
      <4>3. a + 1 <= i
        BY <2>1, <4>2
      <4> QED
        BY <1>9, <3>4, <4>1, <4>2, <4>3
    <3> QED
      BY <1>d, <3>2, <3>3, <3>4
  <2> QED
    BY <2>2, <2>3
<1> QED
  BY <1>13, <1>15, <1>16, <1>17, <1>18, <1>19 DEF StopInv

----------------------------------------------------------------------------
(* A call returns. *)

LEMMA PoppedInv ==
  ASSUME StopInv, NEW t \in Threads, ~Idle(t), stack' = [stack EXCEPT ![t] = Tail(@)],
         UNCHANGED <<stopped, callbacks, handle, callback_slot, called, requests>>,
         owner' \in [Sources -> Threads \cup {NoOwner}],
         NEW d \in Nat \ {0}, d = Depth(t),
         \A u \in Threads : \A m, x : Sweeps(u, m, x) /\ (u # t \/ m <= d - 1) => owner'[x] = u,
         \A x \in Sources : \A i \in DOMAIN callbacks[x] : ~ComesTo(t, d, x, i)
  PROVE  StopInv'
<1>1. IsStack
  BY DEF StopInv, TypeOK, IsStack
<1> DEFINE fs == <<>>
<1>2. Len(fs) \in Nat /\ \A i \in 1..Len(fs) : FALSE
  OBVIOUS
<1>3. Leaves(t, d - 1, fs)
  BY <1>1, Popped
<1> HIDE DEF fs
<1>4. d - 1 \in 0..Depth(t)
  OBVIOUS
<1>5. \A u \in Threads :
        /\ \A m, x : Sweeps(u, m, x)' => Sweeps(u, m, x) /\ (u # t \/ m <= d - 1)
        /\ \A m, x : Runs(u, m, x)' => Runs(u, m, x) /\ (u # t \/ m <= d - 1)
  <2> TAKE u \in Threads
  <2>1. /\ \A m, x : Sweeps(u, m, x)' =>
             \/ Sweeps(u, m, x) /\ (u # t \/ m <= d - 1)
             \/ u = t /\ \E i \in 1..Len(fs) : m = (d - 1) + i /\ fs[i].op = "stop"
                                             /\ fs[i].src = x /\ fs[i].at # 0
        /\ \A m, x : Runs(u, m, x)' =>
             \/ Runs(u, m, x) /\ (u # t \/ m <= d - 1)
             \/ u = t /\ \E i \in 1..Len(fs) : m = (d - 1) + i /\ fs[i].op = "run"
                                                  /\ fs[i].cb = x
    BY <1>1, <1>2, <1>3, <1>4, CallsAfter
  <2> QED
    BY <1>2, <2>1
<1>6. ASSUME NEW u \in Threads, NEW m \in 1..Depth(u), u # t \/ m <= d - 1
      PROVE  /\ \A x : Sweeps(u, m, x) => Sweeps(u, m, x)'
             /\ \A x, i : ComesTo(u, m, x, i) => ComesTo(u, m, x, i)' /\ m \in 1..Depth(u)'
  BY <1>1, <1>2, <1>3, <1>4, <1>6, CallsKept
<1>7. TypeOK'
  <2>1. stack' \in [Threads -> Seq(Frames)]
    BY <1>3 DEF Leaves, IsStack
  <2> QED
    BY <2>1 DEF StopInv, TypeOK
<1>8. SlotInv' /\ CalledInv'
  BY SlotsKept DEF StopInv, CalledInv
<1>9. SweepInv'
  <2>1. \A u \in Threads : \A m, x : Sweeps(u, m, x)' => owner'[x] = u
    BY <1>5
  <2> QED
    BY <1>5, <2>1 DEF StopInv, SweepInv
<1>10. RunsInv'
  <2> SUFFICES ASSUME NEW u \in Threads, NEW m, NEW c, Runs(u, m, c)',
                      handle[c] # "refused"
               PROVE  handle[c] \in {"held", "detached"} /\ Sweeps(u, m - 1, Home[c])'
    BY DEF RunsInv
  <2>1. Runs(u, m, c) /\ (u # t \/ m <= d - 1)
    BY <1>5
  <2>2. handle[c] \in {"held", "detached"} /\ Sweeps(u, m - 1, Home[c])
    BY <2>1 DEF StopInv, RunsInv
  <2>3. m \in Nat /\ m - 1 \in 1..Depth(u) /\ (u # t \/ m - 1 <= d - 1)
    BY <1>1, <2>1, <2>2, TopOfStack DEF Sweeps, Runs
  <2> QED
    BY <1>6, <2>2, <2>3
<1>11. ReachInv'
  <2> SUFFICES ASSUME NEW x \in Sources, NEW i \in DOMAIN callbacks[x],
                      stopped[x], callbacks[x][i] # Empty
               PROVE  \E u \in Threads : \E m \in 1..Depth(u)' : ComesTo(u, m, x, i)'
    BY DEF ReachInv
  <2>1. PICK u \in Threads : \E m \in 1..Depth(u) : ComesTo(u, m, x, i)
    BY DEF StopInv, ReachInv
  <2>2. PICK m \in 1..Depth(u) : ComesTo(u, m, x, i)
    BY <2>1
  <2>3. u # t \/ m # d
    BY <2>2
  <2>4. u # t \/ m <= d - 1
    BY <2>3
  <2> QED
    BY <1>6, <2>2, <2>4
<1> QED
  BY <1>7, <1>8, <1>9, <1>10, <1>11 DEF StopInv

LEMMA UnlockInv ==
  ASSUME StopInv, NEW t \in Threads, NEW s \in Sources, Unlock(t, s)
  PROVE  StopInv'
<1>1. IsStack
  BY DEF StopInv, TypeOK, IsStack
<1>d. PICK d \in Nat \ {0} : d = Depth(t)
  BY <1>1, StopTop DEF Unlock
<1>2. /\ Level(t, d).op = "stop" /\ Level(t, d).src = s /\ Level(t, d).at = At(t)
      /\ At(t) \in Nat /\ ~Idle(t)
  BY <1>1, <1>d, StopTop DEF Unlock
<1>3. At(t) # 0 /\ \A i \in DOMAIN callbacks[s] : ~(At(t) <= i)
  BY <1>2, SlotNumbers DEF Unlock, StopInv
<1>4. Sweeps(t, d, s)
  BY <1>d, <1>2, <1>3 DEF Sweeps
<1>5. \A x \in Sources : \A i \in DOMAIN callbacks[x] : ~ComesTo(t, d, x, i)
  BY <1>2, <1>3 DEF ComesTo
<1>6. ASSUME NEW u \in Threads, NEW m, NEW x, Sweeps(u, m, x), u # t \/ m <= d - 1
      PROVE  owner'[x] = u
  <2>1. x \in Sources
    BY <1>1, <1>6, SweepSources
  <2>2. u # t \/ m # d
    BY <1>6
  <2>3. x # s
    BY <1>4, <1>6, <2>2 DEF StopInv, SweepInv
  <2>4. owner[x] = u
    BY <1>6 DEF StopInv, SweepInv
  <2> QED
    BY <2>1, <2>3, <2>4 DEF Unlock, StopInv, TypeOK
<1>7. owner' \in [Sources -> Threads \cup {NoOwner}]
  BY DEF Unlock, StopInv, TypeOK
<1>8. /\ stack' = [stack EXCEPT ![t] = Tail(@)]
      /\ UNCHANGED <<stopped, callbacks, handle, callback_slot, called, requests>>
  BY DEF Unlock
<1> QED
  BY <1>d, <1>2, <1>5, <1>6, <1>7, <1>8, PoppedInv

LEMMA ReturnInv ==
  ASSUME StopInv, NEW t \in Threads, Return(t)
  PROVE  StopInv'
<1>1. IsStack
  BY DEF StopInv, TypeOK, IsStack
<1>d. PICK d \in Nat \ {0} : d = Depth(t)
  BY <1>1, TopOfStack DEF Return
<1>2. Level(t, d).op = "run"
  BY <1>1, <1>d, TopOfStack DEF Return
<1>3. \A x \in Sources : \A i \in DOMAIN callbacks[x] : ~ComesTo(t, d, x, i)
  BY <1>2 DEF ComesTo
<1>4. \A u \in Threads : \A m, x : Sweeps(u, m, x) => owner'[x] = u
  BY DEF Return, StopInv, SweepInv
<1>5. owner' \in [Sources -> Threads \cup {NoOwner}]
  BY DEF Return, StopInv, TypeOK
<1>6. /\ stack' = [stack EXCEPT ![t] = Tail(@)] /\ ~Idle(t)
      /\ UNCHANGED <<stopped, callbacks, handle, callback_slot, called, requests>>
  BY DEF Return
<1> QED
  BY <1>d, <1>3, <1>4, <1>5, <1>6, PoppedInv

----------------------------------------------------------------------------
(* Steps of the handles. *)

\* A step that changes no stack.
LEMMA StacksKept ==
  ASSUME stack' = stack
  PROVE  \A t : /\ Depth(t)' = Depth(t)
                /\ \A n, x : Sweeps(t, n, x)' = Sweeps(t, n, x)
                /\ \A n, x : Runs(t, n, x)' = Runs(t, n, x)
                /\ \A n, x, i : ComesTo(t, n, x, i)' = ComesTo(t, n, x, i)
BY DEF Depth, Level, Sweeps, Runs, ComesTo

\* register accepts the callback: it gets a slot at the end of those of its source.
LEMMA AcceptInv ==
  ASSUME StopInv, NEW t \in Threads, NEW c \in Callbacks, Register(t, c), ~stopped[Home[c]]
  PROVE  StopInv'
<1> DEFINE s == Home[c]
           k == Len(callbacks[s]) + 1
<1>1. s \in Sources /\ k \in Nat \ {0} /\ DOMAIN callbacks[s] = 1..(k - 1)
  BY StopSourceAssumption, SlotNumbers DEF StopInv
<1>2. /\ handle[c] = "none" /\ callbacks' = [callbacks EXCEPT ![s] = Append(@, <<c>>)]
      /\ callback_slot' = [callback_slot EXCEPT ![c] = k]
      /\ UNCHANGED <<stopped, owner, stack, called, requests>>
  BY DEF Register
<1>3. PICK h \in {"held", "detached"} : handle' = [handle EXCEPT ![c] = h]
  BY DEF Register
<1>4. callbacks[s] \in Seq({Empty} \cup {<<e>> : e \in Callbacks})
  BY <1>1 DEF StopInv, TypeOK
<1>5. /\ Append(callbacks[s], <<c>>) \in Seq({Empty} \cup {<<e>> : e \in Callbacks})
      /\ DOMAIN Append(callbacks[s], <<c>>) = 1..k
      /\ Append(callbacks[s], <<c>>)[k] = <<c>>
      /\ \A i \in 1..(k - 1) : Append(callbacks[s], <<c>>)[i] = callbacks[s][i]
  BY <1>4
<1>6. /\ callbacks'[s] = Append(callbacks[s], <<c>>)
      /\ \A x \in Sources : x # s => callbacks'[x] = callbacks[x]
  BY <1>1, <1>2 DEF StopInv, TypeOK
<1>7. /\ handle'[c] = h /\ \A e \in Callbacks : e # c => handle'[e] = handle[e]
      /\ callback_slot'[c] = k
      /\ \A e \in Callbacks : e # c => callback_slot'[e] = callback_slot[e]
  BY <1>2, <1>3 DEF StopInv, TypeOK
<1>8. called[c] = 0
  BY <1>2 DEF StopInv, CalledInv
<1>9. TypeOK'
  <2>1. callbacks' \in [Sources -> Seq({Empty} \cup {<<e>> : e \in Callbacks})]
    BY <1>1, <1>2, <1>5 DEF StopInv, TypeOK
  <2>2. /\ callback_slot' \in [Callbacks -> Nat]
        /\ handle' \in [Callbacks -> {"none", "held", "detached", "dropped", "refused"}]
    BY <1>1, <1>2, <1>3 DEF StopInv, TypeOK
  <2> QED
    BY <1>2, <2>1, <2>2 DEF StopInv, TypeOK
<1> HIDE DEF s, k
<1>10. SlotInv'
  <2>1. ASSUME NEW x \in Sources, NEW i \in DOMAIN callbacks'[x], NEW e \in Callbacks,
               callbacks'[x][i] = <<e>>
        PROVE  x = Home[e] /\ i = callback_slot'[e] /\ handle'[e] \in {"held", "detached"}
    <3>1. CASE x = s /\ i = k
      <4>1. e = c
        BY <1>5, <1>6, <2>1, <3>1, SlotValues
      <4> QED
        BY <1>7, <3>1, <4>1 DEF s
    <3>2. CASE ~(x = s /\ i = k)
      <4>1. i \in DOMAIN callbacks[x] /\ callbacks[x][i] = <<e>>
        <5>1. CASE x = s
          BY <1>1, <1>5, <1>6, <2>1, <3>2, <5>1
        <5>2. CASE x # s
          BY <1>6, <2>1, <5>2
        <5> QED
          BY <5>1, <5>2
      <4>2. x = Home[e] /\ i = callback_slot[e] /\ handle[e] \in {"held", "detached"}
        BY <4>1 DEF StopInv, SlotInv
      <4> QED
        BY <1>2, <1>7, <4>2
    <3> QED
      BY <3>1, <3>2
  <2>2. ASSUME NEW e \in Callbacks, handle'[e] \in {"held", "detached"}
        PROVE  /\ callback_slot'[e] \in DOMAIN callbacks'[Home[e]]
               /\ callbacks'[Home[e]][callback_slot'[e]] =
                    IF called[e] = 0 THEN <<e>> ELSE Empty
    <3>1. CASE e = c
      <4>1. k \in 1..k
        BY <1>1
      <4> QED
        BY <1>5, <1>6, <1>7, <1>8, <3>1, <4>1 DEF s
    <3>2. CASE e # c
      <4>1. /\ callback_slot[e] \in DOMAIN callbacks[Home[e]] /\ Home[e] \in Sources
            /\ callbacks[Home[e]][callback_slot[e]] = IF called[e] = 0 THEN <<e>> ELSE Empty
        BY <1>7, <2>2, <3>2, StopSourceAssumption DEF StopInv, SlotInv
      <4>2. /\ callback_slot[e] \in DOMAIN callbacks'[Home[e]]
            /\ callbacks'[Home[e]][callback_slot[e]] = callbacks[Home[e]][callback_slot[e]]
        <5>1. CASE Home[e] = s
          <6>1. callback_slot[e] \in 1..(k - 1) /\ callback_slot[e] \in 1..k
            BY <1>1, <4>1, <5>1
          <6>2. /\ DOMAIN callbacks'[s] = 1..k
                /\ \A i \in 1..(k - 1) : callbacks'[s][i] = callbacks[s][i]
            BY <1>5, <1>6
          <6> QED
            BY <5>1, <6>1, <6>2
        <5>2. CASE Home[e] # s
          BY <1>6, <4>1, <5>2
        <5> QED
          BY <5>1, <5>2
      <4> QED
        BY <1>7, <3>2, <4>1, <4>2
    <3> QED
      BY <3>1, <3>2
  <2>3. called' = called
    BY <1>2
  <2> QED
    BY <2>1, <2>2, <2>3 DEF SlotInv
<1>11. CalledInv'
  BY <1>2, <1>3, <1>7 DEF StopInv, CalledInv
<1>12. /\ \A u : \A n, x : Sweeps(u, n, x)' = Sweeps(u, n, x)
       /\ \A u : \A n, x : Runs(u, n, x)' = Runs(u, n, x)
       /\ \A u : Depth(u)' = Depth(u)
       /\ \A u : \A n, x, i : ComesTo(u, n, x, i)' = ComesTo(u, n, x, i)
  BY <1>2, StacksKept
<1>13. SweepInv'
  BY <1>2, <1>12, SweepsKept DEF StopInv
<1>14. RunsInv'
  <2> SUFFICES ASSUME NEW u \in Threads, NEW m, NEW x, Runs(u, m, x),
                      handle'[x] # "refused"
               PROVE  handle'[x] \in {"held", "detached"} /\ Sweeps(u, m - 1, Home[x])
    BY <1>12 DEF RunsInv
  <2>1. handle[x] \in {"refused", "held", "detached"} /\ x # c
    BY <1>2 DEF StopInv, RunsInv
  <2>2. handle'[x] = handle[x]
    BY <1>3, <2>1
  <2> QED
    BY <2>2 DEF StopInv, RunsInv
<1>15. ReachInv'
  <2> SUFFICES ASSUME NEW x \in Sources, NEW i \in DOMAIN callbacks'[x],
                      stopped[x], callbacks'[x][i] # Empty
               PROVE  \E u \in Threads : \E m \in 1..Depth(u) : ComesTo(u, m, x, i)
    BY <1>2, <1>12 DEF ReachInv
  <2>1. x # s
    BY DEF s
  <2>2. i \in DOMAIN callbacks[x] /\ callbacks[x][i] # Empty
    BY <1>6, <2>1
  <2> QED
    BY <2>2 DEF StopInv, ReachInv
<1> QED
  BY <1>9, <1>10, <1>11, <1>13, <1>14, <1>15 DEF StopInv

\* register gives the function back, since a stop was requested: it runs at once.
LEMMA RefuseInv ==
  ASSUME StopInv, NEW t \in Threads, NEW c \in Callbacks, Register(t, c), stopped[Home[c]]
  PROVE  StopInv'
<1>1. IsStack
  BY DEF StopInv, TypeOK, IsStack
<1>2. /\ handle[c] = "none" /\ handle' = [handle EXCEPT ![c] = "refused"] /\ Idle(t)
      /\ Call(t, c, <<>>)
      /\ UNCHANGED <<owner, callbacks, callback_slot, requests>>
  BY DEF Register
<1> DEFINE f == Callee(c)
<1>3. /\ f \in Frames /\ (f.op = "run" => f.cb = c) /\ (f.op = "stop" => f.at = 0)
      /\ \A x \in Sources : stopped'[x] => stopped[x] \/ (f.op = "stop" /\ f.src = x)
      /\ stopped' \in [Sources -> BOOLEAN]
  BY <1>2, CallFacts DEF StopInv
<1>4. Depth(t) = 0 /\ Leaves(t, 0, <<f>>)
  <2>1. stack' = [stack EXCEPT ![t] = <<f>> \o <<>>]
    BY ZenonT(30), <1>2, CallFacts DEF StopInv
  <2>2. <<f>> \o <<>> = <<f>>
    OBVIOUS
  <2> QED
    BY <1>1, <1>2, <1>3, <2>1, <2>2, Entered
<1>5. called[c] = 0 /\ called' = [called EXCEPT ![c] = 1]
  <2>1. called[c] = 0
    BY <1>2 DEF StopInv, CalledInv
  <2>2. called' = [called EXCEPT ![c] = called[c] + 1]
    BY <1>2 DEF Call
  <2>3. 0 + 1 = 1
    OBVIOUS
  <2> QED
    BY <2>1, <2>2, <2>3
<1> HIDE DEF f
<1> DEFINE fs == <<f>>
<1>6. /\ \A i \in 1..Len(fs) : i = 1 /\ fs[i] = f
      /\ Len(fs) \in Nat /\ fs[1] = f /\ 1 \in 1..Len(fs)
  OBVIOUS
<1>fs. Leaves(t, 0, fs)
  BY <1>4
<1> HIDE DEF fs
<1>7. \A u \in Threads :
        /\ \A n, x : Sweeps(u, n, x)' => Sweeps(u, n, x)
        /\ \A n, x : Runs(u, n, x)' => Runs(u, n, x) \/ x = c
  <2> TAKE u \in Threads
  <2>1. 0 \in 0..Depth(t)
    BY <1>4
  <2>2. /\ \A n, x : Sweeps(u, n, x)' =>
             \/ Sweeps(u, n, x) /\ (u # t \/ n <= 0)
             \/ u = t /\ \E i \in 1..Len(fs) : n = 0 + i /\ fs[i].op = "stop"
                                             /\ fs[i].src = x /\ fs[i].at # 0
        /\ \A n, x : Runs(u, n, x)' =>
             \/ Runs(u, n, x) /\ (u # t \/ n <= 0)
             \/ u = t /\ \E i \in 1..Len(fs) : n = 0 + i /\ fs[i].op = "run" /\ fs[i].cb = x
    BY <1>1, <1>fs, <1>6, <2>1, CallsAfter
  <2> QED
    BY <1>3, <1>6, <2>2
<1>8. ASSUME NEW u \in Threads, NEW n \in 1..Depth(u)
      PROVE  /\ \A x : Sweeps(u, n, x) => Sweeps(u, n, x)'
             /\ \A x, i : ComesTo(u, n, x, i) => ComesTo(u, n, x, i)' /\ n \in 1..Depth(u)'
  <2>1. 0 \in 0..Depth(t) /\ u # t
    BY <1>4
  <2> QED
    BY <1>1, <1>fs, <1>6, <2>1, CallsKept
<1>9. TypeOK'
  <2>1. stack' \in [Threads -> Seq(Frames)]
    BY <1>4 DEF Leaves, IsStack
  <2>2. called' \in [Callbacks -> Nat]
    BY <1>5 DEF StopInv, TypeOK
  <2>3. handle' \in [Callbacks -> {"none", "held", "detached", "dropped", "refused"}]
    BY <1>2 DEF StopInv, TypeOK
  <2> QED
    BY <1>2, <1>3, <2>1, <2>2, <2>3 DEF StopInv, TypeOK
<1>10. /\ handle'[c] = "refused" /\ \A e \in Callbacks : e # c => handle'[e] = handle[e]
       /\ \A e \in Callbacks : e # c => called'[e] = called[e]
       /\ called'[c] = 1
  BY <1>2, <1>5 DEF StopInv, TypeOK
<1>11. SlotInv'
  <2>1. ASSUME NEW x \in Sources, NEW i \in DOMAIN callbacks[x], NEW e \in Callbacks,
               callbacks[x][i] = <<e>>
        PROVE  x = Home[e] /\ i = callback_slot[e] /\ handle'[e] \in {"held", "detached"}
    <3>1. x = Home[e] /\ i = callback_slot[e] /\ handle[e] \in {"held", "detached"}
      BY <2>1 DEF StopInv, SlotInv
    <3> QED
      BY <1>2, <1>10, <3>1
  <2>2. ASSUME NEW e \in Callbacks, handle'[e] \in {"held", "detached"}
        PROVE  /\ callback_slot[e] \in DOMAIN callbacks[Home[e]]
               /\ callbacks[Home[e]][callback_slot[e]] =
                    IF called'[e] = 0 THEN <<e>> ELSE Empty
    <3>1. e # c
      BY <1>10, <2>2
    <3> QED
      BY <1>10, <2>2, <3>1 DEF StopInv, SlotInv
  <2> QED
    BY <1>2, <2>1, <2>2 DEF SlotInv
<1>12. CalledInv'
  BY <1>10 DEF StopInv, CalledInv
<1>13. SweepInv'
  BY <1>2, <1>7, SweepsKept DEF StopInv
<1>14. RunsInv'
  <2> SUFFICES ASSUME NEW u \in Threads, NEW n, NEW x, Runs(u, n, x)',
                      handle'[x] # "refused"
               PROVE  handle'[x] \in {"held", "detached"} /\ Sweeps(u, n - 1, Home[x])'
    BY DEF RunsInv
  <2>1. x # c /\ Runs(u, n, x)
    BY <1>7, <1>10
  <2>2. handle'[x] = handle[x]
    BY <1>2, <2>1
  <2>3. handle[x] \in {"held", "detached"} /\ Sweeps(u, n - 1, Home[x])
    BY <2>1, <2>2 DEF StopInv, RunsInv
  <2>4. n - 1 \in 1..Depth(u)
    BY <2>3 DEF Sweeps
  <2> QED
    BY <1>8, <2>2, <2>3, <2>4
<1>15. ReachInv'
  <2> SUFFICES ASSUME NEW x \in Sources, NEW i \in DOMAIN callbacks[x],
                      stopped'[x], callbacks[x][i] # Empty
               PROVE  \E u \in Threads : \E n \in 1..Depth(u)' : ComesTo(u, n, x, i)'
    BY <1>2 DEF ReachInv
  <2>1. i \in Nat /\ 0 <= i
    BY SlotNumbers DEF StopInv
  <2>2. CASE f.op = "stop" /\ f.src = x
    <3>1. 1 = 0 + 1 /\ 0 \in Nat
      OBVIOUS
    <3>2. 1 \in 1..Depth(t)' /\ ComesTo(t, 1, x, i)'
      BY <1>3, <1>fs, <1>6, <2>1, <2>2, <3>1, CallsNew
    <3> QED
      BY <3>2
  <2>3. CASE stopped[x]
    <3>1. PICK u \in Threads : \E n \in 1..Depth(u) : ComesTo(u, n, x, i)
      BY <2>3 DEF StopInv, ReachInv
    <3> QED
      BY <1>8, <3>1
  <2> QED
    BY <1>3, <2>2, <2>3
<1> QED
  BY <1>9, <1>11, <1>12, <1>13, <1>14, <1>15 DEF StopInv

\* The handle is dropped.  Its function does not run: that would be from a sweep of its
\* source, or because it was refused, and then there is no handle.
LEMMA DropInv ==
  ASSUME StopInv, NEW t \in Threads, NEW c \in Callbacks, Drop(t, c)
  PROVE  StopInv'
<1> DEFINE s == Home[c]
           k == callback_slot[c]
<1>1. s \in Sources /\ k \in DOMAIN callbacks[s]
  BY StopSourceAssumption DEF StopInv, SlotInv, Drop
<1>2. /\ handle[c] = "held" /\ handle' = [handle EXCEPT ![c] = "dropped"]
      /\ owner[s] = NoOwner /\ callbacks' = [callbacks EXCEPT ![s][k] = Empty]
      /\ UNCHANGED <<stopped, owner, callback_slot, stack, called, requests>>
  BY DEF Drop
<1>3. TypeOK'
  <2>1. callbacks' \in [Sources -> Seq({Empty} \cup {<<e>> : e \in Callbacks})]
    BY <1>1, <1>2, SlotCleared DEF StopInv
  <2>2. handle' \in [Callbacks -> {"none", "held", "detached", "dropped", "refused"}]
    BY <1>2 DEF StopInv, TypeOK
  <2> QED
    BY <1>2, <2>1, <2>2 DEF StopInv, TypeOK
<1>4. \A x \in Sources : /\ DOMAIN callbacks'[x] = DOMAIN callbacks[x]
                         /\ \A i \in DOMAIN callbacks[x] : callbacks'[x][i] =
                              IF x = s /\ i = k THEN Empty ELSE callbacks[x][i]
  BY <1>1, <1>2, SlotCleared DEF StopInv
<1>5. handle'[c] = "dropped" /\ \A e \in Callbacks : e # c => handle'[e] = handle[e]
  BY <1>2 DEF StopInv, TypeOK
<1>6. SlotInv'
  <2>1. ASSUME NEW x \in Sources, NEW i \in DOMAIN callbacks'[x], NEW e \in Callbacks,
               callbacks'[x][i] = <<e>>
        PROVE  x = Home[e] /\ i = callback_slot[e] /\ handle'[e] \in {"held", "detached"}
    <3>1. <<e>> # Empty
      BY SlotValues
    <3>2. i \in DOMAIN callbacks[x] /\ callbacks[x][i] = <<e>> /\ ~(x = s /\ i = k)
      BY <1>4, <2>1, <3>1
    <3>3. x = Home[e] /\ i = callback_slot[e] /\ handle[e] \in {"held", "detached"}
      BY <3>2 DEF StopInv, SlotInv
    <3>4. e # c
      BY <3>2, <3>3
    <3> QED
      BY <1>5, <3>3, <3>4
  <2>2. ASSUME NEW e \in Callbacks, handle'[e] \in {"held", "detached"}
        PROVE  /\ callback_slot[e] \in DOMAIN callbacks'[Home[e]]
               /\ callbacks'[Home[e]][callback_slot[e]] =
                    IF called[e] = 0 THEN <<e>> ELSE Empty
    <3>1. e # c /\ handle[e] \in {"held", "detached"}
      BY <1>5, <2>2
    <3>2. /\ callback_slot[e] \in DOMAIN callbacks[Home[e]] /\ Home[e] \in Sources
          /\ callbacks[Home[e]][callback_slot[e]] = IF called[e] = 0 THEN <<e>> ELSE Empty
      BY <3>1, StopSourceAssumption DEF StopInv, SlotInv
    <3>3. Home[e] = s /\ callback_slot[e] = k => called[e] # 0
      <4>1. callbacks[s][k] = IF called[c] = 0 THEN <<c>> ELSE Empty
        BY <1>2 DEF StopInv, SlotInv
      <4> QED
        BY <3>1, <3>2, <4>1, SlotValues
    <3> HIDE DEF s, k
    <3> QED
      BY <1>4, <3>2, <3>3
  <2>3. callback_slot' = callback_slot /\ called' = called
    BY <1>2
  <2> QED
    BY <2>1, <2>2, <2>3 DEF SlotInv
<1>7. CalledInv'
  BY <1>2, <1>5 DEF StopInv, CalledInv
<1>8. /\ \A u : \A n, x : Sweeps(u, n, x)' = Sweeps(u, n, x)
      /\ \A u : \A n, x : Runs(u, n, x)' = Runs(u, n, x)
      /\ \A u : Depth(u)' = Depth(u)
      /\ \A u : \A n, x, i : ComesTo(u, n, x, i)' = ComesTo(u, n, x, i)
  BY <1>2, StacksKept
<1>9. SweepInv'
  BY <1>2, <1>8, SweepsKept DEF StopInv
<1>10. RunsInv'
  <2> SUFFICES ASSUME NEW u \in Threads, NEW n, NEW x, Runs(u, n, x),
                      handle'[x] # "refused"
               PROVE  handle'[x] \in {"held", "detached"} /\ Sweeps(u, n - 1, Home[x])
    BY <1>8 DEF RunsInv
  <2>1. x # c
    BY <1>2, FreeSource DEF StopInv, RunsInv
  <2>2. handle'[x] = handle[x]
    BY <1>2, <2>1
  <2> QED
    BY <2>2 DEF StopInv, RunsInv
<1>11. ReachInv'
  <2> SUFFICES ASSUME NEW x \in Sources, NEW i \in DOMAIN callbacks'[x],
                      stopped[x], callbacks'[x][i] # Empty
               PROVE  \E u \in Threads : \E n \in 1..Depth(u) : ComesTo(u, n, x, i)
    BY <1>2, <1>8 DEF ReachInv
  <2>1. i \in DOMAIN callbacks[x] /\ callbacks[x][i] # Empty
    BY <1>4
  <2> QED
    BY <2>1 DEF StopInv, ReachInv
<1> QED
  BY <1>3, <1>6, <1>7, <1>9, <1>10, <1>11 DEF StopInv

LEMMA DetachInv ==
  ASSUME StopInv, NEW t \in Threads, NEW c \in Callbacks, Detach(t, c)
  PROVE  StopInv'
<1>1. /\ handle[c] = "held" /\ handle' = [handle EXCEPT ![c] = "detached"]
      /\ UNCHANGED <<stopped, owner, callbacks, callback_slot, stack, called, requests>>
  BY DEF Detach
<1>2. handle'[c] = "detached" /\ \A e : e # c => handle'[e] = handle[e]
  BY <1>1 DEF StopInv, TypeOK
<1>3. TypeOK'
  BY <1>1 DEF StopInv, TypeOK
<1>4. SlotInv'
  BY <1>1, <1>2, SlotsKept DEF StopInv
<1>5. CalledInv'
  BY <1>1, <1>2 DEF StopInv, CalledInv
<1>6. /\ \A u : \A n, x : Sweeps(u, n, x)' = Sweeps(u, n, x)
      /\ \A u : \A n, x : Runs(u, n, x)' = Runs(u, n, x)
      /\ \A u : Depth(u)' = Depth(u)
      /\ \A u : \A n, x, i : ComesTo(u, n, x, i)' = ComesTo(u, n, x, i)
  BY <1>1, StacksKept
<1>7. SweepInv'
  BY <1>1, <1>6, SweepsKept DEF StopInv
<1>8. RunsInv'
  BY <1>1, <1>2, <1>6 DEF StopInv, RunsInv
<1>9. ReachInv'
  BY <1>1, <1>6 DEF StopInv, ReachInv
<1> QED
  BY <1>3, <1>4, <1>5, <1>7, <1>8, <1>9 DEF StopInv

----------------------------------------------------------------------------

LEMMA StopInitInv == Init => StopInv
<1> SUFFICES ASSUME Init
             PROVE  StopInv
  OBVIOUS
<1>1. TypeOK
  BY StopSourceAssumption DEF Init, TypeOK
<1>2. \A t \in Threads : Depth(t) = 0
  BY DEF Init, Depth
<1>3. \A t \in Threads : \A n : n \notin 1..Depth(t)
  BY <1>2
<1>4. SweepInv /\ RunsInv
  BY <1>3 DEF SweepInv, RunsInv, Sweeps, Runs
<1>5. \A s \in Sources : DOMAIN callbacks[s] = {}
  BY DEF Init
<1>6. SlotInv /\ CalledInv /\ ReachInv
  BY <1>5 DEF Init, SlotInv, CalledInv, ReachInv
<1> QED
  BY <1>1, <1>4, <1>6 DEF StopInv

LEMMA StopStutterInv ==
  ASSUME StopInv, UNCHANGED vars
  PROVE  StopInv'
<1>1. /\ \A u : \A n, x : Sweeps(u, n, x)' = Sweeps(u, n, x)
      /\ \A u : \A n, x : Runs(u, n, x)' = Runs(u, n, x)
      /\ \A u : Depth(u)' = Depth(u)
      /\ \A u : \A n, x, i : ComesTo(u, n, x, i)' = ComesTo(u, n, x, i)
  BY StacksKept DEF vars
<1>2. TypeOK' /\ SlotInv' /\ CalledInv'
  BY SlotsKept DEF vars, StopInv, TypeOK, CalledInv
<1>3. SweepInv'
  BY <1>1, SweepsKept DEF vars, StopInv
<1>4. RunsInv'
  BY <1>1 DEF vars, StopInv, RunsInv
<1>5. ReachInv'
  BY <1>1 DEF vars, StopInv, ReachInv
<1> QED
  BY <1>2, <1>3, <1>4, <1>5 DEF StopInv

LEMMA StopNextInv == StopInv /\ [Next]_vars => StopInv'
<1> SUFFICES ASSUME StopInv, [Next]_vars
             PROVE  StopInv'
  OBVIOUS
<1>1. CASE UNCHANGED vars
  BY <1>1, StopStutterInv
<1>2. ASSUME NEW t \in Threads, Proceed(t)
      PROVE  StopInv'
  BY <1>2, ReturnInv, LockSkipInv, InvokeSlotInv, UnlockInv DEF Proceed
<1>3. ASSUME NEW t \in Threads, NEW s \in Sources, RequestStop(t, s)
      PROVE  StopInv'
  BY <1>3, RequestStopInv
<1>4. ASSUME NEW t \in Threads, NEW c \in Callbacks,
             Register(t, c) \/ Drop(t, c) \/ Detach(t, c)
      PROVE  StopInv'
  BY <1>4, AcceptInv, RefuseInv, DropInv, DetachInv
<1> QED
  BY <1>1, <1>2, <1>3, <1>4 DEF Next

\* The invariant behind what follows: who sweeps which source, whose functions run, and
\* what is in the slots, through every interleaving of request_stop, register and the
\* handles (stoppable.rs).
THEOREM StopInvariant == Spec => []StopInv
BY StopInitInv, StopNextInv, PTL DEF Spec

\* A callback's function is started once at most, however many threads request the stop
\* and whether it was registered or refused.
THEOREM FunctionsAreCalledOnce == Spec => []CalledOnce
<1>1. StopInv => CalledOnce
  BY DEF StopInv, CalledInv, CalledOnce
<1> QED
  BY <1>1, StopInvariant, PTL

\* Once the drop of the handle has returned, its function runs nowhere and is in no
\* slot: deregister waits for the sweep.
THEOREM NoCallAfterDrop == Spec => []NotAfterDrop
<1>1. StopInv => NotAfterDrop
  <2> SUFFICES ASSUME StopInv, NEW c \in Callbacks, handle[c] = "dropped"
               PROVE  /\ \A t \in Threads : \A i \in 1..Len(stack[t]) :
                           stack[t][i] # Running(c)
                      /\ \A s \in Sources : \A i \in 1..Len(callbacks[s]) :
                           callbacks[s][i] # <<c>>
    BY DEF NotAfterDrop
  <2>1. ASSUME NEW t \in Threads, NEW i \in 1..Len(stack[t]), stack[t][i] = Running(c)
        PROVE  FALSE
    <3>1. Len(stack[t]) \in Nat
      BY DEF StopInv, TypeOK
    <3>2. PICK n \in 1..Len(stack[t]) : i = Len(stack[t]) + 1 - n
      <4>1. Len(stack[t]) + 1 - i \in 1..Len(stack[t])
            /\ i = Len(stack[t]) + 1 - (Len(stack[t]) + 1 - i)
        BY <3>1
      <4> QED
        BY <4>1
    <3>3. Runs(t, n, c)
      BY <2>1, <3>2 DEF Runs, Depth, Level, Nth, Running
    <3> QED
      BY <3>3 DEF StopInv, RunsInv
  <2>2. ASSUME NEW s \in Sources, NEW i \in 1..Len(callbacks[s]), callbacks[s][i] = <<c>>
        PROVE  FALSE
    BY <2>2, SlotNumbers DEF StopInv, SlotInv
  <2> QED
    BY <2>1, <2>2
<1> QED
  BY <1>1, StopInvariant, PTL

\* When a stop was requested and no request_stop on that source is under way, every
\* callback that was accepted and not dropped has been started: none is lost between
\* the store of the flag and the sweep.
THEOREM StopReachesEveryCallback == Spec => []StopReachesAll
<1>1. StopInv => StopReachesAll
  <2> SUFFICES ASSUME StopInv, NEW s \in Sources, stopped[s],
                      \A t \in Threads : \A i \in 1..Len(stack[t]) :
                        stack[t][i].op = "stop" => stack[t][i].src # s,
                      NEW c \in Callbacks, Home[c] = s, handle[c] \in {"held", "detached"},
                      called[c] # 1
               PROVE  FALSE
    BY DEF StopReachesAll
  <2>1. called[c] = 0
    BY DEF StopInv, CalledInv
  <2>2. /\ callback_slot[c] \in DOMAIN callbacks[s]
        /\ callbacks[s][callback_slot[c]] # Empty
    <3>1. /\ callback_slot[c] \in DOMAIN callbacks[Home[c]]
          /\ callbacks[Home[c]][callback_slot[c]] = <<c>>
      BY <2>1 DEF StopInv, SlotInv
    <3>2. <<c>> # Empty
      BY SlotValues
    <3> QED
      BY <3>1, <3>2
  <2>3. PICK t \in Threads : \E n \in 1..Depth(t) : ComesTo(t, n, s, callback_slot[c])
    BY <2>2 DEF StopInv, ReachInv
  <2>4. PICK n \in 1..Depth(t) : ComesTo(t, n, s, callback_slot[c])
    BY <2>3
  <2>5. Len(stack[t]) + 1 - n \in 1..Len(stack[t])
    <3>1. Len(stack[t]) \in Nat
      BY DEF StopInv, TypeOK
    <3> QED
      BY <3>1 DEF Depth
  <2> QED
    BY <2>4, <2>5 DEF ComesTo, Level, Nth
<1> QED
  BY <1>1, StopInvariant, PTL

\* Slots never move: the slot a handle remembers holds its own callback until that is
\* run, so deregister clears nobody else's.
THEOREM SlotsNeverMove == Spec => []SlotsStayPut
<1>1. StopInv => SlotsStayPut
  BY SlotNumbers, StopSourceAssumption DEF StopInv, SlotInv, SlotsStayPut
<1> QED
  BY <1>1, StopInvariant, PTL
=============================================================================
