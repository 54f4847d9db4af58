---------------------------- MODULE SplitProofs ----------------------------
(***************************************************************************)
(* Proofs about Split, for any number of threads and clients.              *)
(***************************************************************************)
EXTENDS Split, TLAPS

----------------------------------------------------------------------------
(* Stacks.  A frame is known by its level, counted from the oldest call of *)
(* its thread: so a call or a return changes the levels at the top only.   *)

Nth(s, n) == s[Len(s) + 1 - n]

LEMMA PushNth ==
  ASSUME NEW S, NEW s \in Seq(S), NEW f \in S
  PROVE  /\ <<f>> \o s \in Seq(S)
         /\ Len(<<f>> \o s) = Len(s) + 1
         /\ Nth(<<f>> \o s, Len(s) + 1) = f
         /\ \A n \in 1..Len(s) : Nth(<<f>> \o s, n) = Nth(s, n)
<1> DEFINE r == <<f>> \o s
<1>1. r \in Seq(S) /\ Len(r) = Len(s) + 1 /\ Len(s) \in Nat
  OBVIOUS
<1>2. r[1] = f /\ \A i \in 1..Len(s) : r[i + 1] = s[i]
  OBVIOUS
<1> HIDE DEF r
<1>3. Nth(r, Len(s) + 1) = f
  BY <1>1, <1>2 DEF Nth
<1>4. ASSUME NEW n \in 1..Len(s)
      PROVE  Nth(r, n) = Nth(s, n)
  <2>1. Len(s) + 1 - n \in 1..Len(s) /\ Len(r) + 1 - n = (Len(s) + 1 - n) + 1
    BY <1>1
  <2> QED
    BY <1>2, <2>1 DEF Nth
<1> QED
  BY <1>1, <1>3, <1>4 DEF r

LEMMA PopNth ==
  ASSUME NEW S, NEW s \in Seq(S), s # <<>>
  PROVE  /\ Tail(s) \in Seq(S)
         /\ Len(s) \in Nat \ {0} /\ Len(Tail(s)) = Len(s) - 1
         /\ Head(s) = Nth(s, Len(s)) /\ Head(s) \in S
         /\ \A n \in 1..Len(s) - 1 : Nth(Tail(s), n) = Nth(s, n)
<1> DEFINE r == Tail(s)
<1>1. r \in Seq(S) /\ Len(r) = Len(s) - 1 /\ Len(s) \in Nat \ {0}
  OBVIOUS
<1>2. Head(s) = s[1] /\ s[1] \in S /\ \A i \in 1..Len(s) - 1 : r[i] = s[i + 1]
  OBVIOUS
<1> HIDE DEF r
<1>3. Head(s) = Nth(s, Len(s))
  BY <1>1, <1>2 DEF Nth
<1>4. ASSUME NEW n \in 1..Len(s) - 1
      PROVE  Nth(r, n) = Nth(s, n)
  <2>1. Len(s) - n \in 1..Len(s) - 1 /\ Len(r) + 1 - n = Len(s) - n
        /\ Len(s) + 1 - n = (Len(s) - n) + 1
    BY <1>1
  <2> QED
    BY <1>2, <2>1 DEF Nth
<1> QED
  BY <1>1, <1>2, <1>3, <1>4 DEF r

Depth(t) == Len(stack[t])
Level(t, n) == Nth(stack[t], n)

IsStack == stack \in [Threads -> Seq(Frames)]

LEMMA TopOfStack ==
  ASSUME IsStack, NEW t \in Threads
  PROVE  /\ Depth(t) \in Nat
         /\ \A n \in 1..Depth(t) : Level(t, n) \in Frames
         /\ ~Idle(t) => Depth(t) # 0 /\ Head(stack[t]) = Level(t, Depth(t))
         /\ Idle(t) <=> Depth(t) = 0
<1>1. stack[t] \in Seq(Frames)
  BY DEF IsStack
<1>2. \A n \in 1..Depth(t) : Level(t, n) \in Frames
  <2> TAKE n \in 1..Depth(t)
  <2>1. Len(stack[t]) + 1 - n \in 1..Len(stack[t])
    BY <1>1 DEF Depth
  <2> QED
    BY <1>1, <2>1 DEF Level, Nth
<1> QED
  BY <1>1, <1>2, PopNth DEF Depth, Level, Idle

LEMMA NewStack ==
  ASSUME IsStack, NEW t \in Threads, NEW s \in Seq(Frames),
         stack' = [stack EXCEPT ![t] = s]
  PROVE  /\ IsStack'
         /\ Depth(t)' = Len(s) /\ \A n : Level(t, n)' = Nth(s, n)
         /\ \A u \in Threads : u # t => Depth(u)' = Depth(u)
                                        /\ \A n : Level(u, n)' = Level(u, n)
<1>1. IsStack'
  BY DEF IsStack
<1>2. stack'[t] = s /\ \A u \in Threads : u # t => stack'[u] = stack[u]
  BY DEF IsStack
<1> QED
  BY <1>1, <1>2 DEF Depth, Level

\* What a step of t leaves on its stack: the levels up to k, and then fs.
Leaves(t, k, fs) ==
  /\ IsStack'
  /\ Depth(t)' = k + Len(fs)
  /\ \A n \in 1..k : Nth(stack'[t], n) = Level(t, n)
  /\ \A i \in 1..Len(fs) : Nth(stack'[t], k + i) = fs[i]
  /\ \A u \in Threads : u # t => Depth(u)' = Depth(u)
                                 /\ \A n \in 1..Depth(u) : Level(u, n)' = Level(u, n)

LEMMA NewStackLeaves ==
  ASSUME IsStack, NEW t \in Threads, NEW s \in Seq(Frames),
         stack' = [stack EXCEPT ![t] = s],
         NEW k \in Nat, NEW fs, Len(s) = k + Len(fs),
         \A n \in 1..k : Nth(s, n) = Nth(stack[t], n),
         \A i \in 1..Len(fs) : Nth(s, k + i) = fs[i]
  PROVE  Leaves(t, k, fs)
<1>1. /\ IsStack' /\ Depth(t)' = Len(s) /\ \A n : Level(t, n)' = Nth(s, n)
      /\ \A u \in Threads : u # t => Depth(u)' = Depth(u)
                                     /\ \A n : Level(u, n)' = Level(u, n)
  BY NewStack
<1>2. \A n \in 1..k : Nth(stack'[t], n) = Level(t, n)
  BY <1>1 DEF Level
<1>3. \A i \in 1..Len(fs) : Nth(stack'[t], k + i) = fs[i]
  BY <1>1 DEF Level
<1> QED
  BY <1>1, <1>2, <1>3 DEF Leaves

LEMMA Pushed ==
  ASSUME IsStack, NEW t \in Threads, NEW f \in Frames, Push(t, f)
  PROVE  Leaves(t, Depth(t), <<f>>)
<1> DEFINE s == <<f>> \o stack[t]
<1>1. stack' = [stack EXCEPT ![t] = s]
  BY DEF Push, IsStack
<1>2. stack[t] \in Seq(Frames)
  BY DEF IsStack
<1>3. /\ s \in Seq(Frames) /\ Len(s) = Len(stack[t]) + 1 /\ Nth(s, Len(stack[t]) + 1) = f
      /\ \A n \in 1..Len(stack[t]) : Nth(s, n) = Nth(stack[t], n)
  BY <1>2, PushNth
<1> HIDE DEF s
<1>5. \A i \in 1..Len(<<f>>) : i = 1 /\ <<f>>[i] = f
  OBVIOUS
<1>6. Len(<<f>>) = 1 /\ Len(stack[t]) \in Nat
  BY <1>2
<1> QED
  BY ZenonT(30), <1>1, <1>3, <1>5, <1>6, NewStackLeaves DEF Depth

LEMMA Popped ==
  ASSUME IsStack, NEW t \in Threads, ~Idle(t), Pop(t)
  PROVE  Leaves(t, Depth(t) - 1, <<>>)
<1> DEFINE s == Tail(stack[t])
<1>1. stack' = [stack EXCEPT ![t] = s]
  BY DEF Pop, IsStack
<1>2. stack[t] \in Seq(Frames) /\ stack[t] # <<>>
  BY DEF IsStack, Idle
<1>3. /\ s \in Seq(Frames) /\ Len(s) = Len(stack[t]) - 1
      /\ \A n \in 1..Len(stack[t]) - 1 : Nth(s, n) = Nth(stack[t], n)
  BY <1>2, PopNth
<1> HIDE DEF s
<1>4. Len(s) \in Nat /\ Len(s) = Len(s) + Len(<< >>) /\ 1..Len(<< >>) = {}
  BY <1>3
<1>5. Leaves(t, Len(s), <<>>)
  BY <1>1, <1>3, <1>4, NewStackLeaves
<1> QED
  BY <1>3, <1>5 DEF Depth

LEMMA Went ==
  ASSUME IsStack, NEW t \in Threads, NEW f \in Frames, ~Idle(t), Goto(t, f)
  PROVE  Leaves(t, Depth(t) - 1, <<f>>)
<1> DEFINE r == Tail(stack[t])
           s == <<f>> \o r
<1>1. stack' = [stack EXCEPT ![t] = s]
  BY DEF Goto, IsStack
<1>2. stack[t] \in Seq(Frames) /\ stack[t] # <<>>
  BY DEF IsStack, Idle
<1>3. /\ r \in Seq(Frames) /\ Len(r) = Len(stack[t]) - 1
      /\ \A n \in 1..Len(stack[t]) - 1 : Nth(r, n) = Nth(stack[t], n)
  BY <1>2, PopNth
<1> HIDE DEF r
<1>4. /\ s \in Seq(Frames) /\ Len(s) = Len(r) + 1 /\ Nth(s, Len(r) + 1) = f
      /\ \A n \in 1..Len(r) : Nth(s, n) = Nth(r, n)
  BY <1>3, PushNth
<1> HIDE DEF s
<1>6. \A i \in 1..Len(<<f>>) : i = 1 /\ <<f>>[i] = f
  OBVIOUS
<1>7. Len(<<f>>) = 1 /\ Len(stack[t]) \in Nat /\ Len(r) \in Nat
  BY <1>2, <1>3
<1>8. Leaves(t, Len(r), <<f>>)
  <2>1. Len(s) = Len(r) + Len(<<f>>) /\ \A n \in 1..Len(r) : Nth(s, n) = Nth(stack[t], n)
    BY <1>3, <1>4, <1>7
  <2>2. \A i \in 1..Len(<<f>>) : Nth(s, Len(r) + i) = <<f>>[i]
    BY <1>4, <1>6
  <2> QED
    BY <1>1, <1>4, <1>7, <2>1, <2>2, NewStackLeaves
<1> QED
  BY <1>3, <1>8 DEF Depth

LEMMA Called ==
  ASSUME IsStack, NEW t \in Threads, NEW f \in Frames, NEW callee \in Frames,
         ~Idle(t), GotoAndCall(t, f, callee)
  PROVE  Leaves(t, Depth(t) - 1, <<f, callee>>)
<1> DEFINE r == Tail(stack[t])
           q == <<f>> \o r
           s == <<callee>> \o q
<1>2. stack[t] \in Seq(Frames) /\ stack[t] # <<>>
  BY DEF IsStack, Idle
<1>3. /\ r \in Seq(Frames) /\ Len(r) = Len(stack[t]) - 1
      /\ \A n \in 1..Len(stack[t]) - 1 : Nth(r, n) = Nth(stack[t], n)
  BY <1>2, PopNth
<1>1. stack' = [stack EXCEPT ![t] = s]
  <2>1. stack' = [stack EXCEPT ![t] = <<callee, f>> \o r]
    BY DEF GotoAndCall, IsStack
  <2> HIDE DEF r
  <2>2. <<callee, f>> \o r = <<callee>> \o (<<f>> \o r)
    BY <1>3
  <2> QED
    BY <2>1, <2>2
<1> HIDE DEF r
<1>4. /\ q \in Seq(Frames) /\ Len(q) = Len(r) + 1 /\ Nth(q, Len(r) + 1) = f
      /\ \A n \in 1..Len(r) : Nth(q, n) = Nth(r, n)
  BY <1>3, PushNth
<1> HIDE DEF q
<1>5. /\ s \in Seq(Frames) /\ Len(s) = Len(q) + 1 /\ Nth(s, Len(q) + 1) = callee
      /\ \A n \in 1..Len(q) : Nth(s, n) = Nth(q, n)
  BY <1>4, PushNth
<1> HIDE DEF s
<1>7. Len(stack[t]) \in Nat /\ Len(r) \in Nat
  BY <1>2, <1>3
<1>8. /\ Len(s) = Len(r) + 2 /\ Nth(s, Len(r) + 1) = f /\ Nth(s, Len(r) + 2) = callee
      /\ \A n \in 1..Len(r) : Nth(s, n) = Nth(stack[t], n)
  BY <1>3, <1>4, <1>5, <1>7
<1>9. \A i \in 1..Len(<<f, callee>>) : (i = 1 /\ <<f, callee>>[i] = f)
                                      \/ (i = 2 /\ <<f, callee>>[i] = callee)
  OBVIOUS
<1>10. Leaves(t, Len(r), <<f, callee>>)
  <2>1. Len(<<f, callee>>) = 2
    OBVIOUS
  <2>2. \A i \in 1..Len(<<f, callee>>) : Nth(s, Len(r) + i) = <<f, callee>>[i]
    BY <1>8, <1>9
  <2> QED
    BY <1>1, <1>5, <1>7, <1>8, <2>1, <2>2, NewStackLeaves
<1> QED
  BY <1>3, <1>10 DEF Depth

\* An unwinding empties the stack.
LEMMA Unwound ==
  ASSUME IsStack, NEW t \in Threads, stack' = [stack EXCEPT ![t] = <<>>]
  PROVE  Leaves(t, 0, <<>>)
<1>1. <<>> \in Seq(Frames) /\ 0 = 0 + Len(<< >>) /\ 1..Len(<< >>) = {} /\ 1..0 = {} /\ 0 \in Nat
  OBVIOUS
<1> QED
  BY <1>1, NewStackLeaves

\* So a level after the step was there before, or is one of fs.
Was(t, k, u, n) ==
  /\ n \in 1..Depth(u)
  /\ Level(u, n)' = Level(u, n)
  /\ u # t \/ n <= k

LEMMA LevelsAfter ==
  ASSUME NEW t \in Threads, Depth(t) \in Nat, NEW k \in 0..Depth(t), NEW fs, Len(fs) \in Nat,
         Leaves(t, k, fs), NEW u \in Threads, NEW n \in 1..Depth(u)'
  PROVE  \/ Was(t, k, u, n)
         \/ u = t /\ \E i \in 1..Len(fs) : n = k + i /\ Level(u, n)' = fs[i]
<1>1. CASE u # t
  BY <1>1 DEF Leaves, Was
<1>2. CASE u = t /\ n <= k
  BY <1>2 DEF Leaves, Was, Level
<1>3. CASE u = t /\ n > k
  <2>1. n - k \in 1..Len(fs) /\ n = k + (n - k)
    BY <1>3 DEF Leaves
  <2> QED
    BY <1>3, <2>1 DEF Leaves, Level
<1>4. n \in Nat
  <2>1. CASE u = t
    BY <2>1 DEF Leaves
  <2>2. CASE u # t
    BY <2>2 DEF Leaves
  <2> QED
    BY <2>1, <2>2
<1> QED
  BY <1>1, <1>2, <1>3, <1>4

----------------------------------------------------------------------------
(* Types. *)

LEMMA FrameKinds ==
  ASSUME NEW f \in Frames
  PROVE  /\ f.op \in {"chain", "rcv", "start", "callbacks"}
         /\ f.op = "chain" => f = Chain
         /\ f.op = "rcv" => f.client \in Clients /\ f = Rcv(f.client)
         /\ f.op = "start" => /\ f.client \in Clients
                              /\ f.at \in {"lock", "deliver", "ensure", "run"}
                              /\ f = Starting(f.client, f.at)
         /\ f.op = "callbacks" => /\ f.ops \in Seq(Clients) /\ f.at \in {"next", "held"}
                                  /\ f = Callbacks(f.ops, f.at)
BY DEF Frames, Chain, Rcv, Starting, Callbacks

LEMMA KindsOfFrames ==
  /\ Chain \in Frames
  /\ \A c \in Clients : /\ Rcv(c) \in Frames
                        /\ \A at \in {"lock", "deliver", "ensure", "run"} :
                             Starting(c, at) \in Frames
  /\ \A ops \in Seq(Clients), at \in {"next", "held"} : Callbacks(ops, at) \in Frames
BY DEF Frames, Chain, Rcv, Starting, Callbacks

\* The frame that t is in.
LEMMA InStartTop ==
  ASSUME IsStack, NEW t \in Threads, NEW at, InStart(t, at)
  PROVE  /\ ~Idle(t) /\ Depth(t) \in Nat \ {0} /\ Client(t) \in Clients
         /\ Level(t, Depth(t)) = Starting(Client(t), at)
         /\ at \in {"lock", "deliver", "ensure", "run"}
BY TopOfStack, FrameKinds DEF InStart, At, Client

LEMMA AtTop ==
  ASSUME IsStack, NEW t \in Threads, NEW op, At(t, op)
  PROVE  /\ ~Idle(t) /\ Depth(t) \in Nat \ {0}
         /\ Level(t, Depth(t)) = Head(stack[t]) /\ Head(stack[t]).op = op
         /\ op = "chain" => Head(stack[t]) = Chain
         /\ op = "rcv" => Client(t) \in Clients /\ Head(stack[t]) = Rcv(Client(t))
         /\ op = "callbacks" => LET f == Head(stack[t]) IN
              /\ f.ops \in Seq(Clients) /\ f.at \in {"next", "held"}
              /\ f = Callbacks(f.ops, f.at)
BY TopOfStack, FrameKinds DEF At, Client

----------------------------------------------------------------------------
(* The one run of the chain. *)

\* Where the chain is, and what that says of the completion.  The state is not
\* locked for long before there is one.
ChainInv ==
  /\ opstate <=> chain = "connected"
  /\ chain_starts = IF opstate THEN 0 ELSE 1
  /\ completion = "pending" <=> chain # "over"
  /\ chain # "lost"
  /\ completion = "pending" => state_mutex = Free
  /\ completion # "pending" => receivers = <<>>

\* The chain, or the callbacks of its completion: there is one such frame at most.
RunFrame(f) == f.op \in {"chain", "callbacks"}

RunInv ==
  /\ \A t \in Threads : \A n \in 1..Depth(t) :
       /\ Level(t, n).op = "chain" => n = Depth(t) /\ chain = "running"
       /\ Level(t, n).op = "callbacks" => chain = "over"
  /\ \A t, u \in Threads : \A n \in 1..Depth(t), m \in 1..Depth(u) :
       RunFrame(Level(t, n)) /\ RunFrame(Level(u, m)) => t = u /\ n = m

\* A step that neither starts nor ends a run.
LEMMA RunKept ==
  ASSUME RunInv, IsStack, NEW t \in Threads, NEW k \in 0..Depth(t),
         NEW fs, Len(fs) \in Nat, Leaves(t, k, fs),
         \A i \in 1..Len(fs) : ~RunFrame(fs[i]),
         k = Depth(t) /\ k # 0 => Level(t, k).op = "rcv",
         chain' = chain
  PROVE  RunInv'
<1>1. \A u \in Threads : Depth(u) \in Nat
  BY TopOfStack
<1>2. ASSUME NEW u \in Threads, NEW n \in 1..Depth(u)', RunFrame(Level(u, n)')
      PROVE  Was(t, k, u, n)
  BY <1>1, <1>2, LevelsAfter
<1>3. ASSUME NEW u \in Threads, NEW n \in 1..Depth(u)', Level(u, n)'.op = "chain"
      PROVE  n = Depth(u)' /\ chain' = "running"
  <2>1. Was(t, k, u, n)
    BY <1>2, <1>3 DEF RunFrame
  <2>2. n = Depth(u) /\ chain = "running" /\ n \in 1..Depth(u) /\ Level(u, n).op = "chain"
    BY <1>3, <2>1 DEF Was, RunInv
  <2>3. CASE u = t
    <3>1. n \in Nat /\ n # 0 /\ n <= k /\ k <= Depth(t) /\ k \in Nat /\ n = Depth(t)
      BY <1>1, <2>1, <2>2, <2>3 DEF Was
    <3>2. k = Depth(t) /\ k # 0 /\ n = k
      BY <1>1, <3>1
    <3> QED
      BY <2>2, <2>3, <3>2
  <2>4. CASE u # t
    BY <2>2, <2>4 DEF Leaves
  <2> QED
    BY <2>3, <2>4
<1>4. ASSUME NEW u \in Threads, NEW n \in 1..Depth(u)', Level(u, n)'.op = "callbacks"
      PROVE  chain' = "over"
  BY <1>2, <1>4 DEF RunFrame, Was, RunInv
<1>5. ASSUME NEW u \in Threads, NEW n \in 1..Depth(u)', RunFrame(Level(u, n)'),
             NEW v \in Threads, NEW m \in 1..Depth(v)', RunFrame(Level(v, m)')
      PROVE  u = v /\ n = m
  <2>1. Was(t, k, u, n) /\ Was(t, k, v, m)
    BY <1>2, <1>5
  <2> QED
    BY <1>5, <2>1 DEF Was, RunInv
<1> QED
  BY <1>3, <1>4, <1>5 DEF RunInv, RunFrame

\* A step of the run: nothing of it is left but what is in fs.
LEMMA RunMoved ==
  ASSUME IsStack, NEW t \in Threads, NEW k \in 0..Depth(t),
         NEW fs, Len(fs) \in Nat, Leaves(t, k, fs),
         \A u \in Threads : \A n \in 1..Depth(u) :
           RunFrame(Level(u, n)) => u = t /\ n > k,
         \A i, j \in 1..Len(fs) : RunFrame(fs[i]) /\ RunFrame(fs[j]) => i = j,
         \A i \in 1..Len(fs) : /\ fs[i].op = "chain" => i = Len(fs) /\ chain' = "running"
                               /\ fs[i].op = "callbacks" => chain' = "over"
  PROVE  RunInv'
<1>1. \A u \in Threads : Depth(u) \in Nat
  BY TopOfStack
<1>2. ASSUME NEW u \in Threads, NEW n \in 1..Depth(u)', RunFrame(Level(u, n)')
      PROVE  u = t /\ \E i \in 1..Len(fs) : n = k + i /\ Level(u, n)' = fs[i]
  <2>1. ~Was(t, k, u, n)
    BY <1>1, <1>2 DEF Was
  <2> QED
    BY <1>1, <2>1, LevelsAfter
<1>3. ASSUME NEW u \in Threads, NEW n \in 1..Depth(u)', Level(u, n)'.op = "chain"
      PROVE  n = Depth(u)' /\ chain' = "running"
  <2>1. u = t /\ \E i \in 1..Len(fs) : n = k + i /\ Level(u, n)' = fs[i]
    BY <1>2, <1>3 DEF RunFrame
  <2> QED
    BY <1>3, <2>1 DEF Leaves
<1>4. ASSUME NEW u \in Threads, NEW n \in 1..Depth(u)', Level(u, n)'.op = "callbacks"
      PROVE  chain' = "over"
  BY <1>2, <1>4 DEF RunFrame
<1>5. ASSUME NEW u \in Threads, NEW n \in 1..Depth(u)', RunFrame(Level(u, n)'),
             NEW v \in Threads, NEW m \in 1..Depth(v)', RunFrame(Level(v, m)')
      PROVE  u = v /\ n = m
  <2>1. /\ u = t /\ \E i \in 1..Len(fs) : n = k + i /\ Level(u, n)' = fs[i]
        /\ v = t /\ \E i \in 1..Len(fs) : m = k + i /\ Level(v, m)' = fs[i]
    BY <1>2, <1>5
  <2>2. PICK i \in 1..Len(fs) : n = k + i /\ RunFrame(fs[i])
    BY <1>5, <2>1
  <2>3. PICK j \in 1..Len(fs) : m = k + j /\ RunFrame(fs[j])
    BY <1>5, <2>1
  <2> QED
    BY <2>1, <2>2, <2>3
<1> QED
  BY <1>3, <1>4, <1>5 DEF RunInv, RunFrame

----------------------------------------------------------------------------
(* Tickets: who has yet to hand the signal to a client. *)

Among(c, ops) == \E j \in DOMAIN ops : ops[j] = c
Distinct(ops) == \A i, j \in DOMAIN ops : ops[i] = ops[j] => i = j

Carries(f, c) == \/ f = Starting(c, "lock")
                 \/ f.op = "callbacks" /\ Among(c, f.ops)

LEMMA AppendAmong ==
  ASSUME NEW S, NEW ops \in Seq(S), NEW c \in S
  PROVE  /\ \A x : Among(x, Append(ops, c)) => Among(x, ops) \/ x = c
         /\ Distinct(ops) /\ ~Among(c, ops) => Distinct(Append(ops, c))
BY DEF Among, Distinct

LEMMA TailAmong ==
  ASSUME NEW S, NEW ops \in Seq(S), ops # <<>>
  PROVE  /\ Tail(ops) \in Seq(S) /\ Among(Head(ops), ops)
         /\ \A x : Among(x, Tail(ops)) => Among(x, ops)
         /\ Distinct(ops) => Distinct(Tail(ops)) /\ ~Among(Head(ops), Tail(ops))
<1>1. /\ Tail(ops) \in Seq(S) /\ DOMAIN Tail(ops) = 1..Len(ops) - 1
      /\ Len(ops) \in Nat \ {0} /\ DOMAIN ops = 1..Len(ops) /\ Head(ops) = ops[1]
      /\ \A j \in 1..Len(ops) - 1 : Tail(ops)[j] = ops[j + 1]
  OBVIOUS
<1> QED
  BY <1>1 DEF Among, Distinct

\* A frame of t has the receiver of c.
Carry(t, n, c) == n \in 1..Depth(t) /\ Carries(Level(t, n), c)

\* c was started, and has neither got the signal nor been dropped.
Open(c) == c \in begun /\ c \notin dropped /\ got[c] = <<>>

CarryInv ==
  \A t, u \in Threads : \A n, m, c : Carry(t, n, c) /\ Carry(u, m, c) => t = u /\ n = m

OpsInv ==
  \A t \in Threads : \A n \in 1..Depth(t) :
    Level(t, n).op = "callbacks" => Distinct(Level(t, n).ops)

\* A client has one ticket at most, and none when its affair is settled.
TicketInv ==
  /\ \A c \in Clients : c \notin begun => got[c] = <<>> /\ c \notin dropped
  /\ \A c \in Clients : got[c] # <<>> => completion # "pending" /\ got[c] = <<completion>>
  /\ \A c \in tasks : Open(c) /\ completion = "value" /\ ~Among(c, receivers)
  /\ \A c \in Clients : Among(c, receivers) => Open(c)
  /\ Distinct(receivers)
  /\ \A t \in Threads : \A n, c :
       Carry(t, n, c) => c \in Clients /\ Open(c) /\ c \notin tasks /\ ~Among(c, receivers)

\* A step that makes no ticket: fs carries nothing, but what was there before.
LEMMA CarriedBefore ==
  ASSUME IsStack, NEW t \in Threads, NEW k \in 0..Depth(t),
         NEW fs, Len(fs) \in Nat, Leaves(t, k, fs),
         \A i \in 1..Len(fs) : \A c : Carries(fs[i], c) => i = 1 /\ Carry(t, k + 1, c),
         NEW u \in Threads, NEW n, NEW c, Carry(u, n, c)'
  PROVE  /\ Carry(u, n, c)
         /\ u = t /\ n > k => n = k + 1 /\ \E i \in 1..Len(fs) : Carries(fs[i], c)
<1>1. \A v \in Threads : Depth(v) \in Nat
  BY TopOfStack
<1>2. n \in 1..Depth(u)' /\ Carries(Level(u, n)', c)
  BY DEF Carry
<1>3. CASE Was(t, k, u, n)
  BY <1>1, <1>2, <1>3 DEF Was, Carry
<1>4. CASE u = t /\ \E i \in 1..Len(fs) : n = k + i /\ Level(u, n)' = fs[i]
  BY <1>2, <1>4
<1> QED
  BY <1>1, <1>2, <1>3, <1>4, LevelsAfter

LEMMA CarryKept ==
  ASSUME CarryInv,
         \A u \in Threads : \A n, c : Carry(u, n, c)' => Carry(u, n, c)
  PROVE  CarryInv'
BY DEF CarryInv

LEMMA OpsKept ==
  ASSUME OpsInv, IsStack, NEW t \in Threads, NEW k \in 0..Depth(t),
         NEW fs, Len(fs) \in Nat, Leaves(t, k, fs),
         \A i \in 1..Len(fs) : fs[i].op = "callbacks" => Distinct(fs[i].ops)
  PROVE  OpsInv'
<1>1. Depth(t) \in Nat
  BY TopOfStack
<1>2. ASSUME NEW u \in Threads, NEW n \in 1..Depth(u)', Level(u, n)'.op = "callbacks"
      PROVE  Distinct(Level(u, n)'.ops)
  BY <1>1, <1>2, LevelsAfter DEF Was, OpsInv
<1> QED
  BY <1>2 DEF OpsInv, Distinct

\* The clients whose tickets an unwinding of t drops.
LEMMA CarriedClients ==
  ASSUME IsStack, NEW t \in Threads, NEW c \in Clients
  PROVE  c \in Carried(t) <=> \E n : Carry(t, n, c)
<1>1. Depth(t) \in Nat /\ DOMAIN stack[t] = 1..Depth(t) /\ Depth(t) = Len(stack[t])
  BY DEF IsStack, Depth
<1>2. c \in Carried(t) <=> \E i \in 1..Depth(t) : Carries(stack[t][i], c)
  BY <1>1 DEF Carried, Carries, Among
<1>3. \A i \in 1..Depth(t) : Depth(t) + 1 - i \in 1..Depth(t)
                             /\ Level(t, Depth(t) + 1 - i) = stack[t][i]
  <2> TAKE i \in 1..Depth(t)
  <2>1. Depth(t) + 1 - i \in 1..Depth(t) /\ Len(stack[t]) + 1 - (Depth(t) + 1 - i) = i
    BY <1>1
  <2> QED
    BY <2>1 DEF Level, Nth
<1>4. \A n \in 1..Depth(t) : Depth(t) + 1 - n \in 1..Depth(t)
                             /\ Level(t, n) = stack[t][Depth(t) + 1 - n]
  BY <1>1 DEF Level, Nth
<1> QED
  BY <1>2, <1>3, <1>4 DEF Carry

----------------------------------------------------------------------------
(* Without re-entrance: when receivers start no clients, a thread that has *)
(* a mutex is in the frame that will give it back, or was called from it.  *)

Holds(f) == \/ f.op = "start" /\ f.at = "deliver"
            \/ f.op = "callbacks" /\ f.at = "held"

NoReentryInv ==
  ~local /\ ~SendReenters =>
    /\ \A t \in Threads : \A n \in 1..Depth(t) :
         /\ Level(t, n).op = "start" => n = 1
         /\ Level(t, n).op = "rcv" => n = Depth(t) /\ (n > 1 => Holds(Level(t, n - 1)))
    /\ \A t \in Threads :
         /\ state_mutex = t => LET d == Depth(t) IN
              d > 0 /\ (Holds(Level(t, d)) \/ (Level(t, d).op = "rcv" /\ d > 1))
         /\ opstate_mutex = t =>
              Depth(t) > 0 /\ Level(t, 1).op = "start" /\ Level(t, 1).at = "run"

\* A thread that waits for a mutex has neither.
LEMMA NotHolding ==
  ASSUME NoReentryInv, ~local, ~SendReenters, NEW t \in Threads,
         \/ Depth(t) = 0
         \/ LET f == Level(t, Depth(t)) IN
            ~Holds(f) /\ f.op # "rcv" /\ ~(f.op = "start" /\ f.at = "run")
  PROVE  /\ state_mutex # t
         /\ opstate_mutex = t => Depth(t) > 0 /\ Depth(t) # 1
BY DEF NoReentryInv

LEMMA NoReentryAfter ==
  ASSUME NoReentryInv, IsStack, NEW t \in Threads, NEW k \in 0..Depth(t),
         NEW fs, Len(fs) \in Nat, Leaves(t, k, fs), local' = local,
         state_mutex' \in {state_mutex, t, Free, Poisoned},
         opstate_mutex' \in {opstate_mutex, t, Free, Poisoned},
         ~local /\ ~SendReenters =>
           /\ k = Depth(t) => k = 0
           /\ \A i \in 1..Len(fs) :
                /\ fs[i].op = "start" => k = 0 /\ i = 1
                /\ fs[i].op = "rcv" => /\ i = Len(fs)
                                       /\ IF i = 1 THEN k = 0 ELSE Holds(fs[i - 1])
           /\ state_mutex' = t =>
                LET d == k + Len(fs) IN
                d > 0 /\ LET f == Nth(stack'[t], d) IN Holds(f) \/ (f.op = "rcv" /\ d > 1)
           /\ opstate_mutex' = t =>
                /\ k + Len(fs) > 0
                /\ Nth(stack'[t], 1).op = "start" /\ Nth(stack'[t], 1).at = "run"
  PROVE  NoReentryInv'
<1> SUFFICES ASSUME ~local, ~SendReenters
             PROVE  NoReentryInv'
  BY DEF NoReentryInv
<1>1. \A v \in Threads : Depth(v) \in Nat
  BY TopOfStack
<1>2. ASSUME NEW u \in Threads, NEW n \in 1..Depth(u)', Level(u, n)'.op = "start"
      PROVE  n = 1
  <2>1. CASE Was(t, k, u, n)
    BY <1>2, <2>1 DEF Was, NoReentryInv
  <2>2. CASE u = t /\ \E i \in 1..Len(fs) : n = k + i /\ Level(u, n)' = fs[i]
    BY <1>2, <2>2
  <2> QED
    BY <1>1, <2>1, <2>2, LevelsAfter
<1>3. ASSUME NEW u \in Threads, NEW n \in 1..Depth(u)', Level(u, n)'.op = "rcv"
      PROVE  n = Depth(u)' /\ (n > 1 => Holds(Level(u, n - 1)'))
  <2>1. CASE Was(t, k, u, n)
    <3>1. n \in 1..Depth(u) /\ n = Depth(u) /\ (n > 1 => Holds(Level(u, n - 1)))
      BY <1>3, <2>1 DEF Was, NoReentryInv
    <3>2. u # t
      <4> SUFFICES ASSUME u = t
                   PROVE  FALSE
        OBVIOUS
      <4>1. n <= k /\ k <= Depth(t) /\ n = Depth(t) /\ n # 0 /\ k \in Nat
        BY <1>1, <2>1, <3>1 DEF Was
      <4> QED
        BY <1>1, <4>1
    <3>3. n > 1 => n - 1 \in 1..Depth(u) /\ Level(u, n - 1)' = Level(u, n - 1)
      BY <1>1, <3>1, <3>2 DEF Leaves
    <3> QED
      BY <3>1, <3>2, <3>3 DEF Leaves
  <2>2. CASE u = t /\ \E i \in 1..Len(fs) : n = k + i /\ Level(u, n)' = fs[i]
    <3>1. PICK i \in 1..Len(fs) : n = k + i /\ fs[i].op = "rcv"
      BY <1>3, <2>2
    <3>2. i = Len(fs) /\ IF i = 1 THEN k = 0 ELSE Holds(fs[i - 1])
      BY <3>1
    <3>3. n = Depth(u)'
      BY <2>2, <3>1, <3>2 DEF Leaves
    <3>4. CASE i = 1
      BY <3>1, <3>2, <3>3, <3>4
    <3>5. CASE i # 1
      <4>1. i - 1 \in 1..Len(fs) /\ n - 1 = k + (i - 1)
        BY <3>1, <3>5
      <4>2. Level(u, n - 1)' = fs[i - 1]
        BY <2>2, <4>1 DEF Leaves, Level
      <4> QED
        BY <3>2, <3>3, <3>5, <4>2
    <3> QED
      BY <3>4, <3>5
  <2> QED
    BY <1>1, <2>1, <2>2, LevelsAfter
<1>4. ASSUME NEW u \in Threads, state_mutex' = u
      PROVE  /\ Depth(u)' > 0
             /\ \/ Holds(Level(u, Depth(u))')
                \/ Level(u, Depth(u))'.op = "rcv" /\ Depth(u)' > 1
  <2>1. CASE u = t
    BY <1>4, <2>1 DEF Leaves, Level
  <2>2. CASE u # t
    <3>1. state_mutex = u
      BY <1>4, <2>2, SplitAssumption
    <3>2. Depth(u)' = Depth(u) /\ Depth(u) > 0 /\ Nth(stack'[u], Depth(u)) = Level(u, Depth(u))
      BY <1>1, <2>2, <3>1 DEF Leaves, Level, NoReentryInv
    <3> QED
      BY <3>1, <3>2 DEF NoReentryInv, Level
  <2> QED
    BY <2>1, <2>2
<1>5. ASSUME NEW u \in Threads, opstate_mutex' = u
      PROVE  Depth(u)' > 0 /\ Level(u, 1)'.op = "start" /\ Level(u, 1)'.at = "run"
  <2>1. CASE u = t
    BY <1>5, <2>1 DEF Leaves, Level
  <2>2. CASE u # t
    <3>1. opstate_mutex = u
      BY <1>5, <2>2, SplitAssumption
    <3> QED
      BY <1>1, <2>2, <3>1 DEF Leaves, NoReentryInv
  <2> QED
    BY <2>1, <2>2
<1> QED
  BY <1>2, <1>3, <1>4, <1>5 DEF NoReentryInv, Holds

LEMMA TicketsKept ==
  ASSUME TicketInv, UNCHANGED shared,
         \A u \in Threads : \A n, c : Carry(u, n, c)' => Carry(u, n, c)
  PROVE  TicketInv'
BY DEF TicketInv, shared, Open, Among, Distinct

LEMMA AppendEmpty == \A e : Append(<<>>, e) = <<e>>
OBVIOUS

\* c, whose ticket is gone, has got the signal.
LEMMA DeliveredTickets ==
  ASSUME TypeOK, TicketInv, NEW c \in Clients, Open(c), c \notin tasks', ~Among(c, receivers),
         completion # "pending", got' = [got EXCEPT ![c] = <<completion>>],
         tasks' \subseteq tasks, UNCHANGED <<completion, receivers, begun, dropped>>,
         \A u \in Threads : \A n, x : Carry(u, n, x)' => Carry(u, n, x) /\ x # c
  PROVE  TicketInv'
<1>1. \A x \in Clients : got'[x] = IF x = c THEN <<completion>> ELSE got[x]
  BY DEF TypeOK
<1>2. tasks \subseteq Clients
  BY DEF TypeOK
<1>3. \A x \in Clients : x # c /\ Open(x) => Open(x)'
  BY <1>1 DEF Open
<1>4. \A x \in Clients : x \notin begun' => got'[x] = <<>> /\ x \notin dropped'
  BY <1>1 DEF TicketInv, Open
<1>5. \A x \in Clients : got'[x] # <<>> => completion' # "pending" /\ got'[x] = <<completion'>>
  BY <1>1 DEF TicketInv
<1>6. \A x \in tasks' : Open(x)' /\ completion' = "value" /\ ~Among(x, receivers)'
  BY <1>2, <1>3 DEF TicketInv, Among
<1>7. \A x \in Clients : Among(x, receivers)' => Open(x)'
  BY <1>3 DEF TicketInv, Among
<1>8. Distinct(receivers)'
  BY DEF TicketInv, Distinct
<1>9. \A u \in Threads : \A n, x :
        Carry(u, n, x)' => x \in Clients /\ Open(x)' /\ x \notin tasks' /\ ~Among(x, receivers)'
  BY <1>3 DEF TicketInv, Among
<1> QED
  BY <1>4, <1>5, <1>6, <1>7, <1>8, <1>9 DEF TicketInv

----------------------------------------------------------------------------
(* The invariant, and that every step keeps it. *)

SplitInv ==
  TypeOK /\ ChainInv /\ RunInv /\ CarryInv /\ OpsInv /\ TicketInv /\ NoReentryInv

LEMMA StartInv ==
  ASSUME SplitInv, NEW t \in Threads, NEW c \in Clients, Start(t, c)
  PROVE  SplitInv'
<1> DEFINE f == Starting(c, "lock")
           D == Depth(t)
<1>1. IsStack /\ D \in Nat /\ D \in 0..D /\ Len(<<f>>) \in Nat
  BY TopOfStack DEF SplitInv, TypeOK, IsStack
<1>2. f \in Frames /\ f.op = "start"
  BY KindsOfFrames DEF Starting
<1>3. Leaves(t, D, <<f>>)
  BY <1>1, <1>2, Pushed DEF Start
<1>4. D # 0 => Level(t, D).op = "rcv"
  BY <1>1, TopOfStack, AtTop DEF Start
<1>5. ~local /\ ~SendReenters => D = 0
  BY <1>1, TopOfStack DEF Start, Starts
<1> HIDE DEF f, D
<1>0. \A i \in 1..Len(<<f>>) : i = 1 /\ <<f>>[i] = f
  OBVIOUS
<1>6. TypeOK'
  BY <1>3 DEF Start, SplitInv, TypeOK, Leaves, IsStack
<1>7. ChainInv'
  BY DEF Start, SplitInv, ChainInv
<1>8. RunInv'
  BY <1>0, <1>1, <1>2, <1>3, <1>4, RunKept DEF SplitInv, Start, RunFrame, D
<1>9. ASSUME NEW u \in Threads, NEW n, NEW x, Carry(u, n, x)'
      PROVE  Carry(u, n, x) \/ (u = t /\ n = D + 1 /\ x = c)
  <2>1. CASE Was(t, D, u, n)
    BY <1>9, <2>1 DEF Was, Carry
  <2>2. CASE u = t /\ \E i \in 1..Len(<<f>>) : n = D + i /\ Level(u, n)' = <<f>>[i]
    BY <1>0, <1>9, <2>2 DEF Carry, Carries, f, Starting
  <2>3. n \in 1..Depth(u)'
    BY <1>9 DEF Carry
  <2> QED
    BY <1>1, <1>3, <2>1, <2>2, <2>3, LevelsAfter DEF D
<1>10. \A u \in Threads : \A n : ~Carry(u, n, c)
  BY DEF SplitInv, TicketInv, Open, Start
<1>11. CarryInv'
  BY <1>9, <1>10 DEF SplitInv, CarryInv
<1>12. OpsInv'
  BY <1>0, <1>1, <1>2, <1>3, OpsKept DEF SplitInv, D
<1>13. TicketInv'
  BY <1>9, <1>10 DEF SplitInv, TicketInv, Start, Open, Among, Distinct
<1>14. NoReentryInv'
  <2>1. ~local /\ ~SendReenters => state_mutex # t /\ opstate_mutex # t
    BY <1>5, NotHolding DEF SplitInv, D
  <2>2. UNCHANGED <<local, state_mutex, opstate_mutex>>
    BY DEF Start
  <2> QED
    BY <1>0, <1>1, <1>2, <1>3, <1>5, <2>1, <2>2, NoReentryAfter DEF SplitInv, D
<1> QED
  BY <1>6, <1>7, <1>8, <1>11, <1>12, <1>13, <1>14 DEF SplitInv

\* A call returns.
LEMMA Returned ==
  ASSUME SplitInv, NEW t \in Threads, ~Idle(t), Pop(t)
  PROVE  /\ Leaves(t, Depth(t) - 1, <<>>) /\ Depth(t) \in Nat \ {0}
         /\ CarryInv' /\ OpsInv'
         /\ \A u \in Threads : \A n, c :
              Carry(u, n, c)' => Carry(u, n, c) /\ (u # t \/ n # Depth(t))
         /\ chain' = chain => RunInv'
<1>1. IsStack /\ Depth(t) \in Nat \ {0}
  BY TopOfStack DEF SplitInv, TypeOK, IsStack
<1>2. Leaves(t, Depth(t) - 1, <<>>)
  BY <1>1, Popped
<1>3. Len(<< >>) \in Nat /\ Depth(t) - 1 \in 0..Depth(t) /\ Depth(t) - 1 # Depth(t)
  BY <1>1
<1>4. 1..Len(<< >>) = {}
  OBVIOUS
<1>5. \A u \in Threads : \A n, c :
        Carry(u, n, c)' => Carry(u, n, c) /\ (u # t \/ n # Depth(t))
  <2> TAKE u \in Threads
  <2> TAKE n, c
  <2> HAVE Carry(u, n, c)'
  <2>1. Was(t, Depth(t) - 1, u, n)
    BY <1>1, <1>2, <1>3, <1>4, LevelsAfter DEF Carry
  <2> QED
    BY <1>1, <2>1 DEF Was, Carry
<1>6. CarryInv'
  BY <1>5, CarryKept DEF SplitInv
<1>7. OpsInv'
  BY <1>1, <1>2, <1>3, <1>4, OpsKept DEF SplitInv
<1>8. chain' = chain => RunInv'
  BY <1>1, <1>2, <1>3, <1>4, RunKept DEF SplitInv
<1> QED
  BY <1>1, <1>2, <1>5, <1>6, <1>7, <1>8

LEMMA ReturnedHolding ==
  ASSUME SplitInv, NEW t \in Threads, ~Idle(t), Pop(t), local' = local,
         state_mutex' \in {state_mutex, Free}, opstate_mutex' \in {opstate_mutex, Free},
         Holds(Head(stack[t])) => state_mutex' = Free,
         Head(stack[t]).op = "start" /\ Head(stack[t]).at = "run" => opstate_mutex' = Free
  PROVE  NoReentryInv'
<1> SUFFICES ASSUME ~local, ~SendReenters
             PROVE  NoReentryInv'
  BY DEF NoReentryInv
<1> DEFINE D == Depth(t)
           f == Level(t, D)
<1>1. IsStack /\ D \in Nat \ {0} /\ f = Head(stack[t])
  BY TopOfStack DEF SplitInv, TypeOK, IsStack
<1>2. Leaves(t, D - 1, <<>>)
  BY Returned
<1>3. Len(<< >>) \in Nat /\ D - 1 \in 0..D /\ D - 1 # D
  BY <1>1
<1>4. 1..Len(<< >>) = {} /\ Len(<< >>) = 0
  OBVIOUS
<1>5. ASSUME state_mutex' = t
      PROVE  D - 1 > 0 /\ Holds(Nth(stack'[t], D - 1))
  <2>1. state_mutex = t /\ ~Holds(f)
    BY <1>1, <1>5, SplitAssumption
  <2>2. f.op = "rcv" /\ D > 1 /\ Holds(Level(t, D - 1))
    BY <1>1, <2>1 DEF SplitInv, NoReentryInv
  <2>3. Nth(stack'[t], D - 1) = Level(t, D - 1) /\ D - 1 > 0
    BY <1>1, <1>2, <2>2 DEF Leaves
  <2> QED
    BY <2>2, <2>3
<1>6. ASSUME opstate_mutex' = t
      PROVE  /\ D - 1 > 0
             /\ Nth(stack'[t], 1).op = "start" /\ Nth(stack'[t], 1).at = "run"
  <2>1. opstate_mutex = t /\ ~(f.op = "start" /\ f.at = "run")
    BY <1>1, <1>6, SplitAssumption
  <2>2. Level(t, 1).op = "start" /\ Level(t, 1).at = "run" /\ D # 1
    BY <2>1 DEF SplitInv, NoReentryInv
  <2>3. Nth(stack'[t], 1) = Level(t, 1) /\ D - 1 > 0
    BY <1>1, <1>2, <2>2 DEF Leaves
  <2> QED
    BY <2>2, <2>3
<1>7. /\ D - 1 + Len(<< >>) = D - 1
      /\ state_mutex' \in {state_mutex, t, Free, Poisoned}
      /\ opstate_mutex' \in {opstate_mutex, t, Free, Poisoned}
  BY <1>1, <1>4
<1> HIDE DEF D, f
<1> QED
  BY <1>1, <1>2, <1>3, <1>4, <1>5, <1>6, <1>7, NoReentryAfter DEF SplitInv, D

\* A receiver returns, and the start that called one, or has run the chain.
LEMMA ReturnsInv ==
  ASSUME SplitInv, NEW t \in Threads,
         RcvReturn(t) \/ StartReturn(t) \/ EnsureReturn(t) \/ EnsureAgain(t) \/ CompleteReturn(t)
  PROVE  SplitInv'
<1>1. IsStack
  BY DEF SplitInv, TypeOK, IsStack
<1>2. ~Idle(t) /\ Pop(t) /\ UNCHANGED shared /\ UNCHANGED <<chain, opstate, chain_starts>>
  BY DEF RcvReturn, StartReturn, EnsureReturn, EnsureAgain, CompleteReturn, InStart, At
<1>3. /\ Leaves(t, Depth(t) - 1, <<>>) /\ RunInv' /\ CarryInv' /\ OpsInv'
      /\ \A u \in Threads : \A n, c : Carry(u, n, c)' => Carry(u, n, c)
  BY <1>2, Returned
<1>4. /\ state_mutex' \in {state_mutex, Free} /\ opstate_mutex' \in {opstate_mutex, Free}
      /\ Holds(Head(stack[t])) => state_mutex' = Free
      /\ Head(stack[t]).op = "start" /\ Head(stack[t]).at = "run" => opstate_mutex' = Free
  BY DEF RcvReturn, StartReturn, EnsureReturn, EnsureAgain, CompleteReturn, InStart, At, Holds,
     Callbacks
<1>5. TypeOK'
  <2>1. stack' \in [Threads -> Seq(Frames)]
    BY <1>3 DEF Leaves, IsStack
  <2>2. opstate' \in BOOLEAN /\ local' \in BOOLEAN
    BY <1>2 DEF shared, SplitInv, TypeOK
  <2> QED
    BY <1>2, <1>4, <2>1, <2>2 DEF shared, SplitInv, TypeOK
<1>6. ChainInv'
  BY <1>2, <1>4 DEF shared, SplitInv, ChainInv
<1>7. TicketInv'
  BY <1>2, <1>3, TicketsKept DEF SplitInv
<1>8. NoReentryInv'
  BY <1>2, <1>4, ReturnedHolding DEF shared
<1> QED
  BY <1>3, <1>5, <1>6, <1>7, <1>8 DEF SplitInv

LEMMA StartScheduledInv ==
  ASSUME SplitInv, NEW t \in Threads, StartScheduled(t)
  PROVE  SplitInv'
<1> DEFINE D == Depth(t)
<1>1. IsStack
  BY DEF SplitInv, TypeOK, IsStack
<1>c. PICK c \in Clients : c = Client(t)
  BY <1>1, InStartTop DEF StartScheduled
<1>2. ~Idle(t) /\ Pop(t) /\ D \in Nat \ {0}
      /\ Head(stack[t]) = Starting(c, "lock") /\ Level(t, D) = Starting(c, "lock")
  BY <1>1, <1>c, InStartTop, TopOfStack DEF StartScheduled
<1>3. Carry(t, D, c)
  BY <1>2 DEF Carry, Carries
<1>4. /\ Leaves(t, D - 1, <<>>) /\ RunInv' /\ CarryInv' /\ OpsInv'
      /\ \A u \in Threads : \A n, x : Carry(u, n, x)' => Carry(u, n, x) /\ (u # t \/ n # D)
  BY <1>2, Returned DEF StartScheduled
<1>5. \A u \in Threads : \A n : ~Carry(u, n, c)'
  BY <1>3, <1>4 DEF SplitInv, CarryInv
<1> HIDE DEF D
<1>6. TypeOK'
  BY <1>c, <1>2, <1>4 DEF StartScheduled, SplitInv, TypeOK, Leaves, IsStack
<1>7. ChainInv'
  BY DEF StartScheduled, SplitInv, ChainInv
<1>8. TicketInv'
  BY <1>c, <1>2, <1>3, <1>4, <1>5 DEF StartScheduled, SplitInv, ChainInv, TicketInv, Open, Among,
     Distinct
<1>9. NoReentryInv'
  BY <1>2, ReturnedHolding DEF StartScheduled, Starting, Holds
<1> QED
  BY <1>4, <1>6, <1>7, <1>8, <1>9 DEF SplitInv

LEMMA EnsurePostsInv ==
  ASSUME SplitInv, NEW t \in Threads, EnsurePosts(t)
  PROVE  SplitInv'
<1> DEFINE D == Depth(t)
<1>1. IsStack
  BY DEF SplitInv, TypeOK, IsStack
<1>2. ~Idle(t) /\ Pop(t) /\ Client(t) \in Clients /\ D \in Nat \ {0}
      /\ Head(stack[t]) = Starting(Client(t), "ensure")
  BY <1>1, InStartTop, TopOfStack DEF EnsurePosts
<1>3. /\ Leaves(t, D - 1, <<>>) /\ CarryInv' /\ OpsInv'
      /\ \A u \in Threads : \A n, x : Carry(u, n, x)' => Carry(u, n, x)
  BY <1>2, Returned
<1> HIDE DEF D
<1>4. TypeOK'
  <2>1. opstate' \in BOOLEAN /\ local' \in BOOLEAN
    BY DEF EnsurePosts, SplitInv, TypeOK, shared
  <2> QED
    BY <1>3, <2>1 DEF EnsurePosts, SplitInv, TypeOK, Leaves, IsStack, shared
<1>5. ChainInv'
  BY DEF EnsurePosts, SplitInv, ChainInv, shared
<1>6. RunInv'
  <2>1. \A u \in Threads : \A n \in 1..Depth(u) : ~RunFrame(Level(u, n))
    BY DEF EnsurePosts, SplitInv, ChainInv, RunInv, RunFrame
  <2>2. Len(<< >>) \in Nat /\ D - 1 \in 0..D /\ 1..Len(<< >>) = {}
    BY <1>2
  <2> QED
    BY <1>1, <1>3, <2>1, <2>2, RunMoved DEF D
<1>7. TicketInv'
  BY <1>3, TicketsKept DEF EnsurePosts, SplitInv
<1>8. NoReentryInv'
  BY <1>2, ReturnedHolding DEF EnsurePosts, Starting, Holds, shared
<1> QED
  BY <1>3, <1>4, <1>5, <1>6, <1>7, <1>8 DEF SplitInv

----------------------------------------------------------------------------
(* Steps that put other frames in the place of the innermost. *)

LEMMA Replaced ==
  ASSUME SplitInv, NEW t \in Threads, ~Idle(t), NEW fs, Len(fs) \in Nat,
         Leaves(t, Depth(t) - 1, fs),
         \A i \in 1..Len(fs) : \A c : Carries(fs[i], c) => i = 1 /\ Carries(Head(stack[t]), c),
         \A i \in 1..Len(fs) : fs[i].op = "callbacks" => Distinct(fs[i].ops)
  PROVE  /\ Depth(t) \in Nat \ {0} /\ Head(stack[t]) = Level(t, Depth(t))
         /\ CarryInv' /\ OpsInv'
         /\ \A u \in Threads : \A n, c : Carry(u, n, c)' =>
              /\ Carry(u, n, c)
              /\ u = t /\ n = Depth(t) => \E i \in 1..Len(fs) : Carries(fs[i], c)
<1>1. IsStack /\ Depth(t) \in Nat \ {0} /\ Head(stack[t]) = Level(t, Depth(t))
  BY TopOfStack DEF SplitInv, TypeOK, IsStack
<1>2. Depth(t) - 1 \in 0..Depth(t) /\ (Depth(t) - 1) + 1 = Depth(t) /\ Depth(t) > Depth(t) - 1
  BY <1>1
<1>3. \A i \in 1..Len(fs) : \A c :
        Carries(fs[i], c) => i = 1 /\ Carry(t, (Depth(t) - 1) + 1, c)
  BY <1>1, <1>2 DEF Carry
<1>4. ASSUME NEW u \in Threads, NEW n, NEW c, Carry(u, n, c)'
      PROVE  /\ Carry(u, n, c)
             /\ u = t /\ n = Depth(t) => \E i \in 1..Len(fs) : Carries(fs[i], c)
  BY <1>1, <1>2, <1>3, <1>4, CarriedBefore
<1>5. CarryInv'
  BY <1>4, CarryKept DEF SplitInv
<1>6. OpsInv'
  BY <1>1, <1>2, OpsKept DEF SplitInv
<1> QED
  BY <1>1, <1>4, <1>5, <1>6

LEMMA ReplacedHolding ==
  ASSUME SplitInv, NEW t \in Threads, ~Idle(t), NEW fs, Len(fs) \in {1, 2},
         Leaves(t, Depth(t) - 1, fs), local' = local,
         Head(stack[t]).op # "rcv",
         ~(Head(stack[t]).op = "start" /\ Head(stack[t]).at = "run"),
         \A i \in 1..Len(fs) :
           /\ fs[i].op = "start" => i = 1 /\ Head(stack[t]).op = "start"
           /\ fs[i].op = "rcv" => i = 2 /\ Holds(fs[1]),
         \/ state_mutex' = state_mutex /\ ~Holds(Head(stack[t]))
         \/ state_mutex' = Free
         \/ state_mutex' = t /\ Len(fs) = 2 /\ fs[2].op = "rcv",
         \/ opstate_mutex' = opstate_mutex
         \/ opstate_mutex' = t /\ fs[1].op = "start" /\ fs[1].at = "run"
  PROVE  NoReentryInv'
<1> SUFFICES ASSUME ~local, ~SendReenters
             PROVE  NoReentryInv'
  BY DEF NoReentryInv
<1> DEFINE D == Depth(t)
           f == Level(t, D)
<1>1. IsStack /\ D \in Nat \ {0} /\ f = Head(stack[t])
  BY TopOfStack DEF SplitInv, TypeOK, IsStack
<1>2. D - 1 \in 0..D /\ D - 1 # D /\ Len(fs) \in Nat
  BY <1>1
<1>3. \A i \in 1..Len(fs) : fs[i].op = "start" => D - 1 = 0 /\ i = 1
  BY <1>1 DEF SplitInv, NoReentryInv
<1>4. \A i \in 1..Len(fs) :
        fs[i].op = "rcv" => i = Len(fs) /\ i # 1 /\ Holds(fs[i - 1])
  OBVIOUS
<1>5. ASSUME state_mutex' = t
      PROVE  D - 1 + Len(fs) > 1 /\ Nth(stack'[t], D - 1 + Len(fs)).op = "rcv"
  <2>1. ~(state_mutex = t /\ ~Holds(f))
    BY <1>1 DEF SplitInv, NoReentryInv
  <2>2. Len(fs) = 2 /\ fs[2].op = "rcv"
    BY <1>1, <1>5, <2>1, SplitAssumption
  <2>3. Nth(stack'[t], D - 1 + 2) = fs[2]
    BY <2>2 DEF Leaves
  <2> QED
    BY <1>1, <2>2, <2>3
<1>6. ASSUME opstate_mutex' = t
      PROVE  Nth(stack'[t], 1).op = "start" /\ Nth(stack'[t], 1).at = "run"
  <2>1. CASE opstate_mutex = t
    <3>1. Level(t, 1).op = "start" /\ Level(t, 1).at = "run" /\ D # 1
      BY <1>1, <2>1 DEF SplitInv, NoReentryInv
    <3>2. 1 \in 1..D - 1
      BY <1>1, <3>1
    <3> QED
      BY <3>1, <3>2 DEF Leaves
  <2>2. CASE opstate_mutex' = t /\ fs[1].op = "start" /\ fs[1].at = "run"
    <3>1. 1 \in 1..Len(fs) /\ D - 1 + 1 = 1
      BY <1>1, <1>3, <2>2
    <3> QED
      BY <2>2, <3>1 DEF Leaves
  <2> QED
    BY <1>6, <2>1, <2>2
<1>7. /\ D - 1 + Len(fs) > 0
      /\ state_mutex' \in {state_mutex, t, Free, Poisoned}
      /\ opstate_mutex' \in {opstate_mutex, t, Free, Poisoned}
  BY <1>1
<1> HIDE DEF D, f
<1> QED
  BY <1>1, <1>2, <1>3, <1>4, <1>5, <1>6, <1>7, NoReentryAfter DEF SplitInv, D

LEMMA StartPendingInv ==
  ASSUME SplitInv, NEW t \in Threads, StartPending(t)
  PROVE  SplitInv'
<1> DEFINE D == Depth(t)
<1>1. IsStack
  BY DEF SplitInv, TypeOK, IsStack
<1>c. PICK c \in Clients : c = Client(t)
  BY <1>1, InStartTop DEF StartPending
<1> DEFINE f == Starting(c, "ensure")
<1>2. ~Idle(t) /\ D \in Nat \ {0}
      /\ Head(stack[t]) = Starting(c, "lock") /\ Level(t, D) = Starting(c, "lock")
  BY <1>1, <1>c, InStartTop, TopOfStack DEF StartPending
<1>3. f \in Frames /\ f.op = "start" /\ f.at = "ensure"
  BY <1>2, KindsOfFrames DEF Starting
<1>4. Leaves(t, D - 1, <<f>>)
  BY <1>1, <1>c, <1>2, <1>3, Went DEF StartPending
<1>5. Carry(t, D, c)
  BY <1>2 DEF Carry, Carries
<1>6. \A x : ~Carries(f, x)
  BY DEF Carries, Starting
<1> HIDE DEF D, f
<1>7. \A i \in 1..Len(<<f>>) : i = 1 /\ <<f>>[i] = f
  OBVIOUS
<1>8. Len(<<f>>) \in Nat /\ Len(<<f>>) = 1 /\ D - 1 \in 0..D /\ D - 1 # D
  BY <1>2
<1>9. /\ CarryInv' /\ OpsInv'
      /\ \A u \in Threads : \A n, x : Carry(u, n, x)' => Carry(u, n, x) /\ (u # t \/ n # D)
  BY <1>2, <1>3, <1>4, <1>6, <1>7, <1>8, Replaced DEF D
<1>10. \A u \in Threads : \A n : ~Carry(u, n, c)'
  BY <1>5, <1>9 DEF SplitInv, CarryInv
<1>11. receivers \in Seq(Clients) /\ receivers' = Append(receivers, c)
  BY <1>c DEF StartPending, SplitInv, TypeOK
<1>12. TypeOK'
  BY <1>2, <1>4, <1>11 DEF StartPending, SplitInv, TypeOK, Leaves, IsStack
<1>13. ChainInv'
  BY DEF StartPending, SplitInv, ChainInv
<1>14. RunInv'
  BY <1>1, <1>3, <1>4, <1>7, <1>8, RunKept DEF StartPending, SplitInv, RunFrame, D
<1>15. TicketInv'
  <2>1. /\ \A x : Among(x, receivers') => Among(x, receivers) \/ x = c
        /\ Distinct(receivers) /\ ~Among(c, receivers) => Distinct(receivers')
    BY <1>11, AppendAmong
  <2>2. Open(c) /\ c \notin tasks /\ ~Among(c, receivers)
    BY <1>5 DEF SplitInv, TicketInv
  <2>3. UNCHANGED <<completion, tasks, begun, got, dropped>>
    BY DEF StartPending
  <2>4. \A x : Among(x, receivers)' = Among(x, receivers')
    BY DEF Among
  <2>5. Distinct(receivers)' = Distinct(receivers')
    BY DEF Distinct
  <2> QED
    BY <1>9, <1>10, <2>1, <2>2, <2>3, <2>4, <2>5 DEF SplitInv, TicketInv, Open
<1>16. NoReentryInv'
  <2>1. UNCHANGED <<local, state_mutex, opstate_mutex>> /\ Head(stack[t]).op = "start"
        /\ Head(stack[t]).at = "lock"
    BY <1>2 DEF StartPending, Starting
  <2> QED
    BY <1>2, <1>3, <1>4, <1>7, <1>8, <2>1, ReplacedHolding DEF D, Holds
<1> QED
  BY <1>9, <1>12, <1>13, <1>14, <1>15, <1>16 DEF SplitInv

LEMMA StartSignalledInv ==
  ASSUME SplitInv, NEW t \in Threads, StartSignalled(t)
  PROVE  SplitInv'
<1> DEFINE D == Depth(t)
<1>1. IsStack
  BY DEF SplitInv, TypeOK, IsStack
<1>c. PICK c \in Clients : c = Client(t)
  BY <1>1, InStartTop DEF StartSignalled
<1> DEFINE f == Starting(c, "deliver")
           g == Rcv(c)
<1>2. ~Idle(t) /\ D \in Nat \ {0}
      /\ Head(stack[t]) = Starting(c, "lock") /\ Level(t, D) = Starting(c, "lock")
  BY <1>1, <1>c, InStartTop, TopOfStack DEF StartSignalled
<1>3. /\ f \in Frames /\ f.op = "start" /\ f.at = "deliver"
      /\ g \in Frames /\ g.op = "rcv"
  BY <1>2, KindsOfFrames DEF Starting, Rcv
<1>4. Leaves(t, D - 1, <<f, g>>)
  BY <1>1, <1>c, <1>2, <1>3, Called DEF StartSignalled
<1>5. Carry(t, D, c)
  BY <1>2 DEF Carry, Carries
<1>6. \A x : ~Carries(f, x) /\ ~Carries(g, x)
  BY DEF Carries, Starting, Rcv
<1> HIDE DEF D, f, g
<1>7. \A i \in 1..Len(<<f, g>>) : (i = 1 /\ <<f, g>>[i] = f) \/ (i = 2 /\ <<f, g>>[i] = g)
  OBVIOUS
<1>8. /\ Len(<<f, g>>) \in Nat /\ Len(<<f, g>>) = 2 /\ <<f, g>>[1] = f /\ <<f, g>>[2] = g
      /\ D - 1 \in 0..D /\ D - 1 # D
  BY <1>2
<1>9. /\ CarryInv' /\ OpsInv'
      /\ \A u \in Threads : \A n, x : Carry(u, n, x)' => Carry(u, n, x) /\ (u # t \/ n # D)
  BY <1>2, <1>3, <1>4, <1>6, <1>7, <1>8, Replaced DEF D
<1>10. \A u \in Threads : \A n : ~Carry(u, n, c)'
  BY <1>5, <1>9 DEF SplitInv, CarryInv
<1>11. Open(c) /\ c \notin tasks /\ ~Among(c, receivers)
  BY <1>5 DEF SplitInv, TicketInv
<1>12. /\ got[c] = <<>> /\ completion \in Signals /\ completion # "pending"
       /\ got' = [got EXCEPT ![c] = <<completion>>]
  BY <1>c, <1>11, AppendEmpty DEF StartSignalled, SplitInv, TypeOK, Open
<1>13. TypeOK'
  <2>1. <<completion>> \in Seq(Signals)
    BY <1>12
  <2>2. got' \in [Clients -> Seq(Signals)]
    BY <1>12, <2>1 DEF SplitInv, TypeOK
  <2>3. stack' \in [Threads -> Seq(Frames)]
    BY <1>4 DEF Leaves, IsStack
  <2> QED
    BY <2>2, <2>3 DEF StartSignalled, SplitInv, TypeOK
<1>14. ChainInv'
  BY <1>12 DEF StartSignalled, SplitInv, ChainInv
<1>15. RunInv'
  BY <1>1, <1>3, <1>4, <1>7, <1>8, RunKept DEF StartSignalled, SplitInv, RunFrame, D
<1>16. TicketInv'
  BY <1>9, <1>10, <1>11, <1>12, DeliveredTickets DEF StartSignalled, SplitInv
<1>17. NoReentryInv'
  <2>1. /\ UNCHANGED <<local, opstate_mutex>> /\ Head(stack[t]).op = "start"
        /\ Head(stack[t]).at = "lock" /\ state_mutex' = t
    BY <1>2 DEF StartSignalled, Starting
  <2> QED
    BY <1>2, <1>3, <1>4, <1>7, <1>8, <2>1, ReplacedHolding DEF D, Holds
<1> QED
  BY <1>9, <1>13, <1>14, <1>15, <1>16, <1>17 DEF SplitInv

LEMMA EnsureRunsInv ==
  ASSUME SplitInv, NEW t \in Threads, EnsureRuns(t)
  PROVE  SplitInv'
<1> DEFINE D == Depth(t)
<1>1. IsStack
  BY DEF SplitInv, TypeOK, IsStack
<1>c. PICK c \in Clients : c = Client(t)
  BY <1>1, InStartTop DEF EnsureRuns
<1> DEFINE f == Starting(c, "run")
           g == Chain
<1>2. ~Idle(t) /\ D \in Nat \ {0}
      /\ Head(stack[t]) = Starting(c, "ensure")
  BY <1>1, <1>c, InStartTop, TopOfStack DEF EnsureRuns
<1>3. /\ f \in Frames /\ f.op = "start" /\ f.at = "run"
      /\ g \in Frames /\ g.op = "chain"
  BY <1>2, KindsOfFrames DEF Starting, Chain
<1>4. Leaves(t, D - 1, <<f, g>>)
  BY <1>1, <1>c, <1>2, <1>3, Called DEF EnsureRuns
<1>6. \A x : ~Carries(f, x) /\ ~Carries(g, x)
  BY DEF Carries, Starting, Chain
<1> HIDE DEF D, f, g
<1>7. \A i \in 1..Len(<<f, g>>) : (i = 1 /\ <<f, g>>[i] = f) \/ (i = 2 /\ <<f, g>>[i] = g)
  OBVIOUS
<1>8. /\ Len(<<f, g>>) \in Nat /\ Len(<<f, g>>) = 2 /\ <<f, g>>[1] = f /\ <<f, g>>[2] = g
      /\ D - 1 \in 0..D /\ D - 1 # D
  BY <1>2
<1>9. /\ CarryInv' /\ OpsInv'
      /\ \A u \in Threads : \A n, x : Carry(u, n, x)' => Carry(u, n, x)
  BY <1>2, <1>3, <1>4, <1>6, <1>7, <1>8, Replaced DEF D
<1>10. TypeOK'
  <2>1. opstate' \in BOOLEAN /\ local' \in BOOLEAN
    BY DEF EnsureRuns, SplitInv, TypeOK, shared
  <2>2. stack' \in [Threads -> Seq(Frames)]
    BY <1>4 DEF Leaves, IsStack
  <2> QED
    BY <2>1, <2>2 DEF EnsureRuns, SplitInv, TypeOK, shared
<1>11. ChainInv'
  BY DEF EnsureRuns, SplitInv, ChainInv, shared
<1>12. RunInv'
  <2>1. \A u \in Threads : \A n \in 1..Depth(u) : ~RunFrame(Level(u, n))
    BY DEF EnsureRuns, SplitInv, ChainInv, RunInv, RunFrame
  <2>2. chain' = "running"
    BY DEF EnsureRuns
  <2> QED
    BY <1>1, <1>3, <1>4, <1>7, <1>8, <2>1, <2>2, RunMoved DEF RunFrame, D
<1>13. TicketInv'
  BY <1>9, TicketsKept DEF EnsureRuns, SplitInv
<1>14. NoReentryInv'
  <2>1. /\ UNCHANGED <<local, state_mutex>> /\ Head(stack[t]).op = "start"
        /\ Head(stack[t]).at = "ensure" /\ opstate_mutex' = t
    BY <1>2 DEF EnsureRuns, Starting, shared
  <2> QED
    BY <1>2, <1>3, <1>4, <1>7, <1>8, <2>1, ReplacedHolding DEF D, Holds
<1> QED
  BY <1>9, <1>10, <1>11, <1>12, <1>13, <1>14 DEF SplitInv

LEMMA CompleteInv ==
  ASSUME SplitInv, NEW t \in Threads, NEW signal \in Signals, Complete(t, signal)
  PROVE  SplitInv'
<1> DEFINE D == Depth(t)
<1>1. IsStack
  BY DEF SplitInv, TypeOK, IsStack
<1>r. PICK ops \in Seq(Clients) : ops = receivers
  BY DEF SplitInv, TypeOK
<1> DEFINE f == Callbacks(ops, "next")
<1>2. ~Idle(t) /\ D \in Nat \ {0} /\ Level(t, D) = Chain /\ Head(stack[t]) = Chain
  BY <1>1, AtTop DEF Complete
<1>3. f \in Frames /\ f.op = "callbacks" /\ f.ops = ops /\ f.at = "next"
  BY KindsOfFrames DEF Callbacks
<1>4. Leaves(t, D - 1, <<f>>)
  BY <1>1, <1>r, <1>2, <1>3, Went DEF Complete
<1>5. \A x : Carries(f, x) <=> Among(x, ops)
  BY DEF Carries, Callbacks, Starting
<1>6. Distinct(ops) /\ signal # "pending"
  BY <1>r DEF SplitInv, TicketInv, Signals
<1> HIDE DEF D, f
<1>7. \A i \in 1..Len(<<f>>) : i = 1 /\ <<f>>[i] = f
  OBVIOUS
<1>8. Len(<<f>>) \in Nat /\ Len(<<f>>) = 1 /\ D - 1 \in 0..D /\ D - 1 # D
  BY <1>2
<1>9. ASSUME NEW u \in Threads, NEW n, NEW x, Carry(u, n, x)'
      PROVE  Carry(u, n, x) \/ (u = t /\ n = D /\ Among(x, receivers))
  <2>1. CASE Was(t, D - 1, u, n)
    BY <1>9, <2>1 DEF Was, Carry
  <2>2. CASE u = t /\ \E i \in 1..Len(<<f>>) : n = D - 1 + i /\ Level(u, n)' = <<f>>[i]
    BY <1>r, <1>2, <1>5, <1>7, <1>9, <2>2 DEF Carry
  <2>3. n \in 1..Depth(u)'
    BY <1>9 DEF Carry
  <2> QED
    BY <1>2, <1>4, <1>8, <2>1, <2>2, <2>3, LevelsAfter DEF D
<1>10. CarryInv'
  <2>1. \A u \in Threads : \A n, x : Carry(u, n, x) => ~Among(x, receivers)
    BY DEF SplitInv, TicketInv
  <2> QED
    BY <1>9, <2>1 DEF SplitInv, CarryInv
<1>11. OpsInv'
  BY <1>1, <1>3, <1>4, <1>6, <1>7, <1>8, OpsKept DEF SplitInv, D
<1>12. TypeOK'
  <2>1. stack' \in [Threads -> Seq(Frames)]
    BY <1>4 DEF Leaves, IsStack
  <2> QED
    BY <2>1 DEF Complete, SplitInv, TypeOK
<1>13. ChainInv'
  <2>1. chain = "running"
    BY <1>2 DEF SplitInv, RunInv, Chain, D
  <2> QED
    BY <1>6, <2>1 DEF Complete, SplitInv, ChainInv
<1>14. RunInv'
  <2>1. \A u \in Threads : \A n \in 1..Depth(u) :
          RunFrame(Level(u, n)) => u = t /\ n > D - 1
    BY <1>2 DEF SplitInv, RunInv, RunFrame, Chain, D
  <2>2. chain' = "over"
    BY DEF Complete
  <2> QED
    BY <1>1, <1>3, <1>4, <1>7, <1>8, <2>1, <2>2, RunMoved DEF D
<1>15. TicketInv'
  <2>1. \A x : ~Among(x, receivers')
    BY DEF Complete, Among
  <2>2. Distinct(receivers') /\ UNCHANGED <<tasks, begun, got, dropped>> /\ tasks = {}
        /\ \A x \in Clients : got[x] = <<>>
    BY DEF Complete, Distinct, SplitInv, TicketInv
  <2>3. \A x : Among(x, receivers) => x \in Clients
    BY DEF SplitInv, TypeOK, Among
  <2>4. \A x : Among(x, receivers)' = Among(x, receivers')
    BY DEF Among
  <2>5. Distinct(receivers)' = Distinct(receivers')
    BY DEF Distinct
  <2> QED
    BY <1>9, <2>1, <2>2, <2>3, <2>4, <2>5 DEF SplitInv, TicketInv, Open
<1>16. NoReentryInv'
  <2>1. UNCHANGED <<local, state_mutex, opstate_mutex>> /\ Head(stack[t]).op = "chain"
    BY <1>2 DEF Complete, Chain
  <2> QED
    BY <1>2, <1>3, <1>4, <1>7, <1>8, <2>1, ReplacedHolding DEF D, Holds
<1> QED
  BY <1>10, <1>11, <1>12, <1>13, <1>14, <1>15, <1>16 DEF SplitInv

LEMMA InvokeInv ==
  ASSUME SplitInv, NEW t \in Threads, Invoke(t)
  PROVE  SplitInv'
<1> DEFINE D == Depth(t)
<1>1. IsStack
  BY DEF SplitInv, TypeOK, IsStack
<1>2. ~Idle(t) /\ D \in Nat \ {0} /\ Level(t, D) = Head(stack[t])
      /\ Head(stack[t]).op = "callbacks" /\ Head(stack[t]).ops \in Seq(Clients)
      /\ Head(stack[t]).at = "next" /\ Head(stack[t]).ops # <<>>
  BY <1>1, AtTop DEF Invoke
<1>o. PICK ops \in Seq(Clients) : ops = Head(stack[t]).ops /\ ops # <<>>
  BY <1>2
<1>c. PICK c \in Clients : c = Head(ops)
  BY <1>o
<1>3. /\ Tail(ops) \in Seq(Clients) /\ Among(c, ops)
      /\ \A x : Among(x, Tail(ops)) => Among(x, ops)
      /\ Distinct(ops) => Distinct(Tail(ops)) /\ ~Among(c, Tail(ops))
  BY <1>o, <1>c, TailAmong
<1>4. Distinct(ops)
  BY <1>2, <1>o DEF SplitInv, OpsInv, D
<1> DEFINE f == Callbacks(Tail(ops), "held")
           g == Rcv(c)
<1>5. /\ f \in Frames /\ f.op = "callbacks" /\ f.at = "held" /\ f.ops = Tail(ops)
      /\ g \in Frames /\ g.op = "rcv"
  BY <1>3, KindsOfFrames DEF Callbacks, Rcv
<1>6. Leaves(t, D - 1, <<f, g>>)
  BY <1>1, <1>o, <1>c, <1>2, <1>5, Called DEF Invoke
<1>7. Carry(t, D, c)
  BY <1>2, <1>o, <1>3 DEF Carry, Carries
<1>8. /\ \A x : Carries(f, x) <=> Among(x, Tail(ops))
      /\ \A x : ~Carries(g, x)
      /\ \A x : Among(x, ops) => Carries(Head(stack[t]), x)
  BY <1>2, <1>o DEF Carries, Starting, Callbacks, Rcv
<1> HIDE DEF D, f, g
<1>9. \A i \in 1..Len(<<f, g>>) : (i = 1 /\ <<f, g>>[i] = f) \/ (i = 2 /\ <<f, g>>[i] = g)
  OBVIOUS
<1>10. /\ Len(<<f, g>>) \in Nat /\ Len(<<f, g>>) = 2 /\ <<f, g>>[1] = f /\ <<f, g>>[2] = g
       /\ D - 1 \in 0..D /\ D - 1 # D
  BY <1>2
<1>11. /\ CarryInv' /\ OpsInv'
       /\ \A u \in Threads : \A n, x : Carry(u, n, x)' =>
            Carry(u, n, x) /\ (u = t /\ n = D => Among(x, Tail(ops)))
  <2>1. \A i \in 1..Len(<<f, g>>) : \A x :
          Carries(<<f, g>>[i], x) => i = 1 /\ Among(x, Tail(ops)) /\ Carries(Head(stack[t]), x)
    BY <1>3, <1>8, <1>9
  <2>2. \A i \in 1..Len(<<f, g>>) : <<f, g>>[i].op = "callbacks" => Distinct(<<f, g>>[i].ops)
    BY <1>3, <1>4, <1>5, <1>9
  <2> QED
    BY <1>2, <1>6, <1>10, <2>1, <2>2, Replaced DEF D
<1>12. \A u \in Threads : \A n : ~Carry(u, n, c)'
  BY <1>3, <1>4, <1>7, <1>11 DEF SplitInv, CarryInv
<1>13. Open(c) /\ c \notin tasks /\ ~Among(c, receivers)
  BY <1>7 DEF SplitInv, TicketInv
<1>14. completion # "pending" /\ completion \in Signals
  BY <1>2 DEF SplitInv, RunInv, ChainInv, TypeOK, D
<1>15. /\ got[c] = <<>> /\ got' = [got EXCEPT ![c] = <<completion>>]
       /\ <<completion>> \in Seq(Signals)
  BY <1>o, <1>c, <1>13, <1>14, AppendEmpty DEF Invoke, SplitInv, TypeOK, Open
<1>16. TypeOK'
  <2>1. got' \in [Clients -> Seq(Signals)]
    BY <1>15 DEF SplitInv, TypeOK
  <2>2. stack' \in [Threads -> Seq(Frames)]
    BY <1>6 DEF Leaves, IsStack
  <2> QED
    BY <2>1, <2>2 DEF Invoke, SplitInv, TypeOK
<1>17. ChainInv'
  BY <1>14 DEF Invoke, SplitInv, ChainInv
<1>18. RunInv'
  <2>1. \A u \in Threads : \A n \in 1..Depth(u) :
          RunFrame(Level(u, n)) => u = t /\ n > D - 1
    BY <1>2 DEF SplitInv, RunInv, RunFrame, D
  <2>2. chain' = "over"
    BY <1>14 DEF Invoke, SplitInv, ChainInv
  <2>3. /\ \A i, j \in 1..Len(<<f, g>>) :
             RunFrame(<<f, g>>[i]) /\ RunFrame(<<f, g>>[j]) => i = j
        /\ \A i \in 1..Len(<<f, g>>) : <<f, g>>[i].op # "chain"
    BY <1>5, <1>9 DEF RunFrame
  <2> QED
    BY <1>1, <1>6, <1>10, <2>1, <2>2, <2>3, RunMoved DEF D
<1>19. TicketInv'
  <2>1. c \notin tasks' /\ tasks' \subseteq tasks
        /\ UNCHANGED <<completion, receivers, begun, dropped>>
    BY <1>13 DEF Invoke
  <2>2. \A u \in Threads : \A n, x : Carry(u, n, x)' => Carry(u, n, x) /\ x # c
    BY <1>11, <1>12
  <2> QED
    BY <1>13, <1>14, <1>15, <2>1, <2>2, DeliveredTickets DEF SplitInv
<1>20. NoReentryInv'
  <2>1. UNCHANGED <<local, opstate_mutex>> /\ state_mutex' = t
    BY DEF Invoke
  <2>2. \A i \in 1..Len(<<f, g>>) :
          <<f, g>>[i].op # "start" /\ (<<f, g>>[i].op = "rcv" => i = 2 /\ Holds(<<f, g>>[1]))
    BY <1>5, <1>9, <1>10 DEF Holds
  <2>3. ~Idle(t) /\ Head(stack[t]).op = "callbacks"
    BY <1>2
  <2>4. Leaves(t, Depth(t) - 1, <<f, g>>) /\ <<f, g>>[2].op = "rcv"
    BY <1>5, <1>6, <1>10 DEF D
  <2> QED
    BY <1>10, <2>1, <2>2, <2>3, <2>4, ReplacedHolding
<1> QED
  BY <1>11, <1>16, <1>17, <1>18, <1>19, <1>20 DEF SplitInv

LEMMA InvokeReturnInv ==
  ASSUME SplitInv, NEW t \in Threads, InvokeReturn(t)
  PROVE  SplitInv'
<1> DEFINE D == Depth(t)
<1>1. IsStack
  BY DEF SplitInv, TypeOK, IsStack
<1>2. ~Idle(t) /\ D \in Nat \ {0} /\ Level(t, D) = Head(stack[t])
      /\ Head(stack[t]).op = "callbacks" /\ Head(stack[t]).ops \in Seq(Clients)
  BY <1>1, AtTop DEF InvokeReturn
<1>o. PICK ops \in Seq(Clients) : ops = Head(stack[t]).ops
  BY <1>2
<1>4. Distinct(ops)
  BY <1>2, <1>o DEF SplitInv, OpsInv, D
<1> DEFINE f == Callbacks(ops, "next")
<1>5. f \in Frames /\ f.op = "callbacks" /\ f.at = "next" /\ f.ops = ops
  BY KindsOfFrames DEF Callbacks
<1>6. Leaves(t, D - 1, <<f>>)
  BY <1>1, <1>o, <1>2, <1>5, Went DEF InvokeReturn
<1>8. \A x : Carries(f, x) => Carries(Head(stack[t]), x)
  BY <1>2, <1>o DEF Carries, Starting, Callbacks
<1> HIDE DEF D, f
<1>9. \A i \in 1..Len(<<f>>) : i = 1 /\ <<f>>[i] = f
  OBVIOUS
<1>10. Len(<<f>>) \in Nat /\ Len(<<f>>) = 1 /\ D - 1 \in 0..D /\ D - 1 # D
  BY <1>2
<1>11. /\ CarryInv' /\ OpsInv'
       /\ \A u \in Threads : \A n, x : Carry(u, n, x)' => Carry(u, n, x)
  BY <1>2, <1>4, <1>5, <1>6, <1>8, <1>9, <1>10, Replaced DEF D
<1>12. TypeOK'
  <2>1. stack' \in [Threads -> Seq(Frames)]
    BY <1>6 DEF Leaves, IsStack
  <2> QED
    BY <2>1 DEF InvokeReturn, SplitInv, TypeOK, shared
<1>13. ChainInv'
  BY DEF InvokeReturn, SplitInv, ChainInv, shared
<1>14. RunInv'
  <2>1. \A u \in Threads : \A n \in 1..Depth(u) :
          RunFrame(Level(u, n)) => u = t /\ n > D - 1
    BY <1>2 DEF SplitInv, RunInv, RunFrame, D
  <2>2. chain' = "over"
    BY <1>2 DEF InvokeReturn, SplitInv, RunInv, D
  <2> QED
    BY <1>1, <1>5, <1>6, <1>9, <1>10, <2>1, <2>2, RunMoved DEF D
<1>15. TicketInv'
  BY <1>11, TicketsKept DEF InvokeReturn, SplitInv
<1>16. NoReentryInv'
  <2>1. UNCHANGED <<local, opstate_mutex>> /\ state_mutex' = Free
    BY DEF InvokeReturn, shared
  <2> QED
    BY <1>2, <1>5, <1>6, <1>9, <1>10, <2>1, ReplacedHolding DEF D
<1> QED
  BY <1>11, <1>12, <1>13, <1>14, <1>15, <1>16 DEF SplitInv

----------------------------------------------------------------------------
(* Steps of a scheduler's thread, and an unwinding. *)

LEMMA TakeChainInv ==
  ASSUME SplitInv, NEW t \in Threads, TakeChain(t)
  PROVE  SplitInv'
<1> DEFINE f == Chain
           D == Depth(t)
<1>1. IsStack /\ D = 0
  BY TopOfStack DEF SplitInv, TypeOK, IsStack, TakeChain
<1>2. f \in Frames /\ f.op = "chain"
  BY KindsOfFrames DEF Chain
<1>3. Leaves(t, D, <<f>>)
  BY <1>1, <1>2, Pushed DEF TakeChain
<1>4. \A x : ~Carries(f, x)
  BY DEF Carries, Starting, Chain
<1> HIDE DEF f, D
<1>5. \A i \in 1..Len(<<f>>) : i = 1 /\ <<f>>[i] = f
  OBVIOUS
<1>6. Len(<<f>>) \in Nat /\ Len(<<f>>) = 1 /\ D \in 0..D
  BY <1>1
<1>7. TypeOK'
  <2>1. stack' \in [Threads -> Seq(Frames)]
    BY <1>3 DEF Leaves, IsStack
  <2> QED
    BY <2>1 DEF TakeChain, SplitInv, TypeOK, shared
<1>8. ChainInv'
  BY DEF TakeChain, SplitInv, ChainInv, shared
<1>9. RunInv'
  <2>1. \A u \in Threads : \A n \in 1..Depth(u) : ~RunFrame(Level(u, n))
    BY DEF TakeChain, SplitInv, ChainInv, RunInv, RunFrame
  <2>2. chain' = "running"
    BY DEF TakeChain
  <2> QED
    BY <1>1, <1>2, <1>3, <1>5, <1>6, <2>1, <2>2, RunMoved DEF D
<1>10. \A u \in Threads : \A n, x : Carry(u, n, x)' => Carry(u, n, x)
  BY <1>1, <1>3, <1>4, <1>5, <1>6, CarriedBefore DEF D
<1>11. CarryInv'
  BY <1>10, CarryKept DEF SplitInv
<1>12. OpsInv'
  BY <1>1, <1>2, <1>3, <1>5, <1>6, OpsKept DEF SplitInv, D
<1>13. TicketInv'
  BY <1>10, TicketsKept DEF TakeChain, SplitInv
<1>14. NoReentryInv'
  <2>1. ~local /\ ~SendReenters => state_mutex # t /\ opstate_mutex # t
    BY <1>1, NotHolding DEF SplitInv, D
  <2>2. UNCHANGED <<local, state_mutex, opstate_mutex>>
    BY DEF TakeChain, shared
  <2> QED
    BY <1>1, <1>2, <1>3, <1>5, <1>6, <2>1, <2>2, NoReentryAfter DEF SplitInv, D
<1> QED
  BY <1>7, <1>8, <1>9, <1>11, <1>12, <1>13, <1>14 DEF SplitInv

LEMMA TakeTaskInv ==
  ASSUME SplitInv, NEW t \in Threads, NEW c \in Clients, TakeTask(t, c)
  PROVE  SplitInv'
<1> DEFINE f == Rcv(c)
           D == Depth(t)
<1>1. IsStack /\ D = 0
  BY TopOfStack DEF SplitInv, TypeOK, IsStack, TakeTask
<1>2. f \in Frames /\ f.op = "rcv"
  BY KindsOfFrames DEF Rcv
<1>3. Leaves(t, D, <<f>>)
  BY <1>1, <1>2, Pushed DEF TakeTask
<1>4. \A x : ~Carries(f, x)
  BY DEF Carries, Starting, Rcv
<1> HIDE DEF f, D
<1>5. \A i \in 1..Len(<<f>>) : i = 1 /\ <<f>>[i] = f
  OBVIOUS
<1>6. Len(<<f>>) \in Nat /\ Len(<<f>>) = 1 /\ D \in 0..D
  BY <1>1
<1>7. Open(c) /\ completion = "value" /\ ~Among(c, receivers)
  BY DEF TakeTask, SplitInv, TicketInv
<1>8. /\ got' = [got EXCEPT ![c] = <<completion>>]
      /\ <<completion>> \in Seq(Signals)
  BY <1>7, AppendEmpty DEF TakeTask, SplitInv, TypeOK, Open, Signals
<1>9. TypeOK'
  <2>1. stack' \in [Threads -> Seq(Frames)]
    BY <1>3 DEF Leaves, IsStack
  <2>2. got' \in [Clients -> Seq(Signals)]
    BY <1>8 DEF SplitInv, TypeOK
  <2> QED
    BY <2>1, <2>2 DEF TakeTask, SplitInv, TypeOK
<1>10. ChainInv'
  BY DEF TakeTask, SplitInv, ChainInv
<1>11. RunInv'
  BY <1>1, <1>2, <1>3, <1>5, <1>6, RunKept DEF TakeTask, SplitInv, RunFrame, D
<1>12. \A u \in Threads : \A n, x : Carry(u, n, x)' => Carry(u, n, x)
  BY <1>1, <1>3, <1>4, <1>5, <1>6, CarriedBefore DEF D
<1>13. CarryInv'
  BY <1>12, CarryKept DEF SplitInv
<1>14. OpsInv'
  BY <1>1, <1>2, <1>3, <1>5, <1>6, OpsKept DEF SplitInv, D
<1>15. TicketInv'
  <2>1. c \notin tasks' /\ tasks' \subseteq tasks
        /\ UNCHANGED <<completion, receivers, begun, dropped>>
    BY DEF TakeTask
  <2>2. \A u \in Threads : \A n, x : Carry(u, n, x)' => Carry(u, n, x) /\ x # c
    BY <1>12 DEF TakeTask, SplitInv, TicketInv
  <2> QED
    BY <1>7, <1>8, <2>1, <2>2, DeliveredTickets DEF SplitInv
<1>16. NoReentryInv'
  <2>1. ~local /\ ~SendReenters => state_mutex # t /\ opstate_mutex # t
    BY <1>1, NotHolding DEF SplitInv, D
  <2>2. UNCHANGED <<local, state_mutex, opstate_mutex>>
    BY DEF TakeTask
  <2> QED
    BY <1>1, <1>2, <1>3, <1>5, <1>6, <2>1, <2>2, NoReentryAfter DEF SplitInv, D
<1> QED
  BY <1>9, <1>10, <1>11, <1>13, <1>14, <1>15, <1>16 DEF SplitInv

LEMMA UnwindInv ==
  ASSUME SplitInv, NEW t \in Threads, Unwind(t),
         \/ chain' = chain
         \/ At(t, "chain") /\ chain' = "dead"
  PROVE  SplitInv'
<1>1. IsStack /\ Depth(t) \in Nat
  BY TopOfStack DEF SplitInv, TypeOK, IsStack
<1>2. Leaves(t, 0, <<>>)
  BY <1>1, Unwound DEF Unwind
<1>3. 1..Len(<< >>) = {} /\ Len(<< >>) \in Nat /\ Len(<< >>) = 0 /\ 0 \in 0..Depth(t)
  BY <1>1
<1>4. /\ state_mutex' \in {state_mutex, Free, Poisoned} /\ state_mutex' # t
      /\ opstate_mutex' \in {opstate_mutex, Free, Poisoned} /\ opstate_mutex' # t
  BY SplitAssumption DEF Unwind, LetGo
<1>5. dropped \subseteq Clients /\ dropped' = dropped \cup Carried(t) /\ Carried(t) \subseteq Clients
  BY DEF Unwind, Carried, SplitInv, TypeOK
<1>6. \A c \in Clients : c \in Carried(t) <=> \E n : Carry(t, n, c)
  BY <1>1, CarriedClients
<1>7. \A u \in Threads : \A n, c : Carry(u, n, c)' => Carry(u, n, c) /\ u # t
  <2> TAKE u \in Threads
  <2> TAKE n, c
  <2> HAVE Carry(u, n, c)'
  <2>1. Was(t, 0, u, n)
    BY <1>1, <1>2, <1>3, LevelsAfter DEF Carry
  <2> QED
    BY <1>1, <2>1 DEF Was, Carry
<1>8. TypeOK'
  <2>1. stack' \in [Threads -> Seq(Frames)]
    BY <1>2 DEF Leaves, IsStack
  <2>2. {state_mutex', opstate_mutex'} \subseteq Threads \cup {Free, Poisoned}
    BY <1>4 DEF SplitInv, TypeOK
  <2>3. dropped' \subseteq Clients
    BY <1>5
  <2>4. chain' \in {"connected", "posted", "running", "over", "dead", "lost"}
    BY DEF SplitInv, TypeOK
  <2> QED
    BY <2>1, <2>2, <2>3, <2>4 DEF Unwind, SplitInv, TypeOK
<1>9. At(t, "chain") => chain = "running" /\ Level(t, Depth(t)).op = "chain"
                        /\ Depth(t) \in 1..Depth(t)
  BY <1>1, AtTop DEF SplitInv, RunInv
<1>10. ChainInv'
  <2>1. completion = "pending" => state_mutex' = Free
    BY SplitAssumption DEF Unwind, LetGo, SplitInv, ChainInv
  <2> QED
    BY <1>9, <2>1 DEF Unwind, SplitInv, ChainInv
<1>11. RunInv'
  <2>1. CASE chain' = chain
    BY <1>1, <1>2, <1>3, <2>1, RunKept DEF SplitInv
  <2>2. CASE At(t, "chain")
    <3>1. \A u \in Threads : \A n \in 1..Depth(u) :
            RunFrame(Level(u, n)) => u = t /\ n > 0
      BY <1>1, <1>9, <2>2 DEF SplitInv, RunInv, RunFrame
    <3> QED
      BY <1>1, <1>2, <1>3, <3>1, RunMoved
  <2> QED
    BY <2>1, <2>2
<1>12. CarryInv'
  BY <1>7, CarryKept DEF SplitInv
<1>13. OpsInv'
  BY <1>1, <1>2, <1>3, OpsKept DEF SplitInv
<1>14. TicketInv'
  <2>1. UNCHANGED <<completion, receivers, tasks, begun, got>>
    BY DEF Unwind
  <2>2. \A c \in Clients : Open(c) /\ c \notin Carried(t) => Open(c)'
    BY <1>5, <2>1 DEF Open
  <2>3. \A c \in Clients : c \in Carried(t) => Open(c) /\ c \notin tasks /\ ~Among(c, receivers)
    BY <1>6 DEF SplitInv, TicketInv
  <2>4. \A c \in Clients : c \notin begun' => got'[c] = <<>> /\ c \notin dropped'
    BY <1>5, <2>1, <2>3 DEF SplitInv, TicketInv, Open
  <2>5. \A c \in Clients :
          got'[c] # <<>> => completion' # "pending" /\ got'[c] = <<completion'>>
    BY <2>1 DEF SplitInv, TicketInv
  <2>6. \A c \in tasks' : Open(c)' /\ completion' = "value" /\ ~Among(c, receivers)'
    BY <2>1, <2>2, <2>3 DEF SplitInv, TypeOK, TicketInv, Among
  <2>7. \A c \in Clients : Among(c, receivers)' => Open(c)'
    BY <2>1, <2>2, <2>3 DEF SplitInv, TicketInv, Among
  <2>8. Distinct(receivers)'
    BY <2>1 DEF SplitInv, TicketInv, Distinct
  <2>9. \A u \in Threads : \A n, c : Carry(u, n, c)' =>
          c \in Clients /\ Open(c)' /\ c \notin tasks' /\ ~Among(c, receivers)'
    <3> TAKE u \in Threads
    <3> TAKE n, c
    <3> HAVE Carry(u, n, c)'
    <3>1. /\ u # t /\ Carry(u, n, c) /\ c \in Clients /\ Open(c) /\ c \notin tasks
          /\ ~Among(c, receivers)
      BY <1>7 DEF SplitInv, TicketInv
    <3>2. c \notin Carried(t)
      BY <1>6, <3>1 DEF SplitInv, CarryInv
    <3> QED
      BY <2>1, <2>2, <3>1, <3>2 DEF Among
  <2> QED
    BY <2>4, <2>5, <2>6, <2>7, <2>8, <2>9 DEF TicketInv
<1>15. NoReentryInv'
  <2>1. UNCHANGED local
    BY DEF Unwind
  <2> QED
    BY <1>1, <1>2, <1>3, <1>4, <2>1, NoReentryAfter DEF SplitInv
<1> QED
  BY <1>8, <1>10, <1>11, <1>12, <1>13, <1>14, <1>15 DEF SplitInv

\* Who locks the state to complete the chain never finds it poisoned or his own.
LEMMA PanicsInv ==
  ASSUME SplitInv, NEW t \in Threads, RcvPanics(t) \/ ChainDies(t) \/ LockPanics(t)
  PROVE  SplitInv'
<1>1. IsStack
  BY DEF SplitInv, TypeOK, IsStack
<1>2. At(t, "chain") => state_mutex = Free
  BY <1>1, AtTop DEF SplitInv, ChainInv, RunInv
<1>3. LockPanics(t) => ~At(t, "chain")
  BY <1>2, SplitAssumption DEF LockPanics, Unlockable, WantsOpstate, InStart, At
<1>4. Unwind(t) /\ (chain' = chain \/ (At(t, "chain") /\ chain' = "dead"))
  BY <1>3 DEF RcvPanics, ChainDies, LockPanics
<1> QED
  BY <1>4, UnwindInv

LEMMA InitInv == Init => SplitInv
<1> HAVE Init
<1>1. TypeOK
  <2>1. {local, opstate} \subseteq BOOLEAN
    BY DEF Init
  <2> QED
    BY <2>1 DEF Init, TypeOK
<1>2. \A t \in Threads : Depth(t) = 0 /\ 1..Depth(t) = {}
  <2>1. Len(<< >>) = 0 /\ 1..0 = {}
    OBVIOUS
  <2> QED
    BY <2>1 DEF Init, Depth
<1>3. ChainInv
  BY DEF Init, ChainInv
<1>4. RunInv /\ OpsInv /\ CarryInv
  BY <1>2 DEF RunInv, OpsInv, CarryInv, Carry
<1>5. TicketInv
  BY <1>2 DEF Init, TicketInv, Carry, Among, Distinct
<1>6. NoReentryInv
  BY <1>2, SplitAssumption DEF Init, NoReentryInv
<1> QED
  BY <1>1, <1>3, <1>4, <1>5, <1>6 DEF SplitInv

LEMMA StutterInv == SplitInv /\ UNCHANGED vars => SplitInv'
<1> HAVE SplitInv /\ UNCHANGED vars
<1>1. \A t, n : Level(t, n)' = Level(t, n) /\ Depth(t)' = Depth(t)
  BY DEF vars, Level, Depth
<1>2. TypeOK' /\ ChainInv'
  BY DEF vars, SplitInv, TypeOK, ChainInv
<1>3. RunInv' /\ OpsInv' /\ NoReentryInv'
  BY <1>1 DEF vars, SplitInv, RunInv, OpsInv, NoReentryInv
<1>4. \A t, n, c : Carry(t, n, c)' = Carry(t, n, c)
  BY <1>1 DEF Carry
<1>5. CarryInv'
  BY <1>4 DEF SplitInv, CarryInv
<1>6. TicketInv'
  BY <1>4, TicketsKept DEF vars, shared, SplitInv
<1> QED
  BY <1>2, <1>3, <1>5, <1>6 DEF SplitInv

LEMMA NextInv == SplitInv /\ [Next]_vars => SplitInv'
<1> SUFFICES ASSUME SplitInv, [Next]_vars
             PROVE  SplitInv'
  OBVIOUS
<1>1. ASSUME NEW t \in Threads, Proceed(t)
      PROVE  SplitInv'
  BY <1>1, ReturnsInv, StartPendingInv, StartSignalledInv, StartScheduledInv, EnsureRunsInv,
     EnsurePostsInv, CompleteInv, InvokeInv, InvokeReturnInv, PanicsInv DEF Proceed
<1>2. ASSUME NEW t \in Threads, RcvPanics(t) \/ ChainDies(t)
      PROVE  SplitInv'
  BY <1>2, PanicsInv
<1>3. ASSUME NEW t \in Threads, TakeChain(t)
      PROVE  SplitInv'
  BY <1>3, TakeChainInv
<1>4. ASSUME NEW t \in Threads, NEW c \in Clients, Start(t, c) \/ TakeTask(t, c)
      PROVE  SplitInv'
  BY <1>4, StartInv, TakeTaskInv
<1>5. CASE UNCHANGED vars
  BY <1>5, StutterInv
<1> QED
  BY <1>1, <1>2, <1>3, <1>4, <1>5 DEF Next

----------------------------------------------------------------------------
(* What follows. *)

\* Nowhere, with any number of threads and clients, is the invariant broken.
THEOREM SplitInvariant == Spec => []SplitInv
BY InitInv, NextInv, PTL DEF Spec

\* However many threads race to start it, the wrapped chain is run once, and the
\* assertion of assign_* does not fail.
THEOREM ChainIsStartedOnce == Spec => []ChainStartedOnce
<1>1. SplitInv => ChainStartedOnce
  <2> HAVE SplitInv
  <2>1. chain_starts <= 1
    BY DEF SplitInv, ChainInv
  <2>2. ASSUME NEW t \in Threads, At(t, "chain")
        PROVE  completion = "pending"
    <3>1. IsStack
      BY DEF SplitInv, TypeOK, IsStack
    <3> QED
      BY <2>2, <3>1, AtTop DEF SplitInv, RunInv, ChainInv
  <2> QED
    BY <2>1, <2>2 DEF ChainStartedOnce
<1> QED
  BY <1>1, SplitInvariant, PTL

\* A client's receiver is never given a second signal, nor another one than the
\* chain's.
THEOREM SignalIsTheSameOnce == Spec => []SameSignalOnce
<1>1. SplitInv => SameSignalOnce
  BY DEF SplitInv, TicketInv, SameSignalOnce
<1> QED
  BY <1>1, SplitInvariant, PTL

\* Once there is a signal no callback waits for one, and the signal is not lost to a
\* lock that panics.
THEOREM NoCallbackIsLost == Spec => []NoLostCallback
<1>1. SplitInv => NoLostCallback
  BY DEF SplitInv, ChainInv, NoLostCallback
<1> QED
  BY <1>1, SplitInvariant, PTL

\* As long as receivers do not start clients themselves, no thread of a SplitSend
\* waits for a mutex that it holds.  (When they do, SplitReentry shows how.)
THEOREM NoThreadLocksItselfOut ==
  ASSUME SendReenters = FALSE
  PROVE  Spec => []NoSelfDeadlock
<1>1. SplitInv => NoSelfDeadlock
  <2> HAVE SplitInv
  <2> SUFFICES ASSUME ~local, NEW t \in Threads
               PROVE  /\ WantsState(t) => state_mutex # t
                      /\ WantsOpstate(t) => opstate_mutex # t
    BY DEF NoSelfDeadlock
  <2>1. IsStack /\ NoReentryInv
    BY DEF SplitInv, TypeOK, IsStack
  <2>2. ASSUME NEW at \in {"lock", "ensure"}, InStart(t, at)
        PROVE  state_mutex # t /\ opstate_mutex # t
    <3>1. /\ Depth(t) \in Nat \ {0} /\ Level(t, Depth(t)).op = "start"
          /\ Level(t, Depth(t)).at = at
      BY <2>1, <2>2, InStartTop DEF Starting
    <3>2. Depth(t) = 1
      BY <2>1, <3>1 DEF NoReentryInv
    <3> QED
      BY <2>1, <2>2, <3>1, <3>2, NotHolding DEF Holds
  <2>3. ASSUME At(t, "chain") \/ (At(t, "callbacks") /\ Head(stack[t]).at = "next")
        PROVE  state_mutex # t
    <3>1. /\ Depth(t) \in Nat \ {0} /\ Level(t, Depth(t)) = Head(stack[t])
          /\ Head(stack[t]).op \in {"chain", "callbacks"}
      BY <2>1, <2>3, AtTop
    <3>2. ~Holds(Head(stack[t]))
      BY <2>3, <3>1 DEF Holds, At
    <3> QED
      BY <2>1, <3>1, <3>2, NotHolding
  <2> QED
    BY <2>2, <2>3 DEF WantsState, WantsOpstate
<1> QED
  BY <1>1, SplitInvariant, PTL

----------------------------------------------------------------------------
(* The refinement: what the observed client sees is a Rendezvous. *)

\* The step changes nothing that the observed client sees.
LEMMA Unseen ==
  ASSUME UNCHANGED <<completion, begun, dropped>>, got'[Observed] = got[Observed]
  PROVE  UNCHANGED Abstract!vars
BY DEF Abstract!vars

\* Another client's, or its own, receiver is given the signal.
LEMMA SeenDelivery ==
  ASSUME SplitInv, NEW c \in Clients, Open(c), completion # "pending",
         got' = [got EXCEPT ![c] = <<completion>>], UNCHANGED <<completion, begun, dropped>>
  PROVE  [Abstract!Next]_(Abstract!vars)
<1>1. CASE c = Observed
  <2>1. got'[Observed] = <<completion>> /\ got[Observed] = <<>>
    BY <1>1 DEF SplitInv, TypeOK, Open
  <2>2. Abstract!Deliver
    BY <1>1, <2>1 DEF Abstract!Deliver, Open
  <2> QED
    BY <2>2 DEF Abstract!Next
<1>2. CASE c # Observed
  <2>1. got'[Observed] = got[Observed]
    BY <1>2, SplitAssumption DEF SplitInv, TypeOK
  <2> QED
    BY <2>1, Unseen
<1> QED
  BY <1>1, <1>2

LEMMA SeenUnwinding ==
  ASSUME SplitInv, NEW t \in Threads, Unwind(t)
  PROVE  [Abstract!Next]_(Abstract!vars)
<1>1. IsStack
  BY DEF SplitInv, TypeOK, IsStack
<1>2. UNCHANGED <<completion, begun, got>> /\ dropped' = dropped \cup Carried(t)
  BY DEF Unwind
<1>3. CASE Observed \in Carried(t)
  <2>1. Open(Observed)
    BY <1>1, <1>3, CarriedClients, SplitAssumption DEF SplitInv, TicketInv
  <2>2. Abstract!GiveUp
    BY <1>2, <1>3, <2>1 DEF Abstract!GiveUp, Open
  <2> QED
    BY <2>2 DEF Abstract!Next
<1>4. CASE Observed \notin Carried(t)
  BY <1>2, <1>4 DEF Abstract!vars
<1> QED
  BY <1>3, <1>4

LEMMA SeenCalls ==
  ASSUME SplitInv, NEW t \in Threads, Proceed(t)
  PROVE  [Abstract!Next]_(Abstract!vars)
<1>1. IsStack
  BY DEF SplitInv, TypeOK, IsStack
<1>2. CASE StartPending(t)
  BY <1>2, Unseen DEF StartPending
<1>3. CASE StartSignalled(t)
  <2>1. PICK c \in Clients : c = Client(t) /\ Level(t, Depth(t)) = Starting(c, "lock")
                             /\ Depth(t) \in Nat \ {0}
    BY <1>1, <1>3, InStartTop DEF StartSignalled
  <2>2. Carry(t, Depth(t), c)
    BY <2>1 DEF Carry, Carries
  <2>3. Open(c)
    BY <2>2 DEF SplitInv, TicketInv
  <2>4. got' = [got EXCEPT ![c] = <<completion>>]
    BY <1>3, <2>1, <2>3, AppendEmpty DEF StartSignalled, Open, SplitInv, TypeOK
  <2> QED
    BY <1>3, <2>3, <2>4, SeenDelivery DEF StartSignalled
<1>4. CASE StartScheduled(t)
  BY <1>4, Unseen DEF StartScheduled
<1>5. CASE StartReturn(t) \/ EnsureAgain(t) \/ EnsureRuns(t) \/ EnsurePosts(t) \/ EnsureReturn(t)
  BY <1>5, Unseen DEF StartReturn, EnsureAgain, EnsureRuns, EnsurePosts, EnsureReturn, shared
<1>6. ASSUME NEW signal \in Signals, Complete(t, signal)
      PROVE  Abstract!Send
  <2>1. signal # "pending"
    BY DEF Signals
  <2> QED
    BY <1>6, <2>1 DEF Complete, Abstract!Send
<1>7. CASE Invoke(t)
  <2>1. /\ Level(t, Depth(t)) = Head(stack[t]) /\ Depth(t) \in Nat \ {0}
        /\ Head(stack[t]).op = "callbacks" /\ Head(stack[t]).ops \in Seq(Clients)
        /\ Head(stack[t]).ops # <<>>
    BY <1>1, <1>7, AtTop DEF Invoke
  <2>2. PICK c \in Clients : c = Head(Head(stack[t]).ops)
    BY <2>1
  <2>3. Carry(t, Depth(t), c)
    BY <2>1, <2>2, TailAmong DEF Carry, Carries
  <2>4. Open(c) /\ completion # "pending"
    BY <2>1, <2>3 DEF SplitInv, TicketInv, RunInv, ChainInv
  <2>5. got' = [got EXCEPT ![c] = <<completion>>]
    BY <1>7, <2>2, <2>4, AppendEmpty DEF Invoke, Open, SplitInv, TypeOK
  <2> QED
    BY <1>7, <2>4, <2>5, SeenDelivery DEF Invoke
<1>8. CASE InvokeReturn(t) \/ CompleteReturn(t) \/ RcvReturn(t)
  BY <1>8, Unseen DEF InvokeReturn, CompleteReturn, RcvReturn, shared
<1>9. CASE LockPanics(t)
  BY <1>9, SeenUnwinding DEF LockPanics
<1> QED
  BY <1>2, <1>3, <1>4, <1>5, <1>6, <1>7, <1>8, <1>9 DEF Proceed, Abstract!Next

LEMMA StepMeets ==
  ASSUME SplitInv, [Next]_vars
  PROVE  [Abstract!Next]_(Abstract!vars)
<1>1. ASSUME NEW t \in Threads, Proceed(t)
      PROVE  [Abstract!Next]_(Abstract!vars)
  BY <1>1, SeenCalls
<1>2. ASSUME NEW t \in Threads, RcvPanics(t) \/ ChainDies(t)
      PROVE  [Abstract!Next]_(Abstract!vars)
  BY <1>2, SeenUnwinding DEF RcvPanics, ChainDies
<1>3. ASSUME NEW t \in Threads, TakeChain(t)
      PROVE  [Abstract!Next]_(Abstract!vars)
  BY <1>3, Unseen DEF TakeChain, shared
<1>4. ASSUME NEW t \in Threads, NEW c \in Clients, Start(t, c)
      PROVE  [Abstract!Next]_(Abstract!vars)
  <2>1. CASE c = Observed
    <3>1. Observed \notin dropped
      BY <1>4, <2>1 DEF Start, SplitInv, TicketInv
    <3>2. Abstract!Attach
      BY <1>4, <2>1, <3>1 DEF Start, Abstract!Attach
    <3> QED
      BY <3>2 DEF Abstract!Next
  <2>2. CASE c # Observed
    BY <1>4, <2>2 DEF Start, Abstract!vars
  <2> QED
    BY <2>1, <2>2
<1>5. ASSUME NEW t \in Threads, NEW c \in Clients, TakeTask(t, c)
      PROVE  [Abstract!Next]_(Abstract!vars)
  <2>1. Open(c) /\ completion = "value"
    BY <1>5 DEF TakeTask, SplitInv, TicketInv
  <2>2. got' = [got EXCEPT ![c] = <<completion>>]
    BY <1>5, <2>1, AppendEmpty DEF TakeTask, Open, SplitInv, TypeOK
  <2> QED
    BY <1>5, <2>1, <2>2, SeenDelivery DEF TakeTask
<1>6. CASE UNCHANGED vars
  BY <1>6, Unseen DEF vars
<1> QED
  BY <1>1, <1>2, <1>3, <1>4, <1>5, <1>6 DEF Next

\* What ClientMeetsSignal says of every step: the observed client's receiver gets the
\* chain's signal once, after the client was started and unless it was dropped.
THEOREM ClientMeetsSignalSafely ==
  Spec => Abstract!Init /\ [][Abstract!Next]_(Abstract!vars)
<1>1. Init => Abstract!Init
  BY SplitAssumption DEF Init, Abstract!Init
<1> QED
  BY <1>1, StepMeets, SplitInvariant, PTL DEF Spec
=============================================================================
