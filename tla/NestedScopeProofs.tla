-------------------------- MODULE NestedScopeProofs --------------------------
(***************************************************************************)
(* Proofs about NestedScope, for any number of threads, references and     *)
(* closures, and let_values nested to any depth.  The count of a scope is  *)
(* that of the frames, closures, references and receivers that hold it, of *)
(* which the data of the scope inside it is one.                           *)
(***************************************************************************)
EXTENDS NestedScope, FiniteSetTheorems, TLAPS

----------------------------------------------------------------------------
(* Stacks.  A frame is known by its number, counted from the oldest call   *)
(* of its thread: so a call or a return changes the last numbers only.     *)

Nth(s, n) == s[Len(s) + 1 - n]

LEMMA PushNth ==
  ASSUME NEW S, NEW s \in Seq(S), NEW f \in S
  PROVE  /\ <<f>> \o s \in Seq(S)
         /\ Len(<<f>> \o s) = Len(s) + 1
         /\ Nth(<<f>> \o s, Len(s) + 1) = f
         /\ \A n \in 1..Len(s) : Nth(<<f>> \o s, n) = Nth(s, n)
<1> DEFINE r == <<f>> \o s
<1>1. r \in Seq(S) /\ Len(r) = Len(s) + 1 /\ Len(s) \in Nat
  OBVIOUS
<1>2. r[1] = f /\ \A i \in 1..Len(s) : r[i + 1] = s[i]
  OBVIOUS
<1> HIDE DEF r
<1>3. Nth(r, Len(s) + 1) = f
  BY <1>1, <1>2 DEF Nth
<1>4. ASSUME NEW n \in 1..Len(s)
      PROVE  Nth(r, n) = Nth(s, n)
  <2>1. Len(s) + 1 - n \in 1..Len(s) /\ Len(r) + 1 - n = (Len(s) + 1 - n) + 1
    BY <1>1
  <2> QED
    BY <1>2, <2>1 DEF Nth
<1> QED
  BY <1>1, <1>3, <1>4 DEF r

LEMMA PopNth ==
  ASSUME NEW S, NEW s \in Seq(S), s # <<>>
  PROVE  /\ Tail(s) \in Seq(S)
         /\ Len(s) \in Nat \ {0} /\ Len(Tail(s)) = Len(s) - 1
         /\ Head(s) = Nth(s, Len(s)) /\ Head(s) = s[1] /\ Head(s) \in S
         /\ \A n \in 1..Len(s) - 1 : Nth(Tail(s), n) = Nth(s, n)
<1> DEFINE r == Tail(s)
<1>1. r \in Seq(S) /\ Len(r) = Len(s) - 1 /\ Len(s) \in Nat \ {0}
  OBVIOUS
<1>2. Head(s) = s[1] /\ s[1] \in S /\ \A i \in 1..Len(s) - 1 : r[i] = s[i + 1]
  OBVIOUS
<1> HIDE DEF r
<1>3. Head(s) = Nth(s, Len(s))
  BY <1>1, <1>2 DEF Nth
<1>4. ASSUME NEW n \in 1..Len(s) - 1
      PROVE  Nth(r, n) = Nth(s, n)
  <2>1. Len(s) - n \in 1..Len(s) - 1 /\ Len(r) + 1 - n = Len(s) - n
        /\ Len(s) + 1 - n = (Len(s) - n) + 1
    BY <1>1
  <2> QED
    BY <1>2, <2>1 DEF Nth
<1> QED
  BY <1>1, <1>2, <1>3, <1>4 DEF r

\* The last call goes on as f.
LEMMA PutNth ==
  ASSUME NEW S, NEW s \in Seq(S), s # <<>>, NEW f \in S
  PROVE  /\ <<f>> \o Tail(s) \in Seq(S) /\ Len(<<f>> \o Tail(s)) = Len(s)
         /\ Nth(<<f>> \o Tail(s), Len(s)) = f
         /\ \A n \in 1..Len(s) - 1 : Nth(<<f>> \o Tail(s), n) = Nth(s, n)
         /\ [s EXCEPT ![1] = f] = <<f>> \o Tail(s)
<1> DEFINE r == Tail(s)
<1>1. /\ r \in Seq(S) /\ Len(s) \in Nat \ {0} /\ Len(r) = Len(s) - 1
      /\ \A n \in 1..Len(s) - 1 : Nth(r, n) = Nth(s, n)
  BY PopNth
<1>2. [s EXCEPT ![1] = f] = <<f>> \o r
  OBVIOUS
<1> HIDE DEF r
<1>3. /\ <<f>> \o r \in Seq(S) /\ Len(<<f>> \o r) = Len(r) + 1
      /\ Nth(<<f>> \o r, Len(r) + 1) = f /\ \A n \in 1..Len(r) : Nth(<<f>> \o r, n) = Nth(r, n)
  BY <1>1, PushNth
<1>4. Len(r) + 1 = Len(s)
  BY <1>1
<1> QED
  BY <1>1, <1>2, <1>3, <1>4 DEF r

----------------------------------------------------------------------------
(* Frames. *)

Height(t) == Len(stack[t])
Frame(t, n) == Nth(stack[t], n)

IsStack == stack \in [Threads -> Seq(Calls)]

LEMMA TopOfStack ==
  ASSUME IsStack, NEW t \in Threads
  PROVE  /\ Height(t) \in Nat
         /\ \A n \in 1..Height(t) : Frame(t, n) \in Calls
         /\ stack[t] # <<>> => /\ Height(t) # 0 /\ Head(stack[t]) = Frame(t, Height(t))
                               /\ stack[t][1] = Frame(t, Height(t))
                               /\ Height(t) \in 1..Height(t)
         /\ stack[t] = <<>> => Height(t) = 0
<1>1. stack[t] \in Seq(Calls)
  BY DEF IsStack
<1>2. \A n \in 1..Height(t) : Frame(t, n) \in Calls
  <2> TAKE n \in 1..Height(t)
  <2>1. Len(stack[t]) + 1 - n \in 1..Len(stack[t])
    BY <1>1 DEF Height
  <2> QED
    BY <1>1, <2>1 DEF Frame, Nth
<1>3. Height(t) \in Nat /\ (stack[t] = <<>> => Height(t) = 0)
  BY <1>1 DEF Height
<1>4. CASE stack[t] # <<>>
  <2>1. Height(t) \in Nat \ {0} /\ Head(stack[t]) = Frame(t, Height(t)) /\ Head(stack[t]) = stack[t][1]
    BY <1>1, <1>4, PopNth DEF Height, Frame
  <2>2. Height(t) \in 1..Height(t)
    BY <2>1
  <2> QED
    BY <1>2, <1>3, <2>1, <2>2
<1> QED
  BY <1>2, <1>3, <1>4

\* What a step of t does to its stack: it has h calls now, and the first k of them
\* are as they were.  The other threads are not touched.
Keeps(t, k, h) ==
  /\ IsStack'
  /\ Height(t)' = h
  /\ \A n \in 1..k : Frame(t, n)' = Frame(t, n)
  /\ \A u \in Threads \ {t} : Height(u)' = Height(u) /\ \A n : Frame(u, n)' = Frame(u, n)

LEMMA NewStack ==
  ASSUME IsStack, NEW t \in Threads, NEW s \in Seq(Calls), stack' = [stack EXCEPT ![t] = s],
         NEW k, \A n \in 1..k : Nth(s, n) = Frame(t, n)
  PROVE  Keeps(t, k, Len(s)) /\ \A n : Frame(t, n)' = Nth(s, n)
<1>1. IsStack'
  BY DEF IsStack
<1>2. stack'[t] = s /\ \A u \in Threads \ {t} : stack'[u] = stack[u]
  BY DEF IsStack
<1>3. \A n : Frame(t, n)' = Nth(s, n)
  BY <1>2 DEF Frame
<1>4. Height(t)' = Len(s)
  BY <1>2 DEF Height
<1>5. \A u \in Threads \ {t} : Height(u)' = Height(u) /\ \A n : Frame(u, n)' = Frame(u, n)
  BY <1>2 DEF Height, Frame
<1> QED
  BY <1>1, <1>3, <1>4, <1>5 DEF Keeps

LEMMA Entered ==
  ASSUME IsStack, NEW t \in Threads, NEW d, d = Height(t), NEW c \in Calls, Enter(t, c)
  PROVE  Keeps(t, d, d + 1) /\ Frame(t, d + 1)' = c
<1>1. stack[t] \in Seq(Calls)
  BY DEF IsStack
<1> DEFINE s == <<c>> \o stack[t]
<1>2. stack' = [stack EXCEPT ![t] = s]
  BY DEF Enter
<1>3. /\ s \in Seq(Calls) /\ Len(s) = d + 1 /\ Nth(s, d + 1) = c
      /\ \A n \in 1..d : Nth(s, n) = Frame(t, n)
  BY <1>1, PushNth DEF Height, Frame
<1> HIDE DEF s
<1> QED
  BY <1>2, <1>3, NewStack

LEMMA Returned ==
  ASSUME IsStack, NEW t \in Threads, NEW d, d = Height(t), stack[t] # <<>>, Return(t)
  PROVE  Keeps(t, d - 1, d - 1)
<1>1. stack[t] \in Seq(Calls)
  BY DEF IsStack
<1> DEFINE s == Tail(stack[t])
<1>2. stack' = [stack EXCEPT ![t] = s]
  BY DEF Return
<1>3. /\ s \in Seq(Calls) /\ Len(s) = d - 1
      /\ \A n \in 1..d - 1 : Nth(s, n) = Frame(t, n)
  BY <1>1, PopNth DEF Height, Frame
<1> HIDE DEF s
<1> QED
  BY <1>2, <1>3, NewStack

LEMMA Put ==
  ASSUME IsStack, NEW t \in Threads, NEW d, d = Height(t), stack[t] # <<>>, NEW f \in Calls,
         stack' = [stack EXCEPT ![t] = <<f>> \o Tail(stack[t])]
  PROVE  Keeps(t, d - 1, d) /\ Frame(t, d)' = f
<1>1. stack[t] \in Seq(Calls)
  BY DEF IsStack
<1> DEFINE s == <<f>> \o Tail(stack[t])
<1>3. /\ s \in Seq(Calls) /\ Len(s) = d /\ Nth(s, d) = f
      /\ \A n \in 1..d - 1 : Nth(s, n) = Frame(t, n)
  BY <1>1, PutNth DEF Height, Frame
<1> HIDE DEF s
<1>2. stack' = [stack EXCEPT ![t] = s]
  BY DEF s
<1> QED
  BY <1>2, <1>3, NewStack

\* The last call is at pc now.
Turned(f, pc) == [f EXCEPT !.pc = pc]

LEMMA Went ==
  ASSUME IsStack, NEW t \in Threads, NEW d, d = Height(t), stack[t] # <<>>, NEW pc, Goto(t, pc),
         Turned(Frame(t, d), pc) \in Calls
  PROVE  /\ Keeps(t, d - 1, d)
         /\ Frame(t, d)' = Turned(Frame(t, d), pc)
<1>1. stack[t] \in Seq(Calls) /\ stack[t][1] = Frame(t, d)
  BY TopOfStack DEF IsStack
<1>2. stack' = [stack EXCEPT ![t] = [stack[t] EXCEPT ![1] = Turned(stack[t][1], pc)]]
  BY DEF Goto, IsStack, Turned
<1>3. PICK f \in Calls : f = Turned(stack[t][1], pc)
  BY <1>1
<1>4. [stack[t] EXCEPT ![1] = f] = <<f>> \o Tail(stack[t])
  BY <1>1, PutNth
<1>5. stack' = [stack EXCEPT ![t] = <<f>> \o Tail(stack[t])]
  BY <1>2, <1>3, <1>4
<1> QED
  BY <1>1, <1>3, <1>5, Put

\* A pointer is dropped, and with the last one the data of a nested scope.
LEMMA Released ==
  ASSUME IsStack, NEW t \in Threads, NEW d, d = Height(t), stack[t] # <<>>, NEW k, NEW pc, Release(t, k, pc),
         Turned(Frame(t, d), pc) \in Calls, Call("drop", k, "start") \in Calls
  PROVE  /\ Frame(t, d)' = Turned(Frame(t, d), pc)
         /\ k > 0 /\ ptrs[k] = 1 => /\ Keeps(t, d - 1, d + 1)
                                    /\ Frame(t, d + 1)' = Call("drop", k, "start")
         /\ ~(k > 0 /\ ptrs[k] = 1) => Keeps(t, d - 1, d)
<1>1. stack[t] \in Seq(Calls) /\ Head(stack[t]) = Frame(t, d) /\ d \in Nat \ {0}
  BY TopOfStack DEF IsStack
<1>3. PICK f \in Calls : f = Turned(Head(stack[t]), pc)
  BY <1>1
<1>4. PICK c \in Calls : c = Call("drop", k, "start")
  OBVIOUS
<1>2. stack' = [stack EXCEPT ![t] =
        ((IF k > 0 /\ ptrs[k] = 1 THEN <<c>> ELSE <<>>) \o <<f>>) \o Tail(stack[t])]
  BY <1>3, <1>4 DEF Release, IsStack, Turned
<1>5. CASE k > 0 /\ ptrs[k] = 1
  <2> DEFINE q == <<f>> \o Tail(stack[t])
             s == <<c>> \o q
  <2>1. /\ q \in Seq(Calls) /\ Len(q) = d /\ Nth(q, d) = f
        /\ \A n \in 1..d - 1 : Nth(q, n) = Frame(t, n)
    BY <1>1, PutNth DEF Height, Frame
  <2>2. stack' = [stack EXCEPT ![t] = s]
    <3>1. (<<c>> \o <<f>>) \o Tail(stack[t]) = <<c>> \o (<<f>> \o Tail(stack[t]))
      <4>1. Tail(stack[t]) \in Seq(Calls)
        BY <1>1
      <4> QED
        BY <4>1
    <3> QED
      BY <1>2, <1>5, <3>1
  <2> HIDE DEF q
  <2>3. /\ s \in Seq(Calls) /\ Len(s) = Len(q) + 1 /\ Nth(s, Len(q) + 1) = c
        /\ \A n \in 1..Len(q) : Nth(s, n) = Nth(q, n)
    BY <2>1, PushNth
  <2> HIDE DEF s
  <2>4. d \in 1..d /\ \A n \in 1..d - 1 : n \in 1..d
    BY <1>1
  <2>5. \A n \in 1..d - 1 : Nth(s, n) = Frame(t, n)
    BY <2>1, <2>3, <2>4
  <2>6. Nth(s, d) = f
    BY <2>1, <2>3, <2>4
  <2>7. Keeps(t, d - 1, Len(s)) /\ \A n : Frame(t, n)' = Nth(s, n)
    BY <2>2, <2>3, <2>5, NewStack
  <2> QED
    BY <1>1, <1>3, <1>4, <1>5, <2>1, <2>3, <2>6, <2>7
<1>6. CASE ~(k > 0 /\ ptrs[k] = 1)
  <2>1. <<>> \o <<f>> = <<f>>
    OBVIOUS
  <2>2. stack' = [stack EXCEPT ![t] = <<f>> \o Tail(stack[t])]
    BY <1>2, <1>6, <2>1
  <2> QED
    BY <1>1, <1>3, <1>6, <2>2, Put
<1> QED
  BY <1>5, <1>6

\* The caller goes on, and unwinds if the call did.
LEMMA Ended ==
  ASSUME IsStack, NEW t \in Threads, NEW d, d = Height(t), stack[t] # <<>>, End(t)
  PROVE  /\ Keeps(t, d - 2, d - 1)
         /\ d > 1 => Frame(t, d - 1)' = [Frame(t, d - 1) EXCEPT !.unwinding = @ \/ Frame(t, d).unwinding]
<1> DEFINE s == Tail(stack[t])
           u == Frame(t, d).unwinding
<1>1. /\ stack[t] \in Seq(Calls) /\ Head(stack[t]) = Frame(t, d) /\ d \in Nat \ {0}
      /\ s \in Seq(Calls) /\ Len(s) = d - 1 /\ \A n \in 1..d - 1 : Nth(s, n) = Frame(t, n)
  BY TopOfStack, PopNth DEF IsStack, Height, Frame
<1>2. u \in BOOLEAN
  <2>1. Frame(t, d) \in Calls
    BY <1>1, TopOfStack
  <2> QED
    BY <2>1 DEF Calls
<1>3. stack' = [stack EXCEPT ![t] =
        IF s = <<>> THEN <<>> ELSE [s EXCEPT ![1].unwinding = s[1].unwinding \/ u]]
  BY <1>1 DEF End, Unwinding
<1> HIDE DEF s, u
<1>4. CASE s = <<>>
  <2>1. d = 1 /\ Len(<<>>) = 0
    BY <1>1, <1>4
  <2>2. <<>> \in Seq(Calls) /\ \A n \in 1..d - 2 : Nth(<<>>, n) = Frame(t, n)
    BY <2>1
  <2>3. Keeps(t, d - 2, Len(<<>>))
    BY <1>3, <1>4, <2>2, NewStack
  <2> QED
    BY <2>1, <2>3
<1>5. CASE s # <<>>
  <2>1. s[1] \in Calls /\ s[1] = Nth(s, d - 1) /\ d - 1 \in 1..d - 1
    BY <1>1, <1>5, PopNth
  <2>2. PICK f \in Calls : f = [s[1] EXCEPT !.unwinding = s[1].unwinding \/ u]
    BY <1>2, <2>1 DEF Calls
  <2> DEFINE r == <<f>> \o Tail(s)
  <2>3. /\ r \in Seq(Calls) /\ Len(r) = d - 1 /\ Nth(r, d - 1) = f
        /\ \A n \in 1..d - 2 : Nth(r, n) = Nth(s, n)
        /\ [s EXCEPT ![1] = f] = r
    BY <1>1, <1>5, PutNth
  <2> HIDE DEF r
  <2>4. stack' = [stack EXCEPT ![t] = r]
    BY <1>3, <1>5, <2>2, <2>3
  <2>5. \A n \in 1..d - 2 : Nth(r, n) = Frame(t, n)
    BY <1>1, <2>3
  <2>6. Keeps(t, d - 2, d - 1) /\ \A n : Frame(t, n)' = Nth(r, n)
    <3>1. Keeps(t, d - 2, Len(r)) /\ \A n : Frame(t, n)' = Nth(r, n)
      BY <2>3, <2>4, <2>5, NewStack
    <3> QED
      BY <2>3, <3>1
  <2>7. f = [Frame(t, d - 1) EXCEPT !.unwinding = @ \/ u]
    BY <1>1, <2>1, <2>2
  <2> QED
    BY <2>3, <2>6, <2>7 DEF u
<1> QED
  BY <1>4, <1>5

LEMMA Panicked ==
  ASSUME IsStack, NEW t \in Threads, NEW d, d = Height(t), stack[t] # <<>>,
         stack' = [stack EXCEPT ![t][1].unwinding = TRUE]
  PROVE  Keeps(t, d - 1, d) /\ Frame(t, d)' = [Frame(t, d) EXCEPT !.unwinding = TRUE]
<1>1. /\ stack[t] \in Seq(Calls) /\ stack[t][1] = Frame(t, d) /\ Frame(t, d) \in Calls
  BY TopOfStack DEF IsStack
<1>3. PICK f \in Calls : f = [stack[t][1] EXCEPT !.unwinding = TRUE]
  BY <1>1 DEF Calls
<1>2. stack' = [stack EXCEPT ![t] = [stack[t] EXCEPT ![1] = f]]
  BY <1>3 DEF IsStack
<1>4. [stack[t] EXCEPT ![1] = f] = <<f>> \o Tail(stack[t])
  BY <1>1, PutNth
<1>5. stack' = [stack EXCEPT ![t] = <<f>> \o Tail(stack[t])]
  BY <1>2, <1>4
<1> QED
  BY <1>1, <1>3, <1>5, Put

----------------------------------------------------------------------------
(* The inductive invariant. *)

\* What a call owns a pointer to.  set_value has local_scope, and in self the outer
\* scope; a closure has its data; the data of a scope that is dropped has the outer one.
Holds(f, k) ==
  \/ f.what = "body" /\ f.pc = "user" /\ k = f.lvl
  \/ f.what = "set_value" /\ f.pc = "user" /\ k = f.lvl
  \/ f.what = "set_value" /\ f.pc \in {"user", "self"} /\ k = f.lvl - 1
  \/ f.what = "closure" /\ f.pc \in {"start", "user", "data"} /\ k = f.lvl
  \/ f.what = "drop" /\ f.pc \in {"start", "user", "outer"} /\ k = f.lvl - 1

Holding(k) ==
  UNION {{<<t, n>> : n \in {m \in 1..Height(t) : Holds(Frame(t, m), k)}} : t \in Threads}

\* Each closure that waits has a pointer, the references share one, the receiver has one,
\* and the data of the scope inside has one while that scope lives.
One(b) == IF b THEN 1 ELSE 0
Rest(k) == ready[k] + One(k > 0 /\ refs[k] > 0) + One(k > 0 /\ rcv[k] \in {"chain", "stored"})
Data(k) == One(k < Depth /\ ptrs[k + 1] > 0)

CountInv ==
  \A k \in Scopes : /\ IsFiniteSet(Holding(k))
                    /\ ptrs[k] = Cardinality(Holding(k)) + Rest(k) + Data(k)

\* A scope lives in living scopes.
LivingInv == \A k \in Scopes : \A j \in 0..k : ptrs[k] > 0 => ptrs[j] > 0

\* Of a scope that is not there yet there is nothing.
UnusedInv == \A k \in Nested : rcv[k] = "none" =>
  ptrs[k] = 0 /\ flag[k] = FALSE /\ signal[k] = "none" /\ delivered[k] = "none"

\* The receiver of a scope is in the next one until it is called or dropped there.
StoredInv == \A k \in Nested : k > 1 =>
  (rcv[k - 1] = "stored" <=> rcv[k] # "none" /\ delivered[k] = "none")

\* What the calls know of the scopes.
FrameFits(t, n) ==
  LET f == Frame(t, n) IN
  /\ f.what = "body" => t = Main /\ n = 1 /\ f.lvl = 0 /\ result = "none"
  /\ f.what = "set_value" => f.lvl \in Nested /\ n > 1 /\ Frame(t, n - 1).pc = "user"
  /\ f.what = "drop" => /\ f.lvl \in Nested /\ ptrs[f.lvl] = 0 /\ rcv[f.lvl] # "none"
                        /\ f.pc = "start" => delivered[f.lvl] = "none"
                        /\ f.pc \in {"outer", "rcv"} => flag[f.lvl] \/ delivered[f.lvl] # "none"
  /\ f.unwinding => panicked

FrameInv == \A t \in Threads : \A n \in 1..Height(t) : FrameFits(t, n)

\* The data of a scope is dropped once.
IsDrop(t, n, k) == n \in 1..Height(t) /\ Frame(t, n).what = "drop" /\ Frame(t, n).lvl = k

DropOnce == \A t, u \in Threads : \A n, m : \A k \in Nested :
  IsDrop(t, n, k) /\ IsDrop(u, m, k) => t = u /\ n = m

\* The receiver is called or dropped after the last pointer, with what was stored.
DeliveredInv == \A k \in Nested : delivered[k] # "none" =>
  /\ ptrs[k] = 0
  /\ delivered[k] = IF flag[k] \/ signal[k] = "none" THEN "dropped" ELSE signal[k]

\* Until then somebody is on the way to it.
OnTheWay(t, n, k) == IsDrop(t, n, k) /\ Frame(t, n).pc \in {"start", "outer", "rcv"}

SettledInv == \A k \in Nested : rcv[k] # "none" /\ ptrs[k] = 0 /\ delivered[k] = "none" =>
  \E t \in Threads : \E n : OnTheWay(t, n, k)

\* A panic is known outside, or in a scope that will tell the one around it, or will be
\* caught.
Catches(t, n) == /\ n \in 1..Height(t) /\ Frame(t, n).unwinding
                 /\ Frame(t, n).pc = "user" \/ Frame(t, n).what = "set_value"
Tells(t, n, k) == IsDrop(t, n, k) /\ Frame(t, n).pc = "start"

PanicKnown ==
  \/ flag[0] \/ result = "err"
  \/ \E k \in Nested : flag[k] /\ (ptrs[k] > 0 \/ \E t \in Threads : \E n : Tells(t, n, k))
  \/ \E t \in Threads : \E n : Catches(t, n)

PanicInv == panicked => PanicKnown

WrappedInv == \A k \in Scopes : ready[k] <= wrapped

NestInv == /\ TypeOK /\ CountInv /\ LivingInv /\ UnusedInv /\ StoredInv /\ FrameInv /\ DropOnce
           /\ DeliveredInv /\ SettledInv /\ PanicInv /\ WrappedInv

----------------------------------------------------------------------------
(* Counting. *)

Has(t, n, k) == n \in 1..Height(t) /\ Holds(Frame(t, n), k)

LEMMA HoldingIs ==
  ASSUME NEW k
  PROVE  /\ \A t \in Threads : \A n : <<t, n>> \in Holding(k) <=> Has(t, n, k)
         /\ \A x \in Holding(k) : \E t \in Threads : \E n : x = <<t, n>>
BY DEF Holding, Has

LEMMA Moved ==
  ASSUME NEW H, NEW G, NEW p, NEW q, p # q, q \notin H, IsFiniteSet(H),
         \A x : x # p /\ x # q => (x \in G <=> x \in H)
  PROVE  /\ IsFiniteSet(G) /\ Cardinality(G) \in Nat /\ Cardinality(H) \in Nat
         /\ Cardinality(G) = Cardinality(H) - One(p \in H) + One(p \in G) + One(q \in G)
<1> DEFINE A == H \ {p}
           B == IF p \in G THEN A \cup {p} ELSE A
           C == IF q \in G THEN B \cup {q} ELSE B
<1>1. IsFiniteSet(A) /\ Cardinality(A) = Cardinality(H) - One(p \in H) /\ Cardinality(H) \in Nat
  BY FS_RemoveElement, FS_CardinalityType DEF One
<1>2. p \notin A /\ q \notin A
  OBVIOUS
<1>3. IsFiniteSet(B) /\ Cardinality(B) = Cardinality(A) + One(p \in G)
  <2>1. IsFiniteSet(A \cup {p}) /\ Cardinality(A \cup {p}) = Cardinality(A) + 1 /\ Cardinality(A) \in Nat
    BY <1>1, <1>2, FS_AddElement, FS_CardinalityType
  <2> HIDE DEF A
  <2> QED
    BY <1>1, <2>1 DEF One
<1>4. q \notin B
  BY <1>2
<1>5. IsFiniteSet(C) /\ Cardinality(C) = Cardinality(B) + One(q \in G)
  <2> HIDE DEF B
  <2>1. IsFiniteSet(B \cup {q}) /\ Cardinality(B \cup {q}) = Cardinality(B) + 1 /\ Cardinality(B) \in Nat
    BY <1>3, <1>4, FS_AddElement, FS_CardinalityType
  <2> QED
    BY <1>3, <2>1 DEF One
<1>6. G = C
  OBVIOUS
<1>7. Cardinality(G) \in Nat
  BY <1>5, <1>6, FS_CardinalityType
<1> HIDE DEF A, B, C
<1> QED
  BY <1>1, <1>3, <1>5, <1>6, <1>7

\* A step of t changes what its last call holds, or ends it, or makes another call.
LEMMA HoldersMoved ==
  ASSUME NEW t \in Threads, NEW d \in Nat, d = Height(t), NEW k, IsFiniteSet(Holding(k)),
         \A u \in Threads : \A n : u # t \/ n \notin {d, d + 1} => (Has(u, n, k)' <=> Has(u, n, k))
  PROVE  /\ IsFiniteSet(Holding(k)') /\ Cardinality(Holding(k)') \in Nat
         /\ Cardinality(Holding(k)) \in Nat
         /\ Cardinality(Holding(k)') =
              Cardinality(Holding(k)) - One(Has(t, d, k)) + One(Has(t, d, k)') + One(Has(t, d + 1, k)')
<1> DEFINE H == Holding(k)
           G == Holding(k)'
           p == <<t, d>>
           q == <<t, d + 1>>
<1>1. /\ \A u \in Threads : \A n : <<u, n>> \in H <=> Has(u, n, k)
      /\ \A x \in H : \E u \in Threads : \E n : x = <<u, n>>
  BY HoldingIs
<1>2. /\ \A u \in Threads : \A n : <<u, n>> \in G <=> Has(u, n, k)'
      /\ \A x \in G : \E u \in Threads : \E n : x = <<u, n>>
  BY DEF Holding, Has
<1> HIDE DEF H, G
<1>3. p # q
  <2>1. d # d + 1
    OBVIOUS
  <2> QED
    BY <2>1
<1>4. q \notin H
  <2>1. d + 1 \notin 1..Height(t)
    OBVIOUS
  <2> QED
    BY <1>1, <2>1 DEF Has
<1>5. ASSUME NEW x, x # p, x # q
      PROVE  x \in G <=> x \in H
  <2>1. ASSUME NEW u \in Threads, NEW n, x = <<u, n>>
        PROVE  x \in G <=> x \in H
    <3>1. u # t \/ n \notin {d, d + 1}
      BY <1>5, <2>1
    <3> QED
      BY <1>1, <1>2, <2>1, <3>1
  <2> QED
    BY <1>1, <1>2, <2>1
<1>6. IsFiniteSet(H)
  BY DEF H
<1>7. /\ IsFiniteSet(G) /\ Cardinality(G) \in Nat /\ Cardinality(H) \in Nat
      /\ Cardinality(G) = Cardinality(H) - One(p \in H) + One(p \in G) + One(q \in G)
  <2> HIDE DEF p, q
  <2> QED
    BY <1>3, <1>4, <1>5, <1>6, Moved
<1>8. (p \in H <=> Has(t, d, k)) /\ (p \in G <=> Has(t, d, k)') /\ (q \in G <=> Has(t, d + 1, k)')
  BY <1>1, <1>2
<1> QED
  BY <1>7, <1>8 DEF H, G, One

----------------------------------------------------------------------------
(* What a step of t leaves alone: every call but its last one and a new one. *)

Elsewhere(t, d) == \A u \in Threads : \A n : u # t \/ n \notin {d, d + 1} =>
  /\ n \in 1..Height(u)' <=> n \in 1..Height(u)
  /\ n \in 1..Height(u) =>
       /\ Frame(u, n)'.what = Frame(u, n).what /\ Frame(u, n)'.lvl = Frame(u, n).lvl
       /\ Frame(u, n)'.pc = Frame(u, n).pc
       /\ Frame(u, n).unwinding => Frame(u, n)'.unwinding
       /\ Frame(u, n)'.unwinding => Frame(u, n).unwinding \/ panicked

LEMMA KeepsElsewhere ==
  ASSUME IsStack, NEW t \in Threads, NEW d \in Nat, d = Height(t), NEW h \in {d - 1, d, d + 1},
         h \in Nat, Keeps(t, d - 1, h)
  PROVE  Elsewhere(t, d)
<1> SUFFICES ASSUME NEW u \in Threads, NEW n, u # t \/ n \notin {d, d + 1}
             PROVE  /\ n \in 1..Height(u)' <=> n \in 1..Height(u)
                    /\ n \in 1..Height(u) => Frame(u, n)' = Frame(u, n)
  BY DEF Elsewhere
<1>1. CASE u # t
  BY <1>1 DEF Keeps
<1>2. CASE u = t /\ n \notin {d, d + 1}
  <2>1. n \in 1..h <=> n \in 1..d - 1
    BY <1>2
  <2>2. n \in 1..d <=> n \in 1..d - 1
    BY <1>2
  <2> QED
    BY <1>2, <2>1, <2>2 DEF Keeps
<1> QED
  BY <1>1, <1>2

LEMMA EnteredElsewhere ==
  ASSUME IsStack, NEW t \in Threads, NEW d \in Nat, d = Height(t), Keeps(t, d, d + 1)
  PROVE  Elsewhere(t, d) /\ (d # 0 => Frame(t, d)' = Frame(t, d))
<1>1. \A n \in 1..d - 1 : n \in 1..d
  OBVIOUS
<1>2. Keeps(t, d - 1, d + 1)
  BY <1>1 DEF Keeps
<1>3. d # 0 => d \in 1..d
  OBVIOUS
<1>4. Elsewhere(t, d)
  BY <1>2, KeepsElsewhere
<1> QED
  BY <1>3, <1>4 DEF Keeps

LEMMA IdleElsewhere ==
  ASSUME NEW t \in Threads, NEW d, UNCHANGED stack
  PROVE  Elsewhere(t, d) /\ \A u \in Threads : Height(u)' = Height(u) /\ \A n : Frame(u, n)' = Frame(u, n)
BY DEF Elsewhere, Height, Frame

LEMMA EndedElsewhere ==
  ASSUME IsStack, FrameInv, NEW t \in Threads, NEW d \in Nat \ {0}, d = Height(t),
         Keeps(t, d - 2, d - 1),
         d > 1 => Frame(t, d - 1)' = [Frame(t, d - 1) EXCEPT !.unwinding = @ \/ Frame(t, d).unwinding]
  PROVE  Elsewhere(t, d)
<1> SUFFICES ASSUME NEW u \in Threads, NEW n, u # t \/ n \notin {d, d + 1}
             PROVE  /\ n \in 1..Height(u)' <=> n \in 1..Height(u)
                    /\ n \in 1..Height(u) =>
                         /\ Frame(u, n)'.what = Frame(u, n).what /\ Frame(u, n)'.lvl = Frame(u, n).lvl
                         /\ Frame(u, n)'.pc = Frame(u, n).pc
                         /\ Frame(u, n).unwinding => Frame(u, n)'.unwinding
                         /\ Frame(u, n)'.unwinding => Frame(u, n).unwinding \/ panicked
  BY DEF Elsewhere
<1>1. CASE u # t
  BY <1>1 DEF Keeps
<1>2. CASE u = t /\ n \notin {d, d + 1}
  <2>1. n \in 1..Height(u)' <=> n \in 1..Height(u)
    BY <1>2 DEF Keeps
  <2>2. CASE n \in 1..d - 2
    BY <1>2, <2>2 DEF Keeps
  <2>3. CASE n = d - 1 /\ d > 1
    <3>1. d \in 1..Height(t)
      OBVIOUS
    <3>2. Frame(t, d).unwinding => panicked
      BY <3>1 DEF FrameInv, FrameFits
    <3>3. d - 1 \in 1..Height(t)
      BY <2>3
    <3>4. Frame(t, d - 1) \in Calls /\ Frame(t, d) \in Calls
      BY <3>1, <3>3, TopOfStack
    <3>5. PICK a \in Calls, b \in Calls : a = Frame(t, d - 1) /\ b = Frame(t, d)
      BY <3>4
    <3> DEFINE c == [a EXCEPT !.unwinding = @ \/ b.unwinding]
    <3>6. Frame(t, d - 1)' = c
      BY <2>3, <3>5
    <3>7. c.what = a.what /\ c.lvl = a.lvl /\ c.pc = a.pc /\ (c.unwinding <=> a.unwinding \/ b.unwinding)
      BY DEF Calls
    <3> HIDE DEF c
    <3>8. /\ Frame(t, d - 1)'.what = a.what /\ Frame(t, d - 1)'.lvl = a.lvl
          /\ Frame(t, d - 1)'.pc = a.pc
          /\ Frame(t, d - 1)'.unwinding <=> a.unwinding \/ b.unwinding
      BY <3>6, <3>7
    <3> QED
      BY <1>2, <2>1, <2>3, <3>2, <3>5, <3>8
  <2>4. n \in 1..Height(u) => n \in 1..d - 2 \/ (n = d - 1 /\ d > 1)
    BY <1>2
  <2> QED
    BY <2>1, <2>2, <2>3, <2>4
<1> QED
  BY <1>1, <1>2

\* How the holders change.
LEMMA HoldersCount ==
  ASSUME CountInv, NEW t \in Threads, NEW d \in Nat, d = Height(t), Elsewhere(t, d), NEW j \in Scopes
  PROVE  /\ IsFiniteSet(Holding(j)') /\ Cardinality(Holding(j)') \in Nat
         /\ Cardinality(Holding(j)) \in Nat
         /\ ptrs[j] = Cardinality(Holding(j)) + Rest(j) + Data(j)
         /\ Cardinality(Holding(j)') =
              Cardinality(Holding(j)) - One(Has(t, d, j)) + One(Has(t, d, j)') + One(Has(t, d + 1, j)')
<1>1. IsFiniteSet(Holding(j)) /\ ptrs[j] = Cardinality(Holding(j)) + Rest(j) + Data(j)
  BY DEF CountInv
<1>2. \A u \in Threads : \A n : u # t \/ n \notin {d, d + 1} => (Has(u, n, j)' <=> Has(u, n, j))
  BY DEF Elsewhere, Has, Holds
<1> QED
  BY <1>1, <1>2, HoldersMoved

LEMMA Numbers ==
  ASSUME TypeOK, NEW j \in Scopes
  PROVE  /\ Rest(j) \in Nat /\ Data(j) \in {0, 1} /\ ptrs[j] \in Nat /\ ready[j] \in Nat
         /\ \A b : One(b) \in {0, 1}
BY DEF TypeOK, Rest, Data, One

\* What a call holds, lives.
LEMMA HolderLives ==
  ASSUME TypeOK, CountInv, NEW t \in Threads, NEW n, NEW k \in Scopes, Has(t, n, k)
  PROVE  ptrs[k] > 0
<1>1. <<t, n>> \in Holding(k)
  BY HoldingIs
<1>2. IsFiniteSet(Holding(k)) /\ ptrs[k] = Cardinality(Holding(k)) + Rest(k) + Data(k)
  BY DEF CountInv
<1>3. Cardinality(Holding(k)) \in Nat /\ Cardinality(Holding(k)) # 0
  BY <1>1, <1>2, FS_CardinalityType, FS_EmptySet
<1>4. Rest(k) \in Nat /\ Data(k) \in Nat /\ ptrs[k] \in Nat
  BY Numbers
<1> QED
  BY <1>2, <1>3, <1>4

\* So does what anything else holds.
LEMMA RestLives ==
  ASSUME TypeOK, CountInv, NEW k \in Scopes
  PROVE  /\ ready[k] > 0 => ptrs[k] > 0
         /\ k > 0 /\ refs[k] > 0 => ptrs[k] > 0
         /\ k > 0 /\ rcv[k] \in {"chain", "stored"} => ptrs[k] > 0
         /\ k < Depth /\ ptrs[k + 1] > 0 => ptrs[k] > 0
<1>1. IsFiniteSet(Holding(k)) /\ ptrs[k] = Cardinality(Holding(k)) + Rest(k) + Data(k)
  BY DEF CountInv
<1>2. Cardinality(Holding(k)) \in Nat
  BY <1>1, FS_CardinalityType
<1>3. Rest(k) \in Nat /\ Data(k) \in Nat /\ ptrs[k] \in Nat /\ ready[k] \in Nat
  BY Numbers
<1>4. /\ ready[k] > 0 => Rest(k) > 0
      /\ k > 0 /\ refs[k] > 0 => Rest(k) > 0
      /\ k > 0 /\ rcv[k] \in {"chain", "stored"} => Rest(k) > 0
      /\ k < Depth /\ ptrs[k + 1] > 0 => Data(k) > 0
  BY <1>3 DEF Rest, Data, One
<1> QED
  BY <1>1, <1>2, <1>3, <1>4

\* LivingInv is kept when only one scope comes to life or dies.
LEMMA LivingKept ==
  ASSUME LivingInv, CountInv', NEW k \in Scopes, ptrs \in [Scopes -> Nat],
         ptrs' \in [Scopes -> Nat], ready' \in [Scopes -> 0..MaxClosures],
         \A j \in Scopes \ {k} : ptrs'[j] > 0 <=> ptrs[j] > 0,
         ptrs'[k] > 0 => ptrs[k] > 0 \/ (k > 0 /\ ptrs[k - 1] > 0)
  PROVE  LivingInv'
<1>1. Depth \in Nat
  BY NestedScopeAssumption
<1> SUFFICES ASSUME NEW i \in Scopes, NEW j \in 0..i, ptrs'[i] > 0
             PROVE  ptrs'[j] > 0
  BY DEF LivingInv
<1>2. j \in Scopes
  BY <1>1 DEF Scopes
<1>3. CASE i = j
  BY <1>3
<1>4. CASE i = k /\ j # k
  <2>1. CASE ptrs[k] > 0
    BY <1>2, <1>4, <2>1 DEF LivingInv
  <2>2. CASE k > 0 /\ ptrs[k - 1] > 0
    <3>1. k - 1 \in Scopes /\ j \in 0..k - 1
      BY <1>1, <1>4, <2>2 DEF Scopes
    <3> QED
      BY <1>2, <1>4, <2>2, <3>1 DEF LivingInv
  <2> QED
    BY <1>4, <2>1, <2>2
<1>5. CASE i # k /\ j # k
  BY <1>2, <1>5 DEF LivingInv
<1>6. CASE i # k /\ j = k
  <2>1. k + 1 \in 0..i /\ k + 1 \in Scopes /\ k < Depth
    BY <1>1, <1>6 DEF Scopes
  <2>2. ptrs[i] > 0
    BY <1>6
  <2>3. ptrs'[k + 1] > 0
    BY <2>1, <2>2 DEF LivingInv
  <2>4. IsFiniteSet(Holding(k)') /\ ptrs'[k] = Cardinality(Holding(k)') + Rest(k)' + Data(k)'
    BY DEF CountInv
  <2>5. Cardinality(Holding(k)') \in Nat
    BY <2>4, FS_CardinalityType
  <2>6. Rest(k)' \in Nat
    BY DEF Rest, One
  <2>7. Data(k)' = 1
    BY <2>1, <2>3 DEF Data, One
  <2> QED
    BY <1>6, <2>4, <2>5, <2>6, <2>7
<1> QED
  BY <1>3, <1>4, <1>5, <1>6

----------------------------------------------------------------------------
(* What is left alone stays as the invariant has it. *)

\* What no step takes back.
Later ==
  /\ \A k \in Nested : /\ rcv[k] # "none" => rcv'[k] # "none"
                       /\ delivered[k] # "none" => delivered'[k] # "none"
                       /\ rcv[k] # "none" /\ ptrs[k] = 0 => ptrs'[k] = 0
  /\ \A k \in Scopes : flag[k] => flag'[k]
  /\ panicked => panicked'

LEMMA FramesKept ==
  ASSUME IsStack, FrameInv, DropOnce, NEW t \in Threads, NEW d \in Nat, d = Height(t), Elsewhere(t, d), Later,
         \A k \in Nested : delivered'[k] = delivered[k] \/ IsDrop(t, d, k),
         result' = result \/ (t = Main /\ d = 1),
         d \in 1..Height(t)' => FrameFits(t, d)',
         d + 1 \in 1..Height(t)' => FrameFits(t, d + 1)'
  PROVE  FrameInv'
<1> SUFFICES ASSUME NEW u \in Threads, NEW n \in 1..Height(u)', u # t \/ n \notin {d, d + 1}
             PROVE  FrameFits(u, n)'
  BY DEF FrameInv
<1>1. /\ n \in 1..Height(u)
      /\ Frame(u, n)'.what = Frame(u, n).what /\ Frame(u, n)'.lvl = Frame(u, n).lvl
      /\ Frame(u, n)'.pc = Frame(u, n).pc
      /\ Frame(u, n)'.unwinding => Frame(u, n).unwinding \/ panicked
  BY DEF Elsewhere
<1>2. FrameFits(u, n)
  BY <1>1 DEF FrameInv
<1>3. Frame(u, n).what = "body" => u = Main /\ n = 1 /\ Frame(u, n).lvl = 0 /\ result' = "none"
  BY <1>2 DEF FrameFits
<1>4. Frame(u, n).what = "set_value" =>
        Frame(u, n).lvl \in Nested /\ n > 1 /\ Frame(u, n - 1)'.pc = "user"
  <2> HAVE Frame(u, n).what = "set_value"
  <2>1. Frame(u, n).lvl \in Nested /\ n > 1 /\ Frame(u, n - 1).pc = "user"
    BY <1>2 DEF FrameFits
  <2>2. n - 1 \in 1..Height(u)
    <3>1. Height(u) \in Nat
      BY TopOfStack
    <3> QED
      BY <1>1, <2>1, <3>1
  <2>3. u # t \/ n - 1 \notin {d, d + 1}
    BY <1>1
  <2>4. Frame(u, n - 1)'.pc = Frame(u, n - 1).pc
    BY <2>2, <2>3 DEF Elsewhere
  <2> QED
    BY <2>1, <2>4
<1>5. ASSUME Frame(u, n).what = "drop"
      PROVE  LET k == Frame(u, n).lvl IN
             /\ k \in Nested /\ ptrs'[k] = 0 /\ rcv'[k] # "none"
             /\ Frame(u, n).pc = "start" => delivered'[k] = "none"
             /\ Frame(u, n).pc \in {"outer", "rcv"} => flag'[k] \/ delivered'[k] # "none"
  <2>1. PICK k : k = Frame(u, n).lvl
    OBVIOUS
  <2>2. /\ k \in Nested /\ ptrs[k] = 0 /\ rcv[k] # "none"
        /\ Frame(u, n).pc = "start" => delivered[k] = "none"
        /\ Frame(u, n).pc \in {"outer", "rcv"} => flag[k] \/ delivered[k] # "none"
    BY <1>2, <1>5, <2>1 DEF FrameFits
  <2>3. delivered'[k] = delivered[k]
    BY <1>1, <1>5, <2>1, <2>2 DEF DropOnce, IsDrop
  <2>4. k \in Scopes
    BY <2>2 DEF Nested, Scopes
  <2> QED
    BY <2>1, <2>2, <2>3, <2>4 DEF Later
<1>6. Frame(u, n)'.unwinding => panicked'
  BY <1>1, <1>2 DEF FrameFits, Later
<1> QED
  BY <1>1, <1>3, <1>4, <1>5, <1>6 DEF FrameFits

LEMMA DropsKept ==
  ASSUME DropOnce, FrameInv, NEW t \in Threads, NEW d \in Nat, d = Height(t), Elsewhere(t, d),
         \A k \in Nested : IsDrop(t, d, k)' => IsDrop(t, d, k),
         \A k \in Nested : IsDrop(t, d + 1, k)' => ptrs[k] # 0
  PROVE  DropOnce'
<1>1. ASSUME NEW u \in Threads, NEW n, NEW k \in Nested, IsDrop(u, n, k)'
      PROVE  IsDrop(u, n, k) \/ (u = t /\ n = d + 1 /\ ptrs[k] # 0)
  BY <1>1 DEF Elsewhere, IsDrop
<1>2. ASSUME NEW u \in Threads, NEW n, NEW k \in Nested, IsDrop(u, n, k)
      PROVE  ptrs[k] = 0
  BY <1>2 DEF IsDrop, FrameInv, FrameFits
<1> QED
  BY <1>1, <1>2 DEF DropOnce

LEMMA SettledKept ==
  ASSUME SettledInv, NEW t \in Threads, NEW d \in Nat, d = Height(t), Elsewhere(t, d), Later,
         \A k \in Nested : rcv[k] = "none" /\ rcv'[k] # "none" => ptrs'[k] # 0,
         \A k \in Nested : ptrs[k] # 0 /\ ptrs'[k] = 0 => Tells(t, d + 1, k)',
         \A k \in Nested : OnTheWay(t, d, k) => OnTheWay(t, d, k)' \/ delivered'[k] # "none"
  PROVE  SettledInv'
<1> SUFFICES ASSUME NEW k \in Nested, rcv'[k] # "none", ptrs'[k] = 0, delivered'[k] = "none"
             PROVE  \E u \in Threads : \E n : OnTheWay(u, n, k)'
  BY DEF SettledInv
<1>1. CASE ptrs[k] # 0
  BY <1>1 DEF Tells, OnTheWay
<1>2. CASE ptrs[k] = 0
  <2>1. PICK u, n : u \in Threads /\ OnTheWay(u, n, k)
    BY <1>2 DEF Later, SettledInv
  <2>2. CASE u # t \/ n \notin {d, d + 1}
    BY <2>1, <2>2 DEF Elsewhere, OnTheWay, IsDrop
  <2>3. CASE u = t /\ n = d
    BY <2>1, <2>3
  <2>4. ~(u = t /\ n = d + 1)
    BY <2>1 DEF OnTheWay, IsDrop
  <2> QED
    BY <2>2, <2>3, <2>4
<1> QED
  BY <1>1, <1>2

LEMMA PanicKept ==
  ASSUME TypeOK, PanicInv, NEW t \in Threads, NEW d \in Nat, d = Height(t), Elsewhere(t, d), Later,
         ptrs' \in [Scopes -> Nat], panicked' => panicked, result = "err" => result' = "err",
         \A k \in Nested : ptrs[k] # 0 /\ ptrs'[k] = 0 => Tells(t, d + 1, k)',
         Catches(t, d) => PanicKnown',
         \A k \in Nested : flag[k] /\ Tells(t, d, k) => PanicKnown'
  PROVE  PanicInv'
<1> SUFFICES ASSUME panicked
             PROVE  PanicKnown'
  BY DEF PanicInv
<1>0. Depth \in Nat /\ 0 \in Scopes /\ Nested \subseteq Scopes
  BY NestedScopeAssumption DEF Scopes, Nested
<1>1. CASE flag[0] \/ result = "err"
  BY <1>0, <1>1 DEF PanicKnown, Later
<1>2. ASSUME NEW k \in Nested, flag[k], ptrs[k] > 0
      PROVE  PanicKnown'
  <2>1. flag'[k] /\ ptrs'[k] \in Nat /\ ptrs[k] # 0
    BY <1>0, <1>2 DEF Later
  <2>2. ptrs'[k] > 0 \/ Tells(t, d + 1, k)'
    BY <2>1
  <2> QED
    BY <2>1, <2>2 DEF PanicKnown
<1>3. ASSUME NEW k \in Nested, flag[k], NEW u \in Threads, NEW n, Tells(u, n, k)
      PROVE  PanicKnown'
  <2>1. CASE u # t \/ n \notin {d, d + 1}
    <3>1. Tells(u, n, k)'
      BY <1>3, <2>1 DEF Elsewhere, Tells, IsDrop
    <3>2. flag'[k]
      BY <1>0, <1>3 DEF Later
    <3> QED
      BY <3>1, <3>2 DEF PanicKnown
  <2>2. ~(u = t /\ n = d + 1)
    BY <1>3 DEF Tells, IsDrop
  <2> QED
    BY <1>3, <2>1, <2>2
<1>4. ASSUME NEW u \in Threads, NEW n, Catches(u, n)
      PROVE  PanicKnown'
  <2>1. CASE u # t \/ n \notin {d, d + 1}
    <3>1. Catches(u, n)'
      BY <1>4, <2>1 DEF Elsewhere, Catches
    <3> QED
      BY <3>1 DEF PanicKnown
  <2>2. ~(u = t /\ n = d + 1)
    BY <1>4 DEF Catches
  <2> QED
    BY <1>4, <2>1, <2>2
<1> QED
  BY <1>1, <1>2, <1>3, <1>4 DEF PanicInv, PanicKnown

----------------------------------------------------------------------------
(* Most steps take the last call of t to pc, and drop at most one pointer. *)

PCs == {"user", "discard", "start", "outer", "rcv", "self", "data", "end"}

Turns(t, pc, K) == \/ K = {} /\ Goto(t, pc) /\ UNCHANGED ptrs
                   \/ \E k \in Scopes : K = {k} /\ Release(t, k, pc)

LEMMA TurnedCall ==
  ASSUME NEW f \in Calls, NEW pc \in PCs
  PROVE  /\ Turned(f, pc) \in Calls
         /\ Turned(f, pc).what = f.what /\ Turned(f, pc).lvl = f.lvl /\ Turned(f, pc).pc = pc
         /\ Turned(f, pc).unwinding = f.unwinding
BY DEF Calls, Turned, PCs

LEMMA DropCall ==
  ASSUME NEW k \in Scopes
  PROVE  LET c == Call("drop", k, "start") IN
         c \in Calls /\ c.what = "drop" /\ c.lvl = k /\ c.pc = "start" /\ c.unwinding = FALSE
BY DEF Calls, Call

LEMMA TurnFrames ==
  ASSUME TypeOK, NEW t \in Threads, NEW d, d = Height(t), stack[t] # <<>>,
         NEW pc \in PCs, NEW K, Turns(t, pc, K)
  PROVE  /\ d \in Nat \ {0} /\ Elsewhere(t, d) /\ IsStack' /\ K \subseteq Scopes
         /\ Frame(t, d) \in Calls /\ d \in 1..Height(t) /\ d \in 1..Height(t)' /\ d + 1 \notin 1..Height(t)
         /\ Frame(t, d)' = Turned(Frame(t, d), pc)
         /\ \A i, j \in K : i = j
         /\ ptrs' = [j \in Scopes |-> ptrs[j] - One(j \in K)]
         /\ d + 1 \in 1..Height(t)' <=> \E k \in K : k > 0 /\ ptrs[k] = 1
         /\ d + 1 \in 1..Height(t)' => \A k \in K : Frame(t, d + 1)' = Call("drop", k, "start")
<1>1. IsStack /\ ptrs \in [Scopes -> Nat]
  BY DEF TypeOK, IsStack
<1>2. /\ d \in Nat \ {0} /\ Frame(t, d) \in Calls /\ d \in 1..Height(t) /\ d + 1 \notin 1..Height(t)
      /\ d - 1 \in Nat /\ d + 1 \in Nat
  <2>1. d \in Nat \ {0} /\ d \in 1..Height(t)
    BY <1>1, TopOfStack
  <2>2. Frame(t, d) \in Calls
    BY <1>1, <2>1, TopOfStack
  <2> QED
    BY <2>1, <2>2
<1>3. Turned(Frame(t, d), pc) \in Calls
  BY <1>2, TurnedCall
<1>4. CASE K = {} /\ Goto(t, pc) /\ UNCHANGED ptrs
  <2>1. Keeps(t, d - 1, d) /\ Frame(t, d)' = Turned(Frame(t, d), pc)
    BY <1>1, <1>3, <1>4, Went
  <2>2. Elsewhere(t, d)
    BY <1>1, <1>2, <2>1, KeepsElsewhere
  <2>3. IsStack' /\ Height(t)' = d
    BY <2>1 DEF Keeps
  <2>4. ptrs' = [j \in Scopes |-> ptrs[j] - One(j \in K)]
    BY <1>1, <1>4 DEF One
  <2> QED
    BY <1>2, <1>4, <2>1, <2>2, <2>3, <2>4
<1>5. ASSUME NEW k \in Scopes, K = {k}, Release(t, k, pc)
      PROVE  /\ Elsewhere(t, d) /\ IsStack' /\ K \subseteq Scopes /\ d \in 1..Height(t)'
             /\ Frame(t, d)' = Turned(Frame(t, d), pc)
             /\ \A i, j \in K : i = j
             /\ ptrs' = [j \in Scopes |-> ptrs[j] - One(j \in K)]
             /\ d + 1 \in 1..Height(t)' <=> \E j \in K : j > 0 /\ ptrs[j] = 1
             /\ d + 1 \in 1..Height(t)' => \A j \in K : Frame(t, d + 1)' = Call("drop", j, "start")
  <2>1. Call("drop", k, "start") \in Calls
    BY DropCall
  <2>2. /\ Frame(t, d)' = Turned(Frame(t, d), pc)
        /\ k > 0 /\ ptrs[k] = 1 => /\ Keeps(t, d - 1, d + 1)
                                   /\ Frame(t, d + 1)' = Call("drop", k, "start")
        /\ ~(k > 0 /\ ptrs[k] = 1) => Keeps(t, d - 1, d)
    BY <1>1, <1>3, <1>5, <2>1, Released
  <2>3. ptrs' = [j \in Scopes |-> ptrs[j] - One(j \in K)]
    <3>1. ptrs' = [ptrs EXCEPT ![k] = @ - 1]
      BY <1>5 DEF Release
    <3>2. \A j \in Scopes : ptrs[j] \in Nat /\ ptrs'[j] = ptrs[j] - One(j \in K)
      BY <1>1, <1>5, <3>1 DEF One
    <3> QED
      BY <1>1, <3>1, <3>2
  <2>4. CASE k > 0 /\ ptrs[k] = 1
    <3>1. Elsewhere(t, d)
      BY <1>1, <1>2, <2>2, <2>4, KeepsElsewhere
    <3>2. IsStack' /\ Height(t)' = d + 1
      BY <2>2, <2>4 DEF Keeps
    <3> QED
      BY <1>2, <1>5, <2>2, <2>3, <2>4, <3>1, <3>2
  <2>5. CASE ~(k > 0 /\ ptrs[k] = 1)
    <3>1. Elsewhere(t, d)
      BY <1>1, <1>2, <2>2, <2>5, KeepsElsewhere
    <3>2. IsStack' /\ Height(t)' = d
      BY <2>2, <2>5 DEF Keeps
    <3> QED
      BY <1>2, <1>5, <2>2, <2>3, <2>5, <3>1, <3>2
  <2> QED
    BY <2>4, <2>5
<1> QED
  BY <1>2, <1>4, <1>5 DEF Turns

\* What the last call and the rest of the scope j hold, but for what is dropped.
Balanced(f, g, K) ==
  \A j \in Scopes : One(Holds(g, j)) + Rest(j)' + One(j \in K) = One(Holds(f, j)) + Rest(j)

LEMMA Sum1 ==
  ASSUME NEW c \in Nat, NEW c1 \in Nat, NEW r \in Nat, NEW r1 \in Nat, NEW x \in {0, 1}, NEW y \in {0, 1},
         NEW b \in {0, 1}, c1 = c - x + y, y + r1 + 1 = x + r
  PROVE  c + r + b > 0
OBVIOUS

LEMMA Sum2 ==
  ASSUME NEW c \in Int, NEW c1 \in Int, NEW r \in Int, NEW r1 \in Int, NEW x \in Int, NEW y \in Int,
         NEW z \in Int, NEW e \in Int, NEW b \in Int, NEW b1 \in Int,
         c1 = c - x + y + z, y + r1 + e = x + r, b1 + z = b
  PROVE  c + r + b - e = c1 + r1 + b1
OBVIOUS

LEMMA TurnCounts ==
  ASSUME TypeOK, CountInv, LivingInv, NEW t \in Threads, NEW d, d = Height(t), stack[t] # <<>>,
         NEW pc \in PCs, NEW K, Turns(t, pc, K),
         refs' \in [Nested -> 0..MaxRefs], ready' \in [Scopes -> 0..MaxClosures],
         Balanced(Frame(t, d), Turned(Frame(t, d), pc), K)
  PROVE  /\ CountInv' /\ LivingInv' /\ ptrs' \in [Scopes -> Nat]
         /\ \A j \in Scopes : ptrs'[j] = ptrs[j] - One(j \in K) /\ (j \in K => ptrs[j] > 0)
<1> DEFINE f == Frame(t, d)
           g == Turned(f, pc)
<1>1. /\ d \in Nat \ {0} /\ Elsewhere(t, d) /\ IsStack' /\ K \subseteq Scopes
      /\ d \in 1..Height(t) /\ d \in 1..Height(t)' /\ Frame(t, d)' = g
      /\ \A i, j \in K : i = j
      /\ ptrs' = [j \in Scopes |-> ptrs[j] - One(j \in K)]
      /\ d + 1 \in 1..Height(t)' <=> \E k \in K : k > 0 /\ ptrs[k] = 1
      /\ d + 1 \in 1..Height(t)' => \A k \in K : Frame(t, d + 1)' = Call("drop", k, "start")
  BY TurnFrames
<1>2. ASSUME NEW j \in Scopes
      PROVE  /\ IsFiniteSet(Holding(j)') /\ Cardinality(Holding(j)') \in Nat
             /\ Cardinality(Holding(j)) \in Nat
             /\ ptrs[j] = Cardinality(Holding(j)) + Rest(j) + Data(j)
             /\ Cardinality(Holding(j)') = Cardinality(Holding(j)) - One(Has(t, d, j))
                                           + One(Has(t, d, j)') + One(Has(t, d + 1, j)')
  BY <1>1, HoldersCount
<1>3. ASSUME NEW j \in Scopes
      PROVE  One(Has(t, d, j)) = One(Holds(f, j)) /\ One(Has(t, d, j)') = One(Holds(g, j))
  BY <1>1 DEF Has, One
<1>4. ASSUME NEW j \in Scopes
      PROVE  /\ Rest(j) \in Nat /\ Rest(j)' \in Nat /\ Data(j) \in {0, 1} /\ ptrs[j] \in Nat
             /\ \A b : One(b) \in {0, 1}
             /\ One(Holds(g, j)) + Rest(j)' + One(j \in K) = One(Holds(f, j)) + Rest(j)
  <2>1. Rest(j)' \in Nat
    BY DEF Rest, One
  <2> QED
    BY <2>1, Numbers DEF Balanced
\* A scope in K had a pointer, and the one around it the data.
<1>5. ASSUME NEW j \in Scopes
      PROVE  One(Has(t, d + 1, j)') = One(\E k \in K : k > 0 /\ ptrs[k] = 1 /\ j = k - 1)
  <2>1. ASSUME NEW k \in K
        PROVE  Holds(Call("drop", k, "start"), j) <=> j = k - 1
    <3>1. k \in Scopes
      BY <1>1
    <3>2. LET c == Call("drop", k, "start") IN c.what = "drop" /\ c.lvl = k /\ c.pc = "start"
      BY <3>1, DropCall
    <3> QED
      BY <3>2 DEF Holds
  <2>2. Has(t, d + 1, j)' <=> \E k \in K : k > 0 /\ ptrs[k] = 1 /\ j = k - 1
    BY <1>1, <2>1 DEF Has
  <2> QED
    BY <2>2 DEF One
<1>6. ASSUME NEW j \in Scopes, j \in K
      PROVE  ptrs[j] > 0
  <2>1. One(Has(t, d + 1, j)') = 0
    <3>1. ~ \E k \in K : k > 0 /\ ptrs[k] = 1 /\ j = k - 1
      BY <1>1, <1>6, NestedScopeAssumption DEF Scopes
    <3> QED
      BY <1>5, <3>1 DEF One
  <2>2. One(j \in K) = 1
    BY <1>6 DEF One
  <2>3. PICK c \in Nat, c1 \in Nat, r \in Nat, r1 \in Nat, x \in {0, 1}, y \in {0, 1}, b \in {0, 1} :
          /\ c = Cardinality(Holding(j)) /\ c1 = Cardinality(Holding(j)') /\ r = Rest(j) /\ r1 = Rest(j)'
          /\ x = One(Holds(f, j)) /\ y = One(Holds(g, j)) /\ b = Data(j)
    BY <1>2, <1>4
  <2> HIDE DEF f, g
  <2>4. c1 = c - x + y
    BY <1>2, <1>3, <2>1, <2>3
  <2>5. y + r1 + 1 = x + r
    BY <1>4, <2>2, <2>3
  <2>6. c + r + b > 0
    BY <2>4, <2>5, Sum1
  <2> QED
    BY <1>2, <2>3, <2>6
<1>7. ASSUME NEW j \in Scopes
      PROVE  ptrs'[j] = ptrs[j] - One(j \in K) /\ ptrs'[j] \in Nat
  <2>1. ptrs'[j] = ptrs[j] - One(j \in K)
    BY <1>1
  <2> QED
    BY <1>4, <1>6, <2>1 DEF One
<1>8. ptrs' \in [Scopes -> Nat]
  BY <1>1, <1>7
<1>9. ASSUME NEW j \in Scopes
      PROVE  Data(j)' + One(Has(t, d + 1, j)') = Data(j)
  <2>0. Depth \in Nat
    BY NestedScopeAssumption
  <2>1. CASE j < Depth /\ j + 1 \in K
    <3>1. j + 1 \in Scopes /\ j + 1 > 0 /\ j = (j + 1) - 1
      BY <2>0, <2>1 DEF Scopes
    <3>2. ptrs[j + 1] > 0 /\ ptrs[j + 1] \in Nat /\ ptrs'[j + 1] = ptrs[j + 1] - 1
      BY <1>4, <1>6, <1>7, <2>1, <3>1 DEF One
    <3>3. (\E k \in K : k > 0 /\ ptrs[k] = 1 /\ j = k - 1) <=> ptrs[j + 1] = 1
      BY <1>1, <2>1, <3>1
    <3>4. One(Has(t, d + 1, j)') = One(ptrs[j + 1] = 1)
      BY <1>5, <3>3 DEF One
    <3> QED
      BY <2>1, <3>2, <3>4 DEF Data, One
  <2>2. CASE ~(j < Depth /\ j + 1 \in K)
    <3>1. ~ \E k \in K : k > 0 /\ ptrs[k] = 1 /\ j = k - 1
      <4>1. ASSUME NEW k \in K, k > 0, j = k - 1
            PROVE  FALSE
        <5>1. k \in 0..Depth
          BY <1>1 DEF Scopes
        <5> QED
          BY <2>0, <2>2, <4>1, <5>1
      <4> QED
        BY <4>1
    <3>2. One(Has(t, d + 1, j)') = 0
      BY <1>5, <3>1 DEF One
    <3>3. Data(j)' = Data(j)
      <4>1. CASE j < Depth
        <5>1. j + 1 \in Scopes /\ j + 1 \notin K
          BY <2>0, <2>2, <4>1 DEF Scopes
        <5>2. ptrs'[j + 1] = ptrs[j + 1]
          BY <1>4, <1>7, <5>1 DEF One
        <5> QED
          BY <5>2 DEF Data
      <4>2. CASE ~(j < Depth)
        BY <4>2 DEF Data, One
      <4> QED
        BY <4>1, <4>2
    <3> QED
      BY <1>4, <3>2, <3>3
  <2> QED
    BY <2>1, <2>2
<1>10. CountInv'
  <2> SUFFICES ASSUME NEW j \in Scopes
               PROVE  /\ IsFiniteSet(Holding(j)')
                      /\ ptrs'[j] = Cardinality(Holding(j)') + Rest(j)' + Data(j)'
    BY DEF CountInv
  <2> HIDE DEF f, g
  <2>1. Data(j)' \in {0, 1}
    BY DEF Data, One
  <2>2. One(Has(t, d + 1, j)') \in {0, 1} /\ One(j \in K) \in {0, 1}
    BY DEF One
  <2>3. PICK c \in Nat, c1 \in Nat, r \in Nat, r1 \in Nat, x \in {0, 1}, y \in {0, 1},
             z \in {0, 1}, e \in {0, 1}, b \in {0, 1}, b1 \in {0, 1} :
          /\ c = Cardinality(Holding(j)) /\ c1 = Cardinality(Holding(j)') /\ r = Rest(j) /\ r1 = Rest(j)'
          /\ x = One(Holds(f, j)) /\ y = One(Holds(g, j)) /\ z = One(Has(t, d + 1, j)')
          /\ e = One(j \in K) /\ b = Data(j) /\ b1 = Data(j)'
    BY <1>2, <1>4, <2>1, <2>2
  <2>4. c1 = c - x + y + z
    BY <1>2, <1>3, <2>3
  <2>5. y + r1 + e = x + r
    BY <1>4, <2>3
  <2>6. b1 + z = b
    BY <1>9, <2>3
  <2>7. c + r + b - e = c1 + r1 + b1
    <3>1. c \in Int /\ c1 \in Int /\ r \in Int /\ r1 \in Int /\ x \in Int /\ y \in Int
          /\ z \in Int /\ e \in Int /\ b \in Int /\ b1 \in Int
      OBVIOUS
    <3> QED
      BY <2>4, <2>5, <2>6, <3>1, Sum2, SMTT(60)
  <2>8. ptrs[j] = c + r + b
    BY <1>2, <2>3
  <2>9. ptrs'[j] = ptrs[j] - e
    BY <1>7, <2>3
  <2>10. IsFiniteSet(Holding(j)')
    BY <1>2
  <2>11. ptrs'[j] = c1 + r1 + b1
    BY <2>7, <2>8, <2>9
  <2> QED
    BY <2>3, <2>10, <2>11
<1>11. LivingInv'
  <2>1. PICK k \in Scopes : \A j \in K : j = k
    <3>1. 0 \in Scopes
      BY NestedScopeAssumption DEF Scopes
    <3> QED
      BY <1>1, <3>1
  <2>2. \A j \in Scopes : ptrs'[j] \in Nat /\ ptrs[j] \in Nat /\ (ptrs'[j] > 0 => ptrs[j] > 0)
    BY <1>4, <1>7 DEF One
  <2>3. \A j \in Scopes \ {k} : ptrs'[j] = ptrs[j]
    BY <1>4, <1>7, <2>1 DEF One
  <2>4. ptrs \in [Scopes -> Nat]
    BY DEF TypeOK
  <2> QED
    BY <1>8, <1>10, <2>2, <2>3, <2>4, LivingKept
<1> QED
  BY <1>6, <1>7, <1>8, <1>10, <1>11

\* A call of a drop goes on only after it told or delivered what it has to; and a panic
\* it would catch it marks in a scope that it holds.
Tidy(f, g) ==
  /\ f.what = "drop" => /\ g.pc # "start"
                        /\ g.pc \in {"outer", "rcv"} => flag'[f.lvl] \/ delivered'[f.lvl] # "none"
                        /\ f.pc \in {"start", "outer", "rcv"} =>
                             g.pc \in {"outer", "rcv"} \/ delivered'[f.lvl] # "none"
  /\ f.unwinding /\ f.pc = "user" /\ g.pc # "user" /\ f.what # "set_value" =>
       \E j \in Scopes : flag'[j] /\ Holds(g, j)
  /\ f.what = "drop" /\ f.pc = "start" /\ flag[f.lvl] => \E j \in Scopes : flag'[j] /\ Holds(g, j)

LEMMA TurnKept ==
  ASSUME NestInv, NEW t \in Threads, NEW d, d = Height(t), stack[t] # <<>>,
         NEW pc \in PCs, NEW K, Turns(t, pc, K),
         refs' \in [Nested -> 0..MaxRefs], ready' \in [Scopes -> 0..MaxClosures],
         Balanced(Frame(t, d), Turned(Frame(t, d), pc), K),
         \A k \in Nested : rcv'[k] = "none" <=> rcv[k] = "none",
         \A k \in Nested : \/ delivered'[k] = delivered[k]
                           \/ delivered[k] = "none" /\ IsDrop(t, d, k),
         \A k \in Scopes : flag[k] => flag'[k],
         UNCHANGED <<result, panicked>>,
         Tidy(Frame(t, d), Turned(Frame(t, d), pc))
  PROVE  /\ IsStack' /\ ptrs' \in [Scopes -> Nat]
         /\ CountInv' /\ LivingInv' /\ FrameInv' /\ DropOnce' /\ SettledInv' /\ PanicInv'
         /\ \A j \in Scopes : ptrs'[j] = ptrs[j] - One(j \in K) /\ (j \in K => ptrs[j] > 0)
<1> USE DEF NestInv
<1> DEFINE f == Frame(t, d)
           g == Turned(f, pc)
<1>1. /\ d \in Nat \ {0} /\ Elsewhere(t, d) /\ IsStack' /\ K \subseteq Scopes /\ f \in Calls
      /\ d \in 1..Height(t) /\ d \in 1..Height(t)' /\ d + 1 \notin 1..Height(t) /\ Frame(t, d)' = g
      /\ \A i, j \in K : i = j
      /\ d + 1 \in 1..Height(t)' <=> \E k \in K : k > 0 /\ ptrs[k] = 1
      /\ d + 1 \in 1..Height(t)' => \A k \in K : Frame(t, d + 1)' = Call("drop", k, "start")
  BY TurnFrames
<1>2. /\ CountInv' /\ LivingInv' /\ ptrs' \in [Scopes -> Nat]
      /\ \A j \in Scopes : ptrs'[j] = ptrs[j] - One(j \in K) /\ (j \in K => ptrs[j] > 0)
  BY TurnCounts
<1>3. g.what = f.what /\ g.lvl = f.lvl /\ g.pc = pc /\ g.unwinding = f.unwinding
  BY <1>1, TurnedCall
<1>4. ptrs \in [Scopes -> Nat] /\ Nested \subseteq Scopes /\ 0 \in Scopes /\ IsStack
  <2> HIDE DEF NestInv
  <2>1. TypeOK
    BY DEF NestInv
  <2>2. ptrs \in [Scopes -> Nat] /\ IsStack
    BY <2>1 DEF TypeOK, IsStack
  <2>3. Nested \subseteq Scopes /\ 0 \in Scopes
    BY NestedScopeAssumption DEF Nested, Scopes
  <2> QED
    BY <2>2, <2>3
<1>5. Later
  <2>1. \A k \in Nested : ptrs[k] = 0 => ptrs'[k] = 0
    <3> TAKE k \in Nested
    <3>1. ptrs[k] \in Nat /\ ptrs'[k] \in Nat /\ ptrs'[k] = ptrs[k] - One(k \in K)
      BY <1>2, <1>4
    <3>2. One(k \in K) \in {0, 1}
      BY DEF One
    <3> QED
      BY <3>1, <3>2
  <2> QED
    BY <2>1 DEF Later
\* The call of a drop, if there is a new one.
<1>6. ASSUME NEW k \in K, d + 1 \in 1..Height(t)'
      PROVE  /\ k \in Nested /\ ptrs[k] = 1 /\ ptrs'[k] = 0 /\ rcv[k] # "none"
             /\ delivered'[k] = "none" /\ Tells(t, d + 1, k)'
             /\ Frame(t, d + 1)' = Call("drop", k, "start")
  <2>1. k > 0 /\ ptrs[k] = 1 /\ Frame(t, d + 1)' = Call("drop", k, "start")
    BY <1>1, <1>6
  <2>2. k \in Scopes /\ k \in Nested
    <3>1. k \in 0..Depth
      BY <1>1 DEF Scopes
    <3> QED
      BY <2>1, <3>1, NestedScopeAssumption DEF Scopes, Nested
  <2>3. ptrs'[k] = 0
    BY <1>2, <1>6, <2>1, <2>2 DEF One
  <2>4. rcv[k] # "none" /\ delivered[k] = "none"
    BY <2>1, <2>2 DEF UnusedInv, DeliveredInv
  <2>5. ~IsDrop(t, d, k)
    BY <2>1 DEF IsDrop, FrameInv, FrameFits
  <2>6. delivered'[k] = "none"
    BY <2>2, <2>4, <2>5
  <2>7. Tells(t, d + 1, k)'
    <3>1. LET c == Call("drop", k, "start") IN c.what = "drop" /\ c.lvl = k /\ c.pc = "start"
      BY <2>2, DropCall
    <3> QED
      BY <1>6, <2>1, <3>1 DEF Tells, IsDrop
  <2> QED
    BY <2>1, <2>2, <2>3, <2>4, <2>6, <2>7
<1>7. \A k \in Nested : ptrs[k] # 0 /\ ptrs'[k] = 0 => Tells(t, d + 1, k)'
  <2> SUFFICES ASSUME NEW k \in Nested, ptrs[k] # 0, ptrs'[k] = 0
               PROVE  Tells(t, d + 1, k)'
    OBVIOUS
  <2>1. ptrs[k] \in Nat /\ ptrs'[k] = ptrs[k] - One(k \in K)
    BY <1>2, <1>4
  <2>2. k \in K /\ ptrs[k] = 1 /\ k > 0
    BY <2>1, NestedScopeAssumption DEF One, Nested
  <2> QED
    BY <1>1, <1>6, <2>2
<1>8. FrameInv'
  <2>1. FrameFits(t, d)
    BY <1>1 DEF FrameInv
  <2>2. FrameFits(t, d)'
    <3>1. f.what = "body" => t = Main /\ d = 1 /\ f.lvl = 0 /\ result' = "none"
      BY <2>1 DEF FrameFits
    <3>2. f.what = "set_value" => f.lvl \in Nested /\ d > 1 /\ Frame(t, d - 1)'.pc = "user"
      <4> HAVE f.what = "set_value"
      <4>1. f.lvl \in Nested /\ d > 1 /\ Frame(t, d - 1).pc = "user"
        BY <2>1 DEF FrameFits
      <4>2. d - 1 \in 1..Height(t) /\ d - 1 \notin {d, d + 1}
        BY <1>1, <4>1
      <4>3. Frame(t, d - 1)'.pc = "user"
        BY <1>1, <4>1, <4>2 DEF Elsewhere
      <4> QED
        BY <4>1, <4>3
    <3>3. f.what = "drop" => /\ f.lvl \in Nested /\ ptrs'[f.lvl] = 0 /\ rcv'[f.lvl] # "none"
                             /\ pc # "start"
                             /\ pc \in {"outer", "rcv"} => flag'[f.lvl] \/ delivered'[f.lvl] # "none"
      BY <1>3, <1>5, <2>1 DEF FrameFits, Later, Tidy
    <3>4. f.unwinding => panicked'
      BY <2>1 DEF FrameFits
    <3> HIDE DEF f, g
    <3> QED
      BY <1>1, <1>3, <3>1, <3>2, <3>3, <3>4 DEF FrameFits
  <2>3. ASSUME d + 1 \in 1..Height(t)'
        PROVE  FrameFits(t, d + 1)'
    <3>1. PICK k \in K : k > 0
      BY <1>1, <2>3
    <3>2. /\ k \in Nested /\ ptrs'[k] = 0 /\ rcv[k] # "none" /\ delivered'[k] = "none"
          /\ Frame(t, d + 1)' = Call("drop", k, "start")
      BY <1>6, <2>3
    <3>3. LET c == Call("drop", k, "start")
          IN  c.what = "drop" /\ c.lvl = k /\ c.pc = "start" /\ c.unwinding = FALSE
      BY <1>4, <3>2, DropCall
    <3> QED
      BY <3>2, <3>3 DEF FrameFits
  <2>4. \A k \in Nested : delivered'[k] = delivered[k] \/ IsDrop(t, d, k)
    OBVIOUS
  <2> HIDE DEF NestInv
  <2>5. FrameInv /\ DropOnce
    BY DEF NestInv
  <2> QED
    BY <1>1, <1>4, <1>5, <2>2, <2>3, <2>4, <2>5, FramesKept
<1>9. DropOnce'
  <2>1. \A k \in Nested : IsDrop(t, d, k)' => IsDrop(t, d, k)
    BY <1>1, <1>3 DEF IsDrop
  <2>2. \A k \in Nested : IsDrop(t, d + 1, k)' => ptrs[k] # 0
    <3> SUFFICES ASSUME NEW k \in Nested, IsDrop(t, d + 1, k)'
                 PROVE  ptrs[k] # 0
      OBVIOUS
    <3>1. d + 1 \in 1..Height(t)'
      BY DEF IsDrop
    <3>2. PICK j \in K : j > 0 /\ ptrs[j] = 1
      BY <1>1, <3>1
    <3>3. Tells(t, d + 1, j)'
      BY <1>6, <3>1, <3>2
    <3> QED
      BY <3>2, <3>3 DEF Tells, IsDrop
  <2> QED
    BY <1>1, <2>1, <2>2, DropsKept
<1>10. SettledInv'
  <2>1. \A k \in Nested : OnTheWay(t, d, k) => OnTheWay(t, d, k)' \/ delivered'[k] # "none"
    BY <1>1, <1>3 DEF OnTheWay, IsDrop, Tidy
  <2> QED
    BY <1>1, <1>5, <1>7, <2>1, SettledKept
<1>11. PanicInv'
  <2>1. ASSUME NEW j \in Scopes, flag'[j], Holds(g, j)
        PROVE  PanicKnown'
    <3>1. ptrs'[j] > 0
      <4>1. <<t, d>> \in Holding(j)'
        <5>1. Has(t, d, j)'
          BY <1>1, <2>1 DEF Has
        <5> QED
          BY <5>1 DEF Has, Holding
      <4>2. IsFiniteSet(Holding(j)') /\ ptrs'[j] = Cardinality(Holding(j)') + Rest(j)' + Data(j)'
        BY <1>2 DEF CountInv
      <4>3. Cardinality(Holding(j)') \in Nat /\ Cardinality(Holding(j)') # 0
        BY <4>1, <4>2, FS_CardinalityType, FS_EmptySet
      <4>4. Rest(j)' \in Nat /\ Data(j)' \in Nat
        BY DEF Rest, Data, One
      <4> QED
        BY <4>2, <4>3, <4>4
    <3>2. j = 0 \/ j \in Nested
      BY NestedScopeAssumption DEF Scopes, Nested
    <3> QED
      BY <2>1, <3>1, <3>2 DEF PanicKnown
  <2>2. Catches(t, d) => PanicKnown'
    <3> HAVE Catches(t, d)
    <3>1. f.unwinding /\ (f.pc = "user" \/ f.what = "set_value")
      BY DEF Catches
    <3>2. CASE pc = "user" \/ f.what = "set_value"
      <4>1. Catches(t, d)'
        BY <1>1, <1>3, <3>1, <3>2 DEF Catches
      <4> QED
        BY <4>1 DEF PanicKnown
    <3>3. CASE pc # "user" /\ f.what # "set_value"
      <4>1. \E j \in Scopes : flag'[j] /\ Holds(g, j)
        BY <1>3, <3>1, <3>3 DEF Tidy
      <4> QED
        BY <2>1, <4>1
    <3> QED
      BY <3>2, <3>3
  <2>3. \A k \in Nested : flag[k] /\ Tells(t, d, k) => PanicKnown'
    <3> SUFFICES ASSUME NEW k \in Nested, flag[k], Tells(t, d, k)
                 PROVE  PanicKnown'
      OBVIOUS
    <3>1. \E j \in Scopes : flag'[j] /\ Holds(g, j)
      BY DEF Tells, IsDrop, Tidy
    <3> QED
      BY <2>1, <3>1
  <2>4. TypeOK /\ PanicInv
    OBVIOUS
  <2> HIDE DEF NestInv, f, g
  <2> QED
    BY <1>1, <1>2, <1>5, <1>7, <2>2, <2>3, <2>4, PanicKept
<1> QED
  BY <1>1, <1>2, <1>8, <1>9, <1>10, <1>11

LEMMA Turn ==
  ASSUME NestInv, NEW t \in Threads, NEW d, d = Height(t), stack[t] # <<>>,
         NEW pc \in PCs, NEW K, Turns(t, pc, K),
         UNCHANGED <<aborted, home, ready, wrapped, result, panicked>>,
         flag' \in [Scopes -> BOOLEAN], signal' \in [Nested -> Kinds \cup {"none"}],
         rcv' \in [Nested -> {"none", "chain", "stored", "gone"}],
         refs' \in [Nested -> 0..MaxRefs],
         delivered' \in [Nested -> Kinds \cup {"none", "dropped"}],
         Balanced(Frame(t, d), Turned(Frame(t, d), pc), K),
         Tidy(Frame(t, d), Turned(Frame(t, d), pc)),
         \A k \in Nested : rcv'[k] = "none" <=> rcv[k] = "none",
         \A k \in Scopes : flag[k] => flag'[k],
         \A k \in Nested : ptrs[k] > 0 \/ (flag'[k] = flag[k] /\ signal'[k] = signal[k]),
         \A k \in Nested :
           \/ delivered'[k] = delivered[k]
           \/ /\ delivered[k] = "none" /\ IsDrop(t, d, k)
              /\ delivered'[k] = IF flag[k] \/ signal[k] = "none" THEN "dropped" ELSE signal[k],
         StoredInv'
  PROVE  NestInv'
<1>1. TypeOK /\ UnusedInv /\ DeliveredInv /\ FrameInv /\ WrappedInv
  BY DEF NestInv
<1>2. ready' \in [Scopes -> 0..MaxClosures]
  BY <1>1 DEF TypeOK
<1>3. \A k \in Nested : \/ delivered'[k] = delivered[k]
                        \/ delivered[k] = "none" /\ IsDrop(t, d, k)
  OBVIOUS
<1>4. /\ IsStack' /\ ptrs' \in [Scopes -> Nat]
      /\ CountInv' /\ LivingInv' /\ FrameInv' /\ DropOnce' /\ SettledInv' /\ PanicInv'
      /\ \A j \in Scopes : ptrs'[j] = ptrs[j] - One(j \in K) /\ (j \in K => ptrs[j] > 0)
  BY <1>2, <1>3, TurnKept
<1>5. TypeOK'
  BY <1>1, <1>2, <1>4 DEF TypeOK, IsStack
<1>6. WrappedInv'
  BY <1>1 DEF WrappedInv
<1>7. ASSUME NEW k \in Nested, ptrs[k] = 0
      PROVE  ptrs'[k] = 0 /\ flag'[k] = flag[k] /\ signal'[k] = signal[k]
  <2>1. k \in Scopes
    BY DEF Nested, Scopes
  <2>2. ptrs'[k] \in Nat /\ ptrs'[k] = 0 - One(k \in K) /\ One(k \in K) \in {0, 1}
    BY <1>4, <1>7, <2>1 DEF One
  <2> QED
    BY <1>7, <2>2
<1>8. ASSUME NEW k \in Nested, IsDrop(t, d, k)
      PROVE  ptrs[k] = 0 /\ rcv[k] # "none"
  BY <1>1, <1>8 DEF IsDrop, FrameInv, FrameFits
<1>9. UnusedInv'
  BY <1>1, <1>7, <1>8 DEF UnusedInv
<1>10. DeliveredInv'
  <2> SUFFICES ASSUME NEW k \in Nested, delivered'[k] # "none"
               PROVE  /\ ptrs'[k] = 0
                      /\ delivered'[k] = IF flag'[k] \/ signal'[k] = "none" THEN "dropped" ELSE signal'[k]
    BY DEF DeliveredInv
  <2>1. /\ ptrs[k] = 0
        /\ delivered'[k] = IF flag[k] \/ signal[k] = "none" THEN "dropped" ELSE signal[k]
    BY <1>1, <1>8 DEF DeliveredInv
  <2> QED
    BY <1>7, <2>1
<1> QED
  BY <1>4, <1>5, <1>6, <1>9, <1>10 DEF NestInv

LEMMA BalancedByFrame ==
  ASSUME TypeOK, UNCHANGED <<refs, rcv, ready>>, NEW f, NEW g, NEW K,
         \A j \in Scopes : Holds(f, j) <=> Holds(g, j) \/ j \in K,
         \A j \in Scopes : ~(Holds(g, j) /\ j \in K)
  PROVE  Balanced(f, g, K)
<1> SUFFICES ASSUME NEW j \in Scopes
             PROVE  One(Holds(g, j)) + Rest(j)' + One(j \in K) = One(Holds(f, j)) + Rest(j)
  BY DEF Balanced
<1>1. Rest(j)' = Rest(j) /\ Rest(j) \in Nat
  BY Numbers DEF Rest
<1>2. One(Holds(g, j)) + One(j \in K) = One(Holds(f, j))
  BY DEF One
<1>3. One(Holds(g, j)) \in {0, 1} /\ One(j \in K) \in {0, 1}
  BY DEF One
<1> QED
  BY <1>1, <1>2, <1>3

LEMMA BalancedByRest ==
  ASSUME TypeOK, NEW f, NEW g, NEW K, ready' = ready,
         \A j \in Scopes : Holds(f, j) <=> Holds(g, j),
         \A j \in Scopes : Rest(j)' + One(j \in K) = Rest(j),
         \A j \in Scopes : Rest(j)' \in Nat
  PROVE  Balanced(f, g, K)
<1> SUFFICES ASSUME NEW j \in Scopes
             PROVE  One(Holds(g, j)) + Rest(j)' + One(j \in K) = One(Holds(f, j)) + Rest(j)
  BY DEF Balanced
<1>1. One(Holds(g, j)) = One(Holds(f, j)) /\ One(Holds(f, j)) \in {0, 1} /\ One(j \in K) \in {0, 1}
  BY DEF One
<1>2. Rest(j)' + One(j \in K) = Rest(j) /\ Rest(j)' \in Nat
  OBVIOUS
<1> QED
  BY <1>1, <1>2

\* The last call of a thread.
LEMMA TopCall ==
  ASSUME NestInv, NEW t \in Threads, NEW d, d = Height(t), stack[t] # <<>>
  PROVE  /\ Frame(t, d) \in Calls /\ d \in Nat \ {0} /\ d \in 1..Height(t)
         /\ Head(stack[t]) = Frame(t, d)
         /\ Level(t) = Frame(t, d).lvl /\ Unwinding(t) = Frame(t, d).unwinding
         /\ FrameFits(t, d) /\ Frame(t, d).lvl \in Scopes
         /\ \A k \in Scopes : Holds(Frame(t, d), k) => ptrs[k] > 0
<1>1. IsStack /\ TypeOK /\ CountInv /\ FrameInv
  BY DEF NestInv, TypeOK, IsStack
<1>2. d \in Nat \ {0} /\ d \in 1..Height(t) /\ Head(stack[t]) = Frame(t, d) /\ Frame(t, d) \in Calls
  BY <1>1, TopOfStack
<1>3. FrameFits(t, d)
  BY <1>1, <1>2 DEF FrameInv
<1>4. \A k \in Scopes : Holds(Frame(t, d), k) => ptrs[k] > 0
  BY <1>1, <1>2, HolderLives DEF Has
<1>5. Frame(t, d).lvl \in Scopes
  BY <1>2 DEF Calls
<1> QED
  BY <1>2, <1>3, <1>4, <1>5 DEF Level, Unwinding

LEMMA TopAt ==
  ASSUME NestInv, NEW t \in Threads, NEW d, d = Height(t), NEW what, NEW pc, At(t, what, pc)
  PROVE  /\ stack[t] # <<>> /\ Frame(t, d) \in Calls /\ Frame(t, d).what = what /\ Frame(t, d).pc = pc
         /\ Head(stack[t]) = Frame(t, d) /\ d \in 1..Height(t)
         /\ Level(t) = Frame(t, d).lvl /\ Unwinding(t) = Frame(t, d).unwinding
         /\ FrameFits(t, d) /\ Frame(t, d).lvl \in Scopes
         /\ \A k \in Scopes : Holds(Frame(t, d), k) => ptrs[k] > 0
<1>1. stack[t] # <<>>
  BY DEF At
<1>2. Head(stack[t]) = Frame(t, d)
  BY <1>1, TopCall
<1>3. Frame(t, d).what = what /\ Frame(t, d).pc = pc
  BY <1>2 DEF At
<1> QED
  BY <1>1, <1>3, TopCall

----------------------------------------------------------------------------
(* Steps that do no more than go on and drop a pointer. *)

LEMMA TurnPlain ==
  ASSUME NestInv, NEW t \in Threads, NEW d, d = Height(t), stack[t] # <<>>,
         NEW pc \in PCs, NEW K, Turns(t, pc, K),
         UNCHANGED <<aborted, flag, signal, rcv, refs, home, ready, wrapped, delivered, result, panicked>>,
         NEW g, g = Turned(Frame(t, d), pc),
         \A j \in Scopes : Holds(Frame(t, d), j) <=> Holds(g, j) \/ j \in K,
         \A j \in Scopes : ~(Holds(g, j) /\ j \in K),
         Tidy(Frame(t, d), g)
  PROVE  NestInv'
<1>1. TypeOK /\ StoredInv
  BY DEF NestInv
<1>2. Balanced(Frame(t, d), Turned(Frame(t, d), pc), K)
  BY <1>1, BalancedByFrame
<1>3. StoredInv'
  BY <1>1 DEF StoredInv
<1> QED
  BY <1>1, <1>2, <1>3, Turn DEF TypeOK

LEMMA EndSetValueKeeps ==
  ASSUME NestInv, NEW t \in Threads, EndSetValue(t)
  PROVE  NestInv'
<1> PICK d : d = Height(t)
  OBVIOUS
<1> PICK f : f = Frame(t, d)
  OBVIOUS
<1> PICK k : k = f.lvl
  OBVIOUS
<1>1. At(t, "set_value", "user")
  BY DEF EndSetValue
<1>2. /\ stack[t] # <<>> /\ f \in Calls /\ k \in Scopes /\ f.what = "set_value" /\ f.pc = "user"
      /\ Level(t) = k
  BY <1>1, TopAt
<1>3. Turns(t, "self", {k}) /\ "self" \in PCs
  BY <1>2 DEF EndSetValue, Turns, PCs
<1> PICK g : g = Turned(f, "self")
  OBVIOUS
<1>4. g.what = "set_value" /\ g.lvl = k /\ g.pc = "self"
  BY <1>2, <1>3, TurnedCall
<1>5. \A j \in Scopes : /\ Holds(f, j) <=> Holds(g, j) \/ j \in {k}
                        /\ ~(Holds(g, j) /\ j \in {k})
  BY <1>2, <1>4 DEF Holds, Scopes
<1>6. Tidy(f, g)
  BY <1>2, <1>4 DEF Tidy
<1> QED
  BY <1>2, <1>3, <1>5, <1>6, TurnPlain DEF EndSetValue

LEMMA DropSelfKeeps ==
  ASSUME NestInv, NEW t \in Threads, DropSelf(t)
  PROVE  NestInv'
<1> PICK d : d = Height(t)
  OBVIOUS
<1> PICK f : f = Frame(t, d)
  OBVIOUS
<1> PICK k : k = f.lvl
  OBVIOUS
<1>1. At(t, "set_value", "self")
  BY DEF DropSelf
<1>2. /\ stack[t] # <<>> /\ f \in Calls /\ k \in Nested /\ f.what = "set_value" /\ f.pc = "self"
      /\ Level(t) = k
  BY <1>1, TopAt DEF FrameFits
<1>3. k - 1 \in Scopes
  BY <1>2, NestedScopeAssumption DEF Nested, Scopes
<1>4. Turns(t, "end", {k - 1}) /\ "end" \in PCs
  BY <1>2, <1>3 DEF DropSelf, Turns, PCs
<1> PICK g : g = Turned(f, "end")
  OBVIOUS
<1>5. g.what = "set_value" /\ g.lvl = k /\ g.pc = "end"
  BY <1>2, <1>4, TurnedCall
<1>6. \A j \in Scopes : /\ Holds(f, j) <=> Holds(g, j) \/ j \in {k - 1}
                        /\ ~(Holds(g, j) /\ j \in {k - 1})
  BY <1>2, <1>5 DEF Holds
<1>7. Tidy(f, g)
  BY <1>2, <1>5 DEF Tidy
<1> QED
  BY <1>2, <1>4, <1>6, <1>7, TurnPlain DEF DropSelf

LEMMA DropDataKeeps ==
  ASSUME NestInv, NEW t \in Threads, DropData(t)
  PROVE  NestInv'
<1> PICK d : d = Height(t)
  OBVIOUS
<1> PICK f : f = Frame(t, d)
  OBVIOUS
<1> PICK k : k = f.lvl
  OBVIOUS
<1>1. At(t, "closure", "data")
  BY DEF DropData
<1>2. /\ stack[t] # <<>> /\ f \in Calls /\ k \in Scopes /\ f.what = "closure" /\ f.pc = "data"
      /\ Level(t) = k
  BY <1>1, TopAt
<1>3. Turns(t, "end", {k}) /\ "end" \in PCs
  BY <1>2 DEF DropData, Turns, PCs
<1> PICK g : g = Turned(f, "end")
  OBVIOUS
<1>4. g.what = "closure" /\ g.lvl = k /\ g.pc = "end"
  BY <1>2, <1>3, TurnedCall
<1>5. \A j \in Scopes : /\ Holds(f, j) <=> Holds(g, j) \/ j \in {k}
                        /\ ~(Holds(g, j) /\ j \in {k})
  BY <1>2, <1>4 DEF Holds
<1>6. Tidy(f, g)
  BY <1>2, <1>4 DEF Tidy
<1> QED
  BY <1>2, <1>3, <1>5, <1>6, TurnPlain DEF DropData

LEMMA DiscardKeeps ==
  ASSUME NestInv, NEW t \in Threads, Discard(t)
  PROVE  NestInv'
<1> PICK d : d = Height(t)
  OBVIOUS
<1> PICK f : f = Frame(t, d)
  OBVIOUS
<1> PICK k : k = f.lvl
  OBVIOUS
<1>1. At(t, "closure", "start")
  BY DEF Discard
<1>2. /\ stack[t] # <<>> /\ f \in Calls /\ k \in Scopes /\ f.what = "closure" /\ f.pc = "start"
      /\ Level(t) = k
  BY <1>1, TopAt
<1>3. Turns(t, "discard", {k}) /\ "discard" \in PCs
  BY <1>2 DEF Discard, Turns, PCs
<1> PICK g : g = Turned(f, "discard")
  OBVIOUS
<1>4. g.what = "closure" /\ g.lvl = k /\ g.pc = "discard"
  BY <1>2, <1>3, TurnedCall
<1>5. \A j \in Scopes : /\ Holds(f, j) <=> Holds(g, j) \/ j \in {k}
                        /\ ~(Holds(g, j) /\ j \in {k})
  BY <1>2, <1>4 DEF Holds
<1>6. Tidy(f, g)
  BY <1>2, <1>4 DEF Tidy
<1> QED
  BY <1>2, <1>3, <1>5, <1>6, TurnPlain DEF Discard

LEMMA EndDiscardKeeps ==
  ASSUME NestInv, NEW t \in Threads, EndDiscard(t)
  PROVE  NestInv'
<1> PICK d : d = Height(t)
  OBVIOUS
<1> PICK f : f = Frame(t, d)
  OBVIOUS
<1>1. At(t, "closure", "discard")
  BY DEF EndDiscard
<1>2. stack[t] # <<>> /\ f \in Calls /\ f.what = "closure" /\ f.pc = "discard"
  BY <1>1, TopAt
<1>3. Turns(t, "end", {}) /\ "end" \in PCs
  BY DEF EndDiscard, Turns, PCs, scopes
<1> PICK g : g = Turned(f, "end")
  OBVIOUS
<1>4. g.what = "closure" /\ g.pc = "end"
  BY <1>2, <1>3, TurnedCall
<1>5. \A j \in Scopes : /\ Holds(f, j) <=> Holds(g, j) \/ j \in {}
                        /\ ~(Holds(g, j) /\ j \in {})
  BY <1>2, <1>4 DEF Holds
<1>6. Tidy(f, g)
  BY <1>2, <1>4 DEF Tidy
<1> QED
  BY <1>2, <1>3, <1>5, <1>6, TurnPlain DEF EndDiscard, scopes

LEMMA DropOuterKeeps ==
  ASSUME NestInv, NEW t \in Threads, DropOuter(t)
  PROVE  NestInv'
<1> PICK d : d = Height(t)
  OBVIOUS
<1> PICK f : f = Frame(t, d)
  OBVIOUS
<1> PICK k : k = f.lvl
  OBVIOUS
<1>1. At(t, "drop", "outer")
  BY DEF DropOuter
<1>2. /\ stack[t] # <<>> /\ f \in Calls /\ k \in Nested /\ f.what = "drop" /\ f.pc = "outer"
      /\ Level(t) = k /\ (flag[k] \/ delivered[k] # "none")
  BY <1>1, TopAt DEF FrameFits
<1>3. k - 1 \in Scopes
  BY <1>2, NestedScopeAssumption DEF Nested, Scopes
<1>4. Turns(t, "rcv", {k - 1}) /\ "rcv" \in PCs
  BY <1>2, <1>3 DEF DropOuter, Turns, PCs
<1> PICK g : g = Turned(f, "rcv")
  OBVIOUS
<1>5. g.what = "drop" /\ g.lvl = k /\ g.pc = "rcv"
  BY <1>2, <1>4, TurnedCall
<1>6. \A j \in Scopes : /\ Holds(f, j) <=> Holds(g, j) \/ j \in {k - 1}
                        /\ ~(Holds(g, j) /\ j \in {k - 1})
  BY <1>2, <1>5 DEF Holds
<1>7. Tidy(f, g)
  BY <1>2, <1>5 DEF Tidy, DropOuter
<1> QED
  BY <1>2, <1>4, <1>6, <1>7, TurnPlain DEF DropOuter

----------------------------------------------------------------------------
(* Steps at which a receiver is called or dropped, or a panic is passed on. *)

\* Before its end the receiver of a scope that is dropped is in the scope.
LEMMA StillStored ==
  ASSUME NestInv, NEW t \in Threads, NEW n \in 1..Height(t), Frame(t, n).what = "drop",
         NEW k, k = Frame(t, n).lvl
  PROVE  /\ k \in Nested /\ k - 1 \in Scopes /\ ptrs[k] = 0 /\ rcv[k] # "none"
         /\ k > 1 => k - 1 \in Nested /\ (rcv[k - 1] = "stored" <=> delivered[k] = "none")
         /\ Frame(t, n).pc = "user" => delivered[k] # "none"
<1>1. FrameFits(t, n)
  BY DEF NestInv, FrameInv
<1>2. k \in Nested /\ ptrs[k] = 0 /\ rcv[k] # "none"
  BY <1>1 DEF FrameFits
<1>3. k - 1 \in Scopes /\ (k > 1 => k - 1 \in Nested)
  BY <1>2, NestedScopeAssumption DEF Nested, Scopes
<1>4. k > 1 => (rcv[k - 1] = "stored" <=> delivered[k] = "none")
  BY <1>2 DEF NestInv, StoredInv
<1>5. Frame(t, n).pc = "user" => delivered[k] # "none"
  <2> SUFFICES ASSUME Frame(t, n).pc = "user", delivered[k] = "none"
               PROVE  FALSE
    OBVIOUS
  <2>1. PICK u, m : u \in Threads /\ OnTheWay(u, m, k)
    BY <1>2 DEF NestInv, SettledInv
  <2>2. IsDrop(t, n, k) /\ IsDrop(u, m, k)
    BY <2>1 DEF IsDrop, OnTheWay
  <2>3. u = t /\ m = n
    BY <1>2, <2>1, <2>2 DEF NestInv, DropOnce
  <2> QED
    BY <2>1, <2>3 DEF OnTheWay
<1> QED
  BY <1>2, <1>3, <1>4, <1>5

LEMMA DropStoredKeeps ==
  ASSUME NestInv, NEW t \in Threads, NEW d, d = Height(t), NEW f, f = Frame(t, d), stack[t] # <<>>,
         NEW k, k = f.lvl, f.what = "drop", delivered[k] = "none", flag[k] \/ signal[k] = "none",
         NEW pc, \/ f.pc = "start" /\ ~flag[k] /\ pc = "outer"
                 \/ f.pc = "rcv" /\ pc = "end",
         DropStored(t, k, pc), delivered' = [delivered EXCEPT ![k] = "dropped"],
         UNCHANGED <<aborted, flag, signal, refs, home, ready, wrapped, result, panicked>>
  PROVE  NestInv'
<1>1. TypeOK /\ StoredInv
  BY DEF NestInv
<1>2. f \in Calls /\ d \in 1..Height(t)
  BY TopCall
<1>3. /\ k \in Nested /\ k - 1 \in Scopes /\ rcv[k] # "none"
      /\ k > 1 => k - 1 \in Nested /\ rcv[k - 1] = "stored"
  BY <1>2, StillStored
<1> DEFINE K == IF k > 1 THEN {k - 1} ELSE {}
<1>4. Turns(t, pc, K) /\ pc \in PCs
  BY <1>3 DEF DropStored, Turns, PCs
<1>5. /\ rcv \in [Nested -> {"none", "chain", "stored", "gone"}] /\ refs \in [Nested -> 0..MaxRefs]
      /\ delivered \in [Nested -> Kinds \cup {"none", "dropped"}]
      /\ k > 1 => rcv' = [rcv EXCEPT ![k - 1] = "gone"]
      /\ ~(k > 1) => rcv' = rcv
  BY <1>1 DEF TypeOK, DropStored
<1>6. /\ rcv' \in [Nested -> {"none", "chain", "stored", "gone"}]
      /\ \A j \in Nested : /\ rcv'[j] = "none" <=> rcv[j] = "none"
                           /\ j # k - 1 => rcv'[j] = rcv[j]
                           /\ j = k - 1 => rcv[j] = "stored" /\ rcv'[j] = "gone" /\ k > 1
  <2>1. CASE k > 1
    BY <1>3, <1>5, <2>1
  <2>2. CASE ~(k > 1)
    <3>1. \A j \in Nested : j # k - 1
      BY <1>3, <2>2, NestedScopeAssumption DEF Nested
    <3> QED
      BY <1>5, <2>2, <3>1
  <2> QED
    BY <2>1, <2>2
<1> PICK g : g = Turned(f, pc)
  OBVIOUS
<1>7. g.what = "drop" /\ g.lvl = k /\ g.pc = pc
  BY <1>2, <1>4, TurnedCall
<1>8. Balanced(f, g, K)
  <2>1. \A j \in Scopes : Holds(f, j) <=> Holds(g, j)
    BY <1>7 DEF Holds
  <2>2. ASSUME NEW j \in Scopes
        PROVE  Rest(j)' + One(j \in K) = Rest(j) /\ Rest(j)' \in Nat
    <3>1. ready[j] \in Nat /\ ready'[j] = ready[j]
      BY <1>1 DEF TypeOK
    <3>2. j > 0 => j \in Nested
      BY NestedScopeAssumption DEF Nested, Scopes
    <3>3. One(j > 0 /\ refs'[j] > 0) = One(j > 0 /\ refs[j] > 0) /\ One(j > 0 /\ refs[j] > 0) \in {0, 1}
      BY DEF One
    <3>4. CASE k > 1 /\ j = k - 1
      <4>1. j > 0 /\ rcv[j] = "stored" /\ rcv'[j] = "gone"
        BY <1>3, <1>6, <3>4 DEF Nested
      <4>2. One(j > 0 /\ rcv[j] \in {"chain", "stored"}) = 1
            /\ One(j > 0 /\ rcv'[j] \in {"chain", "stored"}) = 0 /\ One(j \in K) = 1
        BY <3>4, <4>1 DEF One
      <4> QED
        BY <3>1, <3>3, <4>2 DEF Rest
    <3>5. CASE ~(k > 1 /\ j = k - 1)
      <4>1. j > 0 => rcv'[j] = rcv[j]
        BY <1>6, <3>2, <3>5
      <4>2. One(j > 0 /\ rcv'[j] \in {"chain", "stored"}) = One(j > 0 /\ rcv[j] \in {"chain", "stored"})
            /\ One(j > 0 /\ rcv[j] \in {"chain", "stored"}) \in {0, 1} /\ One(j \in K) = 0
        BY <3>5, <4>1 DEF One
      <4> QED
        BY <3>1, <3>3, <4>2 DEF Rest
    <3> QED
      BY <3>4, <3>5
  <2> QED
    BY <1>1, <2>1, <2>2, BalancedByRest
<1>9. /\ delivered' \in [Nested -> Kinds \cup {"none", "dropped"}] /\ delivered'[k] = "dropped"
      /\ \A j \in Nested : j # k => delivered'[j] = delivered[j]
  BY <1>3, <1>5
<1>10. Tidy(f, g)
  BY <1>7, <1>9 DEF Tidy
<1>11. StoredInv'
  <2> SUFFICES ASSUME NEW j \in Nested, j > 1
               PROVE  rcv'[j - 1] = "stored" <=> rcv'[j] # "none" /\ delivered'[j] = "none"
    BY DEF StoredInv
  <2>1. j - 1 \in Nested
    BY NestedScopeAssumption DEF Nested
  <2>2. CASE j = k
    BY <1>6, <1>9, <2>1, <2>2
  <2>3. CASE j # k
    <3>1. rcv'[j - 1] = rcv[j - 1]
      <4>1. j - 1 # k - 1
        BY <1>3, <2>3 DEF Nested
      <4> QED
        BY <1>6, <2>1, <4>1
    <3> QED
      BY <1>1, <1>6, <1>9, <2>3, <3>1 DEF StoredInv
  <2> QED
    BY <2>2, <2>3
<1>12. \A j \in Nested : \/ delivered'[j] = delivered[j]
                         \/ /\ delivered[j] = "none" /\ IsDrop(t, d, j)
                            /\ delivered'[j] = IF flag[j] \/ signal[j] = "none" THEN "dropped" ELSE signal[j]
  BY <1>2, <1>9 DEF IsDrop
<1> HIDE DEF K
<1> QED
  BY <1>1, <1>4, <1>5, <1>6, <1>8, <1>9, <1>10, <1>11, <1>12, Turn DEF TypeOK

LEMMA DropSilentKeeps ==
  ASSUME NestInv, NEW t \in Threads, DropSilent(t)
  PROVE  NestInv'
<1> PICK d, f, k : d = Height(t) /\ f = Frame(t, d) /\ k = f.lvl
  OBVIOUS
<1>1. At(t, "drop", "start")
  BY DEF DropSilent
<1>2. stack[t] # <<>> /\ f.what = "drop" /\ f.pc = "start" /\ Level(t) = k /\ FrameFits(t, d)
  BY <1>1, TopAt
<1>3. delivered[k] = "none"
  BY <1>2 DEF FrameFits
<1>4. /\ ~flag[k] /\ signal[k] = "none" /\ delivered' = [delivered EXCEPT ![k] = "dropped"]
      /\ DropStored(t, k, "outer")
      /\ UNCHANGED <<aborted, flag, signal, refs, home, ready, wrapped, result, panicked>>
  BY <1>2 DEF DropSilent
<1> QED
  BY <1>2, <1>3, <1>4, DropStoredKeeps

LEMMA DropReceiverKeeps ==
  ASSUME NestInv, NEW t \in Threads, DropReceiver(t)
  PROVE  NestInv'
<1> PICK d, f, k : d = Height(t) /\ f = Frame(t, d) /\ k = f.lvl
  OBVIOUS
<1>1. At(t, "drop", "rcv")
  BY DEF DropReceiver
<1>2. /\ stack[t] # <<>> /\ f \in Calls /\ f.what = "drop" /\ f.pc = "rcv" /\ Level(t) = k
      /\ k \in Nested /\ (flag[k] \/ delivered[k] # "none")
  BY <1>1, TopAt DEF FrameFits
<1>3. CASE delivered[k] = "none"
  <2>1. /\ delivered' = [delivered EXCEPT ![k] = "dropped"] /\ DropStored(t, k, "end")
        /\ UNCHANGED <<aborted, flag, signal, refs, home, ready, wrapped, result, panicked>>
    BY <1>2, <1>3 DEF DropReceiver
  <2> QED
    BY <1>2, <1>3, <2>1, DropStoredKeeps
<1>4. CASE delivered[k] # "none"
  <2>1. Turns(t, "end", {}) /\ "end" \in PCs
    BY <1>2, <1>4 DEF DropReceiver, Turns, PCs
  <2> PICK g : g = Turned(f, "end")
    OBVIOUS
  <2>2. g.what = "drop" /\ g.lvl = k /\ g.pc = "end"
    BY <1>2, <2>1, TurnedCall
  <2>3. \A j \in Scopes : /\ Holds(f, j) <=> Holds(g, j) \/ j \in {}
                          /\ ~(Holds(g, j) /\ j \in {})
    BY <1>2, <2>2 DEF Holds
  <2>4. UNCHANGED <<aborted, flag, signal, rcv, refs, home, ready, wrapped, delivered, result, panicked>>
    BY <1>2, <1>4 DEF DropReceiver
  <2>5. Tidy(f, g)
    BY <1>2, <1>4, <2>2, <2>4 DEF Tidy
  <2> QED
    BY <1>2, <2>1, <2>3, <2>4, <2>5, TurnPlain
<1> QED
  BY <1>3, <1>4

LEMMA ForwardKeeps ==
  ASSUME NestInv, NEW t \in Threads, Forward(t)
  PROVE  NestInv'
<1> PICK d, f, k : d = Height(t) /\ f = Frame(t, d) /\ k = f.lvl
  OBVIOUS
<1>1. At(t, "drop", "start") /\ TypeOK /\ StoredInv
  BY DEF Forward, NestInv
<1>2. /\ stack[t] # <<>> /\ f \in Calls /\ f.what = "drop" /\ f.pc = "start" /\ Level(t) = k
      /\ FrameFits(t, d) /\ d \in 1..Height(t)
  BY <1>1, TopAt
<1>3. /\ k \in Nested /\ k - 1 \in Scopes /\ rcv[k] # "none" /\ delivered[k] = "none"
      /\ k > 1 => k - 1 \in Nested /\ rcv[k - 1] = "stored"
  BY <1>2, StillStored DEF FrameFits
<1>4. /\ ~flag[k] /\ signal[k] # "none" /\ delivered' = [delivered EXCEPT ![k] = signal[k]]
      /\ rcv' = [j \in Nested |-> IF j = k - 1 THEN "chain" ELSE rcv[j]]
      /\ Goto(t, "user") /\ UNCHANGED ptrs
      /\ UNCHANGED <<aborted, flag, signal, refs, home, ready, wrapped, result, panicked>>
  BY <1>2 DEF Forward
<1>5. Turns(t, "user", {}) /\ "user" \in PCs
  BY <1>4 DEF Turns, PCs
<1> PICK g : g = Turned(f, "user")
  OBVIOUS
<1>6. g.what = "drop" /\ g.lvl = k /\ g.pc = "user"
  BY <1>2, <1>5, TurnedCall
<1>7. /\ rcv \in [Nested -> {"none", "chain", "stored", "gone"}]
      /\ delivered \in [Nested -> Kinds \cup {"none", "dropped"}]
      /\ signal \in [Nested -> Kinds \cup {"none"}]
  BY <1>1 DEF TypeOK
<1>8. \A j \in Nested : j = k - 1 => k > 1 /\ rcv[j] = "stored"
  BY <1>3, NestedScopeAssumption DEF Nested
<1>9. /\ rcv' \in [Nested -> {"none", "chain", "stored", "gone"}]
      /\ \A j \in Nested : /\ rcv'[j] = "none" <=> rcv[j] = "none"
                           /\ rcv'[j] \in {"chain", "stored"} <=> rcv[j] \in {"chain", "stored"}
                           /\ j # k - 1 => rcv'[j] = rcv[j]
                           /\ j = k - 1 => rcv'[j] = "chain"
  BY <1>4, <1>7, <1>8
<1>10. /\ delivered' \in [Nested -> Kinds \cup {"none", "dropped"}] /\ delivered'[k] = signal[k]
       /\ \A j \in Nested : j # k => delivered'[j] = delivered[j]
  BY <1>3, <1>4, <1>7
<1>11. Balanced(f, g, {})
  <2>1. \A j \in Scopes : Holds(f, j) <=> Holds(g, j)
    BY <1>2, <1>6 DEF Holds
  <2>2. ASSUME NEW j \in Scopes
        PROVE  Rest(j)' + One(j \in {}) = Rest(j) /\ Rest(j)' \in Nat
    <3>1. j > 0 => j \in Nested
      BY NestedScopeAssumption DEF Nested, Scopes
    <3>2. One(j > 0 /\ rcv'[j] \in {"chain", "stored"}) = One(j > 0 /\ rcv[j] \in {"chain", "stored"})
      BY <1>9, <3>1 DEF One
    <3>3. Rest(j)' = Rest(j)
      BY <1>4, <3>2 DEF Rest
    <3>4. Rest(j) \in Nat /\ One(j \in {}) = 0
      BY <1>1, Numbers DEF One
    <3> QED
      BY <3>3, <3>4
  <2> QED
    BY <1>1, <1>4, <2>1, <2>2, BalancedByRest
<1>12. Tidy(f, g)
  BY <1>2, <1>4, <1>6, <1>10 DEF Tidy
<1>13. StoredInv'
  <2> SUFFICES ASSUME NEW j \in Nested, j > 1
               PROVE  rcv'[j - 1] = "stored" <=> rcv'[j] # "none" /\ delivered'[j] = "none"
    BY DEF StoredInv
  <2>1. j - 1 \in Nested
    BY NestedScopeAssumption DEF Nested
  <2>2. CASE j = k
    BY <1>4, <1>9, <1>10, <2>1, <2>2
  <2>3. CASE j # k
    <3>1. rcv'[j - 1] = rcv[j - 1]
      <4>1. j - 1 # k - 1
        BY <1>3, <2>3 DEF Nested
      <4> QED
        BY <1>9, <2>1, <4>1
    <3> QED
      BY <1>1, <1>9, <1>10, <2>3, <3>1 DEF StoredInv
  <2> QED
    BY <2>2, <2>3
<1>14. \A j \in Nested : \/ delivered'[j] = delivered[j]
                         \/ /\ delivered[j] = "none" /\ IsDrop(t, d, j)
                            /\ delivered'[j] = IF flag[j] \/ signal[j] = "none" THEN "dropped" ELSE signal[j]
  BY <1>2, <1>3, <1>4, <1>10 DEF IsDrop
<1> QED
  BY <1>1, <1>2, <1>4, <1>5, <1>9, <1>10, <1>11, <1>12, <1>13, <1>14, Turn DEF TypeOK

\* A panic is marked in the scope j, which the call goes on to hold.
LEMMA MarkKeeps ==
  ASSUME NestInv, NEW t \in Threads, NEW d, d = Height(t), NEW f, f = Frame(t, d), stack[t] # <<>>,
         NEW pc \in PCs, Goto(t, pc), NEW j \in Scopes,
         NEW g, g = Turned(f, pc), Holds(g, j), \A i \in Scopes : Holds(f, i) <=> Holds(g, i),
         flag' \in [Scopes -> BOOLEAN], \A k \in Scopes : flag[k] => flag'[k],
         \A k \in Scopes : k # j => flag'[k] = flag[k], Tidy(f, g),
         UNCHANGED <<aborted, ptrs, signal, rcv, refs, home, ready, wrapped, delivered, result, panicked>>
  PROVE  NestInv'
<1>1. TypeOK /\ StoredInv /\ flag \in [Scopes -> BOOLEAN]
  BY DEF NestInv, TypeOK
<1>2. Turns(t, pc, {})
  BY DEF Turns
<1>3. Balanced(f, g, {})
  <2>1. \A i \in Scopes : (Holds(f, i) <=> Holds(g, i) \/ i \in {}) /\ ~(Holds(g, i) /\ i \in {})
    OBVIOUS
  <2> QED
    BY <1>1, <2>1, BalancedByFrame
<1>4. ptrs[j] > 0
  BY TopCall
<1>6. \A k \in Nested : ptrs[k] > 0 \/ (flag'[k] = flag[k] /\ signal'[k] = signal[k])
  <2>1. Nested \subseteq Scopes
    BY DEF Nested, Scopes
  <2> QED
    BY <1>4, <2>1
<1>7. StoredInv'
  BY <1>1 DEF StoredInv
<1> QED
  BY <1>1, <1>2, <1>3, <1>6, <1>7, Turn DEF TypeOK

LEMMA EndForwardKeeps ==
  ASSUME NestInv, NEW t \in Threads, EndForward(t)
  PROVE  NestInv'
<1> PICK d, f, k : d = Height(t) /\ f = Frame(t, d) /\ k = f.lvl
  OBVIOUS
<1>1. At(t, "drop", "user")
  BY DEF EndForward
<1>2. /\ stack[t] # <<>> /\ f \in Calls /\ f.what = "drop" /\ f.pc = "user" /\ Level(t) = k
      /\ Unwinding(t) = f.unwinding /\ d \in 1..Height(t)
  BY <1>1, TopAt
<1>3. k \in Nested /\ k - 1 \in Scopes /\ delivered[k] # "none"
  BY <1>2, StillStored
<1>4. /\ flag' = [flag EXCEPT ![k - 1] = @ \/ f.unwinding] /\ Goto(t, "outer")
      /\ UNCHANGED <<aborted, ptrs, signal, rcv, refs, home, ready, wrapped, delivered, result, panicked>>
  BY <1>2 DEF EndForward
<1>5. "outer" \in PCs /\ f.unwinding \in BOOLEAN
  BY <1>2 DEF PCs, Calls
<1> PICK g : g = Turned(f, "outer")
  OBVIOUS
<1>6. g.what = "drop" /\ g.lvl = k /\ g.pc = "outer"
  BY <1>2, <1>5, TurnedCall
<1>7. Holds(g, k - 1) /\ \A i \in Scopes : Holds(f, i) <=> Holds(g, i)
  BY <1>2, <1>6 DEF Holds
<1>8. /\ f.unwinding => flag'[k - 1]
      /\ flag' \in [Scopes -> BOOLEAN] /\ \A i \in Scopes : flag[i] => flag'[i]
      /\ \A i \in Scopes : i # k - 1 => flag'[i] = flag[i]
  <2>1. flag \in [Scopes -> BOOLEAN]
    BY DEF NestInv, TypeOK
  <2> QED
    BY <1>3, <1>4, <1>5, <2>1
<1>9. Tidy(f, g)
  BY <1>2, <1>3, <1>4, <1>6, <1>7, <1>8 DEF Tidy
<1> QED
  BY <1>2, <1>3, <1>4, <1>5, <1>7, <1>8, <1>9, MarkKeeps

LEMMA EndClosureKeeps ==
  ASSUME NestInv, NEW t \in Threads, EndClosure(t)
  PROVE  NestInv'
<1> PICK d, f, k : d = Height(t) /\ f = Frame(t, d) /\ k = f.lvl
  OBVIOUS
<1>1. At(t, "closure", "user")
  BY DEF EndClosure
<1>2. /\ stack[t] # <<>> /\ f \in Calls /\ f.what = "closure" /\ f.pc = "user" /\ Level(t) = k
      /\ Unwinding(t) = f.unwinding /\ k \in Scopes
  BY <1>1, TopAt
<1>3. /\ flag' = [flag EXCEPT ![k] = @ \/ f.unwinding] /\ Goto(t, "data")
      /\ UNCHANGED <<aborted, ptrs, signal, rcv, refs, home, ready, wrapped, delivered, result, panicked>>
  BY <1>2 DEF EndClosure
<1>4. "data" \in PCs /\ f.unwinding \in BOOLEAN
  BY <1>2 DEF PCs, Calls
<1> PICK g : g = Turned(f, "data")
  OBVIOUS
<1>5. g.what = "closure" /\ g.lvl = k /\ g.pc = "data"
  BY <1>2, <1>4, TurnedCall
<1>6. Holds(g, k) /\ \A i \in Scopes : Holds(f, i) <=> Holds(g, i)
  BY <1>2, <1>5 DEF Holds
<1>7. /\ f.unwinding => flag'[k]
      /\ flag' \in [Scopes -> BOOLEAN] /\ \A i \in Scopes : flag[i] => flag'[i]
      /\ \A i \in Scopes : i # k => flag'[i] = flag[i]
  <2>1. flag \in [Scopes -> BOOLEAN]
    BY DEF NestInv, TypeOK
  <2> QED
    BY <1>2, <1>3, <1>4, <2>1
<1>8. Tidy(f, g)
  BY <1>2, <1>5, <1>6, <1>7 DEF Tidy
<1> QED
  BY <1>2, <1>3, <1>4, <1>6, <1>7, <1>8, MarkKeeps

LEMMA DropPanickedKeeps ==
  ASSUME NestInv, NEW t \in Threads, DropPanicked(t)
  PROVE  NestInv'
<1> PICK d, f, k : d = Height(t) /\ f = Frame(t, d) /\ k = f.lvl
  OBVIOUS
<1>1. At(t, "drop", "start")
  BY DEF DropPanicked
<1>2. /\ stack[t] # <<>> /\ f \in Calls /\ f.what = "drop" /\ f.pc = "start" /\ Level(t) = k
      /\ d \in 1..Height(t)
  BY <1>1, TopAt
<1>3. k \in Nested /\ k - 1 \in Scopes /\ k \in Scopes /\ k # k - 1
  BY <1>2, StillStored DEF Nested, Scopes
<1>4. /\ flag[k] /\ flag' = [flag EXCEPT ![k - 1] = TRUE] /\ Goto(t, "outer")
      /\ UNCHANGED <<aborted, ptrs, signal, rcv, refs, home, ready, wrapped, delivered, result, panicked>>
  BY <1>2 DEF DropPanicked
<1>5. "outer" \in PCs /\ flag \in [Scopes -> BOOLEAN]
  BY DEF PCs, NestInv, TypeOK
<1> PICK g : g = Turned(f, "outer")
  OBVIOUS
<1>6. g.what = "drop" /\ g.lvl = k /\ g.pc = "outer"
  BY <1>2, <1>5, TurnedCall
<1>7. Holds(g, k - 1) /\ \A i \in Scopes : Holds(f, i) <=> Holds(g, i)
  BY <1>2, <1>6 DEF Holds
<1>8. /\ flag'[k - 1] /\ flag'[k]
      /\ flag' \in [Scopes -> BOOLEAN] /\ \A i \in Scopes : flag[i] => flag'[i]
      /\ \A i \in Scopes : i # k - 1 => flag'[i] = flag[i]
  BY <1>3, <1>4, <1>5
<1>9. Tidy(f, g)
  BY <1>2, <1>3, <1>6, <1>7, <1>8 DEF Tidy
<1>10. /\ stack[t] # <<>> /\ Goto(t, "outer")
       /\ UNCHANGED <<aborted, ptrs, signal, rcv, refs, home, ready, wrapped, delivered, result, panicked>>
  BY <1>2, <1>4
<1> QED
  BY <1>3, <1>5, <1>7, <1>8, <1>9, <1>10, MarkKeeps

----------------------------------------------------------------------------
(* Code that lets go of what it owns. *)

LEMMA LetGoKeeps ==
  ASSUME NestInv, NEW t \in Threads, NEW d, d = Height(t), NEW f, f = Frame(t, d), stack[t] # <<>>,
         f.pc \in {"user", "discard"}, NEW k \in Nested, Release(t, k, f.pc), ptrs[k] > 0,
         \A j \in Scopes : Rest(j)' + One(j \in {k}) = Rest(j) /\ Rest(j)' \in Nat,
         rcv' \in [Nested -> {"none", "chain", "stored", "gone"}],
         refs' \in [Nested -> 0..MaxRefs], signal' \in [Nested -> Kinds \cup {"none"}],
         \A j \in Nested : /\ rcv'[j] = "none" <=> rcv[j] = "none"
                           /\ rcv'[j] = "stored" <=> rcv[j] = "stored"
                           /\ j # k => signal'[j] = signal[j],
         UNCHANGED <<aborted, flag, home, ready, wrapped, delivered, result, panicked>>
  PROVE  NestInv'
<1>1. TypeOK /\ StoredInv /\ k \in Scopes
  BY DEF NestInv, Nested, Scopes
<1>2. f \in Calls /\ FrameFits(t, d)
  BY TopCall
<1>3. Turns(t, f.pc, {k}) /\ f.pc \in PCs
  BY <1>1 DEF Turns, PCs
<1> PICK g : g = Turned(f, f.pc)
  OBVIOUS
<1>4. g.what = f.what /\ g.lvl = f.lvl /\ g.pc = f.pc
  BY <1>2, <1>3, TurnedCall
<1>5. Balanced(f, g, {k})
  <2>1. \A j \in Scopes : Holds(f, j) <=> Holds(g, j)
    BY <1>4 DEF Holds
  <2>2. ready' = ready
    OBVIOUS
  <2> QED
    BY <1>1, <2>1, <2>2, BalancedByRest
<1>6. Tidy(f, g)
  BY <1>4 DEF Tidy
<1>7. \A j \in Nested : ptrs[j] > 0 \/ (flag'[j] = flag[j] /\ signal'[j] = signal[j])
  OBVIOUS
<1>8. StoredInv'
  <2> SUFFICES ASSUME NEW j \in Nested, j > 1
               PROVE  rcv'[j - 1] = "stored" <=> rcv'[j] # "none" /\ delivered'[j] = "none"
    BY DEF StoredInv
  <2>1. j - 1 \in Nested
    BY NestedScopeAssumption DEF Nested
  <2> QED
    BY <1>1, <2>1 DEF StoredInv
<1> QED
  BY <1>1, <1>3, <1>5, <1>6, <1>7, <1>8, Turn DEF TypeOK

LEMMA ReceiverGone ==
  ASSUME TypeOK, NEW k \in Nested, rcv[k] = "chain", rcv' = [rcv EXCEPT ![k] = "gone"],
         UNCHANGED <<refs, ready>>
  PROVE  /\ \A j \in Scopes : Rest(j)' + One(j \in {k}) = Rest(j) /\ Rest(j)' \in Nat
         /\ rcv' \in [Nested -> {"none", "chain", "stored", "gone"}]
         /\ \A j \in Nested : /\ rcv'[j] = "none" <=> rcv[j] = "none"
                              /\ rcv'[j] = "stored" <=> rcv[j] = "stored"
<1>1. rcv \in [Nested -> {"none", "chain", "stored", "gone"}]
  BY DEF TypeOK
<1>2. ASSUME NEW j \in Scopes
      PROVE  Rest(j)' + One(j \in {k}) = Rest(j) /\ Rest(j)' \in Nat
  <2>1. ready[j] \in Nat /\ ready'[j] = ready[j]
    BY DEF TypeOK
  <2>2. j > 0 => j \in Nested
    BY NestedScopeAssumption DEF Nested, Scopes
  <2>3. One(j > 0 /\ refs'[j] > 0) = One(j > 0 /\ refs[j] > 0) /\ One(j > 0 /\ refs[j] > 0) \in {0, 1}
    BY DEF One
  <2>4. CASE j = k
    <3>1. j > 0 /\ rcv'[j] = "gone"
      BY <1>1, <2>4, NestedScopeAssumption DEF Nested
    <3>2. One(j > 0 /\ rcv[j] \in {"chain", "stored"}) = 1
          /\ One(j > 0 /\ rcv'[j] \in {"chain", "stored"}) = 0 /\ One(j \in {k}) = 1
      BY <2>4, <3>1 DEF One
    <3> QED
      BY <2>1, <2>3, <3>2 DEF Rest
  <2>5. CASE j # k
    <3>1. j > 0 => rcv'[j] = rcv[j]
      BY <1>1, <2>2, <2>5
    <3>2. One(j > 0 /\ rcv'[j] \in {"chain", "stored"}) = One(j > 0 /\ rcv[j] \in {"chain", "stored"})
          /\ One(j > 0 /\ rcv[j] \in {"chain", "stored"}) \in {0, 1} /\ One(j \in {k}) = 0
      BY <2>5, <3>1 DEF One
    <3> QED
      BY <2>1, <2>3, <3>2 DEF Rest
  <2> QED
    BY <2>4, <2>5
<1> QED
  BY <1>1, <1>2

LEMMA SignalKeeps ==
  ASSUME NestInv, NEW t \in Threads, NEW k \in Nested, NEW kind \in Kinds, Signal(t, k, kind)
  PROVE  NestInv'
<1> PICK d, f : d = Height(t) /\ f = Frame(t, d)
  OBVIOUS
<1>1. TypeOK /\ CountInv /\ stack[t] # <<>>
  BY DEF NestInv, Signal, UserCode, InUserCode
<1>2. f.pc = "user"
  BY <1>1, TopCall DEF Signal, UserCode, InUserCode
<1>3. /\ rcv[k] = "chain" /\ rcv' = [rcv EXCEPT ![k] = "gone"] /\ signal' = [signal EXCEPT ![k] = kind]
      /\ Release(t, k, f.pc)
      /\ UNCHANGED <<aborted, flag, refs, home, ready, wrapped, delivered, result, panicked>>
  BY <1>2 DEF Signal
<1>4. ptrs[k] > 0
  <2>1. k \in Scopes /\ k > 0
    BY NestedScopeAssumption DEF Nested, Scopes
  <2> QED
    BY <1>1, <1>3, <2>1, RestLives
<1>5. /\ \A j \in Scopes : Rest(j)' + One(j \in {k}) = Rest(j) /\ Rest(j)' \in Nat
      /\ rcv' \in [Nested -> {"none", "chain", "stored", "gone"}]
      /\ \A j \in Nested : /\ rcv'[j] = "none" <=> rcv[j] = "none"
                           /\ rcv'[j] = "stored" <=> rcv[j] = "stored"
  BY <1>1, <1>3, ReceiverGone
<1>6. /\ signal' \in [Nested -> Kinds \cup {"none"}] /\ refs' \in [Nested -> 0..MaxRefs]
      /\ \A j \in Nested : j # k => signal'[j] = signal[j]
  BY <1>1, <1>3 DEF TypeOK
<1> QED
  BY <1>1, <1>2, <1>3, <1>4, <1>5, <1>6, LetGoKeeps

LEMMA DropRcvKeeps ==
  ASSUME NestInv, NEW t \in Threads, NEW k \in Nested, DropRcv(t, k)
  PROVE  NestInv'
<1> PICK d, f : d = Height(t) /\ f = Frame(t, d)
  OBVIOUS
<1>1. TypeOK /\ CountInv /\ stack[t] # <<>>
  BY DEF NestInv, DropRcv, MayDrop
<1>2. f.pc \in {"user", "discard"} /\ Head(stack[t]) = f
  BY <1>1, TopCall DEF DropRcv, MayDrop
<1>3. /\ rcv[k] = "chain" /\ rcv' = [rcv EXCEPT ![k] = "gone"] /\ Release(t, k, f.pc)
      /\ UNCHANGED <<aborted, flag, signal, refs, home, ready, wrapped, delivered, result, panicked>>
  BY <1>2 DEF DropRcv
<1>4. ptrs[k] > 0
  <2>1. k \in Scopes /\ k > 0
    BY NestedScopeAssumption DEF Nested, Scopes
  <2> QED
    BY <1>1, <1>3, <2>1, RestLives
<1>5. /\ \A j \in Scopes : Rest(j)' + One(j \in {k}) = Rest(j) /\ Rest(j)' \in Nat
      /\ rcv' \in [Nested -> {"none", "chain", "stored", "gone"}]
      /\ \A j \in Nested : /\ rcv'[j] = "none" <=> rcv[j] = "none"
                           /\ rcv'[j] = "stored" <=> rcv[j] = "stored"
  BY <1>1, <1>3, ReceiverGone
<1>6. signal' \in [Nested -> Kinds \cup {"none"}] /\ refs' \in [Nested -> 0..MaxRefs]
  BY <1>1, <1>3 DEF TypeOK
<1> QED
  BY <1>1, <1>2, <1>3, <1>4, <1>5, <1>6, LetGoKeeps

----------------------------------------------------------------------------
(* The other steps: calls, returns, closures and references. *)

LEMMA Recount ==
  ASSUME TypeOK, CountInv, NEW t \in Threads, NEW d \in Nat, d = Height(t), Elsewhere(t, d),
         \A j \in Scopes :
           /\ ptrs'[j] \in Nat /\ Rest(j)' \in Nat
           /\ ptrs'[j] + One(Has(t, d, j)) + Rest(j) + Data(j) =
                ptrs[j] + One(Has(t, d, j)') + One(Has(t, d + 1, j)') + Rest(j)' + Data(j)'
  PROVE  CountInv'
<1> SUFFICES ASSUME NEW j \in Scopes
             PROVE  /\ IsFiniteSet(Holding(j)')
                    /\ ptrs'[j] = Cardinality(Holding(j)') + Rest(j)' + Data(j)'
  BY DEF CountInv
<1>1. /\ IsFiniteSet(Holding(j)') /\ Cardinality(Holding(j)') \in Nat
      /\ Cardinality(Holding(j)) \in Nat
      /\ ptrs[j] = Cardinality(Holding(j)) + Rest(j) + Data(j)
      /\ Cardinality(Holding(j)') =
           Cardinality(Holding(j)) - One(Has(t, d, j)) + One(Has(t, d, j)') + One(Has(t, d + 1, j)')
  BY HoldersCount
<1>2. Data(j)' \in Int /\ Data(j) \in Int /\ Rest(j) \in Int /\ Rest(j)' \in Int /\ ptrs'[j] \in Int
  BY Numbers DEF Data, One
<1>3. One(Has(t, d, j)) \in Int /\ One(Has(t, d, j)') \in Int /\ One(Has(t, d + 1, j)') \in Int
  BY DEF One
<1>4. PICK c \in Int, c1 \in Int, r \in Int, r1 \in Int, p1 \in Int :
        /\ c = Cardinality(Holding(j)) /\ c1 = Cardinality(Holding(j)') /\ r = Rest(j) /\ r1 = Rest(j)'
        /\ p1 = ptrs'[j]
  <2>1. Cardinality(Holding(j)) \in Int /\ Cardinality(Holding(j)') \in Int
    BY <1>1
  <2> QED
    BY <2>1, <1>2, ZenonT(30)
<1>5. PICK x \in Int, y \in Int, z \in Int, b \in Int, b1 \in Int :
        /\ x = One(Has(t, d, j)) /\ y = One(Has(t, d, j)') /\ z = One(Has(t, d + 1, j)')
        /\ b = Data(j) /\ b1 = Data(j)'
  BY <1>2, <1>3, ZenonT(30)
<1>6. c1 = c - x + y + z
  BY <1>1, <1>4, <1>5
<1>7. p1 + x + r + b = (c + r + b) + y + z + r1 + b1
  BY <1>1, <1>4, <1>5
<1>8. p1 = c1 + r1 + b1
  BY <1>6, <1>7
<1> QED
  BY <1>1, <1>4, <1>8, <1>5

\* Nothing is delivered, marked or stored, and no drop begins or ends.
LEMMA OtherKept ==
  ASSUME NestInv, NEW t \in Threads, NEW d \in Nat, d = Height(t), Elsewhere(t, d),
         TypeOK', CountInv', LivingInv', StoredInv', WrappedInv',
         UNCHANGED <<flag, signal, delivered>>,
         \A k \in Nested : /\ rcv[k] # "none" => rcv'[k] # "none" /\ (ptrs'[k] = 0 <=> ptrs[k] = 0)
                           /\ rcv[k] = "none" /\ rcv'[k] # "none" => ptrs'[k] # 0
                           /\ rcv'[k] = "none" => ptrs'[k] = 0,
         panicked => panicked', panicked' => panicked \/ PanicKnown',
         result' = result \/ (t = Main /\ d = 1), result = "err" => result' = "err",
         d \in 1..Height(t)' => /\ d \in 1..Height(t) /\ FrameFits(t, d)'
                                /\ Frame(t, d)'.what = Frame(t, d).what
                                /\ Frame(t, d)'.lvl = Frame(t, d).lvl
                                /\ Frame(t, d)'.pc = Frame(t, d).pc,
         d \in 1..Height(t) /\ d \notin 1..Height(t)' => Frame(t, d).pc \notin {"start", "outer", "rcv"},
         d + 1 \in 1..Height(t)' => FrameFits(t, d + 1)' /\ Frame(t, d + 1)'.what # "drop",
         Catches(t, d) => PanicKnown'
  PROVE  NestInv'
<1>1. /\ TypeOK /\ IsStack /\ UnusedInv /\ FrameInv /\ DropOnce /\ DeliveredInv /\ SettledInv /\ PanicInv
      /\ Nested \subseteq Scopes /\ ptrs' \in [Scopes -> Nat]
  BY DEF NestInv, TypeOK, IsStack, Nested, Scopes
<1>2. \A k \in Nested : rcv[k] = "none" => ptrs[k] = 0 /\ flag[k] = FALSE /\ signal[k] = "none"
                                           /\ delivered[k] = "none"
  BY <1>1 DEF UnusedInv
<1>3. UnusedInv'
  BY <1>2 DEF UnusedInv
<1>4. DeliveredInv'
  BY <1>1, <1>2 DEF DeliveredInv
<1>5. Later
  BY DEF Later
<1>6. FrameInv'
  <2>1. \A k \in Nested : delivered'[k] = delivered[k] \/ IsDrop(t, d, k)
    OBVIOUS
  <2> QED
    BY <1>1, <1>5, <2>1, FramesKept
<1>7. DropOnce'
  <2>1. \A k \in Nested : IsDrop(t, d, k)' => IsDrop(t, d, k)
    BY DEF IsDrop
  <2>2. \A k \in Nested : IsDrop(t, d + 1, k)' => ptrs[k] # 0
    BY DEF IsDrop
  <2> QED
    BY <1>1, <2>1, <2>2, DropsKept
<1>8. \A k \in Nested : ptrs[k] # 0 /\ ptrs'[k] = 0 => Tells(t, d + 1, k)'
  BY <1>2
<1>9. \A k \in Nested : IsDrop(t, d, k) /\ Frame(t, d).pc \in {"start", "outer", "rcv"} =>
        IsDrop(t, d, k)' /\ Frame(t, d)'.pc = Frame(t, d).pc
  BY DEF IsDrop
<1>10. SettledInv'
  <2>1. \A k \in Nested : OnTheWay(t, d, k) => OnTheWay(t, d, k)' \/ delivered'[k] # "none"
    BY <1>9 DEF OnTheWay
  <2> QED
    BY <1>1, <1>5, <1>8, <2>1, SettledKept
<1>11. PanicInv'
  <2>1. CASE panicked
    <3>1. \A k \in Nested : flag[k] /\ Tells(t, d, k) => PanicKnown'
      <4> SUFFICES ASSUME NEW k \in Nested, flag[k], Tells(t, d, k)
                   PROVE  PanicKnown'
        OBVIOUS
      <4>1. Tells(t, d, k)' /\ flag'[k]
        BY <1>9 DEF Tells
      <4> QED
        BY <4>1 DEF PanicKnown
    <3>2. panicked' => panicked
      BY <2>1
    <3> QED
      BY <1>1, <1>5, <1>8, <3>1, <3>2, PanicKept
  <2>2. CASE ~panicked
    BY <2>2 DEF PanicInv
  <2> QED
    BY <2>1, <2>2
<1> QED
  BY <1>3, <1>4, <1>6, <1>7, <1>10, <1>11 DEF NestInv

\* Code that runs holds the scope whose chain it is of.
LEMMA CodeHolds ==
  ASSUME NestInv, NEW t \in Threads, NEW n \in 1..Height(t), Frame(t, n).pc = "user",
         NEW k, k = CodeLevel(Frame(t, n))
  PROVE  k \in Scopes /\ Holds(Frame(t, n), k) /\ ptrs[k] > 0
<1> PICK f : f = Frame(t, n)
  OBVIOUS
<1>1. /\ f \in Calls /\ TypeOK /\ CountInv /\ IsStack
      /\ f.what = "body" => f.lvl = 0
      /\ f.what = "set_value" => f.lvl \in Nested
      /\ f.what = "drop" => f.lvl \in Nested
  <2>1. TypeOK /\ CountInv /\ IsStack /\ FrameFits(t, n)
    BY DEF NestInv, FrameInv, TypeOK, IsStack
  <2>2. f \in Calls
    BY <2>1, TopOfStack
  <2> QED
    BY <2>1, <2>2 DEF FrameFits
<1>2. f.what \in {"body", "set_value", "closure", "drop"} /\ f.lvl \in Scopes
  BY <1>1 DEF Calls
<1>3. k \in Scopes /\ Holds(f, k)
  <2>1. CASE f.what = "drop"
    <3>1. f.lvl - 1 \in Scopes
      BY <1>1, <2>1, NestedScopeAssumption DEF Nested, Scopes
    <3> QED
      BY <2>1, <3>1 DEF CodeLevel, Holds
  <2>2. CASE f.what # "drop"
    BY <1>1, <1>2, <2>2 DEF CodeLevel, Holds
  <2> QED
    BY <2>1, <2>2
<1>4. ptrs[k] > 0
  BY <1>1, <1>3, HolderLives DEF Has
<1> QED
  BY <1>3, <1>4

LEMMA IdleKeeps ==
  ASSUME NestInv, refs' \in [Nested -> 0..MaxRefs], home' \in [Nested -> Threads], aborted' \in BOOLEAN,
         \A j \in Nested : refs'[j] > 0 <=> refs[j] > 0,
         UNCHANGED <<stack, ptrs, flag, signal, rcv, ready, wrapped, delivered, result, panicked>>
  PROVE  NestInv'
<1>1. \A j \in Scopes : Rest(j)' = Rest(j)
  <2> TAKE j \in Scopes
  <2>1. j > 0 => j \in Nested
    BY NestedScopeAssumption DEF Nested, Scopes
  <2> QED
    BY <2>1 DEF Rest, One
<1>2. \A j \in Scopes : Holding(j)' = Holding(j) /\ Data(j)' = Data(j)
  BY DEF Holding, Height, Frame, Data
<1>3. CountInv'
  BY <1>1, <1>2 DEF NestInv, CountInv
<1>4. TypeOK'
  BY DEF NestInv, TypeOK
<1>5. LivingInv' /\ UnusedInv' /\ StoredInv' /\ DeliveredInv' /\ WrappedInv'
  BY DEF NestInv, LivingInv, UnusedInv, StoredInv, DeliveredInv, WrappedInv
<1>6. FrameInv' /\ DropOnce'
  BY DEF NestInv, FrameInv, DropOnce, FrameFits, IsDrop, Height, Frame
<1>7. SettledInv'
  BY DEF NestInv, SettledInv, OnTheWay, IsDrop, Height, Frame
<1>8. PanicInv'
  <2>1. PanicKnown' <=> PanicKnown
    BY DEF PanicKnown, Tells, IsDrop, Catches, Height, Frame
  <2> QED
    BY <2>1 DEF NestInv, PanicInv
<1> QED
  BY <1>3, <1>4, <1>5, <1>6, <1>7, <1>8 DEF NestInv

LEMMA CloneRefKeeps ==
  ASSUME NestInv, NEW t \in Threads, NEW k \in Nested, CloneRef(t, k)
  PROVE  NestInv'
<1>1. /\ refs' = [refs EXCEPT ![k] = @ + 1] /\ refs[k] \in 1..MaxRefs - 1 /\ TypeOK
      /\ UNCHANGED <<stack, aborted, ptrs, flag, signal, rcv, home, ready, wrapped, delivered, result, panicked>>
  BY DEF CloneRef, NestInv
<1>2. \A j \in Nested : refs'[j] \in 0..MaxRefs /\ (refs'[j] > 0 <=> refs[j] > 0)
  BY <1>1, NestedScopeAssumption DEF TypeOK
<1>3. /\ refs' \in [Nested -> 0..MaxRefs] /\ home' \in [Nested -> Threads] /\ aborted' \in BOOLEAN
  BY <1>1, <1>2 DEF TypeOK
<1> QED
  BY <1>1, <1>2, <1>3, IdleKeeps

LEMMA DropRefKeeps ==
  ASSUME NestInv, NEW t \in Threads, NEW k \in Nested, DropRef(t, k)
  PROVE  NestInv'
<1>1. /\ refs' = [refs EXCEPT ![k] = @ - 1] /\ refs[k] > 0 /\ TypeOK /\ CountInv
      /\ UNCHANGED <<aborted, flag, signal, rcv, home, ready, wrapped, delivered, result, panicked>>
  BY DEF DropRef, NestInv
<1>2. refs[k] \in 0..MaxRefs /\ k \in Scopes /\ k > 0
  BY <1>1, NestedScopeAssumption DEF TypeOK, Nested, Scopes
<1>3. \A j \in Nested : /\ refs'[j] \in 0..MaxRefs /\ refs[j] \in 0..MaxRefs
                        /\ j # k => refs'[j] = refs[j]
  BY <1>1, <1>2, NestedScopeAssumption DEF TypeOK
<1>4. refs' \in [Nested -> 0..MaxRefs] /\ home' \in [Nested -> Threads] /\ aborted' \in BOOLEAN
  BY <1>1, <1>3 DEF TypeOK
<1>5. CASE refs[k] # 1
  <2>1. UNCHANGED <<stack, ptrs>>
    BY <1>5 DEF DropRef
  <2>2. \A j \in Nested : refs'[j] > 0 <=> refs[j] > 0
    BY <1>1, <1>2, <1>3, <1>5 DEF TypeOK
  <2> QED
    BY <1>1, <1>4, <2>1, <2>2, IdleKeeps
<1>6. CASE refs[k] = 1
  <2> PICK d, f : d = Height(t) /\ f = Frame(t, d)
    OBVIOUS
  <2>1. stack[t] # <<>>
    BY DEF DropRef, MayDrop
  <2>2. f.pc \in {"user", "discard"} /\ Head(stack[t]) = f
    BY <2>1, TopCall DEF DropRef, MayDrop
  <2>3. Release(t, k, f.pc)
    BY <1>6, <2>2 DEF DropRef
  <2>4. ptrs[k] > 0
    BY <1>1, <1>2, RestLives
  <2>5. ASSUME NEW j \in Scopes
        PROVE  Rest(j)' + One(j \in {k}) = Rest(j) /\ Rest(j)' \in Nat
    <3>1. ready[j] \in Nat /\ ready'[j] = ready[j]
      BY <1>1 DEF TypeOK
    <3>2. j > 0 => j \in Nested
      BY NestedScopeAssumption DEF Nested, Scopes
    <3>3. /\ One(j > 0 /\ rcv'[j] \in {"chain", "stored"}) = One(j > 0 /\ rcv[j] \in {"chain", "stored"})
          /\ One(j > 0 /\ rcv[j] \in {"chain", "stored"}) \in {0, 1}
      BY <1>1 DEF One
    <3>4. CASE j = k
      <4>1. refs'[j] = 0
        BY <1>1, <1>2, <1>6, <3>4 DEF TypeOK
      <4>2. One(j > 0 /\ refs[j] > 0) = 1 /\ One(j > 0 /\ refs'[j] > 0) = 0 /\ One(j \in {k}) = 1
        BY <1>1, <1>2, <3>4, <4>1 DEF One
      <4> QED
        BY <3>1, <3>3, <4>2 DEF Rest
    <3>5. CASE j # k
      <4>1. /\ One(j > 0 /\ refs'[j] > 0) = One(j > 0 /\ refs[j] > 0)
            /\ One(j > 0 /\ refs[j] > 0) \in {0, 1} /\ One(j \in {k}) = 0
        BY <1>3, <3>2, <3>5 DEF One
      <4> QED
        BY <3>1, <3>3, <4>1 DEF Rest
    <3> QED
      BY <3>4, <3>5
  <2>6. /\ rcv' \in [Nested -> {"none", "chain", "stored", "gone"}]
        /\ signal' \in [Nested -> Kinds \cup {"none"}]
        /\ \A j \in Nested : /\ rcv'[j] = "none" <=> rcv[j] = "none"
                             /\ rcv'[j] = "stored" <=> rcv[j] = "stored"
                             /\ j # k => signal'[j] = signal[j]
    BY <1>1 DEF TypeOK
  <2> QED
    BY <1>1, <1>4, <2>1, <2>2, <2>3, <2>4, <2>5, <2>6, LetGoKeeps
<1> QED
  BY <1>5, <1>6

LEMMA WrapKeeps ==
  ASSUME NestInv, NEW t \in Threads, NEW k \in Scopes, Wrap(t, k)
  PROVE  NestInv'
<1> PICK d : d = Height(t)
  OBVIOUS
<1>1. /\ TypeOK /\ CountInv /\ LivingInv /\ StoredInv /\ WrappedInv /\ FrameInv /\ IsStack
      /\ stack[t] # <<>> /\ Head(stack[t]).pc = "user" /\ CodeLevel(Head(stack[t])) = k
      /\ wrapped < MaxClosures /\ wrapped' = wrapped + 1
      /\ ready' = [ready EXCEPT ![k] = @ + 1] /\ ptrs' = [ptrs EXCEPT ![k] = @ + 1]
      /\ UNCHANGED <<stack, aborted, flag, signal, rcv, refs, home, delivered, result, panicked>>
  BY DEF Wrap, UserCode, InUserCode, NestInv, TypeOK, IsStack
<1>2. d \in Nat \ {0} /\ d \in 1..Height(t) /\ Head(stack[t]) = Frame(t, d)
  BY <1>1, TopCall
<1>3. ptrs[k] > 0
  BY <1>1, <1>2, CodeHolds
<1>4. Elsewhere(t, d) /\ Height(t)' = d /\ \A n : Frame(t, n)' = Frame(t, n)
  BY <1>1, IdleElsewhere
<1>5. d + 1 \notin 1..Height(t)'
  BY <1>2, <1>4
<1>6. \A j \in Scopes : /\ ptrs'[j] = ptrs[j] + One(j = k) /\ ptrs[j] \in Nat /\ ptrs'[j] \in Nat
                        /\ ptrs'[j] > 0 <=> ptrs[j] > 0
                        /\ ready'[j] = ready[j] + One(j = k) /\ ready[j] \in Nat
  BY <1>1, <1>3 DEF TypeOK, One
<1>7. /\ ready' \in [Scopes -> 0..MaxClosures] /\ wrapped' \in 0..MaxClosures
      /\ \A j \in Scopes : ready'[j] <= wrapped'
  <2>1. \A j \in Scopes : ready[j] <= wrapped
    BY <1>1 DEF WrappedInv
  <2>2. wrapped \in Nat /\ MaxClosures \in Nat /\ ready \in [Scopes -> 0..MaxClosures]
    BY <1>1, NestedScopeAssumption DEF TypeOK
  <2>3. \A j \in Scopes : ready'[j] \in 0..MaxClosures /\ ready'[j] <= wrapped'
    BY <1>1, <1>6, <2>1, <2>2 DEF One
  <2> QED
    BY <1>1, <2>2, <2>3
<1>8. TypeOK' /\ WrappedInv' /\ StoredInv'
  BY <1>1, <1>7 DEF TypeOK, WrappedInv, StoredInv
<1>9. CountInv'
  <2> SUFFICES ASSUME NEW j \in Scopes
               PROVE  /\ ptrs'[j] \in Nat /\ Rest(j)' \in Nat
                      /\ ptrs'[j] + One(Has(t, d, j)) + Rest(j) + Data(j) =
                           ptrs[j] + One(Has(t, d, j)') + One(Has(t, d + 1, j)') + Rest(j)' + Data(j)'
    BY <1>1, <1>2, <1>4, Recount
  <2>1. Rest(j)' = Rest(j) + One(j = k) /\ Rest(j) \in Nat
    <3>1. One(j > 0 /\ refs[j] > 0) \in Nat /\ One(j > 0 /\ rcv[j] \in {"chain", "stored"}) \in Nat
          /\ One(j = k) \in Nat
      BY DEF One
    <3>2. /\ One(j > 0 /\ refs'[j] > 0) = One(j > 0 /\ refs[j] > 0)
          /\ One(j > 0 /\ rcv'[j] \in {"chain", "stored"}) = One(j > 0 /\ rcv[j] \in {"chain", "stored"})
      BY <1>1 DEF One
    <3> QED
      BY <1>6, <3>1, <3>2 DEF Rest
  <2>2. Data(j)' = Data(j) /\ Data(j) \in Nat
    <3>1. j < Depth => j + 1 \in Scopes
      BY NestedScopeAssumption DEF Scopes
    <3> QED
      BY <1>6, <3>1 DEF Data, One
  <2>3. One(Has(t, d, j)') = One(Has(t, d, j)) /\ One(Has(t, d + 1, j)') = 0 /\ One(Has(t, d, j)) \in Nat
    BY <1>4, <1>5 DEF Has, One
  <2>4. One(j = k) \in Nat /\ ptrs'[j] = ptrs[j] + One(j = k) /\ ptrs[j] \in Nat
    BY <1>6 DEF One
  <2> QED
    BY <2>1, <2>2, <2>3, <2>4
<1>10. LivingInv'
  BY <1>1, <1>6 DEF LivingInv, Scopes
<1>11. \A j \in Nested : j \in Scopes /\ (ptrs'[j] = 0 <=> ptrs[j] = 0) /\ (rcv[j] = "none" => ptrs[j] = 0)
  <2>1. \A j \in Nested : j \in Scopes /\ (rcv[j] = "none" => ptrs[j] = 0)
    BY DEF Nested, Scopes, NestInv, UnusedInv
  <2>2. \A j \in Nested : ptrs'[j] = 0 <=> ptrs[j] = 0
    BY <1>6, <2>1
  <2> QED
    BY <2>1, <2>2
<1>12. FrameFits(t, d)'
  <2>1. FrameFits(t, d)
    BY <1>1, <1>2 DEF FrameInv
  <2> QED
    BY <1>1, <1>4, <1>11, <2>1 DEF FrameFits
<1>13. Catches(t, d) => PanicKnown'
  BY <1>4 DEF Catches, PanicKnown
<1> QED
  BY <1>1, <1>2, <1>4, <1>5, <1>8, <1>9, <1>10, <1>11, <1>12, <1>13, OtherKept

LEMMA InvokeKeeps ==
  ASSUME NestInv, NEW t \in Threads, NEW k \in Scopes, NEW pc \in {"user", "start"}, Invoke(t, k, pc)
  PROVE  NestInv'
<1> PICK d : d = Height(t)
  OBVIOUS
<1> PICK c : c = Call("closure", k, pc)
  OBVIOUS
<1>1. /\ TypeOK /\ CountInv /\ LivingInv /\ StoredInv /\ WrappedInv /\ FrameInv /\ IsStack
      /\ ready[k] > 0 /\ ready' = [ready EXCEPT ![k] = @ - 1] /\ Enter(t, c)
      /\ UNCHANGED <<aborted, ptrs, flag, signal, rcv, refs, home, wrapped, delivered, result, panicked>>
  BY DEF Invoke, NestInv, TypeOK, IsStack
<1>2. c \in Calls /\ c.what = "closure" /\ c.lvl = k /\ c.pc = pc /\ c.unwinding = FALSE
  BY DEF Call, Calls
<1>3. d \in Nat
  BY <1>1, TopOfStack
<1>4. Keeps(t, d, d + 1) /\ Frame(t, d + 1)' = c
  BY <1>1, <1>2, Entered
<1>5. /\ Elsewhere(t, d) /\ IsStack' /\ Height(t)' = d + 1
      /\ d # 0 => Frame(t, d)' = Frame(t, d)
  BY <1>1, <1>3, <1>4, EnteredElsewhere DEF Keeps
<1>6. /\ d + 1 \in 1..Height(t)' /\ (d \in 1..Height(t) <=> d # 0) /\ (d \in 1..Height(t)' <=> d # 0)
  BY <1>3, <1>5
<1>7. \A j \in Scopes : /\ ready'[j] + One(j = k) = ready[j] /\ ready[j] \in Nat /\ ready'[j] \in Nat
                        /\ ready'[j] <= MaxClosures /\ ready'[j] <= wrapped
  <2>1. \A j \in Scopes : ready[j] \in 0..MaxClosures /\ ready[j] <= wrapped /\ wrapped \in Nat
    BY <1>1, NestedScopeAssumption DEF TypeOK, WrappedInv
  <2>2. ready \in [Scopes -> 0..MaxClosures] /\ MaxClosures \in Nat
    BY <1>1, NestedScopeAssumption DEF TypeOK
  <2> QED
    BY <1>1, <2>1, <2>2 DEF One
<1>8. TypeOK' /\ WrappedInv' /\ StoredInv'
  <2>1. ready' \in [Scopes -> 0..MaxClosures]
    BY <1>1, <1>7, NestedScopeAssumption DEF TypeOK
  <2> QED
    BY <1>1, <1>5, <1>7, <2>1 DEF TypeOK, WrappedInv, StoredInv, IsStack
<1>9. CountInv'
  <2> SUFFICES ASSUME NEW j \in Scopes
               PROVE  /\ ptrs'[j] \in Nat /\ Rest(j)' \in Nat
                      /\ ptrs'[j] + One(Has(t, d, j)) + Rest(j) + Data(j) =
                           ptrs[j] + One(Has(t, d, j)') + One(Has(t, d + 1, j)') + Rest(j)' + Data(j)'
    BY <1>1, <1>3, <1>5, Recount
  <2>1. Rest(j)' + One(j = k) = Rest(j) /\ Rest(j)' \in Nat
    <3>1. One(j > 0 /\ refs[j] > 0) \in Nat /\ One(j > 0 /\ rcv[j] \in {"chain", "stored"}) \in Nat
          /\ One(j = k) \in Nat
      BY DEF One
    <3>2. /\ One(j > 0 /\ refs'[j] > 0) = One(j > 0 /\ refs[j] > 0)
          /\ One(j > 0 /\ rcv'[j] \in {"chain", "stored"}) = One(j > 0 /\ rcv[j] \in {"chain", "stored"})
      BY <1>1 DEF One
    <3> QED
      BY <1>7, <3>1, <3>2 DEF Rest
  <2>2. Data(j)' = Data(j) /\ Data(j) \in Nat
    BY <1>1 DEF Data, One
  <2>3. One(Has(t, d, j)') = One(Has(t, d, j)) /\ One(Has(t, d, j)) \in Nat
    BY <1>5, <1>6 DEF Has, One
  <2>4. One(Has(t, d + 1, j)') = One(j = k)
    BY <1>2, <1>4, <1>6 DEF Has, Holds, One
  <2>5. One(j = k) \in Nat /\ ptrs'[j] = ptrs[j] /\ ptrs[j] \in Nat
    BY <1>1 DEF One, TypeOK
  <2> QED
    BY <2>1, <2>2, <2>3, <2>4, <2>5
<1>10. LivingInv'
  BY <1>1 DEF LivingInv
<1>11. \A j \in Nested : rcv[j] = "none" => ptrs[j] = 0
  BY DEF NestInv, UnusedInv
<1>12. d \in 1..Height(t)' => FrameFits(t, d)'
  <2> HAVE d \in 1..Height(t)'
  <2>1. FrameFits(t, d) /\ Frame(t, d)' = Frame(t, d) /\ d \in 1..Height(t)
    BY <1>1, <1>5, <1>6 DEF FrameInv
  <2>2. d > 1 => Frame(t, d - 1)' = Frame(t, d - 1)
    <3>1. d > 1 => d - 1 \in 1..d
      BY <1>3
    <3> QED
      BY <1>4, <3>1 DEF Keeps
  <2> QED
    BY <1>1, <2>1, <2>2 DEF FrameFits
<1>13. FrameFits(t, d + 1)'
  BY <1>2, <1>4 DEF FrameFits
<1>14. Catches(t, d) => PanicKnown'
  <2> HAVE Catches(t, d)
  <2>1. Catches(t, d)'
    BY <1>5, <1>6 DEF Catches
  <2> QED
    BY <2>1 DEF PanicKnown
<1>15. Frame(t, d + 1)'.what # "drop"
  BY <1>2, <1>4
<1> QED
  BY <1>1, <1>3, <1>5, <1>6, <1>8, <1>9, <1>10, <1>11, <1>12, <1>13, <1>14, <1>15, OtherKept

LEMMA PanicKeeps ==
  ASSUME NestInv, NEW t \in Threads, Panic(t)
  PROVE  NestInv'
<1> PICK d, f : d = Height(t) /\ f = Frame(t, d)
  OBVIOUS
<1>1. /\ TypeOK /\ CountInv /\ LivingInv /\ StoredInv /\ WrappedInv /\ FrameInv /\ IsStack
      /\ stack[t] # <<>> /\ Head(stack[t]).pc = "user" /\ panicked' = TRUE
      /\ UNCHANGED <<ptrs, flag, signal, rcv, refs, home, ready, wrapped, delivered, result>>
  BY DEF Panic, InUserCode, NestInv, TypeOK, IsStack, scopes
<1>2. d \in Nat \ {0} /\ d \in 1..Height(t) /\ f \in Calls /\ f.pc = "user"
  BY <1>1, TopCall
<1>3. CASE \E i \in 1..Len(stack[t]) : stack[t][i].unwinding
  <2>1. PICK i \in 1..Len(stack[t]) : stack[t][i].unwinding
    BY <1>3
  <2>2. PICK n \in 1..Height(t) : Frame(t, n) = stack[t][i]
    <3>1. Len(stack[t]) \in Nat
      BY <1>1, TopOfStack DEF Height
    <3>2. Len(stack[t]) + 1 - i \in 1..Len(stack[t]) /\ Len(stack[t]) + 1 - (Len(stack[t]) + 1 - i) = i
      BY <3>1
    <3> QED
      BY <3>2 DEF Height, Frame, Nth
  <2>3. FrameFits(t, n)
    BY <1>1 DEF FrameInv
  <2>4. panicked' = panicked
    <3>1. panicked \in BOOLEAN
      BY <1>1 DEF TypeOK
    <3> QED
      BY <1>1, <2>1, <2>2, <2>3, <3>1 DEF FrameFits
  <2>5. UNCHANGED stack /\ aborted' \in BOOLEAN
    BY <1>3 DEF Panic
  <2>6. refs' \in [Nested -> 0..MaxRefs] /\ home' \in [Nested -> Threads]
    BY <1>1 DEF TypeOK
  <2>7. \A j \in Nested : refs'[j] > 0 <=> refs[j] > 0
    BY <1>1
  <2> QED
    BY <1>1, <2>4, <2>5, <2>6, <2>7, IdleKeeps
<1>4. CASE ~ \E i \in 1..Len(stack[t]) : stack[t][i].unwinding
  <2>1. stack' = [stack EXCEPT ![t][1].unwinding = TRUE] /\ UNCHANGED aborted
    BY <1>4 DEF Panic
  <2> DEFINE g == [f EXCEPT !.unwinding = TRUE]
  <2>2. Keeps(t, d - 1, d) /\ Frame(t, d)' = g
    BY <1>1, <2>1, Panicked
  <2>3. g.what = f.what /\ g.lvl = f.lvl /\ g.pc = f.pc /\ g.unwinding
    BY <1>2 DEF Calls
  <2> HIDE DEF g
  <2>4. Elsewhere(t, d) /\ IsStack' /\ Height(t)' = d
    BY <1>1, <1>2, <2>2, KeepsElsewhere DEF Keeps
  <2>5. d \in 1..Height(t)' /\ d + 1 \notin 1..Height(t)'
    BY <1>2, <2>4
  <2>6. TypeOK' /\ LivingInv' /\ StoredInv' /\ WrappedInv'
    BY <1>1, <2>1, <2>4 DEF TypeOK, IsStack, LivingInv, StoredInv, WrappedInv
  <2>7. CountInv'
    <3> SUFFICES ASSUME NEW j \in Scopes
                 PROVE  /\ ptrs'[j] \in Nat /\ Rest(j)' \in Nat
                        /\ ptrs'[j] + One(Has(t, d, j)) + Rest(j) + Data(j) =
                             ptrs[j] + One(Has(t, d, j)') + One(Has(t, d + 1, j)') + Rest(j)' + Data(j)'
      BY <1>1, <1>2, <2>4, Recount
    <3>1. Rest(j)' = Rest(j) /\ Data(j)' = Data(j) /\ ptrs'[j] = ptrs[j]
      BY <1>1 DEF Rest, Data
    <3>2. Rest(j) \in Nat /\ Data(j) \in Nat /\ ptrs[j] \in Nat
      BY <1>1, Numbers
    <3>3. One(Has(t, d, j)') = One(Has(t, d, j)) /\ One(Has(t, d + 1, j)') = 0 /\ One(Has(t, d, j)) \in Nat
      BY <1>2, <2>2, <2>3, <2>5 DEF Has, Holds, One
    <3> QED
      BY <3>1, <3>2, <3>3
  <2>8. \A j \in Nested : rcv[j] = "none" => ptrs[j] = 0
    BY DEF NestInv, UnusedInv
  <2>9. FrameFits(t, d)'
    <3>1. FrameFits(t, d)
      BY <1>1, <1>2 DEF FrameInv
    <3>2. d > 1 => Frame(t, d - 1)' = Frame(t, d - 1)
      <4>1. d > 1 => d - 1 \in 1..d - 1
        BY <1>2
      <4> QED
        BY <2>2, <4>1 DEF Keeps
    <3> QED
      BY <1>1, <2>2, <2>3, <3>1, <3>2 DEF FrameFits
  <2>10. PanicKnown'
    <3>1. Catches(t, d)'
      BY <1>2, <2>2, <2>3, <2>5 DEF Catches
    <3> QED
      BY <3>1 DEF PanicKnown
  <2>11. Frame(t, d)'.what = f.what /\ Frame(t, d)'.lvl = f.lvl /\ Frame(t, d)'.pc = f.pc
    BY <2>2, <2>3
  <2> QED
    BY <1>1, <1>2, <2>4, <2>5, <2>6, <2>7, <2>8, <2>9, <2>10, <2>11, OtherKept
<1> QED
  BY <1>3, <1>4

LEMMA EndBodyKeeps ==
  ASSUME NestInv, NEW t \in Threads, EndBody(t)
  PROVE  NestInv'
<1> PICK d, f : d = Height(t) /\ f = Frame(t, d)
  OBVIOUS
<1>1. /\ TypeOK /\ CountInv /\ LivingInv /\ StoredInv /\ WrappedInv /\ FrameInv /\ IsStack
      /\ At(t, "body", "user") /\ Return(t) /\ ptrs' = [ptrs EXCEPT ![0] = @ - 1]
      /\ result' = IF Unwinding(t) THEN "err" ELSE "ok"
      /\ UNCHANGED <<aborted, flag, signal, rcv, refs, home, ready, wrapped, delivered, panicked>>
  BY DEF EndBody, NestInv, TypeOK, IsStack
<1>2. /\ stack[t] # <<>> /\ f \in Calls /\ f.what = "body" /\ f.pc = "user" /\ d \in 1..Height(t)
      /\ Unwinding(t) = f.unwinding /\ t = Main /\ d = 1 /\ f.lvl = 0 /\ result = "none"
  BY <1>1, TopAt DEF FrameFits
<1>3. Keeps(t, d - 1, d - 1)
  BY <1>1, <1>2, Returned
<1>4. Elsewhere(t, d) /\ IsStack' /\ Height(t)' = 0 /\ d \in Nat
  <2>1. d \in Nat /\ d - 1 \in Nat /\ d - 1 = 0
    BY <1>2
  <2>2. Elsewhere(t, d)
    BY <1>1, <1>3, <2>1, KeepsElsewhere
  <2>3. IsStack' /\ Height(t)' = d - 1
    BY <1>3 DEF Keeps
  <2> QED
    BY <2>1, <2>2, <2>3
<1>5. d \notin 1..Height(t)' /\ d + 1 \notin 1..Height(t)'
  BY <1>2, <1>4
<1>6. 0 \in Scopes /\ Nested \subseteq Scopes /\ 0 \notin Nested
  BY NestedScopeAssumption DEF Scopes, Nested
<1>7. ptrs[0] > 0
  BY <1>1, <1>2, <1>6, HolderLives DEF Has, Holds
<1>8. \A j \in Scopes : /\ ptrs'[j] = ptrs[j] - One(j = 0) /\ ptrs[j] \in Nat /\ ptrs'[j] \in Nat
                        /\ j # 0 => ptrs'[j] = ptrs[j]
  BY <1>1, <1>7 DEF TypeOK, One
<1>9. TypeOK' /\ StoredInv' /\ WrappedInv'
  <2>1. ptrs' \in [Scopes -> Nat]
    BY <1>1, <1>8 DEF TypeOK
  <2> QED
    BY <1>1, <1>4, <2>1 DEF TypeOK, IsStack, StoredInv, WrappedInv
<1>10. CountInv'
  <2> SUFFICES ASSUME NEW j \in Scopes
               PROVE  /\ ptrs'[j] \in Nat /\ Rest(j)' \in Nat
                      /\ ptrs'[j] + One(Has(t, d, j)) + Rest(j) + Data(j) =
                           ptrs[j] + One(Has(t, d, j)') + One(Has(t, d + 1, j)') + Rest(j)' + Data(j)'
    BY <1>1, <1>4, Recount
  <2>1. Rest(j)' = Rest(j) /\ Rest(j) \in Nat
    BY <1>1, Numbers DEF Rest
  <2>2. Data(j)' = Data(j) /\ Data(j) \in Nat
    <3>1. j < Depth => j + 1 \in Scopes /\ j + 1 # 0
      BY NestedScopeAssumption DEF Scopes
    <3> QED
      BY <1>8, <3>1 DEF Data, One
  <2>3. One(Has(t, d, j)') = 0 /\ One(Has(t, d + 1, j)') = 0
    BY <1>5 DEF Has, One
  <2>4. One(Has(t, d, j)) = One(j = 0)
    BY <1>2 DEF Has, Holds, One
  <2>5. One(j = 0) \in Nat /\ ptrs'[j] = ptrs[j] - One(j = 0) /\ ptrs[j] \in Nat /\ ptrs'[j] \in Nat
    BY <1>8 DEF One
  <2> QED
    BY <2>1, <2>2, <2>3, <2>4, <2>5
<1>11. LivingInv'
  <2>1. \A j \in Scopes \ {0} : ptrs'[j] > 0 <=> ptrs[j] > 0
    BY <1>8
  <2>2. ptrs \in [Scopes -> Nat] /\ ptrs' \in [Scopes -> Nat] /\ ready' \in [Scopes -> 0..MaxClosures]
    BY <1>1, <1>9 DEF TypeOK
  <2> QED
    BY <1>1, <1>6, <1>7, <1>10, <2>1, <2>2, LivingKept
<1>12. \A j \in Nested : (rcv[j] = "none" => ptrs[j] = 0) /\ ptrs'[j] = ptrs[j]
  BY <1>6, <1>8 DEF NestInv, UnusedInv
<1>13. Catches(t, d) => PanicKnown'
  BY <1>1, <1>2 DEF Catches, PanicKnown
<1> QED
  BY <1>1, <1>2, <1>4, <1>5, <1>9, <1>10, <1>11, <1>12, <1>13, OtherKept

LEMMA EndKeeps ==
  ASSUME NestInv, NEW t \in Threads, End(t)
  PROVE  NestInv'
<1> PICK d, f : d = Height(t) /\ f = Frame(t, d)
  OBVIOUS
<1>1. /\ TypeOK /\ CountInv /\ LivingInv /\ StoredInv /\ WrappedInv /\ FrameInv /\ IsStack
      /\ UNCHANGED <<aborted, ptrs, flag, signal, rcv, refs, home, ready, wrapped, delivered, result, panicked>>
  BY DEF End, NestInv, TypeOK, IsStack, scopes
<1>2. /\ stack[t] # <<>> /\ f \in Calls /\ f.pc = "end" /\ f.what # "body" /\ d \in 1..Height(t)
      /\ FrameFits(t, d)
  <2>1. PICK what \in {"set_value", "closure", "drop"} : At(t, what, "end")
    BY DEF End
  <2> QED
    BY <2>1, TopAt
<1>3. d \in Nat \ {0}
  BY <1>2, TopCall
<1>4. /\ Keeps(t, d - 2, d - 1)
      /\ d > 1 => Frame(t, d - 1)' = [Frame(t, d - 1) EXCEPT !.unwinding = @ \/ Frame(t, d).unwinding]
  BY <1>1, <1>2, Ended
<1>5. Elsewhere(t, d) /\ IsStack' /\ Height(t)' = d - 1
  BY <1>1, <1>3, <1>4, EndedElsewhere DEF Keeps
<1>6. d \notin 1..Height(t)' /\ d + 1 \notin 1..Height(t)'
  BY <1>3, <1>5
<1>7. TypeOK' /\ LivingInv' /\ StoredInv' /\ WrappedInv'
  BY <1>1, <1>5 DEF TypeOK, IsStack, LivingInv, StoredInv, WrappedInv
<1>8. CountInv'
  <2> SUFFICES ASSUME NEW j \in Scopes
               PROVE  /\ ptrs'[j] \in Nat /\ Rest(j)' \in Nat
                      /\ ptrs'[j] + One(Has(t, d, j)) + Rest(j) + Data(j) =
                           ptrs[j] + One(Has(t, d, j)') + One(Has(t, d + 1, j)') + Rest(j)' + Data(j)'
    BY <1>1, <1>3, <1>5, Recount
  <2>1. Rest(j)' = Rest(j) /\ Data(j)' = Data(j) /\ ptrs'[j] = ptrs[j]
    BY <1>1 DEF Rest, Data
  <2>2. Rest(j) \in Nat /\ Data(j) \in Nat /\ ptrs[j] \in Nat
    BY <1>1, Numbers
  <2>3. One(Has(t, d, j)') = 0 /\ One(Has(t, d + 1, j)') = 0 /\ One(Has(t, d, j)) = 0
    BY <1>2, <1>6 DEF Has, Holds, One
  <2> QED
    BY <2>1, <2>2, <2>3
<1>9. \A j \in Nested : rcv[j] = "none" => ptrs[j] = 0
  BY DEF NestInv, UnusedInv
<1>10. Catches(t, d) => PanicKnown'
  <2> HAVE Catches(t, d)
  <2>1. f.unwinding /\ f.what = "set_value"
    BY <1>2 DEF Catches
  <2>2. d > 1 /\ Frame(t, d - 1).pc = "user"
    BY <1>2, <2>1 DEF FrameFits
  <2>3. d - 1 \in 1..Height(t) /\ d - 1 \in 1..Height(t)'
    BY <1>3, <1>5, <2>2
  <2>4. PICK a \in Calls : a = Frame(t, d - 1)
    BY <1>1, <2>3, TopOfStack
  <2> DEFINE b == [a EXCEPT !.unwinding = @ \/ f.unwinding]
  <2>5. b.unwinding /\ b.pc = "user"
    BY <2>1, <2>2, <2>4 DEF Calls
  <2>6. Frame(t, d - 1)' = b
    BY <1>4, <2>2, <2>4
  <2>7. Catches(t, d - 1)'
    <3> HIDE DEF b
    <3>1. PICK n : n = d - 1
      OBVIOUS
    <3>2. n \in 1..Height(t)' /\ Frame(t, n)'.unwinding /\ Frame(t, n)'.pc = "user"
      BY <2>3, <2>5, <2>6, <3>1
    <3>3. Catches(t, n)'
      BY <3>2 DEF Catches
    <3> QED
      BY <3>1, <3>3
  <2> QED
    BY <2>7 DEF PanicKnown
<1> QED
  BY <1>1, <1>2, <1>3, <1>5, <1>6, <1>7, <1>8, <1>9, <1>10, OtherKept

LEMMA NestKeeps ==
  ASSUME NestInv, NEW t \in Threads, NEW k \in Nested, Nest(t, k)
  PROVE  NestInv'
<1> PICK d, f : d = Height(t) /\ f = Frame(t, d)
  OBVIOUS
<1> PICK c : c = Call("set_value", k, "user")
  OBVIOUS
<1>1. /\ TypeOK /\ CountInv /\ LivingInv /\ UnusedInv /\ StoredInv /\ WrappedInv /\ FrameInv /\ IsStack
      /\ stack[t] # <<>> /\ Head(stack[t]).pc = "user" /\ CodeLevel(Head(stack[t])) = k - 1
      /\ rcv[k] = "none" /\ (k > 1 => rcv[k - 1] = "chain")
      /\ ptrs' = [ptrs EXCEPT ![k - 1] = @ + 2, ![k] = 3]
      /\ rcv' = [j \in Nested |-> IF j = k THEN "chain" ELSE IF j = k - 1 THEN "stored" ELSE rcv[j]]
      /\ refs' = [refs EXCEPT ![k] = 1] /\ home' = [home EXCEPT ![k] = t] /\ Enter(t, c)
      /\ UNCHANGED <<aborted, flag, signal, ready, wrapped, delivered, result, panicked>>
  BY DEF Nest, UserCode, InUserCode, NestInv, TypeOK, IsStack
<1>2. /\ k \in Scopes /\ k - 1 \in Scopes /\ k > 0 /\ k # k - 1 /\ Nested \subseteq Scopes
      /\ \A j \in Nested : j = k - 1 => k > 1
  BY NestedScopeAssumption DEF Nested, Scopes
<1>3. d \in Nat \ {0} /\ d \in 1..Height(t) /\ Head(stack[t]) = f /\ f \in Calls /\ f.pc = "user"
  BY <1>1, TopCall
<1>4. ptrs[k - 1] > 0
  BY <1>1, <1>3, CodeHolds
<1>5. ptrs[k] = 0 /\ delivered[k] = "none" /\ flag[k] = FALSE
  BY <1>1 DEF UnusedInv
\* Nothing holds the scope yet.
<1>6. ready[k] = 0 /\ ~(refs[k] > 0) /\ Rest(k) = 0 /\ Data(k) = 0 /\ ~Has(t, d, k)
  <2>1. ~(ready[k] > 0) /\ ~(refs[k] > 0) /\ ~(k < Depth /\ ptrs[k + 1] > 0)
    BY <1>1, <1>2, <1>5, RestLives
  <2>2. ready[k] \in Nat
    BY <1>1, <1>2 DEF TypeOK
  <2>3. ~Has(t, d, k)
    BY <1>1, <1>2, <1>5, HolderLives
  <2> QED
    BY <1>1, <2>1, <2>2, <2>3 DEF Rest, Data, One
<1>7. c \in Calls /\ c.what = "set_value" /\ c.lvl = k /\ c.pc = "user" /\ c.unwinding = FALSE
  BY <1>2 DEF Call, Calls
<1>8. Keeps(t, d, d + 1) /\ Frame(t, d + 1)' = c
  BY <1>1, <1>7, Entered
<1>9. Elsewhere(t, d) /\ IsStack' /\ Height(t)' = d + 1 /\ Frame(t, d)' = f
  BY <1>1, <1>3, <1>8, EnteredElsewhere DEF Keeps
<1>10. d + 1 \in 1..Height(t)' /\ d \in 1..Height(t)'
  BY <1>3, <1>9
<1>11. \A j \in Scopes : /\ ptrs[j] \in Nat /\ ptrs'[j] \in Nat
                         /\ j = k => ptrs'[j] = 3
                         /\ j = k - 1 => ptrs'[j] = ptrs[j] + 2
                         /\ j # k /\ j # k - 1 => ptrs'[j] = ptrs[j]
  BY <1>1, <1>2 DEF TypeOK
<1>12. \A j \in Nested : /\ rcv[j] \in {"none", "chain", "stored", "gone"}
                         /\ rcv'[j] \in {"none", "chain", "stored", "gone"}
                         /\ j = k => rcv'[j] = "chain"
                         /\ j = k - 1 => rcv[j] = "chain" /\ rcv'[j] = "stored"
                         /\ j # k /\ j # k - 1 => rcv'[j] = rcv[j]
  <2>1. \A j \in Nested : rcv[j] \in {"none", "chain", "stored", "gone"}
    BY <1>1 DEF TypeOK
  <2> QED
    BY <1>1, <1>2, <2>1
<1>13. \A j \in Nested : /\ refs'[j] \in 0..MaxRefs
                         /\ j = k => refs'[j] = 1
                         /\ j # k => refs'[j] = refs[j]
  BY <1>1, NestedScopeAssumption DEF TypeOK
<1>14. StoredInv'
  <2> SUFFICES ASSUME NEW j \in Nested, j > 1
               PROVE  rcv'[j - 1] = "stored" <=> rcv'[j] # "none" /\ delivered'[j] = "none"
    BY DEF StoredInv
  <2>1. j - 1 \in Nested /\ j \in Int /\ k \in Int
    BY NestedScopeAssumption DEF Nested
  <2>2. rcv[j - 1] = "stored" <=> rcv[j] # "none" /\ delivered[j] = "none"
    BY <1>1 DEF StoredInv
  <2>3. CASE j = k
    BY <1>1, <1>5, <1>12, <2>1, <2>3
  <2>4. CASE j = k - 1
    <3>1. j - 1 # k /\ j - 1 # k - 1
      BY <2>1, <2>4
    <3>2. rcv'[j - 1] = rcv[j - 1]
      BY <1>12, <2>1, <3>1
    <3> QED
      BY <1>1, <1>12, <2>2, <2>4, <3>2
  <2>5. CASE j - 1 = k
    <3>1. j # k /\ j # k - 1
      BY <2>1, <2>5
    <3>2. rcv'[j] = rcv[j]
      BY <1>12, <3>1
    <3> QED
      BY <1>1, <1>12, <2>1, <2>2, <2>5, <3>2
  <2>6. CASE j # k /\ j # k - 1 /\ j - 1 # k
    <3>1. j - 1 # k - 1
      BY <2>1, <2>6
    <3>2. rcv'[j - 1] = rcv[j - 1] /\ rcv'[j] = rcv[j]
      BY <1>12, <2>1, <2>6, <3>1
    <3> QED
      BY <1>1, <2>2, <3>2
  <2> QED
    BY <2>3, <2>4, <2>5, <2>6
<1>15. TypeOK' /\ WrappedInv'
  <2>1. ptrs' \in [Scopes -> Nat]
    BY <1>1, <1>11 DEF TypeOK
  <2>2. rcv' \in [Nested -> {"none", "chain", "stored", "gone"}]
    BY <1>1, <1>12
  <2>3. refs' \in [Nested -> 0..MaxRefs] /\ home' \in [Nested -> Threads]
    BY <1>1, <1>13 DEF TypeOK
  <2> QED
    BY <1>1, <1>9, <2>1, <2>2, <2>3 DEF TypeOK, IsStack, WrappedInv
<1>16. CountInv'
  <2> SUFFICES ASSUME NEW j \in Scopes
               PROVE  /\ ptrs'[j] \in Nat /\ Rest(j)' \in Nat
                      /\ ptrs'[j] + One(Has(t, d, j)) + Rest(j) + Data(j) =
                           ptrs[j] + One(Has(t, d, j)') + One(Has(t, d + 1, j)') + Rest(j)' + Data(j)'
    BY <1>1, <1>3, <1>9, Recount
  <2>1. One(Has(t, d, j)') = One(Has(t, d, j)) /\ One(Has(t, d, j)) \in Nat
    BY <1>3, <1>9, <1>10 DEF Has, One
  <2>2. One(Has(t, d + 1, j)') = One(j = k \/ j = k - 1)
    BY <1>7, <1>8, <1>10 DEF Has, Holds, One
  <2>3. j > 0 => j \in Nested
    BY NestedScopeAssumption DEF Nested, Scopes
  <2>4. Rest(j) \in Nat /\ Data(j) \in Nat /\ ready'[j] = ready[j] /\ ready[j] \in Nat
    BY <1>1, Numbers
  <2>5. CASE j = k
    <3>1. Rest(j)' = 2
      BY <1>1, <1>2, <1>6, <1>12, <1>13, <2>3, <2>5 DEF Rest, One
    <3>2. Data(j)' = 0
      <4>1. j < Depth => ptrs'[j + 1] = ptrs[j + 1]
        <5>1. j < Depth => j + 1 \in Scopes /\ j + 1 # k /\ j + 1 # k - 1
          BY <2>5, NestedScopeAssumption DEF Scopes
        <5> QED
          BY <1>11, <5>1
      <4>2. Data(j)' = Data(j)
        BY <4>1 DEF Data, One
      <4> QED
        BY <1>6, <2>5, <4>2
    <3>3. One(Has(t, d, j)) = 0 /\ One(Has(t, d + 1, j)') = 1 /\ ptrs'[j] = 3 /\ ptrs[j] = 0
      BY <1>5, <1>6, <1>11, <2>2, <2>5 DEF One
    <3> QED
      BY <1>6, <2>1, <2>5, <3>1, <3>2, <3>3
  <2>6. CASE j = k - 1
    <3>1. Rest(j)' = Rest(j)
      <4>1. j > 0 => rcv[j] = "chain" /\ rcv'[j] = "stored" /\ refs'[j] = refs[j]
        BY <1>2, <1>12, <1>13, <2>3, <2>6
      <4> QED
        BY <2>4, <4>1 DEF Rest, One
    <3>2. Data(j) = 0 /\ Data(j)' = 1
      <4>1. j < Depth /\ j + 1 = k
        BY <2>6, NestedScopeAssumption DEF Nested
      <4> QED
        BY <1>2, <1>5, <1>11, <4>1 DEF Data, One
    <3>3. One(Has(t, d + 1, j)') = 1 /\ ptrs'[j] = ptrs[j] + 2 /\ ptrs[j] \in Nat
      BY <1>11, <2>2, <2>6 DEF One
    <3> QED
      BY <2>1, <2>4, <3>1, <3>2, <3>3
  <2>7. CASE j # k /\ j # k - 1
    <3>1. Rest(j)' = Rest(j)
      <4>1. j > 0 => rcv'[j] = rcv[j] /\ refs'[j] = refs[j]
        BY <1>12, <1>13, <2>3, <2>7
      <4> QED
        BY <2>4, <4>1 DEF Rest, One
    <3>2. Data(j)' = Data(j)
      <4>1. j < Depth => j + 1 \in Scopes /\ j + 1 # k
        BY <1>2, <2>7, NestedScopeAssumption DEF Scopes
      <4>2. j < Depth => (ptrs'[j + 1] > 0 <=> ptrs[j + 1] > 0)
        <5>1. CASE j + 1 = k - 1
          BY <1>4, <1>11, <4>1, <5>1
        <5>2. CASE j + 1 # k - 1
          BY <1>11, <4>1, <5>2
        <5> QED
          BY <5>1, <5>2
      <4> QED
        BY <4>2 DEF Data, One
    <3>3. One(Has(t, d + 1, j)') = 0 /\ ptrs'[j] = ptrs[j] /\ ptrs[j] \in Nat
      BY <1>11, <2>2, <2>7 DEF One
    <3> QED
      BY <2>1, <2>4, <3>1, <3>2, <3>3
  <2> QED
    BY <2>5, <2>6, <2>7
<1>17. LivingInv'
  <2>1. \A j \in Scopes \ {k} : ptrs'[j] > 0 <=> ptrs[j] > 0
    BY <1>4, <1>11
  <2>2. ptrs \in [Scopes -> Nat] /\ ptrs' \in [Scopes -> Nat] /\ ready' \in [Scopes -> 0..MaxClosures]
    BY <1>1, <1>15 DEF TypeOK
  <2> QED
    BY <1>1, <1>2, <1>4, <1>16, <2>1, <2>2, LivingKept
<1>18. \A j \in Nested : /\ rcv[j] # "none" => rcv'[j] # "none" /\ (ptrs'[j] = 0 <=> ptrs[j] = 0)
                         /\ rcv[j] = "none" /\ rcv'[j] # "none" => ptrs'[j] # 0
                         /\ rcv'[j] = "none" => ptrs'[j] = 0
  <2> TAKE j \in Nested
  <2>1. j \in Scopes
    BY <1>2
  <2>2. CASE j = k
    <3>1. rcv[j] = "none" /\ rcv'[j] = "chain"
      BY <1>1, <1>12, <2>2
    <3>2. ptrs'[j] = 3
      BY <1>11, <2>1, <2>2
    <3> QED
      BY <3>1, <3>2
  <2>3. CASE j = k - 1
    BY <1>4, <1>11, <1>12, <2>1, <2>3
  <2>4. CASE j # k /\ j # k - 1
    BY <1>1, <1>11, <1>12, <2>1, <2>4 DEF UnusedInv
  <2> QED
    BY <2>2, <2>3, <2>4
<1>19. FrameFits(t, d)'
  <2>1. FrameFits(t, d)
    BY <1>1, <1>3 DEF FrameInv
  <2>2. d > 1 => Frame(t, d - 1)' = Frame(t, d - 1)
    <3>1. d > 1 => d - 1 \in 1..d
      BY <1>3
    <3> QED
      BY <1>8, <3>1 DEF Keeps
  <2> QED
    BY <1>1, <1>9, <1>18, <2>1, <2>2 DEF FrameFits
<1>20. FrameFits(t, d + 1)'
  <2> PICK e : e = d + 1
    OBVIOUS
  <2>1. Frame(t, e)' = c /\ e > 1 /\ Frame(t, e - 1)'.pc = "user"
    <3>1. e - 1 = d /\ e > 1
      BY <1>3
    <3> QED
      BY <1>3, <1>8, <1>9, <3>1
  <2>2. FrameFits(t, e)'
    BY <1>7, <2>1 DEF FrameFits
  <2> QED
    BY <2>2
<1>21. Catches(t, d) => PanicKnown'
  <2> HAVE Catches(t, d)
  <2>1. Catches(t, d)'
    BY <1>9, <1>10 DEF Catches
  <2> QED
    BY <2>1 DEF PanicKnown
<1>22. Frame(t, d + 1)'.what # "drop"
  BY <1>7, <1>8
<1> QED
  BY <1>1, <1>3, <1>9, <1>10, <1>14, <1>15, <1>16, <1>17, <1>18, <1>19, <1>20, <1>21, <1>22, OtherKept

----------------------------------------------------------------------------
(* The theorems. *)

LEMMA InitNest ==
  ASSUME Init
  PROVE  NestInv
<1>0. /\ 0 \in Scopes /\ Nested \subseteq Scopes /\ 0 \notin Nested /\ Main \in Threads
      /\ Depth \in Nat \ {0} /\ MaxRefs \in Nat \ {0} /\ MaxClosures \in Nat
  BY NestedScopeAssumption DEF Scopes, Nested
<1> PICK c : c = Call("body", 0, "user")
  OBVIOUS
<1>1. c \in Calls /\ c.what = "body" /\ c.lvl = 0 /\ c.pc = "user" /\ c.unwinding = FALSE
  BY <1>0 DEF Call, Calls
<1>2. /\ \A t \in Threads : stack[t] = IF t = Main THEN <<c>> ELSE <<>>
      /\ ptrs = [k \in Scopes |-> IF k = 0 THEN 1 ELSE 0]
  BY DEF Init
<1>3. <<c>> \in Seq(Calls) /\ <<>> \in Seq(Calls)
  BY <1>1
<1>4. /\ Height(Main) = 1 /\ Frame(Main, 1) = c
      /\ \A t \in Threads : t # Main => Height(t) = 0
  BY <1>0, <1>2 DEF Height, Frame, Nth
<1>5. \A t \in Threads : \A n : n \in 1..Height(t) <=> t = Main /\ n = 1
  <2> TAKE t \in Threads
  <2>1. CASE t = Main
    BY <1>4, <2>1
  <2>2. CASE t # Main
    BY <1>4, <2>2
  <2> QED
    BY <2>1, <2>2
<1>6. TypeOK
  <2>1. stack \in [Threads -> Seq(Calls)]
    <3>1. stack = [t \in Threads |-> IF t = Main THEN <<c>> ELSE <<>>]
      BY DEF Init
    <3>2. \A t \in Threads : (IF t = Main THEN <<c>> ELSE <<>>) \in Seq(Calls)
      BY <1>3
    <3> QED
      BY <3>1, <3>2
  <2>2. ptrs \in [Scopes -> Nat]
    BY <1>2
  <2> QED
    BY <1>0, <2>1, <2>2 DEF Init, TypeOK
<1>7. CountInv
  <2> SUFFICES ASSUME NEW k \in Scopes
               PROVE  /\ IsFiniteSet(Holding(k))
                      /\ ptrs[k] = Cardinality(Holding(k)) + Rest(k) + Data(k)
    BY DEF CountInv
  <2>1. k > 0 => k \in Nested
    BY <1>0 DEF Scopes, Nested
  <2>2. Rest(k) = 0
    BY <2>1 DEF Init, Rest, One
  <2>3. Data(k) = 0
    <3>1. k < Depth => k + 1 \in Scopes /\ k + 1 # 0
      BY <1>0 DEF Scopes
    <3> QED
      BY <1>2, <3>1 DEF Data, One
  <2>4. \A t \in Threads : \A n : <<t, n>> \in Holding(k) <=> (t = Main /\ n = 1 /\ k = 0)
    <3> TAKE t \in Threads
    <3> TAKE n
    <3>1. Holds(c, k) <=> k = 0
      BY <1>1 DEF Holds
    <3>2. Has(t, n, k) <=> (t = Main /\ n = 1 /\ k = 0)
      BY <1>4, <1>5, <3>1 DEF Has
    <3> QED
      BY <3>2, HoldingIs
  <2>5. \A x \in Holding(k) : \E t \in Threads : \E n : x = <<t, n>>
    BY HoldingIs
  <2>6. CASE k = 0
    <3>1. Holding(k) = {<<Main, 1>>}
      BY <1>0, <2>4, <2>5, <2>6
    <3>2. IsFiniteSet(Holding(k)) /\ Cardinality(Holding(k)) = 1
      BY <3>1, FS_Singleton
    <3> QED
      BY <1>2, <2>2, <2>3, <2>6, <3>2
  <2>7. CASE k # 0
    <3>1. Holding(k) = {}
      BY <2>4, <2>5, <2>7
    <3>2. IsFiniteSet(Holding(k)) /\ Cardinality(Holding(k)) = 0
      BY <3>1, FS_EmptySet
    <3> QED
      BY <1>2, <2>2, <2>3, <2>7, <3>2
  <2> QED
    BY <2>6, <2>7
<1>8. LivingInv
  <2> SUFFICES ASSUME NEW k \in Scopes, NEW j \in 0..k, ptrs[k] > 0
               PROVE  ptrs[j] > 0
    BY DEF LivingInv
  <2>1. k = 0
    BY <1>2
  <2> QED
    BY <2>1
<1>9. UnusedInv /\ DeliveredInv /\ SettledInv /\ StoredInv /\ WrappedInv /\ PanicInv
  <2>1. \A k \in Nested : k # 0 /\ (k > 1 => k - 1 \in Nested)
    BY <1>0 DEF Nested
  <2> QED
    BY <1>0, <2>1 DEF Init, UnusedInv, DeliveredInv, SettledInv, StoredInv, WrappedInv, PanicInv
<1>10. FrameInv
  <2>1. FrameFits(Main, 1)
    BY <1>1, <1>4 DEF FrameFits, Init
  <2> QED
    BY <1>5, <2>1 DEF FrameInv
<1>11. DropOnce
  BY <1>1, <1>4, <1>5 DEF DropOnce, IsDrop
<1> QED
  BY <1>6, <1>7, <1>8, <1>9, <1>10, <1>11 DEF NestInv

LEMMA NextNest ==
  ASSUME NestInv, [Next]_vars
  PROVE  NestInv'
<1>1. CASE UNCHANGED vars
  <2>1. UNCHANGED <<stack, aborted, ptrs, flag, signal, rcv, refs, home, ready, wrapped,
                    delivered, result, panicked>>
    BY <1>1 DEF vars, scopes
  <2>2. /\ refs' \in [Nested -> 0..MaxRefs] /\ home' \in [Nested -> Threads] /\ aborted' \in BOOLEAN
        /\ \A j \in Nested : refs'[j] > 0 <=> refs[j] > 0
    BY <2>1 DEF NestInv, TypeOK
  <2> QED
    BY <2>1, <2>2, IdleKeeps
<1>2. ASSUME NEW t \in Threads, UserStep(t)
      PROVE  NestInv'
  <2>1. ASSUME NEW k \in Scopes, Wrap(t, k) \/ Invoke(t, k, "user") \/ Invoke(t, k, "start")
        PROVE  NestInv'
    BY <2>1, WrapKeeps, InvokeKeeps
  <2>2. ASSUME NEW k \in Nested, Nest(t, k) \/ CloneRef(t, k) \/ DropRef(t, k) \/ DropRcv(t, k)
        PROVE  NestInv'
    BY <2>2, NestKeeps, CloneRefKeeps, DropRefKeeps, DropRcvKeeps
  <2>3. ASSUME NEW k \in Nested, NEW kind \in Kinds, Signal(t, k, kind)
        PROVE  NestInv'
    BY <2>3, SignalKeeps
  <2> QED
    BY <1>2, <2>1, <2>2, <2>3, PanicKeeps, EndBodyKeeps, EndSetValueKeeps, EndClosureKeeps,
       EndDiscardKeeps, EndForwardKeeps DEF UserStep
<1>3. ASSUME NEW t \in Threads, LibraryStep(t)
      PROVE  NestInv'
  BY <1>3, DropSelfKeeps, DropDataKeeps, DiscardKeeps, EndKeeps, DropPanickedKeeps, DropSilentKeeps,
     ForwardKeeps, DropOuterKeeps, DropReceiverKeeps DEF LibraryStep
<1> QED
  BY <1>1, <1>2, <1>3 DEF Next

\* The count of every scope is that of what holds it, a scope lives in living scopes, the
\* data of a scope is dropped once, its receiver is called or dropped after the last
\* pointer and by whoever drops the data, and a panic is always known to a scope that
\* will pass it on or to a call that will catch it.
THEOREM NestInvariant == Spec => []NestInv
<1>1. Init => NestInv
  BY InitNest
<1>2. NestInv /\ [Next]_vars => NestInv'
  BY NextNest
<1> QED
  BY <1>1, <1>2, PTL DEF Spec

LEMMA NestInvDangles ==
  ASSUME NestInv
  PROVE  NothingDangles
<1>1. TypeOK /\ CountInv /\ LivingInv /\ DeliveredInv
  BY DEF NestInv
<1>2. Depth \in Nat /\ Nested \subseteq Scopes
  BY NestedScopeAssumption DEF Nested, Scopes
<1>3. ASSUME NEW c \in AllCalls, c.pc = "user", NEW j \in 0..CodeLevel(c)
      PROVE  ptrs[j] > 0
  <2>0. PICK t \in Threads : \E i \in 1..Len(stack[t]) : c = stack[t][i]
    BY DEF AllCalls
  <2>1. PICK i \in 1..Len(stack[t]) : c = stack[t][i]
    BY <2>0
  <2>2. PICK n \in 1..Height(t) : Frame(t, n) = c
    <3>1. Len(stack[t]) \in Nat
      BY <1>1, TopOfStack DEF Height, TypeOK, IsStack
    <3>2. Len(stack[t]) + 1 - i \in 1..Len(stack[t]) /\ Len(stack[t]) + 1 - (Len(stack[t]) + 1 - i) = i
      BY <3>1
    <3> QED
      BY <2>1, <3>2 DEF Height, Frame, Nth
  <2>3. CodeLevel(c) \in Scopes /\ ptrs[CodeLevel(c)] > 0
    BY <1>3, <2>2, CodeHolds
  <2> QED
    BY <1>1, <1>3, <2>3 DEF LivingInv
<1>4. ASSUME NEW k \in Scopes, ready[k] > 0, NEW j \in 0..k
      PROVE  ptrs[j] > 0
  <2>1. ptrs[k] > 0
    BY <1>1, <1>4, RestLives
  <2> QED
    BY <1>1, <2>1 DEF LivingInv
<1>5. ASSUME NEW k \in Nested, refs[k] > 0
      PROVE  ptrs[k] > 0 /\ delivered[k] = "none"
  <2>1. k \in Scopes /\ k > 0
    BY <1>2 DEF Nested
  <2>2. ptrs[k] > 0
    BY <1>1, <1>5, <2>1, RestLives
  <2>3. ptrs[k] # 0
    BY <2>2
  <2> QED
    BY <1>1, <2>2, <2>3 DEF DeliveredInv
<1> QED
  BY <1>3, <1>4, <1>5 DEF NothingDangles

\* Whatever the interleaving: code of a chain runs, and a closure waits, only while every
\* scope around it has a pointer, and no ScopedRef outlives the value it points to, which
\* is what the transmute in new_scope and the raw pointers of refs.rs rely on.
THEOREM NothingEverDangles == Spec => []NothingDangles
<1>1. NestInv => NothingDangles
  BY NestInvDangles
<1> QED
  BY <1>1, NestInvariant, PTL

LEMMA NestInvPanic ==
  ASSUME NestInv
  PROVE  PanicReported
<1>1. TypeOK /\ LivingInv /\ FrameInv /\ PanicInv /\ IsStack
  BY DEF NestInv, TypeOK, IsStack
<1> SUFFICES ASSUME ptrs[0] = 0, panicked
             PROVE  flag[0] \/ result = "err"
  BY DEF PanicReported, ScopeOver
\* With the outermost scope all the others are over: there is no code to run.
<1>2. \A k \in Scopes : ~(ptrs[k] > 0)
  <2> TAKE k \in Scopes
  <2>1. 0 \in 0..k
    BY NestedScopeAssumption DEF Scopes
  <2> QED
    BY <1>1, <2>1 DEF LivingInv
<1>3. ASSUME NEW t \in Threads, NEW n \in 1..Height(t), Frame(t, n).pc = "user"
      PROVE  FALSE
  <2>1. CodeLevel(Frame(t, n)) \in Scopes /\ ptrs[CodeLevel(Frame(t, n))] > 0
    BY <1>3, CodeHolds
  <2> QED
    BY <1>2, <2>1
<1>4. ASSUME NEW t \in Threads, NEW n, Catches(t, n)
      PROVE  FALSE
  <2>1. n \in 1..Height(t) /\ Frame(t, n).what = "set_value"
    BY <1>3, <1>4 DEF Catches
  <2>2. n > 1 /\ Frame(t, n - 1).pc = "user"
    BY <1>1, <2>1 DEF FrameInv, FrameFits
  <2>3. n - 1 \in 1..Height(t)
    <3>1. Height(t) \in Nat
      BY <1>1, TopOfStack
    <3> QED
      BY <2>1, <2>2, <3>1
  <2> QED
    BY <1>3, <2>2, <2>3
\* Nor does a drop have a scope to tell: it would hold it.
<1>5. ASSUME NEW t \in Threads, NEW n, NEW k \in Nested, Tells(t, n, k)
      PROVE  FALSE
  <2>1. n \in 1..Height(t) /\ Frame(t, n).what = "drop" /\ Frame(t, n).lvl = k /\ Frame(t, n).pc = "start"
    BY <1>5 DEF Tells, IsDrop
  <2>2. k - 1 \in Scopes
    BY NestedScopeAssumption DEF Nested, Scopes
  <2>3. Has(t, n, k - 1)
    BY <2>1 DEF Has, Holds
  <2>4. ptrs[k - 1] > 0
    BY <2>2, <2>3, HolderLives DEF NestInv
  <2> QED
    BY <1>2, <2>2, <2>4
<1>6. \A k \in Nested : k \in Scopes
  BY DEF Nested, Scopes
<1> QED
  BY <1>1, <1>2, <1>4, <1>5, <1>6 DEF PanicInv, PanicKnown

\* A panic at any depth and on any thread is marked in the outermost scope, or is the
\* error of the scope function, before the last pointer to that scope goes.
THEOREM PanicGetsOut == Spec => []PanicReported
<1>1. NestInv => PanicReported
  BY NestInvPanic
<1> QED
  BY <1>1, NestInvariant, PTL

LEMMA NestInvSignal ==
  ASSUME NestInv
  PROVE  SignalPassedOn
<1>1. TypeOK /\ CountInv /\ LivingInv /\ FrameInv /\ StoredInv /\ DeliveredInv /\ SettledInv
  BY DEF NestInv
<1> SUFFICES ASSUME ptrs[0] = 0, NEW k \in Nested, rcv[k] # "none"
             PROVE  CASE flag[k] -> delivered[k] = "dropped" \/ (k = 1 /\ delivered[k] = "none")
                      [] ~flag[k] /\ signal[k] = "none" -> delivered[k] = "dropped"
                      [] OTHER -> delivered[k] = signal[k]
  BY DEF SignalPassedOn, ScopeOver
<1>2. \A j \in Scopes : ~(ptrs[j] > 0)
  <2> TAKE j \in Scopes
  <2>1. 0 \in 0..j
    BY NestedScopeAssumption DEF Scopes
  <2> QED
    BY <1>1, <2>1 DEF LivingInv
<1>3. /\ k \in Scopes /\ k - 1 \in Scopes /\ (k # 1 => k > 1 /\ k - 1 \in Nested /\ k - 1 > 0)
      /\ ptrs[k] = 0
  <2>1. k \in Scopes /\ k - 1 \in Scopes /\ (k # 1 => k > 1 /\ k - 1 \in Nested /\ k - 1 > 0)
    BY NestedScopeAssumption DEF Scopes, Nested
  <2>2. ptrs[k] \in Nat
    BY <1>1, <2>1 DEF TypeOK
  <2> QED
    BY <1>2, <2>1, <2>2
\* Only DropReceiver of the outermost one can still be to come.
<1>4. delivered[k] = "none" => k = 1 /\ flag[k]
  <2> HAVE delivered[k] = "none"
  <2>1. k = 1
    <3>1. k # 1 => rcv[k - 1] = "stored"
      BY <1>1, <1>3 DEF StoredInv
    <3> QED
      BY <1>1, <1>2, <1>3, <3>1, RestLives
  <2>2. PICK t \in Threads : \E n : OnTheWay(t, n, k)
    BY <1>1, <1>3 DEF SettledInv
  <2>3. PICK n : OnTheWay(t, n, k)
    BY <2>2
  <2>4. /\ n \in 1..Height(t) /\ Frame(t, n).what = "drop" /\ Frame(t, n).lvl = k
        /\ Frame(t, n).pc \in {"start", "outer", "rcv"}
    BY <2>3 DEF OnTheWay, IsDrop
  <2>5. ~Has(t, n, k - 1)
    BY <1>1, <1>2, <1>3, HolderLives
  <2>6. Frame(t, n).pc = "rcv"
    BY <2>4, <2>5 DEF Has, Holds
  <2> QED
    BY <1>1, <2>1, <2>4, <2>6 DEF FrameInv, FrameFits
<1>5. delivered[k] # "none" =>
        delivered[k] = IF flag[k] \/ signal[k] = "none" THEN "dropped" ELSE signal[k]
  BY <1>1 DEF DeliveredInv
<1>6. CASE flag[k]
  <2>1. delivered[k] = "dropped" \/ (k = 1 /\ delivered[k] = "none")
    BY <1>4, <1>5, <1>6
  <2> QED
    BY <1>6, <2>1
<1>7. CASE ~flag[k] /\ signal[k] = "none"
  <2>1. delivered[k] = "dropped"
    BY <1>4, <1>5, <1>7
  <2> QED
    BY <1>7, <2>1
<1>8. CASE ~flag[k] /\ signal[k] # "none"
  <2>1. delivered[k] = signal[k]
    BY <1>4, <1>5, <1>8
  <2> QED
    BY <1>8, <2>1
<1> QED
  BY <1>6, <1>7, <1>8

\* When the outermost scope is over, every receiver has had the signal of the chain that
\* ran in its scope, or was dropped if there was none, or a panic; only the outermost may
\* then still wait for DropReceiver, after a panic.
THEOREM SignalIsPassedOn == Spec => []SignalPassedOn
<1>1. NestInv => SignalPassedOn
  BY NestInvSignal
<1> QED
  BY <1>1, NestInvariant, PTL
=============================================================================
