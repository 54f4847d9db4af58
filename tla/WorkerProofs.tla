---------------------------- MODULE WorkerProofs ----------------------------
(***************************************************************************)
(* Proofs about Worker, for any number of tasks and users.                 *)
(***************************************************************************)
EXTENDS Worker, FiniteSetTheorems, SequenceTheorems, TLAPS

----------------------------------------------------------------------------
(* Sequences. *)

LEMMA AppendFacts ==
  ASSUME NEW S, NEW s \in Seq(S), NEW e \in S
  PROVE  /\ Append(s, e) \in Seq(S) /\ Len(Append(s, e)) = Len(s) + 1
         /\ Append(s, e)[Len(s) + 1] = e
         /\ \A i \in 1..Len(s) : Append(s, e)[i] = s[i]
         /\ ToSet(Append(s, e)) = ToSet(s) \cup {e}
<1> DEFINE r == Append(s, e)
<1>1. /\ r \in Seq(S) /\ Len(r) = Len(s) + 1 /\ r[Len(s) + 1] = e
      /\ \A i \in 1..Len(s) : r[i] = s[i]
  OBVIOUS
<1>2. Len(s) \in Nat /\ DOMAIN s = 1..Len(s) /\ DOMAIN r = 1..(Len(s) + 1)
  BY <1>1
<1> HIDE DEF r
<1>3. ToSet(r) = ToSet(s) \cup {e}
  BY <1>1, <1>2 DEF ToSet
<1> QED
  BY <1>1, <1>3 DEF r

LEMMA TailFacts ==
  ASSUME NEW S, NEW s \in Seq(S), s # <<>>
  PROVE  /\ Tail(s) \in Seq(S) /\ Len(s) \in Nat \ {0} /\ Len(Tail(s)) = Len(s) - 1
         /\ Head(s) = s[1] /\ Head(s) \in S
         /\ \A i \in 1..(Len(s) - 1) : Tail(s)[i] = s[i + 1]
         /\ ToSet(s) = {Head(s)} \cup ToSet(Tail(s))
<1> DEFINE r == Tail(s)
<1>1. /\ r \in Seq(S) /\ Len(s) \in Nat \ {0} /\ Len(r) = Len(s) - 1
      /\ Head(s) = s[1] /\ s[1] \in S
      /\ \A i \in 1..(Len(s) - 1) : r[i] = s[i + 1]
  OBVIOUS
<1>2. DOMAIN s = 1..Len(s) /\ DOMAIN r = 1..(Len(s) - 1)
  BY <1>1
<1> HIDE DEF r
<1>3. \A i \in 1..Len(s) : i = 1 \/ (i - 1 \in 1..(Len(s) - 1) /\ s[i] = r[i - 1])
  BY <1>1
<1>4. \A i \in 1..(Len(s) - 1) : i + 1 \in 1..Len(s)
  BY <1>1
<1>5. ToSet(s) \subseteq {s[1]} \cup ToSet(r)
  BY <1>2, <1>3 DEF ToSet
<1>6. ToSet(r) \subseteq ToSet(s) /\ s[1] \in ToSet(s)
  BY SMTT(30), <1>1, <1>2, <1>4 DEF ToSet
<1> QED
  BY <1>1, <1>5, <1>6 DEF r

LEMMA EmptyFacts == ToSet(<<>>) = {}
BY DEF ToSet

\* Moving the first element over to the end of what is before it changes nothing.
LEMMA MoveOver ==
  ASSUME NEW S, NEW r \in Seq(S), NEW s \in Seq(S), s # <<>>
  PROVE  Append(r, Head(s)) \o Tail(s) = r \o s
<1> DEFINE a == Append(r, Head(s))
           b == Tail(s)
<1>1. /\ b \in Seq(S) /\ Len(s) \in Nat \ {0} /\ Len(b) = Len(s) - 1
      /\ Head(s) = s[1] /\ Head(s) \in S
      /\ \A i \in 1..(Len(s) - 1) : b[i] = s[i + 1]
  BY TailFacts
<1>2. /\ a \in Seq(S) /\ Len(a) = Len(r) + 1 /\ a[Len(r) + 1] = s[1] /\ Len(r) \in Nat
      /\ \A i \in 1..Len(r) : a[i] = r[i]
  BY <1>1, AppendFacts
<1> HIDE DEF a, b
<1>3. /\ a \o b \in Seq(S) /\ Len(a \o b) = Len(a) + Len(b)
      /\ \A i \in 1..(Len(a) + Len(b)) : (a \o b)[i] =
           IF i <= Len(a) THEN a[i] ELSE b[i - Len(a)]
  BY <1>1, <1>2, ConcatProperties
<1>4. /\ r \o s \in Seq(S) /\ Len(r \o s) = Len(r) + Len(s)
      /\ \A i \in 1..(Len(r) + Len(s)) : (r \o s)[i] =
           IF i <= Len(r) THEN r[i] ELSE s[i - Len(r)]
  BY ConcatProperties
<1> DEFINE p == a \o b
           q == r \o s
<1> HIDE DEF p, q
<1>5. Len(p) = Len(q) /\ Len(p) = Len(r) + Len(s)
  BY <1>1, <1>2, <1>3, <1>4 DEF p, q
<1>6. ASSUME NEW i \in 1..Len(p)
      PROVE  p[i] = q[i]
  <2>1. CASE i <= Len(r)
    BY <1>1, <1>2, <1>3, <1>4, <1>5, <2>1 DEF p, q
  <2>2. CASE i = Len(r) + 1
    BY <1>1, <1>2, <1>3, <1>4, <1>5, <2>2 DEF p, q
  <2>3. CASE i > Len(r) + 1
    <3>1. /\ i - Len(a) \in 1..(Len(s) - 1) /\ i - Len(r) = (i - Len(a)) + 1
          /\ ~(i <= Len(a)) /\ ~(i <= Len(r)) /\ i \in 1..(Len(a) + Len(b))
          /\ i \in 1..(Len(r) + Len(s))
      BY <1>1, <1>2, <1>5, <2>3
    <3>2. p[i] = b[i - Len(a)] /\ q[i] = s[i - Len(r)]
      BY <1>3, <1>4, <3>1 DEF p, q
    <3> QED
      BY <1>1, <3>1, <3>2
  <2> QED
    BY <1>2, <2>1, <2>2, <2>3
<1>7. p \in Seq(S) /\ q \in Seq(S)
  BY <1>3, <1>4 DEF p, q
<1>8. p = q
  BY <1>5, <1>6, <1>7, SeqEqual
<1> QED
  BY <1>8 DEF p, q, a, b

LEMMA ConcatAppend ==
  ASSUME NEW S, NEW r \in Seq(S), NEW s \in Seq(S), NEW e \in S
  PROVE  r \o Append(s, e) = Append(r \o s, e)
<1>1. Append(s, e) = s \o <<e>> /\ <<e>> \in Seq(S)
  OBVIOUS
<1>2. Append(r \o s, e) = (r \o s) \o <<e>>
  OBVIOUS
<1> QED
  BY <1>1, <1>2, ConcatAssociative

\* What is inserted between two sequences moves the second one up.
LEMMA Inserted ==
  ASSUME NEW S, NEW r \in Seq(S), NEW s \in Seq(S), NEW e \in S
  PROVE  /\ Len(Append(r, e) \o s) = Len(r \o s) + 1
         /\ Append(r, e) \o s \in Seq(S) /\ r \o s \in Seq(S) /\ Len(r) \in 0..Len(r \o s)
         /\ (Append(r, e) \o s)[Len(r) + 1] = e
         /\ \A i \in 1..Len(r) : (Append(r, e) \o s)[i] = (r \o s)[i]
         /\ \A i \in (Len(r) + 1)..Len(r \o s) : (Append(r, e) \o s)[i + 1] = (r \o s)[i]
<1> DEFINE a == Append(r, e)
<1>2. /\ a \in Seq(S) /\ Len(a) = Len(r) + 1 /\ a[Len(r) + 1] = e /\ Len(r) \in Nat
      /\ \A i \in 1..Len(r) : a[i] = r[i] /\ Len(s) \in Nat
  BY AppendFacts
<1> HIDE DEF a
<1>3. /\ a \o s \in Seq(S) /\ Len(a \o s) = Len(a) + Len(s)
      /\ \A i \in 1..(Len(a) + Len(s)) : (a \o s)[i] =
           IF i <= Len(a) THEN a[i] ELSE s[i - Len(a)]
  BY <1>2, ConcatProperties
<1>4. /\ r \o s \in Seq(S) /\ Len(r \o s) = Len(r) + Len(s)
      /\ \A i \in 1..(Len(r) + Len(s)) : (r \o s)[i] =
           IF i <= Len(r) THEN r[i] ELSE s[i - Len(r)]
  BY ConcatProperties
<1>0. Len(s) \in Nat
  OBVIOUS
<1> DEFINE p == a \o s
           q == r \o s
<1> HIDE DEF p, q
<1>5. Len(p) = Len(q) + 1 /\ Len(r) \in 0..Len(q) /\ Len(q) = Len(r) + Len(s)
  BY <1>0, <1>2, <1>3, <1>4 DEF p, q
<1>6. p[Len(r) + 1] = e /\ \A i \in 1..Len(r) : p[i] = q[i]
  BY <1>0, <1>2, <1>3, <1>4 DEF p, q
<1>7. ASSUME NEW i \in (Len(r) + 1)..Len(q)
      PROVE  p[i + 1] = q[i]
  <2>1. /\ (i + 1) - Len(a) = i - Len(r) /\ ~(i + 1 <= Len(a)) /\ ~(i <= Len(r))
        /\ i + 1 \in 1..(Len(a) + Len(s)) /\ i \in 1..(Len(r) + Len(s))
    BY <1>0, <1>2, <1>5
  <2>2. p[i + 1] = s[(i + 1) - Len(a)]
    BY <1>3, <2>1 DEF p
  <2>3. q[i] = s[i - Len(r)]
    BY <1>4, <2>1 DEF q
  <2> QED
    BY <2>1, <2>2, <2>3
<1>8. p \in Seq(S) /\ q \in Seq(S)
  BY <1>3, <1>4 DEF p, q
<1> QED
  BY <1>5, <1>6, <1>7, <1>8 DEF p, q, a

----------------------------------------------------------------------------
(* The inductive invariant. *)

\* Where the worker is says whether a task runs, whether it is at its end, and whether
\* xtc still has its receiver.
PhaseInv ==
  /\ pc = "running" <=> running # <<>>
  /\ ended # "no" <=> pc \in {"leaving", "over"}
  /\ has_receiver <=> pc # "over"
  /\ ended = "ok" => call = "run"

\* A task that was not posted is nowhere.
FreshInv ==
  fresh \cap (ToSet(ran) \cup ToSet(stc) \cup ToSet(xtc) \cup ToSet(running)) = {}

\* The way of the tasks: those that were run, and the two queues behind them.
Line == ran \o stc \o xtc

\* sent[j] is in the line, and what was sent before it is before it there.
Placed(j) ==
  \E l \in 1..Len(Line) :
    /\ Line[l] = sent[j]
    /\ \A i \in 1..(j - 1) : \E k \in 1..(l - 1) : Line[k] = sent[i]

LineInv == ended = "no" =>
  /\ \A k, l \in 1..Len(Line) : Line[k] = Line[l] => k = l
  /\ \A j \in 1..Len(sent) : Placed(j)

WorkerInv ==
  /\ TypeOK /\ PhaseInv /\ FreshInv /\ LineInv
  /\ SendersCounted /\ ReturnsDrained /\ SentOrderKept /\ AssertHolds

----------------------------------------------------------------------------
(* What the invariant says of a state. *)

LEMMA Counts ==
  ASSUME TypeOK
  PROVE  /\ IsFiniteSet(cross) /\ Cardinality(cross) \in Nat
         /\ Cardinality(cross) = 0 <=> cross = {}
         /\ Len(xtc) \in Nat /\ Len(stc) \in Nat
         /\ Len(xtc) = 0 <=> xtc = <<>>
         /\ Len(stc) = 0 <=> stc = <<>>
         /\ Len(running) = IF running = <<>> THEN 0 ELSE 1
<1>1. IsFiniteSet(cross)
  BY WorkerAssumption, FS_Subset DEF TypeOK
<1>2. Cardinality(cross) \in Nat /\ (Cardinality(cross) = 0 <=> cross = {})
  BY <1>1, FS_CardinalityType, FS_EmptySet
<1>3. xtc \in Seq(Tasks) /\ stc \in Seq(Tasks)
  BY DEF TypeOK
<1>4. Len(xtc) \in Nat /\ Len(stc) \in Nat
      /\ (Len(xtc) = 0 <=> xtc = <<>>) /\ (Len(stc) = 0 <=> stc = <<>>)
  BY <1>3
<1>5. Len(running) = IF running = <<>> THEN 0 ELSE 1
  BY DEF TypeOK
<1> QED
  BY <1>1, <1>2, <1>4, <1>5

LEMMA LineFacts ==
  ASSUME TypeOK
  PROVE  /\ ran \in Seq(Tasks) /\ stc \in Seq(Tasks) /\ xtc \in Seq(Tasks) /\ sent \in Seq(Tasks)
         /\ Len(ran) \in Nat /\ Len(sent) \in Nat
         /\ DOMAIN ran = 1..Len(ran) /\ DOMAIN sent = 1..Len(sent)
         /\ ran \o stc \in Seq(Tasks) /\ Line \in Seq(Tasks)
         /\ Len(Line) = Len(ran) + Len(stc) + Len(xtc)
         /\ \A k \in 1..Len(ran) : k \in 1..Len(Line) /\ Line[k] = ran[k]
         /\ \A k \in 1..Len(Line) : k > Len(ran) => Line[k] \in ToSet(stc) \cup ToSet(xtc)
         /\ \A k \in 1..Len(Line) : Line[k] \notin fresh \/ ~FreshInv
<1>1. ran \in Seq(Tasks) /\ stc \in Seq(Tasks) /\ xtc \in Seq(Tasks) /\ sent \in Seq(Tasks)
  BY DEF TypeOK
<1>2. /\ Len(ran) \in Nat /\ Len(sent) \in Nat /\ Len(stc) \in Nat /\ Len(xtc) \in Nat
      /\ DOMAIN ran = 1..Len(ran) /\ DOMAIN sent = 1..Len(sent)
      /\ DOMAIN stc = 1..Len(stc) /\ DOMAIN xtc = 1..Len(xtc)
  BY <1>1
<1> DEFINE p == ran \o stc
<1>3. /\ p \in Seq(Tasks) /\ Len(p) = Len(ran) + Len(stc)
      /\ \A i \in 1..(Len(ran) + Len(stc)) : p[i] =
           IF i <= Len(ran) THEN ran[i] ELSE stc[i - Len(ran)]
  BY <1>1, ConcatProperties
<1> HIDE DEF p
<1>4. /\ p \o xtc \in Seq(Tasks) /\ Len(p \o xtc) = Len(p) + Len(xtc)
      /\ \A i \in 1..(Len(p) + Len(xtc)) : (p \o xtc)[i] =
           IF i <= Len(p) THEN p[i] ELSE xtc[i - Len(p)]
  <2>1. p \in Seq(Tasks) /\ xtc \in Seq(Tasks)
    BY <1>1, <1>3
  <2> QED
    BY <2>1, ConcatProperties
<1>5. Line = p \o xtc
  BY DEF Line, p
<1>6. ASSUME NEW k \in 1..Len(ran)
      PROVE  k \in 1..Len(Line) /\ Line[k] = ran[k]
  BY <1>2, <1>3, <1>4, <1>5
<1>7. ASSUME NEW k \in 1..Len(Line), k > Len(ran)
      PROVE  Line[k] \in ToSet(stc) \cup ToSet(xtc)
  <2>1. CASE k <= Len(p)
    <3>1. k - Len(ran) \in DOMAIN stc
      BY <1>2, <1>3, <1>7, <2>1
    <3>2. Line[k] = stc[k - Len(ran)]
      BY <1>2, <1>3, <1>4, <1>5, <1>7, <2>1
    <3> QED
      BY <3>1, <3>2 DEF ToSet
  <2>2. CASE k > Len(p)
    <3>1. k - Len(p) \in DOMAIN xtc
      BY <1>2, <1>3, <1>4, <1>5, <1>7, <2>2
    <3>2. Line[k] = xtc[k - Len(p)]
      BY <1>2, <1>3, <1>4, <1>5, <1>7, <2>2
    <3> QED
      BY <3>1, <3>2 DEF ToSet
  <2> QED
    BY <1>2, <1>3, <2>1, <2>2
<1>8. ASSUME NEW k \in 1..Len(Line), FreshInv
      PROVE  Line[k] \notin fresh
  <2>1. CASE k <= Len(ran)
    <3>1. Line[k] \in ToSet(ran)
      BY <1>2, <1>6, <2>1 DEF ToSet
    <3> QED
      BY <1>8, <3>1 DEF FreshInv
  <2>2. CASE k > Len(ran)
    BY <1>7, <1>8, <2>2 DEF FreshInv
  <2> QED
    BY <1>2, <2>1, <2>2
<1>9. Len(Line) = Len(ran) + Len(stc) + Len(xtc)
  BY <1>2, <1>3, <1>4, <1>5
<1> QED
  BY <1>1, <1>2, <1>3, <1>4, <1>5, <1>6, <1>7, <1>8, <1>9 DEF p

\* While the worker is not at its end, the order of the line is that of SentOrderKept.
LEMMA OrderOfLine ==
  ASSUME TypeOK, LineInv, ended = "no"
  PROVE  SentOrderKept
<1> SUFFICES ASSUME NEW i \in DOMAIN sent, NEW j \in DOMAIN sent, i < j,
                    NEW m \in 1..Len(ran), ran[m] = sent[j]
             PROVE  \E k, l \in DOMAIN ran : ran[k] = sent[i] /\ ran[l] = sent[j] /\ k < l
  BY DEF SentOrderKept, Contains
<1>1. PICK l \in 1..Len(Line) :
        /\ Line[l] = sent[j]
        /\ \A h \in 1..(j - 1) : \E k \in 1..(l - 1) : Line[k] = sent[h]
  BY LineFacts DEF LineInv, Placed
<1>2. i \in 1..(j - 1)
  BY LineFacts
<1>3. PICK k \in 1..(l - 1) : Line[k] = sent[i]
  BY <1>1, <1>2
<1>4. l = m
  BY <1>1, LineFacts DEF LineInv
<1>5. k \in 1..Len(ran) /\ k < m /\ ran[k] = sent[i]
  BY <1>3, <1>4, LineFacts
<1> QED
  BY <1>5, LineFacts

----------------------------------------------------------------------------
(* The invariant is preserved, part by part. *)

LEMMA PhaseStep ==
  ASSUME WorkerInv, Next
  PROVE  PhaseInv' /\ AssertHolds'
<1> USE DEF WorkerInv, PhaseInv, AssertHolds
<1>1. CASE PollEvent \/ PollNothing \/ SpuriousEvent
  BY <1>1 DEF PollEvent, PollNothing, SpuriousEvent, MayBlock
<1>2. CASE Move \/ Drained \/ Empty \/ Disconnected
  BY <1>2 DEF Move, Drained, Empty, Disconnected, NextTurn
<1>3. CASE RunTask
  <2>1. running' = <<Head(stc)>> /\ running' # <<>>
    BY <1>3 DEF RunTask
  <2> QED
    BY <1>3, <2>1 DEF RunTask
<1>11. CASE TaskReturns
  BY <1>11 DEF TaskReturns, NextTurn
<1>4. CASE AssertFails \/ DropReceiver
  BY <1>4 DEF AssertFails, DropReceiver
<1>5. CASE TaskPanics \/ DropWorker
  BY <1>5 DEF TaskPanics, DropWorker, End
<1>6. CASE DropHome
  BY <1>6 DEF DropHome
<1>7. ASSUME NEW u \in Users, NEW t \in Tasks, Send(u, t) \/ SendFails(u, t)
      PROVE  PhaseInv' /\ AssertHolds'
  BY <1>7 DEF Send, SendFails, pools
<1>8. ASSUME NEW u \in Users, Share(u) \/ DropCross(u)
      PROVE  PhaseInv' /\ AssertHolds'
  BY <1>8 DEF Share, DropCross
<1>9. ASSUME NEW t \in Tasks, Execute(t) \/ ExecuteFails(t)
      PROVE  PhaseInv' /\ AssertHolds'
  BY <1>9 DEF Execute, ExecuteFails, pools
<1>10. ASSUME NEW how \in {"run", "one", "block"}, Call(how)
       PROVE  PhaseInv' /\ AssertHolds'
  BY <1>10 DEF Call
<1> QED
  BY <1>1, <1>2, <1>3, <1>4, <1>5, <1>6, <1>7, <1>8, <1>9, <1>10,
     <1>11 DEF Next, Proceed

\* The queues and what goes with them keep their types.
LEMMA QueuesStep ==
  ASSUME WorkerInv, Next
  PROVE  /\ xtc' \in Seq(Tasks) /\ stc' \in Seq(Tasks)
         /\ sent' \in Seq(Tasks) /\ ran' \in Seq(Tasks)
         /\ running' \in {<<>>} \cup {<<t>> : t \in Tasks}
         /\ fresh' \subseteq Tasks
<1> DEFINE P == /\ xtc' \in Seq(Tasks) /\ stc' \in Seq(Tasks)
                /\ sent' \in Seq(Tasks) /\ ran' \in Seq(Tasks)
                /\ running' \in {<<>>} \cup {<<t>> : t \in Tasks}
                /\ fresh' \subseteq Tasks
<1> USE DEF WorkerInv, TypeOK
<1>0. /\ xtc # <<>> => Tail(xtc) \in Seq(Tasks) /\ Head(xtc) \in Tasks
      /\ stc # <<>> => Tail(stc) \in Seq(Tasks) /\ Head(stc) \in Tasks
      /\ <<>> \in Seq(Tasks)
  BY TailFacts, EmptySeq
<1>1. CASE UNCHANGED <<xtc, stc, sent, ran, running, fresh>>
  BY <1>1
<1>2. CASE Move
  BY <1>0, <1>2, AppendFacts DEF Move, history
<1>3. CASE RunTask
  BY <1>0, <1>3, AppendFacts DEF RunTask
<1>4. CASE TaskReturns
  BY <1>4 DEF TaskReturns, history
<1>5. CASE TaskPanics \/ DropWorker
  BY <1>0, <1>5 DEF TaskPanics, DropWorker, End, FreeStc, history
<1>6. CASE DropHome
  BY <1>0, <1>6 DEF DropHome, FreeStc, history
<1>7. ASSUME NEW u \in Users, NEW t \in Tasks, Send(u, t) \/ SendFails(u, t)
      PROVE  P
  <2>1. Append(xtc, t) \in Seq(Tasks) /\ Append(sent, t) \in Seq(Tasks)
    BY AppendFacts
  <2> QED
    BY <1>7, <2>1 DEF Send, SendFails
<1>8. ASSUME NEW t \in Tasks, Execute(t) \/ ExecuteFails(t)
      PROVE  P
  <2>1. Append(stc, t) \in Seq(Tasks)
    BY AppendFacts
  <2> QED
    BY <1>8, <2>1 DEF Execute, ExecuteFails
<1>9. Proceed => \/ UNCHANGED <<xtc, stc, sent, ran, running, fresh>>
                 \/ Move \/ RunTask \/ TaskReturns
  BY DEF Proceed, PollEvent, PollNothing, Drained, Empty, Disconnected, AssertFails,
         DropReceiver, history
<1>10. /\ SpuriousEvent => UNCHANGED <<xtc, stc, sent, ran, running, fresh>>
       /\ \A u \in Users : Share(u) \/ DropCross(u)
                             => UNCHANGED <<xtc, stc, sent, ran, running, fresh>>
       /\ \A how : Call(how) => UNCHANGED <<xtc, stc, sent, ran, running, fresh>>
  BY DEF SpuriousEvent, Share, DropCross, Call, history
<1> QED
  BY <1>1, <1>2, <1>3, <1>4, <1>5, <1>6, <1>7, <1>8, <1>9, <1>10 DEF Next

\* What a step may do to the count and to what it counts.
LEMMA CountStep ==
  ASSUME WorkerInv, Next
  PROVE  SendersCounted' /\ cnt_sender' \in Nat
<1> DEFINE H == IF home THEN 1 ELSE 0
           C == Cardinality(cross)
           Counted == cnt_sender = C + H + Len(xtc) + Len(stc) + Len(running)
           P == Counted' /\ cnt_sender' \in Nat
<1>w. TypeOK /\ PhaseInv /\ SendersCounted
  BY DEF WorkerInv
<1>0. /\ C \in Nat /\ H \in {0, 1}
      /\ Len(xtc) \in Nat /\ Len(stc) \in Nat /\ Len(running) \in {0, 1}
      /\ Counted /\ cnt_sender \in Nat
  <2>1. C \in Nat /\ Len(xtc) \in Nat /\ Len(stc) \in Nat /\ Len(running) \in {0, 1}
    BY <1>w, Counts
  <2>2. Counted
    BY <1>w DEF SendersCounted
  <2>3. cnt_sender \in Nat
    BY <1>w DEF TypeOK
  <2> QED
    BY <2>1, <2>2, <2>3
<1>1. /\ xtc # <<>> => Len(Tail(xtc)) = Len(xtc) - 1 /\ Len(xtc) \in Nat \ {0}
      /\ stc # <<>> => Len(Tail(stc)) = Len(stc) - 1 /\ Len(stc) \in Nat \ {0}
      /\ \A t \in Tasks : /\ Len(Append(xtc, t)) = Len(xtc) + 1
                          /\ Len(Append(stc, t)) = Len(stc) + 1
      /\ xtc # <<>> => Head(xtc) \in Tasks
  BY <1>w, TailFacts, AppendFacts DEF TypeOK
<1>2. SUFFICES P
  BY DEF SendersCounted
<1>3. /\ home' = home => H' = H
      /\ home => H = 1
      /\ ~home' => H' = 0
      /\ cross' = cross => C' = C
      /\ Len(<<>>) = 0 /\ \A t : Len(<<t>>) = 1
  OBVIOUS
<1>4. ASSUME NEW n \in Nat, Lose(n)
      PROVE  cnt_sender' = cnt_sender - n
  BY <1>4 DEF Lose
<1>5. pc = "running" <=> Len(running) = 1
  BY <1>w, Counts DEF PhaseInv
<1>v. \A v : C' = Cardinality(cross')
  OBVIOUS
<1>c. /\ \A v : v \notin cross => Cardinality(cross \cup {v}) = C + 1
      /\ \A v : v \in cross => Cardinality(cross \ {v}) = C - 1 /\ C # 0
  BY <1>w, Counts, FS_AddElement, FS_RemoveElement
<1> HIDE DEF H, C
<1>6. CASE UNCHANGED <<xtc, stc, cnt_sender, cross, home, running>>
  BY <1>0, <1>3, <1>6
<1>7. CASE Move
  <2>1. Len(xtc') = Len(xtc) - 1 /\ Len(stc') = Len(stc) + 1
    BY <1>1, <1>7 DEF Move
  <2>2. cnt_sender' = cnt_sender /\ C' = C /\ H' = H /\ Len(running') = Len(running)
    BY <1>3, <1>7 DEF Move, pools
  <2> QED
    BY <1>0, <2>1, <2>2
<1>8. CASE RunTask
  <2>1. Len(stc') = Len(stc) - 1 /\ Len(running') = 1 /\ Len(running) = 0
    BY <1>0, <1>1, <1>3, <1>5, <1>8 DEF RunTask
  <2>2. cnt_sender' = cnt_sender /\ C' = C /\ H' = H /\ Len(xtc') = Len(xtc)
    BY <1>3, <1>8 DEF RunTask, pools
  <2> QED
    BY <1>0, <2>1, <2>2
<1>9. CASE TaskReturns
  <2>1. Len(running) = 1 /\ Len(running') = 0 /\ cnt_sender' = cnt_sender - 1
    BY <1>3, <1>4, <1>5, <1>9 DEF TaskReturns
  <2>2. C' = C /\ H' = H /\ Len(xtc') = Len(xtc) /\ Len(stc') = Len(stc)
    BY <1>3, <1>9 DEF TaskReturns, pools
  <2> QED
    <3>1. cnt_sender = C + H + Len(xtc) + Len(stc) + 1
      BY <1>0, <2>1
    <3> DEFINE k == C + H + Len(xtc) + Len(stc)
    <3>2. k \in Nat /\ cnt_sender = k + 1
      BY <1>0, <3>1
    <3>3. k' = k
      BY <2>2
    <3> HIDE DEF k
    <3>4. cnt_sender' = k
      BY <2>1, <3>2
    <3>5. cnt_sender' \in Nat /\ cnt_sender' = k' + 0
      BY <3>2, <3>3, <3>4
    <3> QED
      BY <2>1, <3>5 DEF k
<1>10. ASSUME NEW how, NEW n \in {0, 1}, End(how, n), Len(running) = n
       PROVE  P
  <2>1. Len(running') = 0 /\ C' = C /\ H' = H /\ Len(xtc') = Len(xtc)
    BY <1>3, <1>10 DEF End, pools
  <2>2. CASE home
    <3>1. cnt_sender' = cnt_sender - n /\ Len(stc') = Len(stc)
      BY <1>4, <1>10, <2>2 DEF End
    <3> QED
      BY <1>0, <1>10, <2>1, <3>1
  <2>3. CASE ~home
    <3>1. Lose(n + Len(stc)) /\ Len(stc') = 0
      BY <1>3, <1>10, <2>3 DEF End, FreeStc
    <3>2. cnt_sender' = cnt_sender - (n + Len(stc))
      BY <3>1 DEF Lose
    <3> QED
      BY <1>0, <1>10, <2>1, <3>1, <3>2
  <2> QED
    BY <2>2, <2>3
<1>11. CASE DropWorker
  <2>1. Len(running) = 0 /\ \E how : End(how, 0)
    BY <1>0, <1>5, <1>11 DEF DropWorker
  <2> QED
    BY <1>10, <2>1
<1>12. CASE TaskPanics
  <2>1. Len(running) = 1 /\ \E how : End(how, 1)
    BY <1>5, <1>12 DEF TaskPanics
  <2> QED
    BY <1>10, <2>1
<1>13. CASE DropHome
  <2>1. H = 1 /\ H' = 0 /\ C' = C /\ Len(xtc') = Len(xtc) /\ Len(running') = Len(running)
    BY <1>3, <1>13 DEF DropHome
  <2>2. CASE pc = "over"
    <3>1. Lose(1 + Len(stc)) /\ Len(stc') = 0
      BY <1>3, <1>13, <2>2 DEF DropHome, FreeStc
    <3>2. cnt_sender' = cnt_sender - (1 + Len(stc))
      BY <3>1 DEF Lose
    <3> QED
      BY <1>0, <2>1, <3>1, <3>2
  <2>3. CASE pc # "over"
    <3>1. cnt_sender' = cnt_sender - 1 /\ Len(stc') = Len(stc)
      BY <1>4, <1>13, <2>3 DEF DropHome
    <3> QED
      BY <1>0, <2>1, <3>1
  <2> QED
    BY <2>2, <2>3
<1>14. ASSUME NEW u \in Users, NEW t \in Tasks, Send(u, t)
       PROVE  P
  <2>1. /\ Len(xtc') = Len(xtc) + 1 /\ cnt_sender' = cnt_sender + 1
        /\ C' = C /\ H' = H /\ Len(stc') = Len(stc) /\ Len(running') = Len(running)
    BY <1>1, <1>3, <1>14 DEF Send, Clone, pools
  <2> QED
    BY <1>0, <2>1
<1>15. ASSUME NEW t \in Tasks, Execute(t)
       PROVE  P
  <2>1. /\ Len(stc') = Len(stc) + 1 /\ cnt_sender' = cnt_sender + 1
        /\ C' = C /\ H' = H /\ Len(xtc') = Len(xtc) /\ Len(running') = Len(running)
    BY <1>1, <1>3, <1>15 DEF Execute, Clone, pools
  <2> QED
    BY <1>0, <2>1
<1>16. ASSUME NEW v \in Users, Share(v)
       PROVE  P
  <2>1. /\ C' = C + 1 /\ cnt_sender' = cnt_sender + 1 /\ H' = H
        /\ Len(xtc') = Len(xtc) /\ Len(stc') = Len(stc) /\ Len(running') = Len(running)
    BY <1>3, <1>c, <1>v, <1>16 DEF Share, Clone
  <2> QED
    BY <1>0, <2>1
<1>17. ASSUME NEW u \in Users, DropCross(u)
       PROVE  P
  <2>1. /\ C' = C - 1 /\ C # 0 /\ cnt_sender' = cnt_sender - 1 /\ H' = H
        /\ Len(xtc') = Len(xtc) /\ Len(stc') = Len(stc) /\ Len(running') = Len(running)
    BY <1>3, <1>4, <1>c, <1>v, <1>17 DEF DropCross
  <2> QED
    BY <1>0, <2>1
<1>18. /\ Proceed => \/ UNCHANGED <<xtc, stc, cnt_sender, cross, home, running>>
                     \/ Move \/ RunTask \/ TaskReturns
       /\ SpuriousEvent => UNCHANGED <<xtc, stc, cnt_sender, cross, home, running>>
       /\ \A u, t : SendFails(u, t) =>
            UNCHANGED <<xtc, stc, cnt_sender, cross, home, running>>
       /\ \A t : ExecuteFails(t) =>
            UNCHANGED <<xtc, stc, cnt_sender, cross, home, running>>
       /\ \A how : Call(how) =>
            UNCHANGED <<xtc, stc, cnt_sender, cross, home, running>>
  BY DEF Proceed, PollEvent, PollNothing, Drained, Empty, Disconnected, AssertFails,
         DropReceiver, SpuriousEvent, SendFails, ExecuteFails, Call, pools
<1> HIDE DEF P
<1> QED
  BY <1>6, <1>7, <1>8, <1>9, <1>11, <1>12, <1>13, <1>14, <1>15, <1>16, <1>17, <1>18 DEF Next

LEMMA TypeStep ==
  ASSUME WorkerInv, Next
  PROVE  TypeOK'
<1> USE DEF WorkerInv
<1>1. (has_receiver' \in BOOLEAN) /\ (home' \in BOOLEAN)
  <2>1. /\ has_receiver' = has_receiver \/ has_receiver' = FALSE
        /\ home' = home \/ home' = FALSE
    BY DEF Next, Proceed, PollEvent, PollNothing, Drained, Empty, Disconnected,
           AssertFails, DropReceiver, Move, RunTask, TaskReturns, SpuriousEvent, Send,
           SendFails, Share, DropCross, Execute, ExecuteFails, Call, DropHome,
           DropWorker, TaskPanics, End, pools
  <2>2. has_receiver \in BOOLEAN /\ home \in BOOLEAN
    BY DEF TypeOK
  <2> QED
    BY <2>1, <2>2
<1>4. woken' \in BOOLEAN
  <2>1. \/ woken' = woken \/ woken' = FALSE \/ woken' = TRUE
        \/ \E n : Lose(n)
    BY DEF Next, Proceed, PollEvent, PollNothing, Drained, Empty, Disconnected,
           AssertFails, DropReceiver, Move, RunTask, TaskReturns, SpuriousEvent, Send,
           SendFails, Share, DropCross, Execute, ExecuteFails, Call, DropHome,
           DropWorker, TaskPanics, End, FreeStc
  <2>2. (\E n : Lose(n)) => woken' \in BOOLEAN
    BY DEF Lose
  <2>3. woken \in BOOLEAN
    BY DEF TypeOK
  <2> QED
    BY <2>1, <2>2, <2>3
<1>2. cross' \subseteq Users
  BY DEF Next, Proceed, PollEvent, PollNothing, Drained, Empty, Disconnected,
         AssertFails, DropReceiver, Move, RunTask, TaskReturns, SpuriousEvent, Send,
         SendFails, Share, DropCross, Execute, ExecuteFails, Call, DropHome,
         DropWorker, TaskPanics, End, pools, TypeOK
<1>3. /\ pc' \in {"idle", "poll", "drain", "run", "running", "leaving", "over"}
      /\ call' \in {"none", "run", "one", "block"}
      /\ ended' \in {"no", "ok", "panic", "dropped"}
  <2> USE DEF TypeOK
  <2>1. CASE Proceed \/ SpuriousEvent
    BY <2>1 DEF Proceed, PollEvent, PollNothing, Drained, Empty, Disconnected,
                AssertFails, DropReceiver, Move, RunTask, TaskReturns, SpuriousEvent,
                NextTurn
  <2>2. CASE ~(Proceed \/ SpuriousEvent)
    BY <2>2 DEF Next, Send, SendFails, Share, DropCross, Execute, ExecuteFails, Call,
                DropHome, DropWorker, TaskPanics, End
  <2> QED
    BY <2>1, <2>2
<1> QED
  BY <1>1, <1>2, <1>3, <1>4, QueuesStep, CountStep DEF TypeOK

LEMMA FreshStep ==
  ASSUME WorkerInv, Next
  PROVE  FreshInv'
<1> DEFINE W == ToSet(ran) \cup ToSet(stc) \cup ToSet(xtc) \cup ToSet(running)
<1>w. TypeOK /\ FreshInv
  BY DEF WorkerInv
<1>1. SUFFICES \/ W' \subseteq W /\ fresh' \subseteq fresh
               \/ \E t \in Tasks : W' \subseteq W \cup {t} /\ fresh' \subseteq fresh \ {t}
  BY <1>w DEF FreshInv
<1> DEFINE P == \/ W' \subseteq W /\ fresh' \subseteq fresh
                \/ \E t \in Tasks : W' \subseteq W \cup {t} /\ fresh' \subseteq fresh \ {t}
<1>2. /\ xtc # <<>> => /\ Head(xtc) \in Tasks
                       /\ ToSet(xtc) = {Head(xtc)} \cup ToSet(Tail(xtc))
      /\ stc # <<>> => ToSet(stc) = {Head(stc)} \cup ToSet(Tail(stc)) /\ Head(stc) \in Tasks
      /\ \A t \in Tasks : /\ ToSet(Append(xtc, t)) = ToSet(xtc) \cup {t}
                          /\ ToSet(Append(stc, t)) = ToSet(stc) \cup {t}
                          /\ ToSet(Append(ran, t)) = ToSet(ran) \cup {t}
      /\ ToSet(<<>>) = {}
  BY <1>w, TailFacts, AppendFacts, EmptyFacts DEF TypeOK
<1>3. \A t : ToSet(<<t>>) = {t}
  BY DEF ToSet
<1>4. CASE UNCHANGED <<xtc, stc, ran, running, fresh>>
  BY <1>4
<1>5. CASE Move
  BY <1>2, <1>5 DEF Move, history
<1>6. CASE RunTask
  BY <1>2, <1>3, <1>6 DEF RunTask
<1>7. CASE TaskReturns
  BY <1>2, <1>7 DEF TaskReturns, history
<1>8. CASE TaskPanics \/ DropWorker
  BY <1>2, <1>8 DEF TaskPanics, DropWorker, End, FreeStc, history
<1>9. CASE DropHome
  BY <1>2, <1>9 DEF DropHome, FreeStc, history
<1>10. ASSUME NEW u \in Users, NEW t \in Tasks, Send(u, t) \/ SendFails(u, t)
       PROVE  P
  BY <1>2, <1>10 DEF Send, SendFails
<1>11. ASSUME NEW t \in Tasks, Execute(t) \/ ExecuteFails(t)
       PROVE  P
  BY ZenonT(30), <1>2, <1>11 DEF Execute, ExecuteFails
<1>12. /\ Proceed => \/ UNCHANGED <<xtc, stc, ran, running, fresh>>
                     \/ Move \/ RunTask \/ TaskReturns
       /\ SpuriousEvent => UNCHANGED <<xtc, stc, ran, running, fresh>>
       /\ \A u \in Users : Share(u) \/ DropCross(u)
                             => UNCHANGED <<xtc, stc, ran, running, fresh>>
       /\ \A how : Call(how) => UNCHANGED <<xtc, stc, ran, running, fresh>>
  BY DEF Proceed, PollEvent, PollNothing, Drained, Empty, Disconnected, AssertFails,
         DropReceiver, SpuriousEvent, Share, DropCross, Call, history
<1> HIDE DEF W
<1> QED
  BY <1>4, <1>5, <1>6, <1>7, <1>8, <1>9, <1>10, <1>11, <1>12 DEF Next

\* A step that moves nothing in the line.
LEMMA LineKept ==
  ASSUME LineInv, Line' = Line, sent' = sent, ended' = "no" => ended = "no"
  PROVE  LineInv'
<1>1. SUFFICES ASSUME ended' = "no"
               PROVE  /\ \A k, l \in 1..Len(Line') : Line'[k] = Line'[l] => k = l
                      /\ \A j \in 1..Len(sent') : Placed(j)'
  BY DEF LineInv
<1>2. /\ \A k, l \in 1..Len(Line) : Line[k] = Line[l] => k = l
      /\ \A j \in 1..Len(sent) : Placed(j)
  BY <1>1 DEF LineInv
<1>3. \A j : Placed(j) => Placed(j)'
  <2> SUFFICES ASSUME NEW j, Placed(j)
               PROVE  \E l \in 1..Len(Line) :
                        /\ Line[l] = sent[j]
                        /\ \A i \in 1..(j - 1) : \E k \in 1..(l - 1) : Line[k] = sent[i]
    BY DEF Placed
  <2> QED
    BY DEF Placed
<1> QED
  BY <1>2, <1>3

\* Send: the task comes last in the line.
LEMMA LineExtended ==
  ASSUME WorkerInv, NEW u \in Users, NEW t \in Tasks, Send(u, t)
  PROVE  LineInv'
<1>w. TypeOK /\ FreshInv /\ LineInv
  BY DEF WorkerInv
<1> SUFFICES ASSUME ended' = "no"
             PROVE  /\ \A k, l \in 1..Len(Line') : Line'[k] = Line'[l] => k = l
                    /\ \A j \in 1..Len(sent') : Placed(j)'
  BY DEF LineInv
<1> DEFINE n == Len(Line)
           m == Len(sent)
<1>1. Line' = Append(Line, t)
  <2>1. Line' = (ran \o stc) \o Append(xtc, t)
    BY DEF Line, Send
  <2> QED
    BY SMTT(30), <1>w, <2>1, LineFacts, ConcatAppend DEF Line
<1>2. /\ Len(Line') = n + 1 /\ Line'[n + 1] = t /\ n \in Nat
      /\ \A k \in 1..n : Line'[k] = Line[k]
  BY <1>w, <1>1, LineFacts, AppendFacts
<1>3. /\ Len(sent') = m + 1 /\ sent'[m + 1] = t /\ m \in Nat
      /\ \A j \in 1..m : sent'[j] = sent[j]
  BY <1>w, LineFacts, AppendFacts DEF Send
<1>4. \A k \in 1..n : Line[k] # t
  BY <1>w, LineFacts DEF Send
<1>5. ended = "no"
  BY DEF Send
<1>6. /\ \A k, l \in 1..n : Line[k] = Line[l] => k = l
      /\ \A j \in 1..m : \E l \in 1..n :
           /\ Line[l] = sent[j]
           /\ \A i \in 1..(j - 1) : \E k \in 1..(l - 1) : Line[k] = sent[i]
  BY <1>w, <1>5 DEF LineInv, Placed
<1> DEFINE L == Line'
           s == sent'
<1> HIDE DEF n, m, L, s
<1>7. \A k, l \in 1..(n + 1) : L[k] = L[l] => k = l
  <2>1. \A k \in 1..(n + 1) : k \in 1..n \/ k = n + 1
    BY <1>2
  <2> QED
    BY <1>2, <1>4, <1>6, <2>1 DEF L
<1>8. ASSUME NEW j \in 1..(m + 1)
      PROVE  \E l \in 1..(n + 1) :
               /\ L[l] = s[j]
               /\ \A i \in 1..(j - 1) : \E k \in 1..(l - 1) : L[k] = s[i]
  <2>1. CASE j \in 1..m
    <3>1. PICK l \in 1..n :
            /\ Line[l] = sent[j]
            /\ \A i \in 1..(j - 1) : \E k \in 1..(l - 1) : Line[k] = sent[i]
      BY <1>6, <2>1
    <3>2. l \in 1..(n + 1) /\ L[l] = s[j]
      BY <1>2, <1>3, <2>1, <3>1 DEF L, s
    <3>3. ASSUME NEW i \in 1..(j - 1)
          PROVE  \E k \in 1..(l - 1) : L[k] = s[i]
      <4>1. PICK k \in 1..(l - 1) : Line[k] = sent[i]
        BY <3>1
      <4>2. k \in 1..n /\ i \in 1..m
        BY <1>2, <1>3, <2>1
      <4> QED
        BY <1>2, <1>3, <4>1, <4>2 DEF L, s
    <3> QED
      BY <3>2, <3>3
  <2>2. CASE j = m + 1
    <3>1. PICK l \in 1..(n + 1) : l = n + 1 /\ l - 1 = n /\ L[l] = s[j]
      BY <1>2, <1>3, <2>2 DEF L, s
    <3>2. ASSUME NEW i \in 1..(j - 1)
          PROVE  \E k \in 1..(l - 1) : L[k] = s[i]
      <4>1. i \in 1..m
        BY <1>2, <1>3, <2>2
      <4>2. PICK k \in 1..n : Line[k] = sent[i]
        BY <1>6, <4>1
      <4> QED
        BY <1>2, <1>3, <3>1, <4>1, <4>2 DEF L, s
    <3> QED
      BY <3>1, <3>2
  <2> QED
    BY <1>3, <2>1, <2>2
<1>9. Len(L) = n + 1 /\ Len(s) = m + 1
  BY <1>2, <1>3 DEF L, s
<1>10. /\ \A k, l \in 1..Len(L) : L[k] = L[l] => k = l
       /\ \A j \in 1..Len(s) : \E l \in 1..Len(L) :
            /\ L[l] = s[j]
            /\ \A i \in 1..(j - 1) : \E k \in 1..(l - 1) : L[k] = s[i]
  BY <1>7, <1>8, <1>9
<1> QED
  BY <1>10 DEF L, s, Placed

\* ThreadLocalPool::execute: the task comes before those in xtc.
LEMMA LineInserted ==
  ASSUME WorkerInv, NEW t \in Tasks, Execute(t)
  PROVE  LineInv'
<1>w. TypeOK /\ FreshInv /\ LineInv
  BY DEF WorkerInv
<1> SUFFICES ASSUME ended' = "no"
             PROVE  /\ \A k, l \in 1..Len(Line') : Line'[k] = Line'[l] => k = l
                    /\ \A j \in 1..Len(sent') : Placed(j)'
  BY DEF LineInv
<1> DEFINE n == Len(Line)
           p == Len(ran \o stc)
<1>1. Line' = Append(ran \o stc, t) \o xtc
  <2>1. Line' = (ran \o Append(stc, t)) \o xtc
    BY DEF Line, Execute
  <2>2. ran \o Append(stc, t) = Append(ran \o stc, t)
    BY <1>w, LineFacts, ConcatAppend
  <2> QED
    BY <2>1, <2>2
<1>2. /\ Len(Line') = n + 1 /\ Line'[p + 1] = t /\ n \in Nat /\ p \in 0..n
      /\ \A k \in 1..p : Line'[k] = Line[k]
      /\ \A k \in (p + 1)..n : Line'[k + 1] = Line[k]
  <2>1. ran \o stc \in Seq(Tasks) /\ xtc \in Seq(Tasks) /\ Line = (ran \o stc) \o xtc
    BY <1>w, LineFacts DEF Line
  <2>2. n \in Nat
    BY <1>w, LineFacts
  <2> DEFINE q == ran \o stc
  <2>3. Line' = Append(q, t) \o xtc /\ q \in Seq(Tasks) /\ Line = q \o xtc /\ p = Len(q)
    BY <1>1, <2>1
  <2> HIDE DEF q
  <2>4. q \in Seq(Tasks) /\ xtc \in Seq(Tasks)
    BY <2>1, <2>3
  <2>5. /\ Len(Append(q, t) \o xtc) = Len(q \o xtc) + 1
        /\ Len(q) \in 0..Len(q \o xtc)
        /\ (Append(q, t) \o xtc)[Len(q) + 1] = t
        /\ \A i \in 1..Len(q) : (Append(q, t) \o xtc)[i] = (q \o xtc)[i]
        /\ \A i \in (Len(q) + 1)..Len(q \o xtc) :
             (Append(q, t) \o xtc)[i + 1] = (q \o xtc)[i]
    BY <2>4, Inserted
  <2> HIDE DEF n, p
  <2>6. /\ Len(Line') = Len(Line) + 1 /\ p \in 0..Len(Line) /\ Line'[p + 1] = t
        /\ \A k \in 1..p : Line'[k] = Line[k]
        /\ \A k \in (p + 1)..Len(Line) : Line'[k + 1] = Line[k]
    BY <2>3, <2>5
  <2> QED
    BY <2>2, <2>6 DEF n
<1>3. sent' = sent /\ Len(sent) \in Nat
  BY <1>w, LineFacts DEF Execute
<1>4. \A k \in 1..n : Line[k] # t
  BY <1>w, LineFacts DEF Execute
<1>5. ended = "no"
  BY DEF Execute
<1>6. /\ \A k, l \in 1..n : Line[k] = Line[l] => k = l
      /\ \A j \in 1..Len(sent) : \E l \in 1..n :
           /\ Line[l] = sent[j]
           /\ \A i \in 1..(j - 1) : \E k \in 1..(l - 1) : Line[k] = sent[i]
  BY <1>w, <1>5 DEF LineInv, Placed
<1> DEFINE L == Line'
           Up(k) == IF k <= p THEN k ELSE k + 1
<1> HIDE DEF n, p, L
<1>7. ASSUME NEW k \in 1..n
      PROVE  /\ Up(k) \in 1..(n + 1) /\ Up(k) # p + 1 /\ L[Up(k)] = Line[k]
             /\ \A l \in 1..n : k < l => Up(k) < Up(l)
  BY <1>2 DEF L
<1>8. ASSUME NEW k \in 1..(n + 1)
      PROVE  k = p + 1 \/ \E l \in 1..n : k = Up(l)
  <2>1. CASE k <= p
    BY <1>2, <2>1
  <2>2. CASE k > p + 1
    <3>1. k - 1 \in 1..n /\ k = Up(k - 1)
      BY <1>2, <2>2
    <3> QED
      BY <3>1
  <2> QED
    BY <1>2, <2>1, <2>2
<1> HIDE DEF Up
<1>9. \A k, l \in 1..(n + 1) : L[k] = L[l] => k = l
  <2>1. L[p + 1] = t
    BY <1>2 DEF L
  <2> QED
    BY <1>4, <1>6, <1>7, <1>8, <2>1
<1>10. ASSUME NEW j \in 1..Len(sent)
       PROVE  \E l \in 1..(n + 1) :
                /\ L[l] = sent[j]
                /\ \A i \in 1..(j - 1) : \E k \in 1..(l - 1) : L[k] = sent[i]
  <2>1. PICK l \in 1..n :
          /\ Line[l] = sent[j]
          /\ \A i \in 1..(j - 1) : \E k \in 1..(l - 1) : Line[k] = sent[i]
    BY <1>6
  <2>2. Up(l) \in 1..(n + 1) /\ L[Up(l)] = sent[j]
    BY <1>7, <2>1
  <2>3. ASSUME NEW i \in 1..(j - 1)
        PROVE  \E k \in 1..(Up(l) - 1) : L[k] = sent[i]
    <3>1. PICK k \in 1..(l - 1) : Line[k] = sent[i]
      BY <2>1
    <3>2. k \in 1..n /\ k < l
      BY <1>2
    <3>3. Up(k) \in 1..(n + 1) /\ Up(k) < Up(l) /\ L[Up(k)] = sent[i]
      BY <1>7, <3>1, <3>2
    <3>4. Up(k) \in 1..(Up(l) - 1)
      BY <2>2, <3>3
    <3> QED
      BY <3>3, <3>4
  <2> QED
    BY <2>2, <2>3
<1>11. Len(L) = n + 1
  BY <1>2 DEF L
<1>12. /\ \A k, l \in 1..Len(L) : L[k] = L[l] => k = l
       /\ \A j \in 1..Len(sent) : \E l \in 1..Len(L) :
            /\ L[l] = sent[j]
            /\ \A i \in 1..(j - 1) : \E k \in 1..(l - 1) : L[k] = sent[i]
  BY <1>9, <1>10, <1>11
<1> QED
  BY <1>3, <1>12 DEF L, Placed

LEMMA LineStep ==
  ASSUME WorkerInv, Next
  PROVE  LineInv'
<1>w. TypeOK /\ LineInv /\ PhaseInv
  BY DEF WorkerInv
<1>f. ran \in Seq(Tasks) /\ stc \in Seq(Tasks) /\ xtc \in Seq(Tasks)
      /\ ran \o stc \in Seq(Tasks)
  BY <1>w, LineFacts
<1>1. CASE ended' # "no"
  BY <1>1 DEF LineInv
<1>2. CASE UNCHANGED <<xtc, stc, ran, sent>> /\ (ended' = ended \/ ended' # "no")
  BY <1>w, <1>1, <1>2, LineKept DEF Line
<1>3. CASE Move
  <2>1. Head(xtc) \in Tasks
    BY <1>f, <1>3, TailFacts DEF Move
  <2>2. Line' = (ran \o Append(stc, Head(xtc))) \o Tail(xtc)
    BY <1>3 DEF Line, Move, history
  <2>5. ran \o Append(stc, Head(xtc)) = Append(ran \o stc, Head(xtc))
    BY <1>f, <2>1, ConcatAppend
  <2>3. Line' = Append(ran \o stc, Head(xtc)) \o Tail(xtc)
    BY <2>2, <2>5
  <2>4. Line' = Line
    BY <1>f, <1>3, <2>3, MoveOver DEF Move, Line
  <2> QED
    BY <1>w, <1>3, <2>4, LineKept DEF Move, history
<1>4. CASE RunTask
  <2>1. Line' = (Append(ran, Head(stc)) \o Tail(stc)) \o xtc
    BY <1>4 DEF Line, RunTask
  <2>2. Line' = Line
    BY <1>f, <1>4, <2>1, MoveOver DEF RunTask, Line
  <2> QED
    BY <1>w, <1>4, <2>2, LineKept DEF RunTask
<1>5. CASE TaskPanics \/ DropWorker
  BY <1>1, <1>5 DEF TaskPanics, DropWorker, End
<1>6. CASE DropHome
  <2>1. CASE pc = "over"
    BY <1>w, <1>1, <1>6, <2>1 DEF DropHome, PhaseInv
  <2>2. CASE pc # "over"
    BY <1>2, <1>6, <2>2 DEF DropHome, history
  <2> QED
    BY <2>1, <2>2
<1>7. /\ Proceed => \/ UNCHANGED <<xtc, stc, ran, sent>> /\ (ended' = ended \/ ended' # "no")
                    \/ Move \/ RunTask
      /\ SpuriousEvent => UNCHANGED <<xtc, stc, ran, sent, ended>>
      /\ \A u \in Users : Share(u) \/ DropCross(u)
                            => UNCHANGED <<xtc, stc, ran, sent, ended>>
      /\ \A u, t : SendFails(u, t) => UNCHANGED <<xtc, stc, ran, sent, ended>>
      /\ \A t : ExecuteFails(t) => UNCHANGED <<xtc, stc, ran, sent, ended>>
      /\ \A how : Call(how) => UNCHANGED <<xtc, stc, ran, sent, ended>>
  BY DEF Proceed, PollEvent, PollNothing, Drained, Empty, Disconnected, AssertFails,
         TaskReturns, DropReceiver, SpuriousEvent, Share, DropCross, SendFails,
         ExecuteFails, Call, history
<1> QED
  BY <1>2, <1>3, <1>4, <1>5, <1>6, <1>7, LineExtended, LineInserted DEF Next

\* `run` returns when the channel is disconnected: nothing counts as a sender then, so
\* nothing is left and nobody can post.
LEMMA DrainStep ==
  ASSUME WorkerInv, Next
  PROVE  ReturnsDrained'
<1>w. TypeOK /\ PhaseInv /\ LineInv /\ SendersCounted /\ ReturnsDrained
  BY DEF WorkerInv
<1> SUFFICES ASSUME ended' = "ok"
             PROVE  ReturnsDrained'
  BY DEF ReturnsDrained
<1>1. CASE ended = "ok"
  <2>1. pc \in {"leaving", "over"} /\ running = <<>> /\ xtc = <<>> /\ stc = <<>>
        /\ cross = {} /\ ~home
    BY <1>w, <1>1 DEF PhaseInv, ReturnsDrained
  <2>2. UNCHANGED <<xtc, stc, cross, home, sent, ran>>
    BY <2>1 DEF Next, Proceed, PollEvent, PollNothing, Drained, Empty, Disconnected,
                AssertFails, DropReceiver, Move, RunTask, TaskReturns, SpuriousEvent, Send,
                SendFails, Share, DropCross, Execute, ExecuteFails, Call, DropHome,
                DropWorker, TaskPanics, pools, history
  <2> QED
    BY <1>w, <1>1, <2>2 DEF ReturnsDrained
<1>2. CASE ended # "ok"
  <2>1. Disconnected
    BY <1>2 DEF Next, Proceed, PollEvent, PollNothing, Drained, Empty,
                AssertFails, DropReceiver, Move, RunTask, TaskReturns, SpuriousEvent, Send,
                SendFails, Share, DropCross, Execute, ExecuteFails, Call, DropHome,
                DropWorker, TaskPanics, End
  <2>2. xtc = <<>> /\ stc = <<>> /\ cnt_sender = 0 /\ pc = "drain"
        /\ UNCHANGED <<xtc, stc, cross, home, sent, ran>>
    BY <2>1 DEF Disconnected, pools, history
  <2>3. ended = "no"
    BY <1>w, <2>2 DEF PhaseInv
  <2>4. cross = {} /\ ~home
    <3>1. Cardinality(cross) \in Nat /\ Len(xtc) \in Nat /\ Len(stc) \in Nat
          /\ Len(running) \in Nat /\ (Cardinality(cross) = 0 <=> cross = {})
      BY <1>w, Counts
    <3> DEFINE h == IF home THEN 1 ELSE 0
    <3>2. 0 = Cardinality(cross) + h + Len(xtc) + Len(stc) + Len(running)
      BY <1>w, <2>2 DEF SendersCounted
    <3>3. h \in Nat /\ (h = 0 => ~home)
      OBVIOUS
    <3> HIDE DEF h
    <3>4. Cardinality(cross) = 0 /\ h = 0
      BY <3>1, <3>2, <3>3
    <3> QED
      BY <3>1, <3>3, <3>4
  <2>5. Len(Line) = Len(ran)
    <3>1. Len(xtc) = 0 /\ Len(stc) = 0
      BY <2>2
    <3> QED
      BY <1>w, <3>1, LineFacts
  <2>6. ASSUME NEW i \in DOMAIN sent
        PROVE  Contains(ran, sent[i])
    <3>1. i \in 1..Len(sent)
      BY <1>w, LineFacts
    <3>2. PICK l \in 1..Len(Line) : Line[l] = sent[i]
      BY <1>w, <2>3, <3>1 DEF LineInv, Placed
    <3>3. l \in 1..Len(ran) /\ ran[l] = sent[i]
      BY <1>w, <2>5, <3>2, LineFacts
    <3> QED
      BY <3>3 DEF Contains
  <2> QED
    BY <2>2, <2>4, <2>6 DEF ReturnsDrained
<1> QED
  BY <1>1, <1>2

\* Up to its end the order is that of the line; after it no task is run.
LEMMA OrderStep ==
  ASSUME WorkerInv, Next, TypeOK', LineInv'
  PROVE  SentOrderKept'
<1>w. TypeOK /\ PhaseInv /\ FreshInv /\ SentOrderKept
  BY DEF WorkerInv
<1>1. CASE ended' = "no"
  <2>1. (TypeOK /\ LineInv /\ ended = "no" => SentOrderKept)'
    BY OrderOfLine, PTL
  <2> QED
    BY <1>1, <2>1
<1>2. CASE UNCHANGED <<sent, ran>>
  BY <1>w, <1>2 DEF SentOrderKept
<1>3. ASSUME NEW u \in Users, NEW t \in Tasks, Send(u, t)
      PROVE  SentOrderKept'
  <2>1. ran' = ran /\ sent' = Append(sent, t) /\ t \in fresh
    BY <1>3 DEF Send
  <2>2. ~Contains(ran, t)
    BY <1>w, <2>1 DEF FreshInv, ToSet, Contains
  <2>3. /\ Len(sent') = Len(sent) + 1 /\ sent'[Len(sent) + 1] = t
        /\ Len(sent) \in Nat /\ DOMAIN sent = 1..Len(sent)
        /\ DOMAIN sent' = 1..(Len(sent) + 1)
        /\ \A i \in 1..Len(sent) : sent'[i] = sent[i]
    <3>1. sent' \in Seq(Tasks)
      BY <1>w, <2>1, LineFacts, AppendFacts
    <3> QED
      BY <1>w, <2>1, <3>1, LineFacts, AppendFacts
  <2> SUFFICES ASSUME NEW i \in DOMAIN sent', NEW j \in DOMAIN sent', i < j,
                      Contains(ran, sent'[j])
               PROVE  \E k, l \in DOMAIN ran :
                        ran[k] = sent'[i] /\ ran[l] = sent'[j] /\ k < l
    BY <2>1 DEF SentOrderKept
  <2>4. j # Len(sent) + 1
    BY <2>2, <2>3
  <2>5. i \in DOMAIN sent /\ j \in DOMAIN sent /\ sent'[i] = sent[i] /\ sent'[j] = sent[j]
    BY <2>3, <2>4
  <2> QED
    BY <1>w, <2>5 DEF SentOrderKept
<1>4. RunTask => ended' = "no"
  BY <1>w DEF RunTask, PhaseInv
<1>5. Next => \/ UNCHANGED <<sent, ran>> \/ RunTask
              \/ \E u \in Users, t \in Tasks : Send(u, t)
  BY DEF Next, Proceed, PollEvent, PollNothing, Drained, Empty, Disconnected, AssertFails,
         DropReceiver, Move, TaskReturns, SpuriousEvent, SendFails, Share, DropCross,
         Execute, ExecuteFails, Call, DropHome, DropWorker, TaskPanics, End, history
<1> QED
  BY <1>1, <1>2, <1>3, <1>4, <1>5

----------------------------------------------------------------------------

LEMMA WorkerInitInv == Init => WorkerInv
<1> SUFFICES ASSUME Init
             PROVE  WorkerInv
  OBVIOUS
<1>0. /\ xtc = <<>> /\ stc = <<>> /\ running = <<>> /\ sent = <<>> /\ ran = <<>>
      /\ Len(<<>>) = 0 /\ ToSet(<<>>) = {} /\ <<>> \in Seq(Tasks) /\ DOMAIN <<>> = {}
  BY EmptyFacts DEF Init
<1>1. TypeOK
  <2>1. has_receiver \in BOOLEAN /\ woken \in BOOLEAN /\ home \in BOOLEAN
    BY DEF Init
  <2> QED
    BY <1>0, <2>1, WorkerAssumption DEF Init, TypeOK
<1>2. PhaseInv /\ AssertHolds /\ ReturnsDrained
  BY DEF Init, PhaseInv, AssertHolds, ReturnsDrained
<1>3. SendersCounted
  <2>1. CASE cross = {Starter} /\ home = FALSE
    <3>1. Cardinality(cross) = 1
      BY <2>1, FS_Singleton
    <3> QED
      BY <1>0, <2>1, <3>1 DEF Init, SendersCounted
  <2>2. CASE cross = {} /\ home = TRUE
    <3>1. Cardinality(cross) = 0
      BY <2>2, FS_EmptySet
    <3> QED
      BY <1>0, <2>2, <3>1 DEF Init, SendersCounted
  <2> QED
    BY <2>1, <2>2 DEF Init
<1>4. FreshInv /\ SentOrderKept
  BY <1>0 DEF FreshInv, SentOrderKept
<1>5. LineInv
  <2>1. Len(Line) = 0 /\ Len(sent) = 0
    BY <1>0, <1>1, LineFacts
  <2> QED
    BY <2>1 DEF LineInv
<1> QED
  BY <1>1, <1>2, <1>3, <1>4, <1>5 DEF WorkerInv

LEMMA WorkerNextInv == WorkerInv /\ [Next]_vars => WorkerInv'
<1>1. ASSUME WorkerInv, Next
      PROVE  WorkerInv'
  BY <1>1, TypeStep, PhaseStep, FreshStep, LineStep, CountStep, DrainStep, OrderStep
     DEF WorkerInv
<1>2. ASSUME WorkerInv, UNCHANGED vars
      PROVE  WorkerInv'
  <2>1. TypeOK' = TypeOK /\ PhaseInv' = PhaseInv /\ FreshInv' = FreshInv
    BY <1>2 DEF vars, TypeOK, PhaseInv, FreshInv
  <2>2. Line' = Line /\ sent' = sent /\ ended' = ended
    BY <1>2 DEF vars, Line
  <2>3. LineInv'
    BY <1>2, <2>2, LineKept DEF WorkerInv
  <2>4. /\ SendersCounted' = SendersCounted /\ ReturnsDrained' = ReturnsDrained
        /\ SentOrderKept' = SentOrderKept /\ AssertHolds' = AssertHolds
    BY <1>2 DEF vars, SendersCounted, ReturnsDrained, SentOrderKept, AssertHolds
  <2> QED
    BY <1>2, <2>1, <2>3, <2>4 DEF WorkerInv
<1> QED
  BY <1>1, <1>2

\* The invariant behind what follows (worker.rs with its two channels): who counts as a
\* sender, and in which order the tasks go through the queues.
THEOREM WorkerInvariant == Spec => []WorkerInv
BY WorkerInitInv, WorkerNextInv, PTL DEF Spec

\* The senders of xtc are the pools, the queued tasks, and the pool of the task that
\* runs: so a worker neither stops too early nor stays on for a lost count.
THEOREM CountIsRight == Spec => []SendersCounted
<1>1. WorkerInv => SendersCounted
  BY DEF WorkerInv
<1> QED
  BY <1>1, WorkerInvariant, PTL

\* `run` returns only once all tasks have been run, and no more can be added.
THEOREM RunReturnsDrained == Spec => []ReturnsDrained
<1>1. WorkerInv => ReturnsDrained
  BY DEF WorkerInv
<1> QED
  BY <1>1, WorkerInvariant, PTL

\* The tasks that other threads send are run in the order in which they were sent.
THEOREM TasksKeepTheirOrder == Spec => []SentOrderKept
<1>1. WorkerInv => SentOrderKept
  BY DEF WorkerInv
<1> QED
  BY <1>1, WorkerInvariant, PTL

\* assert!(did_run_a_task) never fails in run, nor in a run_one that may block.
THEOREM RunFindsATask == Spec => []AssertHolds
<1>1. WorkerInv => AssertHolds
  BY DEF WorkerInv
<1> QED
  BY <1>1, WorkerInvariant, PTL

----------------------------------------------------------------------------
(* The worker and its queues are a TaskQueue: every step of theirs is a step of it, *)
(* or none.                                                                         *)

Handles == Cardinality(cross) + (IF home THEN 1 ELSE 0)
Pending == ToSet(xtc) \cup ToSet(stc)
Active == ToSet(running)

AbstractStep == [Abstract!Next]_(Abstract!vars)

\* The steps of a TaskQueue, in terms of what Worker shows of itself.
LEMMA StutterStep ==
  ASSUME Mode' = Mode, Handles' = Handles, Pending' = Pending, Active' = Active
  PROVE  AbstractStep
BY DEF AbstractStep, Abstract!vars, Handles, Pending, Active

LEMMA PostStep ==
  ASSUME NEW t \in Tasks, Handles > 0 \/ Active # {}, Mode # "over",
         t \notin Pending \cup Active, Pending' = Pending \cup {t},
         Mode' = Mode, Handles' = Handles, Active' = Active
  PROVE  AbstractStep
<1>1. Abstract!Post(t)
  BY DEF Abstract!Post, Abstract!Usable, Handles, Pending, Active
<1> QED
  BY <1>1 DEF AbstractStep, Abstract!Next

LEMMA ShareStep ==
  ASSUME Handles > 0 \/ Active # {}, Handles' = Handles + 1,
         Mode' = Mode, Pending' = Pending, Active' = Active
  PROVE  AbstractStep
<1>1. Abstract!Share
  BY DEF Abstract!Share, Abstract!Usable, Handles, Pending, Active
<1> QED
  BY <1>1 DEF AbstractStep, Abstract!Next

LEMMA ReleaseStep ==
  ASSUME Handles > 0, Handles' = Handles - 1,
         Mode' = Mode, Pending' = Pending, Active' = Active
  PROVE  AbstractStep
<1>1. Abstract!Release
  BY DEF Abstract!Release, Handles, Pending, Active
<1> QED
  BY <1>1 DEF AbstractStep, Abstract!Next

LEMMA ServeStep ==
  ASSUME Mode = "idle", Mode' = "serving",
         Handles' = Handles, Pending' = Pending, Active' = Active
  PROVE  AbstractStep
<1>1. Abstract!Serve
  BY DEF Abstract!Serve, Handles, Pending, Active
<1> QED
  BY <1>1 DEF AbstractStep, Abstract!Next

LEMMA RunStep ==
  ASSUME Mode \in {"idle", "serving"}, Active = {}, NEW t \in Pending, Active' = {t},
         Pending' = Pending \ {t}, Mode' = Mode, Handles' = Handles
  PROVE  AbstractStep
<1>1. Abstract!Run
  BY DEF Abstract!Run, Handles, Pending, Active
<1> QED
  BY <1>1 DEF AbstractStep, Abstract!Next

LEMMA ReturnStep ==
  ASSUME Active # {}, Active' = {}, Mode' = Mode, Handles' = Handles, Pending' = Pending
  PROVE  AbstractStep
<1>1. Abstract!Return
  BY DEF Abstract!Return, Handles, Pending, Active
<1> QED
  BY <1>1 DEF AbstractStep, Abstract!Next

LEMMA FailStep ==
  ASSUME Mode = "idle" \/ (Mode = "serving" /\ Active # {}), Mode' = "failed",
         Active' = {}, Pending' \subseteq Pending, Handles' = Handles
  PROVE  AbstractStep
<1>1. Abstract!Fail
  BY DEF Abstract!Fail, Handles, Pending, Active
<1> QED
  BY <1>1 DEF AbstractStep, Abstract!Next

LEMMA EndStep ==
  ASSUME \/ Mode = "serving" /\ Handles = 0 /\ Pending = {} /\ Active = {}
         \/ Mode = "failed",
         Mode' = "over", Handles' = Handles, Pending' = Pending, Active' = Active
  PROVE  AbstractStep
<1>1. Abstract!End
  BY DEF Abstract!End, Handles, Pending, Active
<1> QED
  BY <1>1 DEF AbstractStep, Abstract!Next

LEMMA ForgetStep ==
  ASSUME Mode = "over", Mode' = Mode, Active' = Active, Pending' \subseteq Pending,
         Handles \in Nat, Handles > 0, Handles' = Handles - 1
  PROVE  AbstractStep
<1>1. Handles' \in {Handles, Handles - 1} \cap Nat
  OBVIOUS
<1>2. Abstract!Forget
  BY <1>1 DEF Abstract!Forget, Handles, Pending, Active
<1> QED
  BY <1>2 DEF AbstractStep, Abstract!Next

----------------------------------------------------------------------------

LEMMA ModeIs ==
  ASSUME WorkerInv
  PROVE  Mode = IF pc = "over" THEN "over"
                ELSE IF pc = "leaving" /\ ended # "ok" THEN "failed"
                ELSE IF call = "run" /\ pc # "idle" /\ ~Stalled THEN "serving"
                ELSE "idle"
BY DEF WorkerInv, PhaseInv, TypeOK, Mode

LEMMA HandleFacts ==
  ASSUME TypeOK, SendersCounted
  PROVE  /\ Handles \in Nat
         /\ cross # {} \/ home => Handles > 0
         /\ cross = {} /\ ~home => Handles = 0
         /\ \/ cross # {} \/ home \/ xtc # <<>> \/ stc # <<>> \/ running # <<>>
            => cnt_sender > 0
         /\ home /\ ~home' /\ cross' = cross => Handles' = Handles - 1
         /\ \A v : v \notin cross /\ cross' = cross \cup {v} /\ home' = home
                     => Handles' = Handles + 1
         /\ \A v : v \in cross /\ cross' = cross \ {v} /\ home' = home
                     => Handles' = Handles - 1
<1> DEFINE h == IF home THEN 1 ELSE 0
           c == Cardinality(cross)
<1>1. /\ c \in Nat /\ (c = 0 <=> cross = {})
      /\ Len(xtc) \in Nat /\ Len(stc) \in Nat /\ Len(running) \in Nat
      /\ xtc # <<>> => Len(xtc) > 0
      /\ stc # <<>> => Len(stc) > 0
      /\ running # <<>> => Len(running) > 0
  BY Counts
<1>2. /\ h \in Nat /\ (home => h = 1) /\ (~home => h = 0)
      /\ home' = home => h' = h
      /\ ~home' => h' = 0
  OBVIOUS
<1>3. Handles = c + h /\ Handles' = c' + h'
  BY DEF Handles
<1>4. cnt_sender = c + h + Len(xtc) + Len(stc) + Len(running)
  BY DEF SendersCounted
<1>5. /\ \A v : v \notin cross => Cardinality(cross \cup {v}) = c + 1
      /\ \A v : v \in cross => Cardinality(cross \ {v}) = c - 1
      /\ cross' = cross => c' = c
      /\ c' = Cardinality(cross')
  BY Counts, FS_AddElement, FS_RemoveElement
<1> HIDE DEF c, h
<1>6. \/ cross # {} \/ home \/ xtc # <<>> \/ stc # <<>> \/ running # <<>>
      => cnt_sender > 0
  BY <1>1, <1>2, <1>4
<1>7. Handles \in Nat /\ (cross # {} \/ home => Handles > 0)
      /\ (cross = {} /\ ~home => Handles = 0)
  BY <1>1, <1>2, <1>3
<1>8. home /\ ~home' /\ cross' = cross => Handles' = Handles - 1
  BY <1>1, <1>2, <1>3, <1>5
<1>9. ASSUME NEW v, v \notin cross, cross' = cross \cup {v}, home' = home
      PROVE  Handles' = Handles + 1
  BY <1>1, <1>2, <1>3, <1>5, <1>9
<1>10. ASSUME NEW v, v \in cross, cross' = cross \ {v}, home' = home
       PROVE  Handles' = Handles - 1
  BY <1>1, <1>2, <1>3, <1>5, <1>10
<1> QED
  BY <1>6, <1>7, <1>8, <1>9, <1>10

LEMMA ViewFacts ==
  ASSUME TypeOK
  PROVE  /\ xtc # <<>> => /\ Head(xtc) \in Tasks
                          /\ ToSet(xtc) = {Head(xtc)} \cup ToSet(Tail(xtc))
         /\ stc # <<>> => /\ Head(stc) \in Tasks
                          /\ ToSet(stc) = {Head(stc)} \cup ToSet(Tail(stc))
         /\ \A t \in Tasks : /\ ToSet(Append(xtc, t)) = ToSet(xtc) \cup {t}
                             /\ ToSet(Append(stc, t)) = ToSet(stc) \cup {t}
         /\ ToSet(<<>>) = {} /\ \A t : ToSet(<<t>>) = {t}
         /\ running = <<>> <=> Active = {}
         /\ cross' = cross /\ home' = home => Handles' = Handles
         /\ xtc' = xtc /\ stc' = stc => Pending' = Pending
         /\ running' = running => Active' = Active
<1>1. \A t : ToSet(<<t>>) = {t}
  BY DEF ToSet
<1>2. running = <<>> <=> Active = {}
  BY <1>1, EmptyFacts DEF TypeOK, Active
<1>3. xtc \in Seq(Tasks) /\ stc \in Seq(Tasks)
  BY DEF TypeOK
<1>4. /\ xtc # <<>> => /\ Head(xtc) \in Tasks
                       /\ ToSet(xtc) = {Head(xtc)} \cup ToSet(Tail(xtc))
      /\ stc # <<>> => /\ Head(stc) \in Tasks
                       /\ ToSet(stc) = {Head(stc)} \cup ToSet(Tail(stc))
  BY <1>3, TailFacts
<1>5. \A t \in Tasks : /\ ToSet(Append(xtc, t)) = ToSet(xtc) \cup {t}
                       /\ ToSet(Append(stc, t)) = ToSet(stc) \cup {t}
  BY <1>3, AppendFacts
<1>6. /\ cross' = cross /\ home' = home => Handles' = Handles
      /\ xtc' = xtc /\ stc' = stc => Pending' = Pending
      /\ running' = running => Active' = Active
  BY DEF Handles, Pending, Active
<1> QED
  BY <1>1, <1>2, <1>4, <1>5, <1>6, EmptyFacts

\* The head of stc is nowhere else in the queues.
LEMMA HeadIsAlone ==
  ASSUME TypeOK, LineInv, ended = "no", stc # <<>>
  PROVE  Head(stc) \notin ToSet(Tail(stc)) \cup ToSet(xtc)
<1> DEFINE p == ran \o stc
           n == Len(ran)
<1>1. ran \in Seq(Tasks) /\ stc \in Seq(Tasks) /\ xtc \in Seq(Tasks) /\ n \in Nat
  BY LineFacts
<1>2. /\ Len(stc) \in Nat \ {0} /\ Len(xtc) \in Nat
      /\ Head(stc) = stc[1] /\ Len(Tail(stc)) = Len(stc) - 1 /\ Tail(stc) \in Seq(Tasks)
      /\ \A i \in 1..(Len(stc) - 1) : Tail(stc)[i] = stc[i + 1]
  BY <1>1, TailFacts
<1>3. /\ p \in Seq(Tasks) /\ Len(p) = n + Len(stc)
      /\ \A i \in 1..(n + Len(stc)) : p[i] = IF i <= n THEN ran[i] ELSE stc[i - n]
  BY <1>1, ConcatProperties
<1>4. Line = p \o xtc
  BY DEF Line
<1> HIDE DEF p
<1>5. p \in Seq(Tasks) /\ xtc \in Seq(Tasks)
  BY <1>1, <1>3
<1>6. /\ Len(p \o xtc) = Len(p) + Len(xtc)
      /\ \A i \in 1..(Len(p) + Len(xtc)) : (p \o xtc)[i] =
           IF i <= Len(p) THEN p[i] ELSE xtc[i - Len(p)]
  BY <1>5, ConcatProperties
<1>7. ASSUME NEW i \in 1..Len(stc)
      PROVE  n + i \in 1..Len(Line) /\ Line[n + i] = stc[i]
  <2>1. /\ n + i \in 1..(n + Len(stc)) /\ ~(n + i <= n) /\ (n + i) - n = i
        /\ n + i <= Len(p) /\ n + i \in 1..(Len(p) + Len(xtc))
    BY <1>1, <1>2, <1>3
  <2> QED
    BY <1>3, <1>4, <1>6, <2>1
<1>8. ASSUME NEW i \in 1..Len(xtc)
      PROVE  Len(p) + i \in 1..Len(Line) /\ Line[Len(p) + i] = xtc[i]
  <2>1. /\ Len(p) + i \in 1..(Len(p) + Len(xtc)) /\ ~(Len(p) + i <= Len(p))
        /\ (Len(p) + i) - Len(p) = i
    BY <1>1, <1>2, <1>3
  <2> QED
    BY <1>4, <1>6, <2>1
<1>9. n + 1 \in 1..Len(Line) /\ Line[n + 1] = Head(stc)
  BY <1>2, <1>7
<1>10. \A k, l \in 1..Len(Line) : Line[k] = Line[l] => k = l
  BY DEF LineInv
<1>11. ASSUME NEW i \in 1..(Len(stc) - 1), Tail(stc)[i] = Head(stc)
       PROVE  FALSE
  <2>1. i + 1 \in 1..Len(stc) /\ n + (i + 1) # n + 1
    BY <1>1, <1>2
  <2>2. n + (i + 1) \in 1..Len(Line) /\ Line[n + (i + 1)] = Head(stc)
    BY <1>2, <1>7, <1>11, <2>1
  <2> QED
    BY <1>9, <1>10, <2>1, <2>2
<1>12. ASSUME NEW i \in 1..Len(xtc), xtc[i] = Head(stc)
       PROVE  FALSE
  <2>1. Len(p) + i # n + 1
    BY <1>1, <1>2, <1>3
  <2> QED
    BY <1>8, <1>9, <1>10, <1>12, <2>1
<1>13. DOMAIN xtc = 1..Len(xtc) /\ DOMAIN Tail(stc) = 1..(Len(stc) - 1)
  BY <1>1, <1>2, LenProperties
<1> QED
  BY <1>11, <1>12, <1>13 DEF ToSet

\* Stalled is about a worker that polls: no step of the others comes to it, nor leaves it.
LEMMA StallFacts ==
  ASSUME WorkerInv
  PROVE  /\ \/ cross # {} \/ home \/ xtc # <<>> \/ stc # <<>> \/ running # <<>>
            => ~Stalled /\ cnt_sender > 0
         /\ pc # "poll" => ~Stalled
         /\ Stalled => pc = "poll" /\ cnt_sender = 0 /\ ~woken
<1>1. TypeOK /\ SendersCounted
  BY DEF WorkerInv
<1>2. cnt_sender > 0 => cnt_sender # 0
  BY <1>1 DEF TypeOK
<1> QED
  BY <1>1, <1>2, HandleFacts DEF Stalled

LEMMA WorkerSimulation ==
  ASSUME WorkerInv, Next, WorkerInv'
  PROVE  AbstractStep
<1>w. TypeOK /\ PhaseInv /\ FreshInv /\ LineInv /\ SendersCounted /\ ReturnsDrained
      /\ AssertHolds
  BY DEF WorkerInv
<1>m. /\ Mode = IF pc = "over" THEN "over"
                ELSE IF pc = "leaving" /\ ended # "ok" THEN "failed"
                ELSE IF call = "run" /\ pc # "idle" /\ ~Stalled THEN "serving"
                ELSE "idle"
      /\ Mode' = IF pc' = "over" THEN "over"
                 ELSE IF pc' = "leaving" /\ ended' # "ok" THEN "failed"
                 ELSE IF call' = "run" /\ pc' # "idle" /\ ~Stalled' THEN "serving"
                 ELSE "idle"
  <2>1. (WorkerInv => Mode = IF pc = "over" THEN "over"
                ELSE IF pc = "leaving" /\ ended # "ok" THEN "failed"
                ELSE IF call = "run" /\ pc # "idle" /\ ~Stalled THEN "serving"
                ELSE "idle")'
    BY ModeIs, PTL
  <2> QED
    BY <2>1, ModeIs
<1>s. /\ \/ cross # {} \/ home \/ xtc # <<>> \/ stc # <<>> \/ running # <<>>
         => ~Stalled /\ cnt_sender > 0
      /\ pc # "poll" => ~Stalled
      /\ Stalled => pc = "poll" /\ cnt_sender = 0 /\ ~woken
  BY StallFacts
<1>t. /\ \/ cross' # {} \/ home' \/ xtc' # <<>> \/ stc' # <<>> \/ running' # <<>>
         => ~Stalled' /\ cnt_sender' > 0
      /\ pc' # "poll" => ~Stalled'
      /\ Stalled' => pc' = "poll" /\ cnt_sender' = 0 /\ ~woken'
  <2>1. (WorkerInv =>
           /\ \/ cross # {} \/ home \/ xtc # <<>> \/ stc # <<>> \/ running # <<>>
              => ~Stalled /\ cnt_sender > 0
           /\ pc # "poll" => ~Stalled
           /\ Stalled => pc = "poll" /\ cnt_sender = 0 /\ ~woken)'
    BY StallFacts, PTL
  <2> QED
    BY <2>1
<1>v. /\ running = <<>> <=> Active = {}
      /\ cross' = cross /\ home' = home => Handles' = Handles
      /\ xtc' = xtc /\ stc' = stc => Pending' = Pending
      /\ running' = running => Active' = Active
      /\ running' = <<>> => Active' = {}
  BY <1>w, ViewFacts, EmptyFacts DEF Active
<1>h. /\ Handles \in Nat
      /\ cross # {} \/ home => Handles > 0
      /\ cross = {} /\ ~home => Handles = 0
  BY <1>w, HandleFacts
<1>f. fresh \cap (Pending \cup Active) = {}
  BY <1>w DEF FreshInv, Pending, Active
<1>n. cnt_sender \in Nat /\ \A n \in Nat : Lose(n) /\ n <= cnt_sender /\ n > 0
        => ~(cnt_sender' = 0 /\ ~woken')
  <2>1. cnt_sender \in Nat
    BY <1>w DEF TypeOK
  <2>2. ASSUME NEW n \in Nat, Lose(n), n <= cnt_sender, n > 0, cnt_sender' = 0
        PROVE  woken'
    <3>1. cnt_sender' = cnt_sender - n
      BY <2>2 DEF Lose
    <3>2. n > 0 /\ cnt_sender = n
      BY <2>1, <2>2, <3>1
    <3>3. woken' = (woken \/ (n > 0 /\ cnt_sender = n))
      BY <2>2 DEF Lose
    <3> QED
      BY <3>2, <3>3
  <2> QED
    BY <2>1, <2>2
<1>c. pc = "running" <=> running # <<>>
  BY <1>w DEF PhaseInv
\* Where the worker is changes, and the view of it at most.
<1>1. CASE PollEvent
  BY <1>m, <1>s, <1>t, <1>v, <1>1, StutterStep DEF PollEvent, pools
<1>2. CASE PollNothing
  <2>1. call # "run" \/ stc # <<>>
    BY <1>2 DEF PollNothing, MayBlock
  <2> QED
    BY <1>m, <1>s, <1>t, <1>v, <1>2, <2>1, StutterStep DEF PollNothing, pools
<1>3. CASE SpuriousEvent
  <2>1. /\ Handles' = Handles /\ Pending' = Pending /\ Active' = Active
        /\ pc' = pc /\ call' = call /\ ended' = ended /\ pc = "poll" /\ ~Stalled'
    BY <1>t, <1>v, <1>3 DEF SpuriousEvent, pools
  <2>2. CASE call = "run" /\ Stalled
    BY <1>m, <2>1, <2>2, ServeStep
  <2>3. CASE ~(call = "run" /\ Stalled)
    BY <1>m, <2>1, <2>3, StutterStep
  <2> QED
    BY <2>2, <2>3
<1>4. CASE Drained
  BY <1>m, <1>s, <1>t, <1>v, <1>4, StutterStep DEF Drained, pools
<1>5. CASE Empty
  <2>1. ~Stalled'
    BY <1>n, <1>t, <1>5 DEF Empty
  <2> QED
    BY <1>m, <1>s, <2>1, <1>v, <1>5, StutterStep DEF Empty, NextTurn, pools
<1>6. CASE Disconnected
  <2>1. ended = "no"
    BY <1>w, <1>6 DEF Disconnected, PhaseInv
  <2> QED
    BY <1>m, <1>s, <1>t, <1>v, <1>6, <2>1, StutterStep DEF Disconnected, pools
<1>7. CASE AssertFails
  <2>1. call # "run"
    BY <1>w, <1>7 DEF AssertFails, AssertHolds
  <2> QED
    BY <1>m, <1>s, <1>t, <1>v, <1>7, <2>1, StutterStep DEF AssertFails, pools
<1>8. CASE DropReceiver
  <2>1. /\ Handles' = Handles /\ Pending' = Pending /\ Active' = Active
        /\ pc = "leaving" /\ pc' = "over"
    BY <1>v, <1>8 DEF DropReceiver, pools
  <2>2. CASE ended = "ok"
    <3>1. Handles = 0 /\ Pending = {} /\ Active = {}
      BY <1>w, <1>c, <1>h, <1>v, <2>1, <2>2, EmptyFacts DEF ReturnsDrained, Pending
    <3>2. call = "run"
      BY <1>w, <2>2 DEF PhaseInv
    <3> QED
      BY <1>m, <1>s, <2>1, <2>2, <3>1, <3>2, EndStep
  <2>3. CASE ended # "ok"
    BY <1>m, <2>1, <2>3, EndStep
  <2> QED
    BY <2>2, <2>3
<1>9. ASSUME NEW how \in {"run", "one", "block"}, Call(how)
      PROVE  AbstractStep
  <2>1. /\ Handles' = Handles /\ Pending' = Pending /\ Active' = Active
        /\ pc = "idle" /\ pc' = "poll" /\ Mode = "idle"
    BY <1>m, <1>v, <1>9 DEF Call, pools
  <2>2. Mode' \in {"idle", "serving"}
    BY <1>m, <2>1
  <2> QED
    BY <2>1, <2>2, ServeStep, StutterStep
\* Tasks move.
<1>10. CASE Move
  <2>1. Pending' = Pending
    BY <1>w, <1>10, ViewFacts DEF Move, Pending
  <2> QED
    BY <1>m, <1>s, <1>t, <1>v, <1>10, <2>1, StutterStep DEF Move, pools
<1>11. CASE RunTask
  <2>1. ended = "no" /\ running = <<>>
    BY <1>w, <1>11 DEF RunTask, PhaseInv
  <2>2. Head(stc) \notin ToSet(Tail(stc)) \cup ToSet(xtc)
    BY <1>w, <1>11, <2>1, HeadIsAlone DEF RunTask
  <2>3. Head(stc) \in Pending /\ Pending' = Pending \ {Head(stc)}
    BY <1>w, <1>11, <2>2, ViewFacts DEF RunTask, Pending
  <2>4. Active = {} /\ Active' = {Head(stc)}
    BY <1>w, <1>v, <1>11, <2>1, ViewFacts DEF RunTask, Active
  <2>5. Mode' = Mode /\ Mode \in {"idle", "serving"} /\ Handles' = Handles
    BY <1>m, <1>s, <1>t, <1>v, <1>11, <2>1 DEF RunTask, pools
  <2> QED
    BY <2>3, <2>4, <2>5, RunStep
<1>12. CASE TaskReturns
  <2>1. running # <<>> /\ running' = <<>> /\ cnt_sender > 0 /\ Lose(1)
    BY <1>c, <1>s, <1>12 DEF TaskReturns
  <2>2. ~Stalled'
    BY <1>n, <1>t, <2>1
  <2>3. /\ Handles' = Handles /\ Pending' = Pending /\ Active # {} /\ Active' = {}
    BY <1>v, <1>12, <2>1 DEF TaskReturns, pools
  <2>4. Mode' = Mode
    BY <1>m, <1>s, <1>12, <2>2 DEF TaskReturns, NextTurn
  <2> QED
    BY <2>3, <2>4, ReturnStep
<1>13. CASE TaskPanics
  <2>1. Handles' = Handles /\ Active # {} /\ Active' = {} /\ Pending' \subseteq Pending
    BY <1>c, <1>v, <1>13, EmptyFacts DEF TaskPanics, End, FreeStc, Pending, pools
  <2>2. Mode = "serving" /\ Mode' = "failed"
    BY <1>m, <1>s, <1>13 DEF TaskPanics, End
  <2> QED
    BY <2>1, <2>2, FailStep
<1>14. CASE DropWorker
  <2>1. Handles' = Handles /\ Active' = {} /\ Pending' \subseteq Pending
    BY <1>v, <1>14, EmptyFacts DEF DropWorker, End, FreeStc, Pending, pools
  <2>2. Mode = "idle" /\ Mode' = "failed"
    BY <1>m, <1>14 DEF DropWorker, End
  <2> QED
    BY <2>1, <2>2, FailStep
\* The handles.
<1>15. ASSUME NEW u \in Users, NEW t \in Tasks, Send(u, t)
       PROVE  AbstractStep
  <2>1. Pending' = Pending \cup {t}
    BY <1>w, <1>15, ViewFacts DEF Send, Pending
  <2>2. /\ pc' = pc /\ call' = call /\ ended' = ended /\ cross' = cross /\ home' = home
        /\ running' = running /\ t \in fresh /\ cross # {} /\ pc # "over"
    BY <1>w, <1>15 DEF Send, pools, PhaseInv
  <2>3. Mode' = Mode /\ Mode # "over"
    BY <1>m, <1>s, <1>t, <2>2
  <2> QED
    BY <1>f, <1>h, <1>v, <2>1, <2>2, <2>3, PostStep
<1>16. ASSUME NEW u \in Users, NEW t \in Tasks, SendFails(u, t)
       PROVE  AbstractStep
  <2>1. pc = "over" /\ pc' = "over"
    BY <1>w, <1>16 DEF SendFails, PhaseInv, TypeOK
  <2> QED
    BY <1>m, <1>v, <1>16, <2>1, StutterStep DEF SendFails, pools
<1>17. ASSUME NEW t \in Tasks, Execute(t)
       PROVE  AbstractStep
  <2>1. Pending' = Pending \cup {t}
    BY <1>w, <1>17, ViewFacts DEF Execute, Pending
  <2>2. /\ pc' = pc /\ call' = call /\ ended' = ended /\ cross' = cross /\ home' = home
        /\ running' = running /\ t \in fresh /\ pc \in {"running", "idle"}
        /\ running # <<>> \/ home
    BY <1>c, <1>17 DEF Execute, pools
  <2>3. Mode' = Mode /\ Mode # "over"
    BY <1>m, <1>s, <1>t, <2>2
  <2> QED
    BY <1>f, <1>h, <1>v, <2>1, <2>2, <2>3, PostStep
<1>18. ASSUME NEW t \in Tasks, ExecuteFails(t)
       PROVE  AbstractStep
  BY <1>m, <1>v, <1>18, StutterStep DEF ExecuteFails, pools
<1>19. ASSUME NEW v \in Users, Share(v)
       PROVE  AbstractStep
  <2>1. Handles' = Handles + 1
    BY <1>w, <1>19, HandleFacts DEF Share
  <2>2. /\ pc' = pc /\ call' = call /\ ended' = ended /\ Pending' = Pending
        /\ Active' = Active /\ cross' # {} /\ (cross # {} \/ running # <<>> \/ home)
    BY <1>c, <1>v, <1>19 DEF Share
  <2>3. Mode' = Mode
    BY <1>m, <1>s, <1>t, <2>2
  <2> QED
    BY <1>h, <1>v, <2>1, <2>2, <2>3, ShareStep
<1>20. ASSUME NEW u \in Users, DropCross(u)
       PROVE  AbstractStep
  <2>1. Handles' = Handles - 1
    BY <1>w, <1>20, HandleFacts DEF DropCross
  <2>2. /\ pc' = pc /\ call' = call /\ ended' = ended /\ Pending' = Pending
        /\ Active' = Active /\ cross # {} /\ Lose(1)
    BY <1>v, <1>20 DEF DropCross
  <2>3. ~Stalled /\ ~Stalled'
    BY <1>n, <1>s, <1>t, <2>2
  <2>4. Mode' = Mode
    BY <1>m, <2>2, <2>3
  <2> QED
    BY <1>h, <2>1, <2>2, <2>4, ReleaseStep
<1>21. CASE DropHome
  <2>1. Handles' = Handles - 1 /\ Handles > 0
    BY <1>w, <1>h, <1>21, HandleFacts DEF DropHome
  <2>2. Active' = Active /\ Pending' \subseteq Pending /\ (pc # "over" => Pending' = Pending)
    BY <1>v, <1>21, EmptyFacts DEF DropHome, FreeStc, Pending
  <2>3. Mode' = Mode /\ (pc = "over" => Mode = "over")
    BY <1>m, <1>21 DEF DropHome
  <2> QED
    BY <1>h, <2>1, <2>2, <2>3, ForgetStep, ReleaseStep
<1> QED
  BY <1>1, <1>2, <1>3, <1>4, <1>5, <1>6, <1>7, <1>8, <1>9, <1>10, <1>11, <1>12, <1>13,
     <1>14, <1>15, <1>16, <1>17, <1>18, <1>19, <1>20, <1>21 DEF Next, Proceed

LEMMA WorkerStartsAsQueue == Init => Abstract!Init
<1> SUFFICES ASSUME Init
             PROVE  Abstract!Init
  OBVIOUS
<1>1. WorkerInv
  BY WorkerInitInv
<1>2. Mode \in {"idle", "serving"}
  BY <1>1, ModeIs DEF Init
<1>3. Handles = 1
  <2>1. CASE cross = {Starter} /\ home = FALSE
    BY <2>1, FS_Singleton DEF Handles
  <2>2. CASE cross = {} /\ home = TRUE
    BY <2>2, FS_EmptySet DEF Handles
  <2> QED
    BY <2>1, <2>2 DEF Init
<1>4. Pending = {} /\ Active = {}
  BY EmptyFacts DEF Init, Pending, Active
<1> QED
  BY <1>2, <1>3, <1>4 DEF Abstract!Init, Handles, Pending, Active

\* The two queues, the wakeups and the count of the senders are a TaskQueue: a task is
\* posted, run and returned from as there, and `run` ends only when nobody can post.
THEOREM ServesQueueSafely ==
  Spec => Abstract!Init /\ [][Abstract!Next]_(Abstract!vars)
<1>1. WorkerInv /\ [Next]_vars /\ WorkerInv' => [Abstract!Next]_(Abstract!vars)
  <2> SUFFICES ASSUME WorkerInv, [Next]_vars, WorkerInv'
               PROVE  AbstractStep
    BY DEF AbstractStep
  <2>1. CASE Next
    BY <2>1, WorkerSimulation
  <2>2. CASE UNCHANGED vars
    <3>1. Mode' = Mode /\ Handles' = Handles /\ Pending' = Pending /\ Active' = Active
      BY <2>2 DEF vars, Mode, Stalled, Handles, Pending, Active
    <3> QED
      BY <3>1, StutterStep
  <2> QED
    BY <2>1, <2>2
<1> QED
  BY <1>1, WorkerStartsAsQueue, WorkerInvariant, PTL DEF Spec
=============================================================================
