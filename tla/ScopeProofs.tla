---------------------------- MODULE ScopeProofs ----------------------------
(***************************************************************************)
(* Proofs about Scope, for every finite set of wrapped receivers.  The     *)
(* backbone is the count: the number of running threads is the number of   *)
(* scope pointers in existence.  From it follows that nothing is left of   *)
(* the receivers once the count has been seen at 0.                        *)
(***************************************************************************)
EXTENDS Scope, FiniteSetTheorems, TLAPS

----------------------------------------------------------------------------
(* The inductive invariant. *)

\* The scope function is left at count 0; the callback stays until count 0.
Settled ==
  /\ main = "left" => num_running_threads = 0
  /\ num_running_threads # 0 => notify

\* A panic is flagged, or on its way to be flagged by the closure it is in.
Flagged ==
  /\ unwound # {} => a_thread_panicked \/ \E w \in Wraps : closure[w] = "unwinding"
  /\ outcome = "value" => main = "left" /\ unwound = {}

ScopeInv == TypeOK /\ CountIsPointers /\ NotifiedOnce /\ Settled /\ Flagged

----------------------------------------------------------------------------
(* Counting. *)

Bit(b) == IF b THEN 1 ELSE 0

\* Two subsets of a finite set that differ in w at most.
LEMMA CountMove ==
  ASSUME NEW W, IsFiniteSet(W), NEW F \in SUBSET W, NEW G \in SUBSET W, NEW w,
         \A x \in W : x # w => (x \in F <=> x \in G)
  PROVE  /\ Cardinality(F) \in Nat
         /\ Cardinality(G) \in Nat
         /\ Cardinality(G) = Cardinality(F) + Bit(w \in G) - Bit(w \in F)
<1>1. IsFiniteSet(F) /\ IsFiniteSet(G)
  BY FS_Subset
<1>2. Cardinality(F) \in Nat /\ Cardinality(G) \in Nat
  BY <1>1, FS_CardinalityType
<1>3. CASE w \in F <=> w \in G
  <2>1. F = G
    BY <1>3
  <2> QED
    BY <1>2, <1>3, <2>1 DEF Bit
<1>4. CASE w \notin F /\ w \in G
  <2>1. G = F \cup {w}
    BY <1>4
  <2>2. Cardinality(G) = Cardinality(F) + 1
    BY <1>1, <1>4, <2>1, FS_AddElement
  <2> QED
    BY <1>2, <1>4, <2>2 DEF Bit
<1>5. CASE w \in F /\ w \notin G
  <2>1. G = F \ {w}
    BY <1>5
  <2>2. Cardinality(G) = Cardinality(F) - 1
    BY <1>1, <1>5, <2>1, FS_RemoveElement
  <2> QED
    BY <1>2, <1>5, <2>2 DEF Bit
<1> QED
  BY <1>2, <1>3, <1>4, <1>5

\* What one closure's change of state does to both counts.
LEMMA HoldersMove ==
  ASSUME TypeOK, NEW w \in Wraps, NEW s \in ClosureStates,
         closure' = [closure EXCEPT ![w] = s]
  PROVE  /\ Cardinality(DataHolders') =
              Cardinality(DataHolders) + Bit(s \in DataStates)
                                       - Bit(closure[w] \in DataStates)
         /\ Cardinality(CloneHolders') =
              Cardinality(CloneHolders) + Bit(w \in Keepers /\ s \in CloneStates)
                                        - Bit(w \in Keepers /\ closure[w] \in CloneStates)
<1>1. IsFiniteSet(Wraps) /\ IsFiniteSet(Keepers) /\ Keepers \in SUBSET Wraps
  BY ScopeAssumption, FS_Subset
<1>2. closure'[w] = s /\ \A x \in Wraps : x # w => closure'[x] = closure[x]
  BY DEF TypeOK
<1>3. /\ DataHolders \in SUBSET Wraps /\ DataHolders' \in SUBSET Wraps
      /\ \A x \in Wraps : x # w => (x \in DataHolders <=> x \in DataHolders')
      /\ w \in DataHolders <=> closure[w] \in DataStates
      /\ w \in DataHolders' <=> s \in DataStates
  BY <1>2 DEF DataHolders, DataStates
<1>4. /\ CloneHolders \in SUBSET Keepers /\ CloneHolders' \in SUBSET Keepers
      /\ \A x \in Keepers : x # w => (x \in CloneHolders <=> x \in CloneHolders')
      /\ w \in CloneHolders <=> w \in Keepers /\ closure[w] \in CloneStates
      /\ w \in CloneHolders' <=> w \in Keepers /\ s \in CloneStates
  BY <1>1, <1>2 DEF CloneHolders, CloneStates
<1>5. Cardinality(DataHolders') =
        Cardinality(DataHolders) + Bit(w \in DataHolders') - Bit(w \in DataHolders)
  BY <1>1, <1>3, CountMove
<1>6. Cardinality(CloneHolders') =
        Cardinality(CloneHolders) + Bit(w \in CloneHolders') - Bit(w \in CloneHolders)
  BY <1>1, <1>4, CountMove
<1> QED
  BY <1>3, <1>4, <1>5, <1>6 DEF Bit

LEMMA CountsAreNat ==
  ASSUME TypeOK
  PROVE  /\ IsFiniteSet(DataHolders) /\ Cardinality(DataHolders) \in Nat
         /\ IsFiniteSet(CloneHolders) /\ Cardinality(CloneHolders) \in Nat
         /\ Cardinality(MainHolders) = Bit(main \in {"body", "drop_scope"})
<1>1. IsFiniteSet(DataHolders) /\ IsFiniteSet(CloneHolders)
  BY ScopeAssumption, FS_Subset DEF DataHolders, CloneHolders
<1>2. Cardinality(MainHolders) = Bit(main \in {"body", "drop_scope"})
  BY FS_EmptySet, FS_Singleton DEF MainHolders, Bit
<1> QED
  BY <1>1, <1>2, FS_CardinalityType

\* At count 0 there is no pointer, hence no receiver that waits or runs.
LEMMA NothingAtZero ==
  ASSUME TypeOK, CountIsPointers
  PROVE  num_running_threads = 0 =>
           /\ \A w \in Wraps : closure[w] \notin DataStates
           /\ \A w \in Keepers : closure[w] \notin CloneStates
           /\ main \notin {"body", "drop_scope"}
<1> HAVE num_running_threads = 0
<1>1. /\ Cardinality(DataHolders) = 0
      /\ Cardinality(CloneHolders) = 0
      /\ main \notin {"body", "drop_scope"}
  BY CountsAreNat DEF CountIsPointers, Bit
<1>2. DataHolders = {} /\ CloneHolders = {}
  BY <1>1, CountsAreNat, FS_EmptySet
<1> QED
  BY <1>1, <1>2 DEF DataHolders, CloneHolders

----------------------------------------------------------------------------
(* Every step keeps the count. *)

\* A step that moves no closure keeps both sets of pointers.
LEMMA HoldersStay ==
  ASSUME UNCHANGED closure
  PROVE  DataHolders' = DataHolders /\ CloneHolders' = CloneHolders
BY DEF DataHolders, CloneHolders, DataStates, CloneStates

\* And one that does not leave the block of Main's pointer keeps that.
LEMMA MainHolderBit ==
  /\ Cardinality(MainHolders) = Bit(main \in {"body", "drop_scope"})
  /\ Cardinality(MainHolders') = Bit(main' \in {"body", "drop_scope"})
BY FS_EmptySet, FS_Singleton DEF MainHolders, Bit

\* The counter follows the move of closure w to state s.
Moves(w, s) ==
  num_running_threads' =
    num_running_threads
      + Bit(s \in DataStates) - Bit(closure[w] \in DataStates)
      + Bit(w \in Keepers /\ s \in CloneStates)
      - Bit(w \in Keepers /\ closure[w] \in CloneStates)

\* The count is kept when it changes by what one closure's move adds.
LEMMA CountByMove ==
  ASSUME TypeOK, CountIsPointers, NEW w \in Wraps, NEW s \in ClosureStates,
         closure' = [closure EXCEPT ![w] = s],
         UNCHANGED main, Moves(w, s)
  PROVE  CountIsPointers' /\ num_running_threads' \in Nat
<1>1. TypeOK /\ IsFiniteSet(DataHolders') /\ IsFiniteSet(CloneHolders')
  BY ScopeAssumption, FS_Subset DEF DataHolders, CloneHolders
<1>2. Cardinality(DataHolders') \in Nat /\ Cardinality(CloneHolders') \in Nat
  BY <1>1, FS_CardinalityType
<1>3. Cardinality(MainHolders') = Cardinality(MainHolders)
  BY MainHolderBit
<1>4. num_running_threads =
        Cardinality(MainHolders) + Cardinality(DataHolders) + Cardinality(CloneHolders)
  BY DEF CountIsPointers
<1>5. /\ Cardinality(MainHolders) \in {0, 1}
      /\ Cardinality(DataHolders) \in Nat /\ Cardinality(CloneHolders) \in Nat
      /\ Bit(s \in DataStates) \in {0, 1}
      /\ Bit(closure[w] \in DataStates) \in {0, 1}
      /\ Bit(w \in Keepers /\ s \in CloneStates) \in {0, 1}
      /\ Bit(w \in Keepers /\ closure[w] \in CloneStates) \in {0, 1}
  BY CountsAreNat DEF Bit
<1>6. /\ Cardinality(DataHolders') =
             Cardinality(DataHolders) + Bit(s \in DataStates)
                                      - Bit(closure[w] \in DataStates)
      /\ Cardinality(CloneHolders') =
             Cardinality(CloneHolders) + Bit(w \in Keepers /\ s \in CloneStates)
                                       - Bit(w \in Keepers /\ closure[w] \in CloneStates)
  BY HoldersMove
<1>7. num_running_threads' = Cardinality(MainHolders') + Cardinality(DataHolders')
                               + Cardinality(CloneHolders')
  BY <1>2, <1>3, <1>4, <1>5, <1>6 DEF Moves
<1> QED
  BY <1>2, <1>3, <1>5, <1>7 DEF CountIsPointers

\* The count is kept when no closure moves and it follows Main's pointer.
LEMMA CountByMain ==
  ASSUME TypeOK, CountIsPointers, UNCHANGED closure,
         num_running_threads' =
           num_running_threads + Bit(main' \in {"body", "drop_scope"})
                               - Bit(main \in {"body", "drop_scope"})
  PROVE  CountIsPointers' /\ num_running_threads' \in Nat
<1>1. num_running_threads =
        Cardinality(MainHolders) + Cardinality(DataHolders) + Cardinality(CloneHolders)
  BY DEF CountIsPointers
<1>2. /\ Bit(main \in {"body", "drop_scope"}) \in {0, 1}
      /\ Bit(main' \in {"body", "drop_scope"}) \in {0, 1}
      /\ Cardinality(DataHolders) \in Nat /\ Cardinality(CloneHolders) \in Nat
  BY CountsAreNat DEF Bit
<1>3. DataHolders' = DataHolders /\ CloneHolders' = CloneHolders
  BY HoldersStay
<1>4. num_running_threads' = Cardinality(MainHolders') + Cardinality(DataHolders')
                               + Cardinality(CloneHolders')
  BY <1>1, <1>2, <1>3, MainHolderBit
<1> QED
  BY <1>2, <1>3, <1>4, MainHolderBit DEF CountIsPointers

LEMMA CountStep ==
  ASSUME TypeOK, CountIsPointers, [Next]_vars
  PROVE  CountIsPointers' /\ num_running_threads' \in Nat
<1> USE DEF ClosureStates
<1>0. /\ num_running_threads \in Nat
      /\ closure \in [Wraps -> ClosureStates]
  BY DEF TypeOK
<1>1. ASSUME NEW t \in Wraps \cup {Main}, NEW w \in Wraps, Wrap(t, w)
      PROVE  CountIsPointers' /\ num_running_threads' \in Nat
  <2>1. closure[w] = "none" /\ closure' = [closure EXCEPT ![w] = "ready"] /\ UNCHANGED main
    BY <1>1 DEF Wrap
  <2>2. Moves(w, "ready")
    BY <1>0, <1>1, <2>1 DEF Moves, Wrap, Bit, DataStates, CloneStates, Clones
  <2> QED
    BY <2>1, <2>2, CountByMove
<1>2. ASSUME NEW t \in Wraps \cup {Main, Pool}, NEW w \in Wraps, Invoke(t, w)
      PROVE  CountIsPointers' /\ num_running_threads' \in Nat
  <2>1. closure[w] = "ready" /\ closure' = [closure EXCEPT ![w] = "running"] /\ UNCHANGED main
    BY <1>2 DEF Invoke
  <2>2. Moves(w, "running")
    BY <1>0, <1>2, <2>1 DEF Moves, Invoke, Bit, DataStates, CloneStates, Clones
  <2> QED
    BY <2>1, <2>2, CountByMove
<1>3. ASSUME NEW t \in Wraps \cup {Main, Pool}, NEW w \in Wraps, Discard(t, w)
      PROVE  CountIsPointers' /\ num_running_threads' \in Nat
  <2>1. closure[w] = "ready" /\ closure' = [closure EXCEPT ![w] = "dropping"] /\ UNCHANGED main
    BY <1>3 DEF Discard
  <2>2. Moves(w, "dropping")
    BY <1>0, <1>3, <2>1 DEF Moves, Discard, Decrement, Bit, DataStates, CloneStates, Clones
  <2> QED
    BY <2>1, <2>2, CountByMove
<1>4. ASSUME NEW w \in Wraps, Complete(w)
      PROVE  CountIsPointers' /\ num_running_threads' \in Nat
  <2>1. closure[w] = "running" /\ closure' = [closure EXCEPT ![w] = "returned"] /\ UNCHANGED main
    BY <1>4, ScopeAssumption DEF Complete, Executing
  <2>2. Moves(w, "returned")
    BY <1>0, <1>4, <2>1 DEF Moves, Complete, Bit, DataStates, CloneStates, Clones
  <2> QED
    BY <2>1, <2>2, CountByMove
<1>5. ASSUME NEW w \in Wraps, Panic(w)
      PROVE  CountIsPointers' /\ num_running_threads' \in Nat
  <2>1. closure[w] = "running" /\ closure' = [closure EXCEPT ![w] = "unwinding"] /\ UNCHANGED main
    BY <1>5, ScopeAssumption DEF Panic, Executing
  <2>2. Moves(w, "unwinding")
    BY <1>0, <1>5, <2>1 DEF Moves, Panic, Bit, DataStates, CloneStates, Clones
  <2> QED
    BY <2>1, <2>2, CountByMove
<1>6. ASSUME NEW w \in Wraps, MarkPanicked(w)
      PROVE  CountIsPointers' /\ num_running_threads' \in Nat
  <2>1. closure[w] = "unwinding" /\ closure' = [closure EXCEPT ![w] = "returned"] /\ UNCHANGED main
    BY <1>6 DEF MarkPanicked
  <2>2. Moves(w, "returned")
    BY <1>0, <1>6, <2>1 DEF Moves, MarkPanicked, Bit, DataStates, CloneStates, Clones
  <2> QED
    BY <2>1, <2>2, CountByMove
<1>7. ASSUME NEW w \in Wraps, DropData(w)
      PROVE  CountIsPointers' /\ num_running_threads' \in Nat
  <2>1. closure[w] = "returned" /\ closure' = [closure EXCEPT ![w] = "gone"] /\ UNCHANGED main
    BY <1>7 DEF DropData
  <2>2. Moves(w, "gone")
    BY <1>0, <1>7, <2>1 DEF Moves, DropData, Decrement, Bit, DataStates, CloneStates, Clones
  <2> QED
    BY <2>1, <2>2, CountByMove
<1>8. ASSUME NEW w \in Wraps, DropReceiver(w)
      PROVE  CountIsPointers' /\ num_running_threads' \in Nat
  <2>1. closure[w] = "dropping" /\ closure' = [closure EXCEPT ![w] = "gone"] /\ UNCHANGED main
    BY <1>8 DEF DropReceiver
  <2>2. Moves(w, "gone")
    BY <1>0, <1>8, <2>1 DEF Moves, DropReceiver, Decrement, Bit, DataStates, CloneStates, Clones
  <2> QED
    BY <2>1, <2>2, CountByMove <1>9. ASSUME NEW r \in {"ok", "err"}, LeaveBody(r)
      PROVE  CountIsPointers' /\ num_running_threads' \in Nat
  <2>1. main = "body"
    BY <1>9, ScopeAssumption DEF LeaveBody, Executing
  <2> QED
    BY <1>0, <1>9, <2>1, CountByMain DEF LeaveBody, Bit
<1>10. CASE DropScope
  BY <1>0, <1>10, CountByMain DEF DropScope, Decrement, Bit
<1>11. CASE CheckRunning \/ Leave \/ Unparked \/ SpuriousWake
  BY <1>0, <1>11, CountByMain DEF CheckRunning, Leave, Unparked, SpuriousWake, Bit
<1>12. ASSUME NEW t \in Wraps \cup {Main}, Notify(t)
       PROVE  CountIsPointers' /\ num_running_threads' \in Nat
  BY <1>0, <1>12, CountByMain DEF Notify, Bit
<1>13. CASE UNCHANGED vars
  BY <1>0, <1>13, CountByMain DEF vars, Bit
<1> QED
  BY <1>1, <1>2, <1>3, <1>4, <1>5, <1>6, <1>7, <1>8, <1>9, <1>10, <1>11, <1>12,
     <1>13 DEF Next

----------------------------------------------------------------------------
(* Every step keeps the invariant. *)

LEMMA TypeStep ==
  ASSUME TypeOK, num_running_threads' \in Nat, [Next]_vars
  PROVE  TypeOK'
<1> USE DEF TypeOK, ClosureStates, MainStates
<1>1. ASSUME NEW t \in Wraps \cup {Main}, Notify(t)
      PROVE  TypeOK'
  BY <1>1 DEF Notify
<1>2. ASSUME NEW w \in Wraps, NEW t \in Wraps \cup {Main}, Wrap(t, w)
      PROVE  TypeOK'
  BY <1>2 DEF Wrap
<1>3. ASSUME NEW w \in Wraps, NEW t \in Wraps \cup {Main, Pool}, Invoke(t, w)
      PROVE  TypeOK'
  BY <1>3 DEF Invoke
<1>4. ASSUME NEW w \in Wraps, NEW t \in Wraps \cup {Main, Pool}, Discard(t, w)
      PROVE  TypeOK'
  BY <1>4 DEF Discard, Decrement
<1>5. ASSUME NEW w \in Wraps, Complete(w) \/ Panic(w) \/ MarkPanicked(w)
      PROVE  TypeOK'
  BY ZenonT(30), <1>5 DEF Complete, Panic, MarkPanicked
<1>6. ASSUME NEW w \in Wraps, DropData(w)
      PROVE  TypeOK'
  BY <1>6 DEF DropData, Decrement
<1>7. ASSUME NEW w \in Wraps, DropReceiver(w)
      PROVE  TypeOK'
  BY <1>7 DEF DropReceiver, Decrement
<1>8. ASSUME NEW r \in {"ok", "err"}, LeaveBody(r)
      PROVE  TypeOK'
  BY <1>8 DEF LeaveBody
<1>9. CASE DropScope
  BY <1>9 DEF DropScope, Decrement
<1>10. CASE CheckRunning \/ Unparked \/ SpuriousWake
  BY <1>10 DEF CheckRunning, Unparked, SpuriousWake
<1>11. CASE Leave
  BY <1>11 DEF Leave
<1>12. CASE UNCHANGED vars
  BY <1>12 DEF vars
<1> QED
  BY <1>1, <1>2, <1>3, <1>4, <1>5, <1>6, <1>7, <1>8, <1>9, <1>10, <1>11, <1>12
     DEF Next

\* notifying is left alone, or one thread is done notifying, or one takes the
\* count to 0 and sets out to notify.
NotifyingStays == UNCHANGED <<notifying, notify>>
NotifyingEnds == \E t \in notifying : notifying' = notifying \ {t}
NotifyingBegins == /\ num_running_threads' = 0
                   /\ \E t : notifying' = notifying \cup {t}
                   /\ notify' = notify

\* The count only moves away from 0 in a step of someone who holds a pointer.
LEMMA ZeroStays ==
  ASSUME TypeOK, CountIsPointers, num_running_threads = 0, [Next]_vars
  PROVE  /\ num_running_threads' = 0
         /\ NotifyingStays \/ NotifyingEnds
         /\ unwound' = unwound
<1>1. /\ \A w \in Wraps : closure[w] \notin DataStates
      /\ \A w \in Keepers : closure[w] \notin CloneStates
      /\ main \notin {"body", "drop_scope"}
  BY NothingAtZero
<1>2. \A t \in Wraps \cup {Main} : ~Executing(t)
  BY <1>1, ScopeAssumption DEF Executing, DataStates
<1>3. ASSUME NEW t \in Wraps \cup {Main}, Notify(t)
      PROVE  num_running_threads' = 0 /\ NotifyingEnds /\ unwound' = unwound
  BY <1>3 DEF Notify, NotifyingEnds
<1>4. ASSUME NEW w \in Wraps,
             \/ \E t \in Wraps \cup {Main} : Wrap(t, w)
             \/ \E t \in Wraps \cup {Main, Pool} : Invoke(t, w) \/ Discard(t, w)
             \/ Complete(w) \/ Panic(w) \/ MarkPanicked(w) \/ DropData(w)
      PROVE  FALSE
  BY <1>1, <1>2, <1>4
     DEF Wrap, Invoke, Discard, Complete, Panic, MarkPanicked, DropData, DataStates
<1>5. ASSUME NEW w \in Wraps, DropReceiver(w)
      PROVE  num_running_threads' = 0 /\ NotifyingStays /\ unwound' = unwound
  BY <1>1, <1>5 DEF DropReceiver, CloneStates, NotifyingStays
<1>6. ASSUME \/ \E r \in {"ok", "err"} : LeaveBody(r)
             \/ DropScope
      PROVE  FALSE
  BY <1>1, <1>2, <1>6 DEF LeaveBody, DropScope
<1>7. CASE CheckRunning \/ Leave \/ Unparked \/ SpuriousWake
  BY <1>7 DEF CheckRunning, Leave, Unparked, SpuriousWake, NotifyingStays
<1>8. CASE UNCHANGED vars
  BY <1>8 DEF vars, NotifyingStays
<1> QED
  BY <1>3, <1>4, <1>5, <1>6, <1>7, <1>8 DEF Next

\* Away from 0, a step with nobody in notify can only be the last decrement.
LEMMA NotifyingSteps ==
  ASSUME TypeOK, num_running_threads # 0, notifying = {}, [Next]_vars
  PROVE  NotifyingStays \/ NotifyingBegins
<1>1. ASSUME NEW t \in Wraps \cup {Main}, Notify(t)
      PROVE  FALSE
  BY <1>1 DEF Notify
<1>2. ASSUME NEW w \in Wraps,
             \/ \E t \in Wraps \cup {Main} : Wrap(t, w)
             \/ \E t \in Wraps \cup {Main, Pool} : Invoke(t, w)
             \/ Complete(w) \/ Panic(w) \/ MarkPanicked(w)
      PROVE  NotifyingStays
  BY <1>2 DEF Wrap, Invoke, Complete, Panic, MarkPanicked, NotifyingStays
<1>3. ASSUME NEW t, Decrement(t), notify' = notify
      PROVE  NotifyingStays \/ NotifyingBegins
  <2>1. CASE num_running_threads = 1
    <3>1. num_running_threads' = 0 /\ notifying' = notifying \cup {t}
      BY <1>3, <2>1 DEF Decrement
    <3> QED
      BY <1>3, <3>1 DEF NotifyingBegins
  <2>2. CASE num_running_threads # 1
    BY <1>3, <2>2 DEF Decrement, NotifyingStays
  <2> QED
    BY <2>1, <2>2
<1>4. ASSUME NEW w \in Wraps,
             \/ \E t \in Wraps \cup {Main, Pool} : Discard(t, w)
             \/ DropData(w)
      PROVE  NotifyingStays \/ NotifyingBegins
  BY <1>3, <1>4 DEF Discard, DropData
<1>5. ASSUME NEW w \in Wraps, DropReceiver(w)
      PROVE  NotifyingStays \/ NotifyingBegins
  BY <1>3, <1>5 DEF DropReceiver, NotifyingStays
<1>6. CASE DropScope
  BY <1>3, <1>6 DEF DropScope
<1>7. ASSUME NEW r \in {"ok", "err"}, LeaveBody(r)
      PROVE  NotifyingStays
  BY <1>7 DEF LeaveBody, NotifyingStays
<1>8. CASE CheckRunning \/ Leave \/ Unparked \/ SpuriousWake
  BY <1>8 DEF CheckRunning, Leave, Unparked, SpuriousWake, NotifyingStays
<1>9. CASE UNCHANGED vars
  BY <1>9 DEF vars, NotifyingStays
<1> QED
  BY <1>1, <1>2, <1>4, <1>5, <1>6, <1>7, <1>8, <1>9 DEF Next

LEMMA NotifiedStep ==
  ASSUME TypeOK, CountIsPointers, Settled, NotifiedOnce, [Next]_vars
  PROVE  NotifiedOnce' /\ (num_running_threads' # 0 => notify')
<1>1. CASE num_running_threads = 0
  <2>1. num_running_threads' = 0 /\ (NotifyingStays \/ NotifyingEnds)
    BY <1>1, ZeroStays
  <2> QED
    BY <2>1 DEF NotifiedOnce, NotifyingStays, NotifyingEnds
<1>2. CASE num_running_threads # 0
  <2>1. notifying = {} /\ notify
    BY <1>2 DEF NotifiedOnce, Settled
  <2>2. NotifyingStays \/ NotifyingBegins
    BY <1>2, <2>1, NotifyingSteps
  <2> QED
    BY <2>1, <2>2 DEF NotifiedOnce, NotifyingStays, NotifyingBegins
<1> QED
  BY <1>1, <1>2

\* Main leaves at count 0, and the count stays there.
LEMMA LeftStep ==
  ASSUME TypeOK, CountIsPointers, Settled, [Next]_vars
  PROVE  main' = "left" => num_running_threads' = 0
<1>1. CASE num_running_threads = 0
  BY <1>1, ZeroStays
<1>2. CASE num_running_threads # 0
  <2>1. main # "left"
    BY <1>2 DEF Settled
  <2> QED
    BY <1>2, <2>1 DEF Next, vars, Notify, Wrap, Invoke, Complete, Panic, MarkPanicked,
       DropData, Discard, DropReceiver, LeaveBody, DropScope, CheckRunning, Leave,
       Unparked, SpuriousWake
<1> QED
  BY <1>1, <1>2

LEMMA FlaggedStep ==
  ASSUME TypeOK, CountIsPointers, Settled, Flagged, [Next]_vars
  PROVE  Flagged'
<1> USE DEF TypeOK
<1>1. ASSUME NEW w \in Wraps, Panic(w)
      PROVE  Flagged'
  <2>1. closure'[w] = "unwinding"
    BY <1>1 DEF Panic, ClosureStates
  <2>2. main # "left"
    <3>1. closure[w] = "running"
      BY <1>1, ScopeAssumption DEF Panic, Executing
    <3> QED
      BY <3>1, NothingAtZero DEF Settled, DataStates
  <2> QED
    BY <1>1, <2>1, <2>2 DEF Panic, Flagged
<1>2. ASSUME NEW w \in Wraps, MarkPanicked(w)
      PROVE  Flagged'
  BY <1>2 DEF MarkPanicked, Flagged
<1>3. CASE Leave
  <2>1. \A w \in Wraps : closure[w] # "unwinding"
    BY <1>3, NothingAtZero DEF Leave, DataStates
  <2> QED
    BY <1>3, <2>1 DEF Leave, Flagged
<1>4. ASSUME UNCHANGED <<outcome, unwound, a_thread_panicked>>,
             main = "left" => main' = "left",
             \A w \in Wraps : closure[w] = "unwinding" => closure'[w] = "unwinding"
      PROVE  Flagged'
  BY <1>4 DEF Flagged
<1>5. ASSUME NEW w \in Wraps,
             \/ \E t \in Wraps \cup {Main} : Wrap(t, w)
             \/ \E t \in Wraps \cup {Main, Pool} : Invoke(t, w) \/ Discard(t, w)
             \/ DropData(w) \/ DropReceiver(w)
      PROVE  Flagged'
  BY <1>4, <1>5 DEF Wrap, Invoke, Discard, DropData, DropReceiver
<1>6. ASSUME NEW w \in Wraps, Complete(w)
      PROVE  Flagged'
  BY <1>4, <1>6, ScopeAssumption DEF Complete, Executing
<1>7. ASSUME NEW t \in Wraps \cup {Main}, Notify(t)
      PROVE  Flagged'
  BY <1>4, <1>7 DEF Notify
<1>8. ASSUME NEW r \in {"ok", "err"}, LeaveBody(r)
      PROVE  Flagged'
  BY <1>4, <1>8, ScopeAssumption DEF LeaveBody, Executing
<1>9. CASE DropScope \/ CheckRunning \/ Unparked \/ SpuriousWake
  BY <1>4, <1>9 DEF DropScope, CheckRunning, Unparked, SpuriousWake
<1>10. CASE UNCHANGED vars
  BY <1>4, <1>10 DEF vars
<1> QED
  BY <1>1, <1>2, <1>3, <1>5, <1>6, <1>7, <1>8, <1>9, <1>10 DEF Next

----------------------------------------------------------------------------
(* The theorems. *)

LEMMA InitInv == Init => ScopeInv
<1> HAVE Init
<1>1. TypeOK
  BY DEF Init, TypeOK, ClosureStates, MainStates
<1>2. DataHolders = {} /\ CloneHolders = {}
  BY ScopeAssumption DEF Init, DataHolders, CloneHolders, DataStates, CloneStates
<1>3. CountIsPointers
  BY <1>2, MainHolderBit, FS_EmptySet DEF Init, CountIsPointers, Bit
<1>4. NotifiedOnce /\ Settled /\ Flagged
  BY DEF Init, NotifiedOnce, Settled, Flagged
<1> QED
  BY <1>1, <1>3, <1>4 DEF ScopeInv

LEMMA NextInv == ScopeInv /\ [Next]_vars => ScopeInv'
<1> SUFFICES ASSUME ScopeInv, [Next]_vars
             PROVE  ScopeInv'
  OBVIOUS
<1>1. TypeOK /\ CountIsPointers /\ NotifiedOnce /\ Settled /\ Flagged
  BY DEF ScopeInv
<1>2. CountIsPointers' /\ num_running_threads' \in Nat
  BY <1>1, CountStep
<1>3. TypeOK'
  BY <1>1, <1>2, TypeStep
<1>4. NotifiedOnce' /\ Settled'
  BY <1>1, NotifiedStep, LeftStep DEF Settled
<1>5. Flagged'
  BY <1>1, FlaggedStep
<1> QED
  BY <1>2, <1>3, <1>4, <1>5 DEF ScopeInv

\* The invariant behind what follows (scope.rs with its counter): the count is right, the
\* notify callback goes at zero, and a panic is flagged before its closure is gone.
THEOREM ScopeInvariant == Spec => []ScopeInv
BY InitInv, NextInv, PTL DEF Spec

\* Whatever the receivers of a scope do, no variable of ScopeDataSend or Main gets out of
\* its range: the counter does not fall below zero.
THEOREM TypeCorrect == Spec => []TypeOK
<1>1. ScopeInv => TypeOK
  BY DEF ScopeInv
<1> QED
  BY <1>1, ScopeInvariant, PTL

\* The counter of ScopeDataSend is always the number of pointers to it.
THEOREM CountCorrect == Spec => [](TypeOK /\ CountIsPointers)
<1>1. ScopeInv => TypeOK /\ CountIsPointers
  BY DEF ScopeInv
<1> QED
  BY <1>1, ScopeInvariant, PTL

\* For any number of wrapped receivers, on any threads, in any order: the scope
\* function does not return while one of them waits for its signal or runs.
THEOREM ScopeOutlivesReceivers == Spec => []ReceiversWithinScope
<1>1. ScopeInv => ReceiversWithinScope
  BY NothingAtZero DEF ScopeInv, Settled, ReceiversWithinScope, DataStates
<1> QED
  BY <1>1, ScopeInvariant, PTL

\* The expect on the notify callback cannot fail.
THEOREM NotifyIsTakenOnce == Spec => []NotifiedOnce
<1>1. ScopeInv => NotifiedOnce
  BY DEF ScopeInv
<1> QED
  BY <1>1, ScopeInvariant, PTL

\* A scope function that returns a value has had no receiver panic.
THEOREM PanicIsReported == Spec => []PanicReported
<1>1. ScopeInv => PanicReported
  BY DEF ScopeInv, Flagged, PanicReported
<1> QED
  BY <1>1, ScopeInvariant, PTL
=============================================================================
