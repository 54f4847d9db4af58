--------------------------- MODULE WhenAllProofs ---------------------------
(***************************************************************************)
(* Proofs about WhenAll, for any number of parts.  Of the parts 1..k, those *)
(* on the x side of split k, one at most gets there, and it carries the    *)
(* signal of all of them.                                                  *)
(***************************************************************************)
EXTENDS WhenAll, TLAPS

----------------------------------------------------------------------------
(* The inductive invariant. *)

\* Parts are started in their order, and have a signal from when they sent it.
PartsInv ==
  \A p \in Parts :
    /\ p >= next => at[p] = "idle"
    /\ at[p] \in {"idle", "running"} => said[p] = "none" /\ level[p] = Entry(p)
    /\ level[p] >= Entry(p)

\* No two of the parts on one side of a split get there.
Sole ==
  \A k \in Parts : \A p, q \in 1..k :
    level[p] >= k /\ level[q] >= k => p = q

\* The parts whose signals p carries, and the value of all of them.
Group(p) == IF level[p] = p - 1 THEN {p} ELSE 1..level[p]
Ids(k) == [i \in 1..k |-> i]
Value(p) == IF level[p] = p - 1 THEN <<p>> ELSE Ids(level[p])

\* The signal s is an outcome of the parts in S, whose value is v.
Fits(s, S, v) ==
  /\ \A q \in S : said[q] \in Kinds
  /\ \/ s = Signal("value", v) /\ \A q \in S : said[q] = "value"
     \/ s = Signal("done", None) /\ (\A q \in S : ~Failed(q)) /\ \E q \in S : said[q] = "done"
     \/ \E q \in S : Failed(q) /\ s = Signal("error", <<q>>)

\* What a part carries is an outcome of its group; its own error is the only one.
CarryInv ==
  \A p \in Parts : at[p] \in {"stopping", "arriving", "over"} =>
    /\ Fits(carry[p], Group(p), Value(p))
    /\ carry[p] = Signal("error", <<p>>) => \A q \in Group(p) \ {p} : ~Failed(q)

Blank == [x |-> None, y |-> None, error |-> None, done |-> FALSE, pending |-> 2]

\* The pair r has the signal s of one side, and nothing else.
Keeps(r, side, s) ==
  /\ r.pending = 1
  /\ r.x = IF side = "x" /\ s.kind = "value" THEN s.of ELSE None
  /\ r.y = IF side = "y" /\ s.kind = "value" THEN s.of ELSE None
  /\ r.error = IF s.kind = "error" THEN s.of ELSE None
  /\ r.done <=> s.kind = "done"

\* The part p came first at the split k; somebody has gone on from it.
Waits(p, k) == level[p] = k /\ at[p] = "over"
Through(k) == \E p \in 1..k + 1 : level[p] > k

\* A split is blank until one comes, keeps its signal until the other one comes,
\* and then there is nobody left who could come.
SplitsInv ==
  \A k \in Splits :
    /\ Through(k) => /\ \A p \in Parts : level[p] = k => at[p] = "over"
                     /\ \E p \in 1..k : level[p] >= k
    /\ ~Through(k) /\ (\A p \in Parts : ~Waits(p, k)) => split[k] = Blank
    /\ \A p \in Parts : ~Through(k) /\ Waits(p, k) =>
         /\ Keeps(split[k], Side(p), carry[p])
         /\ \A q \in Parts : Waits(q, k) => q = p

\* There is one signal for the receiver, from the part that comes through all splits.
ResultInv ==
  /\ posted # <<>> \/ result # <<>> => \E p \in Parts : Waits(p, N)
  /\ posted # <<>> => result = <<>> /\ Fits(posted[1], Parts, Ids(N))

JoinInv == TypeOK /\ PartsInv /\ Sole /\ CarryInv /\ SplitsInv /\ ResultInv

----------------------------------------------------------------------------
(* Facts about the operators. *)

LEMMA Arith ==
  /\ Parts \subseteq Nat /\ Splits \subseteq Parts
  /\ \A k \in Parts : k # N => k \in Splits
  /\ \A k \in Splits : k + 1 \in Parts /\ k < N
  /\ N \in Parts /\ 1 \in Parts
  /\ \A p \in Parts : Entry(p) \in Parts
  /\ \A k \in Parts : 1..k \subseteq Parts
BY WhenAllAssumption DEF Parts, Splits, Entry

\* A part at a level is one of those on its x side, or the one on its y side.
LEMMA Sides ==
  ASSUME TypeOK, PartsInv, NEW p \in Parts
  PROVE  /\ Group(p) \subseteq Parts /\ p \in Group(p)
         /\ Side(p) = "x" => p <= level[p] /\ Group(p) = 1..level[p] /\ Value(p) = Ids(level[p])
         /\ Side(p) = "y" => p = level[p] + 1 /\ Group(p) = {p} /\ Value(p) = <<p>>
         /\ Side(p) \in {"x", "y"}
         /\ level[p] = N => Side(p) = "x"
<1>1. level[p] \in Parts /\ level[p] >= Entry(p)
  BY DEF TypeOK, PartsInv
<1>2. level[p] # p - 1 => p <= level[p]
  BY <1>1 DEF Entry, Parts
<1>3. level[p] = N => level[p] # p - 1
  BY <1>1, WhenAllAssumption DEF Parts
<1>4. level[p] \in 1..N /\ p \in 1..N /\ N \in Nat
  BY <1>1, WhenAllAssumption DEF Parts
<1>5. CASE level[p] = p - 1
  <2>1. p = level[p] + 1
    BY <1>4, <1>5
  <2> QED
    BY <1>3, <1>5, <2>1 DEF Side, Group, Value
<1>6. CASE level[p] # p - 1
  <2>1. 1..level[p] \subseteq 1..N /\ p \in 1..level[p]
    BY <1>2, <1>4, <1>6
  <2> QED
    BY <1>2, <1>6, <2>1 DEF Side, Group, Value, Parts
<1> QED
  BY <1>5, <1>6

\* A part comes to a split with all the values on its left.
LEMMA NextIds ==
  ASSUME NEW k \in Splits
  PROVE  Ids(k) \o <<k + 1>> = Ids(k + 1)
<1>1. k \in Nat
  BY Arith
<1> QED
  BY <1>1 DEF Ids

LEMMA IdsOfParts ==
  ASSUME NEW k \in Parts
  PROVE  Ids(k) \in Seq(Parts) /\ Ids(k) # None
<1>1. k \in Nat /\ k > 0 /\ 1..k \subseteq Parts
  BY Arith DEF Parts
<1>2. Ids(k) \in Seq(Parts)
  BY <1>1 DEF Ids
<1>3. Len(Ids(k)) = k
  BY <1>1 DEF Ids
<1> QED
  BY <1>1, <1>2, <1>3 DEF None

\* What fits a group goes on to do so while its parts have said what they said.
LEMMA FitsOn ==
  ASSUME NEW s, NEW S \in SUBSET Parts, NEW v, Fits(s, S, v),
         \A q \in S : said'[q] = said[q]
  PROVE  Fits(s, S, v)'
BY DEF Fits, Failed

----------------------------------------------------------------------------
(* What a split does with the signals of its two sides. *)

\* The kinds of an outcome, one by one.
LEMMA FitsKinds ==
  ASSUME NEW s, NEW S, NEW v, Fits(s, S, v)
  PROVE  /\ s.kind \in Kinds
         /\ s.kind = "value" => s.of = v /\ \A q \in S : said[q] = "value"
         /\ s.kind = "done" => (\A q \in S : ~Failed(q)) /\ \E q \in S : said[q] = "done"
         /\ s.kind = "error" => s.of # None /\ \E q \in S : Failed(q) /\ s = Signal("error", <<q>>)
BY DEF Fits, Signal, Kinds, None

\* A split receives a signal field by field.
LEMMA ReceivedFields ==
  ASSUME NEW k \in Splits, NEW s, s.kind \in Kinds, NEW side \in {"x", "y"}, TypeOK
  PROVE  LET r == Received(k, side, s) IN
         /\ r.pending = split[k].pending - 1
         /\ r.x = IF side = "x" /\ s.kind = "value" THEN s.of ELSE split[k].x
         /\ r.y = IF side = "y" /\ s.kind = "value" THEN s.of ELSE split[k].y
         /\ r.error = IF s.kind = "error" /\ split[k].error = None THEN s.of ELSE split[k].error
         /\ r.done <=> s.kind = "done" \/ split[k].done
         /\ s.of \in Seq(Parts) /\ split[k].pending > 0 =>
              r \in [x : Seq(Parts), y : Seq(Parts), error : Seq(Parts),
                     done : BOOLEAN, pending : 0..2]
<1>1. split[k] \in [x : Seq(Parts), y : Seq(Parts), error : Seq(Parts),
                   done : BOOLEAN, pending : 0..2]
  BY DEF TypeOK
<1> DEFINE c == split[k]
<1>2. c \in [x : Seq(Parts), y : Seq(Parts), error : Seq(Parts),
             done : BOOLEAN, pending : 0..2]
  BY <1>1
<1> DEFINE b == [c EXCEPT !.pending = @ - 1]
<1>3. Received(k, side, s) =
        CASE s.kind = "value" -> [b EXCEPT ![side] = s.of]
          [] s.kind = "error" -> [b EXCEPT !.error = IF @ = None THEN s.of ELSE @]
          [] s.kind = "done" -> [b EXCEPT !.done = TRUE]
  BY DEF Received
<1> SUFFICES LET r == Received(k, side, s) IN
         /\ r.pending = c.pending - 1
         /\ r.x = IF side = "x" /\ s.kind = "value" THEN s.of ELSE c.x
         /\ r.y = IF side = "y" /\ s.kind = "value" THEN s.of ELSE c.y
         /\ r.error = IF s.kind = "error" /\ c.error = None THEN s.of ELSE c.error
         /\ r.done <=> s.kind = "done" \/ c.done
         /\ s.of \in Seq(Parts) /\ c.pending > 0 =>
              r \in [x : Seq(Parts), y : Seq(Parts), error : Seq(Parts),
                     done : BOOLEAN, pending : 0..2]
  OBVIOUS
<1> HIDE DEF c
<1>8. b = [x |-> c.x, y |-> c.y, error |-> c.error, done |-> c.done, pending |-> c.pending - 1]
  BY <1>2
<1>9. c.pending \in 0..2 /\ c.x \in Seq(Parts) /\ c.y \in Seq(Parts) /\ c.error \in Seq(Parts)
  BY <1>2
<1>10. c.done \in BOOLEAN
  BY <1>2
<1>11. c.pending > 0 => c.pending - 1 \in 0..2
  BY <1>9
<1> HIDE DEF b
<1>4. CASE s.kind = "value" /\ side = "x"
  <2>1. Received(k, side, s) = [b EXCEPT !.x = s.of]
    BY <1>3, <1>4
  <2>2. Received(k, side, s) =
          [x |-> s.of, y |-> c.y, error |-> c.error, done |-> c.done, pending |-> c.pending - 1]
    BY <1>8, <2>1
  <2> QED
    BY <1>4, <1>9, <1>10, <1>11, <2>2
<1>5. CASE s.kind = "value" /\ side = "y"
  <2>1. Received(k, side, s) = [b EXCEPT !.y = s.of]
    BY <1>3, <1>5
  <2>2. Received(k, side, s) =
          [x |-> c.x, y |-> s.of, error |-> c.error, done |-> c.done, pending |-> c.pending - 1]
    BY <1>8, <2>1
  <2> QED
    BY <1>5, <1>9, <1>10, <1>11, <2>2
<1>6. CASE s.kind = "error"
  <2>1. Received(k, side, s) = [b EXCEPT !.error = IF @ = None THEN s.of ELSE @]
    BY <1>3, <1>6
  <2>2. Received(k, side, s) =
          [x |-> c.x, y |-> c.y, error |-> IF c.error = None THEN s.of ELSE c.error,
           done |-> c.done, pending |-> c.pending - 1]
    BY <1>8, <2>1
  <2> QED
    BY <1>6, <1>9, <1>10, <1>11, <2>2
<1>7. CASE s.kind = "done"
  <2>1. Received(k, side, s) = [b EXCEPT !.done = TRUE]
    BY <1>3, <1>7
  <2>2. Received(k, side, s) =
          [x |-> c.x, y |-> c.y, error |-> c.error, done |-> TRUE, pending |-> c.pending - 1]
    BY <1>8, <2>1
  <2> QED
    BY <1>7, <1>9, <1>10, <1>11, <2>2
<1> QED
  BY <1>4, <1>5, <1>6, <1>7 DEF Kinds

\* The first signal to come to a blank split is what it keeps.
LEMMA FirstIsKept ==
  ASSUME NEW k \in Splits, split[k] = Blank, NEW s, s.kind \in Kinds,
         NEW side \in {"x", "y"}, TypeOK
  PROVE  Keeps(Received(k, side, s), side, s)
<1> DEFINE r == Received(k, side, s)
<1>1. /\ r.pending = 1
      /\ r.x = IF side = "x" /\ s.kind = "value" THEN s.of ELSE None
      /\ r.y = IF side = "y" /\ s.kind = "value" THEN s.of ELSE None
      /\ r.error = IF s.kind = "error" THEN s.of ELSE None
  BY ReceivedFields DEF Blank
<1>2. r.done <=> s.kind = "done"
  BY ReceivedFields DEF Blank
<1> QED
  BY <1>1, <1>2 DEF Keeps

\* With the second signal a split has those of both sides.
LEMMA BothAreThere ==
  ASSUME TypeOK, NEW k \in Splits, NEW s, s.kind \in Kinds, s.kind = "error" => s.of # None,
         NEW side \in {"x", "y"}, Keeps(split[k], side, s),
         NEW t, t.kind \in Kinds, NEW other \in {"x", "y"}, other # side
  PROVE  LET r == Received(k, other, t) IN
         /\ r.pending = 0
         /\ r.error = IF s.kind = "error" THEN s.of
                      ELSE IF t.kind = "error" THEN t.of ELSE None
         /\ r.done <=> s.kind = "done" \/ t.kind = "done"
         /\ s.kind = "value" /\ t.kind = "value" =>
              /\ side = "x" => r.x = s.of /\ r.y = t.of
              /\ side = "y" => r.x = t.of /\ r.y = s.of
<1> DEFINE r == Received(k, other, t)
<1>1. /\ r.pending = split[k].pending - 1
      /\ r.x = IF other = "x" /\ t.kind = "value" THEN t.of ELSE split[k].x
      /\ r.y = IF other = "y" /\ t.kind = "value" THEN t.of ELSE split[k].y
      /\ r.error = IF t.kind = "error" /\ split[k].error = None THEN t.of ELSE split[k].error
  BY ReceivedFields
<1>2. r.done <=> t.kind = "done" \/ split[k].done
  BY ReceivedFields
<1>3. /\ split[k].pending = 1
      /\ split[k].x = IF side = "x" /\ s.kind = "value" THEN s.of ELSE None
      /\ split[k].y = IF side = "y" /\ s.kind = "value" THEN s.of ELSE None
      /\ split[k].error = IF s.kind = "error" THEN s.of ELSE None
  BY DEF Keeps
<1>4. split[k].done <=> s.kind = "done"
  BY DEF Keeps
<1>5. r.done <=> s.kind = "done" \/ t.kind = "done"
  BY <1>2, <1>4
<1> HIDE DEF r
<1>6. r.pending = 0
  BY <1>1, <1>3
<1> SUFFICES
         /\ r.pending = 0
         /\ r.error = IF s.kind = "error" THEN s.of
                      ELSE IF t.kind = "error" THEN t.of ELSE None
         /\ r.done <=> s.kind = "done" \/ t.kind = "done"
         /\ s.kind = "value" /\ t.kind = "value" =>
              /\ side = "x" => r.x = s.of /\ r.y = t.of
              /\ side = "y" => r.x = t.of /\ r.y = s.of
  BY DEF r
<1>7. r.error = IF s.kind = "error" THEN s.of
               ELSE IF t.kind = "error" THEN t.of ELSE None
  BY <1>1, <1>3
<1>8. s.kind = "value" /\ t.kind = "value" =>
        /\ side = "x" => r.x = s.of /\ r.y = t.of
        /\ side = "y" => r.x = t.of /\ r.y = s.of
  BY <1>1, <1>3
<1> QED
  BY <1>5, <1>6, <1>7, <1>8

\* Of two parts at one split one is on the x side, and the other one on the y side.
LEMMA TwoSides ==
  ASSUME TypeOK, PartsInv, Sole, NEW k \in Splits, NEW p \in Parts, NEW w \in Parts,
         level[p] = k, level[w] = k, p # w
  PROVE  /\ Side(p) # Side(w)
         /\ Group(p) \cup Group(w) = 1..k + 1
<1>1. k \in Parts /\ k \in Nat /\ p \in Nat /\ w \in Nat /\ p >= 1 /\ w >= 1
  BY Arith DEF Parts
<1>2. Side(p) \in {"x", "y"} /\ Side(w) \in {"x", "y"}
  BY Sides
<1>3. CASE Side(p) = "x" /\ Side(w) = "x"
  <2>1. p \in 1..k /\ w \in 1..k
    BY <1>1, <1>3, Sides
  <2> QED
    BY <1>1, <2>1 DEF Sole
<1>4. CASE Side(p) = "y" /\ Side(w) = "y"
  BY <1>4, Sides
<1>5. ASSUME NEW a \in Parts, NEW b \in Parts, level[a] = k, level[b] = k,
             Side(a) = "x", Side(b) = "y"
      PROVE  Group(a) \cup Group(b) = 1..k + 1
  <2>1. Group(a) = 1..k /\ Group(b) = {k + 1}
    BY <1>5, Sides
  <2> QED
    BY <1>1, <2>1
<1> QED
  BY <1>2, <1>3, <1>4, <1>5

\* What the second of two parts carries on is the outcome of both groups.
LEMMA MergeFits ==
  ASSUME TypeOK, PartsInv, Sole, CarryInv, NEW k \in Splits, NEW p \in Parts, NEW w \in Parts,
         level[p] = k, at[p] = "arriving", Waits(w, k), Keeps(split[k], Side(w), carry[w])
  PROVE  LET r == Received(k, Side(p), carry[p]) IN
         /\ r.pending = 0
         /\ Fits(Merged(r), 1..k + 1, Ids(k + 1))
         /\ Merged(r) = Signal("error", <<p>>) => \A q \in (1..k + 1) \ {p} : ~Failed(q)
<1> DEFINE r == Received(k, Side(p), carry[p])
           s == carry[w]
           t == carry[p]
<1>1. p # w /\ level[w] = k /\ at[w] = "over"
  BY DEF Waits
<1>2. Side(p) # Side(w) /\ Group(p) \cup Group(w) = 1..k + 1
  BY <1>1, TwoSides
<1>3. Side(p) \in {"x", "y"} /\ Side(w) \in {"x", "y"} /\ p \in Group(p)
  BY Sides
<1>4. Fits(s, Group(w), Value(w)) /\ Fits(t, Group(p), Value(p))
  BY <1>1 DEF CarryInv
<1>5. t = Signal("error", <<p>>) => \A q \in Group(p) \ {p} : ~Failed(q)
  BY DEF CarryInv
<1>6. /\ s.kind \in Kinds
      /\ s.kind = "value" => s.of = Value(w) /\ \A q \in Group(w) : said[q] = "value"
      /\ s.kind = "done" => (\A q \in Group(w) : ~Failed(q)) /\ \E q \in Group(w) : said[q] = "done"
      /\ s.kind = "error" =>
           s.of # None /\ \E q \in Group(w) : Failed(q) /\ s = Signal("error", <<q>>)
  BY <1>4, FitsKinds
<1>7. /\ t.kind \in Kinds
      /\ t.kind = "value" => t.of = Value(p) /\ \A q \in Group(p) : said[q] = "value"
      /\ t.kind = "done" => (\A q \in Group(p) : ~Failed(q)) /\ \E q \in Group(p) : said[q] = "done"
      /\ t.kind = "error" =>
           t.of # None /\ \E q \in Group(p) : Failed(q) /\ t = Signal("error", <<q>>)
  BY <1>4, FitsKinds
<1>8. /\ r.pending = 0
      /\ r.error = IF s.kind = "error" THEN s.of ELSE IF t.kind = "error" THEN t.of ELSE None
      /\ r.done <=> s.kind = "done" \/ t.kind = "done"
      /\ s.kind = "value" /\ t.kind = "value" =>
           /\ Side(w) = "x" => r.x = s.of /\ r.y = t.of
           /\ Side(w) = "y" => r.x = t.of /\ r.y = s.of
  BY <1>2, <1>3, <1>6, <1>7, BothAreThere
<1>9. \A q \in 1..k + 1 : said[q] \in Kinds
  BY <1>2, <1>4 DEF Fits
<1>10. p \notin Group(w)
  <2>1. k \in Nat
    BY Arith
  <2>2. \/ Side(w) = "x" /\ Group(w) = 1..k /\ p = k + 1
        \/ Side(w) = "y" /\ Group(w) = {w}
    BY <1>1, <1>2, <1>3, Sides
  <2> QED
    BY <1>1, <2>1, <2>2
<1> HIDE DEF r, s, t
<1> DEFINE m == Merged(r)
<1> SUFFICES /\ Fits(m, 1..k + 1, Ids(k + 1))
             /\ m = Signal("error", <<p>>) => \A q \in (1..k + 1) \ {p} : ~Failed(q)
  BY <1>8 DEF r
<1>11. CASE s.kind = "error"
  <2>1. PICK q \in Group(w) : Failed(q) /\ s = Signal("error", <<q>>)
    BY <1>6, <1>11
  <2>2. m = Signal("error", <<q>>)
    <3>1. s.of = <<q>>
      BY <2>1 DEF Signal
    <3> QED
      BY <1>6, <1>8, <1>11, <3>1 DEF Merged
  <2>3. <<q>> # <<p>>
    BY <1>10, <2>1
  <2> QED
    BY <1>2, <1>9, <2>1, <2>2, <2>3 DEF Fits, Signal
<1>12. CASE s.kind # "error" /\ t.kind = "error"
  <2>1. PICK q \in Group(p) : Failed(q) /\ t = Signal("error", <<q>>)
    BY <1>7, <1>12
  <2>2. m = t
    <3>1. t.of = <<q>>
      BY <2>1 DEF Signal
    <3> QED
      BY <1>7, <1>8, <1>12, <2>1, <3>1 DEF Merged
  <2>3. \A x \in Group(w) : ~Failed(x)
    BY <1>6, <1>12 DEF Failed, Kinds
  <2>4. m = Signal("error", <<p>>) => \A x \in (1..k + 1) \ {p} : ~Failed(x)
    BY <1>2, <1>5, <2>2, <2>3 DEF t
  <2>5. Fits(m, 1..k + 1, Ids(k + 1))
    BY <1>2, <1>9, <2>1, <2>2 DEF Fits
  <2> QED
    BY <2>4, <2>5
<1>13. CASE s.kind # "error" /\ t.kind # "error" /\ (s.kind = "done" \/ t.kind = "done")
  <2>1. m = Signal("done", None)
    BY <1>8, <1>13 DEF Merged
  <2>2. \A q \in Group(w) : ~Failed(q)
    BY <1>6, <1>13 DEF Failed, Kinds
  <2>3. \A q \in Group(p) : ~Failed(q)
    BY <1>7, <1>13 DEF Failed, Kinds
  <2>4. \E q \in 1..k + 1 : said[q] = "done"
    BY <1>2, <1>6, <1>7, <1>13
  <2>5. \A q \in 1..k + 1 : ~Failed(q)
    BY <1>2, <2>2, <2>3
  <2>6. Fits(m, 1..k + 1, Ids(k + 1))
    BY <1>9, <2>1, <2>4, <2>5 DEF Fits
  <2> QED
    BY <2>5, <2>6
<1>14. CASE s.kind = "value" /\ t.kind = "value"
  <2>1. r.error = None /\ ~r.done
    BY <1>8, <1>14
  <2>2. m = Signal("value", r.x \o r.y)
    BY <2>1 DEF Merged
  <2>3. r.x = Ids(k) /\ r.y = <<k + 1>>
    <3>1. CASE Side(w) = "x"
      <4>1. Value(w) = Ids(k) /\ Value(p) = <<k + 1>>
        BY <1>1, <1>2, <1>3, <3>1, Sides
      <4> QED
        BY <1>6, <1>7, <1>8, <1>14, <3>1, <4>1
    <3>2. CASE Side(w) = "y"
      <4>1. Value(p) = Ids(k) /\ Value(w) = <<k + 1>>
        BY <1>1, <1>2, <1>3, <3>2, Sides
      <4> QED
        BY <1>6, <1>7, <1>8, <1>14, <3>2, <4>1
    <3> QED
      BY <1>3, <3>1, <3>2
  <2>4. m = Signal("value", Ids(k + 1))
    BY <2>2, <2>3, NextIds
  <2>5. \A q \in 1..k + 1 : said[q] = "value"
    BY <1>2, <1>6, <1>7, <1>14
  <2>6. Fits(m, 1..k + 1, Ids(k + 1))
    BY <1>9, <2>4, <2>5 DEF Fits
  <2> QED
    BY <2>5, <2>6 DEF Failed
<1> QED
  BY <1>6, <1>7, <1>11, <1>12, <1>13, <1>14 DEF Kinds

LEMMA JoinInitInv == Init => JoinInv
<1> SUFFICES ASSUME Init PROVE JoinInv
  OBVIOUS
<1>1. None \in Seq(Parts)
  BY DEF None
<1>2. Parts \subseteq Nat /\ N \in Nat /\ N >= 2
  BY Arith, WhenAllAssumption
<1>3. \A k \in Splits : split[k] = Blank
  BY DEF Init, Blank
<1>4. Blank \in [x : Seq(Parts), y : Seq(Parts), error : Seq(Parts), done : BOOLEAN, pending : 0..2]
  BY <1>1 DEF Blank
<1>5. TypeOK
  <2>1. split \in [Splits -> [x : Seq(Parts), y : Seq(Parts), error : Seq(Parts),
                             done : BOOLEAN, pending : 0..2]]
    BY <1>3, <1>4 DEF Init
  <2>2. carry \in [Parts -> [kind : Kinds \cup {"none"}, of : Seq(Parts)]]
    BY <1>1 DEF Init, Signal
  <2>3. level \in [Parts -> Parts]
    BY Arith DEF Init
  <2>4. \A queue \in {posted, result} :
          queue \in Seq([kind : Kinds, of : Seq(Parts)]) /\ Len(queue) <= 1
    <3>1. posted = <<>> /\ result = <<>>
      BY DEF Init
    <3>2. ASSUME NEW S PROVE <<>> \in Seq(S) /\ Len(<<>>) <= 1
      OBVIOUS
    <3> QED
      BY <3>1, <3>2
  <2>5. next \in 1..N + 1
    BY <1>2 DEF Init
  <2>6. said \in [Parts -> Kinds \cup {"none"}]
    BY DEF Init
  <2>7. at \in [Parts -> {"idle", "running", "stopping", "arriving", "over", "dead"}]
    BY DEF Init
  <2>8. transfer \in BOOLEAN /\ stopped \in BOOLEAN /\ inline \in BOOLEAN
    BY DEF Init
  <2>9. holder \in 0..N + 1 /\ callback \in [Lazy -> {"none", "waiting", "told", "sending"}]
    BY <1>2 DEF Init, Nobody
  <2> QED
    BY <2>1, <2>2, <2>3, <2>4, <2>5, <2>6, <2>7, <2>8, <2>9 DEF TypeOK
<1>6. \A p \in Parts : level[p] = Entry(p) /\ at[p] = "idle" /\ said[p] = "none"
  BY DEF Init
<1>7. PartsInv
  <2>1. \A p \in Parts : Entry(p) >= Entry(p)
    <3>1. \A p \in Parts : Entry(p) \in Nat
      BY Arith
    <3> QED
      BY <3>1
  <2> QED
    BY <1>6, <2>1 DEF PartsInv
<1>8. Sole
  <2> SUFFICES ASSUME NEW k \in Parts, NEW p \in 1..k, level[p] >= k PROVE p = k /\ k = 1
    BY DEF Sole
  <2>1. p \in Parts /\ k \in Nat /\ p \in Nat
    BY Arith
  <2> QED
    BY <1>6, <2>1 DEF Entry
<1>9. CarryInv
  BY <1>6 DEF CarryInv
<1>10. SplitsInv
  <2> SUFFICES ASSUME NEW k \in Splits PROVE ~Through(k) /\ \A p \in Parts : ~Waits(p, k)
    BY <1>3 DEF SplitsInv
  <2>1. ASSUME NEW p \in 1..k + 1 PROVE ~(level[p] > k)
    <3>1. p \in Parts /\ k \in Nat /\ k >= 1 /\ p \in Nat
      BY Arith, <1>2 DEF Splits, Parts
    <3> QED
      BY <1>6, <3>1 DEF Entry
  <2> QED
    BY <1>6, <2>1 DEF Through, Waits
<1>11. ResultInv
  BY DEF Init, ResultInv
<1> QED
  BY <1>5, <1>7, <1>8, <1>9, <1>10, <1>11 DEF JoinInv

----------------------------------------------------------------------------
(* What a step leaves alone. *)

\* A part that has its signal still carries it.
LEMMA CarryKept ==
  ASSUME TypeOK, PartsInv, CarryInv, NEW p \in Parts, at[p] \in {"stopping", "arriving", "over"},
         level'[p] = level[p], carry'[p] = carry[p],
         \A q \in Parts : said[q] # "none" => said'[q] = said[q]
  PROVE  /\ Fits(carry[p], Group(p), Value(p))'
         /\ (carry[p] = Signal("error", <<p>>) => \A q \in Group(p) \ {p} : ~Failed(q))'
<1>1. Fits(carry[p], Group(p), Value(p))
  BY DEF CarryInv
<1>2. Group(p) \subseteq Parts
  BY Sides
<1>3. \A q \in Group(p) : said'[q] = said[q]
  BY <1>1, <1>2 DEF Fits, Kinds
<1>10. PICK s : s = carry[p]
  OBVIOUS
<1>11. PICK S \in SUBSET Parts : S = Group(p)
  BY <1>2
<1>12. PICK v : v = Value(p)
  OBVIOUS
<1>4. s = carry[p] /\ S = Group(p) /\ v = Value(p)
  BY <1>10, <1>11, <1>12
<1>5. Group(p)' = S /\ Value(p)' = v /\ carry'[p] = s
  BY <1>4 DEF Group, Value, Ids
<1>6. Fits(s, S, v)'
  BY <1>1, <1>3, <1>4, FitsOn
<1>7. Fits(carry[p], Group(p), Value(p))'
  BY <1>5, <1>6 DEF Fits, Failed
<1>8. carry[p] = Signal("error", <<p>>) => \A q \in Group(p) \ {p} : ~Failed(q)
  BY DEF CarryInv
<1>9. (carry[p] = Signal("error", <<p>>) => \A q \in Group(p) \ {p} : ~Failed(q))'
  BY <1>3, <1>4, <1>5, <1>8 DEF Failed, Signal
<1> QED
  BY <1>7, <1>9

\* The splits are as they were when nobody comes to them or goes on.
LEMMA SplitsKept ==
  ASSUME TypeOK, SplitsInv, UNCHANGED <<level, split>>,
         \A p \in Parts : level[p] # N => (at'[p] = "over" <=> at[p] = "over"),
         \A p \in Parts : at[p] = "over" => carry'[p] = carry[p]
  PROVE  SplitsInv'
<1>1. \A k \in Splits : k # N
  BY Arith
<1>2. \A k \in Splits, p \in Parts : Waits(p, k)' <=> Waits(p, k)
  BY <1>1 DEF Waits
<1>3. \A k \in Splits : Through(k)' <=> Through(k)
  BY DEF Through
<1>4. \A p \in Parts : Side(p)' = Side(p)
  BY DEF Side
<1> SUFFICES ASSUME NEW k \in Splits
             PROVE
    /\ Through(k)' => /\ \A p \in Parts : level'[p] = k => at'[p] = "over"
                      /\ \E p \in 1..k : level'[p] >= k
    /\ ~Through(k)' /\ (\A p \in Parts : ~Waits(p, k)') => split'[k] = Blank
    /\ \A p \in Parts : ~Through(k)' /\ Waits(p, k)' =>
         /\ Keeps(split[k], Side(p), carry[p])'
         /\ \A q \in Parts : Waits(q, k)' => q = p
  BY DEF SplitsInv, Blank, None
<1>5. Through(k)' => /\ \A p \in Parts : level'[p] = k => at'[p] = "over"
                    /\ \E p \in 1..k : level'[p] >= k
  BY <1>1, <1>3 DEF SplitsInv
<1>6. ~Through(k)' /\ (\A p \in Parts : ~Waits(p, k)') => split'[k] = Blank
  BY <1>2, <1>3 DEF SplitsInv
<1>7. ASSUME NEW p \in Parts, ~Through(k)', Waits(p, k)'
      PROVE  /\ Keeps(split[k], Side(p), carry[p])'
             /\ \A q \in Parts : Waits(q, k)' => q = p
  <2>1. /\ Keeps(split[k], Side(p), carry[p])
        /\ \A q \in Parts : Waits(q, k) => q = p
    BY <1>2, <1>3, <1>7 DEF SplitsInv
  <2>2. carry'[p] = carry[p]
    BY <1>2, <1>7 DEF Waits
  <2>3. Keeps(split[k], Side(p), carry[p])'
    BY <1>4, <2>1, <2>2 DEF Keeps, None
  <2> QED
    BY <1>2, <2>1, <2>3
<1> QED
  BY <1>5, <1>6, <1>7

\* The receiver's signal, or the one that waits for the scheduler, is still there.
LEMMA ResultKept ==
  ASSUME ResultInv, UNCHANGED <<posted, result>>,
         \A p \in Parts : Waits(p, N) => Waits(p, N)',
         \A q \in Parts : said[q] # "none" => said'[q] = said[q]
  PROVE  ResultInv'
<1>1. posted # <<>> \/ result # <<>> => \E p \in Parts : Waits(p, N)'
  BY DEF ResultInv
<1>2. ASSUME posted # <<>>
      PROVE  result = <<>> /\ Fits(posted[1], Parts, Ids(N))'
  <2>1. result = <<>> /\ Fits(posted[1], Parts, Ids(N))
    BY <1>2 DEF ResultInv
  <2>2. \A q \in Parts : said'[q] = said[q]
    BY <2>1 DEF Fits, Kinds
  <2>3. PICK s, v : s = posted[1] /\ v = Ids(N)
    OBVIOUS
  <2>4. Fits(s, Parts, v)'
    BY <2>1, <2>2, <2>3, FitsOn
  <2> QED
    BY <2>1, <2>3, <2>4 DEF Fits, Failed, Ids, Parts
<1> QED
  BY <1>1, <1>2 DEF ResultInv

\* What all steps but Arrive have in common.
LEMMA OffTheSplits ==
  ASSUME JoinInv, UNCHANGED <<level, split>>,
         \A p \in Parts : level[p] # N => (at'[p] = "over" <=> at[p] = "over"),
         \A p \in Parts : at[p] \in {"stopping", "arriving", "over"} => carry'[p] = carry[p],
         \A q \in Parts : said[q] # "none" => said'[q] = said[q],
         \A p \in Parts : at'[p] \in {"stopping", "arriving", "over"} =>
            \/ at[p] \in {"stopping", "arriving", "over"}
            \/ /\ Fits(carry[p], Group(p), Value(p))'
               /\ (carry[p] = Signal("error", <<p>>) => \A q \in Group(p) \ {p} : ~Failed(q))'
  PROVE  Sole' /\ CarryInv' /\ SplitsInv'
<1>1. Sole'
  BY DEF JoinInv, Sole
<1>2. CarryInv'
  <2> SUFFICES ASSUME NEW p \in Parts, at'[p] \in {"stopping", "arriving", "over"}
               PROVE  /\ Fits(carry[p], Group(p), Value(p))'
                      /\ (carry[p] = Signal("error", <<p>>) => \A q \in Group(p) \ {p} : ~Failed(q))'
    BY DEF CarryInv
  <2>1. CASE at[p] \in {"stopping", "arriving", "over"}
    BY <2>1, CarryKept DEF JoinInv
  <2> QED
    BY <2>1
<1>3. SplitsInv'
  BY SplitsKept DEF JoinInv
<1> QED
  BY <1>1, <1>2, <1>3

----------------------------------------------------------------------------
(* The steps of the parts. *)

LEMMA StartInv ==
  ASSUME JoinInv, NEW inl \in BOOLEAN, Start(inl)
  PROVE  JoinInv'
<1>1. TypeOK /\ PartsInv
  BY DEF JoinInv
<1>2. next \in Parts /\ at[next] = "idle" /\ next \in Nat /\ Parts \subseteq Nat
  BY <1>1, Arith DEF Start, TypeOK, PartsInv
<1>3. /\ at' = [at EXCEPT ![next] = "running"] /\ next' = next + 1 /\ inline' = inl
      /\ UNCHANGED <<transfer, stopped, holder, callback, level, carry, split, posted, result, said>>
  BY DEF Start
<1>4. at'[next] = "running" /\ \A p \in Parts : p # next => at'[p] = at[p]
  BY <1>1, <1>2, <1>3 DEF TypeOK
<1>5. TypeOK'
  <2>1. next' \in 1..N + 1
    BY <1>2, <1>3, WhenAllAssumption DEF Parts
  <2>2. at' \in [Parts -> {"idle", "running", "stopping", "arriving", "over", "dead"}]
    BY <1>1, <1>2, <1>3 DEF TypeOK
  <2> QED
    BY <1>1, <1>3, <2>1, <2>2 DEF TypeOK
<1>6. PartsInv'
  <2>1. ASSUME NEW p \in Parts, p >= next' PROVE at'[p] = "idle"
    <3>1. p \in Nat /\ p >= next /\ p # next
      BY <1>2, <1>3, <2>1
    <3> QED
      BY <1>1, <1>4, <3>1 DEF PartsInv
  <2>2. ASSUME NEW p \in Parts
        PROVE  /\ at'[p] \in {"idle", "running"} => said'[p] = "none" /\ level'[p] = Entry(p)
               /\ level'[p] >= Entry(p)
    BY <1>1, <1>2, <1>3, <1>4 DEF PartsInv
  <2> QED
    BY <2>1, <2>2 DEF PartsInv, Entry
<1>7. Sole' /\ CarryInv' /\ SplitsInv'
  BY <1>2, <1>3, <1>4, OffTheSplits
<1>8. ResultInv'
  BY <1>2, <1>3, <1>4, ResultKept DEF JoinInv, Waits
<1> QED
  BY <1>5, <1>6, <1>7, <1>8 DEF JoinInv

\* A part sends its signal, on its own or from its stop callback.
LEMMA SignalsInv ==
  ASSUME JoinInv, NEW p \in Parts, NEW kind \in Kinds, Signals(p, kind),
         callback' \in [Lazy -> {"none", "waiting", "told", "sending"}]
  PROVE  JoinInv'
<1>1. TypeOK /\ PartsInv
  BY DEF JoinInv
<1>2. at[p] = "running" /\ said[p] = "none" /\ level[p] = Entry(p) /\ ~(p >= next)
  BY <1>1 DEF Signals, PartsInv
<1> DEFINE s == Signal(kind, IF kind = "done" THEN None ELSE <<p>>)
<1>3. /\ at' = [at EXCEPT ![p] = IF kind = "value" THEN "arriving" ELSE "stopping"]
      /\ carry' = [carry EXCEPT ![p] = s]
      /\ said' = [said EXCEPT ![p] = kind]
      /\ UNCHANGED <<transfer, stopped, holder, next, inline, level, split, posted, result>>
  BY DEF Signals
<1>4. /\ at'[p] \in {"stopping", "arriving"} /\ carry'[p] = s /\ said'[p] = kind
      /\ \A q \in Parts : q # p => at'[q] = at[q] /\ carry'[q] = carry[q] /\ said'[q] = said[q]
  BY <1>1, <1>3 DEF TypeOK
<1>5. s \in [kind : Kinds, of : Seq(Parts)]
  BY DEF Signal, None
<1>6. TypeOK'
  <2>1. at' \in [Parts -> {"idle", "running", "stopping", "arriving", "over", "dead"}]
    BY <1>1, <1>3 DEF TypeOK
  <2>2. carry' \in [Parts -> [kind : Kinds \cup {"none"}, of : Seq(Parts)]]
    <3>1. s \in [kind : Kinds \cup {"none"}, of : Seq(Parts)]
      BY <1>5
    <3> HIDE DEF s
    <3> QED
      BY <1>1, <1>3, <3>1 DEF TypeOK
  <2>3. said' \in [Parts -> Kinds \cup {"none"}]
    BY <1>1, <1>3 DEF TypeOK
  <2> QED
    BY <1>1, <1>3, <2>1, <2>2, <2>3 DEF TypeOK
<1>7. PartsInv'
  BY <1>1, <1>2, <1>3, <1>4 DEF PartsInv, Entry
<1>8. Group(p)' = {p} /\ Value(p)' = <<p>>
  <2>1. p \in Nat /\ p >= 1
    BY Arith DEF Parts
  <2>2. level'[p] = Entry(p)
    BY <1>2, <1>3
  <2>3. CASE p = 1
    <3>1. level'[p] = 1 /\ 1..1 = {1}
      BY <2>2, <2>3 DEF Entry
    <3>2. Ids(1) = <<1>>
      BY DEF Ids
    <3>3. level'[p] # p - 1
      BY <2>3, <3>1
    <3>4. Group(p)' = 1..1 /\ Value(p)' = Ids(1)
      BY <3>1, <3>3 DEF Group, Value, Ids
    <3> QED
      BY <2>3, <3>1, <3>2, <3>4
  <2>4. CASE p # 1
    <3>1. level'[p] = p - 1
      BY <2>2, <2>4 DEF Entry
    <3> QED
      BY <3>1 DEF Group, Value
  <2> QED
    BY <2>3, <2>4
<1>9. /\ Fits(carry[p], Group(p), Value(p))'
      /\ (carry[p] = Signal("error", <<p>>) => \A q \in Group(p) \ {p} : ~Failed(q))'
  BY <1>4, <1>8 DEF Fits, Failed, Kinds, Signal, None
<1>10. Sole' /\ CarryInv' /\ SplitsInv'
  <2>1. \A q \in Parts : level[q] # N => (at'[q] = "over" <=> at[q] = "over")
    BY <1>2, <1>4
  <2>2. \A q \in Parts : at[q] \in {"stopping", "arriving", "over"} => carry'[q] = carry[q]
    BY <1>2, <1>4
  <2>3. \A q \in Parts : said[q] # "none" => said'[q] = said[q]
    BY <1>2, <1>4
  <2>4. \A q \in Parts : at'[q] \in {"stopping", "arriving", "over"} =>
            \/ at[q] \in {"stopping", "arriving", "over"}
            \/ q = p
    BY <1>4
  <2> QED
    BY <1>3, <1>9, <2>1, <2>2, <2>3, <2>4, OffTheSplits
<1>11. ResultInv'
  BY <1>2, <1>3, <1>4, ResultKept DEF JoinInv, Waits
<1> QED
  BY <1>6, <1>7, <1>10, <1>11 DEF JoinInv

LEMMA SendInv ==
  ASSUME JoinInv, NEW p \in Parts, NEW kind \in Kinds, Send(p, kind)
  PROVE  JoinInv'
<1>1. callback' \in [Lazy -> {"none", "waiting", "told", "sending"}]
  BY DEF Send, JoinInv, TypeOK
<1> QED
  BY <1>1, SignalsInv DEF Send

LEMMA DieInv ==
  ASSUME JoinInv, NEW p \in Parts, Die(p)
  PROVE  JoinInv'
<1>1. TypeOK /\ PartsInv
  BY DEF JoinInv
<1>2. /\ at[p] = "running"
      /\ at' = [at EXCEPT ![p] = "dead"]
      /\ next' = IF inline /\ p = next - 1 THEN N + 1 ELSE next
      /\ UNCHANGED <<transfer, stopped, holder, callback, inline, level, carry, split,
                     posted, result, said>>
  BY DEF Die
<1>3. at'[p] = "dead" /\ \A q \in Parts : q # p => at'[q] = at[q]
  BY <1>1, <1>2 DEF TypeOK
<1>4. next' = N + 1 \/ next' = next
  BY <1>2
<1>5. TypeOK'
  <2>1. at' \in [Parts -> {"idle", "running", "stopping", "arriving", "over", "dead"}]
    BY <1>1, <1>2 DEF TypeOK
  <2>2. next' \in 1..N + 1
    BY <1>1, <1>4, WhenAllAssumption DEF TypeOK
  <2> QED
    BY <1>1, <1>2, <2>1, <2>2 DEF TypeOK
<1>6. PartsInv'
  <2>1. ASSUME NEW q \in Parts, q >= next' PROVE at'[q] = "idle"
    <3>1. q \in 1..N /\ N \in Nat
      BY WhenAllAssumption DEF Parts
    <3>2. next' = next
      BY <1>4, <2>1, <3>1
    <3> QED
      BY <1>1, <1>2, <1>3, <2>1, <3>2 DEF PartsInv
  <2> QED
    BY <1>1, <1>2, <1>3, <2>1 DEF PartsInv, Entry
<1>7. Sole' /\ CarryInv' /\ SplitsInv'
  BY <1>2, <1>3, OffTheSplits
<1>8. ResultInv'
  BY <1>2, <1>3, ResultKept DEF JoinInv, Waits
<1> QED
  BY <1>5, <1>6, <1>7, <1>8 DEF JoinInv

----------------------------------------------------------------------------
(* The steps of the stop source. *)

\* A step that is of the flag, the mutex and the callbacks only.
LEMMA OfTheStop ==
  ASSUME JoinInv, stopped' \in BOOLEAN, holder' \in 0..N + 1,
         callback' \in [Lazy -> {"none", "waiting", "told", "sending"}],
         UNCHANGED <<transfer, next, inline, at, level, carry, split, posted, result, said>>
  PROVE  JoinInv'
<1>1. TypeOK'
  BY DEF JoinInv, TypeOK
<1>2. PartsInv'
  BY DEF JoinInv, PartsInv, Entry
<1>3. Sole' /\ CarryInv' /\ SplitsInv'
  BY OffTheSplits
<1>4. ResultInv'
  BY ResultKept DEF JoinInv, Waits
<1> QED
  BY <1>1, <1>2, <1>3, <1>4 DEF JoinInv

LEMMA LockInv ==
  ASSUME JoinInv, NEW who \in 0..N + 1, Lock(who)
  PROVE  JoinInv'
BY OfTheStop DEF Lock, JoinInv, TypeOK

LEMMA RequestStopInv ==
  ASSUME JoinInv, NEW p \in Parts, RequestStop(p)
  PROVE  JoinInv'
<1>1. p \in 0..N + 1
  BY WhenAllAssumption DEF Parts
<1> QED
  BY <1>1, LockInv DEF RequestStop

LEMMA OuterStopInv ==
  ASSUME JoinInv, OuterStop
  PROVE  JoinInv'
<1>1. Outer \in 0..N + 1
  BY WhenAllAssumption DEF Outer
<1> QED
  BY <1>1, LockInv DEF OuterStop

LEMMA RegisterInv ==
  ASSUME JoinInv, NEW q \in Lazy, Register(q)
  PROVE  JoinInv'
<1>1. callback' \in [Lazy -> {"none", "waiting", "told", "sending"}]
  BY DEF Register, JoinInv, TypeOK
<1> QED
  BY <1>1, OfTheStop DEF Register, JoinInv, TypeOK

LEMMA OuterReturnInv ==
  ASSUME JoinInv, OuterReturn
  PROVE  JoinInv'
<1>1. holder' \in 0..N + 1
  BY WhenAllAssumption DEF OuterReturn, Nobody
<1> QED
  BY <1>1, OfTheStop DEF OuterReturn, JoinInv, TypeOK

LEMMA InvokeInv ==
  ASSUME JoinInv, NEW q \in Lazy, Invoke(q)
  PROVE  JoinInv'
<1>1. callback' \in [Lazy -> {"none", "waiting", "told", "sending"}]
  BY DEF Invoke, JoinInv, TypeOK
<1>2. CASE UNCHANGED <<transfer, stopped, holder, next, inline, at, level, carry, split,
                       posted, result, said>>
  BY <1>1, <1>2, OfTheStop DEF JoinInv, TypeOK
<1>3. ASSUME NEW kind \in InCallback, Signals(q, kind) PROVE JoinInv'
  <2>1. q \in Parts /\ kind \in Kinds
    BY WhenAllAssumption DEF Parts, Kinds
  <2> QED
    BY <1>1, <1>3, <2>1, SignalsInv
<1> QED
  BY <1>2, <1>3 DEF Invoke

\* A part that has requested the stop goes on to its split.
LEMMA ReturnInv ==
  ASSUME JoinInv, NEW p \in Parts, Return(p)
  PROVE  JoinInv'
<1>1. TypeOK /\ PartsInv
  BY DEF JoinInv
<1>2. /\ at[p] = "stopping" /\ holder' = Nobody
      /\ at' = [at EXCEPT ![p] = "arriving"]
      /\ UNCHANGED <<transfer, stopped, callback, next, inline, level, carry, split,
                     posted, result, said>>
  BY DEF Return
<1>3. at'[p] = "arriving" /\ \A q \in Parts : q # p => at'[q] = at[q]
  BY <1>1, <1>2 DEF TypeOK
<1>4. TypeOK'
  <2>1. at' \in [Parts -> {"idle", "running", "stopping", "arriving", "over", "dead"}]
    BY <1>1, <1>2 DEF TypeOK
  <2>2. holder' \in 0..N + 1
    BY <1>2, WhenAllAssumption DEF Nobody
  <2> QED
    BY <1>1, <1>2, <2>1, <2>2 DEF TypeOK
<1>5. PartsInv'
  BY <1>1, <1>2, <1>3 DEF PartsInv, Entry
<1>6. Sole' /\ CarryInv' /\ SplitsInv'
  BY <1>2, <1>3, OffTheSplits
<1>7. ResultInv'
  BY <1>2, <1>3, ResultKept DEF JoinInv, Waits
<1> QED
  BY <1>4, <1>5, <1>6, <1>7 DEF JoinInv

----------------------------------------------------------------------------
(* The steps of the receiver. *)

\* Who comes through all the splits finds the receiver there, with a signal for it.
LEMMA LastIsAlone ==
  ASSUME JoinInv, NEW p \in Parts, at[p] = "arriving", level[p] = N
  PROVE  /\ posted = <<>> /\ result = <<>>
         /\ Fits(carry[p], Parts, Ids(N))
         /\ carry[p] \in [kind : Kinds, of : Seq(Parts)]
<1>1. TypeOK /\ PartsInv /\ Sole /\ CarryInv /\ ResultInv
  BY DEF JoinInv
<1>2. \A q \in Parts : level[q] = N => q = p
  BY <1>1, Arith DEF Sole, Parts
<1>3. posted = <<>> /\ result = <<>>
  BY <1>1, <1>2 DEF ResultInv, Waits
<1>4. Group(p) = Parts /\ Value(p) = Ids(N)
  BY <1>1, Sides DEF Parts
<1>5. Fits(carry[p], Parts, Ids(N))
  BY <1>1, <1>4 DEF CarryInv
<1>6. carry[p].kind \in Kinds
  BY <1>5, FitsKinds
<1>7. carry[p] \in [kind : Kinds, of : Seq(Parts)]
  BY <1>1, <1>6 DEF TypeOK
<1> QED
  BY <1>3, <1>5, <1>7

\* The part p is over, at the last level.
LEMMA LastIsOver ==
  ASSUME JoinInv, NEW p \in Parts, at[p] = "arriving", level[p] = N,
         at' = [at EXCEPT ![p] = "over"],
         UNCHANGED <<transfer, stopped, holder, callback, next, inline, level, carry, split, said>>
  PROVE  /\ PartsInv' /\ Sole' /\ CarryInv' /\ SplitsInv' /\ Waits(p, N)'
         /\ at' \in [Parts -> {"idle", "running", "stopping", "arriving", "over", "dead"}]
<1>1. TypeOK /\ PartsInv
  BY DEF JoinInv
<1>2. at'[p] = "over" /\ \A q \in Parts : q # p => at'[q] = at[q]
  BY <1>1 DEF TypeOK
<1>3. PartsInv'
  BY <1>1, <1>2 DEF PartsInv, Entry
<1>4. Sole' /\ CarryInv' /\ SplitsInv'
  BY <1>2, OffTheSplits
<1>5. Waits(p, N)'
  BY <1>2 DEF Waits
<1>6. at' \in [Parts -> {"idle", "running", "stopping", "arriving", "over", "dead"}]
  BY <1>1 DEF TypeOK
<1> QED
  BY <1>3, <1>4, <1>5, <1>6

LEMMA OneSignal ==
  ASSUME NEW S, NEW s \in S, NEW queue, queue = <<>>
  PROVE  /\ Append(queue, s) = <<s>> /\ <<s>> \in Seq(S)
         /\ Len(<<s>>) = 1 /\ <<s>>[1] = s /\ <<s>> # <<>>
OBVIOUS

LEMMA ItsHead ==
  ASSUME NEW S, NEW queue \in Seq(S), queue # <<>>
  PROVE  Head(queue) = queue[1] /\ Head(queue) \in S
OBVIOUS

LEMMA FinishInv ==
  ASSUME JoinInv, NEW p \in Parts, Finish(p)
  PROVE  JoinInv'
<1>1. TypeOK
  BY DEF JoinInv
<1>2. /\ at[p] = "arriving" /\ level[p] = N
      /\ result' = Append(result, carry[p])
      /\ at' = [at EXCEPT ![p] = "over"]
      /\ UNCHANGED <<transfer, stopped, holder, callback, next, inline, level, carry, split,
                     posted, said>>
  BY DEF Finish
<1>3. /\ posted = <<>> /\ result = <<>>
      /\ carry[p] \in [kind : Kinds, of : Seq(Parts)]
  BY <1>2, LastIsAlone
<1>4. /\ PartsInv' /\ Sole' /\ CarryInv' /\ SplitsInv' /\ Waits(p, N)'
      /\ at' \in [Parts -> {"idle", "running", "stopping", "arriving", "over", "dead"}]
  BY <1>2, LastIsOver
<1>5. result' \in Seq([kind : Kinds, of : Seq(Parts)]) /\ Len(result') <= 1
  BY <1>2, <1>3, OneSignal
<1>6. TypeOK'
  BY <1>1, <1>2, <1>4, <1>5 DEF TypeOK
<1>7. ResultInv'
  BY <1>2, <1>3, <1>4 DEF ResultInv
<1> QED
  BY <1>4, <1>6, <1>7 DEF JoinInv

LEMMA TransferInv ==
  ASSUME JoinInv, NEW p \in Parts, Transfer(p)
  PROVE  JoinInv'
<1>1. TypeOK
  BY DEF JoinInv
<1>2. /\ at[p] = "arriving" /\ level[p] = N
      /\ posted' = Append(posted, carry[p])
      /\ at' = [at EXCEPT ![p] = "over"]
      /\ UNCHANGED <<transfer, stopped, holder, callback, next, inline, level, carry, split,
                     result, said>>
  BY DEF Transfer
<1>3. /\ posted = <<>> /\ result = <<>> /\ Fits(carry[p], Parts, Ids(N))
      /\ carry[p] \in [kind : Kinds, of : Seq(Parts)]
  BY <1>2, LastIsAlone
<1>4. /\ PartsInv' /\ Sole' /\ CarryInv' /\ SplitsInv' /\ Waits(p, N)'
      /\ at' \in [Parts -> {"idle", "running", "stopping", "arriving", "over", "dead"}]
  BY <1>2, LastIsOver
<1>5. /\ posted' \in Seq([kind : Kinds, of : Seq(Parts)]) /\ Len(posted') <= 1
      /\ posted'[1] = carry[p]
  BY <1>2, <1>3, OneSignal
<1>6. TypeOK'
  BY <1>1, <1>2, <1>4, <1>5 DEF TypeOK
<1>7. ResultInv'
  <2>1. PICK s, v : s = carry[p] /\ v = Ids(N)
    OBVIOUS
  <2>2. Fits(s, Parts, v)'
    BY <1>2, <1>3, <2>1, FitsOn
  <2>3. Fits(posted[1], Parts, Ids(N))'
    BY <1>5, <2>1, <2>2 DEF Fits, Failed, Ids, Parts
  <2> QED
    BY <1>2, <1>3, <1>4, <2>3 DEF ResultInv
<1> QED
  BY <1>4, <1>6, <1>7 DEF JoinInv

LEMMA RunPostedInv ==
  ASSUME JoinInv, RunPosted
  PROVE  JoinInv'
<1>1. TypeOK /\ PartsInv /\ ResultInv
  BY DEF JoinInv
<1>2. /\ posted # <<>> /\ posted' = <<>>
      /\ result' = Append(result, Head(posted))
      /\ UNCHANGED <<transfer, stopped, holder, callback, next, inline, at, level, carry,
                     split, said>>
  BY DEF RunPosted
<1>3. result = <<>> /\ \E p \in Parts : Waits(p, N)
  BY <1>1, <1>2 DEF ResultInv
<1>4. Head(posted) \in [kind : Kinds, of : Seq(Parts)]
  <2>1. posted \in Seq([kind : Kinds, of : Seq(Parts)])
    BY <1>1 DEF TypeOK
  <2> QED
    BY <1>2, <2>1, ItsHead
<1>5. result' \in Seq([kind : Kinds, of : Seq(Parts)]) /\ Len(result') <= 1
  <2>1. PICK s \in [kind : Kinds, of : Seq(Parts)] : s = Head(posted)
    BY <1>4
  <2>2. result' = <<s>>
    BY <1>2, <1>3, <2>1, OneSignal
  <2> QED
    BY <2>2, OneSignal
<1>6. posted' \in Seq([kind : Kinds, of : Seq(Parts)]) /\ Len(posted') <= 1
  BY <1>2
<1>7. TypeOK'
  BY <1>1, <1>2, <1>5, <1>6 DEF TypeOK
<1>8. PartsInv'
  BY <1>1, <1>2 DEF PartsInv, Entry
<1>9. Sole' /\ CarryInv' /\ SplitsInv'
  BY <1>2, OffTheSplits
<1>10. ResultInv'
  BY <1>2, <1>3 DEF ResultInv, Waits
<1> QED
  BY <1>7, <1>8, <1>9, <1>10 DEF JoinInv

----------------------------------------------------------------------------
(* The steps of the splits. *)

\* While a part comes to a split, nobody has gone on from it: no side comes twice.
LEMMA ComesOnce ==
  ASSUME JoinInv, NEW p \in Parts, at[p] = "arriving", level[p] # N
  PROVE  level[p] \in Splits /\ ~Through(level[p])
<1>1. level[p] \in Splits
  BY Arith DEF JoinInv, TypeOK
<1> QED
  BY <1>1 DEF JoinInv, SplitsInv

\* A split that nobody comes to is as it was.
LEMMA OtherSplits ==
  ASSUME JoinInv, NEW k \in Splits, split'[k] = split[k],
         Through(k)' <=> Through(k),
         \A q \in Parts : level[q] = k \/ level'[q] = k =>
           at'[q] = at[q] /\ level'[q] = level[q] /\ carry'[q] = carry[q],
         \A q \in Parts : level[q] >= k => level'[q] >= k
  PROVE  /\ Through(k)' => /\ \A p \in Parts : level'[p] = k => at'[p] = "over"
                           /\ \E p \in 1..k : level'[p] >= k
         /\ ~Through(k)' /\ (\A p \in Parts : ~Waits(p, k)') => split'[k] = Blank
         /\ \A p \in Parts : ~Through(k)' /\ Waits(p, k)' =>
              /\ Keeps(split'[k], Side(p)', carry'[p])
              /\ \A q \in Parts : Waits(q, k)' => q = p
<1>1. SplitsInv
  BY DEF JoinInv
<1>2. \A q \in Parts : Waits(q, k)' <=> Waits(q, k)
  BY DEF Waits
<1>3. Through(k)' => /\ \A p \in Parts : level'[p] = k => at'[p] = "over"
                    /\ \E p \in 1..k : level'[p] >= k
  <2>1. 1..k \subseteq Parts
    BY Arith
  <2> QED
    BY <1>1, <2>1 DEF SplitsInv
<1>4. ~Through(k)' /\ (\A p \in Parts : ~Waits(p, k)') => split'[k] = Blank
  BY <1>1, <1>2 DEF SplitsInv
<1>5. ASSUME NEW p \in Parts, ~Through(k)', Waits(p, k)'
      PROVE  /\ Keeps(split'[k], Side(p)', carry'[p])
             /\ \A q \in Parts : Waits(q, k)' => q = p
  <2>1. /\ Keeps(split[k], Side(p), carry[p])
        /\ \A q \in Parts : Waits(q, k) => q = p
    BY <1>1, <1>2, <1>5 DEF SplitsInv
  <2>2. carry'[p] = carry[p] /\ Side(p)' = Side(p)
    BY <1>5 DEF Waits, Side
  <2> QED
    BY <1>2, <2>1, <2>2
<1> QED
  BY <1>3, <1>4, <1>5

\* The first one to come to a split leaves its signal, and is over.
LEMMA FirstInv ==
  ASSUME JoinInv, NEW p \in Parts, Arrive(p), NEW k \in Splits, level[p] = k,
         ~Ready(Received(k, Side(p), carry[p]))
  PROVE  JoinInv'
<1> DEFINE r == Received(k, Side(p), carry[p])
<1>1. /\ TypeOK /\ PartsInv /\ Sole /\ CarryInv /\ SplitsInv
      /\ at[p] = "arriving"
  BY DEF JoinInv, Arrive
<1>2. k # N /\ ~Through(k)
  <2>1. k # N
    BY Arith
  <2> QED
    BY <1>1, <2>1, ComesOnce
<1>3. /\ split' = [split EXCEPT ![k] = r]
      /\ at' = [at EXCEPT ![p] = "over"]
      /\ UNCHANGED <<transfer, stopped, holder, callback, next, inline, level, carry,
                     posted, result, said>>
  BY DEF Arrive
<1>4. at'[p] = "over" /\ \A q \in Parts : q # p => at'[q] = at[q]
  BY <1>1, <1>3 DEF TypeOK
<1>5. Fits(carry[p], Group(p), Value(p)) /\ Side(p) \in {"x", "y"}
  BY <1>1, Sides DEF CarryInv
<1>6. carry[p].kind \in Kinds /\ carry[p].of \in Seq(Parts)
  BY <1>1, <1>5, FitsKinds DEF TypeOK
<1>7. \A q \in Parts : ~Waits(q, k)
  <2> SUFFICES ASSUME NEW w \in Parts, Waits(w, k) PROVE FALSE
    OBVIOUS
  <2>1. Keeps(split[k], Side(w), carry[w])
    BY <1>1, <1>2 DEF SplitsInv
  <2>2. r.pending = 0
    BY <1>1, <1>2, <2>1, MergeFits
  <2> QED
    BY <2>2 DEF Ready
<1>8. split[k] = Blank
  BY <1>1, <1>2, <1>7 DEF SplitsInv
<1>9. Keeps(r, Side(p), carry[p])
  BY <1>1, <1>2, <1>5, <1>6, <1>8, FirstIsKept
<1>10. r \in [x : Seq(Parts), y : Seq(Parts), error : Seq(Parts), done : BOOLEAN, pending : 0..2]
  <2>1. split[k].pending > 0
    BY <1>8 DEF Blank
  <2> QED
    BY <1>1, <1>2, <1>5, <1>6, <2>1, ReceivedFields
<1> HIDE DEF r
<1>11. split'[k] = r /\ \A j \in Splits : j # k => split'[j] = split[j]
  BY <1>1, <1>2, <1>3 DEF TypeOK
<1>12. TypeOK'
  <2>1. at' \in [Parts -> {"idle", "running", "stopping", "arriving", "over", "dead"}]
    BY <1>1, <1>3 DEF TypeOK
  <2>2. split' \in [Splits -> [x : Seq(Parts), y : Seq(Parts), error : Seq(Parts),
                              done : BOOLEAN, pending : 0..2]]
    BY <1>1, <1>3, <1>10 DEF TypeOK
  <2> QED
    BY <1>1, <1>3, <2>1, <2>2 DEF TypeOK
<1>13. PartsInv'
  BY <1>1, <1>3, <1>4 DEF PartsInv, Entry
<1>14. Sole'
  BY <1>1, <1>3 DEF Sole
<1>15. CarryInv'
  <2> SUFFICES ASSUME NEW q \in Parts, at'[q] \in {"stopping", "arriving", "over"}
               PROVE  /\ Fits(carry[q], Group(q), Value(q))'
                      /\ (carry[q] = Signal("error", <<q>>) => \A u \in Group(q) \ {q} : ~Failed(u))'
    BY DEF CarryInv
  <2>1. at[q] \in {"stopping", "arriving", "over"}
    BY <1>1, <1>4
  <2> QED
    BY <1>1, <1>3, <2>1, CarryKept
<1>16. SplitsInv'
  <2>1. \A j \in Splits : Through(j)' <=> Through(j)
    BY <1>3 DEF Through
  <2>2. \A q \in Parts : Side(q)' = Side(q)
    BY <1>3 DEF Side
  <2>3. \A q \in Parts : Waits(q, k)' <=> q = p
    BY <1>3, <1>4, <1>7 DEF Waits
  <2> SUFFICES ASSUME NEW j \in Splits
               PROVE
         /\ Through(j)' => /\ \A q \in Parts : level'[q] = j => at'[q] = "over"
                           /\ \E q \in 1..j : level'[q] >= j
         /\ ~Through(j)' /\ (\A q \in Parts : ~Waits(q, j)') => split'[j] = Blank
         /\ \A q \in Parts : ~Through(j)' /\ Waits(q, j)' =>
              /\ Keeps(split'[j], Side(q)', carry'[q])
              /\ \A u \in Parts : Waits(u, j)' => u = q
    BY DEF SplitsInv, Keeps, Blank, None
  <2>4. CASE j = k
    <3>1. Keeps(split'[j], Side(p)', carry'[p])
      BY <1>3, <1>9, <1>11, <2>2, <2>4
    <3>2. \A q \in Parts : Waits(q, j)' <=> q = p
      BY <2>3, <2>4
    <3>3. ~Through(j)'
      BY <1>2, <2>1, <2>4
    <3> QED
      BY <3>1, <3>2, <3>3
  <2>5. CASE j # k
    <3>1. level[p] # j
      BY <2>5
    <3> QED
      BY <1>3, <1>4, <1>11, <2>1, <2>5, <3>1, OtherSplits
  <2> QED
    BY <2>4, <2>5
<1>17. ResultInv'
  BY <1>3, <1>4, ResultKept DEF JoinInv, Waits
<1> QED
  BY <1>12, <1>13, <1>14, <1>15, <1>16, <1>17 DEF JoinInv

\* The second one takes the signal of both sides on to the next split.
LEMMA SecondInv ==
  ASSUME JoinInv, NEW p \in Parts, Arrive(p), NEW k \in Splits, level[p] = k,
         Ready(Received(k, Side(p), carry[p]))
  PROVE  JoinInv'
<1> DEFINE r == Received(k, Side(p), carry[p])
           m == Merged(r)
<1>1. /\ TypeOK /\ PartsInv /\ Sole /\ CarryInv /\ SplitsInv
      /\ at[p] = "arriving"
  BY DEF JoinInv, Arrive
<1>2. k # N /\ ~Through(k)
  <2>1. k # N
    BY Arith
  <2> QED
    BY <1>1, <2>1, ComesOnce
<1>3. /\ split' = [split EXCEPT ![k] = r]
      /\ level' = [level EXCEPT ![p] = k + 1]
      /\ carry' = [carry EXCEPT ![p] = m]
      /\ UNCHANGED <<transfer, stopped, holder, callback, next, inline, at, posted, result, said>>
  BY DEF Arrive
<1>4. Fits(carry[p], Group(p), Value(p)) /\ Side(p) \in {"x", "y"}
  BY <1>1, Sides DEF CarryInv
<1>5. carry[p].kind \in Kinds /\ carry[p].of \in Seq(Parts)
  BY <1>1, <1>4, FitsKinds DEF TypeOK
<1>6. PICK w \in Parts : Waits(w, k)
  <2> SUFFICES ASSUME \A q \in Parts : ~Waits(q, k) PROVE FALSE
    OBVIOUS
  <2>1. split[k] = Blank
    BY <1>1, <1>2 DEF SplitsInv
  <2>2. Keeps(r, Side(p), carry[p])
    BY <1>1, <1>4, <1>5, <2>1, FirstIsKept
  <2> QED
    BY <2>2 DEF Keeps, Ready
<1>7. Keeps(split[k], Side(w), carry[w])
  BY <1>1, <1>2, <1>6 DEF SplitsInv
<1>8. /\ Fits(m, 1..k + 1, Ids(k + 1))
      /\ m = Signal("error", <<p>>) => \A q \in (1..k + 1) \ {p} : ~Failed(q)
  BY <1>1, <1>6, <1>7, MergeFits
<1>9. r \in [x : Seq(Parts), y : Seq(Parts), error : Seq(Parts), done : BOOLEAN, pending : 0..2]
  <2>1. split[k].pending > 0
    BY <1>7 DEF Keeps
  <2> QED
    BY <1>1, <1>4, <1>5, <2>1, ReceivedFields
<1> HIDE DEF r, m
<1>10. split'[k] = r /\ \A j \in Splits : j # k => split'[j] = split[j]
  BY <1>1, <1>3 DEF TypeOK
<1>11. /\ level'[p] = k + 1 /\ carry'[p] = m
       /\ \A q \in Parts : q # p => level'[q] = level[q] /\ carry'[q] = carry[q]
  BY <1>1, <1>3 DEF TypeOK
<1>12. /\ k \in Nat /\ k + 1 \in Parts /\ 1..k + 1 \subseteq Parts /\ Parts \subseteq Nat
       /\ \A q \in Parts : level[q] \in Nat /\ level'[q] \in Nat
  <2>1. k \in Nat /\ k + 1 \in Parts /\ Parts \subseteq Nat
    BY Arith
  <2>2. 1..k + 1 \subseteq Parts
    BY <2>1, Arith
  <2>3. \A q \in Parts : level[q] \in Nat
    BY <1>1, <2>1 DEF TypeOK
  <2> QED
    BY <1>11, <2>1, <2>2, <2>3
<1>13. p \in 1..k + 1
  <2>1. p >= 1 /\ p <= k + 1
    BY <1>1, <1>4, <1>12, Sides DEF Parts
  <2> QED
    BY <1>12, <2>1
<1>14. TypeOK'
  <2>1. m \in [kind : Kinds \cup {"none"}, of : Seq(Parts)]
    <3>1. Ids(k + 1) \in Seq(Parts)
      BY <1>12, IdsOfParts
    <3>2. None \in Seq(Parts) /\ \A q \in Parts : <<q>> \in Seq(Parts)
      BY DEF None
    <3>3. \A q \in 1..k + 1 : <<q>> \in Seq(Parts)
      BY <1>12, <3>2
    <3>4. ASSUME NEW kind \in Kinds, NEW of \in Seq(Parts)
          PROVE  Signal(kind, of) \in [kind : Kinds \cup {"none"}, of : Seq(Parts)]
      BY DEF Signal
    <3>5. \/ m = Signal("value", Ids(k + 1))
          \/ m = Signal("done", None)
          \/ \E q \in 1..k + 1 : m = Signal("error", <<q>>)
      BY <1>8 DEF Fits
    <3>6. "value" \in Kinds /\ "done" \in Kinds /\ "error" \in Kinds
      BY DEF Kinds
    <3>7. CASE m = Signal("value", Ids(k + 1))
      BY <3>1, <3>4, <3>6, <3>7
    <3>8. CASE m = Signal("done", None)
      BY <3>2, <3>4, <3>6, <3>8
    <3>9. ASSUME NEW q \in 1..k + 1, m = Signal("error", <<q>>)
          PROVE  m \in [kind : Kinds \cup {"none"}, of : Seq(Parts)]
      <4>1. <<q>> \in Seq(Parts)
        BY <3>3
      <4> QED
        BY <3>4, <3>6, <3>9, <4>1
    <3> QED
      BY <3>5, <3>7, <3>8, <3>9
  <2>2. carry' \in [Parts -> [kind : Kinds \cup {"none"}, of : Seq(Parts)]]
    BY <1>1, <1>3, <2>1 DEF TypeOK
  <2>3. level' \in [Parts -> Parts]
    BY <1>1, <1>3, <1>12 DEF TypeOK
  <2>4. split' \in [Splits -> [x : Seq(Parts), y : Seq(Parts), error : Seq(Parts),
                              done : BOOLEAN, pending : 0..2]]
    BY <1>1, <1>3, <1>9 DEF TypeOK
  <2> QED
    BY <1>1, <1>3, <2>2, <2>3, <2>4 DEF TypeOK
<1>15. PartsInv'
  <2>1. \A q \in Parts : Entry(q) \in Nat
    BY <1>12, Arith
  <2>2. level'[p] >= Entry(p)
    <3>1. k >= Entry(p)
      BY <1>1 DEF PartsInv
    <3> QED
      BY <1>11, <1>12, <2>1, <3>1
  <2>3. \A q \in Parts : level'[q] >= Entry(q)
    BY <1>1, <1>11, <2>2 DEF PartsInv
  <2>4. \A q \in Parts : /\ q >= next' => at'[q] = "idle"
                         /\ at'[q] \in {"idle", "running"} =>
                               said'[q] = "none" /\ level'[q] = Entry(q)
    BY <1>1, <1>3, <1>11 DEF PartsInv
  <2> QED
    BY <2>3, <2>4 DEF PartsInv, Entry
<1>16. Sole'
  <2>1. ASSUME NEW j \in Parts, NEW b \in 1..j, p \in 1..j, b # p,
               level'[b] >= j, level'[p] >= j
        PROVE  FALSE
    <3>1. b \in Parts /\ j \in Nat /\ level[b] >= j
      BY <1>11, <1>12, <2>1, Arith
    <3>2. j <= k + 1
      BY <1>11, <1>12, <2>1, <3>1
    <3>3. CASE j = k + 1
      BY <1>2, <1>12, <2>1, <3>1, <3>3 DEF Through
    <3>4. CASE j # k + 1
      <4>1. level[p] >= j
        BY <1>12, <3>1, <3>2, <3>4
      <4> QED
        BY <1>1, <2>1, <3>1, <4>1 DEF Sole
    <3> QED
      BY <3>3, <3>4
  <2> SUFFICES ASSUME NEW j \in Parts, NEW a \in 1..j, NEW b \in 1..j,
                      level'[a] >= j, level'[b] >= j
               PROVE  a = b
    BY DEF Sole
  <2>2. CASE a = p \/ b = p
    BY <2>1, <2>2
  <2>3. CASE a # p /\ b # p
    <3>1. a \in Parts /\ b \in Parts
      BY Arith
    <3> QED
      BY <1>1, <1>11, <2>3, <3>1 DEF Sole
  <2> QED
    BY <2>2, <2>3
<1>17. CarryInv'
  <2> SUFFICES ASSUME NEW q \in Parts, at'[q] \in {"stopping", "arriving", "over"}
               PROVE  /\ Fits(carry[q], Group(q), Value(q))'
                      /\ (carry[q] = Signal("error", <<q>>) => \A u \in Group(q) \ {q} : ~Failed(u))'
    BY DEF CarryInv
  <2>1. CASE q # p
    BY <1>1, <1>3, <1>11, <2>1, CarryKept
  <2>2. CASE q = p
    <3>1. Group(p)' = 1..k + 1 /\ Value(p)' = Ids(k + 1)
      <4>1. level'[p] # p - 1
        BY <1>11, <1>12, <1>13
      <4> QED
        BY <1>11, <4>1 DEF Group, Value, Ids
    <3>2. PICK s : s = m
      OBVIOUS
    <3>3. PICK v : v = Ids(k + 1)
      OBVIOUS
    <3>4. Fits(s, 1..k + 1, v)'
      BY <1>3, <1>8, <1>12, <3>2, <3>3, FitsOn
    <3>5. Fits(carry[p], Group(p), Value(p))'
      BY <1>11, <3>1, <3>2, <3>3, <3>4 DEF Fits, Failed
    <3>6. (carry[p] = Signal("error", <<p>>) => \A u \in Group(p) \ {p} : ~Failed(u))'
      BY <1>3, <1>8, <1>11, <3>1 DEF Failed, Signal
    <3> QED
      BY <2>2, <3>5, <3>6
  <2> QED
    BY <2>1, <2>2
<1>18. SplitsInv'
  <2> SUFFICES ASSUME NEW j \in Splits
               PROVE
         /\ Through(j)' => /\ \A q \in Parts : level'[q] = j => at'[q] = "over"
                           /\ \E q \in 1..j : level'[q] >= j
         /\ ~Through(j)' /\ (\A q \in Parts : ~Waits(q, j)') => split'[j] = Blank
         /\ \A q \in Parts : ~Through(j)' /\ Waits(q, j)' =>
              /\ Keeps(split'[j], Side(q)', carry'[q])
              /\ \A u \in Parts : Waits(u, j)' => u = q
    BY DEF SplitsInv, Keeps, Blank, None
  <2>1. j \in Nat /\ 1..j + 1 \subseteq Parts
    <3>1. j \in Nat /\ j + 1 \in Parts
      BY Arith
    <3> QED
      BY <3>1, Arith
  <2>2. CASE j = k
    <3>1. Through(j)'
      BY <1>11, <1>12, <1>13, <2>2 DEF Through
    <3>2. ASSUME NEW q \in Parts, level'[q] = k PROVE at'[q] = "over"
      <4>1. q # p /\ level[q] = k
        BY <1>11, <1>12, <3>2
      <4>2. level[w] = k /\ at[w] = "over" /\ w # p
        BY <1>1, <1>6 DEF Waits
      <4>3. CASE q = w
        BY <1>3, <4>2, <4>3
      <4>4. CASE q # w
        <5>1. Side(p) # Side(w) /\ Side(p) # Side(q) /\ Side(q) # Side(w)
          BY <1>1, <4>1, <4>2, <4>4, TwoSides
        <5>2. {Side(p), Side(q), Side(w)} \subseteq {"x", "y"}
          BY <1>1, Sides
        <5> QED
          BY <5>1, <5>2
      <4> QED
        BY <4>3, <4>4
    <3>3. \E q \in 1..k : level'[q] >= k
      <4>1. level[w] = k /\ w # p
        BY <1>1, <1>6 DEF Waits
      <4>2. PICK q \in {p, w} : Side(q) = "x"
        BY <1>1, <4>1, Sides, TwoSides
      <4>3. q \in Parts /\ level[q] = k
        BY <4>1, <4>2
      <4>4. q \in 1..k
        <5>1. q <= k
          BY <1>1, <4>2, <4>3, Sides
        <5> QED
          BY <1>12, <4>3, <5>1 DEF Parts
      <4>5. level'[q] >= k
        BY <1>11, <1>12, <4>1, <4>3
      <4> QED
        BY <4>4, <4>5
    <3> QED
      BY <2>2, <3>1, <3>2, <3>3
  <2>3. CASE j = k + 1
    <3>1. Through(j)' <=> Through(j)
      BY <1>11, <1>12, <2>1, <2>3 DEF Through
    <3>2. ~Through(j)
      <4> SUFFICES ASSUME Through(j) PROVE FALSE
        OBVIOUS
      <4>1. PICK u \in 1..k + 1 : level[u] >= k + 1
        BY <1>1, <2>3 DEF SplitsInv
      <4> QED
        BY <1>2, <1>12, <4>1 DEF Through
    <3>3. \A q \in Parts : Waits(q, j)' <=> Waits(q, j)
      BY <1>1, <1>3, <1>11 DEF Waits
    <3>4. \A q \in Parts : Waits(q, j) => q # p
      BY <1>1 DEF Waits
    <3>5. \A q \in Parts : Waits(q, j) => Side(q)' = Side(q) /\ carry'[q] = carry[q]
      BY <1>11, <3>4 DEF Side
    <3>6. split'[j] = split[j]
      BY <1>10, <1>12, <2>3
    <3>7. \A q \in Parts : Waits(q, j) =>
              /\ Keeps(split[j], Side(q), carry[q])
              /\ \A u \in Parts : Waits(u, j) => u = q
      BY <1>1, <3>2 DEF SplitsInv
    <3>8. (\A q \in Parts : ~Waits(q, j)) => split[j] = Blank
      BY <1>1, <3>2 DEF SplitsInv
    <3>9. ASSUME NEW q \in Parts, Waits(q, j)'
          PROVE  /\ Keeps(split'[j], Side(q)', carry'[q])
                 /\ \A u \in Parts : Waits(u, j)' => u = q
      BY <3>3, <3>5, <3>6, <3>7, <3>9
    <3> QED
      BY <3>1, <3>2, <3>3, <3>6, <3>8, <3>9
  <2>4. CASE j # k /\ j # k + 1
    <3>1. Through(j)' <=> Through(j)
      <4>1. \A q \in 1..j + 1 : level'[q] > j <=> level[q] > j
        BY <1>11, <1>12, <2>1, <2>4
      <4> QED
        BY <4>1 DEF Through
    <3>2. \A q \in Parts : level[q] = j \/ level'[q] = j => q # p
      BY <1>11, <2>4
    <3>3. \A q \in Parts : level[q] >= j => level'[q] >= j
      BY <1>11, <1>12, <2>1
    <3> QED
      BY <1>3, <1>10, <1>11, <2>4, <3>1, <3>2, <3>3, OtherSplits
  <2> QED
    BY <2>2, <2>3, <2>4
<1>19. ResultInv'
  <2>1. \A q \in Parts : Waits(q, N) => Waits(q, N)'
    BY <1>1, <1>3, <1>11 DEF Waits
  <2> QED
    BY <1>3, <2>1, ResultKept DEF JoinInv
<1> QED
  BY <1>14, <1>15, <1>16, <1>17, <1>18, <1>19 DEF JoinInv

LEMMA JoinNextInv == JoinInv /\ [Next]_vars => JoinInv'
<1> SUFFICES ASSUME JoinInv, [Next]_vars PROVE JoinInv'
  OBVIOUS
<1>1. ASSUME NEW p \in Parts, Arrive(p) PROVE JoinInv'
  <2>1. level[p] \in Parts /\ level[p] # N
    <3>1. level[p] \in Parts /\ level[p] < N
      BY <1>1 DEF JoinInv, TypeOK, Arrive
    <3> QED
      BY <3>1, WhenAllAssumption DEF Parts
  <2>2. PICK k \in Splits : level[p] = k
    BY <2>1, Arith
  <2> QED
    BY <1>1, <2>2, FirstInv, SecondInv
<1>2. CASE UNCHANGED vars
  <2>1. TypeOK'
    BY <1>2 DEF vars, JoinInv, TypeOK
  <2>2. PartsInv'
    BY <1>2 DEF vars, JoinInv, PartsInv, Entry
  <2>3. Sole' /\ CarryInv' /\ SplitsInv'
    BY <1>2, OffTheSplits DEF vars
  <2>4. ResultInv'
    BY <1>2, ResultKept DEF vars, JoinInv, Waits
  <2> QED
    BY <2>1, <2>2, <2>3, <2>4 DEF JoinInv
<1> QED
  BY <1>1, <1>2, StartInv, SendInv, DieInv, RequestStopInv, FinishInv, TransferInv, RunPostedInv,
     OuterStopInv, RegisterInv, InvokeInv, ReturnInv, OuterReturnInv
     DEF Next, SendAny, Proceed, Sweep

----------------------------------------------------------------------------
(* What follows. *)

\* The invariant behind what follows, for any number of parts in any order: who has
\* come to which pair of when_all.rs, and which signals the one carries who goes on.
THEOREM JoinInvariant == Spec => []JoinInv
BY JoinInitInv, JoinNextInv, PTL DEF Spec

\* No side of a split comes twice, no signal comes after the merge, and SchedulerReceiver
\* finds the receiver there: the panics and expects in the pairs are not reached.
THEOREM AssertsAlwaysHold == Spec => []AssertsHold
<1>1. JoinInv => AssertsHold
  <2> SUFFICES ASSUME JoinInv, NEW p \in Parts, at[p] = "arriving"
               PROVE  IF level[p] = N THEN result = <<>> /\ posted = <<>>
                      ELSE LET r == split[level[p]] IN
                           /\ r.pending > 0
                           /\ IF Side(p) = "x" THEN r.x = None ELSE r.y = None
    BY DEF AssertsHold
  <2>1. CASE level[p] = N
    BY <2>1, LastIsAlone
  <2>2. CASE level[p] # N
    <3>1. PICK k \in Splits : level[p] = k /\ ~Through(k)
      BY <2>2, ComesOnce
    <3>2. TypeOK /\ PartsInv /\ Sole /\ SplitsInv
      BY DEF JoinInv
    <3>3. CASE \A q \in Parts : ~Waits(q, k)
      <4>1. split[k] = Blank
        BY <3>1, <3>2, <3>3 DEF SplitsInv
      <4> QED
        BY <2>2, <3>1, <4>1 DEF Blank
    <3>4. ASSUME NEW w \in Parts, Waits(w, k)
          PROVE  /\ split[k].pending > 0
                 /\ IF Side(p) = "x" THEN split[k].x = None ELSE split[k].y = None
      <4>1. Keeps(split[k], Side(w), carry[w])
        BY <3>1, <3>2, <3>4 DEF SplitsInv
      <4>2. Side(p) # Side(w)
        BY <3>1, <3>2, <3>4, TwoSides DEF Waits
      <4>3. Side(p) \in {"x", "y"} /\ Side(w) \in {"x", "y"}
        BY <3>2, Sides
      <4> QED
        BY <4>1, <4>2, <4>3 DEF Keeps
    <3> QED
      BY <2>2, <3>1, <3>3, <3>4
  <2> QED
    BY <2>1, <2>2
<1> QED
  BY <1>1, JoinInvariant, PTL

\* The part that ends the join with its own error is the only one that has failed:
\* get_or_insert does not let a late error win.
THEOREM LateErrorsLose == Spec => []LateErrorLoses
<1>1. JoinInv => LateErrorLoses
  <2> SUFFICES ASSUME JoinInv, NEW p \in Parts, at[p] = "arriving", level[p] = N,
                      carry[p] = Signal("error", <<p>>)
               PROVE  \A q \in Parts \ {p} : ~Failed(q)
    BY DEF LateErrorLoses
  <2>1. Group(p) = Parts
    BY Sides DEF JoinInv, Parts
  <2> QED
    BY <2>1 DEF JoinInv, CarryInv
<1> QED
  BY <1>1, JoinInvariant, PTL

----------------------------------------------------------------------------
(* The pairs implement Join. *)

AbstractStep == [Abstract!Next]_(Abstract!vars)

\* What fits all the parts is an outcome of the join.
LEMMA FitsIsOutcome ==
  ASSUME NEW s, Fits(s, Parts, Ids(N))
  PROVE  Abstract!Sent("none") = {} /\ s \in Abstract!Outcomes
<1> USE DEF Abstract!Sent, Abstract!Parts, Parts
<1>1. Abstract!Sent("none") = {}
  BY DEF Fits, Kinds
<1>2. CASE s = Signal("value", Ids(N)) /\ \A q \in Parts : said[q] = "value"
  <2>1. Abstract!Sent("error") = {} /\ Abstract!Sent("done") = {}
    BY <1>2
  <2> QED
    BY <1>1, <1>2, <2>1 DEF Abstract!Outcomes, Signal, Ids
<1>3. CASE s = Signal("done", None) /\ (\A q \in Parts : ~Failed(q)) /\ \E q \in Parts : said[q] = "done"
  <2>1. Abstract!Sent("error") = {} /\ Abstract!Sent("done") # {}
    BY <1>3 DEF Failed
  <2> QED
    BY <1>1, <1>3, <2>1 DEF Abstract!Outcomes, Signal, None
<1>4. ASSUME NEW q \in Parts, Failed(q), s = Signal("error", <<q>>)
      PROVE  s \in Abstract!Outcomes
  <2>1. q \in Abstract!Sent("error")
    BY <1>4 DEF Failed
  <2> QED
    BY <1>4, <2>1 DEF Abstract!Outcomes, Signal
<1> QED
  BY <1>1, <1>2, <1>3, <1>4 DEF Fits

\* Each step is one of a join, or none.
LEMMA StepJoins ==
  ASSUME JoinInv, [Next]_vars
  PROVE  AbstractStep
<1>1. TypeOK /\ PartsInv /\ ResultInv
  BY DEF JoinInv
<1>2. ASSUME UNCHANGED <<said, result>> PROVE AbstractStep
  BY <1>2 DEF AbstractStep, Abstract!vars
<1>3. ASSUME NEW p \in Parts, NEW kind \in Kinds, Signals(p, kind) PROVE AbstractStep
  <2>1. said[p] = "none"
    BY <1>1, <1>3 DEF PartsInv, Signals
  <2>2. said' = [said EXCEPT ![p] = kind] /\ UNCHANGED result
    BY <1>3 DEF Signals
  <2>3. Abstract!Send(p)
    BY <2>1, <2>2 DEF Abstract!Send, Kinds
  <2> QED
    BY <2>3 DEF AbstractStep, Abstract!Next, Abstract!Parts, Parts
<1>4. ASSUME NEW s, Fits(s, Parts, Ids(N)), result = <<>>, result' = <<s>>, UNCHANGED said
      PROVE  AbstractStep
  <2>1. Abstract!Finish
    BY <1>4, FitsIsOutcome DEF Abstract!Finish
  <2> QED
    BY <2>1 DEF AbstractStep, Abstract!Next
<1>5. ASSUME NEW p \in Parts, Finish(p) PROVE AbstractStep
  <2>1. /\ result = <<>> /\ Fits(carry[p], Parts, Ids(N))
        /\ carry[p] \in [kind : Kinds, of : Seq(Parts)]
    BY <1>5, LastIsAlone DEF Finish
  <2>2. result' = <<carry[p]>> /\ UNCHANGED said
    BY <1>5, <2>1, OneSignal DEF Finish
  <2> QED
    BY <1>4, <2>1, <2>2
<1>6. CASE RunPosted
  <2>1. posted # <<>> /\ result' = Append(result, Head(posted)) /\ UNCHANGED said
    BY <1>6 DEF RunPosted
  <2>2. result = <<>> /\ Fits(posted[1], Parts, Ids(N))
    BY <1>1, <2>1 DEF ResultInv
  <2>3. posted \in Seq([kind : Kinds, of : Seq(Parts)])
    BY <1>1 DEF TypeOK
  <2>4. Head(posted) = posted[1] /\ Head(posted) \in [kind : Kinds, of : Seq(Parts)]
    BY <2>1, <2>3, ItsHead
  <2>5. PICK s \in [kind : Kinds, of : Seq(Parts)] : s = posted[1]
    BY <2>4
  <2>6. result' = <<s>>
    BY <2>1, <2>2, <2>4, <2>5, OneSignal
  <2> QED
    BY <1>4, <2>1, <2>2, <2>5, <2>6
<1>7. ASSUME NEW p \in Parts, Arrive(p) PROVE AbstractStep
  BY <1>2, <1>7 DEF Arrive
<1>8. ASSUME NEW p \in Parts, RequestStop(p) \/ Return(p) \/ Transfer(p) \/ Die(p)
      PROVE  AbstractStep
  BY <1>2, <1>8 DEF RequestStop, Lock, Return, Transfer, Die
<1>9. CASE OuterStop \/ OuterReturn \/ \E inl \in BOOLEAN : Start(inl)
  BY <1>2, <1>9 DEF OuterStop, Lock, OuterReturn, Start
<1>10. CASE UNCHANGED vars
  BY <1>2, <1>10 DEF vars
<1>11. ASSUME NEW q \in Lazy, Register(q) \/ Invoke(q) PROVE AbstractStep
  <2>1. CASE UNCHANGED <<said, result>>
    BY <1>2, <2>1
  <2>2. ASSUME NEW kind \in InCallback, Signals(q, kind) PROVE AbstractStep
    <3>1. q \in Parts /\ kind \in Kinds
      BY WhenAllAssumption DEF Parts, Kinds
    <3> QED
      BY <1>3, <2>2, <3>1
  <2> QED
    BY <1>11, <2>1, <2>2 DEF Register, Invoke
<1>12. ASSUME NEW p \in Parts, SendAny(p) PROVE AbstractStep
  BY <1>3, <1>12 DEF SendAny, Send
<1> QED
  BY <1>5, <1>6, <1>7, <1>8, <1>9, <1>10, <1>11, <1>12 DEF Next, Proceed, Sweep

\* What JoinsAll says of every step: the receiver gets one signal, when all the parts
\* have sent theirs, an error before done before the values in the order of the parts.
THEOREM JoinsSafely == Spec => Abstract!Init /\ [][Abstract!Next]_(Abstract!vars)
<1>1. Init => Abstract!Init
  BY DEF Init, Abstract!Init, Abstract!Parts, Parts
<1>2. JoinInv /\ [Next]_vars => [Abstract!Next]_(Abstract!vars)
  BY StepJoins DEF AbstractStep
<1> QED
  BY <1>1, <1>2, JoinInvariant, PTL DEF Spec
=============================================================================
