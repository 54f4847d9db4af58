-------------------------------- MODULE Join --------------------------------
(***************************************************************************)
(* What a join of N senders promises, as the documentation of when_all     *)
(* has it (src/src/when_all.rs:11-22): it waits for all of them, also when *)
(* one has failed; an error wins over done, and done over a value; the     *)
(* value is the concatenation of the parts' values, in their order and not *)
(* in the order in which they came.  Which of several errors is forwarded  *)
(* is left open here.                                                      *)
(***************************************************************************)
EXTENDS Naturals, Sequences

CONSTANT N

VARIABLES sent,     \* what each part has sent
          result    \* the signals that the receiver of the join was given

vars == <<sent, result>>

Parts == 1..N

Init == sent = [p \in Parts |-> "none"] /\ result = <<>>

Sent(kind) == {p \in Parts : sent[p] = kind}

Outcomes ==
  IF Sent("error") # {} THEN {[kind |-> "error", of |-> <<p>>] : p \in Sent("error")}
  ELSE IF Sent("done") # {} THEN {[kind |-> "done", of |-> <<>>]}
  ELSE {[kind |-> "value", of |-> [p \in Parts |-> p]]}

Send(p) == /\ sent[p] = "none"
           /\ \E kind \in {"value", "error", "done"} : sent' = [sent EXCEPT ![p] = kind]
           /\ UNCHANGED result

Finish == /\ Sent("none") = {} /\ result = <<>>
          /\ \E o \in Outcomes : result' = <<o>>
          /\ UNCHANGED sent

Next == Finish \/ \E p \in Parts : Send(p)

Spec == Init /\ [][Next]_vars /\ WF_vars(Finish)
=============================================================================
