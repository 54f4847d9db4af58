----------------------------- MODULE Rendezvous -----------------------------
(***************************************************************************)
(* What a sender that was started early, or is shared, promises each       *)
(* receiver that is attached to it: the signal and the receiver come in    *)
(* either order, and once both are there the receiver gets the signal,     *)
(* once.  This is the rule of src/src/traits.rs, that a receiver gets      *)
(* exactly one of the signals, for a receiver that may come late.          *)
(***************************************************************************)
EXTENDS Sequences

CONSTANT Signals

VARIABLES sent,       \* the signal, <<>> until there is one
          attached,   \* is the receiver there?  "gone" if it was given up
          delivered   \* the signals the receiver was given

vars == <<sent, attached, delivered>>

TypeOK == /\ sent \in {<<>>} \cup {<<s>> : s \in Signals}
          /\ attached \in {"no", "yes", "gone"}
          /\ delivered \in Seq(Signals)

Init == sent = <<>> /\ attached = "no" /\ delivered = <<>>

Send == /\ sent = <<>>
        /\ \E s \in Signals : sent' = <<s>>
        /\ UNCHANGED <<attached, delivered>>

Attach == /\ attached = "no"
          /\ attached' = "yes"
          /\ UNCHANGED <<sent, delivered>>

GiveUp == /\ delivered = <<>>
          /\ attached' = "gone"
          /\ UNCHANGED <<sent, delivered>>

Deliver == /\ attached = "yes" /\ sent # <<>> /\ delivered = <<>>
           /\ delivered' = sent
           /\ UNCHANGED <<sent, attached>>

Next == Send \/ Attach \/ GiveUp \/ Deliver

Spec == Init /\ [][Next]_vars /\ WF_vars(Deliver)
=============================================================================
