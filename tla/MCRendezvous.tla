---------------------------- MODULE MCRendezvous ----------------------------
(***************************************************************************)
(* The two adaptors that start a chain once and keep its signal for who    *)
(* comes late: split, with the clients of MCSplit, and ensure_started.  A  *)
(* program has one or the other, and both are to be a Rendezvous.          *)
(***************************************************************************)
EXTENDS MCSplit, EarlyChain

VARIABLE adaptor

early == <<state, mutex, started, chain_signal, client, taken, linked, stopper, stop, aborted>>

InitOfEither == /\ adaptor \in {"split", "ensure_started"}
                /\ Init /\ Ensured!Init

SplitStep == adaptor = "split" /\ Next /\ UNCHANGED <<adaptor, early>>

EnsuredStep == adaptor = "ensure_started" /\ Ensured!Next /\ UNCHANGED <<adaptor, vars>>

\* Of the adaptor that is there.
EitherFairness == /\ adaptor = "split" => Fairness
                  /\ adaptor = "ensure_started" => Ensured!Fairness

EitherSpec == /\ InitOfEither
              /\ [][SplitStep \/ EnsuredStep]_<<adaptor, vars, early>>
              /\ EitherFairness
=============================================================================
