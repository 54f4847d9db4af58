----------------------------- MODULE EarlyChain -----------------------------
(***************************************************************************)
(* The chain that ensure_started starts and its client, module             *)
(* EnsureStarted, under names that can stand beside those of Chain and of  *)
(* Split.                                                                  *)
(***************************************************************************)
CONSTANTS MayPanic, MayBeDropped     \* see EnsureStarted

ASSUME EarlyChainAssumption == {MayPanic, MayBeDropped} \subseteq BOOLEAN

VARIABLES state, mutex, started, chain_signal, client, taken, linked, stopper, stop, aborted

\* started is where that chain is, state what it leaves its signal in, and taken the
\* signals its client was given.
Ensured == INSTANCE EnsureStarted WITH signal <- state, chain <- started, got <- taken

EnsuredSpec == Ensured!Spec

\* The expects and panics of ensure_started.rs about its state are not reached.
ExpectationsHold == Ensured!ExpectationsHold

\* A stop gets from the client's stop token to the chain.
StopReachesChain == Ensured!StopReachesChain

\* The chain and the client, in either order, are a Rendezvous.
MeetsSignal == Ensured!MeetsSignal
=============================================================================
