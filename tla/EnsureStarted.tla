--------------------------- MODULE EnsureStarted ---------------------------
(***************************************************************************)
(* ensure_started and ensure_started_send, src/src/ensure_started.rs: a    *)
(* chain that is started at once, and a client that may be attached to it  *)
(* later.                                                                  *)
(*                                                                         *)
(* The chain is run by start_detached (src/src/start_detached.rs), and     *)
(* ends in a StateReceiver, which assigns the signal to the shared state   *)
(* and then completes the DiscardingReceiver behind it.  The client's      *)
(* start attaches its receiver to the state.  Whoever comes second hands   *)
(* the signal over: the chain calls the continuation the client left, or   *)
(* the client takes the signal the chain left.                             *)
(*                                                                         *)
(* The chain and the client are two threads here, and the state is behind  *)
(* a mutex.  When they are one thread (ensure_started, or a chain that     *)
(* runs at once) the steps are the same in fewer orders: the chain never   *)
(* runs while the client holds the state, nor the other way round.         *)
(*                                                                         *)
(* The stop token the client is connected with is that of another source,  *)
(* whose mutex and callbacks are in module StopSource.                     *)
(***************************************************************************)
EXTENDS Sequences

CONSTANTS MayPanic,       \* may the chain's functions, and receivers, panic?
          MayBeDropped    \* may a scheduler drop the chain without running it?

VARIABLES signal,         \* StateEnum, with the Option inside: "some" or "none"
          mutex,          \* who holds the state, or why nobody does
          chain,          \* where the chain is, in set_* of StateReceiver
          chain_signal,   \* the signal it came with, once it has
          client,         \* where the client is
          got,            \* the signals the client's receiver was given
          linked,         \* did connect pass the stop on to stop_source?
          stopper,        \* request_stop on the token's source
          stop,           \* stop_source was stopped
          aborted         \* a panic while unwinding: there is no process

vars == <<signal, mutex, chain, chain_signal, client, got, linked, stopper, stop,
          aborted>>

clientSide == <<client, linked>>
chainSide == <<chain, chain_signal>>
stopping == <<linked, stopper, stop>>

Signals == {"value", "error", "done"}

TypeOK ==
  /\ signal \in {"pending", "some", "none", "attached"}
  /\ mutex \in {"free", "chain", "client", "poisoned"}
  /\ chain \in {"running", "assign", "continue", "receiving", "finish", "over", "dropped"}
  /\ chain_signal \in {<<>>} \cup {<<s>> : s \in Signals}
  /\ client \in {"none", "connected", "attach", "waiting", "receiving", "posted",
                 "running", "over", "gone", "panicked"}
  /\ got \in Seq(Signals)
  /\ linked \in BOOLEAN
  /\ stopper \in {"idle", "flagged", "swept"}
  /\ stop \in BOOLEAN
  /\ aborted \in BOOLEAN

Init ==
  /\ signal = "pending"
  /\ mutex = "free"
  /\ chain = "running"
  /\ chain_signal = <<>>
  /\ client = "none"
  /\ got = <<>>
  /\ linked = FALSE
  /\ stopper = "idle"
  /\ stop = FALSE
  /\ aborted = FALSE

----------------------------------------------------------------------------
(* The chain. *)

\* The chain comes to its end, with a signal.
Signal(s) ==
  /\ chain = "running"
  /\ chain' = "assign"
  /\ chain_signal' = <<s>>
  /\ UNCHANGED <<signal, mutex, client, got, aborted>> /\ UNCHANGED stopping

\* assign_signal, with no receiver there: leave the signal.
AssignFirst ==
  /\ chain = "assign" /\ mutex = "free"
  /\ signal = "pending"
  /\ signal' = "some"
  /\ chain' = "finish"
  /\ UNCHANGED <<mutex, chain_signal, client, got, aborted>> /\ UNCHANGED stopping

\* Wrong variant: opstate_fn is called before the signal is stored.
AssignAttachedEarly ==
  /\ chain = "assign" /\ mutex = "free"
  /\ signal = "attached"
  /\ signal' = "none"
  /\ chain' = "continue"
  /\ UNCHANGED <<mutex, chain_signal, client, got, aborted>> /\ UNCHANGED stopping

\* assign_signal, with a receiver there: store the signal, let go of the
\* state, and go on to call the continuation.
AssignAttached ==
  /\ chain = "assign" /\ mutex = "free"
  /\ signal = "attached"
  /\ signal' = "some"
  /\ chain' = "continue"
  /\ UNCHANGED <<mutex, chain_signal, client, got, aborted>> /\ UNCHANGED stopping

\* StateReceiverWrapper::set_value: take the signal, and give it to the
\* client's receiver while the state is held.
Continue ==
  /\ chain = "continue" /\ mutex = "free"
  /\ signal = "some"
  /\ signal' = "none"
  /\ mutex' = "chain"
  /\ got' = got \o chain_signal
  /\ chain' = "receiving"
  /\ UNCHANGED <<chain_signal, client, aborted>> /\ UNCHANGED stopping

ContinueReturn ==
  /\ chain = "receiving"
  /\ mutex' = "free"
  /\ chain' = "finish"
  /\ UNCHANGED <<signal, chain_signal, client, got, aborted>> /\ UNCHANGED stopping

\* nested.set_done: the detached operation has completed.
Complete ==
  /\ chain = "finish"
  /\ chain' = "over"
  /\ UNCHANGED <<signal, mutex, chain_signal, client, got, aborted>>
  /\ UNCHANGED stopping

\* A function of the chain, or the client's receiver in Continue, panics.  The
\* unwinding drops the DiscardingReceiver before it was completed: its Drop
\* panics as well, and the process is aborted.
ChainPanics ==
  /\ MayPanic
  /\ chain \in {"running", "receiving"}
  /\ aborted' = TRUE
  /\ UNCHANGED <<signal, mutex, chain, chain_signal, client, got>>
  /\ UNCHANGED stopping

\* A scheduler that shuts down drops the chain: the DiscardingReceiver panics
\* on its thread, and the state stays Pending.
ChainDropped ==
  /\ MayBeDropped
  /\ chain = "running"
  /\ chain' = "dropped"
  /\ UNCHANGED <<signal, mutex, chain_signal, client, got, aborted>>
  /\ UNCHANGED stopping

----------------------------------------------------------------------------
(* The client. *)

\* Wrong variant: what detached_callback gives back is dropped, not run.
ConnectDropping ==
  /\ client = "none"
  /\ client' = "connected"
  /\ linked' = TRUE
  /\ UNCHANGED <<signal, mutex, got, stopper, stop, aborted>> /\ UNCHANGED chainSide

\* connect: register the callback that stops the chain, or stop it at once.
Connect ==
  /\ client = "none"
  /\ client' = "connected"
  /\ linked' = TRUE
  /\ stop' = (stop \/ stopper # "idle")
  /\ UNCHANGED <<signal, mutex, got, stopper, aborted>> /\ UNCHANGED chainSide

\* The sender, or the operation state it was connected to, is dropped.
Drop ==
  /\ client \in {"none", "connected"}
  /\ client' = "gone"
  /\ UNCHANGED <<signal, mutex, got, aborted>> /\ UNCHANGED chainSide
  /\ UNCHANGED stopping

\* start of the operation state, which calls attach_receiver.
Start ==
  /\ client = "connected"
  /\ client' = "attach"
  /\ UNCHANGED <<signal, mutex, got, aborted>> /\ UNCHANGED chainSide
  /\ UNCHANGED stopping

\* Wrong variant: the state was looked at before the lock was taken.
AttachUnchecked ==
  /\ client = "attach" /\ mutex = "free"
  /\ signal' = "attached"
  /\ client' = "waiting"
  /\ UNCHANGED <<mutex, got, aborted>> /\ UNCHANGED chainSide /\ UNCHANGED stopping

\* attach_receiver, with no signal there: leave the continuation.
AttachFirst ==
  /\ client = "attach" /\ mutex = "free"
  /\ signal = "pending"
  /\ signal' = "attached"
  /\ client' = "waiting"
  /\ UNCHANGED <<mutex, got, aborted>> /\ UNCHANGED chainSide /\ UNCHANGED stopping

\* attach_receiver, with a signal there: take it, and give it to the receiver
\* while the state is held.  So does a value on a scheduler that runs at once.
AttachSignalled ==
  /\ client = "attach" /\ mutex = "free"
  /\ signal = "some"
  /\ signal' = "none"
  /\ mutex' = "client"
  /\ got' = got \o chain_signal
  /\ client' = "receiving"
  /\ UNCHANGED aborted /\ UNCHANGED chainSide /\ UNCHANGED stopping

\* A value, on a scheduler that takes it for later.
AttachScheduled ==
  /\ client = "attach" /\ mutex = "free"
  /\ signal = "some" /\ chain_signal = <<"value">>
  /\ signal' = "none"
  /\ client' = "posted"
  /\ UNCHANGED <<mutex, got, aborted>> /\ UNCHANGED chainSide /\ UNCHANGED stopping

\* The scheduler runs what was posted to it.
RunScheduled ==
  /\ client = "posted"
  /\ got' = Append(got, "value")
  /\ client' = "running"
  /\ UNCHANGED <<signal, mutex, aborted>> /\ UNCHANGED chainSide /\ UNCHANGED stopping

LetGo(why) == mutex' = IF mutex = "client" THEN why ELSE mutex

\* The receiver returns, and with it attach_receiver or the posted task.
ReceiverReturn ==
  /\ client \in {"receiving", "running"}
  /\ LetGo("free")
  /\ client' = "over"
  /\ UNCHANGED <<signal, got, aborted>> /\ UNCHANGED chainSide /\ UNCHANGED stopping

\* The receiver panics here, on the client's side: its scope passes it on.
ReceiverPanics ==
  /\ MayPanic
  /\ client \in {"receiving", "running"}
  /\ LetGo("poisoned")
  /\ client' = "panicked"
  /\ UNCHANGED <<signal, got, aborted>> /\ UNCHANGED chainSide /\ UNCHANGED stopping

----------------------------------------------------------------------------
(* The stop. *)

\* request_stop on the client's source: store the flag ...
RequestStop ==
  /\ stopper = "idle"
  /\ stopper' = "flagged"
  /\ UNCHANGED <<signal, mutex, got, stop, aborted>> /\ UNCHANGED chainSide
  /\ UNCHANGED clientSide

\* ... and run the callbacks that are registered.
Sweep ==
  /\ stopper = "flagged"
  /\ stopper' = "swept"
  /\ stop' = (stop \/ linked)
  /\ UNCHANGED <<signal, mutex, got, aborted>> /\ UNCHANGED chainSide
  /\ UNCHANGED clientSide

----------------------------------------------------------------------------

ChainStep == \/ \E s \in Signals : Signal(s)
             \/ AssignFirst \/ AssignAttached \/ Continue \/ ContinueReturn \/ Complete

ClientStep == \/ AttachFirst \/ AttachSignalled \/ AttachScheduled
              \/ RunScheduled \/ ReceiverReturn

Next ==
  /\ ~aborted
  /\ \/ ChainStep \/ ChainPanics \/ ChainDropped
     \/ Connect \/ Drop \/ Start \/ ClientStep \/ ReceiverPanics
     \/ RequestStop \/ Sweep

\* Threads go on with what they have begun, receivers return, and schedulers
\* run what is posted to them.  No client has to come.
Fairness == /\ WF_vars(~aborted /\ ChainStep)
            /\ WF_vars(~aborted /\ ClientStep)
            /\ WF_vars(~aborted /\ Sweep)

Spec == Init /\ [][Next]_vars /\ Fairness

----------------------------------------------------------------------------
(* Properties. *)

\* None of the expects and panics in assign_signal, attach_receiver and
\* set_value of the wrapper is ever reached, whoever comes first.
ExpectationsHold ==
  /\ chain = "assign" => signal \in {"pending", "attached"}
  /\ chain = "continue" => signal = "some"
  /\ client = "attach" => signal \in {"pending", "some"}

\* A stop that is requested of the client, before or after it is connected,
\* reaches the chain that was started without it.
StopReachesChain == (stopper # "idle" /\ linked) ~> (stop \/ aborted)

\* The chain and the client meet as a Rendezvous promises.
Abstract == INSTANCE Rendezvous WITH
  sent <- chain_signal,
  attached <- IF client \in {"none", "connected"} THEN "no"
              ELSE IF client = "gone" THEN "gone" ELSE "yes",
  delivered <- got

MeetsSignal == Abstract!Spec
=============================================================================
