---------------------------- MODULE MCStopSource ----------------------------
(* StopSource on two chained sources: "from" makes child follow root. *)
EXTENDS StopSource

MCSources == {"root", "child"}
MCCallbacks == {"from", "onRoot", "alsoOnRoot", "onChild"}
MCHome == [c \in MCCallbacks |-> IF c = "onChild" THEN "child" ELSE "root"]
MCForward == [c \in MCCallbacks |-> IF c = "from" THEN "child" ELSE "leaf"]
=============================================================================
