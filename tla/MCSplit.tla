------------------------------ MODULE MCSplit ------------------------------
(* Split with three clients, one of which starts another. *)
EXTENDS Split

CONSTANTS c1, c2, c3

\* The receiver of c1 starts c3, another clone of the same split.
Reentry == [c \in Clients |-> IF c = c1 THEN c3 ELSE NoClient]
=============================================================================
