------------------------------ MODULE MCAccount ------------------------------
(* A small instance of AccountSession for TLC. *)
EXTENDS AccountSession

CONSTANTS A, B, C, inst, onA, onB   \* model values

AcceptedAt == [t \in Tokens |-> CASE t = inst -> {A, B, C} [] t = onA -> {A} [] t = onB -> {B}]

=============================================================================
