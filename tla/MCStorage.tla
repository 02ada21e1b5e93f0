------------------------------ MODULE MCStorage ------------------------------
(* A small instance of NativeStorage for TLC. *)
EXTENDS NativeStorage

CONSTANTS T1, T2, T3, P, Q, x, y, v   \* model values

InProcess == [t \in {T1, T2, T3} |-> IF t = T3 THEN Q ELSE P]

MCRequests ==
  {[kind |-> "read",  keys |-> {x},    value |-> None],
   [kind |-> "write", keys |-> {x},    value |-> v],
   [kind |-> "write", keys |-> {y},    value |-> v],
   [kind |-> "write", keys |-> {x, y}, value |-> None],
   [kind |-> "clear", keys |-> {},     value |-> None]}

=============================================================================
