------------------------- MODULE MCCommandSession -------------------------
(* Small instances of CommandSession for TLC. *)
EXTENDS CommandSession

CONSTANTS A, B, t   \* stations and a login token, model values

\* What the environment may do in a run, event by event.
Only(f) == [e \in Events |-> IF e \in DOMAIN f THEN f[e] ELSE 0]

SupplyBudget == Only([fail |-> 1, policy |-> 1, revoke |-> 1, reconnect |-> 1])
ResetBudget == Only([fail |-> 1, leave |-> 1, found |-> 1])

=============================================================================
