------------------------- MODULE MCTelemetryReseed -------------------------
(* Small instances of TelemetryReseed for TLC. *)
EXTENDS TelemetryReseed

CONSTANTS A, B   \* the stations, model values

\* What the environment may do in a run, event by event.
Only(f) == [e \in Events |-> IF e \in DOMAIN f THEN f[e] ELSE 0]

LiveBudgets == {Only([row |-> 3, drop |-> 1, fail |-> 1, bump |-> 1]),
                Only([row |-> 2, drop |-> 1, fail |-> 1, bump |-> 1, calibrate |-> 1,
                      reload |-> 1])}

StationBudget == Only([row |-> 2, switch |-> 2, leave |-> 1, grant |-> 1,
                       rebuild |-> 1])
SessionBudgets ==
  {Only([row |-> 1, switch |-> 1, login |-> 1, observe |-> 2, instance |-> 1]),
   Only([row |-> 1, switch |-> 1, revoke |-> 1, observe |-> 2, instance |-> 1]),
   Only([row |-> 1, login |-> 1, revoke |-> 1, observe |-> 2])}
ClearBudget == Only([row |-> 2, clear |-> 1, clock |-> 1, restart |-> 1,
                     reseed |-> 1, rebuild |-> 1])

DisplayBudgets == {StationBudget, ClearBudget} \cup LiveBudgets \cup SessionBudgets

FairBudgets == {Only([row |-> 2, drop |-> 1, bump |-> 1, calibrate |-> 1])}

\* For the runs that end in a counterexample.
GrantBudgets == {Only([row |-> 1, grant |-> 1])}
ClockBudgets == {Only([row |-> 2, clock |-> 1])}
LaterClearBudgets == {Only([row |-> 1, clock |-> 1, clear |-> 1])}

=============================================================================
