--------------------------- MODULE PreferenceStore ---------------------------
(***************************************************************************)
(* What the frontend's settings file promises to the tasks that use it,    *)
(* whatever process they run in: each call takes effect at once and        *)
(* entirely between its start and its return, on what the last call left;  *)
(* a call that returned without an error has lasted; a killed process      *)
(* changes nothing, a power failure at most undoes calls not yet returned. *)
(* NativeStorage implements it.                                            *)
(***************************************************************************)
CONSTANTS
  Tasks,      \* the callers, of all processes
  Keys,
  Values,
  None,       \* no value under a key
  Absent,     \* no file
  Malformed   \* a file whose content is not the expected JSON

VARIABLES
  shown,   \* the content readers find
  kept,    \* the contents a power failure may leave
  call     \* per task: how far its call is and the content it found

Map == [Keys -> Values \cup {None}]
Content == Map \cup {Absent, Malformed}

\* A read, a write of value under keys (None removes them), or clear_all.
Request == [kind : {"read", "write", "clear"}, keys : SUBSET Keys,
            value : Values \cup {None}]

EmptyMap == [k \in Keys |-> None]

\* load_map: no file is the empty map.
MapOf(c) == IF c = Absent THEN EmptyMap ELSE c

Result(c, r) ==
  CASE r.kind = "read"  -> c
    [] r.kind = "clear" -> Absent
    [] r.kind = "write" -> [k \in Keys |-> IF k \in r.keys THEN r.value ELSE MapOf(c)[k]]

Idle == [pc |-> "idle"]
Asked(r) == [pc |-> "asked", req |-> r]
Applied(r, c) == [pc |-> "applied", req |-> r, seen |-> c]
Returned(r, c) == [pc |-> "returned", req |-> r, seen |-> c]

PrefInit ==
  /\ shown \in Content
  /\ kept = {shown}
  /\ call = [t \in Tasks |-> Idle]

Ask(t) ==
  /\ call[t] = Idle
  /\ \E r \in Request : call' = [call EXCEPT ![t] = Asked(r)]
  /\ UNCHANGED <<shown, kept>>

\* A read, and the removal of a file that is gone, change nothing and are
\* answered at once.  A file that does not parse is not read.
Answer(t) ==
  LET r == call[t].req
  IN  /\ call[t].pc = "asked"
      /\ \/ r.kind = "read" /\ shown # Malformed
         \/ r.kind = "clear" /\ shown = Absent
      /\ call' = [call EXCEPT ![t] = Returned(r, shown)]
      /\ UNCHANGED <<shown, kept>>

\* A file that does not parse is never worked on, only removed.
Apply(t) ==
  LET r == call[t].req
  IN  /\ call[t].pc = "asked" /\ r.kind # "read"
      /\ r.kind = "clear" \/ shown # Malformed
      /\ shown' = Result(shown, r)
      /\ kept' = kept \cup {shown'}
      /\ call' = [call EXCEPT ![t] = Applied(r, shown)]

\* A change returns without an error only when it lasts.
Return(t) ==
  /\ call[t].pc = "applied"
  /\ kept' = {shown}
  /\ call' = [call EXCEPT ![t] = Returned(@.req, @.seen)]
  /\ UNCHANGED shown

\* The calls of ts are over: with an error, or with the process that made them,
\* unless they had returned.
End(ts) ==
  /\ call' = [t \in Tasks |-> IF t \in ts THEN Idle ELSE call[t]]
  /\ UNCHANGED <<shown, kept>>

PowerFailure ==
  /\ shown' \in kept
  /\ kept' = {shown'}
  /\ call' = [t \in Tasks |-> Idle]

PrefNext ==
  \/ \E t \in Tasks : Ask(t) \/ Answer(t) \/ Apply(t) \/ Return(t)
  \/ \E ts \in SUBSET Tasks : End(ts)
  \/ PowerFailure

prefVars == <<shown, kept, call>>

PrefSpec == PrefInit /\ [][PrefNext]_prefVars

=============================================================================
