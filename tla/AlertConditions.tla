-------------------------- MODULE AlertConditions --------------------------
(***************************************************************************)
(* What the dashboard shows of the alert conditions of a station, and of   *)
(* the events that report them: the View of alert_conditions.rs, the       *)
(* sockets that feed it, the events that arrive live and with the alert    *)
(* history, and when "Nominal" is said.  Stations are external; each start *)
(* of one is an authority of its own.                                      *)
(***************************************************************************)
EXTENDS Naturals, Sequences, FiniteSets

CONSTANTS
  Occurrences,    \* occurrences of conditions, each under a key of its own
  NoSnapshot,
  MaxRetired,     \* how many authorities a connection may see replaced
  MaxAuthority,   \* bounds: starts of the station, revisions of each,
  MaxConditionRevision,
  MaxConnection,  \* connections, and messages on the way
  MaxWire

VARIABLES
  alertStation, \* the station: the snapshot it would give, and what it has logged
  view,         \* the View
  socket,       \* the session's socket and what is on the way
  stray,        \* a snapshot of some connection that comes late, or once more
  events,       \* the lists of warnings and errors: links to conditions
  history,      \* the alert history asked for
  newest,       \* history: the newest snapshot that came on this connection
  calm          \* history: has the station had nothing to report during it?

alertVars == <<alertStation, view, socket, stray, events, history, newest, calm>>

Authorities == 1..MaxAuthority
Revisions == 1..MaxConditionRevision
Records == {"none", "active", "unknown", "resolved"}
ConditionSnapshot ==
  [authority : Authorities, revision : Revisions, complete : BOOLEAN,
   evaluated : SUBSET Occurrences, record : [Occurrences -> Records]]
Link == [occurrence : Occurrences, authority : Authorities, revision : Revisions]
Unrequested == [st |-> "none"]
NoStray == [connection |-> 0]

ASSUME AlertAssumption ==
  /\ MaxRetired \in Nat /\ MaxConnection \in Nat /\ MaxWire \in Nat
  /\ MaxAuthority \in Nat \ {0} /\ MaxConditionRevision \in Nat \ {0}
  /\ NoSnapshot \notin ConditionSnapshot

\* The station when it started, with or without the evidence it awaits.
AlertInit ==
  /\ \E complete \in BOOLEAN :
       alertStation = [now |-> [authority |-> 1, revision |-> 1, complete |-> complete,
                                evaluated |-> Occurrences,
                                record |-> [o \in Occurrences |-> "none"]],
                       raised |-> {}, over |-> {}, log |-> {}]
  /\ view = [connection |-> 0, connected |-> FALSE, shown |-> NoSnapshot, retired |-> {},
             invalid |-> FALSE]
  /\ socket = [st |-> "closed", wire |-> <<>>]
  /\ stray = NoStray /\ newest = NoSnapshot
  /\ events = {}
  /\ history = Unrequested
  /\ calm = FALSE

-----------------------------------------------------------------------------
(* The station *)

Pressing(s) == \E o \in Occurrences : s.record[o] \in {"active", "unknown"}
Calm(s) == s.complete /\ ~Pressing(s)

IsOpen == socket.st = "open"

\* The next revision; a message goes out on an open socket.
Revised(b) ==
  /\ alertStation.now.revision < MaxConditionRevision
  /\ alertStation' = [b EXCEPT !.now.revision = @ + 1]
  /\ calm' = (calm \/ Calm(b.now))

Says(m) == socket' = IF IsOpen THEN [socket EXCEPT !.wire = Append(@, m)] ELSE socket
MayStay == Len(socket.wire) < MaxWire

\* A condition occurs.  The event that reports it names the revision that has it.
Raises(o) ==
  LET e == [occurrence |-> o, authority |-> alertStation.now.authority,
            revision |-> alertStation.now.revision + 1]
  IN  /\ o \notin alertStation.raised /\ o \in alertStation.now.evaluated /\ MayStay
      /\ Revised([alertStation EXCEPT !.now.record[o] = "active", !.raised = @ \cup {o},
                                      !.log = @ \cup {e}])
      /\ Says([ty |-> "event", is |-> e])
      /\ UNCHANGED <<view, stray, events, history, newest>>

Happening(o) == alertStation.now.record[o] \in {"active", "unknown"}

\* Its evidence is lost, comes back, or shows that it is over.
Turns(o, r) ==
  /\ Happening(o)
  /\ r \in {"active", "unknown", "resolved"} \ {alertStation.now.record[o]}
  /\ Revised([alertStation EXCEPT !.now.record[o] = r,
                !.over = IF r = "resolved" THEN @ \cup {o} ELSE @])
  /\ UNCHANGED <<view, socket, stray, events, history, newest>>

\* A record is dropped: it is history, or its condition is evaluated no more.
Drops(o) ==
  /\ alertStation.now.record[o] # "none"
  /\ Revised([alertStation EXCEPT !.now.record[o] = "none",
                !.now.evaluated = IF Happening(o) THEN @ \ {o} ELSE @])
  /\ UNCHANGED <<view, socket, stray, events, history, newest>>

\* All the evidence that was awaited is there.
Completes ==
  /\ ~alertStation.now.complete
  /\ Revised([alertStation EXCEPT !.now.complete = TRUE])
  /\ UNCHANGED <<view, socket, stray, events, history, newest>>

\* The station behind the connection starts again, with its journal or without.
Starts(journal) ==
  /\ alertStation.now.authority < MaxAuthority
  /\ alertStation' = [alertStation EXCEPT
       !.now.authority = @ + 1, !.now.revision = 1, !.now.complete = FALSE,
       !.now.record = [o \in Occurrences |->
         IF ~journal THEN "none" ELSE IF @[o] = "active" THEN "unknown" ELSE @[o]]]
  /\ UNCHANGED <<view, socket, stray, events, history, newest, calm>>

Publishes ==
  /\ IsOpen /\ MayStay
  /\ Says([ty |-> "conditions", is |-> alertStation.now])
  /\ UNCHANGED <<alertStation, view, stray, events, history, newest, calm>>

-----------------------------------------------------------------------------
(* View *)

\* begin_connection
Begun(v) == [connection |-> v.connection + 1, connected |-> TRUE, shown |-> NoSnapshot,
             retired |-> {}, invalid |-> FALSE]

Invalid(v) == [v EXCEPT !.invalid = TRUE]

\* Mutant: an authority that was replaced is forgotten.
TakesAnySnapshot(v, s) ==
  IF v.shown # NoSnapshot /\ s.authority = v.shown.authority /\ s.revision < v.shown.revision
  THEN v ELSE [v EXCEPT !.shown = s, !.invalid = FALSE]

\* A snapshot of the connection: not one of an authority that was replaced, not
\* one older than what is shown, and not one too many.
TakesSnapshot(v, s) ==
  IF s.authority \in v.retired THEN v
  ELSE IF v.shown = NoSnapshot THEN [v EXCEPT !.shown = s, !.invalid = FALSE]
  ELSE IF s.authority = v.shown.authority
       THEN IF s.revision < v.shown.revision THEN v
            ELSE IF s.revision = v.shown.revision /\ s # v.shown THEN Invalid(v)
            ELSE [v EXCEPT !.shown = s, !.invalid = FALSE]
  ELSE IF Cardinality(v.retired) >= MaxRetired THEN Invalid(v)
  ELSE [v EXCEPT !.retired = @ \cup {v.shown.authority}, !.shown = s, !.invalid = FALSE]

\* ingest
Ingested(v, c, s) == IF c # v.connection \/ ~v.connected THEN v ELSE TakesSnapshot(v, s)

SnapshotCurrent(v) == v.shown # NoSnapshot /\ v.connected /\ ~v.invalid /\ v.shown.complete

Represented(v, e) == v.shown # NoSnapshot /\ v.shown.record[e.occurrence] # "none"

\* Mutant: the revision of the event is not looked at.
KnownOverEarly(v, e) ==
  /\ SnapshotCurrent(v) /\ v.shown.authority = e.authority
  /\ e.occurrence \in v.shown.evaluated

\* MissingHistory without unknown: the snapshot would have the condition, if it
\* still were one.
KnownOver(v, e) ==
  /\ SnapshotCurrent(v)
  /\ v.shown.authority = e.authority /\ v.shown.revision >= e.revision
  /\ e.occurrence \in v.shown.evaluated

\* event_projection
Attention(v, e) == ~Represented(v, e) /\ ~KnownOver(v, e)

\* summary, as the dashboard asks for it.
Nominal ==
  /\ SnapshotCurrent(view) /\ ~Pressing(view.shown)
  /\ \A e \in events : ~Attention(view, e)

-----------------------------------------------------------------------------
(* The socket *)

\* Copies of the first message on the way, if it is a snapshot.
Copies == {[connection |-> view.connection, is |-> socket.wire[i].is] :
             i \in {j \in {1} \cap DOMAIN socket.wire : socket.wire[j].ty = "conditions"}}

\* A session begins, after the one before or because it was retired.
\* What the pump still has queued comes late.
SessionBegins ==
  /\ view.connection < MaxConnection
  /\ view' = Begun(view)
  /\ socket' = [st |-> "connecting", wire |-> <<>>]
  /\ newest' = NoSnapshot
  /\ calm' = Calm(alertStation.now)
  /\ stray' \in {stray} \cup Copies
  /\ UNCHANGED <<alertStation, events, history>>

SocketOpens ==
  /\ socket.st = "connecting"
  /\ socket' = [st |-> "open", wire |-> <<[ty |-> "conditions", is |-> alertStation.now]>>]
  /\ UNCHANGED <<alertStation, view, stray, events, history, newest, calm>>

ConnectFails ==
  /\ socket.st = "connecting"
  /\ socket' = [socket EXCEPT !.st = "closed"]
  /\ UNCHANGED <<alertStation, view, stray, events, history, newest, calm>>

\* handle_ws_message, for the first message on the way.  A relay may keep a copy.
Delivers ==
  /\ socket.wire # <<>>
  /\ socket' = [socket EXCEPT !.wire = Tail(@)]
  /\ LET m == Head(socket.wire)
     IN  IF m.ty = "event"
         THEN /\ events' = events \cup {m.is}
              /\ UNCHANGED <<view, newest, stray>>
         ELSE /\ view' = Ingested(view, view.connection, m.is)
              /\ newest' = m.is
              /\ stray' \in {stray} \cup Copies
              /\ UNCHANGED events
  /\ UNCHANGED <<alertStation, history, calm>>

\* A copy is handed over in whatever connection there is by now, any number of times.
Arrives ==
  /\ stray # NoStray /\ (stray.connection = view.connection => IsOpen)
  /\ view' = Ingested(view, stray.connection, stray.is)
  /\ UNCHANGED <<alertStation, socket, stray, events, history, newest, calm>>

\* A snapshot that does not parse, or is not valid.
Garbles ==
  /\ IsOpen
  /\ view' = IF view.connected THEN Invalid(view) ELSE view
  /\ UNCHANGED <<alertStation, socket, stray, events, history, newest, calm>>

\* The socket ends.  What was queued for the pump is handed over all the same.
SocketCloses ==
  /\ IsOpen
  /\ \E queued \in {<<>>, socket.wire} : socket' = [st |-> "closed", wire |-> queued]
  /\ view' = [view EXCEPT !.connected = FALSE]
  /\ UNCHANGED <<alertStation, stray, events, history, newest, calm>>

\* The session is retired, which nobody tells the view.
SessionRetires ==
  /\ IsOpen
  /\ socket' = [st |-> "closed", wire |-> <<>>]
  /\ UNCHANGED <<alertStation, view, stray, events, history, newest, calm>>

-----------------------------------------------------------------------------
(* The alert history *)

Asks ==
  /\ history = Unrequested
  /\ history' = [st |-> "asked"]
  /\ UNCHANGED <<alertStation, view, socket, stray, events, newest, calm>>

HistoryServed ==
  /\ history.st = "asked"
  /\ history' = [st |-> "served", is |-> alertStation.log]
  /\ UNCHANGED <<alertStation, view, socket, stray, events, newest, calm>>

\* The lists are replaced by the answer, whatever arrived meanwhile.
HistoryShown ==
  /\ history.st = "served"
  /\ events' = history.is
  /\ history' = Unrequested
  /\ UNCHANGED <<alertStation, view, socket, stray, newest, calm>>

HistoryFails ==
  /\ history.st # "none"
  /\ history' = Unrequested
  /\ UNCHANGED <<alertStation, view, socket, stray, events, newest, calm>>

\* The effect of a clear.
ClearsEvents ==
  /\ events # {}
  /\ events' = {}
  /\ UNCHANGED <<alertStation, view, socket, stray, history, newest, calm>>

-----------------------------------------------------------------------------

AlertNext ==
  \/ \E o \in Occurrences : Raises(o) \/ Drops(o) \/ \E r \in Records : Turns(o, r)
  \/ Completes \/ Publishes
  \/ \E journal \in BOOLEAN : Starts(journal)
  \/ SessionBegins \/ SocketOpens \/ ConnectFails \/ SocketCloses \/ SessionRetires
  \/ Delivers \/ Arrives \/ Garbles
  \/ Asks \/ HistoryServed \/ HistoryShown \/ HistoryFails \/ ClearsEvents

AlertSpec == AlertInit /\ [][AlertNext]_alertVars

-----------------------------------------------------------------------------
(* Properties *)

Message == [ty : {"event"}, is : Link] \cup [ty : {"conditions"}, is : ConditionSnapshot]

\* Every variable holds a value of its kind, and the authority shown has not
\* been replaced.
AlertTypeOK ==
  /\ alertStation \in [now : ConditionSnapshot, raised : SUBSET Occurrences,
                       over : SUBSET Occurrences, log : SUBSET Link]
  /\ view \in [connection : 0..MaxConnection, connected : BOOLEAN,
               shown : ConditionSnapshot \cup {NoSnapshot}, retired : SUBSET Authorities,
               invalid : BOOLEAN]
  /\ view.shown # NoSnapshot => view.shown.authority \notin view.retired
  /\ socket.st \in {"connecting", "open", "closed"} /\ socket.wire \in Seq(Message)
  /\ newest \in ConditionSnapshot \cup {NoSnapshot}
  /\ stray # NoStray => stray \in [connection : 1..MaxConnection, is : ConditionSnapshot]
  /\ events \subseteq Link
  /\ history.st \in {"none", "asked", "served"}
  /\ history.st = "served" => history.is \subseteq Link
  /\ calm \in BOOLEAN

OlderThan(s, t) ==
  s.authority < t.authority \/ (s.authority = t.authority /\ s.revision < t.revision)

\* "Stale authority ... snapshots never claim nominal": Nominal is said only if
\* the station had nothing to report at some time of this connection, and by
\* the newest of the snapshots that came on it, whatever came again or late,
\* unless that is of an authority there was no room to accept.
NominalIsHonest ==
  Nominal => /\ calm
             /\ \/ ~OlderThan(view.shown, newest)
                \/ /\ Cardinality(view.retired) >= MaxRetired
                   /\ newest.authority # view.shown.authority

\* An event that asks for no attention reports a condition that is listed or
\* over: never one the station stopped evaluating, or forgot in a restart, or
\* that is newer than the snapshot.
QuietEventIsOver ==
  \A e \in events : \/ Attention(view, e) \/ Represented(view, e)
                    \/ e.occurrence \in alertStation.over

=============================================================================
