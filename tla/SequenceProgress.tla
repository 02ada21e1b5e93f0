-------------------------- MODULE SequenceProgress --------------------------
(***************************************************************************)
(* The panels of running and finished sequences (sequence_progress_model   *)
(* and its host): one poll of the station's observation, requests for the  *)
(* details of results, and the operator's cancel, dismiss and open, each   *)
(* answered after the connection, the station's run history or the run     *)
(* may have changed.                                                       *)
(***************************************************************************)
EXTENDS Naturals, FiniteSets, SequencesExt

CONSTANTS
  NRuns,        \* runs of the station, in the order they begin
  EraOf,        \* the reset epoch in which each run takes place
  Cancellable,  \* runs of a kind with a safe cancel
  Capacity,     \* MAX_ACTIVE, how many panels are kept
  MaxRevision,  \* bounds: revisions of a run, connections of the dashboard, and
  MaxEpoch,     \* how many results and cancels are asked for at once
  MaxAsked

Runs == 1..NRuns
Eras == {1} \cup {EraOf[r] : r \in Runs}
Older == 0    \* the scope before any envelope

VARIABLES
  station,   \* the station: its era, and how far each run is
  epoch,     \* WS_EPOCH
  model,     \* the Model: source epoch, scope, panels, cached results, errors
  poll,      \* the observation under way
  fetches,   \* the result asked for, by run
  cancels    \* the cancel intent last sent for each run

seqVars == <<station, epoch, model, poll, fetches, cancels>>

Phases == {"absent", "running", "ended", "old", "lost"}
Panel == [run : Runs, rev : 1..MaxRevision, ended : BOOLEAN, full : BOOLEAN,
          visible : BOOLEAN, cancel : BOOLEAN, historical : BOOLEAN, closes : BOOLEAN]
Snapshot == [run : Runs, rev : 1..MaxRevision, ended : BOOLEAN, full : BOOLEAN]
NoRequest == [st |-> "none"]

ASSUME SequenceAssumption ==
  /\ NRuns \in Nat /\ Cancellable \subseteq Runs
  /\ Capacity \in Nat \ {0} /\ MaxRevision \in Nat \ {0, 1}
  /\ MaxEpoch \in Nat /\ MaxAsked \in Nat
  /\ EraOf \in [Runs -> Nat \ {Older}]
  /\ \A r, s \in Runs : r < s => EraOf[r] <= EraOf[s]

EmptyModel(e, scope) ==
  [source |-> e, scope |-> scope, panels |-> <<>>, results |-> {}, asked |-> {}, notices |-> {},
   unavailable |-> FALSE, api |-> FALSE]

SeqInit ==
  /\ station = [era |-> 1, runs |-> [r \in Runs |-> [phase |-> "absent", rev |-> 0]]]
  /\ epoch = 0
  /\ model = EmptyModel(0, Older)
  /\ poll = NoRequest
  /\ fetches = [r \in Runs |-> NoRequest]
  /\ cancels = [r \in Runs |-> NoRequest]

-----------------------------------------------------------------------------
(* The station *)

Phase(r) == station.runs[r].phase
Goes(r, p, v) == station' = [station EXCEPT !.runs[r] = [phase |-> p, rev |-> v]]

Begins(r) ==
  /\ Phase(r) = "absent" /\ EraOf[r] = station.era
  /\ \A s \in Runs : s < r => Phase(s) # "absent"
  /\ Goes(r, "running", 1)
  /\ UNCHANGED <<epoch, model, poll, fetches, cancels>>

\* Progress, or the end, is a new revision.
Reports(r, p) ==
  /\ Phase(r) = "running" /\ station.runs[r].rev < MaxRevision
  /\ p = "running" => station.runs[r].rev + 1 < MaxRevision
  /\ Goes(r, p, station.runs[r].rev + 1)
  /\ UNCHANGED <<epoch, model, poll, fetches, cancels>>

\* After AUTO_CLOSE_MS a result is only listed, not shown.
Ages(r) ==
  /\ Phase(r) = "ended"
  /\ Goes(r, "old", station.runs[r].rev)
  /\ UNCHANGED <<epoch, model, poll, fetches, cancels>>

\* The run history is reset: what ran is gone, what had ended is history.
NewEra ==
  /\ station.era + 1 \in Eras
  /\ station' = [era |-> station.era + 1,
                 runs |-> [r \in Runs |->
                   IF EraOf[r] > station.era THEN station.runs[r]
                   ELSE [station.runs[r] EXCEPT !.phase =
                           IF @ \in {"ended", "old"} THEN "old" ELSE "lost"]]]
  /\ UNCHANGED <<epoch, model, poll, fetches, cancels>>

-----------------------------------------------------------------------------
(* Model::accept *)

At(ps, r) ==
  IF \E i \in DOMAIN ps : ps[i].run = r THEN CHOOSE i \in DOMAIN ps : ps[i].run = r ELSE 0
Shown(r) == At(model.panels, r) # 0
PanelOf(r) == model.panels[At(model.panels, r)]

\* An observation older than the panel's is stale.
Takes(p, s) == s.rev >= p.rev

\* Mutant: the summary replaces the details.
UpdatedShort(p, s) ==
  [p EXCEPT !.rev = s.rev, !.ended = s.ended, !.full = s.full,
            !.closes = @ \/ (s.ended /\ ~p.ended),
            !.cancel = @ /\ ~(s.ended /\ ~p.ended)]

\* Mutant: every revision offers the cancel again.
UpdatedOffers(p, s) ==
  [p EXCEPT !.rev = s.rev, !.ended = s.ended,
            !.full = s.full \/ (p.full /\ s.rev = p.rev),
            !.closes = @ \/ (s.ended /\ ~p.ended), !.cancel = FALSE]

\* The first terminal revision starts the time to close and ends a cancel; full
\* details are never replaced by the summary of the same revision.
Updated(p, s) ==
  [p EXCEPT !.rev = s.rev, !.ended = s.ended,
            !.full = s.full \/ (p.full /\ s.rev = p.rev),
            !.closes = @ \/ (s.ended /\ ~p.ended),
            !.cancel = @ /\ ~(s.ended /\ ~p.ended)]

NewPanel(s) ==
  [run |-> s.run, rev |-> s.rev, ended |-> s.ended, full |-> s.full, visible |-> TRUE,
   cancel |-> FALSE, historical |-> FALSE, closes |-> s.ended]

\* Mutant: the oldest panel makes room, finished or not.
RoomOldest(ps) == IF Len(ps) < Capacity THEN ps ELSE Tail(ps)

\* Room for one more panel: the first finished one goes.
Room(ps) ==
  IF Len(ps) < Capacity THEN ps
  ELSE LET i == SelectInSeq(ps, LAMBDA p : p.ended) IN IF i = 0 THEN ps ELSE RemoveAt(ps, i)

Accepted(m, s) ==
  LET i == At(m.panels, s.run)
      ps == IF i # 0 THEN [m.panels EXCEPT ![i] = Updated(@, s)]
            ELSE Append(Room(m.panels), NewPanel(s))
  IN  IF (i # 0 /\ ~Takes(m.panels[i], s)) \/ Len(ps) > Capacity
      THEN [ok |-> FALSE, m |-> m]
      ELSE [ok |-> TRUE,
            m |-> [m EXCEPT !.panels = ps, !.unavailable = FALSE,
                            !.results = IF s.ended /\ s.full THEN @ \cup {s.run} ELSE @]]

\* set_source, set_scope: another connection or run history clears everything.
SetSource(m, e) == IF m.source = e THEN m ELSE EmptyModel(e, Older)

\* Mutant: the panels stay.
SetScopeOnly(m, era) == [m EXCEPT !.scope = era]

SetScope(m, era) == IF m.scope = era THEN m ELSE [EmptyModel(m.source, era) EXCEPT !.api = m.api]

\* The snapshots of an envelope one by one, until one is refused.
AcceptAll(m, ss) ==
  LET upto[k \in 0..Len(ss)] ==
        IF k = 0 THEN [ok |-> TRUE, m |-> m]
        ELSE LET a == upto[k - 1] IN IF a.ok THEN Accepted(a.m, ss[k]) ELSE a
  IN  upto[Len(ss)]

\* needed_result_details: once for each result that is shown without them.
Needed(m) ==
  {r \in Runs \ m.asked : \E i \in DOMAIN m.panels :
     LET p == m.panels[i] IN p.run = r /\ p.visible /\ p.ended /\ ~p.full}

-----------------------------------------------------------------------------
(* The poll *)

\* Runs in the order they began.
InOrder(I) ==
  [k \in 1..Cardinality(I) |-> CHOOSE r \in I : Cardinality({s \in I : s <= r}) = k]

Listed(phases) ==
  LET rs == InOrder({r \in Runs : Phase(r) \in phases /\ EraOf[r] = station.era})
  IN  [i \in DOMAIN rs |-> [run |-> rs[i], rev |-> station.runs[rs[i]].rev,
                            ended |-> Phase(rs[i]) # "running", full |-> FALSE]]

PollBegins ==
  /\ poll = NoRequest
  /\ model' = SetSource(model, epoch)
  /\ poll' = [st |-> "asked", epoch |-> epoch]
  /\ UNCHANGED <<station, epoch, fetches, cancels>>

\* The envelope: the runs under way, then those that ended a moment ago.
StationAnswers ==
  /\ poll.st = "asked"
  /\ poll' = [st |-> "answered", epoch |-> poll.epoch, era |-> station.era,
              list |-> Listed({"running"}) \o Listed({"ended"}),
              links |-> {r \in Runs : Phase(r) \in {"ended", "old"}}]
  /\ UNCHANGED <<station, epoch, model, fetches, cancels>>

PollSuperseded ==
  /\ poll.st # "none" /\ poll.epoch # epoch
  /\ model' = [SetSource(model, epoch) EXCEPT !.api = FALSE]
  /\ poll' = NoRequest
  /\ UNCHANGED <<station, epoch, fetches, cancels>>

PollEnds ==
  /\ poll.st = "answered" /\ poll.epoch = epoch
  /\ LET a == AcceptAll(SetScope(model, poll.era), poll.list)
     IN  IF a.ok
         THEN /\ model' = [a.m EXCEPT !.unavailable = FALSE, !.api = TRUE,
                                      !.asked = @ \cup Needed(a.m),
                                      !.notices = @ \cup poll.links]
              /\ fetches' = [r \in Runs |->
                   IF r \in Needed(a.m) THEN [st |-> "details", epoch |-> epoch]
                   ELSE fetches[r]]
         ELSE /\ model' = [a.m EXCEPT !.unavailable = TRUE, !.api = FALSE]
              /\ UNCHANGED fetches
  /\ poll' = NoRequest
  /\ UNCHANGED <<station, epoch, cancels>>

PollFails ==
  /\ poll.st = "asked" /\ poll.epoch = epoch
  /\ model' = [model EXCEPT !.unavailable = TRUE, !.api = FALSE]
  /\ poll' = NoRequest
  /\ UNCHANGED <<station, epoch, fetches, cancels>>

-----------------------------------------------------------------------------
(* Results *)

Unanswered == {r \in Runs : fetches[r] # NoRequest} \cup {r \in Runs : cancels[r].st = "sent"}
MayAsk == Cardinality(Unanswered) < MaxAsked

Result(r) == [run |-> r, rev |-> station.runs[r].rev, ended |-> TRUE, full |-> TRUE]

\* Model::open_result, for a notification: the panel is history from now on.
Opened(m, s) ==
  LET a == Accepted(m, s)
      i == At(a.m.panels, s.run)
  IN  IF a.ok THEN [a.m EXCEPT !.panels[i].historical = TRUE, !.panels[i].visible = TRUE,
                               !.panels[i].closes = FALSE]
      ELSE [a.m EXCEPT !.unavailable = TRUE]

\* A result that is cached is opened at once, unless the model is of an earlier
\* connection; any other is asked for.
Open(r) ==
  /\ r \in model.notices /\ fetches[r] = NoRequest /\ MayAsk
  /\ IF r \in model.results
     THEN /\ model' = IF model.source = epoch
                      THEN [Opened(model, Result(r)) EXCEPT
                              !.unavailable = @ /\ model.unavailable] ELSE model
          /\ UNCHANGED fetches
     ELSE /\ fetches' = [fetches EXCEPT ![r] = [st |-> "open", epoch |-> epoch]]
          /\ UNCHANGED model
  /\ UNCHANGED <<station, epoch, poll, cancels>>

\* The answer is for this connection, and the model has followed to it.
Timely(r) == fetches[r].epoch = epoch /\ model.source = epoch

\* An ordinary snapshot must be of the era in scope, a result asked for need not.
FetchEnds(r) ==
  /\ fetches[r].st # "none"
  /\ fetches' = [fetches EXCEPT ![r] = NoRequest]
  /\ model' = CASE fetches[r].epoch # epoch -> model
                [] ~Timely(r) -> [model EXCEPT !.unavailable = TRUE]
                [] Timely(r) /\ fetches[r].st = "open" -> Opened(model, Result(r))
                [] OTHER -> LET a == Accepted(model, Result(r))
                            IN  IF a.ok /\ model.scope \in {Older, EraOf[r]} THEN a.m
                                ELSE [model EXCEPT !.unavailable = TRUE]
  /\ UNCHANGED <<station, epoch, poll, cancels>>

FetchFails(r) ==
  /\ fetches[r].st # "none"
  /\ fetches' = [fetches EXCEPT ![r] = NoRequest]
  /\ UNCHANGED <<station, epoch, model, poll, cancels>>

\* tick: a finished panel closes after its time.
Closes(r) ==
  /\ Shown(r) /\ PanelOf(r).ended /\ PanelOf(r).closes /\ PanelOf(r).visible
  /\ model' = [model EXCEPT !.panels[At(model.panels, r)].visible = FALSE]
  /\ UNCHANGED <<station, epoch, poll, fetches, cancels>>

\* Mutant: whatever the operator dismisses is put away.
DismissAny(r) ==
  /\ Shown(r) /\ PanelOf(r).visible
  /\ model' = [model EXCEPT !.panels[At(model.panels, r)].visible = FALSE]
  /\ UNCHANGED <<station, epoch, poll, fetches, cancels>>

\* A run under way is minimized instead.
Dismiss(r) ==
  /\ Shown(r) /\ PanelOf(r).visible /\ PanelOf(r).ended
  /\ model' = [model EXCEPT !.panels[At(model.panels, r)].visible = FALSE]
  /\ UNCHANGED <<station, epoch, poll, fetches, cancels>>

-----------------------------------------------------------------------------
(* Cancel *)

\* can_cancel, for an observation that is still fresh.
CanCancel(r) ==
  /\ r \in Cancellable /\ ~model.unavailable /\ model.api
  /\ Shown(r) /\ LET p == PanelOf(r) IN ~p.ended /\ ~p.cancel /\ ~p.historical

\* A second intent for a run whose first was not refused is told apart.
Cancel(r) ==
  /\ CanCancel(r) /\ MayAsk
  /\ model' = [model EXCEPT !.panels[At(model.panels, r)].cancel = TRUE]
  /\ cancels' = [cancels EXCEPT ![r] =
       [st |-> IF @.st \in {"sent", "accepted"} /\ @.source = model.source THEN "again" ELSE "sent",
        epoch |-> epoch, source |-> model.source]]
  /\ UNCHANGED <<station, epoch, poll, fetches>>

CancelAccepted(r) ==
  /\ cancels[r].st = "sent"
  /\ cancels' = [cancels EXCEPT ![r].st = "accepted"]
  /\ UNCHANGED <<station, epoch, model, poll, fetches>>

\* A refusal gives the button back, on the connection it was pressed on.
CancelRefused(r) ==
  /\ cancels[r].st = "sent"
  /\ cancels' = [cancels EXCEPT ![r] = NoRequest]
  /\ model' = IF cancels[r].epoch # epoch THEN model
              ELSE [model EXCEPT !.unavailable = TRUE,
                      !.panels = [i \in DOMAIN @ |->
                        IF @[i].run = r THEN [@[i] EXCEPT !.cancel = FALSE] ELSE @[i]]]
  /\ UNCHANGED <<station, epoch, poll, fetches>>

\* Another station, another login or a reconnect.
NewEpoch ==
  /\ epoch < MaxEpoch
  /\ epoch' = epoch + 1
  /\ UNCHANGED <<station, model, poll, fetches, cancels>>

-----------------------------------------------------------------------------

SeqNext ==
  \/ NewEra \/ NewEpoch
  \/ PollBegins \/ StationAnswers \/ PollSuperseded \/ PollEnds \/ PollFails
  \/ \E r \in Runs :
       \/ Begins(r) \/ Reports(r, "running") \/ Reports(r, "ended") \/ Ages(r)
       \/ Open(r) \/ FetchEnds(r) \/ FetchFails(r) \/ Closes(r) \/ Dismiss(r)
       \/ Cancel(r) \/ CancelAccepted(r) \/ CancelRefused(r)

SeqSpec == SeqInit /\ [][SeqNext]_seqVars

-----------------------------------------------------------------------------
(* Properties *)

\* Every variable holds a value of its kind; a run has one panel, and the panels
\* keep to their capacity.
SeqTypeOK ==
  /\ station.era \in Eras
  /\ \A r \in Runs : Phase(r) \in Phases /\ station.runs[r].rev \in 0..MaxRevision
  /\ epoch \in 0..MaxEpoch /\ model.source \in 0..epoch
  /\ model.scope \in Eras \cup {Older}
  /\ model.panels \in Seq(Panel) /\ Len(model.panels) <= Capacity
  /\ \A i, j \in DOMAIN model.panels : model.panels[i].run = model.panels[j].run => i = j
  /\ model.results \subseteq Runs /\ model.asked \subseteq Runs
  /\ model.notices \subseteq Runs
  /\ poll.st \in {"none", "asked", "answered"}
  /\ poll.st = "answered" => poll.list \in Seq(Snapshot)
  /\ \A r \in Runs : fetches[r].st \in {"none", "details", "open"}
  /\ \A r \in Runs : cancels[r].st \in {"none", "sent", "accepted", "again"}

\* The runs that have a panel.
Shelved == {model.panels[i].run : i \in DOMAIN model.panels}
SameSource == model'.source = model.source /\ model'.scope = model.scope

\* "Running, paused, cancelling and unknown are never dismissed as finished": a
\* run that is shown as running stays on a visible panel until it is seen to end
\* or the source is another one, whatever arrives late and whatever makes room.
RunningStaysShown ==
  [][\A r \in Shelved : SameSource /\ ~PanelOf(r).ended
       => \/ Shown(r)' /\ PanelOf(r)'.visible
          \/ poll.st = "answered" /\ \E i \in DOMAIN poll.list : poll.list[i].run = r
                                                             /\ poll.list[i].ended]_seqVars

\* Nothing shown ran in another reset epoch or was observed before the panels'
\* source, unless the operator opened it as history.
PanelsOfThisEra ==
  \A i \in DOMAIN model.panels : LET p == model.panels[i]
                                 IN  p.historical \/ EraOf[p.run] = model.scope

\* One cancel intent is sent for a run: no second one while the first is under
\* way or was accepted, on the same connection.
CancelOnce == \A r \in Runs : cancels[r].st # "again"

\* A result that is shown with its details keeps them, though the poll, asked
\* before or after, only ever has the summary, and is not shown as running; but
\* for the room that other runs may need.
DetailsStay ==
  [][\A r \in Shelved : SameSource /\ PanelOf(r).full /\ Len(model'.panels) < Capacity
       => Shown(r)' /\ PanelOf(r)'.full /\ PanelOf(r)'.ended]_seqVars

=============================================================================
