------------------------- MODULE CalibrationEditor -------------------------
(***************************************************************************)
(* The calibration page: the points of the sensors, edited one sensor at a *)
(* time in a draft that outlives the page, while the station's file is     *)
(* loaded, synchronized, saved, discarded and changed by the panels for    *)
(* load cells, and captures add points to it or replace them.  A draft is  *)
(* of a whole file and of one address; the selected sensor is one for all  *)
(* addresses, and a save is of that sensor only.  Stations are external;   *)
(* every point has a sensor and a number, whoever makes it.                *)
(***************************************************************************)
EXTENDS Naturals, FiniteSets

CONSTANTS
  Sites,           \* addresses of stations
  Sensors,
  MaxPoint,        \* bounds: points, requests at once, changes of the address
  MaxCalibration,
  MaxMove

VARIABLES
  site,      \* the configured address, and how often it has changed
  selected,  \* the selected sensor, kept on disk for all addresses together
  stored,    \* the points of each station's file
  drafts,    \* the drafts on disk, by address
  editor,    \* the signals of the page, if it is mounted
  requests,  \* its requests and its sequence capture, across their awaits
  made,      \* how many points there are
  settled,   \* history: points some station had, or the operator gave up
  fresh      \* history: is there a confirmation no capture has used?

calVars == <<site, selected, stored, drafts, editor, requests, made, settled, fresh>>

Points == [sensor : Sensors, n : 1..MaxPoint]
OfSensor(f, s) == {p \in f : p.sensor = s}   \* the channel of s in the file f

\* No draft, or nothing to show: differs from every set of points.
NoDraft == {[sensor |-> "none", n |-> 0]}
NoEditor == [mounted |-> FALSE]
Resting == [st |-> "none"]
Requests == {"load", "sync", "discard", "save", "apply"}
AtRest == [c \in Requests \cup {"capture", "layout"} |-> Resting]

ASSUME CalibrationAssumption ==
  /\ Sites # {} /\ Sensors # {}
  /\ MaxPoint \in Nat \ {0} /\ MaxCalibration \in Nat /\ MaxMove \in Nat

\* An earlier visit may have left a draft for another station, of any sensor.
CalInit ==
  /\ site \in [at : Sites, moves : {0}] /\ selected \in Sensors
  /\ stored = [st \in Sites |-> {}]
  /\ \E left \in {NoDraft} \cup {{[sensor |-> s, n |-> 1]} : s \in Sensors} :
       /\ drafts = [st \in Sites |-> IF st = site.at THEN NoDraft ELSE left]
       /\ made = IF left = NoDraft THEN 0 ELSE 1
  /\ editor = NoEditor /\ requests = AtRest
  /\ settled = {} /\ fresh = FALSE

-----------------------------------------------------------------------------
(* The page *)

\* Mutant: a page that lost its owner goes on keeping the draft.
DraftKeptAnyway(e) == [drafts EXCEPT ![site.at] = IF e.dirty THEN e.cfg ELSE NoDraft]

\* The effect that keeps the draft: it runs whenever the file or `dirty` changed,
\* and writes at the address configured now.
DraftKept(e) ==
  IF e.current THEN [drafts EXCEPT ![site.at] = IF e.dirty THEN e.cfg ELSE NoDraft]
  ELSE drafts

\* The page becomes e, and the draft follows.
Displays(e) == editor' = e /\ drafts' = DraftKept(e)

CanEdit == editor.mounted /\ editor.loaded /\ editor.dialog = "closed"

\* The draft is shown until the station answers.  The sensor is the one on disk, or,
\* if the layout kept for this station lacks it, the first of that layout.
Mounts ==
  /\ ~editor.mounted
  /\ LET draft == drafts[site.at]
     IN  Displays([mounted |-> TRUE, current |-> TRUE, loaded |-> FALSE,
                   dialog |-> "closed", dirty |-> draft # NoDraft, cfg |-> draft,
                   saving |-> FALSE, capturing |-> FALSE])
  /\ requests' = [AtRest EXCEPT !["load"] = [st |-> "sent"], !["layout"] = [st |-> "sent"]]
  /\ selected' \in Sensors
  /\ UNCHANGED <<site, stored, made, settled, fresh>>

\* Another tab, or the retirement of an editor that lost its owner: its tasks end.
Unmounts ==
  /\ editor.mounted
  /\ editor' = NoEditor /\ requests' = AtRest
  /\ fresh' = FALSE
  /\ UNCHANGED <<site, selected, stored, drafts, made, settled>>

\* Station, login, connection or DAQ input is another one.  The page stays until
\* its timer finds out, and meanwhile keeps nothing.  No await of its tasks takes an
\* answer any more (ExportOwner::wait): they end, and the page goes on waiting for a
\* save or a capture.  What stations do with a post under way is left out.
LosesOwner ==
  /\ editor.mounted /\ editor.current
  /\ editor' = [editor EXCEPT !.current = FALSE]
  /\ requests' = AtRest
  /\ UNCHANGED <<site, selected, stored, drafts, made, settled, fresh>>

AddressMoves(st) ==
  /\ editor.mounted => ~editor.current
  /\ site.at # st /\ site.moves < MaxMove
  /\ site' = [at |-> st, moves |-> site.moves + 1]
  /\ UNCHANGED <<selected, stored, drafts, editor, requests, made, settled, fresh>>

-----------------------------------------------------------------------------
(* The selected sensor *)

\* The requests once s is selected: the panels are those of a sensor, and take
\* what they asked for with them.
WithPanelsOf(s) ==
  IF s = selected THEN requests ELSE [requests EXCEPT !["apply"] = Resting]

\* A button of the toolbar, which a page with edits disables.
PicksSensor(s) ==
  /\ editor.mounted /\ editor.dialog = "closed"
  /\ ~editor.dirty /\ ~editor.capturing /\ ~editor.saving
  /\ selected' = s /\ requests' = WithPanelsOf(s)
  /\ UNCHANGED <<site, stored, drafts, editor, made, settled, fresh>>

\* The station's layout: if it lacks the selected sensor, its first is selected,
\* edits or not.
LayoutArrives(s) ==
  /\ requests["layout"].st = "sent" /\ editor.current
  /\ selected' = s
  /\ requests' = [WithPanelsOf(s) EXCEPT !["layout"] = Resting]
  /\ UNCHANGED <<site, stored, drafts, editor, made, settled, fresh>>

-----------------------------------------------------------------------------
(* Edits, all of the selected sensor *)

Edited(e, f) == [e EXCEPT !.cfg = f, !.dirty = TRUE]
NextPoint(s) == [sensor |-> s, n |-> made + 1]

\* A point or coefficients are entered, or the fit is made again.
Enters ==
  /\ CanEdit /\ made < MaxPoint
  /\ Displays(Edited(editor, editor.cfg \cup {NextPoint(selected)}))
  /\ made' = made + 1
  /\ UNCHANGED <<site, selected, stored, requests, settled, fresh>>

\* The selected point is removed, or the channel.
Removes ==
  /\ CanEdit
  /\ \E gone \in {OfSensor(editor.cfg, selected)} \cup
                 {{p} : p \in OfSensor(editor.cfg, selected)} :
       /\ Displays(Edited(editor, editor.cfg \ gone))
       /\ settled' = settled \cup gone
  /\ UNCHANGED <<site, selected, stored, requests, made, fresh>>

-----------------------------------------------------------------------------
(* Captures of a sequence *)

\* "New sequence..." replaces the points, "Continue existing..." adds to them.
OpensDialog(does) ==
  /\ CanEdit /\ does \in {"add", "replace"}
  /\ editor' = [editor EXCEPT !.dialog = does]
  /\ fresh' = FALSE
  /\ UNCHANGED <<site, selected, stored, drafts, requests, made, settled>>

\* "I understand this will replace the existing sequence data."
TicksReset ==
  /\ editor.mounted /\ editor.dialog \in {"replace", "confirmed"}
  /\ editor' = [editor EXCEPT !.dialog = IF @ = "replace" THEN "confirmed" ELSE "replace"]
  /\ fresh' = (editor'.dialog = "confirmed")
  /\ UNCHANGED <<site, selected, stored, drafts, requests, made, settled>>

\* Cancel or Done: a capture under way goes on.
ClosesDialog ==
  /\ editor.mounted /\ editor.dialog # "closed"
  /\ editor' = [editor EXCEPT !.dialog = "closed"]
  /\ fresh' = FALSE
  /\ UNCHANGED <<site, selected, stored, drafts, requests, made, settled>>

\* The request is frozen before samples are awaited.
Captures ==
  /\ editor.mounted /\ editor.loaded /\ ~editor.capturing
  /\ editor.dialog \in {"add", "confirmed"}
  /\ editor' = [editor EXCEPT !.capturing = TRUE]
  /\ requests' = [requests EXCEPT !["capture"] =
       [st |-> "sent", sensor |-> selected,
        replace |-> editor.dialog = "confirmed", confirmed |-> fresh]]
  /\ UNCHANGED <<site, selected, stored, drafts, made, settled, fresh>>

\* Mutant: the captures after the first replace again.
AfterCaptureReplacing(dialog, last) == IF last THEN "closed" ELSE dialog

\* The dialog after a capture: the last zero of a falling sequence closes it,
\* else what follows is added, though it be another dialog by now.
AfterCapture(dialog, last) ==
  IF last \/ dialog = "closed" THEN "closed" ELSE "add"

\* apply_sequence_capture, for a page that has its owner and its sensor.
CaptureEnds ==
  LET c == requests["capture"]
      before == IF c.replace THEN editor.cfg \ OfSensor(editor.cfg, c.sensor) ELSE editor.cfg
  IN  /\ c.st = "sent" /\ editor.current /\ selected = c.sensor /\ made < MaxPoint
      /\ \E last \in {FALSE, ~c.replace} :
           Displays([Edited(editor, before \cup {NextPoint(c.sensor)}) EXCEPT
                       !.capturing = FALSE, !.dialog = AfterCapture(@, last)])
      /\ requests' = [requests EXCEPT !["capture"] = Resting]
      /\ made' = made + 1
      /\ settled' = settled \cup (editor.cfg \ before)
      /\ fresh' = FALSE
      /\ UNCHANGED <<site, selected, stored>>

\* The samples stop or are stale.  Those of an editor that lost its owner, or of a
\* sensor not selected any more, are dropped, and the page goes on waiting.
CaptureFails ==
  /\ requests["capture"].st = "sent"
  /\ requests' = [requests EXCEPT !["capture"] = Resting]
  /\ \/ editor.current /\ editor' = [editor EXCEPT !.capturing = FALSE]
     \/ (~editor.current \/ selected # requests["capture"].sensor) /\ UNCHANGED editor
  /\ UNCHANGED <<site, selected, stored, drafts, made, settled, fresh>>

-----------------------------------------------------------------------------
(* Requests *)

OnTheWay == {c \in Requests : requests[c].st # "none"}

\* A request goes out, unless the owner is gone.
Sends(c, r) ==
  /\ editor.current
  /\ requests[c].st = "none" /\ Cardinality(OnTheWay) < MaxCalibration
  /\ requests' = [requests EXCEPT ![c] = r]
  /\ UNCHANGED <<site, selected, stored, drafts, made, settled, fresh>>

\* The sync of a page without edits.
Syncs ==
  /\ editor.mounted /\ editor.dialog = "closed" /\ ~editor.dirty
  /\ Sends("sync", [st |-> "sent", of |-> editor.cfg])
  /\ UNCHANGED editor

\* "Discard and reload": what is edited now is given up.
Discards ==
  /\ editor.mounted /\ editor.dialog = "closed" /\ editor.dirty
  /\ ~editor.capturing /\ ~editor.saving
  /\ Sends("discard", [st |-> "sent", gone |-> editor.cfg])
  /\ UNCHANGED editor

\* The long zero capture is applied, or a settled point of the temperature taken.
Applies(panel) ==
  /\ CanEdit /\ ~editor.dirty
  /\ Sends("apply", [st |-> "sent", panel |-> panel])
  /\ UNCHANGED editor

\* The whole file is sent, and which of its channels to save.
Saves ==
  /\ CanEdit /\ editor.dirty /\ ~editor.capturing /\ ~editor.saving
  /\ Sends("save", [st |-> "sent", of |-> editor.cfg, sensor |-> selected])
  /\ editor' = [editor EXCEPT !.saving = TRUE]

\* The station's file f after the save r: the other sensors keep what they had.
Saved(f, r) == (f \ OfSensor(f, r.sensor)) \cup OfSensor(r.of, r.sensor)

\* The station answers with its file, of which a save has changed one sensor.
Served(c) ==
  LET r == requests[c]
  IN  /\ c \in Requests /\ r.st = "sent"
      /\ stored' = IF c = "save" THEN [stored EXCEPT ![site.at] = Saved(@, r)] ELSE stored
      /\ settled' = IF c = "save" THEN settled \cup OfSensor(r.of, r.sensor) ELSE settled
      /\ requests' = [requests EXCEPT ![c] =
           [st |-> "served", file |-> stored'[site.at], was |-> r]]
      /\ UNCHANGED <<site, selected, drafts, editor, made, fresh>>

\* Another client saves a point of its own.
OthersSave ==
  /\ made < MaxPoint
  /\ made' = made + 1
  /\ \E s \in Sensors :
       /\ stored' = [stored EXCEPT ![site.at] = @ \cup {NextPoint(s)}]
       /\ settled' = settled \cup {NextPoint(s)}
  /\ UNCHANGED <<site, selected, drafts, editor, requests, fresh>>

\* The answer r to a request c comes back to an editor that still has its owner.
Answers(c) ==
  /\ requests[c].st = "served" /\ editor.current
  /\ requests' = [requests EXCEPT ![c] = Resting]
  /\ UNCHANGED <<site, selected, stored, made, fresh>>

\* The load of a page with edits leaves them, and stops if they are for another
\* DAQ input than the station has.
FileLoaded ==
  LET f == requests["load"].file
  IN  /\ Answers("load")
      /\ Displays(IF editor.dirty THEN [editor EXCEPT !.loaded = TRUE]
                  ELSE [editor EXCEPT !.loaded = TRUE, !.cfg = f])
      /\ UNCHANGED settled

FileOfAnotherInput ==
  /\ Answers("load") /\ editor.dirty
  /\ Displays([editor EXCEPT !.loaded = FALSE])
  /\ UNCHANGED settled

SyncEnds ==
  LET r == requests["sync"]
  IN  /\ Answers("sync")
      /\ IF editor.dirty \/ editor.dialog # "closed" \/ editor.cfg # r.was.of
         THEN UNCHANGED <<editor, drafts>>
         ELSE Displays([editor EXCEPT !.loaded = TRUE, !.cfg = r.file])
      /\ UNCHANGED settled

\* What has been edited since it was asked for goes as well, given up or not.
DiscardEnds ==
  /\ Answers("discard")
  /\ Displays([editor EXCEPT !.cfg = requests["discard"].file, !.dirty = FALSE,
                             !.loaded = TRUE])
  /\ settled' = settled \cup requests["discard"].was.gone

\* Only one of the two panels ends the edits; both show the station's file.
ApplyEnds ==
  LET r == requests["apply"]
  IN  /\ Answers("apply")
      /\ Displays([editor EXCEPT !.cfg = r.file, !.dirty = @ /\ r.was.panel = "thermal"])
      /\ UNCHANGED settled

\* Mutant: the answer is taken whatever was edited meanwhile.
SaveAcceptedAlways(e, submitted, saved) == [e EXCEPT !.cfg = saved, !.dirty = FALSE]

\* accept_calibration_save, which compares the files and not the channel saved.
SaveAccepted(e, submitted, saved) ==
  IF e.cfg # submitted THEN e ELSE [e EXCEPT !.cfg = saved, !.dirty = FALSE]

SaveEnds ==
  LET r == requests["save"]
  IN  /\ Answers("save")
      /\ Displays([SaveAccepted(editor, r.was.of, r.file) EXCEPT !.saving = FALSE])
      /\ UNCHANGED settled

\* An error.
RequestFails(c) ==
  /\ c \in Requests /\ requests[c].st # "none"
  /\ requests' = [requests EXCEPT ![c] = Resting]
  /\ editor' = IF c = "save" THEN [editor EXCEPT !.saving = FALSE] ELSE editor
  /\ UNCHANGED <<site, selected, stored, drafts, made, settled, fresh>>

-----------------------------------------------------------------------------

CalNext ==
  \/ Mounts \/ Unmounts \/ LosesOwner
  \/ \E st \in Sites : AddressMoves(st)
  \/ \E s \in Sensors : PicksSensor(s) \/ LayoutArrives(s)
  \/ Enters \/ Removes
  \/ \E does \in {"add", "replace"} : OpensDialog(does)
  \/ TicksReset \/ ClosesDialog \/ Captures \/ CaptureEnds \/ CaptureFails
  \/ Syncs \/ Discards \/ Saves
  \/ \E panel \in {"zero", "thermal"} : Applies(panel)
  \/ \E c \in Requests : Served(c) \/ RequestFails(c)
  \/ OthersSave
  \/ FileLoaded \/ FileOfAnotherInput
  \/ SyncEnds \/ DiscardEnds \/ ApplyEnds \/ SaveEnds

CalSpec == CalInit /\ [][CalNext]_calVars

-----------------------------------------------------------------------------
(* Properties *)

Drafted(st) == drafts[st] \ NoDraft

\* Every variable holds a value of its kind, and edits are on disk while the page
\* has its owner.
CalTypeOK ==
  /\ site \in [at : Sites, moves : 0..MaxMove] /\ selected \in Sensors
  /\ \A st \in Sites : /\ stored[st] \subseteq Points
                       /\ Drafted(st) \subseteq Points
  /\ editor # NoEditor =>
       /\ editor.cfg \subseteq Points \/ editor.cfg = NoDraft
       /\ editor.dialog \in {"closed", "add", "replace", "confirmed"}
       /\ editor.dirty => editor.cfg # NoDraft
       /\ editor.dirty /\ editor.current => drafts[site.at] = editor.cfg
  /\ made \in 0..MaxPoint /\ settled \subseteq Points /\ fresh \in BOOLEAN

CameBack(c) == requests[c].st # "none" /\ requests'[c].st = "none"

\* The points of the draft of this address that a step takes away.
Gone == Drafted(site.at) \ Drafted(site.at)'

\* "Switching tabs or remounting the page does not discard a local refit/edit
\* before it is saved" (README.md:409) and "delayed save responses cannot
\* overwrite newer local edits" (README.md:413): a point leaves a draft, of this
\* station or another, only when a station has had it or the operator gave it up.
\* Three answers of this page are the exceptions, each for certain points: the
\* result of a panel, a discard for what was edited after it was asked for, and a
\* save for the sensors it was not of (SaveKeepsOthers).
EditsStay ==
  [][\A st \in Sites : \A p \in Drafted(st) \ Drafted(st)' :
       \/ p \in settled'
       \/ st = site.at /\ CameBack("apply")
       \/ st = site.at /\ CameBack("discard") /\ p \notin requests["discard"].was.gone
       \/ st = site.at /\ CameBack("save") /\ p.sensor # requests["save"].was.sensor]_calVars

\* "Selected sensor saved; other calibrations preserved" (the page after a save,
\* calibration_tab.rs:2084): the answer to a save takes no point out of the draft
\* that no station has had and the operator did not give up.
SaveKeepsOthers == [][CameBack("save") => Gone \subseteq settled']_calVars

\* "Only the explicitly confirmed first capture of New sequence replaces existing
\* points" (README.md:411): a capture takes points away only on a confirmation
\* that no capture before it has used, and only of the sensor it was begun for.
ReplaceIsConfirmed ==
  [][\A p \in Gone :
       CameBack("capture") /\ editor'.mounted =>
         requests["capture"].confirmed /\ p.sensor = requests["capture"].sensor]_calVars

=============================================================================
