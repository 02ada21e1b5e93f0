-------------------------- MODULE RecordingExport --------------------------
(***************************************************************************)
(* The tab that exports recordings: the list and the recording selected,   *)
(* the download of a whole recording, and the report of a window of it.    *)
(* Every request holds an ExportOwner, which is lost for good once the     *)
(* station, the login, the connection, the display or the selection is     *)
(* another one.  Stations are external.                                    *)
(***************************************************************************)
EXTENDS Naturals, FiniteSets

CONSTANTS
  Recordings,   \* recordings of the stations
  Parts,        \* chunks of a file
  MaxIdentity,  \* bounds: changes of what an owner is captured in,
  MaxChoice,    \* selections, lists or previews asked for, tasks at once
  MaxErrand

VARIABLES
  identity,  \* station, login, connection and display: a number for each change
  exporter,  \* the signals of the tab, if it is mounted
  studio,    \* the signals of the report below it
  errands,   \* the tasks of both, across their awaits
  saved      \* history: the last file that was published

exportVars == <<identity, exporter, studio, errands, saved>>

NoRecording == 0
Nobody == [for |-> "nobody"]
NoTab == [open |-> FALSE]
NothingSaved == [what |-> "nothing"]
Windows == {0, 1}   \* all of a recording, or a part of it

ASSUME ExportAssumption ==
  /\ Recordings # {} /\ Recordings \subseteq Nat \ {NoRecording}
  /\ Parts \in Nat \ {0}
  /\ MaxIdentity \in Nat /\ MaxChoice \in Nat /\ MaxErrand \in Nat

StudioOf(rec, query) ==
  [of |-> rec, query |-> query, owner |-> Nobody, typed |-> 0, loaded |-> 0,
   preview |-> FALSE, busy |-> FALSE]

ExportInit ==
  /\ identity = 0
  /\ exporter = NoTab /\ studio = StudioOf(NoRecording, 1)
  /\ errands = {} /\ saved = NothingSaved

-----------------------------------------------------------------------------
(* Owners *)

\* ExportOwner::is_current, with the selection it was captured with.
Holds(o) ==
  /\ o # Nobody /\ o.identity = identity
  /\ CASE o.for = "list"   -> o.query = exporter.query
       [] o.for = "csv"    -> o.choice = exporter.choice /\ o.rec = exporter.selected
       [] o.for = "studio" -> o.query = studio.query /\ o.rec = studio.of

Lost(o) == o # Nobody /\ ~Holds(o)

Spare == Cardinality(errands) < MaxErrand

\* A task, with the choice the operator had made when it began.
Errand(what, owner, rec, window) ==
  [what |-> what, owner |-> owner, rec |-> rec, window |-> window, got |-> 0,
   choice |-> exporter.choice]

-----------------------------------------------------------------------------
(* The list *)

\* Another recording is selected: what was asked for the one before is disowned.
Choose(e, rec) ==
  IF rec = e.selected THEN e
  ELSE [e EXCEPT !.selected = rec, !.choice = @ + 1, !.downloading = FALSE]

\* The report follows: it is mounted with the first selection, reset with another
\* and dropped with its tasks when nothing is selected.
Follows(rec) ==
  studio' = IF rec = studio.of THEN studio ELSE StudioOf(rec, studio.query + 1)

OfStudio(t) == t.what \in {"preview", "report"}
Remaining(rec) == IF rec = NoRecording THEN {t \in errands : ~OfStudio(t)} ELSE errands

\* The effect that asks for the list, for the tab e and tasks ts.
Lists(e, ts, who) ==
  LET owner == [for |-> "list", identity |-> who, query |-> e.query + 1]
  IN  /\ exporter' = [e EXCEPT !.query = @ + 1, !.listOwner = owner, !.loading = TRUE]
      /\ errands' = ts \cup {[what |-> "list", owner |-> owner, rec |-> NoRecording,
                              window |-> 0, got |-> 0, choice |-> e.choice]}

Opens ==
  /\ ~exporter.open
  /\ Lists([open |-> TRUE, selected |-> NoRecording, choice |-> 1, query |-> 1,
            listOwner |-> Nobody, list |-> {}, loading |-> FALSE,
            downloading |-> FALSE], {}, identity)
  /\ UNCHANGED <<identity, studio, saved>>

\* Another tab, or the end of the dashboard: the tasks end, and a file that was
\* being written is removed.
Leaves ==
  /\ exporter.open
  /\ exporter' = NoTab /\ studio' = StudioOf(NoRecording, 1) /\ errands' = {}
  /\ UNCHANGED <<identity, saved>>

\* Login, counters of the connection: no signal the effect has read.
IdentityMoves ==
  /\ identity < MaxIdentity
  /\ identity' = identity + 1
  /\ UNCHANGED <<exporter, studio, errands, saved>>

\* WS_EPOCH, the clear epoch, the lifetime and the address are signals, which the
\* effect reads when it captures its owner: it runs again.
IdentityMovesHeard ==
  /\ identity < MaxIdentity
  /\ identity' = identity + 1
  /\ exporter.open /\ Lists(exporter, errands, identity')
  /\ UNCHANGED <<studio, saved>>

Refreshes ==
  /\ exporter.open /\ ~exporter.loading /\ ~exporter.downloading
  /\ Spare /\ exporter.query < MaxChoice
  /\ Lists(exporter, errands, identity)
  /\ UNCHANGED <<identity, studio, saved>>

\* The list comes back, and may lack the recording that is selected.
ListAnswered(t, next) ==
  LET rec == IF exporter.selected \in next THEN exporter.selected ELSE NoRecording
  IN  /\ t.what = "list" /\ Holds(t.owner)
      /\ exporter' = [Choose(exporter, rec) EXCEPT !.list = next, !.loading = FALSE]
      /\ Follows(rec)
      /\ errands' = Remaining(rec) \ {t}
      /\ UNCHANGED <<identity, saved>>

ListFails(t) ==
  /\ t.what = "list" /\ Holds(t.owner)
  /\ exporter' = [exporter EXCEPT !.loading = FALSE]
  /\ errands' = errands \ {t}
  /\ UNCHANGED <<identity, studio, saved>>

\* The timer of the tab: the owner of the list is gone.
Watches ==
  /\ exporter.open /\ Lost(exporter.listOwner)
  /\ exporter' = [exporter EXCEPT !.listOwner = Nobody, !.query = @ + 1,
                    !.choice = @ + 1, !.selected = NoRecording, !.list = {},
                    !.loading = FALSE, !.downloading = FALSE]
  /\ Follows(NoRecording)
  /\ errands' = Remaining(NoRecording)
  /\ UNCHANGED <<identity, saved>>

Selects(rec) ==
  /\ exporter.open /\ ~exporter.loading /\ ~exporter.downloading
  /\ rec \in exporter.list \cup {NoRecording} /\ rec # exporter.selected
  /\ exporter.choice < MaxChoice
  /\ exporter' = Choose(exporter, rec)
  /\ Follows(rec)
  /\ errands' = Remaining(rec)
  /\ UNCHANGED <<identity, saved>>

\* The import of an SD card below the list has made a recording.
Imports(rec) ==
  /\ exporter.open /\ exporter.selected # NoRecording
  /\ Spare /\ exporter.choice < MaxChoice /\ exporter.query < MaxChoice
  /\ Lists(Choose(exporter, rec), errands, identity)
  /\ Follows(rec)
  /\ UNCHANGED <<identity, saved>>

-----------------------------------------------------------------------------
(* The whole recording *)

Downloads ==
  LET owner == [for |-> "csv", identity |-> identity, choice |-> exporter.choice,
                rec |-> exporter.selected]
  IN  /\ exporter.open /\ exporter.selected # NoRecording /\ ~exporter.downloading /\ Spare
      /\ exporter' = [exporter EXCEPT !.downloading = TRUE]
      /\ errands' = errands \cup {Errand("csv", owner, owner.rec, 0)}
      /\ UNCHANGED <<identity, studio, saved>>

Exports(t) == t.what \in {"csv", "report"} /\ Holds(t.owner)

\* A chunk goes to a file of its own that nobody sees yet.
Chunk(t) ==
  /\ Exports(t) /\ t.got < Parts
  /\ errands' = (errands \ {t}) \cup {[t EXCEPT !.got = @ + 1]}
  /\ UNCHANGED <<identity, exporter, studio, saved>>

ErrandEnds(t) ==
  /\ errands' = errands \ {t}
  /\ exporter' = IF t.what = "csv" THEN [exporter EXCEPT !.downloading = FALSE] ELSE exporter
  /\ studio' = IF t.what = "report" THEN [studio EXCEPT !.busy = FALSE] ELSE studio
  /\ UNCHANGED identity

\* Output::finish gives the file its name, if the owner is still there.
Finishes(t) ==
  /\ Exports(t) /\ t.got = Parts
  /\ saved' = [what |-> t.what, rec |-> t.rec, window |-> t.window, got |-> t.got,
               choice |-> t.choice, identity |-> t.owner.identity]
  /\ ErrandEnds(t)

\* The station refuses, the stream breaks or the disk is full.
ExportFails(t) == Exports(t) /\ ErrandEnds(t) /\ UNCHANGED saved

\* A task whose owner is gone ends without a word.
Retires(t) ==
  /\ Lost(t.owner)
  /\ errands' = errands \ {t}
  /\ UNCHANGED <<identity, exporter, studio, saved>>

-----------------------------------------------------------------------------
(* The report of a window *)

StudioIdle == exporter.open /\ studio.of # NoRecording /\ ~studio.busy

\* Start and end of the window to load.
Types(w) ==
  /\ exporter.open /\ studio.of # NoRecording /\ w # studio.typed
  /\ studio' = [studio EXCEPT !.typed = w]
  /\ UNCHANGED <<identity, exporter, errands, saved>>

LoadsPreview ==
  LET owner == [for |-> "studio", identity |-> identity, query |-> studio.query + 1,
                rec |-> studio.of]
  IN  /\ StudioIdle /\ Spare /\ studio.query < MaxChoice
      /\ studio' = [studio EXCEPT !.query = @ + 1, !.owner = owner, !.preview = FALSE,
                                  !.loaded = 0, !.busy = TRUE]
      /\ errands' = errands \cup {Errand("preview", owner, owner.rec, studio.typed)}
      /\ UNCHANGED <<identity, exporter, saved>>

PreviewShown(t) ==
  /\ t.what = "preview" /\ Holds(t.owner)
  /\ studio' = [studio EXCEPT !.preview = TRUE, !.loaded = t.window, !.busy = FALSE]
  /\ errands' = errands \ {t}
  /\ UNCHANGED <<identity, exporter, saved>>

PreviewFails(t) ==
  /\ t.what = "preview" /\ Holds(t.owner)
  /\ studio' = [studio EXCEPT !.busy = FALSE]
  /\ errands' = errands \ {t}
  /\ UNCHANGED <<identity, exporter, saved>>

\* Mutant: the report has the window that stands in the fields now.
MakesReportTyped ==
  /\ StudioIdle /\ studio.preview /\ Holds(studio.owner) /\ Spare
  /\ studio' = [studio EXCEPT !.busy = TRUE]
  /\ errands' = errands \cup {Errand("report", studio.owner, studio.of, studio.typed)}
  /\ UNCHANGED <<identity, exporter, saved>>

\* The report is asked for under the owner of the preview, with its window.
MakesReport ==
  /\ StudioIdle /\ studio.preview /\ Holds(studio.owner) /\ Spare
  /\ studio' = [studio EXCEPT !.busy = TRUE]
  /\ errands' = errands \cup {Errand("report", studio.owner, studio.of, studio.loaded)}
  /\ UNCHANGED <<identity, exporter, saved>>

\* Mutant: the timer takes the preview away and leaves the tab busy.
StudioWatchesPreview ==
  /\ exporter.open /\ Lost(studio.owner)
  /\ studio' = [StudioOf(studio.of, studio.query) EXCEPT !.busy = studio.busy]
  /\ UNCHANGED <<identity, exporter, errands, saved>>

\* The timer of the report: its owner is gone.
StudioWatches ==
  /\ exporter.open /\ Lost(studio.owner)
  /\ studio' = StudioOf(studio.of, studio.query)
  /\ UNCHANGED <<identity, exporter, errands, saved>>

-----------------------------------------------------------------------------

ExportNext ==
  \/ Opens \/ Leaves \/ IdentityMoves \/ IdentityMovesHeard
  \/ Refreshes \/ Watches \/ Downloads
  \/ \E rec \in Recordings : Imports(rec)
  \/ \E rec \in Recordings \cup {NoRecording} : Selects(rec)
  \/ \E t \in errands :
       \/ \E next \in SUBSET Recordings : ListAnswered(t, next)
       \/ ListFails(t) \/ Chunk(t) \/ Finishes(t) \/ ExportFails(t) \/ Retires(t)
       \/ PreviewShown(t) \/ PreviewFails(t)
  \/ \E w \in Windows : Types(w)
  \/ LoadsPreview \/ MakesReport \/ StudioWatches

ExportSpec == ExportInit /\ [][ExportNext]_exportVars

-----------------------------------------------------------------------------
(* Properties *)

\* Every variable holds a value of its kind; a selected recording has its report,
\* and a preview the owner it was loaded by.
ExportTypeOK ==
  /\ identity \in 0..MaxIdentity
  /\ exporter.open =>
       /\ exporter.selected \in Recordings \cup {NoRecording}
       /\ studio.of = exporter.selected
       /\ exporter.list \subseteq Recordings
  /\ ~exporter.open => errands = {}
  /\ studio.preview => studio.owner # Nobody /\ studio.loaded \in Windows
  /\ \A t \in errands : t.got \in 0..Parts

AtWork(kinds) == \E t \in errands : t.what \in kinds /\ Holds(t.owner)

\* A file gets its name (recording_download.rs:140) only when it is whole and of the
\* recording selected, which has been selected ever since the operator asked for
\* it, from the station and login it was asked under; a report is of the window
\* that is previewed (README.md:64-67).
ExportIsChosen ==
  [][saved' # saved =>
       /\ saved'.got = Parts /\ saved'.identity = identity
       /\ saved'.rec = exporter.selected /\ saved'.choice = exporter.choice
       /\ saved'.what = "report" => studio.preview /\ saved'.window = studio.loaded]_exportVars

\* A task that can still have an effect is shown as under way, so none is begun
\* beside it; and the list and the report that are shown as busy have such a task,
\* or an owner that their timer will find gone (the guards `loading`, `busy`).
BusyIsHonest ==
  /\ \A t \in errands : Holds(t.owner) =>
       CASE t.what = "list" -> exporter.loading
         [] t.what = "csv" -> exporter.downloading
         [] OTHER -> studio.busy
  /\ exporter.open /\ exporter.loading => AtWork({"list"}) \/ Lost(exporter.listOwner)
  /\ exporter.open /\ studio.busy => AtWork({"preview", "report"}) \/ Lost(studio.owner)

\* "Export canceled: recording, station, login or connection changed. Select the
\* recording again." (recording_export_owner.rs:92): a download shown as under way,
\* which bars the selection, has a task or an owner that the timer will find gone.
DownloadEnds ==
  exporter.open /\ exporter.downloading => AtWork({"csv"}) \/ Lost(exporter.listOwner)

=============================================================================
