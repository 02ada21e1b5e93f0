----------------------- MODULE RecordingExportProofs -----------------------
(***************************************************************************)
(* Proofs about RecordingExport: a file is published for what is chosen,   *)
(* and what is shown as busy is.                                           *)
(***************************************************************************)
EXTENDS RecordingExport, TLAPS

-----------------------------------------------------------------------------
(* The invariant *)

Choices == Recordings \cup {NoRecording}

ListOwner == [for : {"list"}, identity : Nat, query : Nat]
CsvOwner == [for : {"csv"}, identity : Nat, choice : Nat, rec : Choices]
StudioOwner == [for : {"studio"}, identity : Nat, query : Nat, rec : Choices]

Task(kinds, owners) ==
  [what : kinds, owner : owners, rec : Choices, window : Windows, got : 0..Parts, choice : Nat]
ListTask == Task({"list"}, ListOwner)
CsvTask == Task({"csv"}, CsvOwner)
StudioTask == Task({"preview", "report"}, StudioOwner)

Tab == [open : {TRUE}, selected : Choices, choice : Nat, query : Nat,
        listOwner : ListOwner \cup {Nobody}, list : SUBSET Recordings,
        loading : BOOLEAN, downloading : BOOLEAN]

Studio == [of : Choices, query : Nat, owner : StudioOwner \cup {Nobody}, typed : Windows,
           loaded : Windows, preview : BOOLEAN, busy : BOOLEAN]

ExportTyped ==
  /\ identity \in 0..MaxIdentity /\ exporter \in Tab \cup {NoTab} /\ studio \in Studio
  /\ errands \subseteq ListTask \cup CsvTask \cup StudioTask

\* The report is of the recording selected, if there is one; without a tab there
\* is nothing.
Mounted ==
  /\ exporter.open => studio.of = exporter.selected
  /\ studio.of = NoRecording => ~studio.busy
  /\ ~exporter.open => errands = {} /\ studio = StudioOf(NoRecording, 1)

\* No owner is of a later identity, selection or query than the tab.
Past(o) ==
  /\ o.identity <= identity
  /\ o.for = "list" => o.query <= exporter.query
  /\ o.for = "csv" => o.choice <= exporter.choice
  /\ o.for = "studio" => o.query <= studio.query

Bygone ==
  /\ \A t \in errands : Past(t.owner)
  /\ exporter.open /\ exporter.listOwner # Nobody => Past(exporter.listOwner)
  /\ studio.owner # Nobody => Past(studio.owner)

\* What a task was begun for, and, while its owner holds, what is on the screen.
AsBegun(t) ==
  CASE t.what = "list" -> Holds(t.owner) => t.owner = exporter.listOwner
    [] t.what = "csv" -> t.rec = t.owner.rec /\ t.choice = t.owner.choice
    [] OTHER -> /\ t.rec = t.owner.rec
                /\ Holds(t.owner) => /\ t.owner = studio.owner /\ t.choice = exporter.choice
                                     /\ t.what = "report" => /\ studio.preview
                                                             /\ t.window = studio.loaded

\* At most one task of each kind can still have an effect.
Alone ==
  \A t, u \in errands : Holds(t.owner) /\ Holds(u.owner) /\ t.owner.for = u.owner.for => t = u

ExportInv ==
  /\ ExportTyped /\ Mounted /\ Bygone
  /\ \A t \in errands : AsBegun(t)
  /\ Alone /\ BusyIsHonest
  /\ studio.preview => studio.owner # Nobody

-----------------------------------------------------------------------------
(* Tasks and owners *)

\* The kind of a task tells its owner's.
LEMMA TaskKinds ==
  ASSUME ExportTyped, NEW t \in errands
  PROVE  \/ t \in ListTask /\ t.what = "list" /\ t.owner \in ListOwner /\ t.owner.for = "list"
         \/ t \in CsvTask /\ t.what = "csv" /\ t.owner \in CsvOwner /\ t.owner.for = "csv"
         \/ /\ t \in StudioTask /\ t.what \in {"preview", "report"}
            /\ t.owner \in StudioOwner /\ t.owner.for = "studio"
  BY DEF ExportTyped, ListTask, CsvTask, StudioTask, Task, ListOwner, CsvOwner, StudioOwner

\* What an owner of each kind holds by, before and after a step.
LEMMA ListHolds ==
  ASSUME NEW o \in ListOwner
  PROVE  /\ Holds(o) <=> o.identity = identity /\ o.query = exporter.query
         /\ Holds(o)' <=> o.identity = identity' /\ o.query = exporter'.query
<1>1. o.for = "list" /\ o # Nobody
  BY DEF ListOwner, Nobody
<1>2. QED
  BY <1>1 DEF Holds

LEMMA CsvHolds ==
  ASSUME NEW o \in CsvOwner
  PROVE  /\ Holds(o) <=> /\ o.identity = identity
                         /\ o.choice = exporter.choice /\ o.rec = exporter.selected
         /\ Holds(o)' <=> /\ o.identity = identity'
                          /\ o.choice = exporter'.choice /\ o.rec = exporter'.selected
<1>1. o.for = "csv" /\ o # Nobody
  BY DEF CsvOwner, Nobody
<1>2. QED
  BY <1>1 DEF Holds

LEMMA StudioHolds ==
  ASSUME NEW o \in StudioOwner
  PROVE  /\ Holds(o) <=> o.identity = identity /\ o.query = studio.query /\ o.rec = studio.of
         /\ Holds(o)' <=> o.identity = identity' /\ o.query = studio'.query /\ o.rec = studio'.of
<1>1. o.for = "studio" /\ o # Nobody
  BY DEF StudioOwner, Nobody
<1>2. QED
  BY <1>1 DEF Holds

\* The kinds of tasks, one by one.
LEMMA KindsApart ==
  ASSUME ExportTyped, NEW t \in errands
  PROVE  /\ t.what = "list" <=> t.owner.for = "list"
         /\ t.what = "csv" <=> t.owner.for = "csv"
         /\ OfStudio(t) <=> t.owner.for = "studio"
         /\ t.owner \in ListOwner \cup CsvOwner \cup StudioOwner
         /\ t.owner # Nobody
  BY TaskKinds DEF OfStudio, Nobody

\* What the screen shows as under way has an owner.
LEMMA BusyHasOwner ==
  ASSUME ExportInv
  PROVE  /\ exporter.open /\ exporter.loading => exporter.listOwner # Nobody
         /\ exporter.open /\ studio.busy => studio.owner # Nobody
<1>1. ASSUME NEW t \in errands, Holds(t.owner), t.what = "list"
      PROVE  exporter.listOwner # Nobody
  BY <1>1, KindsApart DEF ExportInv, AsBegun
<1>2. ASSUME NEW t \in errands, Holds(t.owner), t.what \in {"preview", "report"}
      PROVE  studio.owner # Nobody
  BY <1>2, KindsApart DEF ExportInv, AsBegun
<1>3. QED
  BY <1>1, <1>2 DEF ExportInv, BusyIsHonest, AtWork, Lost

-----------------------------------------------------------------------------
(* Steps of a tab that is open: the numbers only grow *)

Forward ==
  /\ exporter.open /\ exporter' \in Tab /\ studio' \in Studio
  /\ identity' \in 0..MaxIdentity /\ identity <= identity'
  /\ exporter.query <= exporter'.query
  /\ \/ exporter.choice < exporter'.choice
     \/ exporter.choice = exporter'.choice /\ exporter.selected = exporter'.selected
  /\ \/ studio.query < studio'.query
     \/ studio.query = studio'.query /\ studio.of = studio'.of

\* The numbers an owner was captured with.
SameFor(o) ==
  /\ identity' = identity
  /\ o.for = "list" => exporter'.query = exporter.query
  /\ o.for = "csv" => exporter'.choice = exporter.choice /\ exporter'.selected = exporter.selected
  /\ o.for = "studio" => studio'.query = studio.query /\ studio'.of = studio.of

\* An owner that is gone never comes back.
LEMMA OwnersAge ==
  ASSUME ExportTyped, Forward, NEW o \in ListOwner \cup CsvOwner \cup StudioOwner, Past(o)
  PROVE  Past(o)' /\ (Holds(o)' => Holds(o) /\ SameFor(o))
<1>1. exporter \in Tab
  BY DEF ExportTyped, Forward, NoTab
<1>2. CASE o \in ListOwner
  <2>1. o.for = "list" /\ o.identity \in Nat /\ o.query \in Nat
    BY <1>2 DEF ListOwner
  <2>2. Past(o)'
    BY <1>1, <2>1 DEF ExportTyped, Forward, Past, Tab
  <2>3. QED
    BY <1>1, <1>2, <2>1, <2>2, ListHolds DEF ExportTyped, Forward, Past, Tab, SameFor
<1>3. CASE o \in CsvOwner
  <2>1. o.for = "csv" /\ o.identity \in Nat /\ o.choice \in Nat
    BY <1>3 DEF CsvOwner
  <2>2. Past(o)'
    BY <1>1, <2>1 DEF ExportTyped, Forward, Past, Tab
  <2>3. QED
    BY <1>1, <1>3, <2>1, <2>2, CsvHolds DEF ExportTyped, Forward, Past, Tab, SameFor
<1>4. CASE o \in StudioOwner
  <2>1. o.for = "studio" /\ o.identity \in Nat /\ o.query \in Nat
    BY <1>4 DEF StudioOwner
  <2>2. Past(o)'
    BY <1>1, <2>1 DEF ExportTyped, Forward, Past, Studio
  <2>3. QED
    BY <1>1, <1>4, <2>1, <2>2, StudioHolds DEF ExportTyped, Forward, Past, Studio, SameFor
<1>5. QED
  BY <1>2, <1>3, <1>4

LEMMA TasksAge ==
  ASSUME ExportInv, Forward, NEW t \in errands
  PROVE  Past(t.owner)' /\ (Holds(t.owner)' => Holds(t.owner) /\ SameFor(t.owner))
  BY KindsApart, OwnersAge DEF ExportInv, Bygone

\* The same for the owners of the list and of the preview.
LEMMA ShownOwnersAge ==
  ASSUME ExportInv, Forward, NEW o, o # Nobody, o = exporter.listOwner \/ o = studio.owner
  PROVE  /\ o \in ListOwner \cup StudioOwner
         /\ Past(o)' /\ (Holds(o)' => Holds(o) /\ SameFor(o))
<1>1. exporter.open /\ exporter \in Tab /\ studio \in Studio
  BY DEF ExportInv, ExportTyped, Forward, NoTab
<1>2. o \in ListOwner \cup StudioOwner /\ Past(o)
  BY <1>1 DEF ExportInv, Bygone, Tab, Studio
<1>3. QED
  BY <1>2, OwnersAge DEF ExportInv

\* Tasks that go leave the others alone.
LEMMA FewerTasks ==
  ASSUME ExportInv, Forward, errands' \subseteq errands
  PROVE  Alone' /\ \A t \in errands' : Past(t.owner)'
<1>1. \A t \in errands' : Past(t.owner)'
  BY TasksAge
<1>2. ASSUME NEW t \in errands', NEW u \in errands',
             Holds(t.owner)', Holds(u.owner)', t.owner.for = u.owner.for
      PROVE  t = u
  BY <1>2, TasksAge DEF ExportInv, Alone
<1>3. QED
  BY <1>1, <1>2 DEF Alone

\* A task that is begun where no other of its kind holds is alone.
LEMMA OneTaskMore ==
  ASSUME ExportInv, Forward, NEW n, errands' \subseteq errands \cup {n}, Past(n.owner)',
         \A t \in errands : Holds(t.owner)' => t.owner.for # n.owner.for
  PROVE  Alone' /\ \A t \in errands' : Past(t.owner)'
<1>1. \A t \in errands' : Past(t.owner)'
  BY TasksAge
<1>2. ASSUME NEW t \in errands', NEW u \in errands',
             Holds(t.owner)', Holds(u.owner)', t.owner.for = u.owner.for
      PROVE  t = u
  <2>1. CASE t \in errands /\ u \in errands
    BY <1>2, <2>1, TasksAge DEF ExportInv, Alone
  <2>2. CASE t = n \/ u = n
    BY <1>2, <2>2
  <2>3. QED
    BY <2>1, <2>2
<1>3. QED
  BY <1>1, <1>2 DEF Alone

\* The owners shown are past, when the step leaves them or captures them.
LEMMA BygoneKept ==
  ASSUME ExportInv, Forward, \A t \in errands' : Past(t.owner)',
         \/ exporter'.listOwner \in {exporter.listOwner, Nobody}
         \/ Past(exporter.listOwner)',
         \/ studio'.owner \in {studio.owner, Nobody}
         \/ Past(studio.owner)'
  PROVE  Bygone'
<1>1. PICK o : o = exporter'.listOwner
  OBVIOUS
<1>2. PICK p : p = studio'.owner
  OBVIOUS
<1>3. o # Nobody => Past(o)'
  BY <1>1, ShownOwnersAge DEF Past
<1>4. p # Nobody => Past(p)'
  BY <1>2, ShownOwnersAge DEF Past
<1>5. QED
  BY <1>1, <1>2, <1>3, <1>4 DEF Bygone, Past

\* The list stays honest while its owner and its tasks do.
LEMMA ListStaysHonest ==
  ASSUME ExportInv, Forward, exporter'.listOwner = exporter.listOwner,
         exporter'.loading => exporter.loading,
         \A t \in errands : t.what = "list" => t \in errands'
  PROVE  exporter'.loading => AtWork({"list"})' \/ Lost(exporter.listOwner)'
<1>1. PICK o : o = exporter.listOwner
  OBVIOUS
<1>2. SUFFICES ASSUME exporter.loading, ~Lost(o)'
      PROVE  AtWork({"list"})'
  BY <1>1 DEF Lost, Holds
<1>3. o # Nobody
  BY <1>1, <1>2, BusyHasOwner DEF Forward
<1>4. Holds(o)' /\ Holds(o)
  BY <1>1, <1>2, <1>3, ShownOwnersAge DEF Lost
<1>5. PICK t \in errands : t.what = "list" /\ Holds(t.owner)
  BY <1>1, <1>2, <1>4 DEF ExportInv, BusyIsHonest, AtWork, Lost, Forward
<1>6. t.owner = o
  BY <1>1, <1>5 DEF ExportInv, AsBegun
<1>7. QED
  BY <1>4, <1>5, <1>6 DEF AtWork

\* The report stays honest while its owner and its tasks do.
LEMMA StudioStaysHonest ==
  ASSUME ExportInv, Forward, studio'.owner = studio.owner, studio'.busy => studio.busy,
         \A t \in errands : OfStudio(t) => \E u \in errands' : u.what = t.what /\ u.owner = t.owner
  PROVE  studio'.busy => AtWork({"preview", "report"})' \/ Lost(studio.owner)'
<1>1. PICK o : o = studio.owner
  OBVIOUS
<1>2. SUFFICES ASSUME studio.busy, ~Lost(o)'
      PROVE  AtWork({"preview", "report"})'
  BY <1>1 DEF Lost, Holds
<1>3. o # Nobody
  BY <1>1, <1>2, BusyHasOwner DEF Forward
<1>4. Holds(o)' /\ Holds(o)
  BY <1>1, <1>2, <1>3, ShownOwnersAge DEF Lost
<1>5. PICK t \in errands : t.what \in {"preview", "report"} /\ Holds(t.owner)
  BY <1>1, <1>2, <1>4 DEF ExportInv, BusyIsHonest, AtWork, Lost, Forward
<1>6. t.owner = o
  BY <1>1, <1>5 DEF ExportInv, AsBegun
<1>7. PICK u \in errands' : u.what = t.what /\ u.owner = o
  BY <1>5, <1>6 DEF OfStudio
<1>8. QED
  BY <1>4, <1>5, <1>7 DEF AtWork

\* A task stays as it was begun while what it was begun for is on the screen.
LEMMA StaysAsBegun ==
  ASSUME ExportInv, Forward, NEW t \in errands,
         t.what = "list" /\ Holds(t.owner)' => exporter'.listOwner = exporter.listOwner,
         OfStudio(t) /\ Holds(t.owner)' =>
           /\ exporter'.choice = exporter.choice /\ studio'.owner = studio.owner
           /\ t.what = "report" =>
                studio'.preview = studio.preview /\ studio'.loaded = studio.loaded
  PROVE  AsBegun(t)'
  BY TasksAge, TaskKinds DEF ExportInv, AsBegun, OfStudio

\* What the screen shows of a task.
Shown(t) ==
  CASE t.what = "list" -> exporter.loading
    [] t.what = "csv" -> exporter.downloading
    [] OTHER -> studio.busy

\* A tab with tasks or with a report is open, and typed.
LEMMA TabIsOpen ==
  ASSUME ExportInv, exporter.open \/ errands # {}
  PROVE  /\ exporter.open /\ exporter \in Tab /\ studio \in Studio
         /\ studio.of = exporter.selected /\ (studio.of = NoRecording => ~studio.busy)
         /\ identity \in 0..MaxIdentity /\ identity \in Nat
         /\ errands \subseteq ListTask \cup CsvTask \cup StudioTask
  BY ExportAssumption DEF ExportInv, ExportTyped, Mounted, NoTab

\* A step that makes no choice is one forward.
LEMMA QuietForward ==
  ASSUME ExportInv, exporter.open \/ errands # {}, UNCHANGED identity,
         exporter' \in Tab, studio' \in Studio, exporter'.query = exporter.query,
         exporter'.choice = exporter.choice, exporter'.selected = exporter.selected,
         studio'.query = studio.query, studio'.of = studio.of
  PROVE  Forward /\ studio'.of = exporter'.selected
<1>1. exporter.query \in Nat
  BY TabIsOpen DEF Tab
<1>2. QED
  BY <1>1, TabIsOpen DEF Forward

\* A task that is left is shown as before, when the screen is.
LEMMA StaysShown ==
  ASSUME ExportInv, Forward, NEW t \in errands, Holds(t.owner)',
         t.what = "list" => exporter'.loading = exporter.loading,
         t.what = "csv" => exporter'.downloading = exporter.downloading,
         OfStudio(t) => studio'.busy = studio.busy
  PROVE  Shown(t)'
<1>1. Holds(t.owner)
  BY TasksAge
<1>2. CASE t.what = "list"
  BY <1>1, <1>2 DEF ExportInv, BusyIsHonest, Shown
<1>3. CASE t.what = "csv"
  BY <1>1, <1>3 DEF ExportInv, BusyIsHonest, Shown
<1>4. CASE t.what \in {"preview", "report"}
  BY <1>1, <1>4 DEF ExportInv, BusyIsHonest, Shown, OfStudio
<1>5. QED
  BY <1>2, <1>3, <1>4, TaskKinds DEF ExportInv

\* The parts of the invariant, for a step of an open tab.
LEMMA Assembled ==
  ASSUME Forward, studio'.of = exporter'.selected,
         errands' \subseteq ListTask \cup CsvTask \cup StudioTask,
         Bygone', Alone', \A t \in errands' : AsBegun(t)',
         \A t \in errands' : Holds(t.owner)' => Shown(t)',
         exporter'.loading => AtWork({"list"})' \/ Lost(exporter.listOwner)',
         studio'.busy => AtWork({"preview", "report"})' \/ Lost(studio.owner)',
         studio'.of = NoRecording => ~studio'.busy,
         studio'.preview => studio'.owner # Nobody
  PROVE  ExportInv'
<1>1. ExportTyped' /\ Mounted'
  BY DEF Forward, ExportTyped, Mounted, Tab
<1>2. BusyIsHonest'
  BY DEF BusyIsHonest, Shown
<1>3. QED
  BY <1>1, <1>2 DEF ExportInv

-----------------------------------------------------------------------------
(* Each step keeps the invariant *)

\* The list does not come.
LEMMA ListFailsStep ==
  ASSUME ExportInv, NEW t \in errands, ListFails(t)
  PROVE  ExportInv'
<1>1. /\ exporter' = [exporter EXCEPT !.loading = FALSE] /\ errands' = errands \ {t}
      /\ UNCHANGED <<identity, studio>> /\ t.what = "list" /\ Holds(t.owner)
  BY DEF ListFails
<1>2. /\ exporter'.selected = exporter.selected /\ exporter'.choice = exporter.choice
      /\ exporter'.listOwner = exporter.listOwner /\ exporter'.loading = FALSE
      /\ exporter'.downloading = exporter.downloading
      /\ exporter'.query = exporter.query /\ exporter' \in Tab
  BY <1>1, TabIsOpen DEF Tab
<1>3. Forward
  BY <1>1, <1>2, TabIsOpen, QuietForward
<1>4. Alone' /\ \A u \in errands' : Past(u.owner)'
  BY <1>1, <1>3, FewerTasks
<1>5. Bygone'
  BY <1>1, <1>3, <1>2, <1>4, BygoneKept
<1>6. \A u \in errands' : AsBegun(u)'
  BY <1>1, <1>3, <1>2, StaysAsBegun
<1>7. ASSUME NEW u \in errands', Holds(u.owner)'
      PROVE  Shown(u)'
  <2>1. u.what # "list"
    BY <1>1, <1>3, <1>7, TasksAge, KindsApart DEF ExportInv, Alone
  <2>2. QED
    BY <1>1, <1>3, <1>2, <1>7, <2>1, StaysShown
<1>8. studio'.busy => AtWork({"preview", "report"})' \/ Lost(studio.owner)'
  BY <1>1, <1>3, StudioStaysHonest DEF OfStudio
<1>9. studio'.of = exporter'.selected /\ (studio'.preview => studio'.owner # Nobody)
  BY <1>1, <1>2, TabIsOpen DEF ExportInv
<1>10. QED
  BY <1>1, <1>3, <1>2, <1>4, <1>5, <1>6, <1>7, <1>8, <1>9, TabIsOpen, Assembled

\* A download begins.
LEMMA DownloadsStep ==
  ASSUME ExportInv, Downloads
  PROVE  ExportInv'
<1>1. PICK n : n = Errand("csv", [for |-> "csv", identity |-> identity,
                   choice |-> exporter.choice, rec |-> exporter.selected],
                   exporter.selected, 0)
  OBVIOUS
<1>2. /\ exporter' = [exporter EXCEPT !.downloading = TRUE] /\ errands' = errands \cup {n}
      /\ UNCHANGED <<identity, studio>> /\ exporter.open /\ ~exporter.downloading
  BY <1>1 DEF Downloads, Errand
<1>3. /\ exporter'.selected = exporter.selected /\ exporter'.choice = exporter.choice
      /\ exporter'.listOwner = exporter.listOwner /\ exporter'.loading = exporter.loading
      /\ exporter'.downloading = TRUE
      /\ exporter'.query = exporter.query /\ exporter' \in Tab
  BY <1>2, TabIsOpen DEF Tab
<1>4. Forward
  BY <1>2, <1>3, TabIsOpen, QuietForward
<1>5. /\ n \in CsvTask /\ n.what = "csv" /\ n.owner.for = "csv" /\ n.rec = n.owner.rec
      /\ n.choice = n.owner.choice /\ Past(n.owner)'
  BY <1>1, <1>2, <1>3, TabIsOpen, ExportAssumption
     DEF Errand, CsvTask, Task, CsvOwner, Choices, Tab, Windows, Past
<1>6. \A u \in errands : Holds(u.owner)' => u.what # "csv"
  BY <1>2, <1>4, TasksAge DEF ExportInv, BusyIsHonest
<1>7. Alone' /\ \A u \in errands' : Past(u.owner)'
  <2>1. \A u \in errands : Holds(u.owner)' => u.owner.for # n.owner.for
    BY <1>5, <1>6, KindsApart DEF ExportInv
  <2>2. errands' \subseteq errands \cup {n} /\ Past(n.owner)'
    BY <1>2, <1>5
  <2>3. QED
    BY <1>4, <2>1, <2>2, OneTaskMore
<1>8. Bygone'
  BY <1>2, <1>4, <1>3, <1>7, BygoneKept
<1>9. ASSUME NEW u \in errands'
      PROVE  AsBegun(u)' /\ (Holds(u.owner)' => Shown(u)')
  <2>1. CASE u = n
    BY <1>3, <1>5, <2>1 DEF AsBegun, Shown
  <2>2. CASE u \in errands
    BY <1>2, <1>4, <1>3, <1>6, <2>2, StaysAsBegun, StaysShown
  <2>3. QED
    BY <1>2, <2>1, <2>2
<1>10. /\ exporter'.loading => AtWork({"list"})' \/ Lost(exporter.listOwner)'
       /\ studio'.busy => AtWork({"preview", "report"})' \/ Lost(studio.owner)'
  BY <1>2, <1>4, <1>3, ListStaysHonest, StudioStaysHonest
<1>11. /\ studio'.of = exporter'.selected /\ (studio'.preview => studio'.owner # Nobody)
       /\ errands' \subseteq ListTask \cup CsvTask \cup StudioTask
  BY <1>2, <1>3, <1>5, TabIsOpen DEF ExportInv
<1>12. QED
  BY <1>2, <1>4, <1>7, <1>8, <1>9, <1>10, <1>11, TabIsOpen, Assembled

\* A chunk is written.
LEMMA ChunkStep ==
  ASSUME ExportInv, NEW t \in errands, Chunk(t)
  PROVE  ExportInv'
<1>1. PICK n : n = [t EXCEPT !.got = @ + 1]
  OBVIOUS
<1>2. /\ UNCHANGED <<identity, exporter, studio>> /\ errands' = (errands \ {t}) \cup {n}
      /\ Holds(t.owner) /\ t.what \in {"csv", "report"} /\ t.got < Parts
  BY <1>1 DEF Chunk, Exports
<1>3. /\ n \in CsvTask \cup StudioTask /\ n.what = t.what /\ n.owner = t.owner
      /\ n.rec = t.rec /\ n.window = t.window /\ n.choice = t.choice
  BY <1>1, <1>2, TaskKinds, ExportAssumption DEF ExportInv, CsvTask, StudioTask, Task
<1>4. Forward /\ studio'.of = exporter'.selected
  BY <1>2, TabIsOpen, QuietForward
<1>5. \A u \in errands : Holds(u.owner)' /\ u.owner.for = n.owner.for => u = t
  BY <1>2, <1>3, <1>4, TasksAge DEF ExportInv, Alone
<1>6. Alone' /\ \A u \in errands' : Past(u.owner)'
  <2>1. \A u \in errands' : Past(u.owner)'
    BY <1>2, <1>3, <1>4, TasksAge
  <2>2. ASSUME NEW u \in errands', NEW v \in errands',
               Holds(u.owner)', Holds(v.owner)', u.owner.for = v.owner.for
        PROVE  u = v
    BY <1>2, <1>3, <1>4, <1>5, <2>2, TasksAge DEF ExportInv, Alone
  <2>3. QED
    BY <2>1, <2>2 DEF Alone
<1>7. Bygone'
  BY <1>2, <1>4, <1>6, BygoneKept
<1>8. ASSUME NEW u \in errands
      PROVE  AsBegun(u)' /\ (Holds(u.owner)' => Shown(u)')
  BY <1>2, <1>4, StaysAsBegun, StaysShown
<1>9. AsBegun(n)' /\ (Holds(n.owner)' => Shown(n)')
  BY <1>2, <1>3, <1>8 DEF AsBegun, Shown
<1>10. /\ exporter'.loading => AtWork({"list"})' \/ Lost(exporter.listOwner)'
       /\ studio'.busy => AtWork({"preview", "report"})' \/ Lost(studio.owner)'
  <2>1. \A u \in errands : \E v \in errands' : v.what = u.what /\ v.owner = u.owner
    BY <1>2, <1>3
  <2>2. QED
    BY <1>2, <1>4, <2>1, ListStaysHonest, StudioStaysHonest
<1>11. /\ studio'.preview => studio'.owner # Nobody
       /\ errands' \subseteq ListTask \cup CsvTask \cup StudioTask
  BY <1>2, <1>3, TabIsOpen DEF ExportInv
<1>12. QED
  BY <1>2, <1>4, <1>6, <1>7, <1>8, <1>9, <1>10, <1>11, TabIsOpen, Assembled

\* A file is finished, or fails.
LEMMA ErrandEndsStep ==
  ASSUME ExportInv, NEW t \in errands, Exports(t), ErrandEnds(t)
  PROVE  ExportInv'
<1>1. /\ UNCHANGED identity /\ errands' = errands \ {t} /\ Holds(t.owner)
      /\ t.what \in {"csv", "report"}
      /\ t.what = "csv" => exporter' = [exporter EXCEPT !.downloading = FALSE] /\ studio' = studio
      /\ t.what = "report" => exporter' = exporter /\ studio' = [studio EXCEPT !.busy = FALSE]
  BY DEF Exports, ErrandEnds
<1>2. /\ exporter' \in Tab /\ exporter'.query = exporter.query
      /\ exporter'.choice = exporter.choice /\ exporter'.selected = exporter.selected
      /\ exporter'.listOwner = exporter.listOwner /\ exporter'.loading = exporter.loading
      /\ t.what # "csv" => exporter'.downloading = exporter.downloading
  BY <1>1, TabIsOpen DEF Tab
<1>3. /\ studio' \in Studio /\ studio'.query = studio.query /\ studio'.of = studio.of
      /\ studio'.owner = studio.owner /\ studio'.preview = studio.preview
      /\ studio'.loaded = studio.loaded
      /\ t.what = "report" => studio'.busy = FALSE
      /\ t.what # "report" => studio'.busy = studio.busy
  BY <1>1, TabIsOpen DEF Studio
<1>4. Forward /\ studio'.of = exporter'.selected
  BY <1>1, <1>2, <1>3, QuietForward
<1>5. Alone' /\ \A u \in errands' : Past(u.owner)'
  BY <1>1, <1>4, FewerTasks
<1>6. Bygone'
  BY <1>2, <1>3, <1>4, <1>5, BygoneKept
<1>7. \A u \in errands' : AsBegun(u)'
  BY <1>1, <1>2, <1>3, <1>4, StaysAsBegun
<1>8. ASSUME NEW u \in errands', Holds(u.owner)'
      PROVE  Shown(u)'
  <2>1. u \in errands /\ u # t /\ Holds(u.owner)
    BY <1>1, <1>4, <1>8, TasksAge
  <2>2. u.owner.for # t.owner.for
    BY <1>1, <2>1 DEF ExportInv, Alone
  <2>3. /\ t.what = "csv" => u.what # "csv"
        /\ t.what = "report" => ~OfStudio(u)
    BY <2>1, <2>2, KindsApart DEF ExportInv, OfStudio
  <2>4. QED
    BY <1>1, <1>2, <1>3, <1>4, <1>8, <2>1, <2>3, StaysShown
<1>9. exporter'.loading => AtWork({"list"})' \/ Lost(exporter.listOwner)'
  BY <1>1, <1>2, <1>4, ListStaysHonest
<1>10. studio'.busy => AtWork({"preview", "report"})' \/ Lost(studio.owner)'
  BY <1>1, <1>3, <1>4, StudioStaysHonest DEF OfStudio
<1>11. /\ studio'.preview => studio'.owner # Nobody
       /\ errands' \subseteq ListTask \cup CsvTask \cup StudioTask
  BY <1>1, <1>3, TabIsOpen DEF ExportInv
<1>12. QED
  BY <1>3, <1>4, <1>5, <1>6, <1>7, <1>8, <1>9, <1>10, <1>11, TabIsOpen, Assembled

\* The window is typed.
LEMMA TypesStep ==
  ASSUME ExportInv, NEW w \in Windows, Types(w)
  PROVE  ExportInv'
<1>1. /\ UNCHANGED <<identity, exporter, errands>> /\ exporter.open
      /\ studio' = [studio EXCEPT !.typed = w]
  BY DEF Types
<1>2. /\ studio' \in Studio /\ studio'.query = studio.query /\ studio'.of = studio.of
      /\ studio'.owner = studio.owner /\ studio'.preview = studio.preview
      /\ studio'.loaded = studio.loaded /\ studio'.busy = studio.busy
  BY <1>1, TabIsOpen DEF Studio
<1>3. Forward /\ studio'.of = exporter'.selected
  BY <1>1, <1>2, TabIsOpen, QuietForward
<1>4. Alone' /\ \A u \in errands' : Past(u.owner)'
  BY <1>1, <1>3, FewerTasks
<1>5. Bygone'
  BY <1>1, <1>2, <1>3, <1>4, BygoneKept
<1>6. \A u \in errands' : AsBegun(u)' /\ (Holds(u.owner)' => Shown(u)')
  BY <1>1, <1>2, <1>3, StaysAsBegun, StaysShown
<1>7. /\ exporter'.loading => AtWork({"list"})' \/ Lost(exporter.listOwner)'
      /\ studio'.busy => AtWork({"preview", "report"})' \/ Lost(studio.owner)'
  BY <1>1, <1>2, <1>3, ListStaysHonest, StudioStaysHonest
<1>8. /\ studio'.preview => studio'.owner # Nobody
      /\ errands' \subseteq ListTask \cup CsvTask \cup StudioTask
  BY <1>1, <1>2, TabIsOpen DEF ExportInv
<1>9. QED
  BY <1>1, <1>2, <1>3, <1>4, <1>5, <1>6, <1>7, <1>8, TabIsOpen, Assembled

\* A preview comes, or does not.
LEMMA PreviewEndsStep ==
  ASSUME ExportInv, NEW t \in errands, PreviewShown(t) \/ PreviewFails(t)
  PROVE  ExportInv'
<1>1. /\ UNCHANGED <<identity, exporter>> /\ errands' = errands \ {t} /\ Holds(t.owner)
      /\ t.what = "preview"
      /\ \/ studio' = [studio EXCEPT !.preview = TRUE, !.loaded = t.window, !.busy = FALSE]
         \/ studio' = [studio EXCEPT !.busy = FALSE]
  BY DEF PreviewShown, PreviewFails
<1>2. t.window \in Windows
  BY TaskKinds DEF ExportInv, ListTask, CsvTask, StudioTask, Task
<1>3. /\ studio' \in Studio /\ studio'.query = studio.query /\ studio'.of = studio.of
      /\ studio'.owner = studio.owner /\ studio'.busy = FALSE
  BY <1>1, <1>2, TabIsOpen DEF Studio
<1>4. Forward /\ studio'.of = exporter'.selected
  BY <1>1, <1>3, TabIsOpen, QuietForward
<1>5. Alone' /\ \A u \in errands' : Past(u.owner)'
  BY <1>1, <1>4, FewerTasks
<1>6. Bygone'
  BY <1>1, <1>3, <1>4, <1>5, BygoneKept
<1>7. \A u \in errands' : Holds(u.owner)' => ~OfStudio(u)
  BY <1>1, <1>4, TasksAge, KindsApart DEF ExportInv, Alone, OfStudio
<1>8. \A u \in errands' : AsBegun(u)' /\ (Holds(u.owner)' => Shown(u)')
  BY <1>1, <1>4, <1>7, StaysAsBegun, StaysShown
<1>9. exporter'.loading => AtWork({"list"})' \/ Lost(exporter.listOwner)'
  BY <1>1, <1>4, ListStaysHonest
<1>10. studio'.owner # Nobody
  BY <1>1, <1>3, TaskKinds, KindsApart DEF ExportInv, AsBegun
<1>11. errands' \subseteq ListTask \cup CsvTask \cup StudioTask
  BY <1>1, TabIsOpen
<1>12. QED
  BY <1>3, <1>4, <1>5, <1>6, <1>8, <1>9, <1>10, <1>11, TabIsOpen, Assembled

\* A report is asked for.
LEMMA MakesReportStep ==
  ASSUME ExportInv, MakesReport
  PROVE  ExportInv'
<1>1. PICK n : n = Errand("report", studio.owner, studio.of, studio.loaded)
  OBVIOUS
<1>2. /\ UNCHANGED <<identity, exporter>> /\ exporter.open /\ errands' = errands \cup {n}
      /\ studio' = [studio EXCEPT !.busy = TRUE] /\ ~studio.busy /\ studio.preview
      /\ Holds(studio.owner) /\ studio.of # NoRecording
  BY <1>1 DEF MakesReport, StudioIdle
<1>3. /\ studio' \in Studio /\ studio'.query = studio.query /\ studio'.of = studio.of
      /\ studio'.owner = studio.owner /\ studio'.preview = studio.preview
      /\ studio'.loaded = studio.loaded /\ studio'.busy = TRUE
  BY <1>2, TabIsOpen DEF Studio
<1>4. Forward /\ studio'.of = exporter'.selected
  BY <1>2, <1>3, TabIsOpen, QuietForward
<1>5. PICK o : o = studio.owner
  OBVIOUS
<1>6. o \in StudioOwner /\ o # Nobody /\ o.for = "studio" /\ Past(o)' /\ o.rec = studio.of
  <2>1. o # Nobody /\ o \in StudioOwner
    BY <1>2, <1>5, TabIsOpen DEF Holds, Studio
  <2>2. o.for = "studio"
    BY <2>1 DEF StudioOwner
  <2>3. QED
    BY <1>2, <1>4, <1>5, <2>1, <2>2, ShownOwnersAge, StudioHolds
<1>7. /\ n \in StudioTask /\ n.what = "report" /\ n.owner = o /\ n.rec = n.owner.rec
      /\ n.choice = exporter.choice /\ n.window = studio.loaded
  BY <1>1, <1>2, <1>5, <1>6, TabIsOpen, ExportAssumption
     DEF Errand, StudioTask, Task, Studio, Tab
<1>8. \A u \in errands : Holds(u.owner)' => ~OfStudio(u)
  BY <1>2, <1>4, TasksAge DEF ExportInv, BusyIsHonest, OfStudio
<1>9. Alone' /\ \A u \in errands' : Past(u.owner)'
  <2>1. \A u \in errands : Holds(u.owner)' => u.owner.for # n.owner.for
    BY <1>6, <1>7, <1>8, KindsApart DEF ExportInv
  <2>2. errands' \subseteq errands \cup {n} /\ Past(n.owner)'
    BY <1>2, <1>6, <1>7
  <2>3. QED
    BY <1>4, <2>1, <2>2, OneTaskMore
<1>10. Bygone'
  BY <1>2, <1>3, <1>4, <1>9, BygoneKept
<1>11. ASSUME NEW u \in errands'
       PROVE  AsBegun(u)' /\ (Holds(u.owner)' => Shown(u)')
  <2>1. CASE u = n
    BY <1>2, <1>3, <1>5, <1>7, <2>1 DEF AsBegun, Shown
  <2>2. CASE u \in errands
    BY <1>2, <1>4, <1>8, <2>2, StaysAsBegun, StaysShown
  <2>3. QED
    BY <1>2, <2>1, <2>2
<1>12. exporter'.loading => AtWork({"list"})' \/ Lost(exporter.listOwner)'
  BY <1>2, <1>4, ListStaysHonest
<1>13. AtWork({"preview", "report"})'
  <2>1. n \in errands' /\ n.what = "report" /\ n.owner = o
    BY <1>2, <1>7
  <2>2. Holds(o)'
    BY <1>2, <1>3, <1>5, <1>6, StudioHolds
  <2>3. QED
    BY <2>1, <2>2 DEF AtWork
<1>14. errands' \subseteq ListTask \cup CsvTask \cup StudioTask
  BY <1>2, <1>7, TabIsOpen
<1>15. QED
  BY <1>2, <1>3, <1>4, <1>5, <1>6, <1>9, <1>10, <1>11, <1>12, <1>13, <1>14, Assembled

\* The timer of the report finds its owner gone.
LEMMA StudioWatchesStep ==
  ASSUME ExportInv, StudioWatches
  PROVE  ExportInv'
<1>1. /\ UNCHANGED <<identity, exporter, errands>> /\ exporter.open /\ Lost(studio.owner)
      /\ studio' = StudioOf(studio.of, studio.query)
  BY DEF StudioWatches
<1>2. /\ studio' \in Studio /\ studio'.query = studio.query /\ studio'.of = studio.of
      /\ studio'.owner = Nobody /\ studio'.preview = FALSE /\ studio'.busy = FALSE
  BY <1>1, TabIsOpen DEF Studio, StudioOf, Windows
<1>3. Forward /\ studio'.of = exporter'.selected
  BY <1>1, <1>2, TabIsOpen, QuietForward
<1>4. Alone' /\ \A u \in errands' : Past(u.owner)'
  BY <1>1, <1>3, FewerTasks
<1>5. Bygone'
  BY <1>1, <1>2, <1>3, <1>4, BygoneKept
<1>6. \A u \in errands' : Holds(u.owner)' => ~OfStudio(u)
  BY <1>1, <1>3, TasksAge, TaskKinds DEF ExportInv, AsBegun, Lost, OfStudio
<1>7. \A u \in errands' : AsBegun(u)' /\ (Holds(u.owner)' => Shown(u)')
  BY <1>1, <1>3, <1>6, StaysAsBegun, StaysShown
<1>8. exporter'.loading => AtWork({"list"})' \/ Lost(exporter.listOwner)'
  BY <1>1, <1>3, ListStaysHonest
<1>9. errands' \subseteq ListTask \cup CsvTask \cup StudioTask
  BY <1>1, TabIsOpen
<1>10. QED
  BY <1>2, <1>3, <1>4, <1>5, <1>7, <1>8, <1>9, Assembled

\* A preview is asked for.
LEMMA LoadsPreviewStep ==
  ASSUME ExportInv, LoadsPreview
  PROVE  ExportInv'
<1>1. PICK o : o = [for |-> "studio", identity |-> identity, query |-> studio.query + 1,
                    rec |-> studio.of]
  OBVIOUS
<1>2. PICK n : n = Errand("preview", o, o.rec, studio.typed)
  OBVIOUS
<1>3. /\ UNCHANGED <<identity, exporter>> /\ exporter.open /\ studio.of # NoRecording
      /\ studio' = [studio EXCEPT !.query = @ + 1, !.owner = o, !.preview = FALSE,
                                  !.loaded = 0, !.busy = TRUE]
      /\ errands' = errands \cup {n}
  BY <1>1, <1>2 DEF LoadsPreview, StudioIdle
<1>4. /\ o \in StudioOwner /\ o.for = "studio" /\ o.rec = studio.of
      /\ o.identity = identity /\ o.query = studio.query + 1
  BY <1>1, <1>3, TabIsOpen DEF StudioOwner, Studio
<1>5. /\ studio' \in Studio /\ studio'.query = studio.query + 1 /\ studio'.of = studio.of
      /\ studio'.owner = o /\ studio'.preview = FALSE /\ studio'.busy = TRUE
  <2>1. studio \in Studio /\ o \in StudioOwner \cup {Nobody} /\ 0 \in Windows
    BY <1>3, <1>4, TabIsOpen DEF Windows
  <2>2. studio.query + 1 \in Nat
    BY <2>1 DEF Studio
  <2>3. QED
    BY <1>3, <2>1, <2>2 DEF Studio
<1>6. studio.query < studio'.query /\ exporter.query \in Nat /\ studio'.query \in Nat
  BY <1>3, <1>5, TabIsOpen DEF Studio, Tab
<1>7. Forward
  BY <1>3, <1>5, <1>6, TabIsOpen DEF Forward
<1>8. Past(o)' /\ Holds(o)' /\ o # Nobody
  BY <1>3, <1>4, <1>5, <1>6, TabIsOpen, StudioHolds DEF Past, Nobody
<1>9. /\ n \in StudioTask /\ n.what = "preview" /\ n.owner = o /\ n.rec = n.owner.rec
      /\ n.choice = exporter.choice
  BY <1>2, <1>3, <1>4, TabIsOpen, ExportAssumption
     DEF Errand, StudioTask, Task, Studio, Tab
<1>10. \A u \in errands : Holds(u.owner)' => ~OfStudio(u)
  BY <1>6, <1>7, TasksAge, KindsApart, TabIsOpen DEF ExportInv, SameFor, Studio
<1>11. Alone' /\ \A u \in errands' : Past(u.owner)'
  <2>1. \A u \in errands : Holds(u.owner)' => u.owner.for # n.owner.for
    BY <1>4, <1>9, <1>10, KindsApart DEF ExportInv
  <2>2. errands' \subseteq errands \cup {n} /\ Past(n.owner)'
    BY <1>3, <1>8, <1>9
  <2>3. QED
    BY <1>7, <2>1, <2>2, OneTaskMore
<1>12. Bygone'
  BY <1>3, <1>5, <1>7, <1>8, <1>11, BygoneKept
<1>13. ASSUME NEW u \in errands'
       PROVE  AsBegun(u)' /\ (Holds(u.owner)' => Shown(u)')
  <2>1. CASE u = n
    BY <1>3, <1>5, <1>9, <2>1 DEF AsBegun, Shown
  <2>2. CASE u \in errands
    BY <1>3, <1>7, <1>10, <2>2, StaysAsBegun, StaysShown
  <2>3. QED
    BY <1>3, <2>1, <2>2
<1>14. exporter'.loading => AtWork({"list"})' \/ Lost(exporter.listOwner)'
  BY <1>3, <1>7, ListStaysHonest
<1>15. AtWork({"preview", "report"})'
  BY <1>3, <1>8, <1>9 DEF AtWork
<1>16. errands' \subseteq ListTask \cup CsvTask \cup StudioTask
  BY <1>3, <1>9, TabIsOpen
<1>17. QED
  BY <1>3, <1>5, <1>7, <1>8, <1>11, <1>12, <1>13, <1>14, <1>15, <1>16, TabIsOpen, Assembled

\* What a selection changes in the tab.
LEMMA Chosen ==
  ASSUME exporter \in Tab, NEW rec \in Choices
  PROVE  /\ Choose(exporter, rec) \in Tab
         /\ Choose(exporter, rec).selected = rec
         /\ Choose(exporter, rec).query = exporter.query
         /\ Choose(exporter, rec).listOwner = exporter.listOwner
         /\ Choose(exporter, rec).loading = exporter.loading
         /\ rec = exporter.selected => Choose(exporter, rec) = exporter
         /\ rec # exporter.selected => Choose(exporter, rec).choice = exporter.choice + 1
<1>1. CASE rec = exporter.selected
  BY <1>1 DEF Choose, Tab
<1>2. CASE rec # exporter.selected
  <2>1. exporter.choice + 1 \in Nat
    BY DEF Tab
  <2>2. QED
    BY <1>2, <2>1 DEF Choose, Tab
<1>3. QED
  BY <1>1, <1>2

\* What it changes in the report.
LEMMA Followed ==
  ASSUME studio \in Studio, NEW rec \in Choices, Follows(rec)
  PROVE  /\ studio' \in Studio /\ studio'.of = rec
         /\ rec = studio.of => studio' = studio
         /\ rec # studio.of => /\ studio'.query = studio.query + 1 /\ studio'.busy = FALSE
                               /\ studio'.preview = FALSE /\ studio'.owner = Nobody
                               /\ studio'.query # studio.query /\ studio.query < studio'.query
<1>1. /\ studio.query \in Nat /\ studio.query + 1 \in Nat
      /\ studio.query + 1 # studio.query /\ studio.query < studio.query + 1
  BY DEF Studio
<1>2. CASE rec = studio.of
  BY <1>1, <1>2 DEF Follows
<1>3. CASE rec # studio.of
  <2>1. studio' = StudioOf(rec, studio.query + 1)
    BY <1>3 DEF Follows
  <2>2. QED
    BY <1>1, <1>3, <2>1 DEF StudioOf, Studio, Windows
<1>4. QED
  BY <1>2, <1>3

\* A selection is a step forward.
LEMMA ChoosesForward ==
  ASSUME ExportInv, exporter.open, UNCHANGED identity, NEW rec \in Choices, Follows(rec),
         exporter' \in Tab, exporter'.selected = rec,
         exporter'.query \in {exporter.query, exporter.query + 1},
         \/ exporter'.choice = exporter.choice /\ rec = exporter.selected
         \/ exporter'.choice = exporter.choice + 1
  PROVE  /\ Forward
         /\ exporter'.query = exporter.query + 1 => exporter'.query # exporter.query
         /\ exporter'.choice = exporter.choice + 1 => exporter'.choice # exporter.choice
<1>1. exporter.query \in Nat /\ exporter.choice \in Nat
  BY TabIsOpen DEF Tab
<1>2. exporter.query <= exporter'.query
  BY <1>1
<1>3. \/ exporter.choice < exporter'.choice
      \/ exporter.choice = exporter'.choice /\ exporter.selected = exporter'.selected
  BY <1>1
<1>4. /\ studio' \in Studio
      /\ \/ studio.query < studio'.query
         \/ studio.query = studio'.query /\ studio.of = studio'.of
  BY TabIsOpen, Followed
<1>5. QED
  BY <1>1, <1>2, <1>3, <1>4, TabIsOpen DEF Forward

\* A selection, without another task.
LEMMA ChoosesStep ==
  ASSUME ExportInv, Forward, UNCHANGED identity, NEW rec \in Choices,
         exporter'.selected = rec, Follows(rec),
         errands' \subseteq Remaining(rec), \A u \in Remaining(rec) : OfStudio(u) => u \in errands',
         exporter'.choice = exporter.choice =>
           exporter'.downloading = exporter.downloading /\ rec = exporter.selected,
         exporter'.choice # exporter.choice => rec # exporter.selected \/ rec = NoRecording,
         \/ exporter'.listOwner = exporter.listOwner
         \/ exporter'.listOwner = Nobody /\ exporter'.query # exporter.query,
         \A u \in errands' : u.what = "list" /\ Holds(u.owner)' => exporter'.loading,
         exporter'.loading => AtWork({"list"})' \/ Lost(exporter.listOwner)'
  PROVE  ExportInv'
<1>1. /\ exporter.open /\ studio \in Studio /\ studio.of = exporter.selected
      /\ studio.of = NoRecording => ~studio.busy
  BY TabIsOpen DEF Forward
<1>2. /\ studio'.of = rec
      /\ rec = studio.of => studio' = studio
      /\ rec # studio.of => /\ studio'.query # studio.query /\ studio'.busy = FALSE
                            /\ studio'.preview = FALSE /\ studio'.owner = Nobody
  BY <1>1, Followed
<1>3. errands' \subseteq errands /\ \A u \in errands' : rec = NoRecording => ~OfStudio(u)
  BY DEF Remaining
<1>4. Alone' /\ \A u \in errands' : Past(u.owner)'
  BY <1>3, FewerTasks
<1>5. Bygone'
  BY <1>2, <1>4, BygoneKept
<1>6. ASSUME NEW u \in errands', Holds(u.owner)', OfStudio(u)
      PROVE  studio' = studio /\ exporter'.choice = exporter.choice
  BY <1>1, <1>2, <1>3, <1>6, TasksAge, KindsApart DEF ExportInv, SameFor
<1>7. ASSUME NEW u \in errands'
      PROVE  AsBegun(u)'
  <2>1. u.what = "list" /\ Holds(u.owner)' => exporter'.listOwner = exporter.listOwner
    BY <1>3, TasksAge, KindsApart DEF ExportInv, SameFor
  <2>2. QED
    BY <1>3, <1>6, <2>1, StaysAsBegun
<1>8. ASSUME NEW u \in errands', Holds(u.owner)'
      PROVE  Shown(u)'
  <2>1. CASE u.what = "list"
    BY <1>8, <2>1 DEF Shown
  <2>2. u.what = "csv" => exporter'.downloading = exporter.downloading
    BY <1>3, <1>8, TasksAge, KindsApart DEF ExportInv, SameFor
  <2>3. QED
    BY <1>3, <1>6, <1>8, <2>1, <2>2, StaysShown
<1>9. studio'.busy => AtWork({"preview", "report"})' \/ Lost(studio.owner)'
  <2>1. CASE rec = studio.of /\ rec # NoRecording
    <3>1. \A u \in errands : OfStudio(u) => u \in errands'
      BY <2>1 DEF Remaining
    <3>2. QED
      BY <1>2, <2>1, <3>1, StudioStaysHonest
  <2>2. QED
    BY <1>1, <1>2, <2>1
<1>10. studio'.preview => studio'.owner # Nobody
  BY <1>2 DEF ExportInv
<1>11. studio'.of = NoRecording => ~studio'.busy
  BY <1>1, <1>2
<1>12. errands' \subseteq ListTask \cup CsvTask \cup StudioTask
  BY <1>1, <1>3, TabIsOpen
<1>13. QED
  BY <1>2, <1>4, <1>5, <1>7, <1>8, <1>9, <1>10, <1>11, <1>12, Assembled

\* The list comes.
LEMMA ListAnsweredStep ==
  ASSUME ExportInv, NEW t \in errands, NEW next \in SUBSET Recordings, ListAnswered(t, next)
  PROVE  ExportInv'
<1>1. PICK rec : rec = IF exporter.selected \in next THEN exporter.selected ELSE NoRecording
  OBVIOUS
<1>2. /\ UNCHANGED identity /\ t.what = "list" /\ Holds(t.owner)
      /\ exporter' = [Choose(exporter, rec) EXCEPT !.list = next, !.loading = FALSE]
      /\ Follows(rec) /\ errands' = Remaining(rec) \ {t} /\ rec \in Choices
  BY <1>1 DEF ListAnswered, Choices
<1>3. PICK e \in Tab : e = Choose(exporter, rec)
  BY <1>2, TabIsOpen, Chosen
<1>4. /\ exporter' \in Tab /\ exporter'.selected = e.selected /\ exporter'.query = e.query
      /\ exporter'.choice = e.choice /\ exporter'.listOwner = e.listOwner
      /\ exporter'.loading = FALSE /\ exporter'.downloading = e.downloading
  BY <1>2, <1>3 DEF Tab
<1>5. /\ e.selected = rec /\ e.query = exporter.query /\ e.listOwner = exporter.listOwner
      /\ rec = exporter.selected => e = exporter
      /\ rec # exporter.selected => e.choice = exporter.choice + 1
      /\ exporter.choice \in Nat /\ exporter.choice + 1 # exporter.choice
  <2>1. exporter \in Tab
    BY TabIsOpen
  <2>2. exporter.choice \in Nat /\ exporter.choice + 1 # exporter.choice
    BY <2>1 DEF Tab
  <2>3. QED
    BY <1>2, <1>3, <2>1, <2>2, Chosen
<1>6. Forward
  BY <1>2, <1>4, <1>5, TabIsOpen, ChoosesForward
<1>7. \A u \in errands' : Holds(u.owner)' => u.what # "list"
  BY <1>2, <1>6, TasksAge, KindsApart DEF ExportInv, Alone, Remaining
<1>8. \A u \in Remaining(rec) : OfStudio(u) => u \in errands'
  BY <1>2 DEF OfStudio
<1>9. QED
  BY <1>2, <1>4, <1>5, <1>6, <1>7, <1>8, ChoosesStep

\* A recording is selected.
LEMMA SelectsStep ==
  ASSUME ExportInv, NEW rec \in Choices, Selects(rec)
  PROVE  ExportInv'
<1>1. /\ UNCHANGED identity /\ exporter.open /\ ~exporter.loading /\ rec # exporter.selected
      /\ exporter' = Choose(exporter, rec) /\ Follows(rec) /\ errands' = Remaining(rec)
  BY DEF Selects
<1>2. /\ exporter' \in Tab /\ exporter'.selected = rec /\ exporter'.query = exporter.query
      /\ exporter'.choice = exporter.choice + 1 /\ exporter'.listOwner = exporter.listOwner
      /\ exporter'.loading = FALSE
  BY <1>1, TabIsOpen, Chosen DEF Tab
<1>3. Forward /\ exporter'.choice # exporter.choice
  BY <1>1, <1>2, ChoosesForward
<1>4. \A u \in errands' : Holds(u.owner)' => u.what # "list"
  BY <1>1, <1>3, TasksAge DEF ExportInv, BusyIsHonest, Remaining
<1>5. QED
  BY <1>1, <1>2, <1>3, <1>4, ChoosesStep

\* The timer of the tab finds the owner of the list gone.
LEMMA WatchesStep ==
  ASSUME ExportInv, Watches
  PROVE  ExportInv'
<1>1. /\ UNCHANGED identity /\ exporter.open /\ Follows(NoRecording)
      /\ exporter' = [exporter EXCEPT !.listOwner = Nobody, !.query = @ + 1,
                        !.choice = @ + 1, !.selected = NoRecording, !.list = {},
                        !.loading = FALSE, !.downloading = FALSE]
      /\ errands' = Remaining(NoRecording)
  BY DEF Watches
<1>2. /\ exporter' \in Tab /\ exporter'.selected = NoRecording /\ exporter'.listOwner = Nobody
      /\ exporter'.query = exporter.query + 1 /\ exporter'.choice = exporter.choice + 1
      /\ exporter'.loading = FALSE
  <2>1. /\ exporter \in Tab /\ exporter.query + 1 \in Nat /\ exporter.choice + 1 \in Nat
        /\ {} \in SUBSET Recordings /\ NoRecording \in Choices
    <3>1. exporter \in Tab
      BY <1>1, TabIsOpen
    <3>2. exporter.query \in Nat /\ exporter.choice \in Nat
      BY <3>1 DEF Tab
    <3>3. QED
      BY <3>1, <3>2 DEF Choices
  <2>2. QED
    BY <1>1, <2>1 DEF Tab
<1>3. NoRecording \in Choices
  BY DEF Choices
<1>4. Forward /\ exporter'.choice # exporter.choice /\ exporter'.query # exporter.query
  BY <1>1, <1>2, <1>3, ChoosesForward
<1>5. \A u \in errands' : Holds(u.owner)' => u.what # "list"
  BY <1>1, <1>2, <1>3, <1>4, TasksAge, KindsApart DEF ExportInv, SameFor, Remaining
<1>6. QED
  BY <1>1, <1>2, <1>3, <1>4, <1>5, ChoosesStep

\* The list is asked for, for the tab e and who is at the station then.
LEMMA ListsStep ==
  ASSUME ExportInv, exporter.open, NEW e \in Tab, NEW rec \in Choices, Follows(rec),
         e.query = exporter.query, e.selected = rec,
         \/ e = exporter /\ rec = exporter.selected
         \/ e.choice = exporter.choice + 1 /\ rec # exporter.selected,
         identity' \in 0..MaxIdentity, identity <= identity',
         Lists(e, errands, identity')
  PROVE  ExportInv'
<1>1. PICK o : o = [for |-> "list", identity |-> identity', query |-> e.query + 1]
  OBVIOUS
<1>2. PICK n : n = [what |-> "list", owner |-> o, rec |-> NoRecording,
                    window |-> 0, got |-> 0, choice |-> e.choice]
  OBVIOUS
<1>3. /\ exporter' = [e EXCEPT !.query = @ + 1, !.listOwner = o, !.loading = TRUE]
      /\ errands' = errands \cup {n}
  BY <1>1, <1>2 DEF Lists
<1>4. /\ exporter \in Tab /\ studio \in Studio /\ studio.of = exporter.selected
      /\ studio.of = NoRecording => ~studio.busy
      /\ identity' \in Nat /\ e.query \in Nat /\ e.query + 1 \in Nat /\ e.choice \in Nat
  <2>1. identity' \in Nat
    BY ExportAssumption
  <2>2. e.query \in Nat /\ e.query + 1 \in Nat /\ e.choice \in Nat
    BY DEF Tab
  <2>3. QED
    BY <2>1, <2>2, TabIsOpen
<1>5. o \in ListOwner /\ o.for = "list" /\ o.identity = identity' /\ o.query = e.query + 1
  BY <1>1, <1>4 DEF ListOwner
<1>6. /\ exporter' \in Tab /\ exporter'.query = e.query + 1 /\ exporter'.choice = e.choice
      /\ exporter'.selected = rec /\ exporter'.listOwner = o /\ exporter'.loading = TRUE
      /\ exporter'.downloading = e.downloading
  BY <1>3, <1>4, <1>5 DEF Tab
<1>7. /\ exporter.query < exporter'.query /\ exporter.query <= exporter'.query
      /\ exporter'.query # exporter.query
      /\ \/ /\ exporter.choice < exporter'.choice /\ exporter'.choice # exporter.choice
            /\ rec # exporter.selected
         \/ exporter.choice = exporter'.choice /\ e = exporter /\ rec = exporter.selected
  <2>1. exporter.choice \in Nat
    BY <1>4 DEF Tab
  <2>2. QED
    BY <1>4, <1>6, <2>1
<1>8. /\ studio' \in Studio /\ studio'.of = rec
      /\ rec = studio.of => studio' = studio
      /\ rec # studio.of => /\ studio'.query # studio.query /\ studio.query < studio'.query
                            /\ studio'.busy = FALSE /\ studio'.preview = FALSE
                            /\ studio'.owner = Nobody
  BY <1>4, Followed
<1>9. Forward
  BY <1>4, <1>6, <1>7, <1>8 DEF Forward
<1>10. Past(o)' /\ Holds(o)' /\ o # Nobody
  BY <1>4, <1>5, <1>6, ListHolds DEF Past, Nobody
<1>11. /\ n \in ListTask /\ n.what = "list" /\ n.owner = o
  BY <1>2, <1>4, <1>5, ExportAssumption DEF ListTask, Task, Choices, Windows
<1>12. \A u \in errands : Holds(u.owner)' => u.what # "list"
  BY <1>7, <1>9, TasksAge, KindsApart DEF ExportInv, SameFor
<1>13. Alone' /\ \A u \in errands' : Past(u.owner)'
  <2>1. \A u \in errands : Holds(u.owner)' => u.owner.for # n.owner.for
    BY <1>5, <1>11, <1>12, KindsApart DEF ExportInv
  <2>2. errands' \subseteq errands \cup {n} /\ Past(n.owner)'
    BY <1>3, <1>10, <1>11
  <2>3. QED
    BY <1>9, <2>1, <2>2, OneTaskMore
<1>14. Bygone'
  BY <1>6, <1>8, <1>9, <1>10, <1>13, BygoneKept
<1>15. ASSUME NEW u \in errands, Holds(u.owner)', OfStudio(u)
       PROVE  studio' = studio /\ exporter'.choice = exporter.choice
  BY <1>4, <1>7, <1>8, <1>9, <1>15, TasksAge, KindsApart DEF ExportInv, SameFor
<1>16. ASSUME NEW u \in errands
       PROVE  AsBegun(u)' /\ (Holds(u.owner)' => Shown(u)')
  <2>1. AsBegun(u)'
    BY <1>9, <1>12, <1>15, StaysAsBegun
  <2>2. ASSUME Holds(u.owner)', u.what = "csv"
        PROVE  exporter'.downloading = exporter.downloading
    BY <1>6, <1>7, <1>9, <2>2, TasksAge, KindsApart DEF ExportInv, SameFor
  <2>3. QED
    BY <1>9, <1>12, <1>15, <2>1, <2>2, StaysShown
<1>17. AsBegun(n)' /\ Shown(n)'
  BY <1>6, <1>11 DEF AsBegun, Shown
<1>18. AtWork({"list"})'
  BY <1>3, <1>10, <1>11 DEF AtWork
<1>19. studio'.busy => AtWork({"preview", "report"})' \/ Lost(studio.owner)'
  <2>1. CASE rec = studio.of
    <3>1. \A u \in errands : OfStudio(u) => u \in errands'
      BY <1>3
    <3>2. QED
      BY <1>8, <1>9, <2>1, <3>1, StudioStaysHonest
  <2>2. QED
    BY <1>8, <2>1
<1>20. /\ studio'.preview => studio'.owner # Nobody
       /\ studio'.of = NoRecording => ~studio'.busy
       /\ errands' \subseteq ListTask \cup CsvTask \cup StudioTask
  BY <1>3, <1>4, <1>8, <1>11, TabIsOpen DEF ExportInv
<1>21. QED
  BY <1>3, <1>6, <1>8, <1>9, <1>13, <1>14, <1>16, <1>17, <1>18, <1>19, <1>20, Assembled

\* The list is asked for again.
LEMMA RefreshesStep ==
  ASSUME ExportInv, Refreshes \/ (IdentityMovesHeard /\ exporter.open)
  PROVE  ExportInv'
<1>1. /\ exporter.open /\ UNCHANGED studio
      /\ identity' = identity \/ (identity' = identity + 1 /\ identity < MaxIdentity)
      /\ Lists(exporter, errands, identity')
  BY DEF Refreshes, IdentityMovesHeard
<1>2. PICK rec : rec = exporter.selected
  OBVIOUS
<1>3. /\ exporter \in Tab /\ rec \in Choices /\ rec = studio.of
      /\ identity \in Nat /\ identity \in 0..MaxIdentity
  BY <1>1, <1>2, TabIsOpen DEF Tab
<1>4. Follows(rec)
  BY <1>1, <1>3 DEF Follows
<1>5. identity' \in 0..MaxIdentity /\ identity <= identity'
  BY <1>1, <1>3, ExportAssumption
<1>6. QED
  BY <1>1, <1>2, <1>3, <1>4, <1>5, ListsStep

\* A recording is imported.
LEMMA ImportsStep ==
  ASSUME ExportInv, NEW rec \in Recordings, Imports(rec)
  PROVE  ExportInv'
<1>1. /\ exporter.open /\ UNCHANGED identity /\ Follows(rec)
      /\ Lists(Choose(exporter, rec), errands, identity) /\ rec \in Choices
  BY DEF Imports, Choices
<1>2. PICK e \in Tab : e = Choose(exporter, rec)
  BY <1>1, TabIsOpen, Chosen
<1>3. /\ e.query = exporter.query /\ e.selected = rec
      /\ \/ e = exporter /\ rec = exporter.selected
         \/ e.choice = exporter.choice + 1 /\ rec # exporter.selected
  BY <1>1, <1>2, TabIsOpen, Chosen
<1>4. identity' \in 0..MaxIdentity /\ identity <= identity' /\ Lists(e, errands, identity')
  BY <1>1, <1>2, TabIsOpen
<1>5. QED
  BY <1>1, <1>2, <1>3, <1>4, ListsStep

\* The login or a counter of the connection moves: every owner is gone.
LEMMA IdentityMovesStep ==
  ASSUME ExportInv, IdentityMoves
  PROVE  ExportInv'
<1>1. /\ UNCHANGED <<exporter, studio, errands>> /\ identity' = identity + 1
      /\ identity < MaxIdentity
  BY DEF IdentityMoves
<1>2. identity \in Nat /\ identity' \in 0..MaxIdentity /\ identity <= identity' /\ identity' # identity
  BY <1>1, ExportAssumption DEF ExportInv, ExportTyped
<1>3. CASE ~exporter.open
  <2>1. errands' = {} /\ studio' = StudioOf(NoRecording, 1) /\ ~exporter'.open
    BY <1>1, <1>3 DEF ExportInv, Mounted
  <2>2. ExportTyped' /\ Mounted'
    BY <1>1, <1>2, <1>3 DEF ExportInv, ExportTyped, Mounted
  <2>3. Bygone' /\ Alone' /\ (\A u \in errands' : AsBegun(u)') /\ ~studio'.preview
    BY <2>1 DEF Bygone, Alone, StudioOf
  <2>4. BusyIsHonest'
    BY <2>1 DEF BusyIsHonest
  <2>5. QED
    BY <2>2, <2>3, <2>4 DEF ExportInv
<1>4. CASE exporter.open
  <2>1. Forward /\ studio'.of = exporter'.selected
    <3>1. exporter \in Tab /\ studio \in Studio
      BY <1>4, TabIsOpen
    <3>2. exporter.query \in Nat
      BY <3>1 DEF Tab
    <3>3. QED
      BY <1>1, <1>2, <1>4, <3>1, <3>2, TabIsOpen DEF Forward
  <2>2. Alone' /\ \A u \in errands' : Past(u.owner)'
    BY <1>1, <2>1, FewerTasks
  <2>3. Bygone'
    BY <1>1, <2>1, <2>2, BygoneKept
  <2>4. \A u \in errands' : AsBegun(u)' /\ (Holds(u.owner)' => Shown(u)')
    BY <1>1, <2>1, StaysAsBegun, StaysShown
  <2>5. /\ exporter'.loading => AtWork({"list"})' \/ Lost(exporter.listOwner)'
        /\ studio'.busy => AtWork({"preview", "report"})' \/ Lost(studio.owner)'
    BY <1>1, <2>1, ListStaysHonest, StudioStaysHonest
  <2>6. QED
    BY <1>1, <1>4, <2>1, <2>2, <2>3, <2>4, <2>5, TabIsOpen, Assembled DEF ExportInv
<1>5. QED
  BY <1>3, <1>4

\* The tab closes.
LEMMA LeavesStep ==
  ASSUME ExportInv, Leaves
  PROVE  ExportInv'
<1>1. /\ exporter' = NoTab /\ studio' = StudioOf(NoRecording, 1) /\ errands' = {}
      /\ UNCHANGED identity
  BY DEF Leaves
<1>2. /\ ~exporter'.open /\ studio'.of = NoRecording /\ ~studio'.busy /\ ~studio'.preview
      /\ studio'.owner = Nobody /\ studio' \in Studio
  BY <1>1 DEF NoTab, StudioOf, Studio, Choices, Windows
<1>3. ExportTyped' /\ Mounted'
  BY <1>1, <1>2 DEF ExportInv, ExportTyped, Mounted
<1>4. Bygone' /\ Alone' /\ BusyIsHonest' /\ \A u \in errands' : AsBegun(u)'
  BY <1>1, <1>2 DEF Bygone, Alone, BusyIsHonest
<1>5. QED
  BY <1>2, <1>3, <1>4 DEF ExportInv

\* The tab opens, and asks for the list.
LEMMA OpensStep ==
  ASSUME ExportInv, Opens
  PROVE  ExportInv'
<1>1. PICK o : o = [for |-> "list", identity |-> identity, query |-> 2]
  OBVIOUS
<1>2. PICK n : n = [what |-> "list", owner |-> o, rec |-> NoRecording,
                    window |-> 0, got |-> 0, choice |-> 1]
  OBVIOUS
<1>3. /\ UNCHANGED <<identity, studio>> /\ ~exporter.open /\ errands' = {n}
      /\ exporter' = [open |-> TRUE, selected |-> NoRecording, choice |-> 1, query |-> 2,
                      listOwner |-> o, list |-> {}, loading |-> TRUE, downloading |-> FALSE]
  <2>1. PICK e : e = [open |-> TRUE, selected |-> NoRecording, choice |-> 1, query |-> 1,
                      listOwner |-> Nobody, list |-> {}, loading |-> FALSE,
                      downloading |-> FALSE]
    OBVIOUS
  <2>2. Lists(e, {}, identity) /\ e.query + 1 = 2 /\ e.choice = 1
    BY <2>1 DEF Opens
  <2>3. exporter' = [e EXCEPT !.query = 2, !.listOwner = o, !.loading = TRUE] /\ errands' = {n}
    BY <1>1, <1>2, <2>2 DEF Lists
  <2>4. QED
    BY <2>1, <2>3 DEF Opens
<1>4. /\ studio = StudioOf(NoRecording, 1) /\ studio \in Studio /\ identity \in Nat
      /\ identity \in 0..MaxIdentity
  BY <1>3, ExportAssumption DEF ExportInv, ExportTyped, Mounted
<1>5. /\ studio'.of = NoRecording /\ ~studio'.busy /\ ~studio'.preview /\ studio'.owner = Nobody
      /\ studio' \in Studio
  BY <1>3, <1>4 DEF StudioOf
<1>6. o \in ListOwner /\ o.for = "list" /\ o.identity = identity /\ o.query = 2 /\ o # Nobody
  BY <1>1, <1>4 DEF ListOwner, Nobody
<1>7. n \in ListTask /\ n.what = "list" /\ n.owner = o
  BY <1>2, <1>6, ExportAssumption DEF ListTask, Task, Choices, Windows
<1>8. exporter' \in Tab
  BY <1>3, <1>6 DEF Tab, Choices
<1>9. Past(o)' /\ Holds(o)'
  BY <1>3, <1>4, <1>6, ListHolds DEF Past
<1>10. ExportTyped' /\ Mounted'
  BY <1>3, <1>4, <1>5, <1>7, <1>8 DEF ExportTyped, Mounted
<1>11. Bygone' /\ Alone'
  BY <1>3, <1>5, <1>7, <1>9 DEF Bygone, Alone, Past
<1>12. AsBegun(n)' /\ AtWork({"list"})'
  BY <1>3, <1>7, <1>9 DEF AsBegun, AtWork
<1>13. BusyIsHonest'
  BY <1>3, <1>5, <1>7, <1>12 DEF BusyIsHonest
<1>14. QED
  BY <1>3, <1>5, <1>10, <1>11, <1>12, <1>13 DEF ExportInv

\* A task whose owner is gone ends.
LEMMA RetiresStep ==
  ASSUME ExportInv, NEW t \in errands, Retires(t)
  PROVE  ExportInv'
<1>1. /\ UNCHANGED <<identity, exporter, studio>> /\ errands' = errands \ {t}
      /\ ~Holds(t.owner)
  BY DEF Retires, Lost
<1>2. \A o : Holds(o)' <=> Holds(o)
  BY <1>1 DEF Holds
<1>3. ExportTyped' /\ Mounted'
  BY <1>1 DEF ExportInv, ExportTyped, Mounted
<1>4. Bygone' /\ (studio.preview => studio.owner # Nobody)'
  BY <1>1 DEF ExportInv, Bygone, Past
<1>5. \A u \in errands' : AsBegun(u)'
  BY <1>1, <1>2 DEF ExportInv, AsBegun
<1>6. Alone'
  BY <1>1, <1>2 DEF ExportInv, Alone
<1>7. BusyIsHonest'
  BY <1>1, <1>2 DEF ExportInv, BusyIsHonest, AtWork, Lost
<1>8. QED
  BY <1>3, <1>4, <1>5, <1>6, <1>7 DEF ExportInv

-----------------------------------------------------------------------------
(* The theorems *)

\* Every step keeps the invariant.
LEMMA ExportStep == ExportInv /\ [ExportNext]_exportVars => ExportInv'
<1>. SUFFICES ASSUME ExportInv, [ExportNext]_exportVars
     PROVE  ExportInv'
  OBVIOUS
<1>1. CASE Opens \/ Leaves \/ IdentityMoves \/ IdentityMovesHeard \/ Refreshes
  BY <1>1, OpensStep, LeavesStep, IdentityMovesStep, RefreshesStep DEF IdentityMovesHeard
<1>2. CASE Watches \/ Downloads \/ LoadsPreview \/ MakesReport \/ StudioWatches
  BY <1>2, WatchesStep, DownloadsStep, LoadsPreviewStep, MakesReportStep, StudioWatchesStep
<1>3. CASE \E rec \in Recordings : Imports(rec)
  BY <1>3, ImportsStep
<1>4. CASE \E rec \in Recordings \cup {NoRecording} : Selects(rec)
  BY <1>4, SelectsStep DEF Choices
<1>5. ASSUME NEW t \in errands, \E next \in SUBSET Recordings : ListAnswered(t, next)
      PROVE  ExportInv'
  BY <1>5, ListAnsweredStep
<1>6. ASSUME NEW t \in errands, ListFails(t) \/ Chunk(t) \/ Retires(t)
      PROVE  ExportInv'
  BY <1>6, ListFailsStep, ChunkStep, RetiresStep
<1>7. ASSUME NEW t \in errands, Finishes(t) \/ ExportFails(t)
      PROVE  ExportInv'
  BY <1>7, ErrandEndsStep DEF Finishes, ExportFails
<1>8. ASSUME NEW t \in errands, PreviewShown(t) \/ PreviewFails(t)
      PROVE  ExportInv'
  BY <1>8, PreviewEndsStep
<1>9. CASE \E w \in Windows : Types(w)
  BY <1>9, TypesStep
<1>10. CASE UNCHANGED exportVars
  <2>1. UNCHANGED <<identity, exporter, studio, errands>>
    BY <1>10 DEF exportVars
  <2>2. \A o : Holds(o)' <=> Holds(o)
    BY <2>1 DEF Holds
  <2>3. ExportTyped' /\ Mounted'
    BY <2>1 DEF ExportInv, ExportTyped, Mounted
  <2>4. Bygone' /\ (studio.preview => studio.owner # Nobody)'
    BY <2>1 DEF ExportInv, Bygone, Past
  <2>5. Alone' /\ \A u \in errands' : AsBegun(u)'
    BY <2>1, <2>2 DEF ExportInv, AsBegun, Alone
  <2>6. BusyIsHonest'
    BY <2>1, <2>2 DEF ExportInv, BusyIsHonest, AtWork, Lost
  <2>7. QED
    BY <2>3, <2>4, <2>5, <2>6 DEF ExportInv
<1>11. QED
  BY <1>1, <1>2, <1>3, <1>4, <1>5, <1>6, <1>7, <1>8, <1>9, <1>10 DEF ExportNext

\* The invariant holds in every reachable state.
THEOREM ExportInvariance == ExportSpec => []ExportInv
<1>1. ExportInit => ExportInv
  <2>. SUFFICES ASSUME ExportInit
       PROVE  ExportInv
    OBVIOUS
  <2>1. /\ exporter = NoTab /\ errands = {} /\ identity = 0 /\ ~exporter.open
        /\ studio = StudioOf(NoRecording, 1)
    BY DEF ExportInit, NoTab
  <2>2. /\ studio \in Studio /\ studio.of = NoRecording /\ ~studio.busy /\ ~studio.preview
        /\ studio.owner = Nobody
    BY <2>1 DEF StudioOf, Studio, Choices, Windows
  <2>3. ExportTyped /\ Mounted
    BY <2>1, <2>2, ExportAssumption DEF ExportTyped, Mounted
  <2>4. Bygone /\ Alone /\ BusyIsHonest
    BY <2>1, <2>2 DEF Bygone, Alone, BusyIsHonest
  <2>5. QED
    BY <2>1, <2>2, <2>3, <2>4 DEF ExportInv
<1>2. QED
  BY <1>1, ExportStep, PTL DEF ExportSpec

\* Every variable holds a value of its kind, and a preview has its owner.
THEOREM ExportTypes == ExportSpec => []ExportTypeOK
<1>1. ExportInv => ExportTypeOK
  <2>. SUFFICES ASSUME ExportInv
       PROVE  ExportTypeOK
    OBVIOUS
  <2>1. \A t \in errands : t.got \in 0..Parts
    BY TaskKinds DEF ExportInv, ListTask, CsvTask, StudioTask, Task
  <2>2. exporter.open => exporter.selected \in Choices /\ exporter.list \subseteq Recordings
    BY TabIsOpen DEF Tab
  <2>3. studio.loaded \in Windows
    BY DEF ExportInv, ExportTyped, Studio
  <2>4. QED
    BY <2>1, <2>2, <2>3 DEF ExportInv, ExportTyped, Mounted, ExportTypeOK, Choices
<1>2. QED
  BY <1>1, ExportInvariance, PTL

\* A task that can still have an effect is shown as under way, and what is shown
\* as under way has a task or an owner that the timer will find gone.
THEOREM ExportBusy == ExportSpec => []BusyIsHonest
<1>1. ExportInv => BusyIsHonest
  BY DEF ExportInv
<1>2. QED
  BY <1>1, ExportInvariance, PTL

\* A task that finishes still has the recording, the choice and the station it was
\* begun with, and a report the window that is previewed.
LEMMA FinishesChosen ==
  ASSUME ExportInv, NEW t \in errands, Finishes(t)
  PROVE  /\ saved'.got = Parts /\ saved'.identity = identity
         /\ saved'.rec = exporter.selected /\ saved'.choice = exporter.choice
         /\ saved'.what = "report" => studio.preview /\ saved'.window = studio.loaded
<1>1. /\ t.what \in {"csv", "report"} /\ Holds(t.owner) /\ t.got = Parts /\ AsBegun(t)
      /\ saved' = [what |-> t.what, rec |-> t.rec, window |-> t.window, got |-> t.got,
                   choice |-> t.choice, identity |-> t.owner.identity]
      /\ studio.of = exporter.selected
  BY TabIsOpen DEF Finishes, Exports, ExportInv
<1>2. t.owner.identity = identity
  BY <1>1 DEF Holds
<1>3. CASE t.what = "csv"
  <2>1. t.owner \in CsvOwner
    BY <1>3, TaskKinds DEF ExportInv
  <2>2. QED
    BY <1>1, <1>2, <1>3, <2>1, CsvHolds DEF AsBegun
<1>4. CASE t.what = "report"
  <2>1. t.owner \in StudioOwner
    BY <1>4, TaskKinds DEF ExportInv
  <2>2. QED
    BY <1>1, <1>2, <1>4, <2>1, StudioHolds DEF AsBegun
<1>5. QED
  BY <1>1, <1>3, <1>4

\* A file gets its name only when it is whole, of the recording that has been
\* selected ever since it was asked for, and of the window that is previewed.
THEOREM ExportChosen == ExportSpec => ExportIsChosen
<1>1. ASSUME ExportInv, ExportNext, saved' # saved
      PROVE  \E t \in errands : Finishes(t)
  BY <1>1 DEF ExportNext, Opens, Leaves, IdentityMoves, IdentityMovesHeard, Refreshes,
              Watches, Downloads, Imports, Selects, ListAnswered, ListFails, Chunk,
              ExportFails, Retires, PreviewShown, PreviewFails, Types, LoadsPreview,
              MakesReport, StudioWatches
<1>2. ExportInv /\ [ExportNext]_exportVars =>
        [saved' # saved =>
           /\ saved'.got = Parts /\ saved'.identity = identity
           /\ saved'.rec = exporter.selected /\ saved'.choice = exporter.choice
           /\ saved'.what = "report" => studio.preview /\ saved'.window = studio.loaded]_exportVars
  BY <1>1, FinishesChosen DEF exportVars
<1>3. QED
  BY <1>2, ExportInvariance, PTL DEF ExportSpec, ExportIsChosen

=============================================================================
