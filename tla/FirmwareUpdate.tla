--------------------------- MODULE FirmwareUpdate ---------------------------
(***************************************************************************)
(* The firmware tab (firmware_update_tab.rs): targets are discovered in a  *)
(* loop, a board and a file are chosen, the operator ticks a consent and   *)
(* flashes, and the job is polled and may be cancelled.  Everything asked  *)
(* for belongs to an ExportOwner, which the next station, login, link or   *)
(* clear ends for good: an owner is the number of the era it was captured  *)
(* in, with the operation and the board it was captured for.               *)
(***************************************************************************)
EXTENDS Naturals, Sequences

CONSTANTS
  Boards,
  Files,          \* contents of .seds files
  NoBoard, NoFile,
  MaxEra,         \* bounds: eras, operations, jobs
  MaxOperation,
  MaxJob

VARIABLES
  era,        \* what every new owner is captured in
  jobs,       \* external: the stage of each job
  tab,        \* the signals of the tab
  discovery,  \* the targets asked for
  picking,    \* the file that is read
  flashing,   \* the upload under way, then the poll of its job
  cancelling, \* the cancel under way
  flashed     \* history: the uploads sent, each with the consent it was sent on

firmwareVars == <<era, jobs, tab, discovery, picking, flashing, cancelling, flashed>>

NoTask == [st |-> "none"]
NoJob == [job |-> 0]
NoOwner == [era |-> 0, operation |-> 0, board |-> NoBoard]
Stages == {"running", "ended"}
Review == [era : 0..MaxEra, spent : BOOLEAN, board : Boards \cup {NoBoard}, file : Files \cup {NoFile}]
Owner == [era : 0..MaxEra, operation : 0..MaxOperation, board : Boards \cup {NoBoard}]

ASSUME FirmwareAssumption ==
  /\ NoBoard \notin Boards /\ NoFile \notin Files
  /\ MaxEra \in Nat \ {0} /\ MaxOperation \in Nat /\ MaxJob \in Nat

\* Targets and job are of an era; 0 is before the first of each.
FirmwareInit ==
  /\ era = 1
  /\ jobs = <<>>
  /\ tab = [targets |-> 0, listed |-> {}, board |-> NoBoard, file |-> NoFile, fileEra |-> 0,
            consent |-> FALSE,
            consented |-> [era |-> 0, spent |-> FALSE, board |-> NoBoard, file |-> NoFile],
            operation |-> 0, submitting |-> FALSE, update |-> NoJob, jobOwner |-> NoOwner]
  /\ discovery = NoTask /\ picking = NoTask /\ flashing = NoTask /\ cancelling = NoTask
  /\ flashed = <<>>

-----------------------------------------------------------------------------
(* Owners *)

\* capture_selected, for what is chosen now.
Captured == [era |-> era, operation |-> tab.operation, board |-> tab.board]
Current(o) == o.era = era /\ o.operation = tab.operation /\ o.board = tab.board

\* The next operation; the u64 it counts in is the bound.
Advanced(t) == [t EXCEPT !.operation = @ + 1]
MayCapture == tab.targets = era /\ tab.operation < MaxOperation

\* The job that is shown is over, or there is none.
Ended(u) == u.job # 0 /\ u.stage = "ended"
Active == tab.submitting \/ (tab.update.job # 0 /\ ~Ended(tab.update))

\* Mutant: the consent outlives the job.
ShowingOnly(t, u) == [t EXCEPT !.update = u, !.consented.spent = @ \/ Ended(u)]

\* use_effect: a job that ended takes the consent with it, which it has used up
\* (history).
Showing(t, u) ==
  [t EXCEPT !.update = u, !.consent = @ /\ ~Ended(u), !.consented.spent = @ \/ Ended(u)]

Job(j) == [job |-> j, stage |-> jobs[j]]

NextEra ==
  /\ era < MaxEra
  /\ era' = era + 1
  /\ UNCHANGED <<jobs, tab, discovery, picking, flashing, cancelling, flashed>>

JobEnds(j) ==
  /\ j \in DOMAIN jobs /\ jobs[j] = "running"
  /\ jobs' = [jobs EXCEPT ![j] = "ended"]
  /\ UNCHANGED <<era, tab, discovery, picking, flashing, cancelling, flashed>>

-----------------------------------------------------------------------------
(* Discovery *)

Discover ==
  /\ discovery = NoTask
  /\ discovery' = [st |-> "asked", era |-> era]
  /\ UNCHANGED <<era, jobs, tab, picking, flashing, cancelling, flashed>>

Forgotten(t) == Advanced([t EXCEPT !.board = NoBoard, !.file = NoFile, !.consent = FALSE,
                             !.update = NoJob, !.submitting = FALSE, !.jobOwner = NoOwner])

\* Nothing is chosen for the operator once a board is; else the first that is online.
Listing(t, bs) ==
  [t EXCEPT !.targets = era, !.listed = bs,
            !.board = IF @ = NoBoard /\ bs # {} THEN CHOOSE b \in bs : TRUE ELSE @]

\* Mutant: another station's targets replace the list and nothing else.
TargetsOnly(t, bs) == Listing(t, bs)

\* Targets of a new owner: whatever was chosen, shown or sent under the one
\* before is forgotten.
Targets(t, bs) == Listing(IF t.targets \in {0, era} THEN t ELSE Forgotten(t), bs)

Discovered(bs) ==
  /\ discovery.st = "asked" /\ discovery.era = era
  /\ tab.operation < MaxOperation
  /\ discovery' = NoTask
  /\ tab' = Targets(tab, bs)
  /\ UNCHANGED <<era, jobs, picking, flashing, cancelling, flashed>>

\* A failure empties the list; the answer of an earlier owner does nothing.
DiscoveryFails ==
  /\ discovery.st = "asked"
  /\ discovery' = NoTask
  /\ tab' = IF discovery.era = era THEN [tab EXCEPT !.listed = {}] ELSE tab
  /\ UNCHANGED <<era, jobs, picking, flashing, cancelling, flashed>>

-----------------------------------------------------------------------------
(* Choosing *)

SelectBoard(b) ==
  /\ ~Active /\ b \in tab.listed \ {tab.board} /\ tab.operation < MaxOperation
  /\ tab' = Advanced([tab EXCEPT !.board = b, !.consent = FALSE])
  /\ UNCHANGED <<era, jobs, discovery, picking, flashing, cancelling, flashed>>

\* Another file may be picked while one is read, whose owner is then not current.
PickFile(f) ==
  /\ ~Active /\ MayCapture
  /\ tab' = Advanced(tab)
  /\ picking' = [st |-> "reading", file |-> f, owner |-> [Captured EXCEPT !.operation = @ + 1]]
  /\ UNCHANGED <<era, jobs, discovery, flashing, cancelling, flashed>>

\* Mutant: the file is replaced under the consent.
FileKeepsConsent ==
  /\ picking.st = "reading" /\ Current(picking.owner)
  /\ picking' = NoTask
  /\ tab' = [tab EXCEPT !.file = picking.file, !.fileEra = era]
  /\ UNCHANGED <<era, jobs, discovery, flashing, cancelling, flashed>>

FileRead ==
  /\ picking.st = "reading" /\ Current(picking.owner)
  /\ picking' = NoTask
  /\ tab' = [tab EXCEPT !.file = picking.file, !.fileEra = era, !.consent = FALSE]
  /\ UNCHANGED <<era, jobs, discovery, flashing, cancelling, flashed>>

\* Its owner is gone, or the file cannot be read.
FileDropped ==
  /\ picking.st = "reading"
  /\ picking' = NoTask
  /\ UNCHANGED <<era, jobs, tab, discovery, flashing, cancelling, flashed>>

\* A file of another kind is refused and takes the one before with it.
RefuseFile ==
  /\ ~Active
  /\ tab' = [tab EXCEPT !.file = NoFile, !.consent = FALSE]
  /\ UNCHANGED <<era, jobs, discovery, picking, flashing, cancelling, flashed>>

\* The box, with what was on the screen when it was ticked (history).
Acknowledge ==
  /\ ~Active
  /\ tab' = [tab EXCEPT !.consent = ~@,
                        !.consented = [era |-> tab.fileEra, spent |-> FALSE,
                                       board |-> tab.board, file |-> tab.file]]
  /\ UNCHANGED <<era, jobs, discovery, picking, flashing, cancelling, flashed>>

-----------------------------------------------------------------------------
(* Flashing *)

Ready == /\ tab.targets = era /\ tab.board \in tab.listed
         /\ tab.file # NoFile /\ tab.consent /\ ~Active

Flash ==
  /\ Ready /\ MayCapture
  /\ LET o == [Captured EXCEPT !.operation = @ + 1]
     IN  /\ tab' = Advanced([tab EXCEPT !.submitting = TRUE, !.jobOwner = o])
         /\ flashing' = [st |-> "upload", owner |-> o]
  /\ flashed' = Append(flashed, [era |-> era, board |-> tab.board, file |-> tab.file,
                                 on |-> tab.consented])
  /\ UNCHANGED <<era, jobs, discovery, picking, cancelling>>

\* The station begins a job for the upload and answers with its status.
UploadServed ==
  /\ flashing.st = "upload" /\ Len(jobs) < MaxJob
  /\ jobs' = Append(jobs, "running")
  /\ flashing' = [st |-> "accepted", owner |-> flashing.owner, is |-> [job |-> Len(jobs) + 1,
                                                                      stage |-> "running"]]
  /\ UNCHANGED <<era, tab, discovery, picking, cancelling, flashed>>

UploadEnds ==
  /\ flashing.st = "accepted" /\ Current(flashing.owner)
  /\ tab' = Showing([tab EXCEPT !.submitting = FALSE], flashing.is)
  /\ flashing' = [st |-> "poll", owner |-> flashing.owner, job |-> flashing.is.job]
  /\ UNCHANGED <<era, jobs, discovery, picking, cancelling, flashed>>

\* Refused, or the answer is lost.
UploadFails ==
  /\ flashing.st \in {"upload", "accepted"} /\ Current(flashing.owner)
  /\ tab' = [tab EXCEPT !.submitting = FALSE]
  /\ flashing' = NoTask
  /\ UNCHANGED <<era, jobs, discovery, picking, cancelling, flashed>>

\* ExportOwner::wait, and the poll's own check: nothing is touched.
FlashAbandoned ==
  /\ flashing.st # "none" /\ ~Current(flashing.owner)
  /\ flashing' = NoTask
  /\ UNCHANGED <<era, jobs, tab, discovery, picking, cancelling, flashed>>

\* poll_update: each answer is shown, the last one ends the loop.
PollServed ==
  /\ flashing.st = "poll"
  /\ flashing' = [st |-> "polled", owner |-> flashing.owner, is |-> Job(flashing.job)]
  /\ UNCHANGED <<era, jobs, tab, discovery, picking, cancelling, flashed>>

PollShown ==
  /\ flashing.st = "polled" /\ Current(flashing.owner)
  /\ tab' = Showing(tab, flashing.is)
  /\ flashing' = IF Ended(flashing.is) THEN NoTask
                 ELSE [st |-> "poll", owner |-> flashing.owner, job |-> flashing.is.job]
  /\ UNCHANGED <<era, jobs, discovery, picking, cancelling, flashed>>

\* A 401 or 403 ends the loop; any other failure leads to the next round.
PollRefused ==
  /\ flashing.st = "poll" /\ Current(flashing.owner)
  /\ flashing' = NoTask
  /\ UNCHANGED <<era, jobs, tab, discovery, picking, cancelling, flashed>>

\* The cancel goes by the owner of the upload; one at a time is enough here.
CancelUpdate ==
  /\ cancelling = NoTask
  /\ tab.update.job # 0 /\ ~Ended(tab.update) /\ Current(tab.jobOwner)
  /\ cancelling' = [st |-> "asked", owner |-> tab.jobOwner, job |-> tab.update.job]
  /\ UNCHANGED <<era, jobs, tab, discovery, picking, flashing, flashed>>

\* The station stops the job now or a while later, and says how it is.
CancelServed ==
  /\ cancelling.st = "asked"
  /\ \E s \in Stages :
       /\ jobs[cancelling.job] = "ended" => s = "ended"
       /\ jobs' = [jobs EXCEPT ![cancelling.job] = s]
       /\ cancelling' = [st |-> "served", owner |-> cancelling.owner,
                         is |-> [job |-> cancelling.job, stage |-> s]]
  /\ UNCHANGED <<era, tab, discovery, picking, flashing, flashed>>

CancelShown ==
  /\ cancelling.st = "served" /\ Current(cancelling.owner)
  /\ tab' = Showing(tab, cancelling.is)
  /\ cancelling' = NoTask
  /\ UNCHANGED <<era, jobs, discovery, picking, flashing, flashed>>

CancelDropped ==
  /\ cancelling.st # "none"
  /\ cancelling' = NoTask
  /\ UNCHANGED <<era, jobs, tab, discovery, picking, flashing, flashed>>

-----------------------------------------------------------------------------

FirmwareNext ==
  \/ NextEra \/ \E j \in 1..MaxJob : JobEnds(j)
  \/ Discover \/ DiscoveryFails \/ \E bs \in SUBSET Boards : Discovered(bs)
  \/ \E b \in Boards : SelectBoard(b)
  \/ \E f \in Files : PickFile(f)
  \/ FileRead \/ FileDropped \/ RefuseFile \/ Acknowledge
  \/ Flash \/ UploadServed \/ UploadEnds \/ UploadFails \/ FlashAbandoned
  \/ PollServed \/ PollShown \/ PollRefused
  \/ CancelUpdate \/ CancelServed \/ CancelShown \/ CancelDropped

FirmwareSpec == FirmwareInit /\ [][FirmwareNext]_firmwareVars

-----------------------------------------------------------------------------
(* Properties *)

Status == {NoJob} \cup [job : 1..MaxJob, stage : Stages]

\* Every variable holds a value of its kind.
FirmwareTypeOK ==
  /\ era \in 1..MaxEra
  /\ jobs \in Seq(Stages) /\ Len(jobs) <= MaxJob
  /\ tab \in [targets : 0..MaxEra, listed : SUBSET Boards, board : Boards \cup {NoBoard}, file : Files \cup {NoFile},
              fileEra : 0..MaxEra, consent : BOOLEAN, consented : Review,
              operation : 0..MaxOperation, submitting : BOOLEAN, update : Status,
              jobOwner : Owner]
  /\ discovery \in {NoTask} \cup [st : {"asked"}, era : 1..MaxEra]
  /\ picking \in {NoTask} \cup [st : {"reading"}, file : Files, owner : Owner]
  /\ flashing \in {NoTask} \cup [st : {"upload"}, owner : Owner]
                  \cup [st : {"accepted", "polled"}, owner : Owner, is : Status]
                  \cup [st : {"poll"}, owner : Owner, job : 1..MaxJob]
  /\ cancelling \in {NoTask} \cup [st : {"asked"}, owner : Owner, job : 1..MaxJob]
                    \cup [st : {"served"}, owner : Owner, is : Status]
  /\ flashed \in Seq([era : 1..MaxEra, board : Boards, file : Files, on : Review])

\* A board is flashed only with the file, and at the station, that the operator
\* saw when the consent was given, and that board unless none was chosen by then:
\* a late file, new targets, another station or the end of a job revokes it.
FlashIsConsented ==
  \A i \in DOMAIN flashed : LET u == flashed[i]
                            IN  /\ u.era = u.on.era /\ u.file = u.on.file
                                /\ u.on.board \in {u.board, NoBoard}

\* "An unverified transfer never carries consent into another update."
ConsentIsSpent == \A i \in DOMAIN flashed : ~flashed[i].on.spent

=============================================================================
