------------------------------ MODULE MCPages ------------------------------
(***************************************************************************)
(* Small instances of eight components that share no state: the session of *)
(* the app, the pages for sequences, recovery, the self-test, firmware,    *)
(* calibration and recordings, and the alert conditions.  Every property   *)
(* is about one of them, so a behaviour of all is one of a single one:     *)
(* `page` says which one moves.                                            *)
(***************************************************************************)
EXTENDS MCAccount, SequenceProgress, BoardRecovery, SelfTestConfirmation, FirmwareUpdate,
        AlertConditions, CalibrationEditor, RecordingExport

CONSTANTS o1

InEras == <<1, 1, 2>>

\* One sensor is like another, so the first point may be taken to be of this one.
FirstSensor == CHOOSE s \in Sensors : TRUE

\* Until a calibration page has the layout, it sends nothing else but loads and captures;
\* and the address moves to one that has a draft.
CalBounded ==
  /\ requests'["layout"].st # "none" =>
       \A c \in Requests \ {"load"} : requests'[c].st = "none"
  /\ site' # site => drafts[site'.at] # NoDraft
  /\ made' > made /\ made = 0 =>
       selected = FirstSensor /\ settled' = OfSensor(settled', FirstSensor)

VARIABLE page

pagesVars == <<page, accountVars, seqVars, recoveryVars, dryVars, firmwareVars,
               alertVars, calVars, exportVars>>

\* The components that do not move are in one of their initial states.  The first
\* start of the station has its evidence at once, the second waits for it.
PagesInit ==
  /\ page \in {"account", "sequence", "recovery", "self-test", "firmware", "alerts",
             "calibration", "export"}
  /\ AccountInit /\ SeqInit /\ RecoveryInit /\ DryInit /\ FirmwareInit
  /\ AlertInit /\ CalInit /\ ExportInit
  /\ page # "account" => base = A /\ entries = <<>> /\ server.valid = {} /\ server.unused = {}
  /\ page # "recovery" => binding = CHOOSE b \in Bindings : TRUE
  /\ page # "self-test" => ~dryStation.armed
  /\ alertStation.now.complete
  /\ site.at = A
  /\ \A st \in Sites : drafts[st] = NoDraft \/ drafts[st] = OfSensor(drafts[st], FirstSensor)
  /\ page # "calibration" => made = 0 /\ selected = FirstSensor

PagesNext ==
  /\ UNCHANGED page
  /\ \/ /\ page = "account" /\ AccountNext
        /\ UNCHANGED <<seqVars, recoveryVars, dryVars, firmwareVars, alertVars, calVars,
                       exportVars>>
     \/ /\ page = "sequence" /\ SeqNext
        /\ UNCHANGED <<accountVars, recoveryVars, dryVars, firmwareVars, alertVars, calVars,
                       exportVars>>
     \/ /\ page = "recovery" /\ RecoveryNext
        /\ UNCHANGED <<accountVars, seqVars, dryVars, firmwareVars, alertVars, calVars,
                       exportVars>>
     \/ /\ page = "self-test" /\ DryNext
        /\ UNCHANGED <<accountVars, seqVars, recoveryVars, firmwareVars, alertVars, calVars,
                       exportVars>>
     \/ /\ page = "firmware" /\ FirmwareNext
        /\ UNCHANGED <<accountVars, seqVars, recoveryVars, dryVars, alertVars, calVars,
                       exportVars>>
     \/ /\ page = "alerts" /\ AlertNext
        /\ UNCHANGED <<accountVars, seqVars, recoveryVars, dryVars, firmwareVars, calVars,
                       exportVars>>
     \/ /\ page = "calibration" /\ CalNext /\ CalBounded
        /\ UNCHANGED <<accountVars, seqVars, recoveryVars, dryVars, firmwareVars,
                       alertVars, exportVars>>
     \/ /\ page = "export" /\ ExportNext
        /\ UNCHANGED <<accountVars, seqVars, recoveryVars, dryVars, firmwareVars,
                       alertVars, calVars>>

PagesSpec == PagesInit /\ [][PagesNext]_pagesVars

=============================================================================
