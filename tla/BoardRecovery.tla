--------------------------- MODULE BoardRecovery ---------------------------
(***************************************************************************)
(* The recovery panel (board_recovery_panel, _guard and _model): a polled  *)
(* and a requested status of the boards, and an action in two requests:    *)
(* the station prepares a ticket bound to what the operator saw, a dialog  *)
(* shows it, and the confirmation reads the status once more before it is  *)
(* sent.  Login and station may change, and change back, at any time.      *)
(*                                                                         *)
(* The context of a status stands for all that context_unchanged compares: *)
(* backend instance, principal, reset epoch, permissions, mode, policy and *)
(* a pending operation.                                                    *)
(***************************************************************************)
EXTENDS Naturals, Sequences

CONSTANTS
  Bindings,     \* ConnectionBinding: station, token and user name
  NoReading,    \* no status, no dialog
  MaxContext,   \* bounds: changes of the boards' context, tickets issued
  MaxTicket

VARIABLES
  binding,   \* ConnectionBinding::current()
  backend,   \* the station: the boards' context, its last ticket
  snapshot,  \* the status on the screen
  pending,   \* the dialog: a ticket and what was read when it was prepared
  phrase,    \* whether the confirmation phrase is typed in
  work,      \* what the busy flag stands for
  reads,     \* the poll's and the refresh button's status requests
  serial,    \* which of the two was asked last
  late,      \* whether the time of the last ticket is over
  posted     \* history: the confirmations sent

recoveryVars == <<binding, backend, snapshot, pending, phrase, work, reads, serial, late, posted>>

Contexts == 0..MaxContext
Tickets == 1..MaxTicket
Reading == [by : Bindings, context : Contexts, ticket : {0} \cup Tickets]
Dialog == [by : Bindings, context : Contexts, ticket : Tickets]
Readers == {"poll", "refresh"}
Idle == [st |-> "idle"]
Unasked == [st |-> "none"]

ASSUME RecoveryAssumption ==
  /\ MaxContext \in Nat /\ MaxTicket \in Nat \ {0}
  /\ NoReading \notin Reading /\ NoReading \notin Dialog

RecoveryInit ==
  /\ binding \in Bindings
  /\ backend = [context |-> 0, ticket |-> 0]
  /\ snapshot = NoReading /\ pending = NoReading
  /\ phrase = FALSE
  /\ work = Idle
  /\ reads = [k \in Readers |-> Unasked]
  /\ serial = "poll"
  /\ late = FALSE
  /\ posted = <<>>

\* A status as the station gives it to the login that asks.
StatusFor(b) == [by |-> b, context |-> backend.context, ticket |-> backend.ticket]

\* Pending::valid, with the ticket's identity as context_unchanged has it.  A dialog
\* is always for the last ticket.
Valid(d, r) ==
  /\ d.by = binding /\ r.by = d.by
  /\ r.context = d.context /\ r.ticket = d.ticket
  /\ ~late

-----------------------------------------------------------------------------
(* The station and the session *)

\* A board restarts, another operator acts, a permission or the mode changes.
ContextChanges ==
  /\ backend.context < MaxContext
  /\ backend' = [backend EXCEPT !.context = @ + 1]
  /\ UNCHANGED <<binding, snapshot, pending, phrase, work, reads, serial, late, posted>>

BindingChanges(b) ==
  /\ b # binding
  /\ binding' = b
  /\ UNCHANGED <<backend, snapshot, pending, phrase, work, reads, serial, late, posted>>

TicketExpires ==
  /\ backend.ticket # 0 /\ ~late
  /\ late' = TRUE
  /\ UNCHANGED <<binding, backend, snapshot, pending, phrase, work, reads, serial, posted>>

-----------------------------------------------------------------------------
(* The status on the screen *)

\* The loop's next round, or the button; an earlier press is forgotten.
Reads(k) ==
  /\ k = "poll" => reads[k] = Unasked
  /\ reads' = [reads EXCEPT ![k] = [st |-> "asked", by |-> binding]]
  /\ serial' = k
  /\ UNCHANGED <<binding, backend, snapshot, pending, phrase, work, late, posted>>

ReadServed(k) ==
  /\ reads[k].st = "asked"
  /\ reads' = [reads EXCEPT ![k] = [st |-> "served", is |-> StatusFor(@.by)]]
  /\ UNCHANGED <<binding, backend, snapshot, pending, phrase, work, serial, late, posted>>

\* Mutant: an answer is shown whether or not a later one was asked for.
ReadShownAnyway(k) ==
  /\ reads[k].st = "served" /\ reads[k].is.by = binding
  /\ reads' = [reads EXCEPT ![k] = Unasked]
  /\ snapshot' = reads[k].is
  /\ UNCHANGED <<binding, backend, pending, phrase, work, serial, late, posted>>

\* Only the poll looks whether the dialog still stands; an answer that was long
\* under way ends it as well.
ReadShown(k) ==
  /\ reads[k].st = "served" /\ reads[k].is.by = binding /\ serial = k
  /\ reads' = [reads EXCEPT ![k] = Unasked]
  /\ snapshot' = reads[k].is
  /\ IF k = "poll" /\ pending # NoReading
     THEN \/ Valid(pending, reads[k].is) /\ UNCHANGED <<pending, phrase>>
          \/ pending' = NoReading /\ phrase' = FALSE
     ELSE UNCHANGED <<pending, phrase>>
  /\ UNCHANGED <<binding, backend, work, serial, late, posted>>

\* No answer, or one to an earlier login.  The button's failure takes the dialog
\* away and leaves what was typed.
ReadFails(k) ==
  /\ reads[k].st = "asked" \/ (reads[k].st = "served" /\ reads[k].is.by # binding)
  /\ serial = k
  /\ reads' = [reads EXCEPT ![k] = Unasked]
  /\ snapshot' = NoReading /\ pending' = NoReading
  /\ phrase' = (phrase /\ k = "refresh")
  /\ UNCHANGED <<binding, backend, work, serial, late, posted>>

ReadSuperseded(k) ==
  /\ reads[k].st # "none" /\ serial # k
  /\ reads' = [reads EXCEPT ![k] = Unasked]
  /\ UNCHANGED <<binding, backend, snapshot, pending, phrase, work, serial, late, posted>>

-----------------------------------------------------------------------------
(* Preparing *)

\* The status on the screen is admitted again when the button is pressed.
MayBegin == work = Idle /\ pending = NoReading /\ snapshot # NoReading /\ snapshot.by = binding

BeginPrepare ==
  /\ MayBegin
  /\ work' = [st |-> "prepare", by |-> binding]
  /\ UNCHANGED <<binding, backend, snapshot, pending, phrase, reads, serial, late, posted>>

\* The station issues the ticket, which replaces the one before.
PrepareServed ==
  /\ work.st = "prepare" /\ backend.ticket < MaxTicket
  /\ backend' = [backend EXCEPT !.ticket = @ + 1]
  /\ work' = [st |-> "prepared", by |-> work.by,
              context |-> backend.context, ticket |-> backend.ticket + 1]
  /\ late' = FALSE
  /\ UNCHANGED <<binding, snapshot, pending, phrase, reads, serial, posted>>

\* "Bind its resulting immutable identity snapshot": the status is read again.
PrepareAnswered ==
  /\ work.st = "prepared"
  /\ work' = [st |-> "review", by |-> work.by, context |-> work.context,
              ticket |-> work.ticket, asked |-> binding]
  /\ UNCHANGED <<binding, backend, snapshot, pending, phrase, reads, serial, late, posted>>

ReviewServed ==
  /\ work.st = "review"
  /\ work' = [st |-> "reviewed", by |-> work.by, context |-> work.context,
              ticket |-> work.ticket, is |-> StatusFor(work.asked)]
  /\ UNCHANGED <<binding, backend, snapshot, pending, phrase, reads, serial, late, posted>>

\* Challenge::matches: the ticket is for what that status says.
Matches(w) == w.is.context = w.context /\ w.is.ticket = w.ticket

ReviewOpens ==
  /\ work.st = "reviewed"
  /\ work.is.by = binding /\ work.by = work.is.by
  /\ Matches(work)
  /\ pending' = [by |-> work.by, context |-> work.context, ticket |-> work.ticket]
  /\ work' = Idle
  /\ UNCHANGED <<binding, backend, snapshot, phrase, reads, serial, late, posted>>

\* A query of one board, which only keeps the panel busy.
Query ==
  /\ MayBegin
  /\ work' = [st |-> "query", by |-> binding]
  /\ UNCHANGED <<binding, backend, snapshot, pending, phrase, reads, serial, late, posted>>

\* Any request may fail, and then nothing is opened or sent.
WorkFails ==
  /\ work # Idle
  /\ work' = Idle
  /\ UNCHANGED <<binding, backend, snapshot, pending, phrase, reads, serial, late, posted>>

-----------------------------------------------------------------------------
(* Confirming *)

TypePhrase ==
  /\ pending # NoReading /\ work = Idle
  /\ phrase' = TRUE
  /\ UNCHANGED <<binding, backend, snapshot, pending, work, reads, serial, late, posted>>

CancelDialog ==
  /\ pending # NoReading /\ work = Idle
  /\ pending' = NoReading /\ phrase' = FALSE
  /\ UNCHANGED <<binding, backend, snapshot, work, reads, serial, late, posted>>

\* What was clicked, with whether its context had ended by then (history).
Clicked == [st |-> "confirm", d |-> pending, asked |-> binding,
            stale |-> backend.context # pending.context]

\* Mutant: the dialog is read and stays.
ConfirmLeaves ==
  /\ pending # NoReading /\ phrase /\ work = Idle
  /\ work' = Clicked
  /\ UNCHANGED <<binding, backend, snapshot, pending, phrase, reads, serial, late, posted>>

\* The dialog is taken, so one click is one attempt; the status is read again.
Confirm ==
  /\ pending # NoReading /\ phrase /\ work = Idle
  /\ pending' = NoReading /\ phrase' = FALSE
  /\ work' = Clicked
  /\ UNCHANGED <<binding, backend, snapshot, reads, serial, late, posted>>

ConfirmServed ==
  /\ work.st = "confirm"
  /\ work' = [st |-> "checked", d |-> work.d, stale |-> work.stale, is |-> StatusFor(work.asked)]
  /\ UNCHANGED <<binding, backend, snapshot, pending, phrase, reads, serial, late, posted>>

Posts == /\ work' = [st |-> "posting", d |-> work.d]
         /\ posted' = Append(posted, [ticket |-> work.d.ticket, reviewed |-> work.d.by,
                                      by |-> binding, stale |-> work.stale])
         /\ UNCHANGED <<binding, backend, snapshot, pending, phrase, reads, serial, late>>

\* Mutant: the status on the screen is taken for the one just read.
SendConfirmByScreen ==
  /\ work.st = "checked" /\ snapshot # NoReading
  /\ Valid(work.d, snapshot)
  /\ Posts

\* An answer that does not bear the dialog out sends nothing (WorkFails).
SendConfirm ==
  /\ work.st = "checked" /\ work.is.by = binding
  /\ Valid(work.d, work.is)
  /\ Posts

\* The station carries the action out, once for a ticket, in the ticket's context.
ConfirmApplied ==
  /\ work.st = "posting" /\ backend.context < MaxContext
  /\ backend.ticket = work.d.ticket /\ backend.context = work.d.context
  /\ backend' = [backend EXCEPT !.context = @ + 1]
  /\ UNCHANGED <<binding, snapshot, pending, phrase, work, reads, serial, late, posted>>

\* The panel is left and shown again: its signals and its requests are new.
Reopen ==
  /\ snapshot' = NoReading /\ pending' = NoReading
  /\ phrase' = FALSE
  /\ work' = Idle
  /\ reads' = [k \in Readers |-> Unasked]
  /\ serial' = "poll"
  /\ UNCHANGED <<binding, backend, late, posted>>

-----------------------------------------------------------------------------

RecoveryNext ==
  \/ ContextChanges \/ TicketExpires
  \/ \E b \in Bindings : BindingChanges(b)
  \/ \E k \in Readers :
       Reads(k) \/ ReadServed(k) \/ ReadShown(k) \/ ReadFails(k) \/ ReadSuperseded(k)
  \/ BeginPrepare \/ PrepareServed \/ PrepareAnswered \/ ReviewServed \/ ReviewOpens
  \/ Query \/ WorkFails
  \/ TypePhrase \/ CancelDialog
  \/ Confirm \/ ConfirmServed \/ SendConfirm \/ ConfirmApplied
  \/ Reopen

RecoverySpec == RecoveryInit /\ [][RecoveryNext]_recoveryVars

-----------------------------------------------------------------------------
(* Properties *)

ReadType == {Unasked} \cup [st : {"asked"}, by : Bindings] \cup [st : {"served"}, is : Reading]

WorkType ==
  {Idle} \cup [st : {"prepare", "query"}, by : Bindings]
  \cup [st : {"prepared"}, by : Bindings, context : Contexts, ticket : Tickets]
  \cup [st : {"review"}, by : Bindings, context : Contexts, ticket : Tickets, asked : Bindings]
  \cup [st : {"reviewed"}, by : Bindings, context : Contexts, ticket : Tickets, is : Reading]
  \cup [st : {"confirm"}, d : Dialog, asked : Bindings, stale : BOOLEAN]
  \cup [st : {"checked"}, d : Dialog, stale : BOOLEAN, is : Reading]
  \cup [st : {"posting"}, d : Dialog]

\* Every variable holds a value of its kind.
RecoveryTypeOK ==
  /\ binding \in Bindings
  /\ backend \in [context : Contexts, ticket : {0} \cup Tickets]
  /\ snapshot \in Reading \cup {NoReading}
  /\ pending \in Dialog \cup {NoReading}
  /\ phrase \in BOOLEAN
  /\ work \in WorkType
  /\ reads \in [Readers -> ReadType]
  /\ serial \in Readers
  /\ late \in BOOLEAN
  /\ posted \in Seq([ticket : Tickets, reviewed : Bindings, by : Bindings, stale : BOOLEAN])

\* "Recovery is never retried automatically": a ticket is confirmed once, whether
\* the confirmation arrived, was refused or was lost, and whatever is clicked.
TicketOnce == \A i, j \in DOMAIN posted : posted[i].ticket = posted[j].ticket => i = j

\* What is confirmed is what was reviewed: by the same login at the same station,
\* and never in a context that had ended before the operator clicked.
ConfirmIsReviewed ==
  \A i \in DOMAIN posted : posted[i].by = posted[i].reviewed /\ ~posted[i].stale

\* The status on the screen never goes back, however the poll's and the button's
\* requests overtake each other.
ScreenNeverBack ==
  [][snapshot # NoReading /\ snapshot' # NoReading => snapshot'.context >= snapshot.context]_recoveryVars

=============================================================================
