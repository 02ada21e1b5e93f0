------------------------ MODULE SelfTestConfirmation ------------------------
(***************************************************************************)
(* The checkbox that unlocks the valve self-test (self_test_confirmation,  *)
(* its use in actions_tab and the shared status of sequence_progress_host):*)
(* a confirmation is posted to the station, which uses it up when a test   *)
(* runs, and the status poll tells whether it still holds.  Answers come   *)
(* late, the clock has equal readings, and the owner of the page changes.  *)
(*                                                                         *)
(* One unit of time is the 250 ms of the page's tick.  The monotonic clock *)
(* neither jumps nor is it ever not a number.                              *)
(***************************************************************************)
EXTENDS Integers

CONSTANTS
  Fresh,      \* FRESH_MS
  PostLimit,  \* the longest a post is waited for
  MaxTime,    \* bounds: the clock, the connections, the posts
  MaxSource,
  MaxSerial

Never == -1    \* no time, or one that is not finite
NoAnswer == "unknown"
Said(armed) == IF armed THEN "yes" ELSE "no"

VARIABLES
  time,        \* monotonic_now_ms
  dryStation,  \* the station in use, whether it is unlocked, when it last was
  source,      \* WS_EPOCH
  unlock,      \* the Model
  owner,       \* self_test_owner: none, current or lost
  observed,    \* the StatusObservation
  status,      \* the status request under way
  post,        \* the confirmation under way
  since        \* history: unlocked at some time since the last post ended?

dryVars == <<time, dryStation, source, unlock, owner, observed, status, post, since>>

Times == 0..MaxTime
Values == {"yes", "no", NoAnswer}
Quiescent == [st |-> "none"]

ASSUME SelfTestAssumption ==
  /\ Fresh \in Nat /\ PostLimit \in Nat
  /\ MaxTime \in Nat /\ MaxSource \in Nat /\ MaxSerial \in Nat

Model == [serial : 0..MaxSerial, source : 0..MaxSource, busy : BOOLEAN, confirmed : Values,
          floor : Times \cup {Never}, last : Times \cup {Never}, evidence : Times \cup {Never}]

DryInit ==
  /\ time = 0
  /\ \E armed \in BOOLEAN :
       dryStation = [place |-> 0, armed |-> armed, last |-> IF armed THEN 0 ELSE Never]
  /\ source = 0
  /\ unlock = [serial |-> 0, source |-> 0, busy |-> FALSE, confirmed |-> NoAnswer,
               floor |-> Never, last |-> Never, evidence |-> Never]
  /\ owner = "none"
  /\ observed = [source |-> 0, requested |-> Never, value |-> NoAnswer]
  /\ status = Quiescent /\ post = Quiescent
  /\ since = TRUE

-----------------------------------------------------------------------------
(* Model *)

Unknown(m) == [m EXCEPT !.confirmed = NoAnswer, !.evidence = Never]

Retire(m, s, t) ==
  [Unknown(m) EXCEPT !.source = s, !.busy = FALSE, !.floor = t, !.last = Never]

\* What held FRESH_MS ago is no longer known.
Kept(m, t) == IF m.evidence # Never /\ t - m.evidence > Fresh THEN Unknown(m) ELSE m

\* Mutant: an observation made at the time of the last post counts as newer.
NewerOrSame(m, o) == o.requested >= m.floor /\ (m.last = Never \/ o.requested > m.last)

\* "Equal times cannot establish that a GET started after this completion."
Newer(m, o) ==
  /\ m.floor = Never \/ o.requested > m.floor
  /\ m.last = Never \/ o.requested > m.last

\* An observation of another connection, or none, or one too old says nothing.
Learned(m, s, o, t) ==
  IF o.source = s /\ o.requested # Never /\ ~Newer(m, o) THEN m
  ELSE IF o.source # s \/ o.value = NoAnswer \/ t - o.requested > Fresh THEN Unknown(m)
  ELSE [m EXCEPT !.last = o.requested, !.evidence = o.requested, !.confirmed = o.value]

\* Mutant: what was once confirmed stays so until it is denied.
ObserveKeeps(m, s, o, t) ==
  LET r == IF m.source # s THEN Retire(m, s, t) ELSE m
  IN  IF r.busy THEN r ELSE Learned(r, s, o, t)

\* Nothing is learned while a post is under way.
Observe(m, s, o, t) ==
  LET r == IF m.source # s THEN Retire(m, s, t) ELSE m
  IN  IF r.busy THEN r ELSE Learned(Kept(r, t), s, o, t)

\* The effect of the page, run by its tick, an observation and a new connection.
Effect(s, o, t) ==
  /\ unlock' = Observe(IF owner = "lost" THEN Retire(unlock, s, t) ELSE unlock, s, o, t)
  /\ owner' = IF owner = "lost" THEN "none" ELSE owner

-----------------------------------------------------------------------------
(* The clock and the station *)

\* A post is given up after its time (PostFails).
Ticks ==
  /\ time < MaxTime
  /\ post.st # "none" => time < post.began + PostLimit
  /\ time' = time + 1
  /\ dryStation' = [dryStation EXCEPT !.last = IF dryStation.armed THEN time + 1 ELSE @]
  /\ Effect(source, observed, time + 1)
  /\ UNCHANGED <<source, observed, status, post, since>>

Armed(on) ==
  /\ dryStation' = [dryStation EXCEPT !.armed = on, !.last = IF on THEN time ELSE @]
  /\ since' = (since \/ on)

\* A test runs, or another console locks or unlocks.
StationChanges ==
  /\ \E on \in BOOLEAN \ {dryStation.armed} : Armed(on)
  /\ UNCHANGED <<time, source, unlock, owner, observed, status, post>>

\* A reconnect, to the same station or another one; every owner ends with it.
Reconnects(place) ==
  /\ source < MaxSource
  /\ source' = source + 1
  /\ place \in {dryStation.place, source + 1}
  /\ IF place = dryStation.place THEN UNCHANGED <<dryStation, since>>
     ELSE \E armed \in BOOLEAN :
            /\ dryStation' = [place |-> place, armed |-> armed,
                              last |-> IF armed THEN time ELSE Never]
            /\ since' = armed
  /\ unlock' = Observe(Retire(unlock, source + 1, time), source + 1, observed, time)
  /\ owner' = "none"
  /\ UNCHANGED <<time, observed, status, post>>

\* The login, the link or the stored data changed under the request's owner.
OwnerLost ==
  /\ owner = "current"
  /\ owner' = "lost"
  /\ UNCHANGED <<time, dryStation, source, unlock, observed, status, post, since>>

-----------------------------------------------------------------------------
(* The shared status *)

StatusBegins ==
  /\ status = Quiescent
  /\ status' = [st |-> "asked", source |-> source, place |-> dryStation.place, requested |-> time]
  /\ UNCHANGED <<time, dryStation, source, unlock, owner, observed, post, since>>

StatusServed ==
  /\ status.st = "asked" /\ status.place = dryStation.place
  /\ status' = [st |-> "served", source |-> status.source, requested |-> status.requested,
                value |-> Said(dryStation.armed)]
  /\ UNCHANGED <<time, dryStation, source, unlock, owner, observed, post, since>>

Observes(o) == /\ observed' = o
               /\ status' = Quiescent
               /\ Effect(source, o, time)
               /\ UNCHANGED <<time, dryStation, source, post, since>>

StatusEnds ==
  /\ status.st = "served" /\ status.source = source
  /\ Observes([source |-> source, requested |-> status.requested, value |-> status.value])

StatusFails ==
  /\ status.st = "asked" /\ status.source = source
  /\ Observes([source |-> source, requested |-> Never, value |-> NoAnswer])

StatusSuperseded ==
  /\ status.st # "none" /\ status.source # source
  /\ status' = Quiescent
  /\ UNCHANGED <<time, dryStation, source, unlock, owner, observed, post, since>>

-----------------------------------------------------------------------------
(* The checkbox *)

\* Model::begin; the exhausted serial is the bound.
Begin(desired) ==
  /\ ~unlock.busy /\ unlock.serial < MaxSerial
  /\ unlock' = LET m == IF unlock.source # source THEN Retire(unlock, source, time) ELSE unlock
               IN  [Unknown(m) EXCEPT !.serial = @ + 1, !.busy = TRUE]
  /\ owner' = "current"
  /\ post' = [st |-> "asked", serial |-> unlock.serial + 1, source |-> source,
              place |-> dryStation.place, began |-> time, desired |-> desired]
  /\ UNCHANGED <<time, dryStation, source, observed, status, since>>

PostServed ==
  /\ post.st = "asked" /\ post.place = dryStation.place
  /\ Armed(post.desired)
  /\ post' = [post EXCEPT !.st = "served"]
  /\ UNCHANGED <<time, source, unlock, owner, observed, status>>

\* Model::owns, and the owner of the request.
Owned == unlock.serial = post.serial /\ unlock.source = post.source /\ owner = "current"

Finish(confirmed, evidence) ==
  /\ unlock.busy /\ Owned
  /\ unlock' = [unlock EXCEPT !.busy = FALSE, !.floor = time, !.confirmed = confirmed,
                              !.evidence = evidence]
  /\ post' = Quiescent
  /\ UNCHANGED <<time, dryStation, source, owner, observed, status>>

\* Accepted, which unlocked the station at some time before now, or locked.
PostEnds ==
  /\ post.st = "served"
  /\ Finish(Said(post.desired), time)
  /\ since' = (post.desired \/ dryStation.armed)

\* Refused, lost or given up: the station may have taken it all the same.
PostFails ==
  /\ post.st # "none"
  /\ Finish(NoAnswer, Never)
  /\ since' = dryStation.armed

\* Its owner is gone, and with it the task that waits.
PostAbandoned ==
  /\ post.st # "none" /\ ~(unlock.busy /\ Owned)
  /\ post' = Quiescent
  /\ UNCHANGED <<time, dryStation, source, unlock, owner, observed, status, since>>

-----------------------------------------------------------------------------

DryNext ==
  \/ Ticks \/ StationChanges \/ OwnerLost
  \/ \E p \in 0..MaxSource : Reconnects(p)
  \/ StatusBegins \/ StatusServed \/ StatusEnds \/ StatusFails \/ StatusSuperseded
  \/ \E d \in BOOLEAN : Begin(d)
  \/ PostServed \/ PostEnds \/ PostFails \/ PostAbandoned

DrySpec == DryInit /\ [][DryNext]_dryVars

-----------------------------------------------------------------------------
(* Properties *)

RequestType ==
  {Quiescent}
  \cup [st : {"asked"}, source : 0..MaxSource, place : 0..MaxSource, requested : Times]
  \cup [st : {"served"}, source : 0..MaxSource, requested : Times, value : Values]

PostType ==
  {Quiescent}
  \cup [st : {"asked", "served"}, serial : 0..MaxSerial, source : 0..MaxSource,
        place : 0..MaxSource, began : Times, desired : BOOLEAN]

\* Every variable holds a value of its kind.
SelfTestTypeOK ==
  /\ time \in Times
  /\ dryStation \in [place : 0..MaxSource, armed : BOOLEAN, last : Times \cup {Never}]
  /\ source \in 0..MaxSource
  /\ unlock \in Model
  /\ owner \in {"none", "current", "lost"}
  /\ observed \in [source : 0..MaxSource, requested : Times \cup {Never}, value : Values]
  /\ status \in RequestType
  /\ post \in PostType
  /\ since \in BOOLEAN

\* The self-test is offered as unlocked only if the station in use was unlocked
\* within the freshness of an observation and the time of a post, so a use of
\* the confirmation elsewhere shows soon even when the polls stop.
UnlockIsRecent ==
  unlock.confirmed = "yes" =>
    dryStation.last # Never /\ time - dryStation.last <= Fresh + PostLimit

\* An answer of before the operator locked never unlocks: after a lock or a
\* failed attempt the station has been unlocked anew whenever it is shown so.
OldAnswerNeverUnlocks == unlock.confirmed = "yes" => since

=============================================================================
