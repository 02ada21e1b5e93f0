----------------------------- MODULE PagesProofs -----------------------------
(***************************************************************************)
(* Proofs about five pages that share nothing: SelfTestConfirmation,       *)
(* BoardRecovery and FirmwareUpdate, on which an operator confirms what a  *)
(* board or the station is to do, CalibrationEditor, on which points are   *)
(* edited, and SequenceProgress, on which the runs of the station are      *)
(* followed.  Each part states the invariant of its page first.            *)
(***************************************************************************)
EXTENDS SelfTestConfirmation, BoardRecovery, FirmwareUpdate, CalibrationEditor,
        SequenceProgress, FiniteSetTheorems, WellFoundedInduction, TLAPS

-----------------------------------------------------------------------------
(***************************************************************************)
(* SelfTestConfirmation: its types, and that an unlocked self-test was     *)
(* unlocked a short time ago and since the last attempt.                   *)
(***************************************************************************)

\* What the model holds is borne out by the station: last is when the station
\* was unlocked, sn whether it was since the last post.
Founded(m, t, last, sn) ==
  /\ m.floor <= t /\ m.evidence <= t
  /\ m.busy => m.confirmed = NoAnswer
  /\ m.confirmed = "yes" =>
       m.evidence # Never /\ last # Never /\ last + PostLimit >= m.evidence /\ sn

\* It is as fresh as an observation may be.
NotStale(m, t) == m.confirmed = "yes" => t - m.evidence <= Fresh

\* An observation of the connection s is borne out in the same way, if it was
\* asked for after what the model goes by.
Told(o, s, floor, t, last, sn) ==
  /\ o.requested <= t
  /\ o.source = s /\ o.value = "yes" =>
       o.requested # Never /\ last >= o.requested /\ (o.requested > floor => sn)

PostKept ==
  post.st # "none" =>
    /\ post.began <= time /\ time <= post.began + PostLimit
    /\ post.source <= source
    /\ post.st = "served" /\ post.desired /\ post.source = source =>
         dryStation.last >= post.began

StatusKept ==
  /\ status.st # "none" => status.source <= source /\ status.requested <= time
  /\ status.st = "served" =>
       Told(status, source, unlock.floor, time, dryStation.last, since)

DryInv ==
  /\ SelfTestTypeOK
  /\ unlock.source = source
  /\ dryStation.last <= time /\ (dryStation.armed => dryStation.last = time /\ since)
  /\ Founded(unlock, time, dryStation.last, since) /\ NotStale(unlock, time)
  /\ observed.source <= source
  /\ Told(observed, source, unlock.floor, time, dryStation.last, since)
  /\ StatusKept /\ PostKept

-----------------------------------------------------------------------------
(* Model::observe and the page's effect *)

\* Forgetting the answer needs no ground.
LEMMA UnknownFounded ==
  ASSUME NEW m \in Model, NEW t \in Times, NEW last, NEW sn, m.floor <= t
  PROVE  /\ Unknown(m) \in Model
         /\ Unknown(m).source = m.source /\ Unknown(m).floor = m.floor
         /\ Unknown(m).busy = m.busy /\ Unknown(m).confirmed = NoAnswer
         /\ Founded(Unknown(m), t, last, sn) /\ NotStale(Unknown(m), t)
<1>1. /\ Unknown(m) \in Model
      /\ Unknown(m).source = m.source /\ Unknown(m).floor = m.floor
      /\ Unknown(m).busy = m.busy /\ Unknown(m).confirmed = NoAnswer
  BY DEF Unknown, Model, Never, NoAnswer, Values
<1>2. QED
  BY <1>1, SelfTestAssumption DEF Founded, NotStale, NoAnswer, Unknown, Model, Times, Never

\* A retired model is founded on nothing.
LEMMA RetireFounded ==
  ASSUME NEW m \in Model, NEW s \in 0..MaxSource, NEW t \in Times, NEW last, NEW sn
  PROVE  /\ Retire(m, s, t) \in Model
         /\ Retire(m, s, t).source = s /\ Retire(m, s, t).floor = t
         /\ Retire(m, s, t).confirmed = NoAnswer /\ ~Retire(m, s, t).busy
         /\ Founded(Retire(m, s, t), t, last, sn)
<1> DEFINE u == Unknown(m)
<1>1. u \in Model /\ u.confirmed = NoAnswer /\ u.evidence = Never
  BY DEF Unknown, Model, Never, NoAnswer, Values
<1>2. Retire(m, s, t) = [u EXCEPT !.source = s, !.busy = FALSE, !.floor = t, !.last = Never]
  BY DEF Retire
<1> HIDE DEF u
<1>3. /\ Retire(m, s, t) \in Model
      /\ Retire(m, s, t).source = s /\ Retire(m, s, t).floor = t
      /\ Retire(m, s, t).confirmed = NoAnswer /\ ~Retire(m, s, t).busy
      /\ Retire(m, s, t).evidence = Never
  BY <1>1, <1>2 DEF Model, Never
<1>4. QED
  BY <1>3, SelfTestAssumption DEF Founded, NoAnswer, Times, Never

\* For a model of the connection, what is observed of it keeps it founded.
LEMMA ObserveFounded ==
  ASSUME NEW m \in Model, NEW s \in 0..MaxSource, m.source = s,
         NEW t \in Times, NEW last \in Times \cup {Never}, NEW sn \in BOOLEAN,
         NEW o \in [source : 0..MaxSource, requested : Times \cup {Never}, value : Values],
         Founded(m, t, last, sn),
         Told(o, s, m.floor, t, last, sn)
  PROVE  LET r == Observe(m, s, o, t)
         IN  /\ r \in Model /\ r.source = s /\ r.floor = m.floor
             /\ Founded(r, t, last, sn) /\ NotStale(r, t)
<1> DEFINE Fine(x) == /\ x \in Model /\ x.source = s /\ x.floor = m.floor
                      /\ Founded(x, t, last, sn) /\ NotStale(x, t)
           k == Kept(m, t)
           r == Learned(k, s, o, t)
           n == [k EXCEPT !.last = o.requested, !.evidence = o.requested, !.confirmed = o.value]
<1>0. m.floor <= t
  BY DEF Founded
<1>1. Fine(k) /\ k.busy = m.busy
  <2>1. CASE k = m
    BY <2>1, SelfTestAssumption DEF Kept, Unknown, Founded, NotStale, Model, Times, Never,
       NoAnswer, Values
  <2>2. CASE k = Unknown(m)
    BY <1>0, <2>2, UnknownFounded
  <2>3. QED
    BY <2>1, <2>2 DEF Kept
<1>2. CASE m.busy
  BY <1>2 DEF Observe, Founded, NotStale, NoAnswer
<1>3. CASE ~m.busy
  <2>1. Observe(m, s, o, t) = r
    BY <1>3 DEF Observe
  <2>2. CASE r = k
    BY <2>1, <2>2, <1>1
  <2>3. CASE r = Unknown(k)
    <3>1. Fine(Unknown(k))
      <4> HIDE DEF k
      <4> QED BY <1>0, <1>1, UnknownFounded
    <3>2. QED
      BY <2>1, <2>3, <3>1
  <2>4. CASE /\ r = n
             /\ o.source = s /\ t - o.requested <= Fresh
             /\ o.requested = Never \/ Newer(k, o)
    <3>1. o.value = "yes" => last >= o.requested /\ o.requested # Never /\ sn
      <4> HIDE DEF k
      <4> QED BY <2>4, <1>1 DEF Told, Newer, Never, Model, Times
    <3>2. /\ n \in Model /\ n.source = s /\ n.floor = m.floor /\ ~n.busy
          /\ n.evidence = o.requested /\ n.confirmed = o.value
      <4> HIDE DEF k
      <4> QED BY <1>1, <1>3 DEF Model
    <3>3. Fine(n)
      <4> HIDE DEF n
      <4> QED BY <1>0, <2>4, <3>1, <3>2, SelfTestAssumption DEF Founded, NotStale, Told, Never, Times
    <3>4. QED
      BY <2>1, <2>4, <3>3
  <2>5. QED
    BY <2>2, <2>3, <2>4, SelfTestAssumption DEF Learned, Times, Never
<1>4. QED
  BY <1>2, <1>3

-----------------------------------------------------------------------------
(* Every step keeps the invariant *)

\* What is told about the station stays true of a later time, of a station
\* unlocked later, and of a model that goes by something later.
LEMMA ToldLater ==
  ASSUME NEW o, o.requested \in Times \cup {Never}, NEW s,
         NEW f \in Times \cup {Never}, NEW g \in Times \cup {Never}, f <= g,
         NEW t \in Times, NEW u \in Times, t <= u,
         NEW last \in Times \cup {Never}, NEW then \in Times \cup {Never},
         last <= then \/ then = u,
         NEW sn \in BOOLEAN, NEW sm \in BOOLEAN, sn => sm,
         Told(o, s, f, t, last, sn)
  PROVE  Told(o, s, g, u, then, sm)
BY SelfTestAssumption DEF Told, Times, Never

\* What is founded stays so as time goes on.
LEMMA FoundedLater ==
  ASSUME NEW m \in Model, NEW t \in Times, NEW u \in Times, t <= u,
         NEW last \in Times \cup {Never}, NEW then \in Times \cup {Never},
         last <= then \/ then = u,
         NEW sn \in BOOLEAN, NEW sm \in BOOLEAN, sn => sm,
         Founded(m, t, last, sn)
  PROVE  Founded(m, u, then, sm)
BY SelfTestAssumption DEF Founded, Model, Times, Never

\* The effect of the page, at a time not before now, for what the station was and
\* is: the clock ticks, or an observation arrives.
LEMMA EffectKeeps ==
  ASSUME SelfTestTypeOK, unlock.source = source,
         NEW t \in Times, NEW last \in Times \cup {Never},
         NEW o \in [source : 0..MaxSource, requested : Times \cup {Never}, value : Values],
         Founded(unlock, t, last, since),
         Told(o, source, unlock.floor, t, last, since),
         Effect(source, o, t)
  PROVE  /\ unlock' \in Model /\ owner' \in {"none", "current", "lost"}
         /\ unlock'.source = source
         /\ unlock'.floor \in {unlock.floor, t} /\ unlock.floor <= unlock'.floor
         /\ Founded(unlock', t, last, since) /\ NotStale(unlock', t)
<1> DEFINE m == IF owner = "lost" THEN Retire(unlock, source, t) ELSE unlock
<1>1. /\ unlock \in Model /\ source \in 0..MaxSource /\ since \in BOOLEAN
      /\ owner \in {"none", "current", "lost"}
  BY DEF SelfTestTypeOK
<1>2. unlock.floor <= t /\ unlock.floor \in Times \cup {Never}
  BY <1>1 DEF Founded, Model
<1>3. /\ m \in Model /\ m.source = source
      /\ m.floor \in {unlock.floor, t} /\ unlock.floor <= m.floor
      /\ Founded(m, t, last, since)
  BY <1>1, <1>2, RetireFounded, SelfTestAssumption DEF Times, Never
<1>4. Told(o, source, m.floor, t, last, since)
  BY <1>1, <1>2, <1>3, ToldLater, SelfTestAssumption DEF Times, Never
<1>5. unlock' = Observe(m, source, o, t) /\ owner' \in {"none", "current", "lost"}
  BY <1>1 DEF Effect
<1> HIDE DEF m
<1>6. QED
  BY <1>1, <1>3, <1>4, <1>5, ObserveFounded

\* The model starts locked.
LEMMA DryStart == DryInit => DryInv
BY SelfTestAssumption
DEF DryInit, DryInv, SelfTestTypeOK, Founded, NotStale, Told, StatusKept, PostKept, Model,
    Times, Never, NoAnswer, Values, Quiescent, RequestType, PostType

\* The clock, and with it the page's effect.
LEMMA TicksKeep == DryInv /\ Ticks => DryInv'
<1> SUFFICES ASSUME DryInv, Ticks PROVE DryInv'
  OBVIOUS
<1> DEFINE t == time + 1
           then == dryStation'.last
<1>1. /\ SelfTestTypeOK /\ unlock \in Model /\ since \in BOOLEAN
      /\ time \in Times /\ t \in Times /\ time <= t /\ time' = t
      /\ dryStation.last \in Times \cup {Never} /\ unlock.floor \in Times \cup {Never}
      /\ observed.requested \in Times \cup {Never}
  BY SelfTestAssumption DEF DryInv, SelfTestTypeOK, Ticks, Times, Model
<1>2. /\ dryStation' \in [place : 0..MaxSource, armed : BOOLEAN, last : Times \cup {Never}]
      /\ dryStation'.armed = dryStation.armed /\ (dryStation.armed => then = t)
      /\ dryStation.last <= then \/ then = t
  BY <1>1, SelfTestAssumption DEF SelfTestTypeOK, Ticks, Times, Never
<1>3. then \in Times \cup {Never}
  BY <1>2
<1>4. Founded(unlock, t, then, since)
  BY <1>1, <1>2, <1>3, FoundedLater DEF DryInv
<1>5. Told(observed, source, unlock.floor, t, then, since)
  BY <1>1, <1>2, <1>3, ToldLater DEF DryInv, Times, Never
<1>6. /\ unlock' \in Model /\ owner' \in {"none", "current", "lost"}
      /\ unlock'.source = source
      /\ unlock'.floor \in {unlock.floor, t} /\ unlock.floor <= unlock'.floor
      /\ Founded(unlock', t, then, since) /\ NotStale(unlock', t)
  BY <1>1, <1>3, <1>4, <1>5, EffectKeeps DEF DryInv, SelfTestTypeOK, Ticks
<1>7. UNCHANGED <<source, observed, status, post, since>>
  BY DEF Ticks
<1>8. SelfTestTypeOK'
  BY <1>1, <1>2, <1>6, <1>7 DEF SelfTestTypeOK
<1>9. \A o : o.requested \in Times /\ Told(o, source, unlock.floor, time, dryStation.last, since)
        => Told(o, source, unlock'.floor, t, then, since)
  BY <1>1, <1>2, <1>3, <1>6, ToldLater
<1>10. Told(observed, source, unlock'.floor, t, then, since)
  BY <1>1, <1>2, <1>3, <1>6, ToldLater DEF DryInv
<1>11. StatusKept'
  <2>1. status.st # "none" => status.requested \in Times
    BY <1>1 DEF SelfTestTypeOK, RequestType, Quiescent
  <2>2. CASE status.st = "served"
    BY <1>1, <1>7, <1>9, <2>1, <2>2, SelfTestAssumption DEF DryInv, StatusKept, Times
  <2>3. CASE status.st # "served"
    BY <1>1, <1>7, <2>1, <2>3, SelfTestAssumption DEF DryInv, StatusKept, Times
  <2>4. QED
    BY <2>2, <2>3
<1>12. PostKept'
  <2>1. post.st # "none" => post.began \in Times
    BY <1>1 DEF SelfTestTypeOK, PostType, Quiescent
  <2>2. post.st # "none" => time < post.began + PostLimit
    BY DEF Ticks
  <2>3. QED
    BY <1>1, <1>2, <1>3, <1>7, <2>1, <2>2, SelfTestAssumption DEF DryInv, PostKept, Times,
       Never
<1>13. then <= t /\ (dryStation'.armed => then = t /\ since)
  BY <1>1, <1>2, SelfTestAssumption DEF DryInv, Ticks, Times, Never
<1>14. QED
  BY <1>1, <1>6, <1>7, <1>8, <1>10, <1>11, <1>12, <1>13 DEF DryInv

\* The station is locked or unlocked, by a post or from elsewhere: nothing that
\* the page holds becomes false.
LEMMA ArmedKeeps ==
  ASSUME DryInv, NEW on \in BOOLEAN, Armed(on), UNCHANGED <<time, source, unlock, observed, status>>
  PROVE  /\ dryStation' \in [place : 0..MaxSource, armed : BOOLEAN, last : Times \cup {Never}]
         /\ dryStation'.armed = on
         /\ dryStation'.last \in Times \cup {Never} /\ dryStation.last <= dryStation'.last
         /\ on => dryStation'.last = time
         /\ since' \in BOOLEAN /\ (since \/ on => since')
         /\ Founded(unlock', time', dryStation'.last, since') /\ NotStale(unlock', time')
         /\ Told(observed', source', unlock'.floor, time', dryStation'.last, since')
         /\ StatusKept'
<1>1. /\ SelfTestTypeOK /\ unlock \in Model /\ since \in BOOLEAN /\ time \in Times
      /\ dryStation \in [place : 0..MaxSource, armed : BOOLEAN, last : Times \cup {Never}]
      /\ unlock.floor \in Times \cup {Never} /\ observed.requested \in Times \cup {Never}
  BY DEF DryInv, SelfTestTypeOK, Model
<1>2. dryStation.last <= time
  BY DEF DryInv
<1>3. /\ dryStation' \in [place : 0..MaxSource, armed : BOOLEAN, last : Times \cup {Never}]
      /\ dryStation'.armed = on
      /\ dryStation'.last \in Times \cup {Never} /\ dryStation.last <= dryStation'.last
      /\ on => dryStation'.last = time
      /\ since' \in BOOLEAN /\ (since \/ on => since')
  <2>1. dryStation' = [dryStation EXCEPT !.armed = on, !.last = IF on THEN time ELSE dryStation.last]
    BY DEF Armed
  <2>2. since' \in BOOLEAN /\ (since \/ on => since')
    BY DEF Armed
  <2>3. (IF on THEN time ELSE dryStation.last) \in Times \cup {Never}
    BY <1>1
  <2>4. dryStation.last <= (IF on THEN time ELSE dryStation.last)
    BY <1>1, <1>2, SelfTestAssumption DEF Times, Never
  <2>5. QED
    BY <1>1, <2>1, <2>2, <2>3, <2>4
<1>4. Founded(unlock', time', dryStation'.last, since') /\ NotStale(unlock', time')
  <2>1. Founded(unlock, time, dryStation'.last, since')
    <3>1. time <= time /\ Founded(unlock, time, dryStation.last, since)
      BY <1>1, SelfTestAssumption DEF DryInv, Times
    <3>2. QED
      BY <1>1, <1>3, <3>1, FoundedLater
  <2>2. QED
    BY <2>1 DEF DryInv
<1>5. Told(observed', source', unlock'.floor, time', dryStation'.last, since')
  BY <1>1, <1>3, ToldLater, SelfTestAssumption DEF DryInv, Times, Never
<1>6. StatusKept'
  BY <1>1, <1>3, ToldLater, SelfTestAssumption
  DEF DryInv, StatusKept, SelfTestTypeOK, RequestType, Quiescent, Times, Never
<1>7. QED
  BY <1>3, <1>4, <1>5, <1>6

\* An observation arrives; nothing was told before that it does not replace.
LEMMA ObservesKeeps ==
  ASSUME DryInv, NEW o, Observes(o),
         o \in [source : 0..MaxSource, requested : Times \cup {Never}, value : Values],
         o.source = source, Told(o, source, unlock.floor, time, dryStation.last, since)
  PROVE  DryInv'
<1>1. /\ SelfTestTypeOK /\ unlock \in Model /\ since \in BOOLEAN /\ time \in Times
      /\ dryStation.last \in Times \cup {Never} /\ unlock.floor \in Times \cup {Never}
  BY DEF DryInv, SelfTestTypeOK, Model
<1>2. /\ UNCHANGED <<time, dryStation, source, post, since>>
      /\ observed' = o /\ status' = Quiescent /\ Effect(source, o, time)
  BY DEF Observes
<1>3. /\ unlock' \in Model /\ owner' \in {"none", "current", "lost"}
      /\ unlock'.source = source
      /\ unlock'.floor \in {unlock.floor, time} /\ unlock.floor <= unlock'.floor
      /\ Founded(unlock', time, dryStation.last, since) /\ NotStale(unlock', time)
  BY <1>1, <1>2, EffectKeeps DEF DryInv
<1>4. /\ unlock'.floor \in Times \cup {Never} /\ o.requested \in Times \cup {Never}
      /\ time <= time /\ dryStation.last <= dryStation.last
  BY <1>1, <1>3, SelfTestAssumption DEF Times, Never
<1>5. Told(o, source, unlock'.floor, time, dryStation.last, since)
  BY <1>1, <1>3, <1>4, ToldLater
<1>6. SelfTestTypeOK'
  BY <1>1, <1>2, <1>3 DEF SelfTestTypeOK, RequestType
<1>7. StatusKept' /\ PostKept'
  BY <1>2 DEF DryInv, StatusKept, PostKept, Quiescent
<1>8. QED
  BY <1>1, <1>2, <1>3, <1>5, <1>6, <1>7, SelfTestAssumption DEF DryInv

\* A new connection: what was asked of the one before says nothing more.
LEMMA ReconnectsKeep ==
  ASSUME DryInv, NEW place \in 0..MaxSource, Reconnects(place)
  PROVE  DryInv'
<1> DEFINE m == Retire(unlock, source + 1, time)
<1>1. /\ SelfTestTypeOK /\ unlock \in Model /\ since \in BOOLEAN /\ time \in Times
      /\ source \in 0..MaxSource /\ source + 1 \in 0..MaxSource
      /\ dryStation \in [place : 0..MaxSource, armed : BOOLEAN, last : Times \cup {Never}]
      /\ observed \in [source : 0..MaxSource, requested : Times \cup {Never}, value : Values]
      /\ observed.source <= source /\ observed.requested <= time
  BY SelfTestAssumption DEF DryInv, SelfTestTypeOK, Reconnects, Told
<1>2. /\ source' = source + 1 /\ owner' = "none"
      /\ unlock' = Observe(m, source + 1, observed, time)
      /\ UNCHANGED <<time, observed, status, post>>
  BY DEF Reconnects
<1>3. /\ dryStation' \in [place : 0..MaxSource, armed : BOOLEAN, last : Times \cup {Never}]
      /\ since' \in BOOLEAN
      /\ dryStation'.last <= time /\ (dryStation'.armed => dryStation'.last = time /\ since')
  <2>1. CASE place = dryStation.place
    BY <1>1, <2>1 DEF Reconnects, DryInv
  <2>2. CASE place # dryStation.place
    <3>1. PICK armed \in BOOLEAN :
            /\ dryStation' = [place |-> place, armed |-> armed,
                              last |-> IF armed THEN time ELSE Never]
            /\ since' = armed
      BY <2>2 DEF Reconnects
    <3>2. CASE armed
      BY <1>1, <3>1, <3>2, SelfTestAssumption DEF Times
    <3>3. CASE ~armed
      BY <1>1, <3>1, <3>3, SelfTestAssumption DEF Times, Never
    <3>4. QED
      BY <3>2, <3>3
  <2>3. QED
    BY <2>1, <2>2
<1>4. /\ m \in Model /\ m.source = source + 1 /\ m.floor = time
      /\ Founded(m, time, dryStation'.last, since')
  BY <1>1, RetireFounded
<1>5. \A f : Told(observed, source + 1, f, time, dryStation'.last, since')
  BY <1>1 DEF Told
<1>6. /\ unlock' \in Model /\ unlock'.source = source + 1
      /\ Founded(unlock', time, dryStation'.last, since') /\ NotStale(unlock', time)
  <2> HIDE DEF m
  <2>1. dryStation'.last \in Times \cup {Never}
    BY <1>3
  <2>2. Told(observed, source + 1, m.floor, time, dryStation'.last, since')
    BY <1>5
  <2>3. QED
    BY <1>1, <1>2, <1>3, <1>4, <2>1, <2>2, ObserveFounded
<1>7. SelfTestTypeOK'
  BY <1>1, <1>2, <1>3, <1>6 DEF SelfTestTypeOK
<1>8. StatusKept'
  BY <1>1, <1>2 DEF DryInv, StatusKept, Told, SelfTestTypeOK, RequestType, Quiescent
<1>9. PostKept'
  BY <1>1, <1>2 DEF DryInv, PostKept, SelfTestTypeOK, PostType, Quiescent
<1>10. observed'.source <= source'
  BY <1>1, <1>2
<1>11. QED
  BY <1>2, <1>3, <1>5, <1>6, <1>7, <1>8, <1>9, <1>10 DEF DryInv

\* The checkbox: a post begins, and nothing is known until it ends.
LEMMA BeginKeeps ==
  ASSUME DryInv, NEW desired \in BOOLEAN, Begin(desired)
  PROVE  DryInv'
<1> DEFINE u == Unknown(unlock)
<1>1. /\ SelfTestTypeOK /\ unlock \in Model /\ time \in Times /\ source \in 0..MaxSource
      /\ unlock.source = source /\ unlock.serial < MaxSerial /\ unlock.floor <= time
  BY DEF DryInv, SelfTestTypeOK, Begin, Founded
<1>2. /\ u \in Model /\ u.source = source /\ u.floor = unlock.floor /\ u.confirmed = NoAnswer
      /\ u.evidence = Never /\ u.serial = unlock.serial
  BY <1>1 DEF Unknown, Model, Never, NoAnswer, Values
<1>3. unlock' = [u EXCEPT !.serial = @ + 1, !.busy = TRUE]
  BY <1>1 DEF Begin
<1> HIDE DEF u
<1>4. /\ unlock' \in Model /\ unlock'.source = source /\ unlock'.floor = unlock.floor
      /\ unlock'.confirmed = NoAnswer /\ unlock'.evidence = Never
  <2>1. u.serial + 1 \in 0..MaxSerial
    BY <1>1, <1>2, SelfTestAssumption DEF Model
  <2>2. QED
    BY <1>2, <1>3, <2>1 DEF Model
<1>5. post' \in PostType /\ owner' = "current"
  BY <1>1, SelfTestAssumption DEF Begin, PostType, Model, SelfTestTypeOK
<1>6. UNCHANGED <<time, dryStation, source, observed, status, since>>
  BY DEF Begin
<1>7. SelfTestTypeOK'
  BY <1>1, <1>4, <1>5, <1>6 DEF SelfTestTypeOK
<1>8. Founded(unlock', time, dryStation.last, since) /\ NotStale(unlock', time)
  BY <1>1, <1>4, SelfTestAssumption DEF Founded, NotStale, NoAnswer, Never, Times
<1>9. PostKept'
  BY <1>1, <1>6, SelfTestAssumption DEF Begin, PostKept, Times
<1>10. Told(observed', source', unlock'.floor, time', dryStation'.last, since') /\ StatusKept'
  BY <1>4, <1>6 DEF DryInv, StatusKept, Told
<1>11. QED
  BY <1>4, <1>6, <1>7, <1>8, <1>9, <1>10 DEF DryInv

\* A post ends while its owner lasts: what it was told holds from its beginning on.
LEMMA FinishKeeps ==
  ASSUME DryInv, post.st # "none",
         NEW confirmed \in Values, NEW evidence \in {Never, time},
         Finish(confirmed, evidence),
         confirmed = "yes" => evidence = time /\ post.desired /\ post.st = "served",
         since' \in BOOLEAN,
         confirmed = "yes" \/ dryStation.armed => since'
  PROVE  DryInv'
<1>1. /\ SelfTestTypeOK /\ unlock \in Model /\ time \in Times /\ PostKept
      /\ post.source = source /\ post.began \in Times
      /\ dryStation.last \in Times \cup {Never}
  BY DEF DryInv, SelfTestTypeOK, Finish, Owned, PostType, Quiescent
<1>2. /\ unlock' \in Model /\ unlock'.source = source /\ unlock'.floor = time
      /\ ~unlock'.busy /\ unlock'.confirmed = confirmed /\ unlock'.evidence = evidence
      /\ post' = Quiescent
      /\ UNCHANGED <<time, dryStation, source, owner, observed, status>>
  BY <1>1 DEF Finish, Model, DryInv
<1>3. SelfTestTypeOK'
  BY <1>1, <1>2 DEF SelfTestTypeOK, PostType
<1>4. Founded(unlock', time, dryStation.last, since') /\ NotStale(unlock', time)
  <2>1. evidence <= time /\ time <= time
    BY <1>1, SelfTestAssumption DEF Never, Times
  <2>2. CASE confirmed = "yes"
    <3>1. dryStation.last >= post.began /\ time <= post.began + PostLimit
      BY <1>1, <2>2 DEF PostKept
    <3>2. QED
      BY <1>1, <1>2, <2>1, <2>2, <3>1, SelfTestAssumption DEF Founded, NotStale, Times,
         Never
  <2>3. CASE confirmed # "yes"
    BY <1>2, <2>1, <2>3 DEF Founded, NotStale
  <2>4. QED
    BY <2>2, <2>3
<1>5. Told(observed', source', unlock'.floor, time', dryStation'.last, since')
  BY <1>1, <1>2, SelfTestAssumption DEF DryInv, Told, SelfTestTypeOK, Times, Never
<1>6. StatusKept'
  BY <1>1, <1>2, SelfTestAssumption
  DEF DryInv, StatusKept, Told, SelfTestTypeOK, RequestType, Quiescent, Times, Never
<1>7. PostKept'
  BY <1>2 DEF PostKept, Quiescent
<1>8. QED
  BY <1>2, <1>3, <1>4, <1>5, <1>6, <1>7 DEF DryInv

\* Every step keeps the invariant.
LEMMA DryStep == DryInv /\ [DryNext]_dryVars => DryInv'
<1> SUFFICES ASSUME DryInv, [DryNext]_dryVars PROVE DryInv'
  OBVIOUS
<1>0. /\ SelfTestTypeOK /\ unlock \in Model /\ since \in BOOLEAN /\ time \in Times
      /\ dryStation \in [place : 0..MaxSource, armed : BOOLEAN, last : Times \cup {Never}]
      /\ StatusKept /\ PostKept
  BY DEF DryInv, SelfTestTypeOK
<1>1. CASE Ticks
  BY <1>1, TicksKeep
<1>2. CASE StationChanges
  <2>0. PICK on \in BOOLEAN : on # dryStation.armed /\ Armed(on)
    BY <1>2 DEF StationChanges
  <2>1. UNCHANGED <<time, source, unlock, owner, observed, status, post>>
    BY <1>2 DEF StationChanges
  <2>2. /\ dryStation' \in [place : 0..MaxSource, armed : BOOLEAN, last : Times \cup {Never}]
        /\ dryStation'.armed = on
        /\ dryStation.last <= dryStation'.last
        /\ on => dryStation'.last = time /\ since'
        /\ since' \in BOOLEAN
        /\ Founded(unlock', time', dryStation'.last, since') /\ NotStale(unlock', time')
        /\ Told(observed', source', unlock'.floor, time', dryStation'.last, since')
        /\ StatusKept'
    BY <1>0, <2>0, <2>1, ArmedKeeps
  <2>3. dryStation'.last \in {dryStation.last, time}
    BY <1>0, <2>0 DEF Armed
  <2>4. PostKept'
    BY <1>0, <2>1, <2>2, SelfTestAssumption DEF PostKept, SelfTestTypeOK, PostType,
       Quiescent, Times, Never
  <2>5. dryStation'.last <= time
    BY <1>0, <2>2, <2>3, SelfTestAssumption DEF DryInv, Times
  <2>6. QED
    BY <1>0, <2>1, <2>2, <2>4, <2>5 DEF DryInv, SelfTestTypeOK
<1>3. CASE OwnerLost
  BY <1>3 DEF OwnerLost, DryInv, SelfTestTypeOK, StatusKept, PostKept
<1>4. CASE \E p \in 0..MaxSource : Reconnects(p)
  BY <1>4, ReconnectsKeep
<1>5. CASE StatusBegins
  BY <1>0, <1>5, SelfTestAssumption
  DEF StatusBegins, DryInv, SelfTestTypeOK, StatusKept, PostKept, RequestType, Times
<1>6. CASE StatusServed
  <2>1. status' \in [st : {"served"}, source : 0..MaxSource, requested : Times, value : Values]
    BY <1>0, <1>6 DEF StatusServed, SelfTestTypeOK, RequestType, Quiescent, Said, Values
  <2>2. Told(status', source, unlock.floor, time, dryStation.last, since)
    BY <1>0, <1>6, <2>1, SelfTestAssumption
    DEF StatusServed, Said, Told, DryInv, StatusKept, Times, Never
  <2>3. status'.source <= source /\ status'.requested <= time
    BY <1>0, <1>6 DEF StatusServed, StatusKept
  <2>4. UNCHANGED <<time, dryStation, source, unlock, owner, observed, post, since>>
    BY <1>6 DEF StatusServed
  <2>5. QED
    BY <2>1, <2>2, <2>3, <2>4 DEF DryInv, SelfTestTypeOK, StatusKept, PostKept, RequestType
<1>7. CASE StatusEnds
  <2> DEFINE o == [source |-> source, requested |-> status.requested, value |-> status.value]
  <2>1. /\ o \in [source : 0..MaxSource, requested : Times \cup {Never}, value : Values]
        /\ o.source = source /\ Observes(o)
    BY <1>0, <1>7 DEF StatusEnds, SelfTestTypeOK, RequestType, Quiescent
  <2>2. Told(o, source, unlock.floor, time, dryStation.last, since)
    BY <1>0, <1>7 DEF StatusEnds, StatusKept, Told
  <2> HIDE DEF o
  <2>3. QED
    BY <2>1, <2>2, ObservesKeeps
<1>8. CASE StatusFails
  <2> DEFINE o == [source |-> source, requested |-> Never, value |-> NoAnswer]
  <2>1. /\ o \in [source : 0..MaxSource, requested : Times \cup {Never}, value : Values]
        /\ o.source = source /\ Observes(o)
    BY <1>0, <1>8 DEF StatusFails, SelfTestTypeOK, NoAnswer, Values
  <2>2. Told(o, source, unlock.floor, time, dryStation.last, since)
    BY <1>0, SelfTestAssumption DEF Told, NoAnswer, Never, Times
  <2> HIDE DEF o
  <2>3. QED
    BY <2>1, <2>2, ObservesKeeps
<1>9. CASE StatusSuperseded
  BY <1>9 DEF StatusSuperseded, DryInv, SelfTestTypeOK, StatusKept, PostKept, RequestType,
     Quiescent
<1>10. CASE \E d \in BOOLEAN : Begin(d)
  BY <1>10, BeginKeeps
<1>11. CASE PostServed
  <2>1. /\ post.st = "asked" /\ Armed(post.desired) /\ post' = [post EXCEPT !.st = "served"]
        /\ UNCHANGED <<time, source, unlock, owner, observed, status>>
    BY <1>11 DEF PostServed
  <2>2. /\ post \in [st : {"asked", "served"}, serial : 0..MaxSerial, source : 0..MaxSource,
                     place : 0..MaxSource, began : Times, desired : BOOLEAN]
    BY <1>0, <2>1 DEF SelfTestTypeOK, PostType, Quiescent
  <2>3. /\ post' \in PostType /\ post.desired \in BOOLEAN
        /\ post'.began = post.began /\ post'.source = post.source /\ post'.desired = post.desired
    BY <2>1, <2>2 DEF PostType
  <2>4. /\ dryStation' \in [place : 0..MaxSource, armed : BOOLEAN, last : Times \cup {Never}]
        /\ dryStation'.armed = post.desired
        /\ dryStation.last <= dryStation'.last
        /\ post.desired => dryStation'.last = time /\ since'
        /\ since' \in BOOLEAN
        /\ Founded(unlock', time', dryStation'.last, since') /\ NotStale(unlock', time')
        /\ Told(observed', source', unlock'.floor, time', dryStation'.last, since')
        /\ StatusKept'
    BY <1>0, <2>1, <2>3, ArmedKeeps
  <2>5. dryStation'.last \in {dryStation.last, time}
    BY <1>0, <2>1, <2>3 DEF Armed
  <2>6. PostKept'
    BY <1>0, <2>1, <2>2, <2>3, <2>4, SelfTestAssumption DEF PostKept, Times
  <2>7. dryStation'.last <= time
    BY <1>0, <2>5, SelfTestAssumption DEF DryInv, Times
  <2>8. QED
    BY <1>0, <2>1, <2>3, <2>4, <2>6, <2>7 DEF DryInv, SelfTestTypeOK
<1>12. CASE PostEnds
  <2>1. post.desired \in BOOLEAN
    BY <1>0, <1>12 DEF PostEnds, SelfTestTypeOK, PostType, Quiescent
  <2>2. Said(post.desired) \in Values /\ (Said(post.desired) = "yes" => post.desired)
    BY DEF Said, Values
  <2>3. since' \in BOOLEAN /\ (post.desired \/ dryStation.armed => since')
    BY <1>12 DEF PostEnds
  <2>4. QED
    BY <1>12, <2>1, <2>2, <2>3, FinishKeeps DEF PostEnds
<1>13. CASE PostFails
  <2>1. since' \in BOOLEAN /\ (dryStation.armed => since')
    BY <1>0, <1>13 DEF PostFails
  <2>2. NoAnswer \in Values /\ NoAnswer # "yes"
    BY DEF NoAnswer, Values
  <2>3. QED
    BY <1>13, <2>1, <2>2, FinishKeeps DEF PostFails
<1>14. CASE PostAbandoned
  BY <1>14 DEF PostAbandoned, DryInv, SelfTestTypeOK, StatusKept, PostKept, PostType,
     Quiescent
<1>15. CASE UNCHANGED dryVars
  BY <1>15 DEF dryVars, DryInv, SelfTestTypeOK, StatusKept, PostKept
<1>16. QED
  BY <1>1, <1>2, <1>3, <1>4, <1>5, <1>6, <1>7, <1>8, <1>9, <1>10, <1>11, <1>12, <1>13,
     <1>14,
     <1>15 DEF DryNext

-----------------------------------------------------------------------------
(* Theorems *)

\* The inductive invariant of the confirmation.
LEMMA DryInvariance == DrySpec => []DryInv
<1>1. QED
  BY DryStart, DryStep, PTL DEF DrySpec

\* Every variable of the self-test confirmation keeps its type, for every
\* freshness, every time limit of a post and every bound.
THEOREM SelfTestTypes == DrySpec => []SelfTestTypeOK
<1>1. DryInv => SelfTestTypeOK
  BY DEF DryInv
<1>2. QED
  BY <1>1, DryInvariance, PTL

\* The page offers the self-test as unlocked only if the station in use was
\* unlocked within FRESH_MS and the time of a post.
THEOREM UnlockedRecently == DrySpec => []UnlockIsRecent
<1>1. DryInv => UnlockIsRecent
  <2> SUFFICES ASSUME DryInv, unlock.confirmed = "yes"
               PROVE  dryStation.last # Never /\ time - dryStation.last <= Fresh + PostLimit
    BY DEF UnlockIsRecent
  <2>1. /\ unlock.evidence \in Times \cup {Never} /\ dryStation.last \in Times \cup {Never}
        /\ time \in Times
    BY DEF DryInv, SelfTestTypeOK, Model
  <2>2. /\ dryStation.last # Never /\ dryStation.last + PostLimit >= unlock.evidence
        /\ time - unlock.evidence <= Fresh
    BY DEF DryInv, Founded, NotStale
  <2>3. QED
    BY <2>1, <2>2, SelfTestAssumption DEF Times, Never
<1>2. QED
  BY <1>1, DryInvariance, PTL

\* No status asked for before a lock or a failed attempt, and no late post, shows
\* the self-test as unlocked.
THEOREM UnlockedSince == DrySpec => []OldAnswerNeverUnlocks
<1>1. DryInv => OldAnswerNeverUnlocks
  BY DEF DryInv, Founded, OldAnswerNeverUnlocks
<1>2. QED
  BY <1>1, DryInvariance, PTL

-----------------------------------------------------------------------------
(***************************************************************************)
(* BoardRecovery: its types, that a ticket is confirmed once and as it was *)
(* reviewed, and that the screen never shows an older status after a newer *)
(* one.                                                                    *)
(***************************************************************************)

Posting == [ticket : Tickets, reviewed : Bindings, by : Bindings, stale : BOOLEAN]

Unused(t) == \A i \in DOMAIN posted : posted[i].ticket # t

\* What has been sent was of a ticket the station had issued.
Sent ==
  \A i \in DOMAIN posted :
    posted[i].ticket <= backend.ticket /\ posted[i].by = posted[i].reviewed /\ ~posted[i].stale

\* There is a dialog or work under way, never both, so one ticket at most may yet
\* be confirmed; a context that had ended by the click is told by the next status.
DialogOpen ==
  /\ pending # NoReading =>
       /\ Unused(pending.ticket) /\ pending.ticket <= backend.ticket
       /\ pending.context <= backend.context
  /\ work.st # "idle" => pending = NoReading
  /\ work.st \in {"prepared", "review", "reviewed"} =>
       /\ Unused(work.ticket) /\ work.ticket <= backend.ticket
       /\ work.context <= backend.context
  /\ work.st \in {"confirm", "checked"} =>
       Unused(work.d.ticket) /\ work.d.ticket <= backend.ticket
  /\ work.st = "confirm" => (work.stale => backend.context > work.d.context)
  /\ work.st = "checked" => (work.stale => work.is.context > work.d.context)

\* The request asked last, once served, is not older than the screen, and no
\* answer is newer than the station.
Screen ==
  /\ \A k \in Readers : reads[k].st = "served" => reads[k].is.context <= backend.context
  /\ snapshot # NoReading =>
       /\ snapshot.context <= backend.context
       /\ reads[serial].st = "served" => snapshot.context <= reads[serial].is.context

RecoveryInv == RecoveryTypeOK /\ Sent /\ TicketOnce /\ DialogOpen /\ Screen

-----------------------------------------------------------------------------
(* Types *)

\* A status that is read and a work under way are of their kinds.
LEMMA ReadTypes ==
  ASSUME NEW r \in ReadType
  PROVE  /\ r.st \in {"none", "asked", "served"}
         /\ r.st = "asked" => r \in [st : {"asked"}, by : Bindings]
         /\ r.st = "served" => r \in [st : {"served"}, is : Reading]
BY DEF ReadType, Unasked

\* What each stage of a work carries.
LEMMA WorkTypes ==
  ASSUME NEW w \in WorkType
  PROVE  /\ w.st = "idle" <=> w = Idle
         /\ w.st = "prepare" => w \in [st : {"prepare", "query"}, by : Bindings]
         /\ w.st = "prepared" =>
              w \in [st : {"prepared"}, by : Bindings, context : Contexts, ticket : Tickets]
         /\ w.st = "review" =>
              w \in [st : {"review"}, by : Bindings, context : Contexts, ticket : Tickets,
                     asked : Bindings]
         /\ w.st = "reviewed" =>
              w \in [st : {"reviewed"}, by : Bindings, context : Contexts, ticket : Tickets,
                     is : Reading]
         /\ w.st = "confirm" => w \in [st : {"confirm"}, d : Dialog, asked : Bindings, stale : BOOLEAN]
         /\ w.st = "checked" => w \in [st : {"checked"}, d : Dialog, stale : BOOLEAN, is : Reading]
         /\ w.st = "posting" => w \in [st : {"posting"}, d : Dialog]
BY DEF WorkType, Idle

\* A status has the type of a reading, for whichever login it is.
LEMMA StatusType ==
  ASSUME RecoveryTypeOK, NEW b \in Bindings
  PROVE  StatusFor(b) \in Reading /\ StatusFor(b).context = backend.context
BY DEF RecoveryTypeOK, StatusFor, Reading

\* The panel starts with nothing reviewed.
LEMMA RecoveryStart == RecoveryInit => RecoveryInv
<1> SUFFICES ASSUME RecoveryInit PROVE RecoveryInv
  OBVIOUS
<1>1. RecoveryTypeOK
  <2>1. 0 \in Contexts /\ posted \in Seq(Posting)
    BY RecoveryAssumption DEF RecoveryInit, Contexts
  <2>2. work \in WorkType /\ reads \in [Readers -> ReadType]
    BY DEF RecoveryInit, WorkType, ReadType
  <2>3. QED
    BY <2>1, <2>2 DEF RecoveryInit, RecoveryTypeOK, Readers, Posting
<1>2. DOMAIN posted = {}
  BY DEF RecoveryInit
<1>3. Sent /\ TicketOnce
  BY <1>2 DEF Sent, TicketOnce
<1>4. DialogOpen /\ Screen
  BY DEF RecoveryInit, DialogOpen, Screen, Idle, Unasked
<1>5. QED
  BY <1>1, <1>3, <1>4 DEF RecoveryInv

-----------------------------------------------------------------------------
(* Every step keeps the types *)

\* Every step keeps every variable of its kind.
LEMMA TypesKept == RecoveryTypeOK /\ [RecoveryNext]_recoveryVars => RecoveryTypeOK'
<1> SUFFICES ASSUME RecoveryTypeOK, [RecoveryNext]_recoveryVars PROVE RecoveryTypeOK'
  OBVIOUS
<1> USE DEF RecoveryTypeOK
<1>1. CASE ContextChanges
  BY <1>1, RecoveryAssumption DEF ContextChanges, Contexts
<1>2. CASE TicketExpires
  BY <1>2 DEF TicketExpires
<1>3. CASE \E b \in Bindings : BindingChanges(b)
  BY <1>3 DEF BindingChanges
<1>4. ASSUME NEW k \in Readers,
             Reads(k) \/ ReadServed(k) \/ ReadShown(k) \/ ReadFails(k) \/ ReadSuperseded(k)
      PROVE  RecoveryTypeOK'
  <2>1. Unasked \in ReadType
    BY DEF ReadType
  <2>2. CASE Reads(k)
    BY <1>4, <2>2 DEF Reads, ReadType
  <2>3. CASE ReadServed(k)
    <3>1. reads[k] \in [st : {"asked"}, by : Bindings]
      BY <1>4, <2>3, ReadTypes DEF ReadServed
    <3>2. [st |-> "served", is |-> StatusFor(reads[k].by)] \in ReadType
      BY <3>1, StatusType DEF ReadType
    <3>3. QED
      BY <1>4, <2>3, <3>2 DEF ReadServed
  <2>4. CASE ReadShown(k)
    <3>1. reads[k].is \in Reading
      BY <1>4, <2>4, ReadTypes DEF ReadShown
    <3>2. QED
      BY <1>4, <2>1, <2>4, <3>1 DEF ReadShown
  <2>5. CASE ReadFails(k)
    BY <1>4, <2>1, <2>5 DEF ReadFails
  <2>6. CASE ReadSuperseded(k)
    BY <1>4, <2>1, <2>6 DEF ReadSuperseded
  <2>7. QED
    BY <1>4, <2>2, <2>3, <2>4, <2>5, <2>6
<1>5. CASE BeginPrepare \/ Query
  BY <1>5 DEF BeginPrepare, Query, WorkType
<1>6. CASE PrepareServed
  <2>1. work.by \in Bindings /\ backend.ticket + 1 \in Tickets
    BY <1>6, WorkTypes, RecoveryAssumption DEF PrepareServed, Tickets
  <2>2. QED
    BY <1>6, <2>1 DEF PrepareServed, WorkType
<1>7. CASE PrepareAnswered
  BY <1>7, WorkTypes DEF PrepareAnswered, WorkType
<1>8. CASE ReviewServed
  <2>1. StatusFor(work.asked) \in Reading
    BY <1>8, WorkTypes, StatusType DEF ReviewServed
  <2>2. QED
    BY <1>8, <2>1, WorkTypes DEF ReviewServed, WorkType
<1>9. CASE ReviewOpens
  BY <1>9, WorkTypes DEF ReviewOpens, WorkType, Dialog
<1>10. CASE WorkFails
  BY <1>10 DEF WorkFails, WorkType
<1>11. CASE TypePhrase \/ CancelDialog
  BY <1>11 DEF TypePhrase, CancelDialog
<1>12. CASE Confirm
  BY <1>12 DEF Confirm, Clicked, WorkType
<1>13. CASE ConfirmServed
  <2>1. StatusFor(work.asked) \in Reading
    BY <1>13, WorkTypes, StatusType DEF ConfirmServed
  <2>2. QED
    BY <1>13, <2>1, WorkTypes DEF ConfirmServed, WorkType
<1>14. CASE SendConfirm
  <2>1. work \in [st : {"checked"}, d : Dialog, stale : BOOLEAN, is : Reading]
    BY <1>14, WorkTypes DEF SendConfirm
  <2>2. [ticket |-> work.d.ticket, reviewed |-> work.d.by, by |-> binding, stale |-> work.stale]
          \in Posting
    BY <2>1 DEF Posting, Dialog
  <2>3. posted' \in Seq(Posting)
    BY <1>14, <2>2 DEF SendConfirm, Posts, Posting
  <2>4. work' \in WorkType
    BY <1>14, <2>1 DEF SendConfirm, Posts, WorkType
  <2>5. QED
    BY <1>14, <2>3, <2>4 DEF SendConfirm, Posts, Posting
<1>15. CASE ConfirmApplied
  BY <1>15, RecoveryAssumption DEF ConfirmApplied, Contexts
<1>16. CASE Reopen
  BY <1>16 DEF Reopen, WorkType, ReadType, Readers
<1>17. CASE UNCHANGED recoveryVars
  BY <1>17 DEF recoveryVars
<1>18. QED
  BY <1>1, <1>2, <1>3, <1>4, <1>5, <1>6, <1>7, <1>8, <1>9, <1>10, <1>11, <1>12, <1>13,
     <1>14,
     <1>15, <1>16, <1>17 DEF RecoveryNext

-----------------------------------------------------------------------------
(* Every step keeps the rest *)

\* What is sent only grows by SendConfirm; a step that leaves it alone, and takes
\* no ticket of the station back, keeps what is known of it.
LEMMA SentKept ==
  ASSUME RecoveryTypeOK, Sent, TicketOnce, posted' = posted,
         backend'.ticket \in Nat, backend.ticket <= backend'.ticket
  PROVE  Sent' /\ TicketOnce' /\ \A t : Unused(t) => Unused(t)'
<1>1. \A i \in DOMAIN posted : posted[i].ticket \in Nat
  <2>1. posted \in Seq(Posting)
    BY DEF RecoveryTypeOK, Posting
  <2>2. \A i \in DOMAIN posted : posted[i] \in Posting
    BY <2>1
  <2>3. QED
    BY <2>2, RecoveryAssumption DEF Posting, Tickets
<1>2. backend.ticket \in Nat
  BY RecoveryAssumption DEF RecoveryTypeOK, Tickets
<1>3. QED
  BY <1>1, <1>2 DEF Sent, TicketOnce, Unused

\* A step of the reads, the clock or the session: neither dialog nor work comes to
\* be, and the station's context does not go back.
LEMMA OpenKept ==
  ASSUME RecoveryTypeOK, DialogOpen, work' \in {work, Idle}, posted' = posted,
         pending' \in {pending, NoReading},
         backend'.context \in Nat, backend.context <= backend'.context,
         backend'.ticket = backend.ticket
  PROVE  DialogOpen'
<1>1. /\ backend.context \in Nat /\ work \in WorkType
      /\ pending # NoReading => pending.context \in Nat
  BY RecoveryAssumption DEF RecoveryTypeOK, Contexts, Dialog
<1>2. \A t : Unused(t) <=> (Unused(t))'
  BY DEF Unused
<1>3. CASE work' = Idle
  BY <1>1, <1>2, <1>3 DEF DialogOpen, Idle
<1>4. CASE work' = work
  <2>1. work.st \in {"prepared", "review", "reviewed"} => work.context \in Nat
    BY <1>1, WorkTypes, RecoveryAssumption DEF Contexts
  <2>2. work.st = "confirm" => work.d.context \in Nat
    BY <1>1, WorkTypes, RecoveryAssumption DEF Contexts, Dialog
  <2>3. QED
    BY <1>1, <1>2, <1>4, <2>1, <2>2 DEF DialogOpen
<1>5. QED
  BY <1>3, <1>4

\* A step that leaves the screen and its readers alone.
LEMMA ScreenKept ==
  ASSUME RecoveryTypeOK, Screen, UNCHANGED <<snapshot, reads, serial>>,
         backend'.context \in Nat, backend.context <= backend'.context
  PROVE  Screen'
<1>1. /\ backend.context \in Nat /\ reads \in [Readers -> ReadType]
      /\ snapshot # NoReading => snapshot.context \in Nat
  BY RecoveryAssumption DEF RecoveryTypeOK, Reading, Contexts
<1>2. \A k \in Readers : reads[k].st = "served" => reads[k].is.context \in Nat
  BY <1>1, ReadTypes, RecoveryAssumption DEF Reading, Contexts
<1>3. QED
  BY <1>1, <1>2 DEF Screen

\* A reader's answer, or its end: the answer asked for last is the one shown.
LEMMA ReadsKeep ==
  ASSUME RecoveryInv, NEW k \in Readers,
         Reads(k) \/ ReadServed(k) \/ ReadShown(k) \/ ReadFails(k) \/ ReadSuperseded(k)
  PROVE  /\ Sent' /\ TicketOnce' /\ DialogOpen' /\ Screen'
         /\ snapshot # NoReading /\ snapshot' # NoReading => snapshot'.context >= snapshot.context
<1>1. /\ RecoveryTypeOK /\ Sent /\ TicketOnce /\ DialogOpen /\ Screen
      /\ backend.context \in Nat /\ backend.ticket \in Nat
      /\ snapshot # NoReading => snapshot \in Reading /\ snapshot.context \in Nat
      /\ reads \in [Readers -> ReadType] /\ serial \in Readers
  BY RecoveryAssumption DEF RecoveryInv, RecoveryTypeOK, Contexts, Tickets, Reading
<1>2. /\ backend' = backend /\ work' = work /\ posted' = posted /\ pending' \in {pending, NoReading}
  BY DEF Reads, ReadServed, ReadShown, ReadFails, ReadSuperseded
<1>3. Sent' /\ TicketOnce' /\ DialogOpen'
  BY <1>1, <1>2, SentKept, OpenKept
<1>4. CASE Reads(k)
  BY <1>1, <1>3, <1>4 DEF Reads, Screen
<1>5. CASE ReadServed(k)
  <2>1. /\ reads[k].st = "asked" /\ UNCHANGED <<snapshot, serial, backend>>
        /\ reads' = [reads EXCEPT ![k] = [st |-> "served", is |-> StatusFor(reads[k].by)]]
    BY <1>5 DEF ReadServed
  <2>2. StatusFor(reads[k].by).context = backend.context
    BY DEF StatusFor
  <2>3. QED
    BY <1>1, <1>3, <2>1, <2>2 DEF Screen
<1>6. CASE ReadShown(k)
  <2>1. /\ reads[k].st = "served" /\ serial = k /\ serial' = serial
        /\ snapshot' = reads[k].is /\ reads' = [reads EXCEPT ![k] = Unasked]
    BY <1>6 DEF ReadShown
  <2>2. reads[k].is.context <= backend.context /\ reads[k].is.context \in Nat
    BY <1>1, <2>1, ReadTypes, RecoveryAssumption DEF Screen, Reading, Contexts
  <2>3. QED
    BY <1>1, <1>2, <1>3, <2>1, <2>2 DEF Screen, Unasked
<1>7. CASE ReadFails(k)
  BY <1>1, <1>3, <1>7 DEF ReadFails, Screen, Unasked
<1>8. CASE ReadSuperseded(k)
  BY <1>1, <1>3, <1>8 DEF ReadSuperseded, Screen, Unasked
<1>9. QED
  BY <1>4, <1>5, <1>6, <1>7, <1>8

\* A ticket is issued: it is none of those confirmed before.
LEMMA PrepareKeeps ==
  ASSUME RecoveryInv, PrepareServed
  PROVE  Sent' /\ TicketOnce' /\ DialogOpen' /\ Screen'
<1>1. /\ RecoveryTypeOK /\ Sent /\ TicketOnce /\ DialogOpen /\ Screen
      /\ backend.context \in Nat /\ backend.ticket \in Nat
      /\ backend \in [context : Contexts, ticket : {0} \cup Tickets]
  BY RecoveryAssumption DEF RecoveryInv, RecoveryTypeOK, Contexts, Tickets
<1>2. /\ backend'.ticket = backend.ticket + 1 /\ backend'.context = backend.context
      /\ work' = [st |-> "prepared", by |-> work.by,
                  context |-> backend.context, ticket |-> backend.ticket + 1]
      /\ work.st = "prepare" /\ UNCHANGED <<snapshot, pending, reads, serial, posted>>
  BY <1>1 DEF PrepareServed
<1>3. Sent' /\ TicketOnce' /\ Screen'
  BY <1>1, <1>2, SentKept, ScreenKept
<1>4. Unused(backend.ticket + 1)
  <2>1. \A i \in DOMAIN posted : posted[i].ticket <= backend.ticket
    BY <1>1 DEF Sent
  <2>2. \A i \in DOMAIN posted : posted[i].ticket # backend.ticket + 1
    BY <1>1, <2>1
  <2>3. QED
    BY <2>2 DEF Unused
<1>5. pending = NoReading
  BY <1>1, <1>2 DEF DialogOpen
<1>6. DialogOpen'
  BY <1>1, <1>2, <1>4, <1>5 DEF DialogOpen, Unused
<1>7. QED
  BY <1>3, <1>6

\* A confirmation is sent: for a ticket not yet confirmed, by the login that reviewed
\* it, and in a context that was the dialog's when the operator clicked.
LEMMA SendKeeps ==
  ASSUME RecoveryInv, SendConfirm
  PROVE  Sent' /\ TicketOnce' /\ DialogOpen' /\ Screen'
<1> DEFINE p == [ticket |-> work.d.ticket, reviewed |-> work.d.by,
                 by |-> binding, stale |-> work.stale]
<1>1. /\ RecoveryTypeOK /\ Sent /\ TicketOnce /\ DialogOpen /\ Screen
      /\ work.st = "checked" /\ work \in WorkType /\ posted \in Seq(Posting)
  BY DEF RecoveryInv, RecoveryTypeOK, SendConfirm, Posting
<1>2. /\ work \in [st : {"checked"}, d : Dialog, stale : BOOLEAN, is : Reading]
  BY <1>1, WorkTypes
<1>3. /\ posted' = Append(posted, p) /\ work' = [st |-> "posting", d |-> work.d]
      /\ UNCHANGED <<binding, backend, snapshot, pending, reads, serial>>
  BY DEF SendConfirm, Posts
<1>4. /\ work.d.by = binding /\ work.is.context = work.d.context
      /\ work.d.ticket = work.is.ticket
  BY DEF SendConfirm, Valid
<1>5. ~work.stale
  BY <1>1, <1>2, <1>4, RecoveryAssumption DEF DialogOpen, Reading, Dialog, Contexts
<1>6. Unused(work.d.ticket)
  BY <1>1 DEF DialogOpen
<1>7. work.d.ticket <= backend.ticket
  BY <1>1 DEF DialogOpen
<1>8. p \in Posting
  BY <1>1, <1>2 DEF Posting, Dialog, RecoveryTypeOK
<1> HIDE DEF p
<1>9. /\ DOMAIN posted' = DOMAIN posted \cup {Len(posted) + 1}
      /\ posted'[Len(posted) + 1] = p
      /\ \A i \in DOMAIN posted : posted'[i] = posted[i] /\ i # Len(posted) + 1
  BY <1>1, <1>3, <1>8
<1>10. /\ p.ticket = work.d.ticket /\ p.by = p.reviewed /\ ~p.stale
  BY <1>4, <1>5 DEF p
<1>11. Sent'
  BY <1>1, <1>3, <1>7, <1>9, <1>10 DEF Sent
<1>12. TicketOnce'
  BY <1>1, <1>6, <1>9, <1>10 DEF TicketOnce, Unused
<1>13. DialogOpen'
  BY <1>1, <1>3 DEF DialogOpen
<1>14. Screen'
  BY <1>1, <1>3 DEF Screen
<1>15. QED
  BY <1>11, <1>12, <1>13, <1>14

\* The steps that send nothing and issue no ticket.
LEMMA QuietSteps ==
  ASSUME RecoveryInv,
         \/ ContextChanges \/ TicketExpires \/ ConfirmApplied \/ Reopen \/ WorkFails
         \/ TypePhrase \/ CancelDialog \/ BeginPrepare \/ Query \/ PrepareAnswered
         \/ ReviewServed \/ ReviewOpens \/ Confirm \/ ConfirmServed
         \/ UNCHANGED recoveryVars \/ \E b \in Bindings : BindingChanges(b)
  PROVE  Sent' /\ TicketOnce' /\ DialogOpen' /\ Screen'
<1>1. /\ RecoveryTypeOK /\ Sent /\ TicketOnce /\ DialogOpen /\ Screen
      /\ backend.context \in Nat /\ backend.ticket \in Nat
      /\ backend \in [context : Contexts, ticket : {0} \cup Tickets]
      /\ work \in WorkType
      /\ pending # NoReading => pending \in Dialog /\ pending.context \in Nat
  BY RecoveryAssumption DEF RecoveryInv, RecoveryTypeOK, Contexts, Tickets, Dialog
<1>2. CASE ContextChanges \/ ConfirmApplied
  <2>1. /\ backend'.context = backend.context + 1 /\ backend'.ticket = backend.ticket
        /\ UNCHANGED <<snapshot, pending, work, reads, serial, posted>>
    BY <1>1, <1>2 DEF ContextChanges, ConfirmApplied
  <2>2. /\ backend'.context \in Nat /\ backend.context <= backend'.context
        /\ backend'.ticket \in Nat /\ backend.ticket <= backend'.ticket
    BY <1>1, <2>1
  <2>3. QED
    BY <1>1, <2>1, <2>2, SentKept, OpenKept, ScreenKept
<1>3. CASE \/ TicketExpires \/ WorkFails \/ TypePhrase \/ CancelDialog
           \/ UNCHANGED recoveryVars \/ \E b \in Bindings : BindingChanges(b)
  <2>1. /\ UNCHANGED <<backend, snapshot, reads, serial, posted>>
        /\ work' \in {work, Idle} /\ pending' \in {pending, NoReading}
    BY <1>3 DEF TicketExpires, WorkFails, TypePhrase, CancelDialog, BindingChanges,
       recoveryVars
  <2>2. QED
    BY <1>1, <2>1, SentKept, OpenKept, ScreenKept
<1>4. CASE Reopen
  <2>1. /\ UNCHANGED <<backend, posted>> /\ work' = Idle /\ pending' = NoReading
        /\ snapshot' = NoReading /\ reads' = [k \in Readers |-> Unasked]
    BY <1>4 DEF Reopen
  <2>2. Sent' /\ TicketOnce' /\ DialogOpen'
    BY <1>1, <2>1, SentKept, OpenKept
  <2>3. Screen'
    BY <2>1 DEF Screen, Unasked
  <2>4. QED
    BY <2>2, <2>3
<1>5. CASE BeginPrepare \/ Query \/ PrepareAnswered \/ ReviewServed \/ ReviewOpens \/ Confirm
           \/ ConfirmServed
  <2>1. UNCHANGED <<backend, snapshot, reads, serial, posted>>
    BY <1>5 DEF BeginPrepare, Query, PrepareAnswered, ReviewServed, ReviewOpens, Confirm,
       ConfirmServed
  <2>2. Sent' /\ TicketOnce' /\ Screen' /\ \A t : Unused(t) => (Unused(t))'
    BY <1>1, <2>1, SentKept, ScreenKept
  <2>3. CASE BeginPrepare \/ Query
    BY <2>1, <2>2, <2>3 DEF BeginPrepare, Query, MayBegin, DialogOpen
  <2>4. CASE PrepareAnswered \/ ReviewServed
    BY <1>1, <2>1, <2>2, <2>4 DEF PrepareAnswered, ReviewServed, DialogOpen
  <2>5. CASE ReviewOpens
    BY <1>1, <2>1, <2>2, <2>5 DEF ReviewOpens, Matches, DialogOpen, Idle
  <2>6. CASE Confirm
    <3>1. work' = Clicked /\ pending' = NoReading /\ pending # NoReading
      BY <2>6 DEF Confirm
    <3>2. Unused(pending.ticket) /\ pending.ticket <= backend.ticket /\ pending.context <= backend.context
      BY <1>1, <3>1 DEF DialogOpen
    <3>3. work'.st = "confirm" /\ work'.d = pending
      BY <3>1 DEF Clicked
    <3>4. work'.stale => backend.context > pending.context
      <4>1. work'.stale => backend.context # pending.context
        BY <3>1 DEF Clicked
      <4>2. QED
        BY <1>1, <3>1, <3>2, <4>1
    <3>5. QED
      BY <2>1, <2>2, <3>1, <3>2, <3>3, <3>4 DEF DialogOpen
  <2>7. CASE ConfirmServed
    <3> DEFINE r == StatusFor(work.asked)
    <3>1. /\ work.st = "confirm" /\ r.context = backend.context /\ pending' = pending
          /\ work' = [st |-> "checked", d |-> work.d, stale |-> work.stale, is |-> r]
      BY <2>7 DEF ConfirmServed, StatusFor
    <3>2. /\ pending = NoReading /\ Unused(work.d.ticket) /\ work.d.ticket <= backend.ticket
          /\ work.stale => backend.context > work.d.context
      BY <1>1, <3>1 DEF DialogOpen
    <3> HIDE DEF r
    <3>3. QED
      BY <2>1, <2>2, <3>1, <3>2 DEF DialogOpen
  <2>8. QED
    BY <1>5, <2>3, <2>4, <2>5, <2>6, <2>7
<1>6. QED
  BY <1>2, <1>3, <1>4, <1>5

\* Every step keeps the whole invariant.
LEMMA RecoveryStep == RecoveryInv /\ [RecoveryNext]_recoveryVars => RecoveryInv'
<1> SUFFICES ASSUME RecoveryInv, [RecoveryNext]_recoveryVars PROVE RecoveryInv'
  OBVIOUS
<1>1. RecoveryTypeOK'
  BY TypesKept DEF RecoveryInv
<1>2. Sent' /\ TicketOnce' /\ DialogOpen' /\ Screen'
  BY ReadsKeep, PrepareKeeps, SendKeeps, QuietSteps DEF RecoveryNext
<1>3. QED
  BY <1>1, <1>2 DEF RecoveryInv

-----------------------------------------------------------------------------
(* Theorems *)

\* The inductive invariant of the panel.
LEMMA RecoveryInvariance == RecoverySpec => []RecoveryInv
<1>1. QED
  BY RecoveryStart, RecoveryStep, PTL DEF RecoverySpec

\* Every variable of the recovery panel keeps its type, for every set of logins and
\* every number of tickets and changes of the boards.
THEOREM RecoveryTypes == RecoverySpec => []RecoveryTypeOK
<1>1. RecoveryInv => RecoveryTypeOK
  BY DEF RecoveryInv
<1>2. QED
  BY <1>1, RecoveryInvariance, PTL

\* Recovery is never retried: one ticket, one confirmation.
THEOREM TicketsOnce == RecoverySpec => []TicketOnce
<1>1. RecoveryInv => TicketOnce
  BY DEF RecoveryInv
<1>2. QED
  BY <1>1, RecoveryInvariance, PTL

\* What is confirmed is what its login reviewed, in the context of the review.
THEOREM ConfirmsReviewed == RecoverySpec => []ConfirmIsReviewed
<1>1. RecoveryInv => ConfirmIsReviewed
  BY DEF RecoveryInv, Sent, ConfirmIsReviewed
<1>2. QED
  BY <1>1, RecoveryInvariance, PTL

\* The status on the screen never goes back.
THEOREM ScreenAdvances == RecoverySpec => ScreenNeverBack
<1>1. RecoveryInv /\ [RecoveryNext]_recoveryVars
        => [snapshot # NoReading /\ snapshot' # NoReading
              => snapshot'.context >= snapshot.context]_recoveryVars
  <2> SUFFICES ASSUME RecoveryInv, RecoveryNext, snapshot # NoReading, snapshot' # NoReading
               PROVE  snapshot'.context >= snapshot.context
    OBVIOUS
  <2>1. CASE \E k \in Readers :
               Reads(k) \/ ReadServed(k) \/ ReadShown(k) \/ ReadFails(k) \/ ReadSuperseded(k)
    BY <2>1, ReadsKeep
  <2>2. CASE snapshot' = snapshot
    <3>1. snapshot.context \in Nat
      BY RecoveryAssumption DEF RecoveryInv, RecoveryTypeOK, Reading, Contexts
    <3>2. QED
      BY <2>2, <3>1
  <2>3. QED
    BY <2>1, <2>2
    DEF RecoveryNext, ContextChanges, TicketExpires, BindingChanges, BeginPrepare, PrepareServed,
        PrepareAnswered, ReviewServed, ReviewOpens, Query, WorkFails, TypePhrase, CancelDialog,
        Confirm, ConfirmServed, SendConfirm, Posts, ConfirmApplied, Reopen
<1>2. QED
  BY <1>1, RecoveryInvariance, PTL DEF RecoverySpec, ScreenNeverBack

-----------------------------------------------------------------------------
(***************************************************************************)
(* FirmwareUpdate: its types, and that a board is flashed on the consent   *)
(* given for it, once.                                                     *)
(***************************************************************************)

Tab == [targets : 0..MaxEra, listed : SUBSET Boards, board : Boards \cup {NoBoard},
        file : Files \cup {NoFile}, fileEra : 0..MaxEra, consent : BOOLEAN, consented : Review,
        operation : 0..MaxOperation, submitting : BOOLEAN, update : Status, jobOwner : Owner]

\* A consent that stands is for the file and the board on the screen, and unused.
Consented(t) ==
  t.consent => /\ t.consented.era = t.fileEra /\ t.consented.file = t.file
               /\ t.consented.board \in {t.board, NoBoard} /\ ~t.consented.spent

\* The file is of the station whose targets are listed.
Filed(t) == t.file # NoFile => t.fileEra = t.targets /\ t.targets # 0

\* A file that is read and may still be used was picked for those targets.
Picked(t) ==
  picking.st = "reading" =>
    /\ picking.owner.operation <= t.operation
    /\ picking.owner.operation = t.operation => picking.owner.era = t.targets /\ t.targets # 0

\* A job that is known of was begun.
Known(n) ==
  /\ tab.update.job <= n
  /\ flashing.st \in {"accepted", "polled"} => flashing.is.job <= n /\ flashing.is.job # 0
  /\ flashing.st = "poll" => flashing.job <= n
  /\ cancelling.st = "asked" => cancelling.job <= n
  /\ cancelling.st = "served" => cancelling.is.job <= n

FirmwareInv ==
  /\ FirmwareTypeOK /\ Known(Len(jobs))
  /\ Consented(tab) /\ Filed(tab) /\ Picked(tab)
  /\ FlashIsConsented /\ ConsentIsSpent

-----------------------------------------------------------------------------
(* The operations on the tab *)

\* An operation that is begun leaves the consent and the file as they were.
LEMMA AdvancedTab ==
  ASSUME NEW t \in Tab, t.operation < MaxOperation
  PROVE  /\ Advanced(t) \in Tab /\ Advanced(t).operation = t.operation + 1
         /\ Consented(t) => Consented(Advanced(t))
         /\ Filed(t) => Filed(Advanced(t))
         /\ Advanced(t).targets = t.targets /\ Advanced(t).update = t.update
<1>1. t.operation + 1 \in 0..MaxOperation
  BY FirmwareAssumption DEF Tab
<1>2. QED
  BY <1>1 DEF Advanced, Tab, Consented, Filed

\* A status that is shown may revoke the consent, and never gives one.
LEMMA ShowingTab ==
  ASSUME NEW t \in Tab, NEW u \in Status
  PROVE  /\ Showing(t, u) \in Tab /\ Showing(t, u).update = u
         /\ Consented(t) => Consented(Showing(t, u))
         /\ Filed(t) => Filed(Showing(t, u))
         /\ Showing(t, u).targets = t.targets /\ Showing(t, u).operation = t.operation
<1> DEFINE spent == t.consented.spent \/ Ended(u)
           c == [t.consented EXCEPT !.spent = spent]
           consent == t.consent /\ ~Ended(u)
<1>1. /\ t.consented \in Review /\ spent \in BOOLEAN /\ consent \in BOOLEAN
  BY DEF Tab, Ended, Review
<1>2. c \in Review /\ c.spent = spent
      /\ c.era = t.consented.era /\ c.file = t.consented.file /\ c.board = t.consented.board
  BY <1>1 DEF Review
<1>3. Showing(t, u) = [t EXCEPT !.update = u, !.consent = consent, !.consented = c]
  BY DEF Showing, Tab
<1> HIDE DEF c
<1>4. /\ Showing(t, u) \in Tab /\ Showing(t, u).update = u
      /\ Showing(t, u).consent = consent /\ Showing(t, u).consented = c
      /\ Showing(t, u).file = t.file /\ Showing(t, u).fileEra = t.fileEra
      /\ Showing(t, u).board = t.board
      /\ Showing(t, u).targets = t.targets /\ Showing(t, u).operation = t.operation
  BY <1>1, <1>2, <1>3 DEF Tab
<1>5. Consented(t) => Consented(Showing(t, u))
  BY <1>2, <1>4 DEF Consented
<1>6. Filed(t) => Filed(Showing(t, u))
  BY <1>4 DEF Filed
<1>7. QED
  BY <1>4, <1>5, <1>6

\* New targets: what was chosen for others is forgotten with its operation.
LEMMA TargetsTab ==
  ASSUME NEW t \in Tab, t.operation < MaxOperation, NEW bs \in SUBSET Boards, era \in 1..MaxEra,
         Consented(t), Filed(t), Picked(t), picking.st = "reading" => picking.owner \in Owner
  PROVE  /\ Targets(t, bs) \in Tab /\ Targets(t, bs).update \in {t.update, NoJob}
         /\ Consented(Targets(t, bs)) /\ Filed(Targets(t, bs)) /\ Picked(Targets(t, bs))
<1> DEFINE f == IF t.targets \in {0, era} THEN t ELSE Forgotten(t)
           g == [t EXCEPT !.board = NoBoard, !.file = NoFile, !.consent = FALSE,
                          !.update = NoJob, !.submitting = FALSE, !.jobOwner = NoOwner]
           b == IF f.board = NoBoard /\ bs # {} THEN CHOOSE x \in bs : TRUE ELSE f.board
<1>0. /\ era \in 0..MaxEra /\ era # 0
      /\ NoOwner \in Owner /\ NoJob \in Status
  BY FirmwareAssumption DEF NoOwner, Owner, Status
<1>1. g \in Tab /\ g.file = NoFile /\ ~g.consent /\ g.update = NoJob /\ g.operation = t.operation
  BY <1>0 DEF Tab
<1>2. Forgotten(t) = Advanced(g)
  BY DEF Forgotten
<1>3. CASE t.targets \in {0, era}
  <2>1. f = t
    BY <1>3
  <2>2. b \in Boards \cup {NoBoard} /\ b \in {t.board} \cup {b} /\ (t.board # NoBoard => b = t.board)
    BY <2>1 DEF Tab
  <2>3. Targets(t, bs) = [t EXCEPT !.targets = era, !.listed = bs, !.board = b]
    BY <2>1 DEF Targets, Listing
  <2>4. t.file # NoFile => t.targets = era
    BY <1>3 DEF Filed
  <2>5. picking.st = "reading" /\ picking.owner.operation = t.operation => t.targets = era
    BY <1>3 DEF Picked
  <2> HIDE DEF b
  <2>6. /\ Targets(t, bs) \in Tab /\ Targets(t, bs).update = t.update
        /\ Targets(t, bs).targets = era /\ Targets(t, bs).board = b
        /\ Targets(t, bs).file = t.file /\ Targets(t, bs).fileEra = t.fileEra
        /\ Targets(t, bs).consent = t.consent /\ Targets(t, bs).consented = t.consented
        /\ Targets(t, bs).operation = t.operation
    BY <1>0, <2>2, <2>3 DEF Tab
  <2>7. Consented(Targets(t, bs)) /\ Filed(Targets(t, bs))
    BY <1>0, <2>2, <2>4, <2>6 DEF Consented, Filed
  <2>8. Picked(Targets(t, bs))
    BY <1>0, <2>5, <2>6 DEF Picked
  <2>9. QED
    BY <2>6, <2>7, <2>8
<1>4. CASE t.targets \notin {0, era}
  <2>1. f = Forgotten(t)
    BY <1>4
  <2> HIDE DEF g
  <2>2. f \in Tab /\ f.operation = t.operation + 1 /\ f.update = NoJob
    BY <1>1, <1>2, <2>1, AdvancedTab
  <2>3. f.file = NoFile /\ ~f.consent
    BY <1>1, <1>2, <2>1 DEF Advanced, Tab
  <2>4. b \in Boards \cup {NoBoard}
    BY <2>2 DEF Tab
  <2>5. Targets(t, bs) = [f EXCEPT !.targets = era, !.listed = bs, !.board = b]
    BY <1>4 DEF Targets, Listing
  <2> HIDE DEF b, f
  <2>6. /\ Targets(t, bs) \in Tab /\ Targets(t, bs).update = NoJob
        /\ Targets(t, bs).file = NoFile /\ ~Targets(t, bs).consent
        /\ Targets(t, bs).operation = t.operation + 1
    BY <1>0, <2>2, <2>3, <2>4, <2>5 DEF Tab
  <2>7. Consented(Targets(t, bs)) /\ Filed(Targets(t, bs))
    BY <2>6 DEF Consented, Filed
  <2>8. Picked(Targets(t, bs))
    BY <2>6 DEF Picked, Tab, Owner
  <2>9. QED
    BY <2>6, <2>7, <2>8
<1>5. QED
  BY <1>3, <1>4

-----------------------------------------------------------------------------
(* Every step keeps the invariant *)

PickingType == {NoTask} \cup [st : {"reading"}, file : Files, owner : Owner]

FlashingType ==
  {NoTask} \cup [st : {"upload"}, owner : Owner]
  \cup [st : {"accepted", "polled"}, owner : Owner, is : Status]
  \cup [st : {"poll"}, owner : Owner, job : 1..MaxJob]

CancellingType ==
  {NoTask} \cup [st : {"asked"}, owner : Owner, job : 1..MaxJob]
  \cup [st : {"served"}, owner : Owner, is : Status]

Update == [era : 1..MaxEra, board : Boards, file : Files, on : Review]

\* What the invariant says of types, taken apart.
LEMMA Types ==
  ASSUME FirmwareInv
  PROVE  /\ era \in 1..MaxEra /\ tab \in Tab
         /\ jobs \in Seq(Stages) /\ Len(jobs) \in Nat /\ Len(jobs) <= MaxJob
         /\ picking \in PickingType /\ flashing \in FlashingType /\ cancelling \in CancellingType
         /\ flashed \in Seq(Update)
         /\ discovery \in {NoTask} \cup [st : {"asked"}, era : 1..MaxEra]
BY DEF FirmwareInv, FirmwareTypeOK, Tab, PickingType, FlashingType, CancellingType, Update

\* The kinds of the next state, put together again.
LEMMA TypesBack ==
  ASSUME era' \in 1..MaxEra, tab' \in Tab, jobs' \in Seq(Stages), Len(jobs') <= MaxJob,
         picking' \in PickingType, flashing' \in FlashingType, cancelling' \in CancellingType,
         flashed' \in Seq(Update), discovery' \in {NoTask} \cup [st : {"asked"}, era : 1..MaxEra]
  PROVE  FirmwareTypeOK'
BY DEF FirmwareTypeOK, Tab, PickingType, FlashingType, CancellingType, Update

\* What each stage of a task carries.
LEMMA TaskTypes ==
  ASSUME FirmwareInv
  PROVE  /\ picking.st = "reading" => picking.file \in Files /\ picking.owner \in Owner
         /\ flashing.st \in {"none", "upload", "accepted", "polled", "poll"}
         /\ flashing.st # "none" => flashing.owner \in Owner
         /\ flashing.st \in {"accepted", "polled"} => flashing.is \in Status
         /\ flashing.st = "poll" => flashing.job \in 1..MaxJob
         /\ cancelling.st = "asked" => cancelling.owner \in Owner /\ cancelling.job \in 1..MaxJob
         /\ cancelling.st = "served" => cancelling.is \in Status
BY Types DEF PickingType, FlashingType, CancellingType, NoTask

\* The tab starts with nothing chosen.
LEMMA FirmwareStart == FirmwareInit => FirmwareInv
<1> SUFFICES ASSUME FirmwareInit PROVE FirmwareInv
  OBVIOUS
<1>1. /\ NoOwner \in Owner /\ NoJob \in Status /\ 0 \in 0..MaxEra /\ 0 \in 0..MaxOperation
      /\ 1 \in 1..MaxEra
  BY FirmwareAssumption DEF NoOwner, Owner, Status, FirmwareInit
<1>2. [era |-> 0, spent |-> FALSE, board |-> NoBoard, file |-> NoFile] \in Review
  BY <1>1 DEF Review
<1>3. tab \in Tab /\ ~tab.consent /\ tab.file = NoFile /\ tab.update = NoJob
  BY <1>1, <1>2 DEF FirmwareInit, Tab
<1>4. /\ jobs = <<>> /\ flashed = <<>> /\ era = 1 /\ discovery = NoTask /\ picking = NoTask
      /\ flashing = NoTask /\ cancelling = NoTask
  BY DEF FirmwareInit
<1>5. FirmwareTypeOK
  BY <1>1, <1>3, <1>4, FirmwareAssumption DEF FirmwareTypeOK, Tab
<1>6. Known(Len(jobs)) /\ Consented(tab) /\ Filed(tab) /\ Picked(tab)
  BY <1>3, <1>4 DEF Known, Consented, Filed, Picked, NoTask, NoJob
<1>7. FlashIsConsented /\ ConsentIsSpent
  BY <1>4 DEF FlashIsConsented, ConsentIsSpent
<1>8. QED
  BY <1>5, <1>6, <1>7 DEF FirmwareInv

\* The file that is read can only lose its owner when the operation advances.
LEMMA PickedLater ==
  ASSUME Picked(tab), picking' \in {picking, NoTask}, tab'.targets = tab.targets,
         tab.operation \in Nat, tab'.operation \in Nat, tab.operation <= tab'.operation,
         picking.st = "reading" => picking.owner.operation \in Nat
  PROVE  Picked(tab)'
BY DEF Picked, NoTask

\* Steps that leave the tab, or its targets and operation, as they were.
LEMMA SameTab ==
  ASSUME FirmwareInv, tab' = tab, picking' \in {picking, NoTask}, flashed' = flashed
  PROVE  /\ Consented(tab)' /\ Filed(tab)' /\ Picked(tab)' /\ tab' \in Tab
         /\ picking' \in PickingType /\ flashed' \in Seq(Update)
         /\ FlashIsConsented' /\ ConsentIsSpent'
<1>1. tab \in Tab /\ picking \in PickingType /\ flashed \in Seq(Update)
  BY Types
<1>2. QED
  BY <1>1 DEF FirmwareInv, Consented, Filed, Picked, FlashIsConsented, ConsentIsSpent,
     PickingType, NoTask

\* The job begun by an upload is the last one; those known before stay known.
LEMMA KnownLater ==
  ASSUME FirmwareInv, NEW n \in Nat, Len(jobs) <= n
  PROVE  Known(n)
<1>1. Len(jobs) \in Nat /\ tab \in Tab
  BY Types
<1>2. /\ \A u \in Status : u.job \in Nat
  BY DEF Status, NoJob
<1>3. /\ tab.update.job \in Nat
      /\ flashing.st \in {"accepted", "polled"} => flashing.is.job \in Nat
      /\ flashing.st = "poll" => flashing.job \in Nat
      /\ cancelling.st = "asked" => cancelling.job \in Nat
      /\ cancelling.st = "served" => cancelling.is.job \in Nat
  BY <1>1, <1>2, TaskTypes DEF Tab
<1>4. Known(Len(jobs))
  BY DEF FirmwareInv
<1>5. QED
  BY <1>1, <1>3, <1>4 DEF Known

\* The eras and the discovery.
LEMMA DiscoverySteps ==
  ASSUME FirmwareInv,
         \/ NextEra \/ Discover \/ DiscoveryFails \/ UNCHANGED firmwareVars
         \/ \E bs \in SUBSET Boards : Discovered(bs)
  PROVE  FirmwareInv'
<1>1. /\ era \in 1..MaxEra /\ tab \in Tab
      /\ jobs \in Seq(Stages) /\ Len(jobs) \in Nat /\ Len(jobs) <= MaxJob
      /\ picking \in PickingType /\ flashing \in FlashingType /\ cancelling \in CancellingType
      /\ flashed \in Seq(Update)
      /\ discovery \in {NoTask} \cup [st : {"asked"}, era : 1..MaxEra]
      /\ Known(Len(jobs)) /\ Consented(tab) /\ Filed(tab) /\ Picked(tab)
      /\ picking.st = "reading" => picking.owner \in Owner
  BY Types, TaskTypes DEF FirmwareInv
<1>2. UNCHANGED <<jobs, picking, flashing, cancelling, flashed>>
  BY DEF NextEra, Discover, DiscoveryFails, Discovered, firmwareVars
<1>3. /\ era' \in 1..MaxEra
      /\ discovery' \in {NoTask} \cup [st : {"asked"}, era : 1..MaxEra]
  BY <1>1, FirmwareAssumption DEF NextEra, Discover, DiscoveryFails, Discovered,
     firmwareVars
<1>4. /\ tab' \in Tab /\ tab'.update \in {tab.update, NoJob}
      /\ Consented(tab') /\ Filed(tab') /\ Picked(tab')
  <2>1. CASE tab' = tab
    BY <1>1, <2>1
  <2>2. CASE tab' = [tab EXCEPT !.listed = {}]
    <3>1. /\ tab' \in Tab /\ tab'.update = tab.update /\ tab'.targets = tab.targets
          /\ tab'.board = tab.board /\ tab'.file = tab.file /\ tab'.fileEra = tab.fileEra
          /\ tab'.consent = tab.consent /\ tab'.consented = tab.consented
          /\ tab'.operation = tab.operation
      BY <1>1, <2>2 DEF Tab
    <3>2. QED
      BY <1>1, <3>1 DEF Consented, Filed, Picked
  <2>3. CASE \E bs \in SUBSET Boards : Discovered(bs)
    BY <1>1, <2>3, TargetsTab DEF Discovered
  <2>4. QED
    BY <2>1, <2>2, <2>3 DEF NextEra, Discover, DiscoveryFails, firmwareVars
<1>5. Picked(tab)'
  BY <1>2, <1>4 DEF Picked
<1>6. Known(Len(jobs))'
  BY <1>1, <1>2, <1>4 DEF Known, NoJob
<1>7. FirmwareTypeOK'
  BY <1>1, <1>2, <1>3, <1>4, TypesBack
<1>8. FlashIsConsented' /\ ConsentIsSpent'
  BY <1>2 DEF FirmwareInv, FlashIsConsented, ConsentIsSpent
<1>9. QED
  BY <1>4, <1>5, <1>6, <1>7, <1>8 DEF FirmwareInv, Consented, Filed

\* Choosing a board and a file, and the consent.
LEMMA ChoosingSteps ==
  ASSUME FirmwareInv,
         \/ FileRead \/ FileDropped \/ RefuseFile \/ Acknowledge
         \/ \E b \in Boards : SelectBoard(b)
         \/ \E f \in Files : PickFile(f)
  PROVE  FirmwareInv'
<1>1. /\ era \in 1..MaxEra /\ tab \in Tab
      /\ jobs \in Seq(Stages) /\ Len(jobs) \in Nat /\ Len(jobs) <= MaxJob
      /\ picking \in PickingType /\ flashing \in FlashingType /\ cancelling \in CancellingType
      /\ flashed \in Seq(Update)
      /\ discovery \in {NoTask} \cup [st : {"asked"}, era : 1..MaxEra]
      /\ Known(Len(jobs)) /\ Consented(tab) /\ Filed(tab) /\ Picked(tab)
      /\ picking.st = "reading" => /\ picking.file \in Files /\ picking.owner \in Owner
                                   /\ picking.owner.operation \in Nat
      /\ tab.operation \in Nat
  BY Types, TaskTypes, FirmwareAssumption DEF FirmwareInv, Tab, Owner
<1>2. UNCHANGED <<era, jobs, discovery, flashing, cancelling, flashed>>
  BY DEF FileRead, FileDropped, RefuseFile, Acknowledge, SelectBoard, PickFile
<1>3. SUFFICES /\ tab' \in Tab /\ tab'.update = tab.update
               /\ Consented(tab') /\ Filed(tab') /\ Picked(tab)' /\ picking' \in PickingType
  <2>1. Known(Len(jobs))'
    BY <1>1, <1>2, <1>3 DEF Known
  <2>2. FirmwareTypeOK'
    BY <1>1, <1>2, <1>3, TypesBack
  <2>3. FlashIsConsented' /\ ConsentIsSpent'
    BY <1>2 DEF FirmwareInv, FlashIsConsented, ConsentIsSpent
  <2>4. QED
    BY <1>3, <2>1, <2>2, <2>3 DEF FirmwareInv, Consented, Filed
<1>4. CASE FileRead
  <2> DEFINE f == picking.file
  <2>1. /\ picking.st = "reading" /\ Current(picking.owner) /\ picking' = NoTask
        /\ tab' = [tab EXCEPT !.file = f, !.fileEra = era, !.consent = FALSE]
    BY <1>4 DEF FileRead
  <2>2. era = tab.targets /\ tab.targets # 0
    BY <1>1, <2>1 DEF Current, Picked
  <2>3. f \in Files \cup {NoFile} /\ era \in 0..MaxEra
    BY <1>1, <2>1
  <2> HIDE DEF f
  <2>4. /\ tab' \in Tab /\ tab'.update = tab.update /\ ~tab'.consent
        /\ tab'.fileEra = era /\ tab'.targets = tab.targets
    BY <1>1, <2>1, <2>3 DEF Tab
  <2>5. QED
    BY <2>1, <2>2, <2>4 DEF Consented, Filed, Picked, PickingType, NoTask
<1>5. CASE FileDropped
  BY <1>1, <1>5 DEF FileDropped, Consented, Filed, Picked, PickingType, NoTask
<1>6. CASE RefuseFile
  <2>1. tab' = [tab EXCEPT !.file = NoFile, !.consent = FALSE] /\ picking' = picking
    BY <1>6 DEF RefuseFile
  <2>2. /\ tab' \in Tab /\ tab'.update = tab.update /\ ~tab'.consent /\ tab'.file = NoFile
        /\ tab'.targets = tab.targets /\ tab'.operation = tab.operation
    BY <1>1, <2>1 DEF Tab
  <2>3. QED
    BY <1>1, <2>1, <2>2 DEF Consented, Filed, Picked
<1>7. CASE Acknowledge
  <2> DEFINE c == [era |-> tab.fileEra, spent |-> FALSE, board |-> tab.board, file |-> tab.file]
             a == ~tab.consent
  <2>1. tab' = [tab EXCEPT !.consent = a, !.consented = c] /\ picking' = picking
    BY <1>7 DEF Acknowledge
  <2>2. /\ c \in Review /\ a \in {TRUE, FALSE}
        /\ c.era = tab.fileEra /\ ~c.spent /\ c.board = tab.board /\ c.file = tab.file
    BY <1>1 DEF Tab, Review
  <2> HIDE DEF c, a
  <2>3. /\ tab' \in Tab /\ tab'.update = tab.update /\ tab'.consented = c
        /\ tab'.board = tab.board /\ tab'.file = tab.file /\ tab'.fileEra = tab.fileEra
        /\ tab'.targets = tab.targets /\ tab'.operation = tab.operation
    BY <1>1, <2>1, <2>2 DEF Tab
  <2>4. QED
    BY <1>1, <2>1, <2>2, <2>3 DEF Consented, Filed, Picked
<1>8. ASSUME NEW b \in Boards, SelectBoard(b)
      PROVE  /\ tab' \in Tab /\ tab'.update = tab.update
             /\ Consented(tab') /\ Filed(tab') /\ Picked(tab)' /\ picking' \in PickingType
  <2> DEFINE t == [tab EXCEPT !.board = b, !.consent = FALSE]
  <2>1. tab' = Advanced(t) /\ picking' = picking /\ tab.operation < MaxOperation
    BY <1>8 DEF SelectBoard
  <2>2. /\ t \in Tab /\ ~t.consent /\ t.update = tab.update /\ t.file = tab.file
        /\ t.fileEra = tab.fileEra /\ t.targets = tab.targets /\ t.operation = tab.operation
    BY <1>1, <1>8 DEF Tab
  <2> HIDE DEF t
  <2>3. Consented(t) /\ Filed(t)
    BY <1>1, <2>2 DEF Consented, Filed
  <2>4. /\ tab' \in Tab /\ tab'.update = tab.update /\ Consented(tab') /\ Filed(tab')
        /\ tab'.targets = tab.targets /\ tab'.operation = tab.operation + 1
    BY <2>1, <2>2, <2>3, AdvancedTab
  <2>5. Picked(tab)'
    BY <1>1, <2>1, <2>4, PickedLater
  <2>6. QED
    BY <1>1, <2>1, <2>4, <2>5
<1>9. ASSUME NEW f \in Files, PickFile(f)
      PROVE  /\ tab' \in Tab /\ tab'.update = tab.update
             /\ Consented(tab') /\ Filed(tab') /\ Picked(tab)' /\ picking' \in PickingType
  <2> DEFINE o == [Captured EXCEPT !.operation = @ + 1]
  <2>1. /\ tab' = Advanced(tab) /\ picking' = [st |-> "reading", file |-> f, owner |-> o]
        /\ tab.operation < MaxOperation /\ tab.targets = era
    BY <1>9 DEF PickFile, MayCapture
  <2>2. o = [era |-> era, operation |-> tab.operation + 1, board |-> tab.board]
    BY DEF Captured
  <2> HIDE DEF o
  <2>3. o \in Owner
    BY <1>1, <2>1, <2>2, FirmwareAssumption DEF Owner, Tab
  <2>4. /\ tab' \in Tab /\ tab'.update = tab.update /\ Consented(tab') /\ Filed(tab')
        /\ tab'.targets = tab.targets /\ tab'.operation = tab.operation + 1
    BY <1>1, <2>1, AdvancedTab
  <2>5. Picked(tab)'
    BY <1>1, <2>1, <2>2, <2>4 DEF Picked
  <2>6. QED
    BY <1>9, <2>1, <2>3, <2>4, <2>5 DEF PickingType
<1>10. QED
  BY <1>4, <1>5, <1>6, <1>7, <1>8, <1>9

\* Putting the upload down changes nothing the consent or the file depends on.
LEMMA NotSubmitting ==
  ASSUME NEW t \in Tab, Consented(t), Filed(t)
  PROVE  LET r == [t EXCEPT !.submitting = FALSE]
         IN  /\ r \in Tab /\ Consented(r) /\ Filed(r)
             /\ r.targets = t.targets /\ r.operation = t.operation /\ r.update = t.update
<1> DEFINE r == [t EXCEPT !.submitting = FALSE]
<1>1. /\ r \in Tab /\ r.update = t.update /\ r.targets = t.targets /\ r.operation = t.operation
      /\ r.board = t.board /\ r.file = t.file /\ r.fileEra = t.fileEra
      /\ r.consent = t.consent /\ r.consented = t.consented
  BY DEF Tab
<1> HIDE DEF r
<1>2. Consented(r) /\ Filed(r)
  BY <1>1 DEF Consented, Filed
<1>3. QED
  BY <1>1, <1>2 DEF r

\* A step that leaves the file and its reader alone, and does not flash, keeps the
\* invariant when the tab, the jobs and the tasks are again of their kind.
LEMMA QuietStep ==
  ASSUME FirmwareInv, era' = era, discovery' = discovery, picking' = picking, flashed' = flashed,
         jobs' \in Seq(Stages), Len(jobs') <= MaxJob,
         flashing' \in FlashingType, cancelling' \in CancellingType,
         tab' \in Tab, Consented(tab'), Filed(tab'),
         tab'.targets = tab.targets, tab'.operation = tab.operation,
         Known(Len(jobs))'
  PROVE  FirmwareInv'
<1>1. /\ era \in 1..MaxEra /\ tab \in Tab /\ picking \in PickingType /\ flashed \in Seq(Update)
      /\ discovery \in {NoTask} \cup [st : {"asked"}, era : 1..MaxEra]
  BY Types
<1>2. Picked(tab)'
  BY DEF FirmwareInv, Picked
<1>3. FirmwareTypeOK'
  BY <1>1, TypesBack
<1>4. FlashIsConsented' /\ ConsentIsSpent'
  BY DEF FirmwareInv, FlashIsConsented, ConsentIsSpent
<1>5. QED
  BY <1>2, <1>3, <1>4 DEF FirmwareInv, Consented, Filed

\* The upload is sent on the consent that stands, for the file of these targets.
LEMMA FlashStep == FirmwareInv /\ Flash => FirmwareInv'
<1> SUFFICES ASSUME FirmwareInv, Flash PROVE FirmwareInv'
  OBVIOUS
<1> DEFINE o == [Captured EXCEPT !.operation = @ + 1]
           t == [tab EXCEPT !.submitting = TRUE, !.jobOwner = o]
           u == [era |-> era, board |-> tab.board, file |-> tab.file, on |-> tab.consented]
<1>1. /\ era \in 1..MaxEra /\ tab \in Tab
      /\ jobs \in Seq(Stages) /\ Len(jobs) \in Nat /\ Len(jobs) <= MaxJob
      /\ picking \in PickingType /\ cancelling \in CancellingType
      /\ flashed \in Seq(Update)
      /\ discovery \in {NoTask} \cup [st : {"asked"}, era : 1..MaxEra]
      /\ Known(Len(jobs)) /\ Consented(tab) /\ Filed(tab) /\ Picked(tab)
      /\ picking.st = "reading" => picking.owner.operation \in Nat
      /\ tab.operation \in Nat
  BY Types, TaskTypes, FirmwareAssumption DEF FirmwareInv, Tab, Owner
<1>2. /\ tab.targets = era /\ tab.board \in tab.listed /\ tab.file # NoFile /\ tab.consent
      /\ tab.operation < MaxOperation
      /\ tab' = Advanced(t) /\ flashing' = [st |-> "upload", owner |-> o]
      /\ flashed' = Append(flashed, u)
      /\ UNCHANGED <<era, jobs, discovery, picking, cancelling>>
  BY DEF Flash, Ready, MayCapture
<1>3. o = [era |-> era, operation |-> tab.operation + 1, board |-> tab.board]
  BY DEF Captured
<1>4. /\ u \in Update /\ u.era = era /\ u.board = tab.board /\ u.file = tab.file
      /\ u.on = tab.consented
  BY <1>1, <1>2 DEF Update, Tab
<1>5. u.era = u.on.era /\ u.file = u.on.file /\ u.on.board \in {u.board, NoBoard} /\ ~u.on.spent
  BY <1>1, <1>2, <1>4 DEF Consented, Filed
<1> HIDE DEF o, u
<1>6. o \in Owner
  BY <1>1, <1>2, <1>3, FirmwareAssumption DEF Owner, Tab
<1>7. /\ t \in Tab /\ t.update = tab.update /\ t.targets = tab.targets
      /\ t.operation = tab.operation /\ t.board = tab.board /\ t.file = tab.file
      /\ t.fileEra = tab.fileEra /\ t.consent = tab.consent /\ t.consented = tab.consented
  BY <1>1, <1>6 DEF Tab
<1> HIDE DEF t
<1>8. Consented(t) /\ Filed(t)
  BY <1>1, <1>7 DEF Consented, Filed
<1>9. /\ tab' \in Tab /\ tab'.update = tab.update /\ Consented(tab') /\ Filed(tab')
      /\ tab'.targets = tab.targets /\ tab'.operation = tab.operation + 1
  BY <1>2, <1>7, <1>8, AdvancedTab
<1>10. Picked(tab)'
  BY <1>1, <1>2, <1>9, PickedLater
<1>11. flashing' \in FlashingType /\ flashing'.st = "upload"
  BY <1>2, <1>6 DEF FlashingType
<1>12. Known(Len(jobs))'
  BY <1>1, <1>2, <1>9, <1>11 DEF Known
<1>13. /\ flashed' \in Seq(Update) /\ Len(flashed') = Len(flashed) + 1
       /\ \A i \in 1..Len(flashed) : flashed'[i] = flashed[i]
       /\ flashed'[Len(flashed) + 1] = u
  BY <1>1, <1>2, <1>4
<1>14. /\ FlashIsConsented' /\ ConsentIsSpent'
  <2>1. /\ DOMAIN flashed = 1..Len(flashed) /\ DOMAIN flashed' = 1..(Len(flashed) + 1)
        /\ Len(flashed) \in Nat
    BY <1>1, <1>13
  <2>2. \A i \in DOMAIN flashed' : i \in DOMAIN flashed \/ flashed'[i] = u
    BY <1>13, <2>1
  <2>3. \A i \in DOMAIN flashed' :
          /\ flashed'[i].era = flashed'[i].on.era /\ flashed'[i].file = flashed'[i].on.file
          /\ flashed'[i].on.board \in {flashed'[i].board, NoBoard} /\ ~flashed'[i].on.spent
    BY <1>5, <1>13, <2>1, <2>2 DEF FirmwareInv, FlashIsConsented, ConsentIsSpent
  <2>4. QED
    BY <2>3 DEF FlashIsConsented, ConsentIsSpent
<1>15. FirmwareTypeOK'
  BY <1>1, <1>2, <1>9, <1>11, <1>13, TypesBack
<1>16. QED
  BY <1>9, <1>10, <1>12, <1>14, <1>15 DEF FirmwareInv, Consented, Filed

\* A job changes in place.
LEMMA JobChanges ==
  ASSUME NEW js \in Seq(Stages), NEW j, NEW x \in Stages
  PROVE  /\ [js EXCEPT ![j] = x] \in Seq(Stages)
         /\ Len([js EXCEPT ![j] = x]) = Len(js)
<1> DEFINE ks == [js EXCEPT ![j] = x]
<1>1. /\ Len(js) \in Nat /\ js \in [1..Len(js) -> Stages]
  OBVIOUS
<1>2. ks \in [1..Len(js) -> Stages]
  BY <1>1
<1> HIDE DEF ks
<1>3. ks \in Seq(Stages) /\ Len(ks) = Len(js)
  BY <1>1, <1>2
<1>4. QED
  BY <1>3 DEF ks

\* The upload and the poll of its job.
LEMMA FlashingSteps ==
  ASSUME FirmwareInv,
         \/ UploadServed \/ UploadEnds \/ UploadFails \/ FlashAbandoned
         \/ PollServed \/ PollShown \/ PollRefused
         \/ \E j \in 1..MaxJob : JobEnds(j)
  PROVE  FirmwareInv'
<1>1. /\ tab \in Tab /\ jobs \in Seq(Stages) /\ Len(jobs) \in Nat /\ Len(jobs) <= MaxJob
      /\ flashing \in FlashingType /\ cancelling \in CancellingType
      /\ Known(Len(jobs)) /\ Consented(tab) /\ Filed(tab)
      /\ flashing.st # "none" => flashing.owner \in Owner
      /\ flashing.st \in {"accepted", "polled"} => flashing.is \in Status
      /\ flashing.st = "poll" => flashing.job \in 1..MaxJob
  BY Types, TaskTypes DEF FirmwareInv
<1>2. UNCHANGED <<era, discovery, picking, cancelling, flashed>>
  BY DEF UploadServed, UploadEnds, UploadFails, FlashAbandoned, PollServed, PollShown,
         PollRefused, JobEnds
<1>3. NoTask \in FlashingType /\ NoTask.st = "none"
  BY DEF FlashingType, NoTask
<1>4. SUFFICES /\ jobs' \in Seq(Stages) /\ Len(jobs') <= MaxJob /\ flashing' \in FlashingType
               /\ tab' \in Tab /\ Consented(tab') /\ Filed(tab')
               /\ tab'.targets = tab.targets /\ tab'.operation = tab.operation
               /\ Known(Len(jobs))'
  BY <1>1, <1>2, <1>4, QuietStep
<1>5. ASSUME NEW j \in 1..MaxJob, JobEnds(j)
      PROVE  /\ jobs' \in Seq(Stages) /\ Len(jobs') <= MaxJob /\ flashing' \in FlashingType
             /\ tab' = tab /\ Known(Len(jobs))'
  <2>1. /\ jobs' = [jobs EXCEPT ![j] = "ended"] /\ "ended" \in Stages
        /\ UNCHANGED <<tab, flashing>>
    BY <1>5 DEF JobEnds, Stages
  <2>2. jobs' \in Seq(Stages) /\ Len(jobs') = Len(jobs)
    BY <1>1, <2>1, JobChanges
  <2>3. QED
    BY <1>1, <1>2, <2>1, <2>2 DEF Known
<1>6. CASE UploadServed
  <2> DEFINE u == [job |-> Len(jobs) + 1, stage |-> "running"]
  <2>1. /\ Len(jobs) < MaxJob /\ jobs' = Append(jobs, "running") /\ tab' = tab
        /\ flashing.st = "upload"
        /\ flashing' = [st |-> "accepted", owner |-> flashing.owner, is |-> u]
    BY <1>6 DEF UploadServed
  <2>2. "running" \in Stages /\ Len(jobs) + 1 \in 1..MaxJob
    BY <1>1, <2>1, FirmwareAssumption DEF Stages
  <2>3. u \in Status /\ u.job = Len(jobs) + 1
    BY <2>2 DEF Status
  <2> HIDE DEF u
  <2>4. jobs' \in Seq(Stages) /\ Len(jobs') = Len(jobs) + 1
    BY <1>1, <2>1, <2>2
  <2>5. /\ flashing' \in FlashingType /\ flashing'.st = "accepted" /\ flashing'.is = u
    BY <1>1, <2>1, <2>3 DEF FlashingType
  <2>6. Known(Len(jobs) + 1)
    BY <1>1, KnownLater
  <2>7. Known(Len(jobs))'
    BY <1>2, <2>1, <2>3, <2>4, <2>5, <2>6 DEF Known
  <2>8. QED
    BY <1>1, <2>1, <2>2, <2>4, <2>5, <2>7
<1>7. CASE UploadEnds
  <2> DEFINE t == [tab EXCEPT !.submitting = FALSE]
             f == [st |-> "poll", owner |-> flashing.owner, job |-> flashing.is.job]
  <2>1. /\ flashing.st = "accepted" /\ tab' = Showing(t, flashing.is) /\ jobs' = jobs
        /\ flashing' = f
    BY <1>7 DEF UploadEnds
  <2>2. /\ t \in Tab /\ Consented(t) /\ Filed(t)
        /\ t.targets = tab.targets /\ t.operation = tab.operation
    BY <1>1, NotSubmitting
  <2> HIDE DEF t
  <2>3. /\ tab' \in Tab /\ tab'.update = flashing.is /\ Consented(tab') /\ Filed(tab')
        /\ tab'.targets = tab.targets /\ tab'.operation = tab.operation
    BY <1>1, <2>1, <2>2, ShowingTab
  <2>4. flashing.is.job \in 1..MaxJob
    BY <1>1, <2>1 DEF Known, Status, NoJob
  <2>5. f \in FlashingType /\ f.st = "poll" /\ f.job = flashing.is.job
    BY <1>1, <2>1, <2>4 DEF FlashingType
  <2>6. Known(Len(jobs))'
    BY <1>1, <1>2, <2>1, <2>3, <2>5 DEF Known
  <2>7. QED
    BY <1>1, <2>1, <2>3, <2>5, <2>6
<1>8. CASE UploadFails
  <2> DEFINE t == [tab EXCEPT !.submitting = FALSE]
  <2>1. tab' = t /\ jobs' = jobs /\ flashing' = NoTask
    BY <1>8 DEF UploadFails
  <2>2. /\ t \in Tab /\ Consented(t) /\ Filed(t) /\ t.update = tab.update
        /\ t.targets = tab.targets /\ t.operation = tab.operation
    BY <1>1, NotSubmitting
  <2> HIDE DEF t
  <2>3. Known(Len(jobs))'
    BY <1>1, <1>2, <1>3, <2>1, <2>2 DEF Known
  <2>4. QED
    BY <1>1, <1>3, <2>1, <2>2, <2>3
<1>9. CASE FlashAbandoned \/ PollRefused
  <2>1. tab' = tab /\ jobs' = jobs /\ flashing' = NoTask
    BY <1>9 DEF FlashAbandoned, PollRefused
  <2>2. Known(Len(jobs))'
    BY <1>1, <1>2, <1>3, <2>1 DEF Known
  <2>3. QED
    BY <1>1, <1>3, <2>1, <2>2
<1>10. CASE PollServed
  <2> DEFINE u == Job(flashing.job)
             f == [st |-> "polled", owner |-> flashing.owner, is |-> u]
  <2>1. flashing.st = "poll" /\ tab' = tab /\ jobs' = jobs /\ flashing' = f
    BY <1>10 DEF PollServed
  <2>2. flashing.job \in 1..Len(jobs)
    BY <1>1, <2>1 DEF Known
  <2>3. u \in Status /\ u.job = flashing.job
    BY <1>1, <2>1, <2>2 DEF Job, Status
  <2> HIDE DEF u
  <2>4. f \in FlashingType /\ f.st = "polled" /\ f.is = u
    BY <1>1, <2>1, <2>3 DEF FlashingType
  <2>5. Known(Len(jobs))'
    BY <1>1, <1>2, <2>1, <2>2, <2>3, <2>4 DEF Known
  <2>6. QED
    BY <1>1, <2>1, <2>4, <2>5
<1>11. CASE PollShown
  <2> DEFINE f == [st |-> "poll", owner |-> flashing.owner, job |-> flashing.is.job]
  <2>1. /\ flashing.st = "polled" /\ tab' = Showing(tab, flashing.is) /\ jobs' = jobs
        /\ flashing' = IF Ended(flashing.is) THEN NoTask ELSE f
    BY <1>11 DEF PollShown
  <2>2. /\ tab' \in Tab /\ tab'.update = flashing.is /\ Consented(tab') /\ Filed(tab')
        /\ tab'.targets = tab.targets /\ tab'.operation = tab.operation
    BY <1>1, <2>1, ShowingTab
  <2>3. flashing.is.job \in 1..MaxJob
    BY <1>1, <2>1 DEF Known, Status, NoJob
  <2>4. f \in FlashingType /\ f.st = "poll" /\ f.job = flashing.is.job
    BY <1>1, <2>1, <2>3 DEF FlashingType
  <2> HIDE DEF f
  <2>5. Known(Len(jobs))'
    BY <1>1, <1>2, <1>3, <2>1, <2>2, <2>4 DEF Known
  <2>6. QED
    BY <1>1, <1>3, <2>1, <2>2, <2>4, <2>5
<1>12. QED
  BY <1>1, <1>5, <1>6, <1>7, <1>8, <1>9, <1>10, <1>11

\* The cancel button and its answer.
LEMMA CancelSteps ==
  ASSUME FirmwareInv, CancelUpdate \/ CancelServed \/ CancelShown \/ CancelDropped
  PROVE  FirmwareInv'
<1>1. /\ tab \in Tab /\ jobs \in Seq(Stages) /\ Len(jobs) \in Nat /\ Len(jobs) <= MaxJob
      /\ flashing \in FlashingType /\ cancelling \in CancellingType
      /\ Known(Len(jobs)) /\ Consented(tab) /\ Filed(tab)
      /\ cancelling.st = "asked" => cancelling.owner \in Owner /\ cancelling.job \in 1..MaxJob
      /\ cancelling.st = "served" => cancelling.is \in Status
  BY Types, TaskTypes DEF FirmwareInv
<1>2. UNCHANGED <<era, discovery, picking, flashing, flashed>>
  BY DEF CancelUpdate, CancelServed, CancelShown, CancelDropped
<1>3. NoTask \in CancellingType /\ NoTask.st = "none"
  BY DEF CancellingType, NoTask
<1>4. SUFFICES /\ jobs' \in Seq(Stages) /\ Len(jobs') <= MaxJob /\ cancelling' \in CancellingType
               /\ tab' \in Tab /\ Consented(tab') /\ Filed(tab')
               /\ tab'.targets = tab.targets /\ tab'.operation = tab.operation
               /\ Known(Len(jobs))'
  BY <1>1, <1>2, <1>4, QuietStep
<1>5. CASE CancelUpdate
  <2> DEFINE c == [st |-> "asked", owner |-> tab.jobOwner, job |-> tab.update.job]
  <2>1. tab.update.job # 0 /\ cancelling' = c /\ tab' = tab /\ jobs' = jobs
    BY <1>5 DEF CancelUpdate
  <2>2. tab.update.job \in 1..MaxJob /\ tab.jobOwner \in Owner
    BY <1>1, <2>1 DEF Tab, Status, NoJob
  <2>3. c \in CancellingType /\ c.st = "asked" /\ c.job = tab.update.job
    BY <2>2 DEF CancellingType
  <2>4. Known(Len(jobs))'
    BY <1>1, <1>2, <2>1, <2>3 DEF Known
  <2>5. QED
    BY <1>1, <2>1, <2>3, <2>4
<1>6. CASE CancelServed
  <2>1. cancelling.st = "asked" /\ tab' = tab
    BY <1>6 DEF CancelServed
  <2>2. PICK s \in Stages :
          /\ jobs' = [jobs EXCEPT ![cancelling.job] = s]
          /\ cancelling' = [st |-> "served", owner |-> cancelling.owner,
                            is |-> [job |-> cancelling.job, stage |-> s]]
    BY <1>6 DEF CancelServed
  <2>3. jobs' \in Seq(Stages) /\ Len(jobs') = Len(jobs)
    BY <1>1, <2>2, JobChanges
  <2>4. [job |-> cancelling.job, stage |-> s] \in Status
    BY <1>1, <2>1 DEF Status
  <2>5. /\ cancelling' \in CancellingType /\ cancelling'.st = "served"
        /\ cancelling'.is.job = cancelling.job
    BY <1>1, <2>1, <2>2, <2>4 DEF CancellingType
  <2>6. Known(Len(jobs))'
    BY <1>1, <1>2, <2>1, <2>3, <2>5 DEF Known
  <2>7. QED
    BY <1>1, <2>1, <2>3, <2>5, <2>6
<1>7. CASE CancelShown
  <2>1. /\ cancelling.st = "served" /\ tab' = Showing(tab, cancelling.is) /\ jobs' = jobs
        /\ cancelling' = NoTask
    BY <1>7 DEF CancelShown
  <2>2. /\ tab' \in Tab /\ tab'.update = cancelling.is /\ Consented(tab') /\ Filed(tab')
        /\ tab'.targets = tab.targets /\ tab'.operation = tab.operation
    BY <1>1, <2>1, ShowingTab
  <2>3. Known(Len(jobs))'
    BY <1>1, <1>2, <1>3, <2>1, <2>2 DEF Known
  <2>4. QED
    BY <1>1, <1>3, <2>1, <2>2, <2>3
<1>8. CASE CancelDropped
  <2>1. tab' = tab /\ jobs' = jobs /\ cancelling' = NoTask
    BY <1>8 DEF CancelDropped
  <2>2. Known(Len(jobs))'
    BY <1>1, <1>2, <1>3, <2>1 DEF Known
  <2>3. QED
    BY <1>1, <1>3, <2>1, <2>2
<1>9. QED
  BY <1>5, <1>6, <1>7, <1>8

\* Every step of the firmware tab keeps the invariant.
LEMMA FirmwareStep == FirmwareInv /\ [FirmwareNext]_firmwareVars => FirmwareInv'
<1> SUFFICES ASSUME FirmwareInv, [FirmwareNext]_firmwareVars PROVE FirmwareInv'
  OBVIOUS
<1>1. CASE \/ NextEra \/ Discover \/ DiscoveryFails \/ UNCHANGED firmwareVars
           \/ \E bs \in SUBSET Boards : Discovered(bs)
  BY <1>1, DiscoverySteps
<1>2. CASE \/ FileRead \/ FileDropped \/ RefuseFile \/ Acknowledge
           \/ \E b \in Boards : SelectBoard(b)
           \/ \E f \in Files : PickFile(f)
  BY <1>2, ChoosingSteps
<1>3. CASE Flash
  BY <1>3, FlashStep
<1>4. CASE \/ UploadServed \/ UploadEnds \/ UploadFails \/ FlashAbandoned
           \/ PollServed \/ PollShown \/ PollRefused
           \/ \E j \in 1..MaxJob : JobEnds(j)
  BY <1>4, FlashingSteps
<1>5. CASE CancelUpdate \/ CancelServed \/ CancelShown \/ CancelDropped
  BY <1>5, CancelSteps
<1>6. QED
  BY <1>1, <1>2, <1>3, <1>4, <1>5 DEF FirmwareNext

-----------------------------------------------------------------------------

\* The inductive invariant of the firmware tab.
THEOREM FirmwareInvariance == FirmwareSpec => []FirmwareInv
<1>1. FirmwareInit => FirmwareInv
  BY FirmwareStart
<1>2. FirmwareInv /\ [FirmwareNext]_firmwareVars => FirmwareInv'
  BY FirmwareStep
<1>3. QED
  BY <1>1, <1>2, PTL DEF FirmwareSpec

\* Every variable of the tab, its owners and its jobs keeps its kind.
THEOREM FirmwareTypes == FirmwareSpec => []FirmwareTypeOK
<1>1. FirmwareInv => FirmwareTypeOK
  BY DEF FirmwareInv
<1>2. QED
  BY <1>1, FirmwareInvariance, PTL

\* flash: a board is flashed at the station, with the file and to the board the
\* operator saw when the box was ticked, whatever was answered late in between.
THEOREM FlashesConsented == FirmwareSpec => []FlashIsConsented
<1>1. FirmwareInv => FlashIsConsented
  BY DEF FirmwareInv
<1>2. QED
  BY <1>1, FirmwareInvariance, PTL

\* The consent effect: no flash is sent on a consent that outlived a job's end.
THEOREM ConsentsSpent == FirmwareSpec => []ConsentIsSpent
<1>1. FirmwareInv => ConsentIsSpent
  BY DEF FirmwareInv
<1>2. QED
  BY <1>1, FirmwareInvariance, PTL

-----------------------------------------------------------------------------
(***************************************************************************)
(* CalibrationEditor: its types, that no point leaves a draft unless some  *)
(* station had it or the operator gave it up, but for certain points at    *)
(* three answers, and that a capture takes away only points of its sensor, *)
(* on a confirmation of its own.                                           *)
(***************************************************************************)

Page == [mounted : {TRUE}, current : BOOLEAN, loaded : BOOLEAN,
         dialog : {"closed", "add", "replace", "confirmed"}, dirty : BOOLEAN,
         cfg : (SUBSET Points) \cup {NoDraft}, saving : BOOLEAN, capturing : BOOLEAN]
Awaited == Requests \cup {"capture", "layout"}

\* What the request r of the task c carries: a file has points, what a save that was
\* answered sent of its sensor is settled, and a capture that replaces was confirmed.
Carries(c, r, at) ==
  /\ r.st \in {"none", "sent", "served"}
  /\ c = "capture" => r.st # "served"
  /\ c = "capture" /\ r.st = "sent" => (r.replace => r.confirmed)
  /\ c = "save" /\ r.st = "sent" => r.of \subseteq Points
  /\ c = "discard" /\ r.st = "sent" => r.gone \subseteq Points
  /\ r.st = "served" => r.file \subseteq Points
  /\ c = "save" /\ r.st = "served" => OfSensor(r.was.of, r.was.sensor) \subseteq at
  /\ c = "discard" /\ r.st = "served" => r.was.gone \subseteq Points

RequestsOK(rs, at) ==
  /\ rs = [c \in Awaited |-> rs[c]]
  /\ \A c \in Awaited : Carries(c, rs[c], at)

\* Then the page e has had a file or a draft, so that it shows points, be it none.
HasPoints(e, rs) ==
  e.dirty \/ e.loaded \/ rs["capture"].st # "none" \/ rs["discard"].st # "none"

\* The page e over the draft d of its address: a draft of the page's edits, if it
\* has any and its owner, and no dialog is confirmed by a capture of before.
PageOK(e, d, rs, f) ==
  /\ e \in Page
  /\ HasPoints(e, rs) => e.cfg \subseteq Points
  /\ e.dialog = "confirmed" => f = TRUE
  /\ e.current => d = IF e.dirty THEN e.cfg ELSE NoDraft

CalTyped ==
  /\ site \in [at : Sites, moves : 0..MaxMove] /\ selected \in Sensors
  /\ stored \in [Sites -> SUBSET Points]
  /\ drafts \in [Sites -> (SUBSET Points) \cup {NoDraft}]
  /\ made \in 0..MaxPoint /\ settled \subseteq Points /\ fresh \in BOOLEAN

CalInv ==
  /\ CalTyped
  /\ RequestsOK(requests, settled)
  /\ editor = NoEditor => \A c \in Awaited : requests[c].st = "none"
  /\ editor # NoEditor => PageOK(editor, drafts[site.at], requests, fresh)

\* What holds of the page while it is mounted.
LEMMA PageNow ==
  ASSUME CalInv, editor.mounted
  PROVE  /\ editor \in Page /\ editor # NoEditor
         /\ HasPoints(editor, requests) => editor.cfg \subseteq Points
         /\ editor.dialog = "confirmed" => fresh = TRUE
         /\ editor.current => drafts[site.at] = IF editor.dirty THEN editor.cfg ELSE NoDraft
BY DEF CalInv, PageOK, NoEditor

LEMMA UnmountedNow ==
  ASSUME CalInv, ~editor.mounted
  PROVE  editor = NoEditor /\ \A c \in Awaited : requests[c].st = "none"
BY DEF CalInv, PageOK, Page

\* A request is answered, or a capture ends, on a page that is mounted.
LEMMA AwaitedMounted ==
  ASSUME CalInv, NEW c \in Awaited, requests[c].st # "none"
  PROVE  editor.mounted
BY UnmountedNow

\* No point is the mark of a missing draft.
LEMMA PointsAreNoDraft ==
  /\ \A f \in SUBSET Points : f # NoDraft
  /\ \A p \in Points : p \notin NoDraft
<1>1. \A p \in Points : p.n \in 1..MaxPoint
  BY DEF Points
<1>2. \A q \in NoDraft : q.n = 0
  BY DEF NoDraft
<1>3. 0 \notin 1..MaxPoint
  BY CalibrationAssumption
<1>4. \A p \in Points : p \notin NoDraft
  BY <1>1, <1>2, <1>3
<1>5. \E q : q \in NoDraft
  BY DEF NoDraft
<1>6. QED
  BY <1>4, <1>5

\* The page becomes e, and the draft on disk follows.
LEMMA DisplaysDraft ==
  ASSUME CalInv, NEW e \in Page, Displays(e)
  PROVE  /\ editor' = e
         /\ drafts' \in [Sites -> (SUBSET Points) \cup {NoDraft}]
         /\ e.current => drafts'[site.at] = IF e.dirty THEN e.cfg ELSE NoDraft
         /\ \A st \in Sites : st # site.at \/ ~e.current => drafts'[st] = drafts[st]
<1>1. drafts \in [Sites -> (SUBSET Points) \cup {NoDraft}] /\ site.at \in Sites
  BY DEF CalInv, CalTyped
<1> DEFINE d == IF e.dirty THEN e.cfg ELSE NoDraft
<1>2. d \in (SUBSET Points) \cup {NoDraft}
  BY DEF Page
<1>3. editor' = e /\ drafts' = IF e.current THEN [drafts EXCEPT ![site.at] = d] ELSE drafts
  BY DEF Displays, DraftKept
<1> HIDE DEF d
<1>4. QED
  BY <1>1, <1>2, <1>3 DEF d

LEMMA DisplaysKeeps ==
  ASSUME CalInv, NEW e \in Page, Displays(e), site' = site, selected' \in Sensors,
         HasPoints(e, requests') => e.cfg \subseteq Points,
         e.dialog = "confirmed" => fresh' = TRUE,
         stored' \in [Sites -> SUBSET Points], made' \in 0..MaxPoint,
         settled' \subseteq Points, fresh' \in BOOLEAN, RequestsOK(requests', settled')
  PROVE  CalInv'
<1>1. /\ editor' = e
      /\ drafts' \in [Sites -> (SUBSET Points) \cup {NoDraft}]
      /\ e.current => drafts'[site.at] = IF e.dirty THEN e.cfg ELSE NoDraft
  BY DisplaysDraft
<1>2. CalTyped'
  BY <1>1 DEF CalInv, CalTyped
<1>3. e # NoEditor
  BY DEF Page, NoEditor
<1>4. PageOK(e, drafts'[site'.at], requests', fresh')
  BY <1>1 DEF PageOK
<1>5. QED
  BY <1>1, <1>2, <1>3, <1>4 DEF CalInv

\* A step that leaves the points alone.
LEMMA RemainsKeeps ==
  ASSUME CalInv, editor.mounted, NEW e \in Page, editor' = e,
         UNCHANGED <<site, stored, drafts, made, settled>>, selected' \in Sensors,
         e.cfg = editor.cfg, e.dirty = editor.dirty, e.loaded = editor.loaded,
         e.current => editor.current, HasPoints(editor, requests') => HasPoints(editor, requests),
         e.dialog = "confirmed" => fresh' = TRUE,
         fresh' \in BOOLEAN, RequestsOK(requests', settled')
  PROVE  CalInv'
<1>1. CalTyped'
  BY DEF CalInv, CalTyped
<1>2. e # NoEditor
  BY DEF Page, NoEditor
<1>3. HasPoints(e, requests') => e.cfg \subseteq Points
  <2>1. HasPoints(e, requests') => HasPoints(editor, requests')
    BY DEF HasPoints
  <2>2. QED
    BY <2>1, PageNow
<1>4. PageOK(e, drafts'[site'.at], requests', fresh')
  BY <1>3, PageNow DEF PageOK
<1>5. QED
  BY <1>1, <1>2, <1>4 DEF CalInv

\* One request changes.
LEMMA RequestChanges ==
  ASSUME CalInv, NEW c \in Awaited, NEW r, requests' = [requests EXCEPT ![c] = r],
         settled \subseteq settled', Carries(c, r, settled')
  PROVE  /\ RequestsOK(requests', settled') /\ requests'[c] = r
         /\ \A k \in Awaited \ {c} : requests'[k] = requests[k]
         /\ r.st = "none" \/ c \notin {"capture", "discard"} =>
              \A e : HasPoints(e, requests') => HasPoints(e, requests)
<1>1. requests = [k \in Awaited |-> requests[k]] /\ \A k \in Awaited : Carries(k, requests[k], settled)
  BY DEF CalInv, RequestsOK
<1>2. /\ requests' = [k \in Awaited |-> IF k = c THEN r ELSE requests[k]]
      /\ requests'[c] = r /\ \A k \in Awaited \ {c} : requests'[k] = requests[k]
  BY <1>1
<1>3. \A k \in Awaited \ {c} : Carries(k, requests[k], settled')
  BY <1>1 DEF Carries
<1>4. \A k \in Awaited : Carries(k, requests'[k], settled')
  BY <1>2, <1>3
<1>5. requests' = [k \in Awaited |-> requests'[k]]
  BY <1>2
<1>6. "capture" \in Awaited /\ "discard" \in Awaited
  BY DEF Awaited, Requests
<1>7. ASSUME r.st = "none" \/ c \notin {"capture", "discard"}, NEW e, HasPoints(e, requests')
      PROVE  HasPoints(e, requests)
  BY <1>2, <1>6, <1>7 DEF HasPoints
<1>8. QED
  BY <1>2, <1>4, <1>5, <1>7 DEF RequestsOK

\* None changes, though more points are settled.
LEMMA RequestsStay ==
  ASSUME CalInv, requests' = requests, settled \subseteq settled'
  PROVE  RequestsOK(requests', settled')
<1>1. requests = [k \in Awaited |-> requests[k]] /\ \A k \in Awaited : Carries(k, requests[k], settled)
  BY DEF CalInv, RequestsOK
<1>2. \A k \in Awaited : Carries(k, requests[k], settled')
  BY <1>1 DEF Carries
<1>3. QED
  BY <1>1, <1>2 DEF RequestsOK

LEMMA AtRestOK ==
  ASSUME NEW at
  PROVE  /\ RequestsOK(AtRest, at) /\ \A c \in Awaited : AtRest[c] = Resting /\ AtRest[c].st = "none"
         /\ \A c \in Requests : Carries(c, [st |-> "none"], at) /\ c \in Awaited /\ c # "capture"
<1>1. AtRest = [c \in Awaited |-> Resting] /\ Resting.st = "none" /\ Resting = [st |-> "none"]
  BY DEF AtRest, Awaited, Resting
<1>2. \A c : Carries(c, Resting, at)
  BY <1>1 DEF Carries
<1>3. \A c \in Requests : c \in Awaited /\ c # "capture"
  BY DEF Requests, Awaited
<1>4. QED
  BY <1>1, <1>2, <1>3 DEF RequestsOK

-----------------------------------------------------------------------------
(* The page *)

LEMMA MountsKeeps ==
  ASSUME CalInv, Mounts
  PROVE  CalInv' /\ drafts' = drafts
<1> DEFINE draft == drafts[site.at]
           e == [mounted |-> TRUE, current |-> TRUE, loaded |-> FALSE,
                 dialog |-> "closed", dirty |-> draft # NoDraft, cfg |-> draft,
                 saving |-> FALSE, capturing |-> FALSE]
           asked == [st |-> "sent"]
<1>1. /\ Displays(e) /\ requests' = [AtRest EXCEPT !["load"] = asked, !["layout"] = asked]
      /\ selected' \in Sensors /\ UNCHANGED <<site, stored, made, settled, fresh>>
  BY DEF Mounts
<1>2. drafts \in [Sites -> (SUBSET Points) \cup {NoDraft}] /\ site.at \in Sites
  BY DEF CalInv, CalTyped
<1>3. draft \in (SUBSET Points) \cup {NoDraft}
  BY <1>2
<1>4. PICK dirty \in BOOLEAN : dirty = (draft # NoDraft)
  OBVIOUS
<1> HIDE DEF draft
<1>5. e \in Page /\ e.dirty = dirty /\ e.cfg = draft /\ e.loaded = FALSE /\ e.current = TRUE
      /\ e.dialog = "closed"
  BY <1>3, <1>4 DEF Page
<1> HIDE DEF e
<1>6. "load" \in Requests /\ "load" # "capture" /\ "capture" \in Awaited /\ "discard" \in Awaited
  BY DEF Requests, Awaited
<1>7. /\ RequestsOK(AtRest, settled)
      /\ \A c \in Awaited : AtRest[c] = Resting /\ AtRest[c].st = "none"
  BY AtRestOK
<1>8. Carries("load", asked, settled) /\ Carries("layout", asked, settled)
  BY DEF Carries
<1> HIDE DEF asked
<1>9. /\ requests' = [c \in Awaited |-> IF c \in {"load", "layout"} THEN asked ELSE AtRest[c]]
      /\ "load" \in Awaited
  BY <1>1, <1>6, <1>7 DEF RequestsOK, Awaited
<1>10. RequestsOK(requests', settled') /\ requests'["capture"].st = "none"
       /\ requests'["discard"].st = "none"
  <2>1. \A c \in Awaited : Carries(c, requests'[c], settled)
    BY <1>7, <1>8, <1>9 DEF RequestsOK
  <2>2. settled' = settled /\ requests' = [c \in Awaited |-> requests'[c]]
    BY <1>1, <1>9
  <2>3. QED
    BY <1>6, <1>7, <1>9, <2>1, <2>2 DEF RequestsOK
<1>11. CalInv'
  <2>1. CalTyped
    BY DEF CalInv
  <2>2. selected' \in Sensors /\ UNCHANGED <<site, stored, made, settled, fresh>>
    BY <1>1
  <2>3. HasPoints(e, requests') => e.cfg \subseteq Points
    BY <1>3, <1>4, <1>5, <1>10 DEF HasPoints
  <2>4. e.dialog # "confirmed"
    BY <1>5
  <2>5. QED
    BY <1>1, <1>5, <1>10, <2>1, <2>2, <2>3, <2>4, DisplaysKeeps DEF CalTyped
<1>12. drafts'[site.at] = draft
  <2>1. drafts'[site.at] = IF e.dirty THEN e.cfg ELSE NoDraft
    BY <1>1, <1>5, DisplaysDraft
  <2>2. QED
    BY <1>4, <1>5, <2>1
<1>13. drafts' = drafts
  <2>1. /\ drafts' \in [Sites -> (SUBSET Points) \cup {NoDraft}]
        /\ \A st \in Sites : st # site.at => drafts'[st] = drafts[st]
    BY <1>1, <1>5, DisplaysDraft
  <2>2. \A st \in Sites : drafts'[st] = drafts[st]
    BY <1>12, <2>1 DEF draft
  <2>3. QED
    BY <1>2, <2>1, <2>2
<1>14. QED
  BY <1>11, <1>13

LEMMA UnmountsKeeps ==
  ASSUME CalInv, Unmounts
  PROVE  CalInv'
<1>1. editor' = NoEditor /\ requests' = AtRest /\ fresh' = FALSE
      /\ UNCHANGED <<site, selected, stored, drafts, made, settled>>
  BY DEF Unmounts
<1>2. RequestsOK(AtRest, settled) /\ \A c \in Awaited : AtRest[c].st = "none"
  BY AtRestOK
<1>3. CalTyped'
  BY <1>1 DEF CalInv, CalTyped
<1>4. QED
  BY <1>1, <1>2, <1>3 DEF CalInv

LEMMA LosesOwnerKeeps ==
  ASSUME CalInv, LosesOwner
  PROVE  CalInv'
<1> DEFINE e == [editor EXCEPT !.current = FALSE]
<1>1. editor' = e /\ editor.mounted /\ requests' = AtRest
      /\ UNCHANGED <<site, selected, stored, drafts, made, settled, fresh>>
  BY DEF LosesOwner
<1>2. editor \in Page /\ (editor.dialog = "confirmed" => fresh = TRUE)
  BY <1>1, PageNow
<1>3. e \in Page /\ e.cfg = editor.cfg /\ e.dirty = editor.dirty /\ e.loaded = editor.loaded
      /\ e.current = FALSE /\ e.dialog = editor.dialog
  BY <1>2 DEF Page
<1> HIDE DEF e
<1>4. RequestsOK(requests', settled') /\ \A c \in Awaited : requests'[c].st = "none"
  BY <1>1, AtRestOK
<1>5. requests'["capture"].st = "none" /\ requests'["discard"].st = "none"
  BY <1>4 DEF Awaited, Requests
<1>6. HasPoints(editor, requests') => HasPoints(editor, requests)
  BY <1>5 DEF HasPoints
<1>7. fresh \in BOOLEAN /\ selected \in Sensors
  BY DEF CalInv, CalTyped
<1>8. QED
  BY <1>1, <1>2, <1>3, <1>4, <1>6, <1>7, RemainsKeeps

LEMMA AddressMovesKeeps ==
  ASSUME CalInv, NEW st \in Sites, AddressMoves(st)
  PROVE  CalInv'
<1>1. /\ site' = [at |-> st, moves |-> site.moves + 1] /\ site.moves < MaxMove
      /\ UNCHANGED <<selected, stored, drafts, editor, requests, made, settled, fresh>>
      /\ editor.mounted => ~editor.current
  BY DEF AddressMoves
<1>2. site.moves \in 0..MaxMove /\ MaxMove \in Nat
  BY CalibrationAssumption DEF CalInv, CalTyped
<1>3. CalTyped'
  BY <1>1, <1>2 DEF CalInv, CalTyped
<1>4. editor # NoEditor => PageOK(editor, drafts[st], requests, fresh)
  BY <1>1 DEF CalInv, PageOK, Page
<1>5. QED
  BY <1>1, <1>3, <1>4 DEF CalInv

-----------------------------------------------------------------------------
(* The selected sensor *)

\* A request of rs is dropped.
LEMMA DroppedOK ==
  ASSUME NEW rs, NEW at, RequestsOK(rs, at), NEW c \in Awaited
  PROVE  /\ RequestsOK([rs EXCEPT ![c] = Resting], at)
         /\ [rs EXCEPT ![c] = Resting][c].st = "none"
         /\ \A k \in Awaited \ {c} : [rs EXCEPT ![c] = Resting][k] = rs[k]
<1> DEFINE q == [rs EXCEPT ![c] = Resting]
<1>1. rs = [k \in Awaited |-> rs[k]] /\ \A k \in Awaited : Carries(k, rs[k], at)
  BY DEF RequestsOK
<1>2. /\ q = [k \in Awaited |-> IF k = c THEN Resting ELSE rs[k]]
      /\ q[c] = Resting /\ \A k \in Awaited \ {c} : q[k] = rs[k]
  BY <1>1
<1>3. Carries(c, Resting, at) /\ Resting.st = "none"
  BY DEF Carries, Resting
<1> HIDE DEF q
<1>4. q = [k \in Awaited |-> q[k]]
  BY <1>2
<1>5. \A k \in Awaited : Carries(k, q[k], at)
  BY <1>1, <1>2, <1>3
<1>6. RequestsOK(q, at) /\ q[c].st = "none"
  BY <1>2, <1>3, <1>4, <1>5 DEF RequestsOK
<1>7. QED
  BY <1>2, <1>6 DEF q

LEMMA PanelsGo ==
  ASSUME CalInv, NEW s \in Sensors
  PROVE  /\ RequestsOK(WithPanelsOf(s), settled)
         /\ \A k \in Awaited \ {"apply"} : WithPanelsOf(s)[k] = requests[k]
<1>1. RequestsOK(requests, settled) /\ "apply" \in Awaited
  BY DEF CalInv, Awaited, Requests
<1>2. CASE s = selected
  BY <1>1, <1>2 DEF WithPanelsOf
<1>3. CASE s # selected
  BY <1>1, <1>3, DroppedOK DEF WithPanelsOf
<1>4. QED
  BY <1>2, <1>3

\* Another sensor is selected; the page and its draft stay as they are.
LEMMA SelectionKeeps ==
  ASSUME CalInv, NEW s \in Sensors, PicksSensor(s) \/ LayoutArrives(s)
  PROVE  /\ CalInv' /\ UNCHANGED <<drafts, editor>>
         /\ requests'["capture"] = requests["capture"]
<1> DEFINE rs == WithPanelsOf(s)
<1>1. /\ "capture" \in Awaited \ {"apply", "layout"} /\ "discard" \in Awaited \ {"apply", "layout"}
      /\ "layout" \in Awaited
  BY DEF Awaited, Requests
<1>2. RequestsOK(rs, settled) /\ \A k \in Awaited \ {"apply"} : rs[k] = requests[k]
  BY PanelsGo
<1>3. /\ requests' \in {rs, [rs EXCEPT !["layout"] = Resting]} /\ selected' = s
      /\ UNCHANGED <<site, stored, drafts, editor, made, settled, fresh>>
      /\ editor.mounted \/ requests["layout"].st = "sent"
  BY DEF PicksSensor, LayoutArrives
<1> HIDE DEF rs
<1>4. /\ RequestsOK([rs EXCEPT !["layout"] = Resting], settled)
      /\ \A k \in Awaited \ {"layout"} : [rs EXCEPT !["layout"] = Resting][k] = rs[k]
  BY <1>1, <1>2, DroppedOK
<1>5. RequestsOK(requests', settled) /\ \A k \in Awaited \ {"apply", "layout"} : requests'[k] = requests[k]
  BY <1>2, <1>3, <1>4
<1>6. editor.mounted
  BY <1>1, <1>3, AwaitedMounted
<1>7. editor \in Page /\ (editor.dialog = "confirmed" => fresh = TRUE) /\ fresh \in BOOLEAN
  BY <1>6, PageNow DEF CalInv, CalTyped
<1>8. HasPoints(editor, requests') => HasPoints(editor, requests)
  BY <1>1, <1>5 DEF HasPoints
<1>9. CalInv'
  BY <1>3, <1>5, <1>6, <1>7, <1>8, RemainsKeeps
<1>10. QED
  BY <1>1, <1>3, <1>5, <1>9

-----------------------------------------------------------------------------
(* Edits *)

LEMMA EditedIs ==
  ASSUME NEW e \in Page, NEW f \in SUBSET Points
  PROVE  /\ Edited(e, f) \in Page /\ Edited(e, f).cfg = f /\ Edited(e, f).dirty = TRUE
         /\ Edited(e, f).loaded = e.loaded /\ Edited(e, f).current = e.current
         /\ Edited(e, f).dialog = e.dialog
BY DEF Edited, Page

LEMMA NextPointIs ==
  ASSUME CalInv, made < MaxPoint
  PROVE  selected \in Sensors /\ made + 1 \in 0..MaxPoint
         /\ \A s \in Sensors : NextPoint(s) \in Points
<1>1. made \in 0..MaxPoint /\ MaxPoint \in Nat /\ selected \in Sensors
  BY CalibrationAssumption DEF CalInv, CalTyped
<1>2. made + 1 \in 1..MaxPoint
  BY <1>1
<1>3. QED
  BY <1>1, <1>2 DEF NextPoint, Points

LEMMA EntersKeeps ==
  ASSUME CalInv, Enters
  PROVE  CalInv'
<1> DEFINE f == editor.cfg \cup {NextPoint(selected)}
<1>1. /\ CanEdit /\ made < MaxPoint /\ Displays(Edited(editor, f)) /\ made' = made + 1
      /\ UNCHANGED <<site, selected, stored, requests, settled, fresh>>
  BY DEF Enters
<1>2. editor \in Page /\ editor.cfg \subseteq Points /\ editor.dialog = "closed" /\ editor.loaded
  BY <1>1, PageNow DEF CanEdit, HasPoints
<1>3. NextPoint(selected) \in Points /\ made + 1 \in 0..MaxPoint
  BY <1>1, NextPointIs
<1>4. f \in SUBSET Points
  BY <1>2, <1>3
<1> DEFINE e == Edited(editor, f)
<1>5. e \in Page /\ e.cfg = f /\ e.dialog = "closed"
  BY <1>2, <1>4, EditedIs
<1> HIDE DEF e, f
<1>6. RequestsOK(requests', settled')
  BY <1>1, RequestsStay
<1>7. Displays(e) /\ UNCHANGED <<site, selected, stored, requests, settled, fresh>> /\ made' \in 0..MaxPoint
  BY <1>1, <1>3 DEF e, f
<1>8. CalTyped
  BY DEF CalInv
<1>9. QED
  BY <1>4, <1>5, <1>6, <1>7, <1>8, DisplaysKeeps DEF CalTyped

LEMMA RemovesKeeps ==
  ASSUME CalInv, Removes
  PROVE  CalInv'
<1> DEFINE channel == OfSensor(editor.cfg, selected)
<1>1. PICK gone \in {channel} \cup {{p} : p \in channel} :
        Displays(Edited(editor, editor.cfg \ gone)) /\ settled' = settled \cup gone
  BY DEF Removes
<1>2. CanEdit /\ UNCHANGED <<site, selected, stored, requests, made, fresh>>
  BY DEF Removes
<1>3. editor \in Page /\ editor.cfg \subseteq Points /\ editor.dialog = "closed" /\ editor.loaded
  BY <1>2, PageNow DEF CanEdit, HasPoints
<1>4. gone \subseteq editor.cfg
  BY DEF OfSensor
<1> HIDE DEF channel
<1> DEFINE f == editor.cfg \ gone
           e == Edited(editor, f)
<1>5. f \in SUBSET Points
  BY <1>3
<1>6. e \in Page /\ e.cfg = f /\ e.dialog = "closed"
  BY <1>3, <1>5, EditedIs
<1>7. Displays(e)
  BY <1>1
<1> HIDE DEF e, f
<1>8. settled \subseteq settled' /\ settled' \subseteq Points
  BY <1>1, <1>3, <1>4 DEF CalInv, CalTyped
<1>9. RequestsOK(requests', settled')
  BY <1>2, <1>8, RequestsStay
<1>10. CalTyped
  BY DEF CalInv
<1>11. QED
  BY <1>2, <1>5, <1>6, <1>7, <1>8, <1>9, <1>10, DisplaysKeeps DEF CalTyped

-----------------------------------------------------------------------------
(* Captures *)

LEMMA DialogKeeps ==
  ASSUME CalInv, editor.mounted, NEW d \in {"closed", "add", "replace", "confirmed"},
         editor' = [editor EXCEPT !.dialog = d], fresh' = (d = "confirmed"),
         UNCHANGED <<site, selected, stored, drafts, requests, made, settled>>
  PROVE  CalInv'
<1> DEFINE e == [editor EXCEPT !.dialog = d]
<1>1. editor \in Page
  BY PageNow
<1>2. e \in Page /\ e.cfg = editor.cfg /\ e.dirty = editor.dirty /\ e.loaded = editor.loaded
      /\ e.current = editor.current /\ e.dialog = d
  BY <1>1 DEF Page
<1>3. editor' = e
  OBVIOUS
<1> HIDE DEF e
<1>4. RequestsOK(requests', settled') /\ selected \in Sensors
  BY RequestsStay DEF CalInv, CalTyped
<1>5. fresh' \in BOOLEAN /\ (e.dialog = "confirmed" => fresh' = TRUE)
  BY <1>2
<1>6. QED
  BY <1>2, <1>3, <1>4, <1>5, RemainsKeeps

LEMMA DialogsKeep ==
  ASSUME CalInv, (\E does \in {"add", "replace"} : OpensDialog(does)) \/ TicksReset \/ ClosesDialog
  PROVE  CalInv' /\ UNCHANGED <<drafts, requests>>
<1>1. ASSUME NEW does \in {"add", "replace"}, OpensDialog(does)
      PROVE  CalInv' /\ UNCHANGED <<drafts, requests>>
  <2>1. /\ editor.mounted /\ editor' = [editor EXCEPT !.dialog = does]
        /\ fresh' = (does = "confirmed") /\ UNCHANGED <<site, selected, stored, drafts, requests, made, settled>>
    BY <1>1 DEF OpensDialog, CanEdit
  <2>2. QED
    BY <2>1, DialogKeeps
<1>2. CASE TicksReset
  <2> DEFINE d == IF editor.dialog = "replace" THEN "confirmed" ELSE "replace"
  <2>1. editor.mounted /\ editor' = [editor EXCEPT !.dialog = d]
        /\ fresh' = (editor'.dialog = "confirmed")
        /\ UNCHANGED <<site, selected, stored, drafts, requests, made, settled>>
    BY <1>2 DEF TicksReset
  <2>2. d \in {"closed", "add", "replace", "confirmed"}
    OBVIOUS
  <2>3. editor \in Page
    BY <2>1, PageNow
  <2> HIDE DEF d
  <2>4. editor'.dialog = d
    BY <2>1, <2>3 DEF Page
  <2>5. QED
    BY <2>1, <2>2, <2>4, DialogKeeps
<1>3. CASE ClosesDialog
  <2>1. editor.mounted /\ editor' = [editor EXCEPT !.dialog = "closed"]
        /\ fresh' = ("closed" = "confirmed") /\ UNCHANGED <<site, selected, stored, drafts, requests, made, settled>>
    BY <1>3 DEF ClosesDialog
  <2>2. QED
    BY <2>1, DialogKeeps
<1>4. QED
  BY <1>1, <1>2, <1>3

LEMMA CapturesKeeps ==
  ASSUME CalInv, Captures
  PROVE  CalInv'
<1> DEFINE e == [editor EXCEPT !.capturing = TRUE]
           r == [st |-> "sent", sensor |-> selected,
                 replace |-> editor.dialog = "confirmed", confirmed |-> fresh]
<1>1. /\ editor.mounted /\ editor.loaded /\ editor' = e
      /\ requests' = [requests EXCEPT !["capture"] = r]
      /\ UNCHANGED <<site, selected, stored, drafts, made, settled, fresh>>
  BY DEF Captures
<1>2. editor \in Page /\ (editor.dialog = "confirmed" => fresh = TRUE) /\ fresh \in BOOLEAN
      /\ selected \in Sensors
  BY <1>1, PageNow DEF CalInv, CalTyped
<1>3. e \in Page /\ e.cfg = editor.cfg /\ e.dirty = editor.dirty /\ e.loaded = editor.loaded
      /\ e.current = editor.current /\ e.dialog = editor.dialog
  BY <1>2 DEF Page
<1> HIDE DEF e
<1>4. PICK again \in BOOLEAN : again = (editor.dialog = "confirmed")
  OBVIOUS
<1>5. r = [st |-> "sent", sensor |-> selected, replace |-> again, confirmed |-> fresh]
  BY <1>4
<1>6. again => fresh
  BY <1>2, <1>4
<1> HIDE DEF r
<1>7. r.st = "sent" /\ r.replace = again /\ r.confirmed = fresh
  BY <1>5
<1>8. Carries("capture", r, settled)
  BY <1>6, <1>7 DEF Carries
<1>9. "capture" \in Awaited
  BY DEF Awaited
<1>10. RequestsOK(requests', settled')
  BY <1>1, <1>8, <1>9, RequestChanges
<1>11. HasPoints(editor, requests)
  BY <1>1 DEF HasPoints
<1>12. QED
  BY <1>1, <1>2, <1>3, <1>10, <1>11, RemainsKeeps

LEMMA AfterCaptureIs ==
  ASSUME NEW dialog, NEW last
  PROVE  AfterCapture(dialog, last) \in {"closed", "add"}
BY DEF AfterCapture

LEMMA CaptureEndsKeeps ==
  ASSUME CalInv, CaptureEnds
  PROVE  CalInv'
<1> DEFINE c == requests["capture"]
           before == IF c.replace THEN editor.cfg \ OfSensor(editor.cfg, c.sensor) ELSE editor.cfg
           f == before \cup {NextPoint(c.sensor)}
<1>1. PICK last \in {FALSE, ~c.replace} :
        Displays([Edited(editor, f) EXCEPT !.capturing = FALSE, !.dialog = AfterCapture(@, last)])
  BY DEF CaptureEnds
<1>2. /\ c.st = "sent" /\ editor.current /\ selected = c.sensor /\ made < MaxPoint
      /\ requests' = [requests EXCEPT !["capture"] = Resting] /\ made' = made + 1
      /\ settled' = settled \cup (editor.cfg \ before) /\ fresh' = FALSE
      /\ UNCHANGED <<site, selected, stored>>
  BY DEF CaptureEnds
<1>3. "capture" \in Awaited /\ editor.mounted
  BY <1>2, AwaitedMounted DEF Awaited
<1>4. editor \in Page /\ editor.cfg \subseteq Points
  BY <1>2, <1>3, PageNow DEF HasPoints
<1>5. NextPoint(c.sensor) \in Points /\ made + 1 \in 0..MaxPoint
  BY <1>2, NextPointIs
<1>6. f \in SUBSET Points /\ before \subseteq Points
  BY <1>4, <1>5
<1> HIDE DEF f, before
<1> DEFINE d == Edited(editor, f)
           e == [d EXCEPT !.capturing = FALSE, !.dialog = AfterCapture(@, last)]
<1>7. d \in Page /\ d.cfg = f
  BY <1>4, <1>6, EditedIs
<1>8. Displays(e)
  BY <1>1
<1> HIDE DEF d
<1>9. e \in Page /\ e.cfg = f /\ e.dialog # "confirmed"
  BY <1>7, AfterCaptureIs DEF Page
<1> HIDE DEF e
<1>10. settled \subseteq settled' /\ settled' \subseteq Points /\ CalTyped
  BY <1>2, <1>4 DEF CalInv, CalTyped
<1>11. Carries("capture", Resting, settled')
  BY DEF Carries, Resting
<1>12. RequestsOK(requests', settled')
  BY <1>2, <1>3, <1>10, <1>11, RequestChanges
<1>13. made' \in 0..MaxPoint /\ fresh' \in BOOLEAN /\ UNCHANGED <<site, selected, stored>>
  BY <1>2, <1>5
<1>14. QED
  BY <1>6, <1>8, <1>9, <1>10, <1>12, <1>13, DisplaysKeeps DEF CalTyped

LEMMA CaptureFailsKeeps ==
  ASSUME CalInv, CaptureFails
  PROVE  CalInv'
<1>1. /\ requests["capture"].st = "sent" /\ requests' = [requests EXCEPT !["capture"] = Resting]
      /\ editor' \in {editor, [editor EXCEPT !.capturing = FALSE]}
      /\ UNCHANGED <<site, selected, stored, drafts, made, settled, fresh>>
  BY DEF CaptureFails
<1>2. "capture" \in Awaited /\ editor.mounted
  BY <1>1, AwaitedMounted DEF Awaited
<1>3. editor \in Page /\ (editor.dialog = "confirmed" => fresh = TRUE) /\ CalTyped
  BY <1>2, PageNow DEF CalInv
<1>4. PICK e \in Page :
        /\ e = editor' /\ e.cfg = editor.cfg /\ e.dirty = editor.dirty
        /\ e.loaded = editor.loaded /\ e.current = editor.current /\ e.dialog = editor.dialog
  BY <1>1, <1>3 DEF Page
<1>5. Carries("capture", Resting, settled)
  BY DEF Carries, Resting
<1>6. RequestsOK(requests', settled') /\ (HasPoints(editor, requests') => HasPoints(editor, requests))
  BY <1>1, <1>2, <1>5, RequestChanges DEF Resting
<1>7. QED
  BY <1>1, <1>2, <1>3, <1>4, <1>6, RemainsKeeps DEF CalTyped

-----------------------------------------------------------------------------
(* Requests *)

\* A request goes out; the page only shows that it saves.
LEMMA SendsKeeps ==
  ASSUME CalInv, editor.mounted, NEW c \in Requests, NEW r, Sends(c, r), r.st = "sent",
         c = "save" => r.of \subseteq Points,
         c = "discard" => editor.dirty /\ r.gone \subseteq Points,
         editor' = editor \/ editor' = [editor EXCEPT !.saving = TRUE]
  PROVE  CalInv' /\ drafts' = drafts
<1>1. requests' = [requests EXCEPT ![c] = r] /\ UNCHANGED <<site, selected, stored, drafts, made, settled, fresh>>
  BY DEF Sends
<1>2. c \in Awaited /\ c # "capture" /\ "capture" \in Awaited
  BY DEF Requests, Awaited
<1>3. editor \in Page /\ (editor.dialog = "confirmed" => fresh = TRUE) /\ fresh \in BOOLEAN
      /\ selected \in Sensors
  BY PageNow DEF CalInv, CalTyped
<1>4. /\ editor' \in Page /\ editor'.cfg = editor.cfg /\ editor'.dirty = editor.dirty
      /\ editor'.loaded = editor.loaded /\ editor'.current = editor.current
      /\ editor'.dialog = editor.dialog
  BY <1>3 DEF Page
<1>5. Carries(c, r, settled)
  BY <1>2 DEF Carries
<1>6. RequestsOK(requests', settled') /\ (HasPoints(editor, requests') => HasPoints(editor, requests))
  <2>1. CASE c = "discard"
    BY <1>1, <1>2, <1>5, <2>1, RequestChanges DEF HasPoints
  <2>2. CASE c # "discard"
    BY <1>1, <1>2, <1>5, <2>2, RequestChanges
  <2>3. QED
    BY <2>1, <2>2
<1>7. PICK e \in Page : e = editor'
  BY <1>4
<1>8. CalInv'
  BY <1>1, <1>3, <1>4, <1>6, <1>7, RemainsKeeps
<1>9. QED
  BY <1>1, <1>8

LEMMA SendersKeep ==
  ASSUME CalInv, Syncs \/ Discards \/ Saves \/ \E panel \in {"zero", "thermal"} : Applies(panel)
  PROVE  CalInv' /\ drafts' = drafts
<1>1. CASE Syncs
  <2> DEFINE r == [st |-> "sent", of |-> editor.cfg]
  <2>1. editor.mounted /\ Sends("sync", r) /\ editor' = editor
    BY <1>1 DEF Syncs
  <2>2. r.st = "sent" /\ "sync" \in Requests /\ "sync" \notin {"save", "discard"}
    BY DEF Requests
  <2> HIDE DEF r
  <2>3. QED
    BY <2>1, <2>2, SendsKeeps
<1>2. CASE Discards
  <2> DEFINE r == [st |-> "sent", gone |-> editor.cfg]
  <2>1. editor.mounted /\ editor.dirty /\ Sends("discard", r) /\ editor' = editor
    BY <1>2 DEF Discards
  <2>2. r.st = "sent" /\ r.gone = editor.cfg /\ "discard" \in Requests /\ "discard" # "save"
    BY DEF Requests
  <2>3. editor.cfg \subseteq Points
    BY <2>1, PageNow DEF HasPoints
  <2> HIDE DEF r
  <2>4. QED
    BY <2>1, <2>2, <2>3, SendsKeeps
<1>3. CASE Saves
  <2> DEFINE r == [st |-> "sent", of |-> editor.cfg, sensor |-> selected]
  <2>1. editor.mounted /\ editor.loaded /\ Sends("save", r) /\ editor' = [editor EXCEPT !.saving = TRUE]
    BY <1>3 DEF Saves, CanEdit
  <2>2. r.st = "sent" /\ r.of = editor.cfg /\ "save" \in Requests
    BY DEF Requests
  <2>3. editor.cfg \subseteq Points
    BY <2>1, PageNow DEF HasPoints
  <2> HIDE DEF r
  <2>4. QED
    BY <2>1, <2>2, <2>3, SendsKeeps
<1>4. ASSUME NEW panel \in {"zero", "thermal"}, Applies(panel)
      PROVE  CalInv' /\ drafts' = drafts
  <2> DEFINE r == [st |-> "sent", panel |-> panel]
  <2>1. editor.mounted /\ Sends("apply", r) /\ editor' = editor
    BY <1>4 DEF Applies, CanEdit
  <2>2. r.st = "sent" /\ "apply" \in Requests /\ "apply" \notin {"save", "discard"}
    BY DEF Requests
  <2> HIDE DEF r
  <2>3. QED
    BY <2>1, <2>2, SendsKeeps
<1>5. QED
  BY <1>1, <1>2, <1>3, <1>4

\* The files of the stations change, or the requests do, and nothing of the page.
LEMMA StationKeeps ==
  ASSUME CalInv, UNCHANGED <<site, selected, drafts, editor, fresh>>,
         stored' \in [Sites -> SUBSET Points], made' \in 0..MaxPoint,
         settled' \subseteq Points, RequestsOK(requests', settled'),
         editor.mounted \/ requests' = requests,
         HasPoints(editor, requests') => HasPoints(editor, requests)
  PROVE  CalInv'
<1>1. CalTyped'
  BY DEF CalInv, CalTyped
<1>2. editor = NoEditor => requests' = requests
  BY DEF NoEditor
<1>3. editor # NoEditor => PageOK(editor, drafts[site.at], requests', fresh)
  BY DEF CalInv, PageOK
<1>4. QED
  BY <1>1, <1>2, <1>3 DEF CalInv

LEMMA ServedKeeps ==
  ASSUME CalInv, NEW c \in Requests, Served(c)
  PROVE  CalInv'
<1> DEFINE r == requests[c]
           file == stored'[site.at]
           a == [st |-> "served", file |-> file, was |-> r]
<1>1. /\ r.st = "sent" /\ requests' = [requests EXCEPT ![c] = a]
      /\ stored' = IF c = "save" THEN [stored EXCEPT ![site.at] = Saved(@, r)] ELSE stored
      /\ settled' = IF c = "save" THEN settled \cup OfSensor(r.of, r.sensor) ELSE settled
      /\ UNCHANGED <<site, selected, drafts, editor, made, fresh>>
  BY DEF Served
<1>2. c \in Awaited /\ c # "capture" /\ "capture" \in Awaited
  BY DEF Requests, Awaited
<1>3. editor.mounted
  BY <1>1, <1>2, AwaitedMounted
<1>4. /\ c = "save" => r.of \subseteq Points
      /\ c = "discard" => r.gone \subseteq Points
  BY <1>1, <1>2 DEF CalInv, RequestsOK, Carries
<1>5. stored \in [Sites -> SUBSET Points] /\ site.at \in Sites /\ settled \subseteq Points
      /\ made' \in 0..MaxPoint
  BY <1>1 DEF CalInv, CalTyped
<1> HIDE DEF r
<1>6. stored' \in [Sites -> SUBSET Points] /\ file \subseteq Points
      /\ settled' \subseteq Points /\ settled \subseteq settled'
      /\ (c = "save" => OfSensor(r.of, r.sensor) \subseteq settled')
  <2>1. \A f \in SUBSET Points : c = "save" => Saved(f, r) \in SUBSET Points
    BY <1>4 DEF Saved, OfSensor
  <2>2. c = "save" => OfSensor(r.of, r.sensor) \subseteq Points
    BY <1>4 DEF OfSensor
  <2>3. stored' \in [Sites -> SUBSET Points]
    BY <1>1, <1>5, <2>1
  <2>4. QED
    BY <1>1, <1>5, <2>2, <2>3
<1> HIDE DEF file
<1>7. a.st = "served" /\ a.file = file /\ a.was = r
  OBVIOUS
<1> HIDE DEF a
<1>8. Carries(c, a, settled')
  BY <1>2, <1>4, <1>6, <1>7 DEF Carries
<1>9. RequestsOK(requests', settled') /\ (HasPoints(editor, requests') => HasPoints(editor, requests))
  <2>1. CASE c = "discard"
    BY <1>1, <1>2, <1>6, <1>8, <2>1, RequestChanges DEF HasPoints, r
  <2>2. CASE c # "discard"
    BY <1>1, <1>2, <1>6, <1>8, <2>2, RequestChanges
  <2>3. QED
    BY <2>1, <2>2
<1>10. QED
  BY <1>1, <1>3, <1>5, <1>6, <1>9, StationKeeps

LEMMA OthersSaveKeeps ==
  ASSUME CalInv, OthersSave
  PROVE  CalInv'
<1>1. /\ made < MaxPoint /\ made' = made + 1
      /\ UNCHANGED <<site, selected, drafts, editor, requests, fresh>>
  BY DEF OthersSave
<1> PICK s \in Sensors : /\ stored' = [stored EXCEPT ![site.at] = @ \cup {NextPoint(s)}]
                         /\ settled' = settled \cup {NextPoint(s)}
  BY DEF OthersSave
<1>2. NextPoint(s) \in Points /\ made + 1 \in 0..MaxPoint
  BY <1>1, NextPointIs
<1>3. stored \in [Sites -> SUBSET Points] /\ site.at \in Sites /\ settled \subseteq Points
  BY DEF CalInv, CalTyped
<1>4. stored' \in [Sites -> SUBSET Points] /\ settled' \subseteq Points /\ settled \subseteq settled'
      /\ made' \in 0..MaxPoint
  BY <1>1, <1>2, <1>3
<1>5. RequestsOK(requests', settled')
  BY <1>1, <1>4, RequestsStay
<1>6. QED
  BY <1>1, <1>4, <1>5, StationKeeps

LEMMA RequestFailsKeeps ==
  ASSUME CalInv, NEW c \in Requests, RequestFails(c)
  PROVE  CalInv'
<1>1. /\ requests[c].st # "none" /\ requests' = [requests EXCEPT ![c] = Resting]
      /\ editor' \in {editor, [editor EXCEPT !.saving = FALSE]}
      /\ UNCHANGED <<site, selected, stored, drafts, made, settled, fresh>>
  BY DEF RequestFails
<1>2. c \in Awaited /\ c # "capture" /\ "capture" \in Awaited
  BY DEF Requests, Awaited
<1>3. editor.mounted
  BY <1>1, <1>2, AwaitedMounted
<1>4. editor \in Page /\ (editor.dialog = "confirmed" => fresh = TRUE) /\ fresh \in BOOLEAN
      /\ selected \in Sensors
  BY <1>3, PageNow DEF CalInv, CalTyped
<1>5. /\ editor' \in Page /\ editor'.cfg = editor.cfg /\ editor'.dirty = editor.dirty
      /\ editor'.loaded = editor.loaded /\ editor'.current = editor.current
      /\ editor'.dialog = editor.dialog
  BY <1>1, <1>4 DEF Page
<1>6. Carries(c, Resting, settled)
  BY <1>2 DEF Carries, Resting
<1>7. RequestsOK(requests', settled') /\ (HasPoints(editor, requests') => HasPoints(editor, requests))
  BY <1>1, <1>2, <1>6, RequestChanges DEF Resting
<1>8. PICK e \in Page : e = editor'
  BY <1>5
<1>9. QED
  BY <1>1, <1>3, <1>4, <1>5, <1>7, <1>8, RemainsKeeps

-----------------------------------------------------------------------------
(* Answers *)

\* What comes with an answer: it is for a mounted page that has its owner.
LEMMA AnswersIs ==
  ASSUME CalInv, NEW c \in Requests, Answers(c)
  PROVE  /\ editor.mounted /\ editor \in Page /\ editor.current
         /\ requests[c].file \subseteq Points
         /\ c = "save" => OfSensor(requests[c].was.of, requests[c].was.sensor) \subseteq settled
         /\ c = "discard" => requests[c].was.gone \subseteq Points
         /\ requests'["capture"] = requests["capture"] /\ requests'[c].st = "none"
         /\ \A e : HasPoints(e, requests') => HasPoints(e, requests)
         /\ UNCHANGED <<site, selected, stored, made, fresh>>
         /\ settled \subseteq settled' => RequestsOK(requests', settled')
         /\ editor.dialog = "confirmed" => fresh = TRUE
         /\ HasPoints(editor, requests) => editor.cfg \subseteq Points
<1>1. /\ requests[c].st = "served" /\ editor.current /\ requests' = [requests EXCEPT ![c] = Resting]
      /\ UNCHANGED <<site, selected, stored, made, fresh>>
  BY DEF Answers
<1>2. c \in Awaited /\ c # "capture" /\ "capture" \in Awaited
  BY DEF Requests, Awaited
<1>3. editor.mounted
  BY <1>1, <1>2, AwaitedMounted
<1>4. Carries(c, requests[c], settled) /\ requests = [k \in Awaited |-> requests[k]]
  BY <1>2 DEF CalInv, RequestsOK
<1>5. /\ requests[c].file \subseteq Points
      /\ c = "save" => OfSensor(requests[c].was.of, requests[c].was.sensor) \subseteq settled
      /\ c = "discard" => requests[c].was.gone \subseteq Points
  BY <1>1, <1>4 DEF Carries
<1>6. requests'[c] = Resting /\ requests'["capture"] = requests["capture"] /\ Resting.st = "none"
  BY <1>1, <1>2, <1>4 DEF Resting
<1>7. ASSUME settled \subseteq settled'
      PROVE  RequestsOK(requests', settled')
  <2>1. Carries(c, Resting, settled')
    BY <1>2 DEF Carries, Resting
  <2>2. QED
    BY <1>1, <1>2, <1>7, <2>1, RequestChanges
<1>8. "discard" \in Awaited /\ (c # "discard" => requests'["discard"] = requests["discard"])
  BY <1>1, <1>4 DEF Requests, Awaited
<1>9. \A e : HasPoints(e, requests') => HasPoints(e, requests)
  BY <1>1, <1>6, <1>8 DEF HasPoints
<1>10. QED
  BY <1>1, <1>3, <1>5, <1>6, <1>7, <1>9, PageNow

LEMMA AnswersKeep ==
  ASSUME CalInv, NEW c \in Requests, Answers(c), NEW e \in Page, Displays(e),
         e.dialog = editor.dialog, settled \subseteq settled', settled' \subseteq Points,
         HasPoints(e, requests) => e.cfg \subseteq Points
  PROVE  CalInv'
<1>1. /\ requests'["capture"] = requests["capture"] /\ UNCHANGED <<site, selected, stored, made, fresh>>
      /\ RequestsOK(requests', settled') /\ (e.dialog = "confirmed" => fresh' = TRUE)
      /\ HasPoints(e, requests') => e.cfg \subseteq Points
  BY AnswersIs
<1>2. CalTyped
  BY DEF CalInv
<1>3. QED
  BY <1>1, <1>2, DisplaysKeeps DEF CalTyped

LEMMA FileLoadedKeeps ==
  ASSUME CalInv, FileLoaded
  PROVE  CalInv'
<1> DEFINE f == requests["load"].file
           e == IF editor.dirty THEN [editor EXCEPT !.loaded = TRUE]
                ELSE [editor EXCEPT !.loaded = TRUE, !.cfg = f]
<1>1. Answers("load") /\ Displays(e) /\ settled' = settled
  BY DEF FileLoaded
<1>2. "load" \in Requests /\ settled \subseteq Points
  BY DEF Requests, CalInv, CalTyped
<1>3. editor \in Page /\ f \subseteq Points /\ (editor.dirty => editor.cfg \subseteq Points)
  BY <1>1, <1>2, AnswersIs DEF HasPoints
<1> HIDE DEF f
<1>4. e \in Page /\ e.dialog = editor.dialog /\ e.cfg \subseteq Points
  <2>1. CASE editor.dirty
    BY <1>3, <2>1 DEF Page
  <2>2. CASE ~editor.dirty
    BY <1>3, <2>2 DEF Page
  <2>3. QED
    BY <2>1, <2>2
<1> HIDE DEF e
<1>5. QED
  BY <1>1, <1>2, <1>4, AnswersKeep

LEMMA FileOfAnotherInputKeeps ==
  ASSUME CalInv, FileOfAnotherInput
  PROVE  CalInv'
<1> DEFINE e == [editor EXCEPT !.loaded = FALSE]
<1>1. Answers("load") /\ Displays(e) /\ settled' = settled /\ editor.dirty
  BY DEF FileOfAnotherInput
<1>2. "load" \in Requests /\ settled \subseteq Points
  BY DEF Requests, CalInv, CalTyped
<1>3. editor \in Page /\ editor.cfg \subseteq Points
  BY <1>1, <1>2, AnswersIs DEF HasPoints
<1>4. e \in Page /\ e.dialog = editor.dialog /\ e.cfg = editor.cfg
  BY <1>3 DEF Page
<1> HIDE DEF e
<1>5. QED
  BY <1>1, <1>2, <1>3, <1>4, AnswersKeep DEF HasPoints

LEMMA SyncEndsKeeps ==
  ASSUME CalInv, SyncEnds
  PROVE  CalInv'
<1> DEFINE f == requests["sync"].file
           e == [editor EXCEPT !.loaded = TRUE, !.cfg = f]
<1>1. /\ Answers("sync") /\ settled' = settled
      /\ UNCHANGED <<editor, drafts>> \/ Displays(e)
  BY DEF SyncEnds
<1>2. "sync" \in Requests /\ settled \subseteq Points
  BY DEF Requests, CalInv, CalTyped
<1>3. /\ editor \in Page /\ f \subseteq Points /\ editor.mounted
      /\ (HasPoints(editor, requests') => HasPoints(editor, requests))
      /\ UNCHANGED <<site, selected, stored, made, fresh>>
      /\ RequestsOK(requests', settled')
      /\ editor.dialog = "confirmed" => fresh = TRUE
  BY <1>1, <1>2, AnswersIs
<1> HIDE DEF f
<1>4. e \in Page /\ e.dialog = editor.dialog /\ e.cfg \subseteq Points
  BY <1>3 DEF Page
<1> HIDE DEF e
<1>5. CASE UNCHANGED <<editor, drafts>>
  <2>1. CalTyped
    BY DEF CalInv
  <2>2. QED
    BY <1>1, <1>3, <1>5, <2>1, StationKeeps DEF CalTyped
<1>6. CASE Displays(e)
  BY <1>1, <1>2, <1>4, <1>6, AnswersKeep
<1>7. QED
  BY <1>1, <1>5, <1>6

LEMMA DiscardEndsKeeps ==
  ASSUME CalInv, DiscardEnds
  PROVE  CalInv'
<1> DEFINE f == requests["discard"].file
           e == [editor EXCEPT !.cfg = f, !.dirty = FALSE, !.loaded = TRUE]
           gone == requests["discard"].was.gone
<1>1. Answers("discard") /\ Displays(e) /\ settled' = settled \cup gone
  BY DEF DiscardEnds
<1>2. "discard" \in Requests /\ settled \subseteq Points
  BY DEF Requests, CalInv, CalTyped
<1>3. editor \in Page /\ f \subseteq Points /\ gone \subseteq Points
  BY <1>1, <1>2, AnswersIs
<1> HIDE DEF f, gone
<1>4. e \in Page /\ e.dialog = editor.dialog /\ e.cfg \subseteq Points
  BY <1>3 DEF Page
<1> HIDE DEF e
<1>5. settled \subseteq settled' /\ settled' \subseteq Points
  BY <1>1, <1>2, <1>3
<1>6. QED
  BY <1>1, <1>2, <1>4, <1>5, AnswersKeep

LEMMA ApplyEndsKeeps ==
  ASSUME CalInv, ApplyEnds
  PROVE  CalInv'
<1> DEFINE f == requests["apply"].file
           thermal == requests["apply"].was.panel = "thermal"
           e == [editor EXCEPT !.cfg = f, !.dirty = @ /\ thermal]
<1>1. Answers("apply") /\ Displays(e) /\ settled' = settled
  BY DEF ApplyEnds
<1>2. "apply" \in Requests /\ settled \subseteq Points
  BY DEF Requests, CalInv, CalTyped
<1>3. editor \in Page /\ f \subseteq Points
  BY <1>1, <1>2, AnswersIs
<1> HIDE DEF f, thermal
<1>4. PICK d \in BOOLEAN : d = (editor.dirty /\ thermal)
  OBVIOUS
<1>5. e = [editor EXCEPT !.cfg = f, !.dirty = d]
  BY <1>3, <1>4 DEF Page
<1> HIDE DEF e
<1>6. e \in Page /\ e.dialog = editor.dialog /\ e.cfg \subseteq Points
  BY <1>3, <1>5 DEF Page
<1>7. QED
  BY <1>1, <1>2, <1>6, AnswersKeep

\* What f has of the sensor that was saved is settled.
AllSaved(f) == OfSensor(f, requests["save"].was.sensor) \subseteq settled

\* A save that was overtaken by an edit leaves it; else what was edited is kept.
LEMMA SaveEndsIs ==
  ASSUME CalInv, SaveEnds
  PROVE  /\ Answers("save") /\ settled' = settled
         /\ \E e \in Page :
              /\ Displays(e) /\ e.dialog = editor.dialog /\ e.current = editor.current
              /\ \/ e.cfg = editor.cfg /\ e.dirty = editor.dirty /\ e.loaded = editor.loaded
                 \/ e.cfg \subseteq Points /\ AllSaved(editor.cfg)
<1> DEFINE r == requests["save"]
           f == r.file
           of == r.was.of
           s == [editor EXCEPT !.cfg = f, !.dirty = FALSE]
<1>1. /\ Answers("save") /\ settled' = settled
      /\ Displays([SaveAccepted(editor, of, f) EXCEPT !.saving = FALSE])
  BY DEF SaveEnds
<1>2. "save" \in Requests
  BY DEF Requests
<1>3. editor \in Page /\ f \subseteq Points /\ AllSaved(of)
  BY <1>1, <1>2, AnswersIs DEF AllSaved
<1> HIDE DEF f, of, r
<1>4. s \in Page /\ s.dialog = editor.dialog /\ s.current = editor.current /\ s.cfg = f
  BY <1>3 DEF Page
<1> HIDE DEF s
<1>5. SaveAccepted(editor, of, f) \in {editor, s}
      /\ (SaveAccepted(editor, of, f) = editor \/ editor.cfg = of)
  BY DEF SaveAccepted, s
<1>6. PICK a \in {editor, s} : a = SaveAccepted(editor, of, f)
  BY <1>5
<1> DEFINE e == [a EXCEPT !.saving = FALSE]
<1>7. a \in Page /\ a.dialog = editor.dialog /\ a.current = editor.current
  BY <1>3, <1>4
<1>8. e \in Page /\ e.dialog = a.dialog /\ e.current = a.current /\ e.cfg = a.cfg
      /\ e.dirty = a.dirty /\ e.loaded = a.loaded
  BY <1>7 DEF Page
<1>9. Displays(e)
  BY <1>1, <1>6
<1> HIDE DEF e
<1>10. \/ e.cfg = editor.cfg /\ e.dirty = editor.dirty /\ e.loaded = editor.loaded
       \/ e.cfg \subseteq Points /\ AllSaved(editor.cfg)
  <2>1. CASE a = editor
    BY <1>8, <2>1
  <2>2. CASE a # editor
    <3>1. a = s /\ editor.cfg = of
      BY <1>5, <1>6, <2>2
    <3>2. QED
      BY <1>3, <1>4, <1>8, <3>1
  <2>3. QED
    BY <2>1, <2>2
<1>11. e \in Page /\ e.dialog = editor.dialog /\ e.current = editor.current
  BY <1>7, <1>8
<1>12. QED
  BY <1>1, <1>9, <1>10, <1>11

LEMMA SaveEndsKeeps ==
  ASSUME CalInv, SaveEnds
  PROVE  CalInv'
<1>1. Answers("save") /\ settled' = settled
  BY SaveEndsIs
<1>2. PICK e \in Page :
        /\ Displays(e) /\ e.dialog = editor.dialog
        /\ \/ e.cfg = editor.cfg /\ e.dirty = editor.dirty /\ e.loaded = editor.loaded
           \/ e.cfg \subseteq Points
  BY SaveEndsIs
<1>3. "save" \in Requests /\ settled \subseteq Points
  BY DEF Requests, CalInv, CalTyped
<1>4. HasPoints(editor, requests) => editor.cfg \subseteq Points
  BY <1>1, <1>3, AnswersIs
<1>5. QED
  BY <1>1, <1>2, <1>3, <1>4, AnswersKeep DEF HasPoints

-----------------------------------------------------------------------------
(* The invariant *)

LEMMA CalStart ==
  ASSUME CalInit
  PROVE  CalInv
<1>1. /\ site \in [at : Sites, moves : {0}] /\ selected \in Sensors /\ stored = [st \in Sites |-> {}]
      /\ editor = NoEditor /\ requests = AtRest /\ settled = {} /\ fresh = FALSE
  BY DEF CalInit
<1>2. PICK left \in {NoDraft} \cup {{[sensor |-> s, n |-> 1]} : s \in Sensors} :
        /\ drafts = [st \in Sites |-> IF st = site.at THEN NoDraft ELSE left]
        /\ made = IF left = NoDraft THEN 0 ELSE 1
  BY DEF CalInit
<1>3. MaxPoint \in Nat /\ MaxPoint >= 1 /\ MaxMove \in Nat
  BY CalibrationAssumption
<1>4. left \in (SUBSET Points) \cup {NoDraft} /\ made \in 0..MaxPoint
  BY <1>2, <1>3 DEF Points
<1>5. drafts \in [Sites -> (SUBSET Points) \cup {NoDraft}]
  BY <1>2, <1>4
<1>6. site \in [at : Sites, moves : 0..MaxMove] /\ stored \in [Sites -> SUBSET Points]
  BY <1>1, <1>3
<1>7. CalTyped
  BY <1>1, <1>4, <1>5, <1>6 DEF CalTyped
<1>8. RequestsOK(requests, settled) /\ \A c \in Awaited : requests[c].st = "none"
  BY <1>1, AtRestOK
<1>9. QED
  BY <1>1, <1>7, <1>8 DEF CalInv

LEMMA CalStep ==
  ASSUME CalInv, [CalNext]_calVars
  PROVE  CalInv'
<1>1. CASE UNCHANGED calVars
  BY <1>1 DEF calVars, CalInv, CalTyped, RequestsOK, PageOK, HasPoints, Carries
<1>2. CASE Mounts \/ Unmounts \/ LosesOwner \/ Enters \/ Removes
  BY <1>2, MountsKeeps, UnmountsKeeps, LosesOwnerKeeps, EntersKeeps, RemovesKeeps
<1>3. CASE \/ \E st \in Sites : AddressMoves(st)
           \/ \E s \in Sensors : PicksSensor(s) \/ LayoutArrives(s)
  BY <1>3, AddressMovesKeeps, SelectionKeeps
<1>4. CASE (\E does \in {"add", "replace"} : OpensDialog(does)) \/ TicksReset \/ ClosesDialog
  BY <1>4, DialogsKeep
<1>5. CASE Captures \/ CaptureEnds \/ CaptureFails
  BY <1>5, CapturesKeeps, CaptureEndsKeeps, CaptureFailsKeeps
<1>6. CASE Syncs \/ Discards \/ Saves \/ \E panel \in {"zero", "thermal"} : Applies(panel)
  BY <1>6, SendersKeep
<1>7. CASE OthersSave \/ \E c \in Requests : Served(c) \/ RequestFails(c)
  BY <1>7, OthersSaveKeeps, ServedKeeps, RequestFailsKeeps
<1>8. CASE \/ FileLoaded \/ FileOfAnotherInput \/ SyncEnds \/ DiscardEnds \/ ApplyEnds
           \/ SaveEnds
  BY <1>8, FileLoadedKeeps, FileOfAnotherInputKeeps, SyncEndsKeeps, DiscardEndsKeeps,
     ApplyEndsKeeps, SaveEndsKeeps
<1>9. QED
  BY <1>1, <1>2, <1>3, <1>4, <1>5, <1>6, <1>7, <1>8 DEF CalNext

\* In every state the draft on disk is that of the page as long as it has its owner,
\* what a save sent of its sensor is settled once it is answered, and a capture that
\* replaces was confirmed.
THEOREM CalibrationInvariance == CalSpec => []CalInv
BY CalStart, CalStep, PTL DEF CalSpec

\* Every variable keeps its type, and edits are on disk while the page has its owner.
THEOREM CalibrationTypes == CalSpec => []CalTypeOK
<1>1. CalInv => CalTypeOK
  <2>1. ASSUME CalInv
        PROVE  CalTypeOK
    <3>1. CalTyped /\ MaxPoint \in Nat
      BY <2>1, CalibrationAssumption DEF CalInv
    <3>2. \A st \in Sites : stored[st] \subseteq Points /\ Drafted(st) \subseteq Points
      BY <3>1 DEF CalTyped, Drafted, NoDraft
    <3>3. editor # NoEditor =>
            /\ editor.cfg \subseteq Points \/ editor.cfg = NoDraft
            /\ editor.dialog \in {"closed", "add", "replace", "confirmed"}
            /\ editor.dirty => editor.cfg # NoDraft
            /\ editor.dirty /\ editor.current => drafts[site.at] = editor.cfg
      <4>1. ASSUME editor # NoEditor
            PROVE  PageOK(editor, drafts[site.at], requests, fresh)
        BY <2>1, <4>1 DEF CalInv
      <4>2. QED
        BY <4>1, PointsAreNoDraft DEF PageOK, Page, HasPoints
    <3>4. QED
      BY <3>1, <3>2, <3>3 DEF CalTypeOK, CalTyped
  <2>2. QED
    BY <2>1
<1>2. QED
  BY <1>1, CalibrationInvariance, PTL

-----------------------------------------------------------------------------
(* What leaves a draft *)

\* The points of the draft at st that a step takes away.
Lost(st) == Drafted(st) \ (drafts'[st] \ NoDraft)

\* Only edits of this address go, and only if the page e does not show them any more.
LEMMA LostIs ==
  ASSUME CalInv, editor.mounted, NEW e \in Page, Displays(e), e.current = editor.current,
         NEW st \in Sites, NEW p \in Lost(st)
  PROVE  /\ st = site.at /\ editor.current /\ editor.dirty = TRUE /\ p \in editor.cfg
         /\ ~(e.dirty /\ p \in e.cfg)
<1>1. /\ e.current => drafts'[site.at] = IF e.dirty THEN e.cfg ELSE NoDraft
      /\ \A s \in Sites : s # site.at \/ ~e.current => drafts'[s] = drafts[s]
  BY DisplaysDraft
<1>2. p \in drafts[st] /\ p \notin NoDraft /\ ~(p \in drafts'[st])
  BY DEF Lost, Drafted
<1>3. drafts'[st] # drafts[st]
  BY <1>2
<1>4. st = site.at /\ e.current
  BY <1>1, <1>3
<1>5. /\ editor \in Page
      /\ drafts[site.at] = IF editor.dirty THEN editor.cfg ELSE NoDraft
  BY <1>4, PageNow
<1>6. editor.dirty /\ p \in editor.cfg
  BY <1>2, <1>4, <1>5
<1>7. ~(e.dirty /\ p \in e.cfg)
  BY <1>1, <1>2, <1>4
<1>8. QED
  BY <1>4, <1>5, <1>6, <1>7 DEF Page

\* A capture takes away only points of its sensor, and those only if it was confirmed.
LEMMA CaptureEndsIs ==
  ASSUME CalInv, CaptureEnds
  PROVE  /\ editor.mounted
         /\ requests["capture"].replace => requests["capture"].confirmed
         /\ \E e \in Page :
              /\ Displays(e) /\ e.current = editor.current /\ e.dirty
              /\ \A p \in editor.cfg \ e.cfg :
                   /\ requests["capture"].replace /\ p.sensor = requests["capture"].sensor
                   /\ p \in settled'
<1> DEFINE c == requests["capture"]
           before == IF c.replace THEN editor.cfg \ OfSensor(editor.cfg, c.sensor) ELSE editor.cfg
           f == before \cup {NextPoint(c.sensor)}
<1>1. PICK last \in {FALSE, ~c.replace} :
        Displays([Edited(editor, f) EXCEPT !.capturing = FALSE, !.dialog = AfterCapture(@, last)])
  BY DEF CaptureEnds
<1>2. /\ c.st = "sent" /\ editor.current /\ selected = c.sensor /\ made < MaxPoint
      /\ settled' = settled \cup (editor.cfg \ before)
  BY DEF CaptureEnds
<1>3. "capture" \in Awaited /\ editor.mounted
  BY <1>2, AwaitedMounted DEF Awaited
<1>4. editor \in Page /\ editor.cfg \subseteq Points
  BY <1>2, <1>3, PageNow DEF HasPoints
<1>5. NextPoint(c.sensor) \in Points
  BY <1>2, NextPointIs
<1>6. Carries("capture", c, settled)
  BY <1>3 DEF CalInv, RequestsOK
<1>7. c.replace => c.confirmed
  BY <1>2, <1>6 DEF Carries
<1>8. /\ f \in SUBSET Points
      /\ \A p \in editor.cfg \ f : c.replace /\ p.sensor = c.sensor /\ p \in settled'
  <2>1. /\ before \subseteq editor.cfg
        /\ \A p \in editor.cfg \ before : c.replace /\ p.sensor = c.sensor
    BY DEF OfSensor
  <2> HIDE DEF before
  <2>2. QED
    BY <1>2, <1>4, <1>5, <2>1
<1> HIDE DEF f, before
<1> DEFINE d == Edited(editor, f)
           e == [d EXCEPT !.capturing = FALSE, !.dialog = AfterCapture(@, last)]
<1>9. d \in Page /\ d.cfg = f /\ d.current = editor.current /\ d.dirty
  BY <1>4, <1>8, EditedIs
<1>10. Displays(e)
  BY <1>1
<1> HIDE DEF d
<1>11. e \in Page /\ e.cfg = f /\ e.current = editor.current /\ e.dirty
  BY <1>9, AfterCaptureIs DEF Page
<1> HIDE DEF e, c
<1>12. QED
  BY <1>3, <1>7, <1>8, <1>10, <1>11 DEF c

\* Where a draft loses points: the steps that change the page with its owner.
LEMMA DraftsChange ==
  ASSUME CalInv, [CalNext]_calVars
  PROVE  \/ drafts' = drafts
         \/ Enters \/ Removes \/ CaptureEnds \/ FileLoaded \/ FileOfAnotherInput
         \/ SyncEnds \/ DiscardEnds \/ ApplyEnds \/ SaveEnds
<1>1. CASE UNCHANGED calVars \/ Unmounts \/ LosesOwner \/ \E st \in Sites : AddressMoves(st)
  BY <1>1 DEF calVars, Unmounts, LosesOwner, AddressMoves
<1>2. CASE Mounts
  BY <1>2, MountsKeeps
<1>3. CASE (\E does \in {"add", "replace"} : OpensDialog(does)) \/ TicksReset \/ ClosesDialog
  BY <1>3, DialogsKeep
<1>4. CASE Captures \/ CaptureFails
  BY <1>4 DEF Captures, CaptureFails
<1>5. CASE Syncs \/ Discards \/ Saves \/ \E panel \in {"zero", "thermal"} : Applies(panel)
  BY <1>5, SendersKeep
<1>6. CASE OthersSave \/ \E c \in Requests : Served(c) \/ RequestFails(c)
  BY <1>6 DEF OthersSave, Served, RequestFails
<1>7. CASE \E s \in Sensors : PicksSensor(s) \/ LayoutArrives(s)
  BY <1>7, SelectionKeeps
<1>8. QED
  BY <1>1, <1>2, <1>3, <1>4, <1>5, <1>6, <1>7 DEF CalNext

\* Why p may leave the draft at st.
Excused(st, p) ==
  \/ p \in settled'
  \/ st = site.at /\ CameBack("apply")
  \/ st = site.at /\ CameBack("discard") /\ p \notin requests["discard"].was.gone
  \/ st = site.at /\ CameBack("save") /\ p.sensor # requests["save"].was.sensor

LEMMA LostToKnown ==
  ASSUME CalInv, [CalNext]_calVars, NEW st \in Sites, NEW p \in Lost(st)
  PROVE  Excused(st, p)
<1>1. drafts' # drafts
  BY DEF Lost, Drafted
<1>2. CASE Enters
  <2> DEFINE f == editor.cfg \cup {NextPoint(selected)}
             e == Edited(editor, f)
  <2>1. CanEdit /\ made < MaxPoint /\ Displays(e)
    BY <1>2 DEF Enters
  <2>2. editor.mounted /\ editor \in Page /\ editor.cfg \subseteq Points /\ f \in SUBSET Points
    BY <2>1, PageNow, NextPointIs DEF CanEdit, HasPoints
  <2>3. e \in Page /\ e.cfg = f /\ e.dirty /\ e.current = editor.current
    BY <2>2, EditedIs
  <2> HIDE DEF e
  <2>4. QED
    BY <2>1, <2>2, <2>3, LostIs
<1>3. CASE Removes
  <2> DEFINE channel == OfSensor(editor.cfg, selected)
  <2>1. PICK gone \in {channel} \cup {{q} : q \in channel} :
          Displays(Edited(editor, editor.cfg \ gone)) /\ settled' = settled \cup gone
    BY <1>3 DEF Removes
  <2> DEFINE f == editor.cfg \ gone
             e == Edited(editor, f)
  <2>2. editor.mounted /\ editor \in Page /\ editor.cfg \subseteq Points
    BY <1>3, PageNow DEF Removes, CanEdit, HasPoints
  <2>3. e \in Page /\ e.cfg = f /\ e.dirty /\ e.current = editor.current /\ Displays(e)
    BY <2>1, <2>2, EditedIs
  <2> HIDE DEF e
  <2>4. p \in editor.cfg /\ p \notin f
    BY <2>2, <2>3, LostIs
  <2>5. QED
    BY <2>1, <2>4 DEF Excused
<1>4. CASE CaptureEnds
  <2>1. PICK e \in Page :
          /\ Displays(e) /\ e.current = editor.current /\ e.dirty
          /\ \A q \in editor.cfg \ e.cfg : q \in settled'
    BY <1>4, CaptureEndsIs
  <2>2. p \in editor.cfg /\ p \notin e.cfg
    BY <1>4, <2>1, CaptureEndsIs, LostIs
  <2>3. QED
    BY <2>1, <2>2 DEF Excused
<1>5. CASE FileLoaded
  <2> DEFINE f == requests["load"].file
             e == IF editor.dirty THEN [editor EXCEPT !.loaded = TRUE]
                  ELSE [editor EXCEPT !.loaded = TRUE, !.cfg = f]
  <2>1. Answers("load") /\ Displays(e)
    BY <1>5 DEF FileLoaded
  <2>2. editor.mounted /\ editor \in Page /\ f \subseteq Points
    BY <2>1, AnswersIs DEF Requests
  <2> HIDE DEF f
  <2>3. e \in Page /\ e.current = editor.current /\ (editor.dirty => e.dirty /\ e.cfg = editor.cfg)
    <3>1. CASE editor.dirty
      BY <2>2, <3>1 DEF Page
    <3>2. CASE ~editor.dirty
      BY <2>2, <3>2 DEF Page
    <3>3. QED
      BY <3>1, <3>2
  <2> HIDE DEF e
  <2>4. QED
    BY <2>1, <2>2, <2>3, LostIs
<1>6. CASE FileOfAnotherInput
  <2> DEFINE e == [editor EXCEPT !.loaded = FALSE]
  <2>1. Answers("load") /\ Displays(e)
    BY <1>6 DEF FileOfAnotherInput
  <2>2. editor.mounted /\ editor \in Page
    BY <2>1, AnswersIs DEF Requests
  <2>3. e \in Page /\ e.current = editor.current /\ e.dirty = editor.dirty /\ e.cfg = editor.cfg
    BY <2>2 DEF Page
  <2> HIDE DEF e
  <2>4. QED
    BY <2>1, <2>2, <2>3, LostIs
<1>7. CASE SyncEnds
  <2> DEFINE f == requests["sync"].file
             e == [editor EXCEPT !.loaded = TRUE, !.cfg = f]
  <2>1. Answers("sync") /\ Displays(e) /\ ~editor.dirty
    BY <1>1, <1>7 DEF SyncEnds
  <2>2. editor.mounted /\ editor \in Page /\ f \subseteq Points
    BY <2>1, AnswersIs DEF Requests
  <2> HIDE DEF f
  <2>3. e \in Page /\ e.current = editor.current
    BY <2>2 DEF Page
  <2> HIDE DEF e
  <2>4. QED
    BY <2>1, <2>2, <2>3, LostIs
<1>8. CASE DiscardEnds
  <2> DEFINE f == requests["discard"].file
             e == [editor EXCEPT !.cfg = f, !.dirty = FALSE, !.loaded = TRUE]
  <2>1. Answers("discard") /\ Displays(e)
        /\ settled' = settled \cup requests["discard"].was.gone
    BY <1>8 DEF DiscardEnds
  <2>2. /\ editor.mounted /\ editor \in Page /\ f \subseteq Points
        /\ requests["discard"].st = "served" /\ requests'["discard"].st = "none"
    BY <2>1, AnswersIs DEF Requests, Answers
  <2> HIDE DEF f
  <2>3. e \in Page /\ e.current = editor.current
    BY <2>2 DEF Page
  <2> HIDE DEF e
  <2>4. st = site.at
    BY <2>1, <2>2, <2>3, LostIs
  <2>5. QED
    BY <2>1, <2>2, <2>4 DEF CameBack, Excused
<1>9. CASE ApplyEnds
  <2> DEFINE f == requests["apply"].file
             thermal == requests["apply"].was.panel = "thermal"
             e == [editor EXCEPT !.cfg = f, !.dirty = @ /\ thermal]
  <2>1. Answers("apply") /\ Displays(e)
    BY <1>9 DEF ApplyEnds
  <2>2. editor.mounted /\ editor \in Page /\ f \subseteq Points
        /\ requests["apply"].st = "served" /\ requests'["apply"].st = "none"
    BY <2>1, AnswersIs DEF Requests, Answers
  <2> HIDE DEF f, thermal
  <2>3. PICK d \in BOOLEAN : d = (editor.dirty /\ thermal)
    OBVIOUS
  <2>4. e = [editor EXCEPT !.cfg = f, !.dirty = d]
    BY <2>2, <2>3 DEF Page
  <2> HIDE DEF e
  <2>5. e \in Page /\ e.current = editor.current
    BY <2>2, <2>4 DEF Page
  <2>6. st = site.at
    BY <2>1, <2>2, <2>5, LostIs
  <2>7. QED
    BY <2>2, <2>6 DEF CameBack, Excused
<1>10. CASE SaveEnds
  <2>1. editor.mounted /\ settled' = settled
    BY <1>10, SaveEndsIs, AnswersIs DEF Requests
  <2>2. PICK e \in Page :
          /\ Displays(e) /\ e.current = editor.current
          /\ \/ e.cfg = editor.cfg /\ e.dirty = editor.dirty
             \/ AllSaved(editor.cfg)
    BY <1>10, SaveEndsIs
  <2>3. requests["save"].st = "served" /\ requests'["save"].st = "none"
    BY <1>10, SaveEndsIs, AnswersIs DEF Requests, Answers
  <2>4. st = site.at /\ p \in editor.cfg /\ AllSaved(editor.cfg)
    BY <2>1, <2>2, LostIs
  <2>5. CASE p.sensor = requests["save"].was.sensor
    BY <2>1, <2>4, <2>5 DEF AllSaved, OfSensor, Excused
  <2>6. CASE p.sensor # requests["save"].was.sensor
    BY <2>3, <2>4, <2>6 DEF CameBack, Excused
  <2>7. QED
    BY <2>5, <2>6
<1>11. QED
  BY <1>1, <1>2, <1>3, <1>4, <1>5, <1>6, <1>7, <1>8, <1>9, <1>10, DraftsChange

\* A capture comes back to the page only when it ends or fails.
LEMMA CaptureBack ==
  ASSUME CalInv, [CalNext]_calVars, CameBack("capture"), editor'.mounted
  PROVE  CaptureEnds \/ CaptureFails \/ LosesOwner
<1>1. /\ requests = [c \in Awaited |-> requests[c]] /\ "capture" \in Awaited
      /\ \A c \in Requests : c # "capture"
      /\ requests["capture"].st # "none" /\ requests'["capture"].st = "none"
  BY DEF CalInv, RequestsOK, Awaited, Requests, CameBack
<1>2. requests'["capture"] # requests["capture"] /\ editor.mounted
  BY <1>1, AwaitedMounted
<1>3. ASSUME NEW c \in Requests, NEW r, requests' = [requests EXCEPT ![c] = r]
      PROVE  FALSE
  BY <1>1, <1>2, <1>3
<1>4. CASE UNCHANGED calVars \/ LosesOwner \/ Enters \/ Removes \/ \E st \in Sites : AddressMoves(st)
  BY <1>2, <1>4 DEF calVars, AddressMoves, Enters, Removes
<1>5. CASE Mounts \/ Unmounts
  BY <1>2, <1>5 DEF Mounts, Unmounts, NoEditor
<1>6. CASE (\E does \in {"add", "replace"} : OpensDialog(does)) \/ TicksReset \/ ClosesDialog
  BY <1>2, <1>6, DialogsKeep
<1>7. CASE Captures
  <2> DEFINE r == [st |-> "sent", sensor |-> selected,
                   replace |-> editor.dialog = "confirmed", confirmed |-> fresh]
  <2>1. requests' = [requests EXCEPT !["capture"] = r] /\ r.st = "sent"
    BY <1>7 DEF Captures
  <2> HIDE DEF r
  <2>2. QED
    BY <1>1, <2>1
<1>8. CASE Syncs \/ Discards \/ Saves \/ \E panel \in {"zero", "thermal"} : Applies(panel)
  <2>1. PICK c \in Requests : \E r : Sends(c, r)
    BY <1>8 DEF Syncs, Discards, Saves, Applies, Requests
  <2>2. QED
    BY <1>3, <2>1 DEF Sends
<1>9. CASE OthersSave
  BY <1>2, <1>9 DEF OthersSave
<1>10. CASE \E c \in Requests : Served(c) \/ RequestFails(c)
  <2>1. PICK c \in Requests : \E r : requests' = [requests EXCEPT ![c] = r]
    BY <1>10 DEF Served, RequestFails
  <2>2. QED
    BY <1>3, <2>1
<1>11. CASE \/ FileLoaded \/ FileOfAnotherInput \/ SyncEnds \/ DiscardEnds \/ ApplyEnds
            \/ SaveEnds
  <2>1. PICK c \in Requests : Answers(c)
    BY <1>11 DEF FileLoaded, FileOfAnotherInput, SyncEnds, DiscardEnds, ApplyEnds,
       SaveEnds, Requests
  <2>2. QED
    BY <1>2, <2>1, AnswersIs
<1>12. CASE \E s \in Sensors : PicksSensor(s) \/ LayoutArrives(s)
  BY <1>2, <1>12, SelectionKeeps
<1>13. QED
  BY <1>4, <1>5, <1>6, <1>7, <1>8, <1>9, <1>10, <1>11, <1>12 DEF CalNext

\* The draft at the address of the page loses points to no capture that was not confirmed.
LEMMA CaptureLoses ==
  ASSUME CalInv, [CalNext]_calVars, CameBack("capture"), editor'.mounted,
         NEW p \in Drafted(site.at), p \notin drafts'[site'.at] \ NoDraft
  PROVE  requests["capture"].confirmed /\ p.sensor = requests["capture"].sensor
<1>1. CASE CaptureFails \/ LosesOwner
  BY <1>1 DEF CaptureFails, LosesOwner, Drafted
<1>2. CASE CaptureEnds
  <2>1. /\ editor.mounted
        /\ requests["capture"].replace => requests["capture"].confirmed
    BY <1>2, CaptureEndsIs
  <2>2. PICK e \in Page :
          /\ Displays(e) /\ e.current = editor.current /\ e.dirty
          /\ \A q \in editor.cfg \ e.cfg :
               requests["capture"].replace /\ q.sensor = requests["capture"].sensor
    BY <1>2, CaptureEndsIs
  <2>3. site' = site /\ site.at \in Sites
    BY <1>2 DEF CaptureEnds, CalInv, CalTyped
  <2>4. p \in Lost(site.at)
    BY <2>3 DEF Lost
  <2>5. p \in editor.cfg /\ p \notin e.cfg
    BY <2>1, <2>2, <2>3, <2>4, LostIs
  <2>6. QED
    BY <2>1, <2>2, <2>5
<1>3. QED
  BY <1>1, <1>2, CaptureBack

\* "Delayed save responses cannot overwrite newer local edits", nor do loads, syncs,
\* mounts, moves of the address and changes of the sensor: a point leaves a draft
\* only when a station has had it or the operator gave it up, or by the result of a
\* panel, a discard asked for before the edit, or a save of another sensor.
THEOREM EditsAreKept == CalSpec => EditsStay
<1>1. ASSUME CalInv, [CalNext]_calVars
      PROVE  [\A st \in Sites : \A p \in Drafted(st) \ Drafted(st)' :
                \/ p \in settled'
                \/ st = site.at /\ CameBack("apply")
                \/ st = site.at /\ CameBack("discard") /\ p \notin requests["discard"].was.gone
                \/ st = site.at /\ CameBack("save")
                                /\ p.sensor # requests["save"].was.sensor]_calVars
  BY <1>1, LostToKnown DEF Lost, Drafted, NoDraft, Excused
<1>2. QED
  BY <1>1, CalibrationInvariance, PTL DEF CalSpec, EditsStay

\* apply_sequence_capture takes points away only for the first capture after the
\* operator confirmed that it will, and only of the sensor that was selected then.
THEOREM ReplacementsConfirmed == CalSpec => ReplaceIsConfirmed
<1>1. ASSUME CalInv, [CalNext]_calVars
      PROVE  [\A p \in Gone : CameBack("capture") /\ editor'.mounted =>
                requests["capture"].confirmed /\ p.sensor = requests["capture"].sensor]_calVars
  BY <1>1, CaptureLoses DEF Gone, Drafted, NoDraft
<1>2. QED
  BY <1>1, CalibrationInvariance, PTL DEF CalSpec, ReplaceIsConfirmed

-----------------------------------------------------------------------------
(***************************************************************************)
(* SequenceProgress: its types, that the panels and the answers on their   *)
(* way are of the era the page shows, that a cancel is sent once, and      *)
(* what a panel keeps from one step to the next.                           *)
(***************************************************************************)

\* The panels of a model, and the runs they show.
PanelsIn(m) == {m.panels[i] : i \in DOMAIN m.panels}
On(m) == {p.run : p \in PanelsIn(m)}

\* One panel to a run, and no more than the capacity.
Boxed(ps) ==
  /\ ps \in Seq(Panel) /\ Len(ps) <= Capacity
  /\ \A i, j \in DOMAIN ps : ps[i].run = ps[j].run => i = j

Models == [source : 0..MaxEpoch, scope : Eras \cup {Older}, panels : Seq(Panel),
           results : SUBSET Runs, asked : SUBSET Runs, notices : SUBSET Runs,
           unavailable : BOOLEAN, api : BOOLEAN]
Polls ==
  {NoRequest} \cup [st : {"asked"}, epoch : 0..MaxEpoch]
    \cup [st : {"answered"}, epoch : 0..MaxEpoch, era : Eras, list : Seq(Snapshot),
          links : SUBSET Runs]
Fetches == {NoRequest} \cup [st : {"details", "open"}, epoch : 0..MaxEpoch]
Intents ==
  {NoRequest} \cup [st : {"sent", "accepted"}, epoch : 0..MaxEpoch, source : 0..MaxEpoch]

SeqTyped ==
  /\ station \in [era : Eras, runs : [Runs -> [phase : Phases, rev : 0..MaxRevision]]]
  /\ epoch \in 0..MaxEpoch /\ model \in Models /\ Boxed(model.panels)
  /\ model.source <= epoch
  /\ poll \in Polls /\ fetches \in [Runs -> Fetches] /\ cancels \in [Runs -> Intents]

\* The runs with a result at the station, and those that will not be under way again.
Over(st) == {r \in Runs : st.runs[r].phase \in {"ended", "old"}}
Past(st) == {r \in Runs : st.runs[r].phase \notin {"absent", "running"}}

\* The runs the dashboard has reason to think over.
KnownOver(m, fs) ==
  {p.run : p \in {q \in PanelsIn(m) : q.ended}} \cup m.notices \cup m.results
    \cup {r \in Runs : fs[r] # NoRequest}

\* The items of the answer under way, and the runs it lists as running.
Items(pl) == IF pl.st = "answered" THEN {pl.list[i] : i \in DOMAIN pl.list} ELSE {}
ActiveIn(pl) == {s.run : s \in {t \in Items(pl) : ~t.ended}}

\* A snapshot of a result is as the station has it; a run that is listed as running
\* is not one of those known to be over.
SnapshotOK(s, st, over) ==
  IF s.ended THEN s.run \in over /\ s.rev = st.runs[s.run].rev
             ELSE s.run \notin over /\ ~s.full

StationOK(st, m) ==
  /\ m.scope <= st.era
  /\ \A r \in Runs : EraOf[r] < st.era => r \in Past(st)
  /\ \A r \in Runs : st.runs[r].phase \in {"running", "ended", "old"} => st.runs[r].rev # 0

\* An answer is for this source, of an era between the scope and the station's, and
\* what it lists is of that era and sound.
PollOK(pl, st, m, fs) ==
  /\ pl.st # "none" => pl.epoch = m.source
  /\ pl.st = "answered" => m.scope <= pl.era /\ pl.era <= st.era /\ pl.links \subseteq Over(st)
  /\ \A s \in Items(pl) :
       /\ EraOf[s.run] = pl.era
       /\ SnapshotOK(s, st, IF s.ended THEN Over(st) ELSE KnownOver(m, fs))
  /\ \A s, t \in Items(pl) : s.run = t.run => s.ended = t.ended

\* Details are asked for when there is a scope.
FetchesOK(fs, m) ==
  \A r \in Runs : fs[r].st = "details" =>
    fs[r].epoch <= m.source /\ (fs[r].epoch = m.source => m.scope # Older)

\* A run whose cancel was sent on this connection cannot be cancelled again: its panel
\* knows, or has seen the end, or there is none and will be none that is running.
Spent(m, r, gone) ==
  IF r \in On(m) THEN \E p \in PanelsIn(m) : p.run = r /\ (p.cancel \/ p.ended) ELSE r \in gone

\* The runs with a cancel of this connection; no cancel is of a later one.
SentCancels(cs, m) == {r \in Runs : cs[r] # NoRequest /\ cs[r].source = m.source}
IntentsOK(cs, m) == \A r \in Runs : cs[r] # NoRequest => cs[r].source <= m.source

\* The panels of w are sound: what is over is as the station has it and is in `over`,
\* nothing is of another era but the runs in `strange`, and the cancels of `sent` are spent.
Good(w, st, over, gone, sent, strange) ==
  /\ \A p \in PanelsIn(w) :
       /\ p.ended => p.run \in over /\ p.rev = st.runs[p.run].rev
       /\ ~p.ended => p.visible /\ ~p.full /\ ~p.historical
       /\ p.historical \/ EraOf[p.run] = w.scope \/ p.run \in strange
  /\ w.results \subseteq over
  /\ \A r \in sent : Spent(w, r, gone)

SeqInv ==
  /\ SeqTyped
  /\ StationOK(station, model)
  /\ KnownOver(model, fetches) \subseteq Over(station)
  /\ Good(model, station, KnownOver(model, fetches), Past(station) \ ActiveIn(poll),
          SentCancels(cancels, model), {})
  /\ PollOK(poll, station, model, fetches)
  /\ FetchesOK(fetches, model)
  /\ IntentsOK(cancels, model)

-----------------------------------------------------------------------------
(* An envelope, snapshot by snapshot *)

\* A set of numbers that is not empty has a least one.
LEMMA LeastNat ==
  ASSUME NEW T \in SUBSET Nat, T # {}
  PROVE  \E x \in T : \A y \in T : x <= y
<1> DEFINE R == OpToRel(<, Nat)
<1>1. IsWellFoundedOn(R, Nat)
  BY NatLessThanWellFounded
<1>2. \A x, y \in Nat : y < x => <<y, x>> \in R
  BY DEF OpToRel
<1> HIDE DEF R
<1>3. PICK x \in T : \A y \in T : ~(<<y, x>> \in R)
  BY <1>1, WFMin
<1>4. x \in Nat /\ \A y \in T : y \in Nat
  OBVIOUS
<1>5. ASSUME NEW y \in T
      PROVE  x <= y
  <2>1. ~(y < x)
    BY <1>2, <1>3, <1>4
  <2>2. QED
    BY <1>4, <2>1
<1>6. QED
  BY <1>5

\* What the first n snapshots of ss do to m, for each number up to n.
Partials(f, m, ss, n) ==
  f = [k \in 0..n |-> IF k = 0 THEN [ok |-> TRUE, m |-> m]
                      ELSE LET a == f[k - 1] IN IF a.ok THEN Accepted(a.m, ss[k]) ELSE a]

\* There is such a function, for every number of snapshots: a least number without
\* one is not 0, and the function for the number before it can be extended.
LEMMA EnvelopeRuns ==
  ASSUME NEW m, NEW ss, NEW n \in Nat
  PROVE  \E f : Partials(f, m, ss, n)
<1> DEFINE T == {k \in Nat : ~ \E f : Partials(f, m, ss, k)}
<1>1. SUFFICES ASSUME T # {} PROVE FALSE
  OBVIOUS
<1>2. PICK x \in T : \A y \in T : x <= y
  BY <1>1, LeastNat
<1>3. x \in Nat /\ ~ \E f : Partials(f, m, ss, x)
  BY <1>2
<1>4. x # 0
  <2> DEFINE g == [k \in 0..0 |-> [ok |-> TRUE, m |-> m]]
  <2>1. Partials(g, m, ss, 0)
    <3>1. \A k \in 0..0 : k = 0
      OBVIOUS
    <3>2. QED
      BY <3>1 DEF Partials
  <2>2. QED
    BY <1>3, <2>1
<1>5. x - 1 \in Nat /\ x - 1 \notin T
  BY <1>2, <1>3, <1>4
<1>6. PICK f : Partials(f, m, ss, x - 1)
  BY <1>5
<1> DEFINE a == f[x - 1]
           last == IF a.ok THEN Accepted(a.m, ss[x]) ELSE a
           h == [k \in 0..x |-> IF k = x THEN last ELSE f[k]]
<1> HIDE DEF last
<1>7. /\ \A k \in 0..(x - 1) : h[k] = f[k]
      /\ h[x] = last
  BY <1>3
<1>8. \A k \in 0..x : h[k] = IF k = 0 THEN [ok |-> TRUE, m |-> m]
                             ELSE LET b == h[k - 1] IN IF b.ok THEN Accepted(b.m, ss[k]) ELSE b
  <2>1. ASSUME NEW k \in 0..x, k = x
        PROVE  h[k] = IF k = 0 THEN [ok |-> TRUE, m |-> m]
                      ELSE LET b == h[k - 1] IN IF b.ok THEN Accepted(b.m, ss[k]) ELSE b
    <3>1. k - 1 \in 0..(x - 1) /\ k # 0
      BY <1>3, <1>4, <2>1
    <3>2. h[k - 1] = a /\ h[k] = last
      BY <1>7, <2>1, <3>1
    <3> HIDE DEF h, a
    <3>3. QED
      BY <2>1, <3>1, <3>2 DEF last
  <2>2. ASSUME NEW k \in 0..x, k # x
        PROVE  h[k] = IF k = 0 THEN [ok |-> TRUE, m |-> m]
                      ELSE LET b == h[k - 1] IN IF b.ok THEN Accepted(b.m, ss[k]) ELSE b
    <3>1. k \in 0..(x - 1) /\ (k # 0 => k - 1 \in 0..(x - 1))
      BY <1>3, <2>2
    <3>2. f[k] = IF k = 0 THEN [ok |-> TRUE, m |-> m]
                 ELSE LET b == f[k - 1] IN IF b.ok THEN Accepted(b.m, ss[k]) ELSE b
      BY <1>6, <3>1 DEF Partials
    <3>3. h[k] = f[k] /\ (k # 0 => h[k - 1] = f[k - 1])
      BY <1>7, <3>1
    <3> HIDE DEF h
    <3>4. QED
      BY <3>2, <3>3
  <2>3. QED
    BY <2>1, <2>2
<1>9. Partials(h, m, ss, x)
  <2>1. h = [k \in 0..x |-> h[k]]
    OBVIOUS
  <2> HIDE DEF h
  <2>2. QED
    BY <1>8, <2>1 DEF Partials
<1>10. QED
  BY <1>3, <1>9

\* A set that holds the model as it was, and that every snapshot of the envelope stays
\* in, holds what the envelope makes of it.
LEMMA EnvelopeStays ==
  ASSUME NEW m, NEW ss \in Seq(Snapshot), NEW G,
         [ok |-> TRUE, m |-> m] \in G,
         \A a \in G : \A i \in DOMAIN ss : a.ok => Accepted(a.m, ss[i]) \in G
  PROVE  AcceptAll(m, ss) \in G
<1> DEFINE n == Len(ss)
           f == CHOOSE g : Partials(g, m, ss, n)
<1>1. n \in Nat /\ DOMAIN ss = 1..n
  OBVIOUS
<1>2. Partials(f, m, ss, n)
  BY <1>1, EnvelopeRuns
<1>3. AcceptAll(m, ss) = f[n]
  BY DEF AcceptAll, Partials
<1> HIDE DEF f, n
<1>4. SUFFICES ASSUME f[n] \notin G PROVE FALSE
  BY <1>3
<1> DEFINE T == {k \in 0..n : f[k] \notin G}
<1>5. n \in T
  BY <1>1, <1>4
<1>6. PICK x \in T : \A y \in T : x <= y
  <2>1. T \in SUBSET Nat /\ T # {}
    BY <1>5
  <2> HIDE DEF T
  <2>2. QED
    BY <2>1, LeastNat
<1>7. x \in 0..n /\ f[x] \notin G
  BY <1>6
<1>8. x # 0
  <2>1. f[0] = [ok |-> TRUE, m |-> m]
    BY <1>1, <1>2 DEF Partials
  <2>2. QED
    BY <1>7, <2>1
<1>9. x - 1 \in 0..n /\ x - 1 \notin T /\ x \in DOMAIN ss
  BY <1>1, <1>6, <1>7, <1>8
<1>10. f[x - 1] \in G
  BY <1>9
<1>11. f[x] = IF f[x - 1].ok THEN Accepted(f[x - 1].m, ss[x]) ELSE f[x - 1]
  BY <1>1, <1>2, <1>7, <1>8 DEF Partials
<1>12. QED
  BY <1>7, <1>9, <1>10, <1>11

-----------------------------------------------------------------------------
(* Panels *)

\* The place of the panel of a run, 0 when it has none.
LEMMA AtIs ==
  ASSUME NEW ps \in Seq(Panel), NEW r
  PROVE  /\ At(ps, r) # 0 => At(ps, r) \in DOMAIN ps /\ ps[At(ps, r)].run = r
         /\ At(ps, r) = 0 => \A i \in DOMAIN ps : ps[i].run # r
<1>1. DOMAIN ps = 1..Len(ps) /\ Len(ps) \in Nat
  OBVIOUS
<1>2. CASE \E i \in DOMAIN ps : ps[i].run = r
  <2>1. At(ps, r) = CHOOSE i \in DOMAIN ps : ps[i].run = r
    BY <1>2 DEF At
  <2>2. At(ps, r) \in DOMAIN ps /\ ps[At(ps, r)].run = r
    BY <1>2, <2>1
  <2>3. QED
    BY <1>1, <2>2
<1>3. CASE ~ \E i \in DOMAIN ps : ps[i].run = r
  <2>1. At(ps, r) = 0
    BY <1>3 DEF At
  <2>2. QED
    BY <1>3, <2>1
<1>4. QED
  BY <1>2, <1>3

\* A sequence without the element at i.
LEMMA RemovedIs ==
  ASSUME NEW ps \in Seq(Panel), NEW i \in DOMAIN ps
  PROVE  LET q == RemoveAt(ps, i)
         IN  /\ q \in Seq(Panel) /\ Len(q) = Len(ps) - 1
             /\ \A k \in DOMAIN q : q[k] = IF k < i THEN ps[k] ELSE ps[k + 1]
<1> DEFINE n == Len(ps)
           u == SubSeq(ps, 1, i - 1)
           v == SubSeq(ps, i + 1, n)
<1>1. n \in Nat /\ DOMAIN ps = 1..n /\ i \in 1..n
  OBVIOUS
<1>2. /\ u \in Seq(Panel) /\ Len(u) = i - 1
      /\ \A k \in 1..(i - 1) : u[k] = ps[k]
  BY <1>1
<1>3. /\ v \in Seq(Panel) /\ Len(v) = n - i
      /\ \A k \in 1..(n - i) : v[k] = ps[i + k]
  BY <1>1
<1>4. RemoveAt(ps, i) = u \o v
  BY DEF RemoveAt
<1> HIDE DEF u, v, n
<1>5. /\ u \o v \in Seq(Panel) /\ Len(u \o v) = n - 1
      /\ \A k \in 1..(n - 1) : (u \o v)[k] = IF k <= i - 1 THEN u[k] ELSE v[k - (i - 1)]
  <2> DEFINE w == u \o v
  <2>1. u \in Seq(Panel) /\ v \in Seq(Panel)
    BY <1>2, <1>3
  <2>2. /\ w \in Seq(Panel) /\ Len(w) = Len(u) + Len(v)
        /\ \A k \in 1..(Len(u) + Len(v)) : w[k] = IF k <= Len(u) THEN u[k] ELSE v[k - Len(u)]
    BY <2>1
  <2>3. Len(u) = i - 1 /\ Len(v) = n - i /\ Len(u) + Len(v) = n - 1
    BY <1>1, <1>2, <1>3
  <2> HIDE DEF w
  <2>4. QED
    BY <2>2, <2>3 DEF w
<1>6. ASSUME NEW k \in 1..(n - 1)
      PROVE  (u \o v)[k] = IF k < i THEN ps[k] ELSE ps[k + 1]
  <2>1. CASE k < i
    <3>1. k \in 1..(i - 1)
      BY <1>1, <2>1
    <3>2. (u \o v)[k] = u[k]
      BY <1>1, <1>5, <3>1
    <3>3. QED
      BY <1>2, <2>1, <3>1, <3>2
  <2>2. CASE ~(k < i)
    <3>1. k - (i - 1) \in 1..(n - i) /\ i + (k - (i - 1)) = k + 1
      BY <1>1, <2>2
    <3>2. (u \o v)[k] = v[k - (i - 1)]
      BY <1>1, <1>5, <2>2
    <3>3. v[k - (i - 1)] = ps[k + 1]
      BY <1>3, <3>1
    <3>4. QED
      BY <2>2, <3>2, <3>3
  <2>3. QED
    BY <2>1, <2>2
<1>7. DOMAIN (u \o v) = 1..(n - 1)
  BY <1>5
<1>8. QED
  BY <1>4, <1>5, <1>6, <1>7 DEF n

\* Only a finished panel makes room, and only if there is none left.
LEMMA RoomIs ==
  ASSUME NEW ps, Boxed(ps)
  PROVE  LET q == Room(ps)
         IN  /\ Boxed(q)
             /\ \A i \in DOMAIN q : \E j \in DOMAIN ps : q[i] = ps[j]
             /\ Len(ps) < Capacity => q = ps
             /\ Len(ps) = Capacity => Len(q) + 1 >= Capacity
             /\ \A j \in DOMAIN ps : \/ \E i \in DOMAIN q : q[i] = ps[j]
                                     \/ ps[j].ended /\ Len(ps) = Capacity
<1> DEFINE n == Len(ps)
           I == {i \in 1..n : ps[i].ended}
           c == Min(I)
<1>1. /\ ps \in Seq(Panel) /\ n \in Nat /\ DOMAIN ps = 1..n /\ n <= Capacity
      /\ \A i, j \in 1..n : ps[i].run = ps[j].run => i = j
  BY DEF Boxed
<1>2. Capacity \in Nat \ {0}
  BY SequenceAssumption
<1>3. CASE n < Capacity \/ I = {}
  <2>1. Room(ps) = ps
    BY <1>3 DEF Room, SelectInSeq
  <2>2. /\ Len(ps) \in Nat /\ (Len(ps) = Capacity => Len(ps) + 1 >= Capacity)
    <3>1. Len(ps) \in Nat
      BY <1>1
    <3>2. \A x \in Nat : x = Capacity => x + 1 >= Capacity
      BY <1>2
    <3>3. QED
      BY <3>1, <3>2
  <2>3. \A i \in DOMAIN ps : \E j \in DOMAIN ps : ps[i] = ps[j]
    OBVIOUS
  <2>4. QED
    BY <2>1, <2>2, <2>3
<1>4. CASE ~(n < Capacity) /\ I # {}
  <2>1. \A i \in I : i # 0 /\ i \in 1..n /\ ps[i].ended
    OBVIOUS
  <2>2. c \in I
    <3>1. I \in SUBSET Nat
      OBVIOUS
    <3>2. \E x \in I : \A y \in I : x <= y
      BY <1>4, <3>1, LeastNat
    <3> HIDE DEF I
    <3>3. QED
      BY <3>2 DEF Min
  <2>3. Room(ps) = RemoveAt(ps, c)
    <3>1. SelectInSeq(ps, LAMBDA p : p.ended) = c
      BY <1>4 DEF SelectInSeq
    <3>2. Room(ps) = LET i == SelectInSeq(ps, LAMBDA p : p.ended)
                     IN  IF i = 0 THEN ps ELSE RemoveAt(ps, i)
      BY <1>4 DEF Room
    <3> HIDE DEF c, I
    <3>3. QED
      BY <2>1, <2>2, <3>1, <3>2
  <2> HIDE DEF c, I
  <2>4. c \in 1..n /\ ps[c].ended
    BY <2>1, <2>2
  <2>5. n = Capacity
    <3>1. n \in Nat /\ n <= Capacity /\ ~(n < Capacity)
      BY <1>1, <1>4
    <3> HIDE DEF n
    <3>2. QED
      BY <1>2, <3>1
  <2> DEFINE q == RemoveAt(ps, c)
  <2>6. /\ q \in Seq(Panel) /\ Len(q) = n - 1
        /\ \A k \in DOMAIN q : q[k] = IF k < c THEN ps[k] ELSE ps[k + 1]
    BY <1>1, <2>4, RemovedIs
  <2> HIDE DEF q, n
  <2>7. DOMAIN q = 1..(n - 1)
    BY <2>6
  <2> DEFINE was(k) == IF k < c THEN k ELSE k + 1
  <2>8. \A k \in 1..(n - 1) : was(k) \in 1..n /\ q[k] = ps[was(k)]
    BY <1>1, <2>4, <2>6, <2>7
  <2>9. \A k, l \in 1..(n - 1) : was(k) = was(l) => k = l
    BY <1>1, <2>4
  <2>10. \A j \in 1..n : j # c => \E k \in 1..(n - 1) : was(k) = j
    <3>1. ASSUME NEW j \in 1..n, j < c
          PROVE  j \in 1..(n - 1) /\ was(j) = j
      BY <1>1, <2>4, <3>1
    <3>2. ASSUME NEW j \in 1..n, j > c
          PROVE  j - 1 \in 1..(n - 1) /\ was(j - 1) = j
      BY <1>1, <2>4, <3>2
    <3> HIDE DEF was
    <3>3. \A j \in 1..n : j # c => j < c \/ j > c
      BY <1>1, <2>4
    <3>4. QED
      BY <3>1, <3>2, <3>3
  <2> HIDE DEF was
  <2>11. Boxed(q)
    <3>1. \A k, l \in 1..(n - 1) : q[k].run = q[l].run => k = l
      BY <1>1, <2>8, <2>9
    <3>2. Len(q) <= Capacity
      BY <1>1, <1>2, <2>5, <2>6
    <3>3. QED
      BY <2>6, <2>7, <3>1, <3>2 DEF Boxed
  <2>12. \A j \in 1..n : j = c \/ \E k \in 1..(n - 1) : q[k] = ps[j]
    BY <2>8, <2>10
  <2>13. Len(q) + 1 >= Capacity /\ ~(n < Capacity)
    BY <1>1, <1>2, <2>5, <2>6
  <2>14. /\ ~(Len(ps) < Capacity) /\ Len(ps) = Capacity /\ DOMAIN ps = 1..n
         /\ DOMAIN q = 1..(n - 1) /\ ps[c].ended /\ Room(ps) = q
    BY <1>1, <1>4, <2>3, <2>4, <2>5, <2>7 DEF n, q
  <2>15. /\ \A i \in DOMAIN q : \E j \in DOMAIN ps : q[i] = ps[j]
         /\ \A j \in DOMAIN ps : \/ \E i \in DOMAIN q : q[i] = ps[j]
                                 \/ ps[j].ended /\ Len(ps) = Capacity
    BY <2>8, <2>12, <2>14
  <2>16. QED
    BY <2>11, <2>13, <2>14, <2>15
<1>5. QED
  BY <1>3, <1>4

\* The model w is m that has taken s: the panel of its run follows, or a panel is
\* added and a finished one may have made room for it.
Followed(m, w, s) ==
  \E p \in PanelsIn(m) :
    /\ p.run = s.run /\ Takes(p, s) /\ Updated(p, s) \in PanelsIn(w)
    /\ \A q \in PanelsIn(m) : q.run # s.run => q \in PanelsIn(w)
    /\ \A q \in PanelsIn(w) : q = Updated(p, s) \/ (q \in PanelsIn(m) /\ q.run # s.run)
Added(m, w, s) ==
  /\ s.run \notin On(m) /\ NewPanel(s) \in PanelsIn(w)
  /\ \A q \in PanelsIn(m) : q \in PanelsIn(w) \/ (q.ended /\ Len(m.panels) = Capacity)
  /\ \A q \in PanelsIn(w) : q = NewPanel(s) \/ q \in PanelsIn(m)
Taken(m, w, s) ==
  /\ w.results = IF s.ended /\ s.full THEN m.results \cup {s.run} ELSE m.results
  /\ Len(m.panels) <= Len(w.panels)
  /\ Followed(m, w, s) \/ Added(m, w, s)
SameButPanels(m, w) ==
  /\ w.source = m.source /\ w.scope = m.scope /\ w.asked = m.asked
  /\ w.notices = m.notices /\ w.api = m.api

\* The sequence of panels with one of them changed.
LEMMA ReplacedIs ==
  ASSUME NEW ps, Boxed(ps), NEW i \in DOMAIN ps, NEW q \in Panel, q.run = ps[i].run
  PROVE  LET r == [ps EXCEPT ![i] = q]
         IN  /\ Boxed(r) /\ DOMAIN r = DOMAIN ps /\ Len(r) = Len(ps)
             /\ r[i] = q /\ \A j \in DOMAIN ps : j # i => r[j] = ps[j]
<1> DEFINE r == [ps EXCEPT ![i] = q]
<1>1. /\ ps \in Seq(Panel) /\ Len(ps) \in Nat /\ DOMAIN ps = 1..Len(ps) /\ Len(ps) <= Capacity
      /\ \A k, j \in DOMAIN ps : ps[k].run = ps[j].run => k = j
  BY DEF Boxed
<1>2. /\ r \in Seq(Panel) /\ DOMAIN r = DOMAIN ps /\ Len(r) = Len(ps)
      /\ r[i] = q /\ \A j \in DOMAIN ps : j # i => r[j] = ps[j]
  BY <1>1
<1> HIDE DEF r
<1>3. \A k \in DOMAIN ps : r[k].run = ps[k].run
  BY <1>2
<1>4. Boxed(r)
  BY <1>1, <1>2, <1>3 DEF Boxed
<1>5. QED
  BY <1>2, <1>4 DEF r

\* What a snapshot changes of the panel of its run, and what it leaves.
LEMMA UpdatedTyped ==
  ASSUME NEW p \in Panel, NEW s \in Snapshot, p.run = s.run
  PROVE  /\ Updated(p, s) \in Panel /\ Updated(p, s).run = p.run
         /\ Updated(p, s).rev = s.rev /\ Updated(p, s).ended = s.ended
         /\ Updated(p, s).visible = p.visible /\ Updated(p, s).historical = p.historical
         /\ Updated(p, s).full = (s.full \/ (p.full /\ s.rev = p.rev))
         /\ Updated(p, s).cancel = (p.cancel /\ ~(s.ended /\ ~p.ended))
BY DEF Updated, Panel, Snapshot

\* The panel a snapshot opens for a run that has none.
LEMMA NewPanelTyped ==
  ASSUME NEW s \in Snapshot
  PROVE  /\ NewPanel(s) \in Panel /\ NewPanel(s).run = s.run /\ NewPanel(s).rev = s.rev
         /\ NewPanel(s).ended = s.ended /\ NewPanel(s).full = s.full
         /\ NewPanel(s).visible = TRUE /\ NewPanel(s).historical = FALSE
BY DEF NewPanel, Panel, Snapshot

\* The panels that accept makes of those there are, before it looks at their number.
LEMMA PutIs ==
  ASSUME NEW ps, Boxed(ps), NEW s \in Snapshot, At(ps, s.run) = 0
  PROVE  LET q == Append(Room(ps), NewPanel(s))
         IN  /\ q \in Seq(Panel) /\ Len(q) \in Nat
             /\ Len(q) <= Capacity => Boxed(q) /\ Len(ps) <= Len(q)
             /\ \E i \in DOMAIN q : q[i] = NewPanel(s)
             /\ \A i \in DOMAIN q : q[i] = NewPanel(s) \/ \E j \in DOMAIN ps : q[i] = ps[j]
             /\ \A j \in DOMAIN ps : \/ \E i \in DOMAIN q : q[i] = ps[j]
                                     \/ ps[j].ended /\ Len(ps) = Capacity
<1> DEFINE o == Room(ps)
           n == Len(o)
           q == Append(o, NewPanel(s))
<1>1. /\ Boxed(o)
      /\ \A i \in DOMAIN o : \E j \in DOMAIN ps : o[i] = ps[j]
      /\ Len(ps) < Capacity => o = ps
      /\ Len(ps) = Capacity => Len(o) + 1 >= Capacity
      /\ \A j \in DOMAIN ps : (\E i \in DOMAIN o : o[i] = ps[j]) \/ (ps[j].ended /\ Len(ps) = Capacity)
  BY RoomIs
<1>2. NewPanel(s) \in Panel /\ NewPanel(s).run = s.run
  BY NewPanelTyped
<1>3. \A j \in DOMAIN ps : ps[j].run # s.run
  BY AtIs DEF Boxed
<1>4. Capacity \in Nat \ {0} /\ Len(ps) \in Nat /\ Len(ps) <= Capacity
  BY SequenceAssumption DEF Boxed
<1> HIDE DEF o
<1>5. o \in Seq(Panel) /\ n \in Nat /\ DOMAIN o = 1..n
  BY <1>1 DEF Boxed
<1>6. /\ q \in Seq(Panel) /\ Len(q) = n + 1 /\ DOMAIN q = 1..(n + 1)
      /\ q[n + 1] = NewPanel(s) /\ \A i \in 1..n : q[i] = o[i]
  BY <1>2, <1>5
<1> HIDE DEF q
<1>7. \A i \in 1..n : o[i].run # s.run
  BY <1>1, <1>3, <1>5
<1>8. \A i, j \in 1..(n + 1) : q[i].run = q[j].run => i = j
  <2>1. \A i, j \in 1..n : o[i].run = o[j].run => i = j
    BY <1>1, <1>5 DEF Boxed
  <2>2. \A i \in 1..(n + 1) : i = n + 1 \/ i \in 1..n
    BY <1>5
  <2> HIDE DEF n
  <2>3. \A i \in 1..n : q[i].run = o[i].run /\ q[i].run # q[n + 1].run
    BY <1>2, <1>6, <1>7
  <2>4. QED
    BY <2>1, <2>2, <2>3
<1>9. ASSUME Len(q) <= Capacity
      PROVE  Boxed(q) /\ Len(ps) <= Len(q)
  <2>1. Boxed(q)
    BY <1>6, <1>8, <1>9 DEF Boxed
  <2>2. CASE Len(ps) < Capacity
    <3>1. n = Len(ps)
      BY <1>1, <2>2
    <3>2. \A x \in Nat : x <= x + 1
      OBVIOUS
    <3>3. Len(ps) <= n + 1
      BY <1>4, <3>1, <3>2
    <3>4. QED
      BY <1>6, <2>1, <3>3
  <2>3. CASE Len(ps) = Capacity
    <3>1. n + 1 >= Len(ps)
      BY <1>1, <2>3
    <3> HIDE DEF n
    <3>2. Len(ps) <= n + 1
      BY <1>4, <1>5, <3>1
    <3>3. QED
      BY <1>6, <2>1, <3>2
  <2>4. Len(ps) < Capacity \/ Len(ps) = Capacity
    <3>1. \A x \in Nat : x <= Capacity => x < Capacity \/ x = Capacity
      BY <1>4
    <3>2. QED
      BY <1>4, <3>1
  <2>5. QED
    BY <2>2, <2>3, <2>4
<1>10. \A i \in 1..n : i \in 1..(n + 1)
  BY <1>5
<1>11. n + 1 \in DOMAIN q /\ Len(q) \in Nat /\ \A i \in DOMAIN q : i = n + 1 \/ i \in 1..n
  BY <1>5, <1>6
<1> HIDE DEF n
<1>12. \A i \in DOMAIN q : q[i] = NewPanel(s) \/ \E j \in DOMAIN ps : q[i] = ps[j]
  BY <1>1, <1>5, <1>6, <1>11
<1>13. \A j \in DOMAIN ps : (\E i \in DOMAIN q : q[i] = ps[j]) \/ (ps[j].ended /\ Len(ps) = Capacity)
  BY <1>1, <1>5, <1>6, <1>10
<1>14. \E i \in DOMAIN q : q[i] = NewPanel(s)
  BY <1>6, <1>11
<1>15. q \in Seq(Panel) /\ Len(q) \in Nat
  BY <1>6, <1>11
<1>16. QED
  BY <1>9, <1>12, <1>13, <1>14, <1>15 DEF q, o

\* A snapshot is taken as a whole or changes nothing.
LEMMA AcceptedIs ==
  ASSUME NEW m \in Models, Boxed(m.panels), NEW s \in Snapshot
  PROVE  LET a == Accepted(m, s)
         IN  /\ a \in [ok : BOOLEAN, m : Models] /\ Boxed(a.m.panels)
             /\ ~a.ok => a.m = m
             /\ SameButPanels(m, a.m)
             /\ a.ok => Taken(m, a.m, s)
<1> DEFINE i == At(m.panels, s.run)
           was == m.panels
           ps == IF i # 0 THEN [was EXCEPT ![i] = Updated(@, s)]
                 ELSE Append(Room(was), NewPanel(s))
           w == [m EXCEPT !.panels = ps, !.unavailable = FALSE,
                          !.results = IF s.ended /\ s.full THEN @ \cup {s.run} ELSE @]
           no == (i # 0 /\ ~Takes(was[i], s)) \/ Len(ps) > Capacity
<1>1. Accepted(m, s) = IF no THEN [ok |-> FALSE, m |-> m] ELSE [ok |-> TRUE, m |-> w]
  BY DEF Accepted
<1>2. CASE no
  <2>1. Accepted(m, s) = [ok |-> FALSE, m |-> m]
    BY <1>1, <1>2
  <2>2. QED
    BY <2>1 DEF SameButPanels
<1>3. ASSUME ~no
      PROVE  /\ Boxed(ps) /\ Len(was) <= Len(ps)
             /\ \/ /\ i # 0 /\ i \in DOMAIN was /\ was[i].run = s.run /\ Takes(was[i], s)
                   /\ DOMAIN ps = DOMAIN was /\ ps[i] = Updated(was[i], s)
                   /\ \A j \in DOMAIN was : j # i => ps[j] = was[j]
                \/ /\ i = 0
                   /\ \E k \in DOMAIN ps : ps[k] = NewPanel(s)
                   /\ \A k \in DOMAIN ps : ps[k] = NewPanel(s) \/ \E j \in DOMAIN was : ps[k] = was[j]
                   /\ \A j \in DOMAIN was : \/ \E k \in DOMAIN ps : ps[k] = was[j]
                                            \/ was[j].ended /\ Len(was) = Capacity
  <2>1. CASE i # 0
    <3>1. i \in DOMAIN was /\ was[i].run = s.run /\ was[i] \in Panel /\ Len(was) \in Nat
      BY <2>1, AtIs DEF Boxed
    <3>2. Takes(was[i], s)
      BY <1>3, <2>1
    <3>3. ps = [was EXCEPT ![i] = Updated(was[i], s)]
      BY <2>1
    <3>4. Updated(was[i], s) \in Panel /\ Updated(was[i], s).run = was[i].run
      BY <3>1, UpdatedTyped
    <3> HIDE DEF ps, was, i
    <3>5. /\ Boxed(ps) /\ DOMAIN ps = DOMAIN was /\ Len(ps) = Len(was)
          /\ ps[i] = Updated(was[i], s) /\ \A j \in DOMAIN was : j # i => ps[j] = was[j]
      BY <3>1, <3>3, <3>4, ReplacedIs DEF was
    <3>6. \A x \in Nat : x <= x
      OBVIOUS
    <3>7. Len(was) <= Len(ps)
      BY <3>1, <3>5, <3>6
    <3>8. QED
      BY <2>1, <3>1, <3>2, <3>5, <3>7
  <2>2. CASE i = 0
    <3>1. ps = Append(Room(was), NewPanel(s))
      BY <2>2
    <3> HIDE DEF ps
    <3>2. /\ ps \in Seq(Panel) /\ Len(ps) \in Nat
          /\ Len(ps) <= Capacity => Boxed(ps) /\ Len(was) <= Len(ps)
          /\ \E k \in DOMAIN ps : ps[k] = NewPanel(s)
          /\ \A k \in DOMAIN ps : ps[k] = NewPanel(s) \/ \E j \in DOMAIN was : ps[k] = was[j]
          /\ \A j \in DOMAIN was : \/ \E k \in DOMAIN ps : ps[k] = was[j]
                                   \/ was[j].ended /\ Len(was) = Capacity
      BY <2>2, <3>1, PutIs
    <3>3. Len(ps) <= Capacity
      <4>1. ~(Len(ps) > Capacity) /\ Capacity \in Nat /\ Len(ps) \in Nat
        BY <1>3, <3>2, SequenceAssumption
      <4>2. QED
        BY <4>1
    <3> HIDE DEF i, was
    <3>4. QED
      BY <2>2, <3>2, <3>3
  <2>3. QED
    BY <2>1, <2>2
<1>4. CASE ~no
  <2>1. Accepted(m, s) = [ok |-> TRUE, m |-> w]
    BY <1>1, <1>4
  <2>2. w \in Models /\ w.panels = ps /\ SameButPanels(m, w)
        /\ w.results = IF s.ended /\ s.full THEN m.results \cup {s.run} ELSE m.results
    <3>1. ps \in Seq(Panel)
      BY <1>3, <1>4 DEF Boxed
    <3>2. s.run \in Runs
      BY DEF Snapshot
    <3> HIDE DEF ps
    <3>3. QED
      BY <3>1, <3>2 DEF Models, SameButPanels
  <2> HIDE DEF w, ps, i, no
  <2>3. Taken(m, w, s)
    <3>1. CASE i # 0
      <4>1. /\ i \in DOMAIN was /\ was[i].run = s.run /\ Takes(was[i], s)
            /\ DOMAIN ps = DOMAIN was /\ ps[i] = Updated(was[i], s)
            /\ \A j \in DOMAIN was : j # i => ps[j] = was[j]
            /\ \A j, k \in DOMAIN was : was[j].run = was[k].run => j = k
        BY <1>3, <1>4, <3>1 DEF Boxed
      <4>2. Followed(m, w, s)
        BY <2>2, <4>1 DEF Followed, PanelsIn
      <4>3. QED
        BY <1>3, <1>4, <2>2, <4>2 DEF Taken
    <3>2. CASE i = 0
      <4>1. s.run \notin On(m)
        <5>1. \A j \in DOMAIN was : was[j].run # s.run
          BY <3>2, AtIs DEF i, Boxed
        <5>2. QED
          BY <5>1 DEF On, PanelsIn
      <4>2. Added(m, w, s)
        BY <1>3, <1>4, <2>2, <3>2, <4>1 DEF Added, PanelsIn
      <4>3. QED
        BY <1>3, <1>4, <2>2, <4>2 DEF Taken
    <3>3. QED
      BY <3>1, <3>2
  <2>4. Boxed(w.panels)
    BY <1>3, <1>4, <2>2
  <2>5. QED
    BY <2>1, <2>2, <2>3, <2>4
<1>5. QED
  BY <1>2, <1>4

\* What runs in m still does in w, but for `ends`; what has its details keeps them while
\* there is room.
KeptPanels(m, w, ends) ==
  /\ \A p \in PanelsIn(m) : ~p.ended /\ p.run \notin ends
       => \E q \in PanelsIn(w) : q.run = p.run /\ ~q.ended
  /\ Len(w.panels) < Capacity => \A p \in PanelsIn(m) : p.full
       => \E q \in PanelsIn(w) : q.run = p.run /\ q.full /\ q.ended

\* A run has one panel.
LEMMA PanelsTyped ==
  ASSUME NEW m \in Models, Boxed(m.panels)
  PROVE  /\ \A p \in PanelsIn(m) : p \in Panel /\ p.run \in Runs
         /\ \A p, q \in PanelsIn(m) : p.run = q.run => p = q
         /\ \A r : r \in On(m) <=> \E p \in PanelsIn(m) : p.run = r
<1>1. m.panels \in Seq(Panel) /\ \A i, j \in DOMAIN m.panels :
                                  m.panels[i].run = m.panels[j].run => i = j
  BY DEF Boxed
<1>2. \A i \in DOMAIN m.panels : m.panels[i] \in Panel
  BY <1>1
<1>3. \A p \in PanelsIn(m) : p \in Panel /\ p.run \in Runs
  BY <1>2 DEF PanelsIn, Panel
<1>4. \A p, q \in PanelsIn(m) : p.run = q.run => p = q
  BY <1>1 DEF PanelsIn
<1>5. \A r : r \in On(m) <=> \E p \in PanelsIn(m) : p.run = r
  BY DEF On
<1>6. QED
  BY <1>3, <1>4, <1>5

\* The panels stay sound when a snapshot is taken that is sound itself, and that does
\* not bring a run that is gone back as running.
LEMMA TakenIsGood ==
  ASSUME NEW m \in Models, NEW w \in Models, NEW s \in Snapshot,
         Boxed(m.panels), Boxed(w.panels), Taken(m, w, s), SameButPanels(m, w),
         NEW st, NEW over, NEW gone, NEW sent, NEW strange,
         Good(m, st, over, gone, sent, strange), over \subseteq gone,
         SnapshotOK(s, st, over), s.ended \/ s.run \notin gone,
         EraOf[s.run] = m.scope \/ s.run \in strange
  PROVE  Good(w, st, over, gone, sent, strange)
<1>1. /\ \A p \in PanelsIn(m) : p \in Panel /\ p.run \in Runs
      /\ \A p, q \in PanelsIn(m) : p.run = q.run => p = q
      /\ \A r : r \in On(m) <=> \E p \in PanelsIn(m) : p.run = r
  BY PanelsTyped
<1>2. \A r : r \in On(w) <=> \E p \in PanelsIn(w) : p.run = r
  BY PanelsTyped
<1>3. /\ s.run \in Runs /\ s.ended \in BOOLEAN /\ s.full \in BOOLEAN
      /\ s.ended => s.run \in over /\ s.rev = st.runs[s.run].rev
      /\ ~s.ended => s.run \notin over /\ ~s.full
  BY DEF SnapshotOK, Snapshot
<1>4. w.scope = m.scope
  BY DEF SameButPanels
<1>5. w.results \subseteq over
  BY <1>3 DEF Taken, Good
<1>6. CASE Followed(m, w, s)
  <2>1. PICK p \in PanelsIn(m) :
             /\ p.run = s.run /\ Takes(p, s) /\ Updated(p, s) \in PanelsIn(w)
             /\ \A q \in PanelsIn(m) : q.run # s.run => q \in PanelsIn(w)
             /\ \A q \in PanelsIn(w) : q = Updated(p, s) \/ (q \in PanelsIn(m) /\ q.run # s.run)
    BY <1>6 DEF Followed
  <2> DEFINE u == Updated(p, s)
  <2>2. /\ u.run = p.run /\ u.rev = s.rev /\ u.ended = s.ended
        /\ u.visible = p.visible /\ u.historical = p.historical
        /\ u.full = (s.full \/ (p.full /\ s.rev = p.rev))
        /\ u.cancel = (p.cancel /\ ~(s.ended /\ ~p.ended))
    BY <1>1, <2>1, UpdatedTyped
  <2> HIDE DEF u
  <2>3. p.ended => s.ended
    BY <1>3, <2>1 DEF Good
  <2>4. ~s.ended => p.visible /\ ~p.full /\ ~p.historical
    BY <2>1, <2>3 DEF Good
  <2>5. ASSUME NEW q \in PanelsIn(w)
        PROVE  /\ q.ended => q.run \in over /\ q.rev = st.runs[q.run].rev
               /\ ~q.ended => q.visible /\ ~q.full /\ ~q.historical
               /\ q.historical \/ EraOf[q.run] = m.scope \/ q.run \in strange
    <3>1. CASE q = u
      <4>1. q.ended => q.run \in over /\ q.rev = st.runs[q.run].rev
        BY <1>3, <2>1, <2>2, <3>1
      <4>2. ~q.ended => q.visible /\ ~q.full /\ ~q.historical
        BY <1>3, <2>2, <2>4, <3>1
      <4>3. q.historical \/ EraOf[q.run] = m.scope \/ q.run \in strange
        BY <2>1, <2>2, <3>1
      <4>4. QED
        BY <4>1, <4>2, <4>3
    <3>2. CASE q \in PanelsIn(m)
      BY <3>2 DEF Good
    <3>3. QED
      BY <2>1, <3>1, <3>2 DEF u
  <2>6. \A r : r \in On(m) <=> r \in On(w)
    BY <1>1, <1>2, <2>1, <2>2 DEF u
  <2>7. ASSUME NEW r \in sent
        PROVE  Spent(w, r, gone)
    <3>1. Spent(m, r, gone)
      BY DEF Good
    <3>2. CASE r \notin On(m)
      BY <2>6, <3>1, <3>2 DEF Spent
    <3>3. CASE r \in On(m)
      <4>1. PICK q \in PanelsIn(m) : q.run = r /\ (q.cancel \/ q.ended)
        BY <3>1, <3>3 DEF Spent
      <4>2. CASE r # s.run
        <5>1. q \in PanelsIn(w)
          BY <2>1, <4>1, <4>2
        <5>2. QED
          BY <2>6, <3>3, <4>1, <5>1 DEF Spent
      <4>3. CASE r = s.run
        <5>1. q = p
          BY <1>1, <2>1, <4>1, <4>3
        <5>2. u \in PanelsIn(w) /\ u.run = r
          BY <2>1, <2>2, <4>3 DEF u
        <5>3. u.cancel \/ u.ended
          BY <2>2, <2>3, <4>1, <5>1
        <5>4. QED
          BY <2>6, <3>3, <5>2, <5>3 DEF Spent
      <4>4. QED
        BY <4>2, <4>3
    <3>4. QED
      BY <3>2, <3>3
  <2>8. QED
    BY <1>4, <1>5, <2>5, <2>7 DEF Good
<1>7. CASE Added(m, w, s)
  <2>1. /\ s.run \notin On(m) /\ NewPanel(s) \in PanelsIn(w)
        /\ \A q \in PanelsIn(m) : q \in PanelsIn(w) \/ q.ended
        /\ \A q \in PanelsIn(w) : q = NewPanel(s) \/ q \in PanelsIn(m)
    BY <1>7 DEF Added
  <2> DEFINE u == NewPanel(s)
  <2>2. /\ u.run = s.run /\ u.rev = s.rev /\ u.ended = s.ended /\ u.full = s.full
        /\ u.visible = TRUE /\ u.historical = FALSE
    BY NewPanelTyped
  <2> HIDE DEF u
  <2>3. ASSUME NEW q \in PanelsIn(w)
        PROVE  /\ q.ended => q.run \in over /\ q.rev = st.runs[q.run].rev
               /\ ~q.ended => q.visible /\ ~q.full /\ ~q.historical
               /\ q.historical \/ EraOf[q.run] = m.scope \/ q.run \in strange
    <3>1. CASE q = u
      BY <1>3, <2>2, <3>1
    <3>2. CASE q \in PanelsIn(m)
      BY <3>2 DEF Good
    <3>3. QED
      BY <2>1, <3>1, <3>2 DEF u
  <2>4. ASSUME NEW r \in sent
        PROVE  Spent(w, r, gone)
    <3>1. Spent(m, r, gone)
      BY DEF Good
    <3>2. CASE r = s.run
      <4>1. r \in gone
        BY <2>1, <3>1, <3>2 DEF Spent
      <4>2. s.ended
        BY <3>2, <4>1
      <4>3. QED
        BY <1>2, <2>1, <2>2, <3>2, <4>2 DEF Spent, u
    <3>3. CASE r # s.run /\ r \in On(m)
      <4>1. PICK q \in PanelsIn(m) : q.run = r /\ (q.cancel \/ q.ended)
        BY <3>1, <3>3 DEF Spent
      <4>2. CASE q \in PanelsIn(w)
        BY <1>2, <4>1, <4>2 DEF Spent
      <4>3. CASE q \notin PanelsIn(w)
        <5>1. q.ended /\ r \in gone
          BY <2>1, <4>1, <4>3 DEF Good
        <5>2. r \notin On(w)
          <6>1. SUFFICES ASSUME NEW x \in PanelsIn(w), x.run = r PROVE FALSE
            BY <1>2
          <6>2. x \in PanelsIn(m)
            BY <2>1, <2>2, <3>3, <6>1 DEF u
          <6>3. x = q
            BY <1>1, <4>1, <6>1, <6>2
          <6>4. QED
            BY <4>3, <6>3
        <5>3. QED
          BY <5>1, <5>2 DEF Spent
      <4>4. QED
        BY <4>2, <4>3
    <3>4. CASE r # s.run /\ r \notin On(m)
      <4>1. r \in gone
        BY <3>1, <3>4 DEF Spent
      <4>2. r \notin On(w)
        BY <1>1, <1>2, <2>1, <2>2, <3>4 DEF u
      <4>3. QED
        BY <4>1, <4>2 DEF Spent
    <3>5. QED
      BY <3>2, <3>3, <3>4
  <2>5. QED
    BY <1>4, <1>5, <2>3, <2>4 DEF Good
<1>8. QED
  BY <1>6, <1>7 DEF Taken

\* What was kept of the panels of o stays kept when one more snapshot is taken.
LEMMA TakenKeeps ==
  ASSUME NEW m \in Models, NEW w \in Models, NEW s \in Snapshot, NEW o,
         Boxed(m.panels), Boxed(w.panels), Taken(m, w, s),
         NEW st, NEW over, NEW gone, NEW sent, NEW strange, NEW ends,
         Good(m, st, over, gone, sent, strange), SnapshotOK(s, st, over),
         s.ended => s.run \in ends, KeptPanels(o, m, ends)
  PROVE  KeptPanels(o, w, ends)
<1>1. /\ \A p \in PanelsIn(m) : p \in Panel /\ p.run \in Runs
      /\ \A p, q \in PanelsIn(m) : p.run = q.run => p = q
      /\ \A r : r \in On(m) <=> \E p \in PanelsIn(m) : p.run = r
  BY PanelsTyped
<1>2. /\ s.ended => s.run \in over /\ s.rev = st.runs[s.run].rev
      /\ ~s.ended => s.run \notin over /\ ~s.full
  BY DEF SnapshotOK
<1>3. ASSUME NEW p \in PanelsIn(m), p.run = s.run
      PROVE  LET u == Updated(p, s)
             IN  /\ u.run = p.run /\ u.ended = s.ended
                 /\ u.full = (s.full \/ (p.full /\ s.rev = p.rev))
  BY <1>1, <1>3, UpdatedTyped
<1>4. ASSUME NEW p \in PanelsIn(m), ~p.ended, p.run \notin ends
      PROVE  \E q \in PanelsIn(w) : q.run = p.run /\ ~q.ended
  <2>1. CASE p \in PanelsIn(w)
    BY <1>4, <2>1
  <2>2. CASE p \notin PanelsIn(w)
    <3>1. Followed(m, w, s) /\ p.run = s.run
      BY <1>4, <2>2 DEF Taken, Followed, Added
    <3>2. Updated(p, s) \in PanelsIn(w)
      BY <1>1, <3>1 DEF Followed
    <3>3. Updated(p, s).ended = s.ended /\ Updated(p, s).run = p.run
      BY <1>3, <3>1
    <3>4. ~s.ended
      BY <1>4, <3>1
    <3>5. QED
      BY <3>2, <3>3, <3>4
  <2>3. QED
    BY <2>1, <2>2
<1>5. ASSUME Len(w.panels) < Capacity, NEW p \in PanelsIn(m), p.full, p.ended
      PROVE  \E q \in PanelsIn(w) : q.run = p.run /\ q.full /\ q.ended
  <2>1. CASE p \in PanelsIn(w)
    BY <1>5, <2>1
  <2>2. CASE p \notin PanelsIn(w)
    <3>1. Len(m.panels) < Capacity /\ Len(m.panels) # Capacity
      <4>1. /\ Len(m.panels) \in Nat /\ Len(w.panels) \in Nat /\ Capacity \in Nat
            /\ Len(m.panels) <= Len(w.panels)
        BY SequenceAssumption DEF Boxed, Taken
      <4>2. QED
        BY <1>5, <4>1
    <3>2. Followed(m, w, s) /\ p.run = s.run
      BY <2>2, <3>1 DEF Taken, Followed, Added
    <3>3. Updated(p, s) \in PanelsIn(w)
      BY <1>1, <3>2 DEF Followed
    <3>4. p.run \in over /\ p.rev = st.runs[p.run].rev
      BY <1>5 DEF Good
    <3>5. s.ended /\ s.rev = p.rev
      BY <1>2, <3>2, <3>4
    <3>6. /\ Updated(p, s).run = p.run /\ Updated(p, s).ended = s.ended
          /\ Updated(p, s).full = (s.full \/ (p.full /\ s.rev = p.rev))
      BY <1>3, <3>2
    <3>7. Updated(p, s).full /\ Updated(p, s).ended
      BY <1>5, <3>5, <3>6
    <3>8. QED
      BY <3>3, <3>6, <3>7
  <2>3. QED
    BY <2>1, <2>2
<1>6. Len(w.panels) < Capacity => Len(m.panels) < Capacity
  <2>1. /\ Len(m.panels) \in Nat /\ Len(w.panels) \in Nat /\ Capacity \in Nat
        /\ Len(m.panels) <= Len(w.panels)
    BY SequenceAssumption DEF Boxed, Taken
  <2>2. QED
    BY <2>1
<1>7. ASSUME NEW p \in PanelsIn(o), ~p.ended, p.run \notin ends
      PROVE  \E q \in PanelsIn(w) : q.run = p.run /\ ~q.ended
  <2>1. PICK x \in PanelsIn(m) : x.run = p.run /\ ~x.ended
    BY <1>7 DEF KeptPanels
  <2>2. PICK q \in PanelsIn(w) : q.run = x.run /\ ~q.ended
    BY <1>4, <1>7, <2>1
  <2>3. QED
    BY <2>1, <2>2
<1>8. ASSUME Len(w.panels) < Capacity, NEW p \in PanelsIn(o), p.full
      PROVE  \E q \in PanelsIn(w) : q.run = p.run /\ q.full /\ q.ended
  <2>1. PICK x \in PanelsIn(m) : x.run = p.run /\ x.full /\ x.ended
    BY <1>6, <1>8 DEF KeptPanels
  <2>2. PICK q \in PanelsIn(w) : q.run = x.run /\ q.full /\ q.ended
    BY <1>5, <1>8, <2>1
  <2>3. QED
    BY <2>1, <2>2
<1>9. QED
  BY <1>7, <1>8 DEF KeptPanels

\* An envelope keeps the panels sound, whatever it brings and wherever it is refused.
LEMMA EnvelopeIsGood ==
  ASSUME NEW m \in Models, Boxed(m.panels), NEW ss \in Seq(Snapshot),
         NEW st, NEW over, NEW gone, NEW sent, NEW ends,
         Good(m, st, over, gone, sent, {}), over \subseteq gone,
         \A i \in DOMAIN ss : /\ SnapshotOK(ss[i], st, over)
                              /\ ss[i].ended \/ ss[i].run \notin gone
                              /\ ss[i].ended => ss[i].run \in ends
                              /\ EraOf[ss[i].run] = m.scope
  PROVE  LET a == AcceptAll(m, ss)
         IN  /\ a \in [ok : BOOLEAN, m : Models] /\ Boxed(a.m.panels)
             /\ Good(a.m, st, over, gone, sent, {})
             /\ KeptPanels(m, a.m, ends) /\ SameButPanels(m, a.m)
<1> DEFINE Fine(w) == /\ Boxed(w.panels) /\ Good(w, st, over, gone, sent, {})
                      /\ KeptPanels(m, w, ends) /\ SameButPanels(m, w)
           G == {a \in [ok : BOOLEAN, m : Models] : Fine(a.m)}
           base == [ok |-> TRUE, m |-> m]
<1>1. base \in G
  <2>1. KeptPanels(m, m, ends)
    BY PanelsTyped DEF KeptPanels, Good
  <2>2. base \in [ok : BOOLEAN, m : Models] /\ base.m = m
    OBVIOUS
  <2>3. QED
    BY <2>1, <2>2 DEF SameButPanels
<1>2. ASSUME NEW a \in G, NEW i \in DOMAIN ss, a.ok
      PROVE  Accepted(a.m, ss[i]) \in G
  <2> DEFINE b == Accepted(a.m, ss[i])
             s == ss[i]
  <2>1. a.m \in Models /\ Fine(a.m)
    OBVIOUS
  <2>2. s \in Snapshot
    OBVIOUS
  <2>3. /\ b \in [ok : BOOLEAN, m : Models] /\ Boxed(b.m.panels)
        /\ ~b.ok => b.m = a.m
        /\ SameButPanels(a.m, b.m)
        /\ b.ok => Taken(a.m, b.m, s)
    BY <2>1, <2>2, AcceptedIs
  <2> HIDE DEF b, G, Fine
  <2>4. SameButPanels(m, b.m)
    BY <2>1, <2>3 DEF SameButPanels, Fine
  <2>5. CASE ~b.ok
    <3>1. Fine(b.m)
      BY <2>1, <2>3, <2>5
    <3>2. QED
      BY <2>3, <3>1 DEF G, b
  <2>6. CASE b.ok
    <3>1. /\ a.m \in Models /\ b.m \in Models /\ Boxed(a.m.panels) /\ Boxed(b.m.panels)
          /\ Taken(a.m, b.m, s) /\ Good(a.m, st, over, gone, sent, {}) /\ KeptPanels(m, a.m, ends)
      BY <2>1, <2>3, <2>6 DEF Fine
    <3>2. /\ SnapshotOK(s, st, over) /\ (s.ended \/ s.run \notin gone)
          /\ (s.ended => s.run \in ends) /\ EraOf[s.run] = m.scope
      OBVIOUS
    <3>3. a.m.scope = m.scope
      BY <2>1 DEF Fine, SameButPanels
    <3> HIDE DEF s
    <3>4. Good(b.m, st, over, gone, sent, {})
      BY <2>2, <2>3, <3>1, <3>2, <3>3, TakenIsGood
    <3>5. KeptPanels(m, b.m, ends)
      BY <2>2, <3>1, <3>2, TakenKeeps
    <3>6. Fine(b.m)
      BY <2>3, <2>4, <3>4, <3>5 DEF Fine
    <3>7. QED
      BY <2>3, <3>6 DEF G, b, s
  <2>7. QED
    BY <2>3, <2>5, <2>6
<1>3. AcceptAll(m, ss) \in G
  <2> HIDE DEF G
  <2>1. QED
    BY <1>1, <1>2, EnvelopeStays
<1>4. QED
  BY <1>3

\* More may be over and gone, and fewer cancels sent.
LEMMA GoodWider ==
  ASSUME NEW w, NEW st, NEW over, NEW gone, NEW sent, NEW strange,
         NEW over2, NEW gone2, NEW sent2,
         Good(w, st, over, gone, sent, strange),
         over \subseteq over2, gone \subseteq gone2, sent2 \subseteq sent
  PROVE  Good(w, st, over2, gone2, sent2, strange)
<1>1. \A r \in sent2 : Spent(w, r, gone2)
  BY DEF Good, Spent
<1>2. QED
  BY <1>1 DEF Good

\* What the panels show as over is known to be over.
LEMMA GoodKnown ==
  ASSUME NEW w, NEW st, NEW over, NEW gone, NEW sent, NEW fs,
         Good(w, st, over, gone, sent, {})
  PROVE  /\ Good(w, st, KnownOver(w, fs), gone, sent, {})
         /\ KnownOver(w, fs) \subseteq over \cup w.notices \cup {r \in Runs : fs[r] # NoRequest}
<1>1. \A p \in PanelsIn(w) : p.ended => p.run \in KnownOver(w, fs)
  BY DEF KnownOver
<1>2. w.results \subseteq KnownOver(w, fs)
  BY DEF KnownOver
<1>3. Good(w, st, KnownOver(w, fs), gone, sent, {})
  BY <1>1, <1>2 DEF Good
<1>4. KnownOver(w, fs) \subseteq over \cup w.notices \cup {r \in Runs : fs[r] # NoRequest}
  BY DEF KnownOver, Good
<1>5. QED
  BY <1>3, <1>4

-----------------------------------------------------------------------------
(* What the steps have in common *)

\* No run is of the scope before any envelope.
LEMMA ErasAreNumbers ==
  /\ Eras \subseteq Nat /\ \A r \in Runs : EraOf[r] \in Eras /\ EraOf[r] \in Nat /\ EraOf[r] # Older
  /\ Older \in Nat
BY SequenceAssumption DEF Eras, Older

\* The station moves on: what is over stays as it is.
LEMMA StationMoves ==
  ASSUME SeqInv, UNCHANGED <<epoch, model, poll, fetches, cancels>>,
         station' \in [era : Eras, runs : [Runs -> [phase : Phases, rev : 0..MaxRevision]]],
         station.era <= station'.era,
         \A r \in Over(station) : r \in Over(station') /\ station'.runs[r].rev = station.runs[r].rev,
         Past(station) \subseteq Past(station'),
         \A r \in Runs : EraOf[r] < station'.era => r \in Past(station'),
         \A r \in Runs : station'.runs[r].phase \in {"running", "ended", "old"}
                         => station'.runs[r].rev # 0
  PROVE  SeqInv'
<1>1. SeqTyped'
  BY DEF SeqInv, SeqTyped
<1>2. /\ station.era \in Nat /\ station'.era \in Nat /\ model.scope \in Nat
      /\ poll.st = "answered" => poll.era \in Nat
  <2>1. station.era \in Eras /\ station'.era \in Eras /\ model \in Models
    BY DEF SeqInv, SeqTyped
  <2>2. model.scope \in Eras \cup {Older}
    BY <2>1 DEF Models
  <2>3. poll.st = "answered" => poll.era \in Eras
    BY DEF SeqInv, SeqTyped, Polls, NoRequest
  <2>4. QED
    BY <2>1, <2>2, <2>3, ErasAreNumbers
<1>3. StationOK(station', model')
  <2>1. model.scope <= station.era
    BY DEF SeqInv, StationOK
  <2>2. model.scope <= station'.era
    BY <1>2, <2>1
  <2>3. QED
    BY <2>2 DEF StationOK
<1>4. KnownOver(model', fetches') = KnownOver(model, fetches)
      /\ KnownOver(model, fetches) \subseteq Over(station')
  BY DEF SeqInv
<1>5. Good(model, station', KnownOver(model, fetches), Past(station) \ ActiveIn(poll), SentCancels(cancels, model), {})
  <2>1. \A r \in KnownOver(model, fetches) : station'.runs[r].rev = station.runs[r].rev
    BY DEF SeqInv
  <2>2. QED
    BY <2>1 DEF SeqInv, Good
<1>6. Good(model', station', KnownOver(model', fetches'), Past(station') \ ActiveIn(poll'),
           SentCancels(cancels', model'), {})
  BY <1>4, <1>5, GoodWider
<1>7. PollOK(poll', station', model', fetches')
  <2>1. poll.st = "answered" => poll.era <= station'.era
    BY <1>2 DEF SeqInv, PollOK
  <2>2. ASSUME NEW s \in Items(poll)
        PROVE  SnapshotOK(s, station', IF s.ended THEN Over(station') ELSE KnownOver(model, fetches))
    <3>1. SnapshotOK(s, station, IF s.ended THEN Over(station) ELSE KnownOver(model, fetches))
      BY DEF SeqInv, PollOK
    <3>2. QED
      BY <3>1 DEF SnapshotOK
  <2>3. \A r \in Over(station) : r \in Over(station')
    OBVIOUS
  <2>4. QED
    BY <2>1, <2>2, <2>3 DEF SeqInv, PollOK
<1>8. FetchesOK(fetches', model') /\ IntentsOK(cancels', model')
  BY DEF SeqInv
<1>9. QED
  BY <1>1, <1>3, <1>4, <1>6, <1>7, <1>8 DEF SeqInv

\* The dashboard moves on beside its poll: it keeps its source and scope.
LEMMA ModelMoves ==
  ASSUME SeqInv, UNCHANGED <<station, epoch, poll>>,
         model' \in Models, Boxed(model'.panels),
         model'.source = model.source, model'.scope = model.scope,
         fetches' \in [Runs -> Fetches], cancels' \in [Runs -> Intents],
         KnownOver(model', fetches') \subseteq KnownOver(model, fetches),
         Good(model', station, KnownOver(model, fetches), Past(station) \ ActiveIn(poll),
              SentCancels(cancels', model'), {}),
         FetchesOK(fetches', model'), IntentsOK(cancels', model')
  PROVE  SeqInv'
<1>1. SeqTyped'
  BY DEF SeqInv, SeqTyped
<1>2. StationOK(station', model')
  BY DEF SeqInv, StationOK
<1>3. KnownOver(model', fetches') \subseteq Over(station')
  BY DEF SeqInv
<1>4. Good(model', station', KnownOver(model', fetches'), Past(station') \ ActiveIn(poll'),
           SentCancels(cancels', model'), {})
  BY GoodKnown
<1>5. PollOK(poll', station', model', fetches')
  <2>1. ASSUME NEW s \in Items(poll)
        PROVE  SnapshotOK(s, station, IF s.ended THEN Over(station) ELSE KnownOver(model', fetches'))
    <3>1. SnapshotOK(s, station, IF s.ended THEN Over(station) ELSE KnownOver(model, fetches))
      BY DEF SeqInv, PollOK
    <3>2. QED
      BY <3>1 DEF SnapshotOK
  <2>2. QED
    BY <2>1 DEF SeqInv, PollOK
<1>6. QED
  BY <1>1, <1>2, <1>3, <1>4, <1>5 DEF SeqInv

\* The poll begins or is over, with what becomes of the model.
LEMMA PollMoves ==
  ASSUME SeqInv, UNCHANGED <<station, epoch, cancels>>,
         model' \in Models, Boxed(model'.panels),
         model'.source <= epoch, model'.scope <= station.era,
         poll' \in Polls, poll'.st # "answered", poll'.st # "none" => poll'.epoch = model'.source,
         fetches' \in [Runs -> Fetches],
         KnownOver(model', fetches') \subseteq Over(station),
         Good(model', station, Over(station), Past(station), SentCancels(cancels, model'), {}),
         FetchesOK(fetches', model'), IntentsOK(cancels, model')
  PROVE  SeqInv'
<1>1. SeqTyped'
  BY DEF SeqInv, SeqTyped
<1>2. StationOK(station', model')
  BY DEF SeqInv, StationOK
<1>3. Items(poll') = {} /\ ActiveIn(poll') = {}
  BY DEF Items, ActiveIn
<1>4. Past(station') \ ActiveIn(poll') = Past(station) /\ station' = station /\ cancels' = cancels
  BY <1>3
<1>5. Good(model', station', KnownOver(model', fetches'), Past(station') \ ActiveIn(poll'),
           SentCancels(cancels', model'), {})
  <2>1. Good(model', station, KnownOver(model', fetches'), Past(station),
             SentCancels(cancels, model'), {})
    BY GoodKnown
  <2>2. QED
    BY <1>4, <2>1
<1>6. PollOK(poll', station', model', fetches')
  BY <1>3 DEF PollOK
<1>7. QED
  BY <1>1, <1>2, <1>5, <1>6 DEF SeqInv

-----------------------------------------------------------------------------
(* The station *)

\* One run of the station moves on; one that is over stays as it is.
LEMMA GoesIs ==
  ASSUME SeqInv, NEW r \in Runs, NEW p \in Phases, NEW v \in 0..MaxRevision, Goes(r, p, v),
         UNCHANGED <<epoch, model, poll, fetches, cancels>>,
         r \in Over(station) => p \in {"ended", "old"} /\ v = station.runs[r].rev,
         r \in Past(station) => p \notin {"absent", "running"},
         EraOf[r] < station.era => p \notin {"absent", "running"}, v # 0
  PROVE  SeqInv'
<1>1. station \in [era : Eras, runs : [Runs -> [phase : Phases, rev : 0..MaxRevision]]]
  BY DEF SeqInv, SeqTyped
<1>2. /\ station' \in [era : Eras, runs : [Runs -> [phase : Phases, rev : 0..MaxRevision]]]
      /\ station'.era = station.era
      /\ station'.runs[r].phase = p /\ station'.runs[r].rev = v
      /\ \A s \in Runs : s # r => station'.runs[s] = station.runs[s]
  BY <1>1 DEF Goes
<1>3. station.era <= station'.era
  <2>1. station.era \in Nat
    BY <1>1, ErasAreNumbers
  <2>2. QED
    BY <1>2, <2>1
<1>4. \A s \in Over(station) : s \in Over(station') /\ station'.runs[s].rev = station.runs[s].rev
  BY <1>2 DEF Over
<1>5. Past(station) \subseteq Past(station')
  BY <1>2 DEF Past
<1>6. \A s \in Runs : EraOf[s] < station'.era => s \in Past(station')
  <2>1. \A s \in Runs : EraOf[s] < station.era => s \in Past(station)
    BY DEF SeqInv, StationOK
  <2>2. r \in Past(station') <=> p \notin {"absent", "running"}
    BY <1>2 DEF Past
  <2>3. QED
    BY <1>2, <1>5, <2>1, <2>2
<1>7. \A s \in Runs : station'.runs[s].phase \in {"running", "ended", "old"}
                      => station'.runs[s].rev # 0
  BY <1>2 DEF SeqInv, StationOK
<1>8. QED
  BY <1>2, <1>3, <1>4, <1>5, <1>6, <1>7, StationMoves

LEMMA BeginsKeeps ==
  ASSUME SeqInv, NEW r \in Runs, Begins(r)
  PROVE  SeqInv'
<1>1. /\ station.runs[r].phase = "absent" /\ EraOf[r] = station.era /\ Goes(r, "running", 1)
      /\ UNCHANGED <<epoch, model, poll, fetches, cancels>>
  BY DEF Begins, Phase
<1>2. "running" \in Phases /\ 1 \in 0..MaxRevision
  BY SequenceAssumption DEF Phases
<1>3. r \notin Over(station) /\ r \notin Past(station)
  BY <1>1 DEF Over, Past
<1>4. ~(EraOf[r] < station.era)
  BY <1>1, ErasAreNumbers
<1>5. QED
  BY <1>1, <1>2, <1>3, <1>4, GoesIs

LEMMA ReportsKeeps ==
  ASSUME SeqInv, NEW r \in Runs, NEW p \in {"running", "ended"}, Reports(r, p)
  PROVE  SeqInv'
<1>1. /\ station.runs[r].phase = "running" /\ station.runs[r].rev < MaxRevision
      /\ Goes(r, p, station.runs[r].rev + 1)
      /\ UNCHANGED <<epoch, model, poll, fetches, cancels>>
  BY DEF Reports, Phase
<1>2. station.runs[r].rev \in 0..MaxRevision
  BY DEF SeqInv, SeqTyped
<1>3. p \in Phases /\ station.runs[r].rev + 1 \in 0..MaxRevision /\ station.runs[r].rev + 1 # 0
  BY <1>1, <1>2, SequenceAssumption DEF Phases
<1>4. r \notin Over(station) /\ r \notin Past(station)
  BY <1>1 DEF Over, Past
<1>5. ~(EraOf[r] < station.era)
  BY <1>4 DEF SeqInv, StationOK
<1>6. QED
  BY <1>1, <1>3, <1>4, <1>5, GoesIs

LEMMA AgesKeeps ==
  ASSUME SeqInv, NEW r \in Runs, Ages(r)
  PROVE  SeqInv'
<1>1. /\ station.runs[r].phase = "ended" /\ Goes(r, "old", station.runs[r].rev)
      /\ UNCHANGED <<epoch, model, poll, fetches, cancels>>
  BY DEF Ages, Phase
<1>2. station.runs[r].rev \in 0..MaxRevision /\ "old" \in Phases /\ station.runs[r].rev # 0
  BY <1>1 DEF SeqInv, SeqTyped, Phases, StationOK
<1>3. QED
  BY <1>1, <1>2, GoesIs

LEMMA NewEraKeeps ==
  ASSUME SeqInv, NewEra
  PROVE  SeqInv'
<1>1. station \in [era : Eras, runs : [Runs -> [phase : Phases, rev : 0..MaxRevision]]]
  BY DEF SeqInv, SeqTyped
<1> DEFINE e == station.era
<1>2. e \in Nat /\ e + 1 \in Eras /\ \A r \in Runs : EraOf[r] \in Nat
  BY <1>1, ErasAreNumbers DEF NewEra
<1>3. station'.era = e + 1 /\ station' \in [era : Eras, runs : [Runs -> [phase : Phases, rev : 0..MaxRevision]]]
  BY <1>1, <1>2 DEF NewEra, Phases
<1>4. ASSUME NEW r \in Runs
      PROVE  /\ station'.runs[r].rev = station.runs[r].rev
             /\ EraOf[r] > e => station'.runs[r].phase = station.runs[r].phase
             /\ ~(EraOf[r] > e) => station'.runs[r].phase =
                  IF station.runs[r].phase \in {"ended", "old"} THEN "old" ELSE "lost"
  BY <1>1 DEF NewEra
<1>5. \A r \in Over(station) : r \in Over(station') /\ station'.runs[r].rev = station.runs[r].rev
  BY <1>4 DEF Over
<1>6. Past(station) \subseteq Past(station')
  BY <1>4 DEF Past
<1>7. ASSUME NEW r \in Runs, EraOf[r] < e + 1
      PROVE  r \in Past(station')
  <2>1. ~(EraOf[r] > e)
    BY <1>2, <1>7
  <2>2. QED
    BY <1>4, <2>1 DEF Past
<1>8. e <= station'.era
  BY <1>2, <1>3
<1>9. UNCHANGED <<epoch, model, poll, fetches, cancels>>
  BY DEF NewEra
<1>10. ASSUME NEW r \in Runs, station'.runs[r].phase \in {"running", "ended", "old"}
       PROVE  station'.runs[r].rev # 0
  <2>1. station.runs[r].phase \in {"running", "ended", "old"}
    BY <1>4, <1>10
  <2>2. QED
    BY <1>4, <2>1 DEF SeqInv, StationOK
<1>11. QED
  BY <1>3, <1>5, <1>6, <1>7, <1>8, <1>9, <1>10, StationMoves

-----------------------------------------------------------------------------
(* The poll *)

\* The runs of I that began no later than r.
UpTo(I, r) == {s \in I : s <= r}

\* Of a set of runs, for every k up to their number one is the k-th.
LEMMA KthRun ==
  ASSUME NEW I \in SUBSET Runs
  PROVE  \A k \in 1..Cardinality(I) : \E r \in I : Cardinality(UpTo(I, r)) = k
<1> DEFINE rank == [r \in I |-> Cardinality(UpTo(I, r))]
           c == Cardinality(I)
<1>1. NRuns \in Nat /\ IsFiniteSet(1..NRuns)
  BY FS_Interval, SequenceAssumption
<1>2. IsFiniteSet(I) /\ c \in Nat
  BY <1>1, FS_Subset, FS_CardinalityType DEF Runs
<1> HIDE DEF c
<1>3. IsFiniteSet(1..c) /\ Cardinality(1..c) = c
  BY <1>2, FS_Interval
<1>4. ASSUME NEW r \in I
      PROVE  IsFiniteSet(UpTo(I, r)) /\ Cardinality(UpTo(I, r)) \in 1..c
  <2>1. UpTo(I, r) \in SUBSET I /\ r \in UpTo(I, r)
    BY DEF UpTo, Runs
  <2>2. IsFiniteSet(UpTo(I, r)) /\ Cardinality(UpTo(I, r)) <= c
    BY <1>2, <2>1, FS_Subset DEF c
  <2>3. Cardinality(UpTo(I, r)) \in Nat /\ Cardinality(UpTo(I, r)) # 0
    BY <2>1, <2>2, FS_CardinalityType, FS_EmptySet
  <2>4. QED
    BY <1>2, <2>2, <2>3
<1>5. ASSUME NEW r \in I, NEW s \in I, r < s
      PROVE  Cardinality(UpTo(I, r)) # Cardinality(UpTo(I, s))
  <2>1. r \in Nat /\ s \in Nat /\ \A x \in I : x \in Nat
    BY DEF Runs
  <2>2. s \in UpTo(I, s) /\ s \notin UpTo(I, r)
    BY <1>5, <2>1 DEF UpTo
  <2>3. UpTo(I, r) \in SUBSET UpTo(I, s)
    <3>1. ASSUME NEW x \in UpTo(I, r)
          PROVE  x \in UpTo(I, s)
      <4>1. x \in I /\ x \in Nat /\ x <= r
        BY <2>1 DEF UpTo
      <4>2. x <= s
        BY <1>5, <2>1, <4>1
      <4>3. QED
        BY <4>1, <4>2 DEF UpTo
    <3>2. QED
      BY <3>1
  <2>4. QED
    BY <1>4, <2>2, <2>3, FS_Subset
<1>6. rank \in [I -> 1..c]
  BY <1>4
<1>7. \A r, s \in I : rank[r] = rank[s] => r = s
  <2>1. \A r, s \in I : r < s => rank[r] # rank[s]
    BY <1>5
  <2>2. \A r, s \in I : r < s \/ s < r \/ r = s
    BY DEF Runs
  <2> HIDE DEF rank
  <2>3. QED
    BY <2>1, <2>2
<1>8. rank \in Surjection(I, 1..c)
  <2> HIDE DEF rank
  <2>1. rank \in Injection(I, 1..c)
    BY <1>6, <1>7 DEF Injection, IsInjective
  <2>2. QED
    BY <1>3, <2>1, FS_Injection DEF c
<1>9. \A k \in 1..c : \E r \in I : rank[r] = k
  <2> HIDE DEF rank
  <2>1. QED
    BY <1>8 DEF Surjection
<1>10. QED
  BY <1>9 DEF c

\* The items of a list are runs of this era in one of the phases, as they are.
LEMMA ListedIs ==
  ASSUME SeqInv, NEW phases \in SUBSET {"running", "ended"}
  PROVE  LET l == Listed(phases)
         IN  /\ l \in Seq(Snapshot)
             /\ \A i \in DOMAIN l :
                  /\ l[i].run \in Runs /\ Phase(l[i].run) \in phases
                  /\ EraOf[l[i].run] = station.era /\ l[i].rev = station.runs[l[i].run].rev
                  /\ l[i].ended = (Phase(l[i].run) # "running") /\ l[i].full = FALSE
<1> DEFINE I == {r \in Runs : Phase(r) \in phases /\ EraOf[r] = station.era}
           c == Cardinality(I)
           rs == InOrder(I)
           l == Listed(phases)
           item(r) == [run |-> r, rev |-> station.runs[r].rev, ended |-> Phase(r) # "running",
                       full |-> FALSE]
<1>1. IsFiniteSet(1..NRuns) /\ I \in SUBSET (1..NRuns)
  BY FS_Interval, SequenceAssumption DEF Runs
<1>2. c \in Nat
  BY <1>1, FS_Subset, FS_CardinalityType
<1>3. \A k \in 1..c : \E r \in I : Cardinality(UpTo(I, r)) = k
  BY KthRun
<1>4. rs = [k \in 1..c |-> CHOOSE r \in I : Cardinality(UpTo(I, r)) = k]
  BY DEF InOrder, UpTo
<1>5. l = [k \in DOMAIN rs |-> item(rs[k])]
  BY DEF Listed
<1> HIDE DEF c, rs, l
<1>6. DOMAIN rs = 1..c /\ \A k \in 1..c : rs[k] \in I
  <2> HIDE DEF I
  <2>1. QED
    BY <1>3, <1>4
<1>7. ASSUME NEW r \in I
      PROVE  /\ item(r) \in Snapshot
             /\ item(r).run = r /\ r \in Runs /\ Phase(r) \in phases /\ EraOf[r] = station.era
  <2>1. r \in Runs /\ Phase(r) \in phases /\ EraOf[r] = station.era
    OBVIOUS
  <2>2. station.runs[r].rev \in 0..MaxRevision /\ station.runs[r].rev # 0
    BY <2>1 DEF SeqInv, SeqTyped, StationOK, Phase
  <2>3. station.runs[r].rev \in 1..MaxRevision
    BY <2>2, SequenceAssumption
  <2>4. QED
    BY <2>1, <2>3 DEF Snapshot
<1>8. DOMAIN l = 1..c /\ \A k \in 1..c : l[k] = item(rs[k])
  BY <1>5, <1>6
<1>9. \A k \in 1..c : l[k] \in Snapshot
  <2> HIDE DEF item, I
  <2>1. QED
    BY <1>6, <1>7, <1>8
<1>10. l \in Seq(Snapshot)
  <2>1. l = [k \in 1..c |-> l[k]]
    BY <1>5, <1>6
  <2>2. QED
    BY <1>2, <1>9, <2>1
<1>11. ASSUME NEW k \in 1..c
       PROVE  /\ l[k].run \in Runs /\ Phase(l[k].run) \in phases
              /\ EraOf[l[k].run] = station.era /\ l[k].rev = station.runs[l[k].run].rev
              /\ l[k].ended = (Phase(l[k].run) # "running") /\ l[k].full = FALSE
  <2>1. rs[k] \in I /\ l[k] = item(rs[k])
    BY <1>6, <1>8
  <2>2. /\ l[k].run = rs[k] /\ l[k].rev = station.runs[rs[k]].rev
        /\ l[k].ended = (Phase(rs[k]) # "running") /\ l[k].full = FALSE
    BY <2>1
  <2> HIDE DEF I, item
  <2>3. QED
    BY <1>7, <2>1, <2>2
<1>12. QED
  BY <1>8, <1>10, <1>11 DEF l

LEMMA StationAnswersKeeps ==
  ASSUME SeqInv, StationAnswers
  PROVE  SeqInv'
<1> DEFINE u == Listed({"running"})
           v == Listed({"ended"})
           l == u \o v
           links == {r \in Runs : Phase(r) \in {"ended", "old"}}
<1>1. /\ poll.st = "asked" /\ UNCHANGED <<station, epoch, model, fetches, cancels>>
      /\ poll' = [st |-> "answered", epoch |-> poll.epoch, era |-> station.era,
                  list |-> l, links |-> links]
  BY DEF StationAnswers
<1> DEFINE asIs(s) == /\ s.run \in Runs /\ Phase(s.run) \in {"running", "ended"}
                      /\ EraOf[s.run] = station.era /\ s.rev = station.runs[s.run].rev
                      /\ s.ended = (Phase(s.run) # "running") /\ s.full = FALSE
<1>2. /\ u \in Seq(Snapshot) /\ v \in Seq(Snapshot)
      /\ \A i \in DOMAIN u : asIs(u[i])
      /\ \A i \in DOMAIN v : asIs(v[i])
  <2>1. /\ u \in Seq(Snapshot)
        /\ \A i \in DOMAIN u : asIs(u[i])
    BY ListedIs
  <2>2. /\ v \in Seq(Snapshot)
        /\ \A i \in DOMAIN v : asIs(v[i])
    BY ListedIs
  <2>3. QED
    BY <2>1, <2>2
<1> HIDE DEF u, v
<1>3. l \in Seq(Snapshot) /\ \A i \in DOMAIN l : \/ \E j \in DOMAIN u : l[i] = u[j]
                                                 \/ \E j \in DOMAIN v : l[i] = v[j]
  <2>1. /\ l \in Seq(Snapshot) /\ Len(l) = Len(u) + Len(v)
        /\ \A k \in 1..(Len(u) + Len(v)) : l[k] = IF k <= Len(u) THEN u[k] ELSE v[k - Len(u)]
    BY <1>2
  <2>2. /\ Len(u) \in Nat /\ Len(v) \in Nat /\ DOMAIN u = 1..Len(u) /\ DOMAIN v = 1..Len(v)
        /\ DOMAIN l = 1..Len(l)
    BY <1>2, <2>1
  <2> HIDE DEF l
  <2>3. ASSUME NEW i \in DOMAIN l
        PROVE  \/ \E j \in DOMAIN u : l[i] = u[j]
               \/ \E j \in DOMAIN v : l[i] = v[j]
    <3>1. i \in 1..(Len(u) + Len(v))
      BY <2>1, <2>2
    <3>2. CASE i <= Len(u)
      <4>1. i \in DOMAIN u /\ l[i] = u[i]
        BY <2>1, <2>2, <3>1, <3>2
      <4>2. QED
        BY <4>1
    <3>3. CASE ~(i <= Len(u))
      <4>1. i - Len(u) \in DOMAIN v /\ l[i] = v[i - Len(u)]
        BY <2>1, <2>2, <3>1, <3>3
      <4>2. QED
        BY <4>1
    <3>4. QED
      BY <3>2, <3>3
  <2>4. QED
    BY <2>1, <2>3
<1>4. \A i \in DOMAIN l : asIs(l[i])
  <2> HIDE DEF asIs, l
  <2>1. QED
    BY <1>2, <1>3
<1> HIDE DEF l
<1>5. Items(poll') = {l[i] : i \in DOMAIN l}
  BY <1>1 DEF Items
<1>6. \A s \in Items(poll') : asIs(s)
  <2> HIDE DEF asIs
  <2>1. QED
    BY <1>4, <1>5
<1>7. station.era \in Eras /\ poll.epoch \in 0..MaxEpoch /\ links \in SUBSET Runs
  <2>1. poll \in Polls /\ station.era \in Eras
    BY DEF SeqInv, SeqTyped
  <2>2. QED
    BY <1>1, <2>1 DEF Polls, NoRequest
<1>8. SeqTyped'
  <2>1. poll' \in Polls
    BY <1>1, <1>3, <1>7 DEF Polls
  <2>2. QED
    BY <1>1, <2>1 DEF SeqInv, SeqTyped
<1>9. ActiveIn(poll) = {}
  BY <1>1 DEF ActiveIn, Items
<1>10. Past(station) \ ActiveIn(poll') = Past(station)
  <2>1. ASSUME NEW r \in ActiveIn(poll')
        PROVE  r \notin Past(station)
    <3>1. PICK s \in Items(poll') : ~s.ended /\ s.run = r
      BY DEF ActiveIn
    <3>2. Phase(r) = "running"
      BY <1>6, <3>1
    <3>3. QED
      BY <3>2 DEF Past, Phase
  <2>2. QED
    BY <2>1
<1>11. Good(model', station', KnownOver(model', fetches'), Past(station') \ ActiveIn(poll'),
            SentCancels(cancels', model'), {})
  <2>1. Good(model, station, KnownOver(model, fetches), Past(station), SentCancels(cancels, model), {})
    BY <1>9 DEF SeqInv
  <2>2. QED
    BY <1>1, <1>10, <2>1
<1>12. PollOK(poll', station', model', fetches')
  <2>1. /\ poll'.st = "answered" /\ poll'.epoch = model.source /\ poll'.era = station.era
        /\ poll'.links \subseteq Over(station)
    BY <1>1 DEF SeqInv, PollOK, Over, Phase
  <2>2. model.scope <= station.era /\ station.era <= station.era
    <3>1. station.era \in Nat
      BY <1>7, ErasAreNumbers
    <3>2. station.era <= station.era
      BY <3>1
    <3>3. QED
      BY <3>2 DEF SeqInv, StationOK
  <2>3. ASSUME NEW s \in Items(poll')
        PROVE  /\ EraOf[s.run] = poll'.era
               /\ SnapshotOK(s, station, IF s.ended THEN Over(station) ELSE KnownOver(model, fetches))
    <3>1. asIs(s)
      BY <1>6
    <3>2. s.ended => s.run \in Over(station)
      BY <3>1 DEF Over, Phase
    <3>3. ~s.ended => s.run \notin Over(station)
      BY <3>1 DEF Over, Phase
    <3>4. KnownOver(model, fetches) \subseteq Over(station)
      BY DEF SeqInv
    <3>5. QED
      BY <2>1, <3>1, <3>2, <3>3, <3>4 DEF SnapshotOK
  <2>4. \A s, t \in Items(poll') : s.run = t.run => s.ended = t.ended
    BY <1>6
  <2>5. QED
    BY <1>1, <2>1, <2>2, <2>3, <2>4 DEF PollOK
<1>13. QED
  BY <1>1, <1>8, <1>11, <1>12 DEF SeqInv

\* What the panels, results, notices, source and scope say does not depend on the rest.
SameView(m, w) ==
  /\ w.panels = m.panels /\ w.results = m.results /\ w.notices = m.notices
  /\ w.source = m.source /\ w.scope = m.scope

\* A model that differs in its flags alone is as sound.
LEMMA SameViewIs ==
  ASSUME NEW m, NEW w, SameView(m, w), NEW st, NEW over, NEW gone, NEW sent, NEW fs, NEW cs
  PROVE  /\ Good(m, st, over, gone, sent, {}) => Good(w, st, over, gone, sent, {})
         /\ KnownOver(w, fs) = KnownOver(m, fs) /\ SentCancels(cs, w) = SentCancels(cs, m)
         /\ FetchesOK(fs, m) => FetchesOK(fs, w)
         /\ IntentsOK(cs, m) => IntentsOK(cs, w)
<1>1. PanelsIn(w) = PanelsIn(m) /\ On(w) = On(m)
  BY DEF SameView, PanelsIn, On
<1>2. \A r : Spent(w, r, gone) <=> Spent(m, r, gone)
  BY <1>1 DEF Spent
<1>3. Good(m, st, over, gone, sent, {}) => Good(w, st, over, gone, sent, {})
  BY <1>1, <1>2 DEF Good, SameView
<1>4. KnownOver(w, fs) = KnownOver(m, fs) /\ SentCancels(cs, w) = SentCancels(cs, m)
  BY <1>1 DEF KnownOver, SentCancels, SameView
<1>5. FetchesOK(fs, m) => FetchesOK(fs, w)
  BY DEF FetchesOK, SameView
<1>6. IntentsOK(cs, m) => IntentsOK(cs, w)
  BY DEF IntentsOK, SameView
<1>7. QED
  BY <1>3, <1>4, <1>5, <1>6

\* A model without panels.
LEMMA EmptyIs ==
  ASSUME NEW e \in 0..MaxEpoch, NEW scope \in Eras \cup {Older}
  PROVE  LET w == EmptyModel(e, scope)
         IN  /\ w \in Models /\ Boxed(w.panels) /\ PanelsIn(w) = {} /\ On(w) = {}
             /\ w.source = e /\ w.scope = scope /\ w.results = {} /\ w.notices = {}
<1> DEFINE w == EmptyModel(e, scope)
<1>1. /\ w.source = e /\ w.scope = scope /\ w.results = {} /\ w.notices = {}
      /\ w.panels = <<>>
  BY DEF EmptyModel
<1>2. w \in Models
  BY DEF EmptyModel, Models
<1> HIDE DEF w
<1>3. PanelsIn(w) = {} /\ On(w) = {}
  BY <1>1 DEF PanelsIn, On
<1>4. Boxed(w.panels)
  <2>1. Len(w.panels) = 0 /\ DOMAIN w.panels = {} /\ w.panels \in Seq(Panel)
    BY <1>1
  <2>2. 0 <= Capacity
    BY SequenceAssumption
  <2>3. QED
    BY <2>1, <2>2 DEF Boxed
<1>5. QED
  BY <1>1, <1>2, <1>3, <1>4 DEF w

\* set_source is for another connection, which knows of nothing; or does nothing.
LEMMA SetSourceIs ==
  ASSUME SeqInv
  PROVE  LET w == SetSource(model, epoch)
         IN  /\ w \in Models /\ Boxed(w.panels)
             /\ w.source = epoch /\ w.scope <= station.era
             /\ KnownOver(w, fetches) \subseteq KnownOver(model, fetches)
             /\ Good(w, station, Over(station), Past(station), SentCancels(cancels, w), {})
             /\ FetchesOK(fetches, w) /\ IntentsOK(cancels, w)
             /\ w = model \/ (w.source # model.source /\ PanelsIn(w) = {})
<1> DEFINE w == SetSource(model, epoch)
<1>1. /\ model \in Models /\ Boxed(model.panels) /\ epoch \in 0..MaxEpoch
      /\ model.source <= epoch /\ station.era \in Eras
      /\ fetches \in [Runs -> Fetches] /\ cancels \in [Runs -> Intents]
  BY DEF SeqInv, SeqTyped
<1>2. CASE model.source = epoch
  <2>1. w = model
    BY <1>2 DEF SetSource
  <2>2. Good(model, station, Over(station), Past(station), SentCancels(cancels, model), {})
    BY GoodWider DEF SeqInv
  <2> HIDE DEF w
  <2>3. QED
    BY <1>1, <1>2, <2>1, <2>2 DEF SeqInv, StationOK, w
<1>3. CASE model.source # epoch
  <2>1. w = EmptyModel(epoch, Older)
    BY <1>3 DEF SetSource
  <2> HIDE DEF w
  <2>2. /\ w \in Models /\ Boxed(w.panels) /\ PanelsIn(w) = {} /\ On(w) = {}
        /\ w.source = epoch /\ w.scope = Older /\ w.results = {} /\ w.notices = {}
    BY <1>1, <2>1, EmptyIs
  <2>3. w.scope <= station.era
    <3>1. station.era \in Nat /\ w.scope = 0
      BY <1>1, <2>2, ErasAreNumbers DEF Older
    <3>2. QED
      BY <3>1
  <2>4. KnownOver(w, fetches) \subseteq KnownOver(model, fetches)
    BY <2>2 DEF KnownOver
  <2>5. /\ model.source \in Nat /\ epoch \in Nat /\ model.source < epoch
    BY <1>1, <1>3 DEF Models
  <2>6. FetchesOK(fetches, w)
    <3>1. ASSUME NEW r \in Runs, fetches[r].st = "details"
          PROVE  fetches[r].epoch <= epoch /\ fetches[r].epoch # epoch
      <4>1. fetches[r].epoch \in Nat
        BY <1>1, <3>1 DEF Fetches, NoRequest
      <4>2. fetches[r].epoch <= model.source
        BY <3>1 DEF SeqInv, FetchesOK
      <4>3. QED
        BY <2>5, <4>1, <4>2
    <3>2. QED
      BY <2>2, <3>1 DEF FetchesOK
  <2>7. ASSUME NEW r \in Runs, cancels[r] # NoRequest
        PROVE  cancels[r].source <= epoch /\ cancels[r].source # epoch
    <3>1. cancels[r].source \in Nat
      BY <1>1, <2>7 DEF Intents
    <3>2. cancels[r].source <= model.source
      BY <2>7 DEF SeqInv, IntentsOK
    <3>3. QED
      BY <2>5, <3>1, <3>2
  <2>8. IntentsOK(cancels, w) /\ SentCancels(cancels, w) = {}
    BY <2>2, <2>7 DEF IntentsOK, SentCancels
  <2>9. Good(w, station, Over(station), Past(station), SentCancels(cancels, w), {})
    BY <2>2, <2>8 DEF Good
  <2>10. QED
    BY <1>3, <2>2, <2>3, <2>4, <2>6, <2>8, <2>9 DEF w
<1>4. QED
  BY <1>2, <1>3

LEMMA PollBeginsKeeps ==
  ASSUME SeqInv, PollBegins
  PROVE  SeqInv'
<1>1. /\ model' = SetSource(model, epoch) /\ poll' = [st |-> "asked", epoch |-> epoch]
      /\ UNCHANGED <<station, epoch, fetches, cancels>>
  BY DEF PollBegins
<1>2. /\ model' \in Models /\ Boxed(model'.panels)
      /\ model'.source = epoch /\ model'.scope <= station.era
      /\ KnownOver(model', fetches) \subseteq KnownOver(model, fetches)
      /\ Good(model', station, Over(station), Past(station), SentCancels(cancels, model'), {})
      /\ FetchesOK(fetches, model') /\ IntentsOK(cancels, model')
  BY <1>1, SetSourceIs
<1>3. /\ epoch \in 0..MaxEpoch /\ fetches' \in [Runs -> Fetches] /\ epoch <= epoch
      /\ KnownOver(model, fetches) \subseteq Over(station)
  BY <1>1 DEF SeqInv, SeqTyped
<1>4. /\ poll' \in Polls /\ poll'.st = "asked" /\ poll'.epoch = epoch
  BY <1>1, <1>3 DEF Polls
<1>5. /\ model'.source <= epoch /\ KnownOver(model', fetches') \subseteq Over(station)
      /\ FetchesOK(fetches', model')
  BY <1>1, <1>2, <1>3
<1>6. QED
  BY <1>1, <1>2, <1>3, <1>4, <1>5, PollMoves

LEMMA PollSupersededKeeps ==
  ASSUME SeqInv, PollSuperseded
  PROVE  SeqInv'
<1> DEFINE w == SetSource(model, epoch)
<1>1. /\ model' = [w EXCEPT !.api = FALSE] /\ poll' = NoRequest
      /\ UNCHANGED <<station, epoch, fetches, cancels>>
  BY DEF PollSuperseded
<1>2. /\ w \in Models /\ Boxed(w.panels)
      /\ w.source = epoch /\ w.scope <= station.era
      /\ KnownOver(w, fetches) \subseteq KnownOver(model, fetches)
      /\ Good(w, station, Over(station), Past(station), SentCancels(cancels, w), {})
      /\ FetchesOK(fetches, w) /\ IntentsOK(cancels, w)
  BY SetSourceIs
<1> HIDE DEF w
<1>3. model' \in Models /\ SameView(w, model')
  BY <1>1, <1>2 DEF Models, SameView
<1>4. /\ fetches' \in [Runs -> Fetches] /\ epoch <= epoch
      /\ KnownOver(model, fetches) \subseteq Over(station)
      /\ poll' \in Polls /\ poll'.st = "none"
  BY <1>1 DEF SeqInv, SeqTyped, Polls, NoRequest
<1>5. /\ Boxed(model'.panels) /\ model'.source <= epoch /\ model'.scope <= station.era
  BY <1>2, <1>3, <1>4 DEF SameView
<1>6. /\ Good(model', station, Over(station), Past(station), SentCancels(cancels, w), {})
      /\ KnownOver(model', fetches) = KnownOver(w, fetches)
         /\ SentCancels(cancels, model') = SentCancels(cancels, w)
      /\ FetchesOK(fetches, model') /\ IntentsOK(cancels, model')
  BY <1>2, <1>3, SameViewIs
<1>7. /\ Good(model', station, Over(station), Past(station), SentCancels(cancels, model'), {})
      /\ KnownOver(model', fetches') \subseteq Over(station) /\ FetchesOK(fetches', model')
  BY <1>1, <1>2, <1>4, <1>6
<1>8. QED
  BY <1>1, <1>3, <1>4, <1>5, <1>6, <1>7, PollMoves

LEMMA PollFailsKeeps ==
  ASSUME SeqInv, PollFails
  PROVE  SeqInv'
<1>1. /\ model' = [model EXCEPT !.unavailable = TRUE, !.api = FALSE] /\ poll' = NoRequest
      /\ UNCHANGED <<station, epoch, fetches, cancels>>
  BY DEF PollFails
<1>2. /\ model \in Models /\ Boxed(model.panels) /\ model.source <= epoch
      /\ fetches' \in [Runs -> Fetches] /\ model.scope <= station.era
      /\ KnownOver(model, fetches) \subseteq Over(station)
      /\ FetchesOK(fetches, model) /\ IntentsOK(cancels, model)
      /\ poll' \in Polls /\ poll'.st = "none"
  BY <1>1 DEF SeqInv, SeqTyped, StationOK, Polls, NoRequest
<1>3. Good(model, station, Over(station), Past(station), SentCancels(cancels, model), {})
  BY GoodWider DEF SeqInv
<1>4. model' \in Models /\ SameView(model, model')
  BY <1>1, <1>2 DEF Models, SameView
<1>5. /\ Boxed(model'.panels) /\ model'.source <= epoch /\ model'.scope <= station.era
  BY <1>2, <1>4 DEF SameView
<1>6. /\ Good(model', station, Over(station), Past(station), SentCancels(cancels, model), {})
      /\ KnownOver(model', fetches) = KnownOver(model, fetches)
         /\ SentCancels(cancels, model') = SentCancels(cancels, model)
      /\ FetchesOK(fetches, model') /\ IntentsOK(cancels, model')
  BY <1>2, <1>3, <1>4, SameViewIs
<1>7. /\ Good(model', station, Over(station), Past(station), SentCancels(cancels, model'), {})
      /\ KnownOver(model', fetches') \subseteq Over(station) /\ FetchesOK(fetches', model')
  BY <1>1, <1>2, <1>6
<1>8. QED
  BY <1>1, <1>2, <1>4, <1>5, <1>6, <1>7, PollMoves

\* The runs that the answer under way lists as ended.
Ends(pl) == {s.run : s \in {t \in Items(pl) : t.ended}}

\* set_scope is for another run history, in which nothing that was sent a cancel can
\* come back as running; or does nothing.
LEMMA SetScopeIs ==
  ASSUME SeqInv, poll.st = "answered"
  PROVE  LET w == SetScope(model, poll.era)
         IN  /\ w \in Models /\ Boxed(w.panels)
             /\ w.source = model.source /\ w.scope = poll.era /\ w.notices \subseteq model.notices
             /\ Good(w, station, KnownOver(model, fetches), Past(station) \ ActiveIn(poll),
                     SentCancels(cancels, model), {})
             /\ model.scope = poll.era => w = model
<1> DEFINE w == SetScope(model, poll.era)
           gone == Past(station) \ ActiveIn(poll)
<1>1. /\ model \in Models /\ Boxed(model.panels) /\ poll.era \in Eras
      /\ model.source \in 0..MaxEpoch
  <2>1. poll \in Polls /\ model \in Models /\ Boxed(model.panels)
    BY DEF SeqInv, SeqTyped
  <2>2. QED
    BY <2>1 DEF Polls, NoRequest, Models
<1>2. Good(model, station, KnownOver(model, fetches), gone, SentCancels(cancels, model), {})
  BY DEF SeqInv
<1>3. CASE model.scope = poll.era
  <2>1. w = model
    BY <1>3 DEF SetScope
  <2> HIDE DEF w
  <2>2. QED
    BY <1>1, <1>2, <1>3, <2>1 DEF w
<1>4. CASE model.scope # poll.era
  <2> DEFINE x == EmptyModel(model.source, poll.era)
  <2>1. w = [x EXCEPT !.api = model.api]
    BY <1>4 DEF SetScope
  <2>2. /\ x \in Models /\ Boxed(x.panels) /\ PanelsIn(x) = {} /\ On(x) = {}
        /\ x.source = model.source /\ x.scope = poll.era /\ x.results = {} /\ x.notices = {}
    BY <1>1, EmptyIs
  <2> HIDE DEF x, w
  <2>3. /\ w \in Models /\ w.panels = x.panels
        /\ w.source = model.source /\ w.scope = poll.era /\ w.results = {} /\ w.notices = {}
    BY <1>1, <2>1, <2>2 DEF Models
  <2>4. PanelsIn(w) = {} /\ On(w) = {}
    BY <2>2, <2>3 DEF PanelsIn, On
  <2>5. ASSUME NEW r \in SentCancels(cancels, model)
        PROVE  r \in gone
    <3>1. Spent(model, r, gone)
      BY <1>2 DEF Good
    <3>2. CASE r \notin On(model)
      BY <3>1, <3>2 DEF Spent
    <3>3. CASE r \in On(model)
      <4>1. PICK p \in PanelsIn(model) : p.run = r
        BY <3>1, <3>3 DEF Spent
      <4>2. CASE p.ended
        <5>1. r \in KnownOver(model, fetches)
          BY <4>1, <4>2 DEF KnownOver
        <5>2. r \in Past(station)
          BY <5>1 DEF SeqInv, Over, Past
        <5>3. r \notin ActiveIn(poll)
          BY <5>1 DEF SeqInv, PollOK, ActiveIn, SnapshotOK
        <5>4. QED
          BY <5>2, <5>3
      <4>3. CASE ~p.ended
        <5>1. EraOf[r] = model.scope /\ r \in Runs
          BY <1>2, <4>1, <4>3, <1>1, PanelsTyped DEF Good
        <5>2. model.scope <= poll.era /\ poll.era <= station.era
          BY <1>4 DEF SeqInv, PollOK
        <5>3. EraOf[r] < station.era
          <6>1. station.era \in Eras
            BY DEF SeqInv, SeqTyped
          <6>2. station.era \in Nat /\ poll.era \in Nat /\ EraOf[r] \in Nat
            BY <1>1, <5>1, <6>1, ErasAreNumbers
          <6>3. QED
            BY <1>4, <5>1, <5>2, <6>2
        <5>4. r \in Past(station)
          BY <5>1, <5>3 DEF SeqInv, StationOK
        <5>5. r \notin ActiveIn(poll)
          BY <1>4, <5>1 DEF SeqInv, PollOK, ActiveIn
        <5>6. QED
          BY <5>4, <5>5
      <4>4. QED
        BY <4>2, <4>3
    <3>4. QED
      BY <3>2, <3>3
  <2>6. Good(w, station, KnownOver(model, fetches), gone, SentCancels(cancels, model), {})
    BY <2>3, <2>4, <2>5 DEF Good, Spent
  <2>7. QED
    BY <1>4, <2>2, <2>3, <2>6 DEF w
<1>5. QED
  BY <1>3, <1>4

\* What an answer does to the panels.
LEMMA AnswerIs ==
  ASSUME SeqInv, poll.st = "answered"
  PROVE  LET w == SetScope(model, poll.era)
             a == AcceptAll(w, poll.list)
         IN  /\ a \in [ok : BOOLEAN, m : Models] /\ Boxed(a.m.panels)
             /\ a.m.source = model.source /\ a.m.scope = poll.era
             /\ a.m.notices \subseteq model.notices
             /\ Good(a.m, station, Over(station), Past(station), SentCancels(cancels, model), {})
             /\ KeptPanels(w, a.m, Ends(poll)) /\ (model.scope = poll.era => w = model)
<1> DEFINE w == SetScope(model, poll.era)
           a == AcceptAll(w, poll.list)
           over == KnownOver(model, fetches) \cup Ends(poll)
           gone == Past(station) \ ActiveIn(poll)
           ss == poll.list
<1>1. /\ w \in Models /\ Boxed(w.panels)
      /\ w.source = model.source /\ w.scope = poll.era /\ w.notices \subseteq model.notices
      /\ Good(w, station, KnownOver(model, fetches), gone, SentCancels(cancels, model), {})
      /\ model.scope = poll.era => w = model
  BY SetScopeIs
<1>2. ss \in Seq(Snapshot) /\ \A i \in DOMAIN ss : ss[i] \in Items(poll)
  <2>1. poll \in Polls
    BY DEF SeqInv, SeqTyped
  <2>2. QED
    BY <2>1 DEF Polls, NoRequest, Items
<1>3. \A s \in Items(poll) :
        /\ EraOf[s.run] = poll.era
        /\ SnapshotOK(s, station, IF s.ended THEN Over(station) ELSE KnownOver(model, fetches))
  BY DEF SeqInv, PollOK
<1>4. over \subseteq Over(station)
  <2>1. Ends(poll) \subseteq Over(station)
    BY <1>3 DEF Ends, SnapshotOK
  <2>2. QED
    BY <2>1 DEF SeqInv
<1>5. over \subseteq gone
  <2>1. Over(station) \subseteq Past(station)
    BY DEF Over, Past
  <2>2. ASSUME NEW r \in ActiveIn(poll)
        PROVE  r \notin over
    <3>1. PICK s \in Items(poll) : ~s.ended /\ s.run = r
      BY DEF ActiveIn
    <3>2. r \notin KnownOver(model, fetches)
      BY <1>3, <3>1 DEF SnapshotOK
    <3>3. r \notin Ends(poll)
      BY <3>1 DEF Ends, SeqInv, PollOK
    <3>4. QED
      BY <3>2, <3>3
  <2>3. QED
    BY <1>4, <2>1, <2>2
<1>6. ASSUME NEW i \in DOMAIN ss
      PROVE  /\ SnapshotOK(ss[i], station, over)
             /\ ss[i].ended \/ ss[i].run \notin gone
             /\ ss[i].ended => ss[i].run \in Ends(poll)
             /\ EraOf[ss[i].run] = w.scope
  <2> DEFINE s == ss[i]
  <2>1. s \in Items(poll)
    BY <1>2
  <2> HIDE DEF s
  <2>2. s.ended => s.run \in Ends(poll)
    BY <2>1 DEF Ends
  <2>3. ~s.ended => s.run \in ActiveIn(poll)
    BY <2>1 DEF ActiveIn
  <2>4. s.run \in ActiveIn(poll) => s.run \notin over /\ s.run \notin gone
    BY <1>5
  <2>5. SnapshotOK(s, station, IF s.ended THEN Over(station) ELSE KnownOver(model, fetches))
    BY <1>3, <2>1
  <2>6. SnapshotOK(s, station, over)
    BY <2>2, <2>3, <2>4, <2>5 DEF SnapshotOK
  <2>7. EraOf[s.run] = w.scope
    BY <1>1, <1>3, <2>1
  <2>8. QED
    BY <2>2, <2>3, <2>4, <2>6, <2>7 DEF s
<1> HIDE DEF w, over, gone, ss
<1>7. Good(w, station, over, gone, SentCancels(cancels, model), {})
  <2>1. KnownOver(model, fetches) \subseteq over
    BY DEF over
  <2>2. QED
    BY <1>1, <2>1, GoodWider
<1>8. /\ a \in [ok : BOOLEAN, m : Models] /\ Boxed(a.m.panels)
      /\ Good(a.m, station, over, gone, SentCancels(cancels, model), {})
      /\ KeptPanels(w, a.m, Ends(poll)) /\ SameButPanels(w, a.m)
  BY <1>1, <1>2, <1>5, <1>6, <1>7, EnvelopeIsGood DEF ss
<1> HIDE DEF a
<1>9. Good(a.m, station, Over(station), Past(station), SentCancels(cancels, model), {})
  <2>1. gone \subseteq Past(station)
    BY DEF gone
  <2>2. QED
    BY <1>4, <1>8, <2>1, GoodWider
<1>10. QED
  BY <1>1, <1>8, <1>9 DEF SameButPanels, a, w

LEMMA PollEndsKeeps ==
  ASSUME SeqInv, PollEnds
  PROVE  SeqInv'
<1> DEFINE w == SetScope(model, poll.era)
           a == AcceptAll(w, poll.list)
<1>1. /\ poll.st = "answered" /\ poll.epoch = epoch
      /\ poll' = NoRequest /\ UNCHANGED <<station, epoch, cancels>>
      /\ a.ok => /\ model' = [a.m EXCEPT !.unavailable = FALSE, !.api = TRUE,
                                          !.asked = @ \cup Needed(a.m),
                                          !.notices = @ \cup poll.links]
                 /\ fetches' = [r \in Runs |->
                       IF r \in Needed(a.m) THEN [st |-> "details", epoch |-> epoch]
                       ELSE fetches[r]]
      /\ ~a.ok => /\ model' = [a.m EXCEPT !.unavailable = TRUE, !.api = FALSE]
                  /\ UNCHANGED fetches
  BY DEF PollEnds
<1>2. /\ a \in [ok : BOOLEAN, m : Models] /\ Boxed(a.m.panels)
      /\ a.m.source = model.source /\ a.m.scope = poll.era
      /\ a.m.notices \subseteq model.notices
      /\ Good(a.m, station, Over(station), Past(station), SentCancels(cancels, model), {})
  BY <1>1, AnswerIs
<1> HIDE DEF a
<1>3. /\ poll.era \in Eras /\ poll.links \in SUBSET Runs /\ poll.era <= station.era
      /\ poll.links \subseteq Over(station) /\ model.source = epoch
  <2>1. poll \in Polls
    BY DEF SeqInv, SeqTyped
  <2>2. QED
    BY <1>1, <2>1 DEF SeqInv, PollOK, Polls, NoRequest
<1>4. /\ epoch \in 0..MaxEpoch /\ epoch <= epoch /\ fetches \in [Runs -> Fetches]
      /\ KnownOver(model, fetches) \subseteq Over(station)
      /\ poll' \in Polls /\ poll'.st = "none"
  BY <1>1 DEF SeqInv, SeqTyped, Polls, NoRequest
<1>5. poll.era # Older
  <2>1. 1 # Older /\ \A r \in Runs : EraOf[r] # Older
    BY ErasAreNumbers DEF Older
  <2>2. QED
    BY <1>3, <2>1 DEF Eras
<1>6. ASSUME NEW r \in Needed(a.m)
      PROVE  r \in Over(station) /\ r \in Runs
  <2>1. PICK p \in PanelsIn(a.m) : p.run = r /\ p.ended
    BY DEF Needed, PanelsIn
  <2>2. QED
    BY <1>2, <2>1 DEF Good, Needed
<1>7. model.notices \subseteq Over(station)
      /\ {r \in Runs : fetches[r] # NoRequest} \subseteq Over(station)
  BY <1>4 DEF KnownOver
<1>8. /\ model' \in Models /\ model'.panels = a.m.panels /\ model'.results = a.m.results
      /\ model'.source = epoch /\ model'.scope = poll.era
      /\ model'.notices \subseteq Over(station)
  <2>1. CASE a.ok
    <3>1. Needed(a.m) \in SUBSET Runs
      BY <1>6
    <3> DEFINE need == Needed(a.m)
    <3> HIDE DEF need
    <3>2. /\ model' \in Models /\ model'.panels = a.m.panels /\ model'.results = a.m.results
          /\ model'.source = epoch /\ model'.scope = poll.era
          /\ model'.notices = a.m.notices \cup poll.links
      <4>1. model' = [a.m EXCEPT !.unavailable = FALSE, !.api = TRUE,
                                 !.asked = @ \cup need, !.notices = @ \cup poll.links]
        BY <1>1, <2>1 DEF need
      <4>2. need \in SUBSET Runs
        BY <3>1 DEF need
      <4>3. QED
        BY <1>2, <1>3, <4>1, <4>2 DEF Models
    <3>3. QED
      BY <1>2, <1>3, <1>7, <3>2
  <2>2. CASE ~a.ok
    <3>1. model' = [a.m EXCEPT !.unavailable = TRUE, !.api = FALSE]
      BY <1>1, <2>2
    <3>2. /\ model' \in Models /\ model'.panels = a.m.panels /\ model'.results = a.m.results
          /\ model'.source = epoch /\ model'.scope = poll.era /\ model'.notices = a.m.notices
      BY <1>2, <1>3, <3>1 DEF Models
    <3>3. QED
      BY <1>2, <1>7, <3>2
  <2>3. QED
    BY <2>1, <2>2
<1>9. \A r \in Runs : \/ fetches'[r] = fetches[r]
                      \/ r \in Over(station) /\ fetches'[r] = [st |-> "details", epoch |-> epoch]
  BY <1>1, <1>2, <1>6
<1>10. fetches' \in [Runs -> Fetches]
  <2>1. [st |-> "details", epoch |-> epoch] \in Fetches
    BY <1>4 DEF Fetches
  <2>2. \A r \in Runs : fetches'[r] \in Fetches
    BY <1>4, <1>9, <2>1
  <2>3. fetches' = [r \in Runs |-> fetches'[r]]
    BY <1>1, <1>2, <1>4
  <2>4. QED
    BY <2>2, <2>3
<1>11. PanelsIn(model') = PanelsIn(a.m) /\ On(model') = On(a.m)
       /\ SentCancels(cancels, model') = SentCancels(cancels, model)
  BY <1>3, <1>8 DEF PanelsIn, On, SentCancels
<1>12. Good(model', station, Over(station), Past(station), SentCancels(cancels, model'), {})
  <2>1. \A r : Spent(model', r, Past(station)) <=> Spent(a.m, r, Past(station))
    BY <1>11 DEF Spent
  <2>2. QED
    BY <1>2, <1>8, <1>11, <2>1 DEF Good
<1>13. KnownOver(model', fetches') \subseteq Over(station)
  <2>1. KnownOver(model', fetches') \subseteq Over(station) \cup model'.notices \cup {r \in Runs : fetches'[r] # NoRequest}
    BY <1>12, GoodKnown
  <2>2. {r \in Runs : fetches'[r] # NoRequest} \subseteq Over(station)
    BY <1>7, <1>9
  <2>3. QED
    BY <1>8, <2>1, <2>2
<1>14. FetchesOK(fetches', model')
  <2>1. ASSUME NEW r \in Runs, fetches'[r].st = "details"
        PROVE  fetches'[r].epoch <= epoch
    <3>1. CASE fetches'[r] = fetches[r]
      BY <1>3, <2>1, <3>1 DEF SeqInv, FetchesOK
    <3>2. CASE fetches'[r] = [st |-> "details", epoch |-> epoch]
      BY <1>4, <3>2
    <3>3. QED
      BY <1>9, <3>1, <3>2
  <2>2. QED
    BY <1>5, <1>8, <2>1 DEF FetchesOK
<1>15. IntentsOK(cancels, model')
  BY <1>3, <1>8 DEF SeqInv, IntentsOK
<1>16. /\ model'.source <= epoch /\ model'.scope <= station.era /\ Boxed(model'.panels)
  BY <1>2, <1>3, <1>4, <1>8
<1>17. QED
  BY <1>1, <1>4, <1>8, <1>10, <1>12, <1>13, <1>14, <1>15, <1>16, PollMoves

-----------------------------------------------------------------------------
(* Results and the operator *)

\* What runs in m is shown in w, but for `ends`; what has its details keeps them while
\* there is room.
Shows(m, w, ends) ==
  /\ \A p \in PanelsIn(m) : ~p.ended /\ p.run \notin ends
       => \E q \in PanelsIn(w) : q.run = p.run /\ q.visible
  /\ Len(w.panels) < Capacity => \A p \in PanelsIn(m) : p.full
       => \E q \in PanelsIn(w) : q.run = p.run /\ q.full /\ q.ended

\* The panel of a run is the one at its place.
LEMMA PanelAt ==
  ASSUME NEW m \in Models, Boxed(m.panels), NEW r
  PROVE  /\ r \in On(m) <=> At(m.panels, r) # 0
         /\ r \in On(m) => /\ At(m.panels, r) \in DOMAIN m.panels
                           /\ m.panels[At(m.panels, r)] \in PanelsIn(m)
                           /\ m.panels[At(m.panels, r)].run = r
                           /\ \A p \in PanelsIn(m) : p.run = r => p = m.panels[At(m.panels, r)]
<1>1. m.panels \in Seq(Panel)
  BY DEF Boxed
<1>2. /\ At(m.panels, r) # 0 => At(m.panels, r) \in DOMAIN m.panels /\ m.panels[At(m.panels, r)].run = r
      /\ At(m.panels, r) = 0 => \A i \in DOMAIN m.panels : m.panels[i].run # r
  BY <1>1, AtIs
<1> DEFINE i == At(m.panels, r)
<1> HIDE DEF i
<1>3. i # 0 => m.panels[i] \in PanelsIn(m) /\ r \in On(m)
  BY <1>2 DEF i, PanelsIn, On
<1>4. i = 0 => r \notin On(m)
  BY <1>2 DEF i, PanelsIn, On
<1>5. QED
  BY <1>2, <1>3, <1>4, PanelsTyped DEF i

\* One panel is changed, in nothing that makes the panels sound.
LEMMA ChangedIs ==
  ASSUME NEW m \in Models, Boxed(m.panels), NEW i \in DOMAIN m.panels, NEW q \in Panel,
         q.run = m.panels[i].run, NEW w \in Models, w.panels = [m.panels EXCEPT ![i] = q]
  PROVE  /\ Boxed(w.panels) /\ Len(w.panels) = Len(m.panels) /\ On(w) = On(m)
         /\ m.panels[i] \in PanelsIn(m) /\ q \in PanelsIn(w)
         /\ \A p \in PanelsIn(w) : p = q \/ (p \in PanelsIn(m) /\ p.run # q.run)
         /\ \A p \in PanelsIn(m) : p = m.panels[i] \/ (p \in PanelsIn(w) /\ p.run # q.run)
<1> DEFINE ps == m.panels
           r == w.panels
<1>1. /\ Boxed(r) /\ DOMAIN r = DOMAIN ps /\ Len(r) = Len(ps)
      /\ r[i] = q /\ \A j \in DOMAIN ps : j # i => r[j] = ps[j]
  BY ReplacedIs
<1>2. \A j, k \in DOMAIN ps : ps[j].run = ps[k].run => j = k
  BY DEF Boxed
<1>3. PanelsIn(m) = {ps[j] : j \in DOMAIN ps} /\ PanelsIn(w) = {r[j] : j \in DOMAIN ps}
  BY <1>1 DEF PanelsIn
<1> HIDE DEF ps, r
<1>4. i \in DOMAIN ps /\ q.run = ps[i].run
  BY DEF ps
<1>5. ps[i] \in PanelsIn(m) /\ q \in PanelsIn(w)
  BY <1>1, <1>3, <1>4
<1>6. \A p \in PanelsIn(w) : p = q \/ (p \in PanelsIn(m) /\ p.run # q.run)
  BY <1>1, <1>2, <1>3, <1>4
<1>7. \A p \in PanelsIn(m) : p = ps[i] \/ (p \in PanelsIn(w) /\ p.run # q.run)
  BY <1>1, <1>2, <1>3, <1>4
<1>8. On(w) = On(m)
  <2>1. \A x \in On(w) : x \in On(m)
    BY <1>4, <1>5, <1>6 DEF On
  <2>2. \A x \in On(m) : x \in On(w)
    BY <1>4, <1>5, <1>7 DEF On
  <2>3. QED
    BY <2>1, <2>2
<1>9. QED
  BY <1>1, <1>5, <1>6, <1>7, <1>8 DEF ps, r

\* A panel that is changed in its marks alone is as sound, and one that becomes history
\* is not strange any more.
LEMMA ChangedIsGood ==
  ASSUME NEW m \in Models, Boxed(m.panels), NEW i \in DOMAIN m.panels, NEW q \in Panel,
         q.run = m.panels[i].run, NEW w \in Models, w.panels = [m.panels EXCEPT ![i] = q],
         w.results = m.results, w.scope = m.scope,
         q.ended = m.panels[i].ended, q.rev = m.panels[i].rev, q.full = m.panels[i].full,
         ~q.ended => q.visible /\ ~q.historical,
         m.panels[i].historical => q.historical,
         NEW st, NEW over, NEW gone, NEW sent, NEW strange,
         m.panels[i].cancel => q.cancel \/ q.run \notin sent,
         Good(m, st, over, gone, sent, strange)
  PROVE  /\ Boxed(w.panels) /\ Shows(m, w, {})
         /\ Good(w, st, over, gone, sent, IF q.historical THEN strange \ {q.run} ELSE strange)
<1> DEFINE p0 == m.panels[i]
<1>1. /\ Boxed(w.panels) /\ Len(w.panels) = Len(m.panels) /\ On(w) = On(m)
      /\ p0 \in PanelsIn(m) /\ q \in PanelsIn(w)
      /\ \A p \in PanelsIn(w) : p = q \/ (p \in PanelsIn(m) /\ p.run # q.run)
      /\ \A p \in PanelsIn(m) : p = p0 \/ (p \in PanelsIn(w) /\ p.run # q.run)
  BY ChangedIs
<1>2. /\ q.run = p0.run /\ q.ended = p0.ended /\ q.rev = p0.rev /\ q.full = p0.full
      /\ ~q.ended => q.visible /\ ~q.historical
      /\ p0.historical => q.historical
      /\ p0.cancel => q.cancel \/ q.run \notin sent
  OBVIOUS
<1> HIDE DEF p0
<1>3. Shows(m, w, {})
  <2>1. ASSUME NEW p \in PanelsIn(m), ~p.ended
        PROVE  \E x \in PanelsIn(w) : x.run = p.run /\ x.visible
    <3>1. CASE p = p0
      BY <1>1, <1>2, <2>1, <3>1
    <3>2. CASE p \in PanelsIn(w)
      BY <2>1, <3>2 DEF Good
    <3>3. QED
      BY <1>1, <3>1, <3>2
  <2>2. ASSUME NEW p \in PanelsIn(m), p.full
        PROVE  \E x \in PanelsIn(w) : x.run = p.run /\ x.full /\ x.ended
    <3>1. p.ended
      BY <2>2 DEF Good
    <3>2. CASE p = p0
      BY <1>1, <1>2, <2>2, <3>1, <3>2
    <3>3. CASE p \in PanelsIn(w)
      BY <2>2, <3>1, <3>3
    <3>4. QED
      BY <1>1, <3>2, <3>3
  <2>3. QED
    BY <2>1, <2>2 DEF Shows
<1>4. ASSUME NEW r \in sent
      PROVE  Spent(w, r, gone)
  <2>1. Spent(m, r, gone)
    BY DEF Good
  <2>2. CASE r \notin On(m)
    BY <1>1, <2>1, <2>2 DEF Spent
  <2>3. CASE r \in On(m)
    <3>1. PICK p \in PanelsIn(m) : p.run = r /\ (p.cancel \/ p.ended)
      BY <2>1, <2>3 DEF Spent
    <3>2. \E x \in PanelsIn(w) : x.run = r /\ (x.cancel \/ x.ended)
      <4>1. CASE p = p0
        BY <1>1, <1>2, <3>1, <4>1
      <4>2. CASE p \in PanelsIn(w)
        BY <3>1, <4>2
      <4>3. QED
        BY <1>1, <4>1, <4>2
    <3>3. QED
      BY <1>1, <2>3, <3>2 DEF Spent
  <2>4. QED
    BY <2>2, <2>3
<1>5. ASSUME NEW p \in PanelsIn(w)
      PROVE  /\ p.ended => p.run \in over /\ p.rev = st.runs[p.run].rev
             /\ ~p.ended => p.visible /\ ~p.full /\ ~p.historical
             /\ \/ p.historical \/ EraOf[p.run] = w.scope
                \/ p.run \in (IF q.historical THEN strange \ {q.run} ELSE strange)
  <2>1. CASE p = q
    <3>1. /\ p0.ended => p0.run \in over /\ p0.rev = st.runs[p0.run].rev
          /\ ~p0.ended => ~p0.full
          /\ p0.historical \/ EraOf[p0.run] = m.scope \/ p0.run \in strange
      BY <1>1 DEF Good
    <3>2. QED
      BY <1>2, <2>1, <3>1
  <2>2. CASE p \in PanelsIn(m) /\ p.run # q.run
    BY <2>2 DEF Good
  <2>3. QED
    BY <1>1, <2>1, <2>2
<1>6. w.results \subseteq over
  BY DEF Good
<1>7. QED
  BY <1>1, <1>3, <1>4, <1>5, <1>6 DEF Good

\* A result that is over is at the station, as it will stay.
LEMMA ResultIs ==
  ASSUME SeqInv, NEW r \in KnownOver(model, fetches)
  PROVE  /\ r \in Runs /\ Result(r) \in Snapshot /\ Result(r).run = r
         /\ Result(r).ended = TRUE /\ Result(r).full = TRUE
         /\ SnapshotOK(Result(r), station, KnownOver(model, fetches))
<1>1. r \in Over(station) /\ r \in Runs /\ station.runs[r].phase \in {"ended", "old"}
  BY DEF SeqInv, Over
<1>2. station.runs[r].rev \in 0..MaxRevision /\ station.runs[r].rev # 0
  BY <1>1 DEF SeqInv, SeqTyped, StationOK
<1>3. station.runs[r].rev \in 1..MaxRevision
  BY <1>2, SequenceAssumption
<1>4. QED
  BY <1>1, <1>3 DEF Result, Snapshot, SnapshotOK

\* A result is taken.
LEMMA ResultTaken ==
  ASSUME SeqInv, NEW r \in KnownOver(model, fetches), NEW strange,
         EraOf[r] = model.scope \/ r \in strange
  PROVE  LET a == Accepted(model, Result(r))
             gone == Past(station) \ ActiveIn(poll)
         IN  /\ a \in [ok : BOOLEAN, m : Models] /\ Boxed(a.m.panels)
             /\ ~a.ok => a.m = model
             /\ SameButPanels(model, a.m) /\ Shows(model, a.m, {})
             /\ a.ok => /\ Good(a.m, station, KnownOver(model, fetches), gone,
                                SentCancels(cancels, model), strange)
                        /\ \E p \in PanelsIn(a.m) : p.run = r /\ p.ended
<1> DEFINE a == Accepted(model, Result(r))
           s == Result(r)
           over == KnownOver(model, fetches)
           gone == Past(station) \ ActiveIn(poll)
           sent == SentCancels(cancels, model)
<1>1. model \in Models /\ Boxed(model.panels) /\ Good(model, station, over, gone, sent, {})
  BY DEF SeqInv, SeqTyped
<1>2. /\ r \in Runs /\ s \in Snapshot /\ s.run = r /\ s.ended = TRUE /\ s.full = TRUE
      /\ SnapshotOK(s, station, over)
  BY ResultIs
<1>3. /\ a \in [ok : BOOLEAN, m : Models] /\ Boxed(a.m.panels)
      /\ ~a.ok => a.m = model
      /\ SameButPanels(model, a.m)
      /\ a.ok => Taken(model, a.m, s)
  BY <1>1, <1>2, AcceptedIs
<1>4. over \subseteq gone
  <2>1. over \subseteq Past(station)
    BY DEF SeqInv, Over, Past
  <2>2. \A x \in ActiveIn(poll) : x \notin over
    BY DEF SeqInv, PollOK, ActiveIn, SnapshotOK
  <2>3. QED
    BY <2>1, <2>2
<1> HIDE DEF a, s, over, gone, sent
<1>5. Good(model, station, over, gone, sent, strange)
  BY <1>1 DEF Good
<1>6. KeptPanels(model, model, {r}) /\ Shows(model, model, {})
  BY <1>1, PanelsTyped DEF KeptPanels, Shows, Good
<1>7. CASE ~a.ok
  BY <1>3, <1>6, <1>7 DEF a
<1>8. CASE a.ok
  <2>1. a.m \in Models /\ Taken(model, a.m, s)
    BY <1>3, <1>8
  <2>2. Good(a.m, station, over, gone, sent, strange)
    BY <1>1, <1>2, <1>3, <1>4, <1>5, <2>1, TakenIsGood
  <2>3. KeptPanels(model, a.m, {r})
    BY <1>1, <1>2, <1>3, <1>5, <1>6, <2>1, TakenKeeps
  <2>4. ASSUME NEW p \in PanelsIn(model), p.run = r
        PROVE  LET u == Updated(p, s) IN u \in PanelsIn(a.m) /\ u.run = r /\ u.ended
                                         /\ u.visible = p.visible
    <3>1. p \in Panel /\ \A x \in PanelsIn(model) : x.run = r => x = p
      BY <1>1, <2>4, PanelsTyped
    <3>2. r \in On(model)
      BY <2>4 DEF On
    <3>3. Followed(model, a.m, s)
      BY <1>2, <2>1, <3>2 DEF Taken, Added
    <3>4. Updated(p, s) \in PanelsIn(a.m)
      BY <1>2, <3>1, <3>3 DEF Followed
    <3>5. QED
      BY <1>2, <2>4, <3>1, <3>4, UpdatedTyped
  <2>5. \E p \in PanelsIn(a.m) : p.run = r /\ p.ended
    <3>1. CASE Followed(model, a.m, s)
      <4>1. PICK p \in PanelsIn(model) : p.run = r
        BY <1>2, <3>1 DEF Followed
      <4>2. QED
        BY <2>4, <4>1
    <3>2. CASE Added(model, a.m, s)
      BY <1>2, <3>2, NewPanelTyped DEF Added
    <3>3. QED
      BY <2>1, <3>1, <3>2 DEF Taken
  <2>6. ASSUME NEW p \in PanelsIn(model), ~p.ended
        PROVE  \E q \in PanelsIn(a.m) : q.run = p.run /\ q.visible
    <3>1. CASE p.run = r
      <4>1. p.visible
        BY <1>1, <2>6 DEF Good
      <4>2. QED
        BY <2>4, <3>1, <4>1
    <3>2. CASE p.run # r
      <4>1. PICK q \in PanelsIn(a.m) : q.run = p.run /\ ~q.ended
        BY <2>3, <2>6, <3>2 DEF KeptPanels
      <4>2. q.visible
        BY <2>2, <4>1 DEF Good
      <4>3. QED
        BY <4>1, <4>2
    <3>3. QED
      BY <3>1, <3>2
  <2>7. Shows(model, a.m, {})
    BY <2>3, <2>6 DEF Shows, KeptPanels
  <2>8. QED
    BY <1>3, <2>2, <2>5, <2>7, <1>8 DEF a, s, over, gone, sent
<1>9. QED
  BY <1>7, <1>8

\* A result that is opened is history from now on, whatever era it is of.
LEMMA OpenedIs ==
  ASSUME SeqInv, NEW r \in KnownOver(model, fetches)
  PROVE  LET w == Opened(model, Result(r))
         IN  /\ w \in Models /\ Boxed(w.panels)
             /\ w.source = model.source /\ w.scope = model.scope /\ w.notices = model.notices
             /\ Shows(model, w, {})
             /\ Good(w, station, KnownOver(model, fetches), Past(station) \ ActiveIn(poll),
                     SentCancels(cancels, model), {})
<1> DEFINE a == Accepted(model, Result(r))
           w == Opened(model, Result(r))
           over == KnownOver(model, fetches)
           gone == Past(station) \ ActiveIn(poll)
           sent == SentCancels(cancels, model)
<1>1. /\ a \in [ok : BOOLEAN, m : Models] /\ Boxed(a.m.panels)
      /\ ~a.ok => a.m = model
      /\ SameButPanels(model, a.m) /\ Shows(model, a.m, {})
      /\ a.ok => /\ Good(a.m, station, over, gone, sent, {r})
                 /\ \E p \in PanelsIn(a.m) : p.run = r /\ p.ended
  BY ResultTaken
<1>2. Good(model, station, over, gone, sent, {}) /\ Result(r).run = r
  BY ResultIs DEF SeqInv
<1> DEFINE i == At(a.m.panels, r)
<1>3. w = IF a.ok THEN [a.m EXCEPT !.panels[i].historical = TRUE, !.panels[i].visible = TRUE,
                                   !.panels[i].closes = FALSE]
          ELSE [a.m EXCEPT !.unavailable = TRUE]
  BY <1>2 DEF Opened
<1> HIDE DEF a, w, over, gone, sent
<1>4. CASE ~a.ok
  <2>1. w = [a.m EXCEPT !.unavailable = TRUE]
    BY <1>3, <1>4
  <2>2. w \in Models /\ SameView(a.m, w) /\ w.panels = a.m.panels
    BY <1>1, <2>1 DEF Models, SameView
  <2>3. Good(w, station, over, gone, sent, {})
    BY <1>1, <1>2, <1>4, <2>2, SameViewIs
  <2>4. Shows(model, w, {})
    BY <1>1, <2>2 DEF Shows, PanelsIn
  <2>5. QED
    BY <1>1, <2>2, <2>3, <2>4 DEF SameView, SameButPanels, w, over, gone, sent
<1>5. CASE a.ok
  <2> DEFINE x == a.m
             q == [x.panels[i] EXCEPT !.historical = TRUE, !.visible = TRUE, !.closes = FALSE]
  <2>1. /\ x \in Models /\ Boxed(x.panels) /\ Good(x, station, over, gone, sent, {r})
        /\ Shows(model, x, {}) /\ SameButPanels(model, x)
    BY <1>1, <1>5
  <2>2. PICK p \in PanelsIn(x) : p.run = r /\ p.ended
    BY <1>1, <1>5
  <2>3. w = [x EXCEPT !.panels[i].historical = TRUE, !.panels[i].visible = TRUE,
                      !.panels[i].closes = FALSE]
    BY <1>3, <1>5
  <2> HIDE DEF x
  <2>4. r \in On(x)
    BY <2>2 DEF On
  <2>5. i \in DOMAIN x.panels /\ x.panels[i] \in PanelsIn(x) /\ x.panels[i].run = r /\ x.panels[i].ended
    BY <2>1, <2>2, <2>4, PanelAt DEF x
  <2>6. x.panels[i] \in Panel
    BY <2>1, <2>5, PanelsTyped
  <2> HIDE DEF i
  <2>7. /\ q \in Panel /\ q.run = r /\ q.ended /\ q.historical /\ q.visible
        /\ q.ended = x.panels[i].ended /\ q.rev = x.panels[i].rev /\ q.full = x.panels[i].full
        /\ q.cancel = x.panels[i].cancel
    BY <2>5, <2>6 DEF Panel
  <2>8. x.panels \in Seq(Panel)
    BY <2>1 DEF Boxed
  <2>9. w = [x EXCEPT !.panels = [x.panels EXCEPT ![i] = q]]
    BY <2>1, <2>3, <2>5, <2>8 DEF Models
  <2> HIDE DEF q
  <2>10. [x.panels EXCEPT ![i] = q] \in Seq(Panel)
    BY <2>5, <2>7, <2>8
  <2>11. /\ w \in Models /\ w.panels = [x.panels EXCEPT ![i] = q] /\ w.results = x.results
         /\ w.scope = x.scope /\ w.source = x.source /\ w.notices = x.notices
    BY <2>1, <2>9, <2>10 DEF Models
  <2>12. Boxed(w.panels) /\ Good(w, station, over, gone, sent, {})
    <3>1. /\ Boxed(w.panels)
          /\ Good(w, station, over, gone, sent, IF q.historical THEN {r} \ {q.run} ELSE {r})
      BY <2>1, <2>5, <2>7, <2>11, ChangedIsGood
    <3>2. (IF q.historical THEN {r} \ {q.run} ELSE {r}) = {}
      BY <2>7
    <3>3. QED
      BY <3>1, <3>2
  <2>13. /\ Len(w.panels) = Len(x.panels) /\ q \in PanelsIn(w)
         /\ \A p2 \in PanelsIn(x) : p2 = x.panels[i] \/ (p2 \in PanelsIn(w) /\ p2.run # q.run)
    BY <2>1, <2>5, <2>7, <2>11, ChangedIs
  <2>14. \A y \in PanelsIn(x) : \E z \in PanelsIn(w) :
           z.run = y.run /\ (y.visible => z.visible) /\ (y.full => z.full) /\ (y.ended => z.ended)
    BY <2>5, <2>7, <2>13
  <2>15. Shows(model, w, {})
    <3>1. ASSUME NEW y \in PanelsIn(model), ~y.ended
          PROVE  \E z \in PanelsIn(w) : z.run = y.run /\ z.visible
      <4>1. PICK u \in PanelsIn(x) : u.run = y.run /\ u.visible
        BY <2>1, <3>1 DEF Shows
      <4>2. QED
        BY <2>14, <4>1
    <3>2. ASSUME Len(w.panels) < Capacity, NEW y \in PanelsIn(model), y.full
          PROVE  \E z \in PanelsIn(w) : z.run = y.run /\ z.full /\ z.ended
      <4>1. PICK u \in PanelsIn(x) : u.run = y.run /\ u.full /\ u.ended
        BY <2>1, <2>13, <3>2 DEF Shows
      <4>2. QED
        BY <2>14, <4>1
    <3>3. QED
      BY <3>1, <3>2 DEF Shows
  <2>16. QED
    BY <2>1, <2>11, <2>12, <2>15 DEF SameButPanels, w, over, gone, sent
<1>6. QED
  BY <1>4, <1>5

\* A step of the dashboard that keeps what is shown, knows of nothing new and sends no cancel.
ShowsStep ==
  /\ model' \in Models /\ Boxed(model'.panels)
  /\ model'.source = model.source /\ model'.scope = model.scope
  /\ model'.notices = model.notices
  /\ Shows(model, model', {})
  /\ Good(model', station, KnownOver(model, fetches), Past(station) \ ActiveIn(poll),
          SentCancels(cancels, model), {})

\* A step of the page that keeps what it shows keeps the invariant, with any fetch of a
\* result that is known to be over.
LEMMA ShowsStepKeeps ==
  ASSUME SeqInv, ShowsStep, UNCHANGED <<station, epoch, poll, cancels>>,
         fetches' \in [Runs -> Fetches],
         \A r \in Runs : fetches'[r] # NoRequest => r \in KnownOver(model, fetches),
         FetchesOK(fetches', model)
  PROVE  SeqInv'
<1>1. /\ model' \in Models /\ Boxed(model'.panels)
      /\ model'.source = model.source /\ model'.scope = model.scope
      /\ model'.notices = model.notices
      /\ Good(model', station, KnownOver(model, fetches), Past(station) \ ActiveIn(poll),
              SentCancels(cancels, model), {})
  BY DEF ShowsStep
<1>2. KnownOver(model', fetches') \subseteq KnownOver(model, fetches)
  <2>1. KnownOver(model', fetches') \subseteq
          KnownOver(model, fetches) \cup model'.notices \cup {r \in Runs : fetches'[r] # NoRequest}
    BY <1>1, GoodKnown
  <2>2. model.notices \subseteq KnownOver(model, fetches)
    BY DEF KnownOver
  <2>3. QED
    BY <1>1, <2>1, <2>2
<1>3. SentCancels(cancels', model') = SentCancels(cancels, model) /\ cancels' \in [Runs -> Intents]
  BY <1>1 DEF SentCancels, SeqInv, SeqTyped
<1>4. FetchesOK(fetches', model') /\ IntentsOK(cancels', model')
  BY <1>1 DEF FetchesOK, IntentsOK, SeqInv
<1>5. Good(model', station, KnownOver(model, fetches), Past(station) \ ActiveIn(poll),
           SentCancels(cancels', model'), {})
  BY <1>1, <1>3
<1>6. UNCHANGED <<station, epoch, poll>>
  OBVIOUS
<1>7. QED
  BY <1>1, <1>2, <1>3, <1>4, <1>5, <1>6, ModelMoves

\* A step that changes nothing of what the panels say.
LEMMA SameViewShows ==
  ASSUME SeqInv, model' \in Models, SameView(model, model')
  PROVE  ShowsStep
<1>1. model \in Models /\ Boxed(model.panels)
  BY DEF SeqInv, SeqTyped
<1>2. Good(model, station, KnownOver(model, fetches), Past(station) \ ActiveIn(poll),
           SentCancels(cancels, model), {})
  BY DEF SeqInv
<1>3. Good(model', station, KnownOver(model, fetches), Past(station) \ ActiveIn(poll), SentCancels(cancels, model), {})
  BY <1>2, SameViewIs
<1>4. Shows(model, model', {})
  BY <1>2 DEF Shows, PanelsIn, SameView, Good
<1>5. QED
  BY <1>1, <1>3, <1>4 DEF ShowsStep, SameView

LEMMA OpenShows ==
  ASSUME SeqInv, NEW r \in Runs, Open(r)
  PROVE  ShowsStep
<1>1. /\ r \in model.notices
      /\ IF r \in model.results
         THEN model' = IF model.source = epoch
                       THEN [Opened(model, Result(r)) EXCEPT
                               !.unavailable = @ /\ model.unavailable] ELSE model
         ELSE UNCHANGED model
  BY DEF Open
<1>2. r \in KnownOver(model, fetches) /\ model \in Models
  BY <1>1 DEF KnownOver, SeqInv, SeqTyped
<1>3. CASE model' = model
  BY <1>2, <1>3, SameViewShows DEF SameView
<1>4. CASE model' # model
  <2> DEFINE w == Opened(model, Result(r))
  <2>1. model' = [w EXCEPT !.unavailable = w.unavailable /\ model.unavailable]
    BY <1>1, <1>4
  <2>2. /\ w \in Models /\ Boxed(w.panels)
        /\ w.source = model.source /\ w.scope = model.scope /\ w.notices = model.notices
        /\ Shows(model, w, {})
        /\ Good(w, station, KnownOver(model, fetches), Past(station) \ ActiveIn(poll),
                SentCancels(cancels, model), {})
    BY <1>2, OpenedIs
  <2> HIDE DEF w
  <2>3. PICK b \in BOOLEAN : model' = [w EXCEPT !.unavailable = b]
    <3>1. (w.unavailable /\ model.unavailable) \in BOOLEAN
      OBVIOUS
    <3>2. QED
      BY <2>1, <3>1
  <2>4. model' \in Models /\ SameView(w, model')
    BY <2>2, <2>3 DEF Models, SameView
  <2>5. Good(model', station, KnownOver(model, fetches), Past(station) \ ActiveIn(poll),
             SentCancels(cancels, model), {})
    BY <2>2, <2>4, SameViewIs
  <2>6. Shows(model, model', {})
    BY <2>2, <2>4 DEF Shows, PanelsIn, SameView
  <2>7. QED
    BY <2>2, <2>4, <2>5, <2>6 DEF ShowsStep, SameView
<1>5. QED
  BY <1>3, <1>4

LEMMA OpenKeeps ==
  ASSUME SeqInv, NEW r \in Runs, Open(r)
  PROVE  SeqInv'
<1>1. /\ r \in model.notices /\ UNCHANGED <<station, epoch, poll, cancels>>
      /\ UNCHANGED fetches \/ fetches' = [fetches EXCEPT ![r] = [st |-> "open", epoch |-> epoch]]
  BY DEF Open
<1>2. /\ fetches \in [Runs -> Fetches] /\ epoch \in 0..MaxEpoch /\ FetchesOK(fetches, model)
      /\ model.notices \subseteq KnownOver(model, fetches)
      /\ \A s \in Runs : fetches[s] # NoRequest => s \in KnownOver(model, fetches)
  BY DEF SeqInv, SeqTyped, KnownOver
<1>3. \A s \in Runs : \/ fetches'[s] = fetches[s]
                      \/ s = r /\ fetches'[s] = [st |-> "open", epoch |-> epoch]
  BY <1>1, <1>2
<1>4. fetches' \in [Runs -> Fetches]
  BY <1>1, <1>2 DEF Fetches
<1>5. \A s \in Runs : fetches'[s] # NoRequest => s \in KnownOver(model, fetches)
  BY <1>1, <1>2, <1>3
<1>6. FetchesOK(fetches', model)
  BY <1>2, <1>3 DEF FetchesOK
<1>7. ShowsStep
  BY OpenShows
<1>8. QED
  BY <1>1, <1>4, <1>5, <1>6, <1>7, ShowsStepKeeps

LEMMA FetchEndsShows ==
  ASSUME SeqInv, NEW r \in Runs, FetchEnds(r)
  PROVE  ShowsStep
<1> DEFINE a == Accepted(model, Result(r))
<1>1. /\ fetches[r].st # "none"
      /\ model' = CASE fetches[r].epoch # epoch -> model
                    [] ~Timely(r) -> [model EXCEPT !.unavailable = TRUE]
                    [] Timely(r) /\ fetches[r].st = "open" -> Opened(model, Result(r))
                    [] OTHER -> IF a.ok /\ model.scope \in {Older, EraOf[r]} THEN a.m
                                ELSE [model EXCEPT !.unavailable = TRUE]
  BY DEF FetchEnds
<1>2. /\ model \in Models /\ fetches \in [Runs -> Fetches] /\ FetchesOK(fetches, model)
  BY DEF SeqInv, SeqTyped
<1>3. fetches[r] # NoRequest /\ r \in KnownOver(model, fetches)
  BY <1>1 DEF NoRequest, KnownOver
<1> HIDE DEF a
<1>4. CASE model' = model \/ model' = [model EXCEPT !.unavailable = TRUE]
  <2>1. model' \in Models /\ SameView(model, model')
    BY <1>2, <1>4 DEF SameView, Models
  <2>2. QED
    BY <2>1, SameViewShows
<1>5. CASE model' = Opened(model, Result(r))
  BY <1>3, <1>5, OpenedIs DEF ShowsStep
<1>6. CASE /\ Timely(r) /\ fetches[r].st # "open"
           /\ a.ok /\ model.scope \in {Older, EraOf[r]} /\ model' = a.m
  <2>1. fetches[r].st = "details" /\ fetches[r].epoch = model.source
    BY <1>1, <1>2, <1>6 DEF Fetches, NoRequest, Timely
  <2>2. EraOf[r] = model.scope
    BY <1>2, <1>6, <2>1 DEF FetchesOK
  <2>3. /\ a \in [ok : BOOLEAN, m : Models] /\ Boxed(a.m.panels)
        /\ SameButPanels(model, a.m) /\ Shows(model, a.m, {})
        /\ Good(a.m, station, KnownOver(model, fetches), Past(station) \ ActiveIn(poll), SentCancels(cancels, model), {})
    BY <1>3, <1>6, <2>2, ResultTaken DEF a
  <2>4. QED
    BY <1>6, <2>3 DEF ShowsStep, SameButPanels
<1>7. QED
  BY <1>1, <1>4, <1>5, <1>6

\* The fetch of a result ends.
LEMMA FetchIsDone ==
  ASSUME SeqInv, NEW r \in Runs, ShowsStep, fetches' = [fetches EXCEPT ![r] = NoRequest],
         UNCHANGED <<station, epoch, poll, cancels>>
  PROVE  SeqInv'
<1>1. /\ fetches \in [Runs -> Fetches] /\ FetchesOK(fetches, model)
      /\ \A s \in Runs : fetches[s] # NoRequest => s \in KnownOver(model, fetches)
  BY DEF SeqInv, SeqTyped, KnownOver
<1>2. \A s \in Runs : fetches'[s] = fetches[s] \/ fetches'[s] = NoRequest
  BY <1>1
<1>3. fetches' \in [Runs -> Fetches] /\ NoRequest.st # "details"
  BY <1>1 DEF Fetches, NoRequest
<1>4. \A s \in Runs : fetches'[s] # NoRequest => s \in KnownOver(model, fetches)
  BY <1>1, <1>2
<1>5. FetchesOK(fetches', model)
  BY <1>1, <1>2, <1>3 DEF FetchesOK
<1>6. QED
  BY <1>3, <1>4, <1>5, ShowsStepKeeps

LEMMA FetchEndsKeeps ==
  ASSUME SeqInv, NEW r \in Runs, FetchEnds(r)
  PROVE  SeqInv'
BY FetchEndsShows, FetchIsDone DEF FetchEnds

LEMMA FetchFailsShows ==
  ASSUME SeqInv, NEW r \in Runs, FetchFails(r)
  PROVE  ShowsStep /\ SeqInv'
<1>1. /\ fetches' = [fetches EXCEPT ![r] = NoRequest] /\ model' = model
      /\ UNCHANGED <<station, epoch, poll, cancels>>
  BY DEF FetchFails
<1>2. ShowsStep
  BY <1>1, SameViewShows DEF SameView, SeqInv, SeqTyped
<1>3. QED
  BY <1>1, <1>2, FetchIsDone

\* A finished panel is put away.
LEMMA PutAwayShows ==
  ASSUME SeqInv, NEW r \in Runs, Closes(r) \/ Dismiss(r)
  PROVE  ShowsStep
<1> DEFINE i == At(model.panels, r)
           q == [model.panels[i] EXCEPT !.visible = FALSE]
<1>1. /\ model \in Models /\ Boxed(model.panels) /\ model.panels \in Seq(Panel)
      /\ Good(model, station, KnownOver(model, fetches), Past(station) \ ActiveIn(poll),
              SentCancels(cancels, model), {})
  BY DEF SeqInv, SeqTyped, Boxed
<1>2. /\ i # 0 /\ model.panels[i].ended
      /\ model' = [model EXCEPT !.panels[i].visible = FALSE]
  BY DEF Closes, Dismiss, Shown, PanelOf
<1>3. i \in DOMAIN model.panels /\ model.panels[i] \in PanelsIn(model) /\ model.panels[i].run = r
  BY <1>1, <1>2, PanelAt
<1>4. model.panels[i] \in Panel
  BY <1>1, <1>3, PanelsTyped
<1> HIDE DEF i
<1>5. /\ q \in Panel /\ q.run = r /\ q.ended /\ q.historical = model.panels[i].historical
      /\ q.ended = model.panels[i].ended /\ q.rev = model.panels[i].rev
      /\ q.full = model.panels[i].full /\ q.cancel = model.panels[i].cancel
  BY <1>2, <1>3, <1>4 DEF Panel
<1>6. model' = [model EXCEPT !.panels = [model.panels EXCEPT ![i] = q]]
  BY <1>1, <1>2, <1>3 DEF Models
<1> HIDE DEF q
<1>7. [model.panels EXCEPT ![i] = q] \in Seq(Panel)
  BY <1>1, <1>3, <1>5
<1>8. /\ model' \in Models /\ model'.panels = [model.panels EXCEPT ![i] = q]
      /\ model'.results = model.results /\ model'.scope = model.scope
      /\ model'.source = model.source /\ model'.notices = model.notices
  BY <1>1, <1>6, <1>7 DEF Models
<1>9. /\ Boxed(model'.panels) /\ Shows(model, model', {})
      /\ Good(model', station, KnownOver(model, fetches), Past(station) \ ActiveIn(poll),
              SentCancels(cancels, model), IF q.historical THEN {} \ {q.run} ELSE {})
  <2>1. /\ ~q.ended => q.visible /\ ~q.historical
        /\ model.panels[i].historical => q.historical
        /\ model.panels[i].cancel => q.cancel \/ q.run \notin SentCancels(cancels, model)
        /\ q.run = model.panels[i].run
    BY <1>3, <1>5
  <2> DEFINE sent == SentCancels(cancels, model)
             gone == Past(station) \ ActiveIn(poll)
             over == KnownOver(model, fetches)
  <2>2. /\ Good(model, station, over, gone, sent, {})
        /\ model.panels[i].cancel => q.cancel \/ q.run \notin sent
    BY <1>1, <2>1
  <2> HIDE DEF sent, gone, over
  <2>3. /\ Boxed(model'.panels) /\ Shows(model, model', {})
        /\ Good(model', station, over, gone, sent, IF q.historical THEN {} \ {q.run} ELSE {})
    BY <1>1, <1>3, <1>5, <1>8, <2>1, <2>2, ChangedIsGood
  <2>4. QED
    BY <2>3 DEF sent, gone, over
<1>10. (IF q.historical THEN {} \ {q.run} ELSE {}) = {}
  OBVIOUS
<1>11. QED
  BY <1>8, <1>9, <1>10 DEF ShowsStep

\* A step of the panels alone.
LEMMA ShowsAlone ==
  ASSUME SeqInv, ShowsStep, UNCHANGED <<station, epoch, poll, fetches, cancels>>
  PROVE  SeqInv'
<1>1. /\ fetches' \in [Runs -> Fetches] /\ FetchesOK(fetches', model)
      /\ \A s \in Runs : fetches'[s] # NoRequest => s \in KnownOver(model, fetches)
  BY DEF SeqInv, SeqTyped, KnownOver
<1>2. QED
  BY <1>1, ShowsStepKeeps

LEMMA PutAwayKeeps ==
  ASSUME SeqInv, NEW r \in Runs, Closes(r) \/ Dismiss(r)
  PROVE  ShowsStep /\ SeqInv'
<1>1. UNCHANGED <<station, epoch, poll, fetches, cancels>>
  BY DEF Closes, Dismiss
<1>2. ShowsStep
  BY PutAwayShows
<1>3. QED
  BY <1>1, <1>2, ShowsAlone

\* Only a run whose cancel was not sent on this connection can be cancelled.
LEMMA CancelIsFirst ==
  ASSUME SeqInv, NEW r \in Runs, CanCancel(r)
  PROVE  r \notin SentCancels(cancels, model)
<1>1. /\ model \in Models /\ Boxed(model.panels)
      /\ Good(model, station, KnownOver(model, fetches), Past(station) \ ActiveIn(poll),
              SentCancels(cancels, model), {})
  BY DEF SeqInv, SeqTyped
<1>2. At(model.panels, r) # 0 /\ ~PanelOf(r).ended /\ ~PanelOf(r).cancel
  BY DEF CanCancel, Shown
<1>3. r \in On(model) /\ \A p \in PanelsIn(model) : p.run = r => p = PanelOf(r)
  BY <1>1, <1>2, PanelAt DEF PanelOf
<1>4. ~Spent(model, r, Past(station) \ ActiveIn(poll))
  BY <1>2, <1>3 DEF Spent
<1>5. QED
  BY <1>1, <1>4 DEF Good

LEMMA CancelKeeps ==
  ASSUME SeqInv, NEW r \in Runs, Cancel(r)
  PROVE  Shows(model, model', {}) /\ SeqInv'
<1> DEFINE i == At(model.panels, r)
           q == [model.panels[i] EXCEPT !.cancel = TRUE]
           over == KnownOver(model, fetches)
           gone == Past(station) \ ActiveIn(poll)
           sent == SentCancels(cancels, model)
           again == cancels[r].st \in {"sent", "accepted"} /\ cancels[r].source = model.source
           intent == [st |-> "sent", epoch |-> epoch, source |-> model.source]
<1>1. /\ CanCancel(r) /\ model' = [model EXCEPT !.panels[i].cancel = TRUE]
      /\ cancels' = [cancels EXCEPT ![r] =
           [st |-> IF again THEN "again" ELSE "sent", epoch |-> epoch, source |-> model.source]]
      /\ UNCHANGED <<station, epoch, poll, fetches>>
  BY DEF Cancel
<1>2. /\ model \in Models /\ Boxed(model.panels) /\ model.panels \in Seq(Panel)
      /\ cancels \in [Runs -> Intents] /\ epoch \in 0..MaxEpoch /\ fetches \in [Runs -> Fetches]
      /\ Good(model, station, over, gone, sent, {})
      /\ FetchesOK(fetches, model) /\ IntentsOK(cancels, model)
  BY DEF SeqInv, SeqTyped, Boxed
<1>3. i # 0
  BY <1>1 DEF CanCancel, Shown
<1>4. ~again
  <2>1. again => r \in sent
    BY DEF SentCancels, NoRequest
  <2>2. QED
    BY <1>1, <2>1, CancelIsFirst
<1>5. cancels' = [cancels EXCEPT ![r] = intent]
  BY <1>1, <1>4
<1> HIDE DEF again
<1>6. /\ i \in DOMAIN model.panels /\ model.panels[i] \in PanelsIn(model)
      /\ model.panels[i].run = r
  BY <1>2, <1>3, PanelAt
<1>7. model.panels[i] \in Panel
  BY <1>2, <1>6, PanelsTyped
<1>8. ~model.panels[i].ended => model.panels[i].visible /\ ~model.panels[i].historical
  BY <1>2, <1>6 DEF Good
<1> HIDE DEF i
<1>9. /\ q \in Panel /\ q.run = r /\ q.cancel /\ q.historical = model.panels[i].historical
      /\ q.visible = model.panels[i].visible
      /\ q.ended = model.panels[i].ended /\ q.rev = model.panels[i].rev
      /\ q.full = model.panels[i].full
  BY <1>6, <1>7 DEF Panel
<1>10. model' = [model EXCEPT !.panels = [model.panels EXCEPT ![i] = q]]
  BY <1>1, <1>2, <1>6 DEF Models
<1> HIDE DEF q
<1>11. [model.panels EXCEPT ![i] = q] \in Seq(Panel)
  BY <1>2, <1>6, <1>9
<1>12. /\ model' \in Models /\ model'.panels = [model.panels EXCEPT ![i] = q]
       /\ model'.results = model.results /\ model'.scope = model.scope
       /\ model'.source = model.source /\ model'.notices = model.notices
  BY <1>2, <1>10, <1>11 DEF Models
<1>13. Boxed(model'.panels) /\ Shows(model, model', {}) /\ Good(model', station, over, gone, sent, {})
  <2>1. ~q.ended => q.visible /\ ~q.historical
    BY <1>8, <1>9
  <2>2. /\ Boxed(model'.panels) /\ Shows(model, model', {})
        /\ Good(model', station, over, gone, sent, IF q.historical THEN {} \ {q.run} ELSE {})
    BY <1>2, <1>6, <1>9, <1>12, <2>1, ChangedIsGood
  <2>3. (IF q.historical THEN {} \ {q.run} ELSE {}) = {}
    OBVIOUS
  <2>4. QED
    BY <2>2, <2>3
<1>14. q \in PanelsIn(model')
  BY <1>2, <1>6, <1>9, <1>12, ChangedIs
<1>15. intent \in Intents /\ intent.source = model.source /\ model.source <= model.source
  BY <1>2 DEF Intents, Models
<1> HIDE DEF intent
<1>16. /\ cancels' \in [Runs -> Intents]
       /\ cancels'[r] = intent /\ \A s \in Runs : s # r => cancels'[s] = cancels[s]
  BY <1>2, <1>5, <1>15
<1>17. IntentsOK(cancels', model')
  BY <1>2, <1>12, <1>15, <1>16 DEF IntentsOK
<1>18. \A s \in SentCancels(cancels', model') : s = r \/ s \in sent
  BY <1>12, <1>16 DEF SentCancels
<1>19. Good(model', station, over, gone, SentCancels(cancels', model'), {})
  <2>1. Spent(model', r, gone)
    BY <1>9, <1>14 DEF Spent, On
  <2>2. QED
    BY <1>13, <1>18, <2>1 DEF Good
<1>20. KnownOver(model', fetches') \subseteq KnownOver(model, fetches)
  <2>1. KnownOver(model', fetches') \subseteq
          over \cup model'.notices \cup {s \in Runs : fetches'[s] # NoRequest}
    BY <1>19, GoodKnown
  <2>2. /\ model.notices \subseteq over
        /\ {s \in Runs : fetches[s] # NoRequest} \subseteq over
    BY DEF KnownOver
  <2>3. QED
    BY <1>1, <1>12, <2>1, <2>2
<1>21. FetchesOK(fetches', model') /\ fetches' \in [Runs -> Fetches]
  BY <1>1, <1>2, <1>12 DEF FetchesOK
<1>22. UNCHANGED <<station, epoch, poll>>
  BY <1>1
<1>23. SeqInv'
  BY <1>12, <1>13, <1>16, <1>17, <1>19, <1>20, <1>21, <1>22, ModelMoves
<1>24. QED
  BY <1>13, <1>23

\* A step in which cancels are answered, and the cancel of a panel may be given back.
IntentStep ==
  /\ model' \in Models /\ Boxed(model'.panels)
  /\ model'.source = model.source /\ model'.scope = model.scope
  /\ model'.notices = model.notices
  /\ cancels' \in [Runs -> Intents] /\ IntentsOK(cancels', model)
  /\ Good(model', station, KnownOver(model, fetches), Past(station) \ ActiveIn(poll),
          SentCancels(cancels', model), {})

\* An intent moves on with the mark of its panel.
LEMMA IntentMoves ==
  ASSUME SeqInv, IntentStep, UNCHANGED <<station, epoch, poll, fetches>>
  PROVE  SeqInv'
<1>1. /\ model' \in Models /\ Boxed(model'.panels)
      /\ model'.source = model.source /\ model'.scope = model.scope
      /\ model'.notices = model.notices
      /\ cancels' \in [Runs -> Intents]
      /\ Good(model', station, KnownOver(model, fetches), Past(station) \ ActiveIn(poll),
              SentCancels(cancels', model), {})
  BY DEF IntentStep
<1>2. /\ SentCancels(cancels', model') = SentCancels(cancels', model)
      /\ FetchesOK(fetches', model') /\ fetches' \in [Runs -> Fetches]
      /\ IntentsOK(cancels', model')
  BY DEF IntentStep, SentCancels, FetchesOK, IntentsOK, SeqInv, SeqTyped
<1>3. KnownOver(model', fetches') \subseteq KnownOver(model, fetches)
  <2>1. KnownOver(model', fetches') \subseteq
          KnownOver(model, fetches) \cup model'.notices \cup {s \in Runs : fetches'[s] # NoRequest}
    <3> DEFINE over == KnownOver(model, fetches)
               gone == Past(station) \ ActiveIn(poll)
               sent == SentCancels(cancels', model)
               w == model'
               fs == fetches'
    <3>1. Good(w, station, over, gone, sent, {})
      BY <1>1
    <3> HIDE DEF over, gone, sent, w, fs
    <3>2. KnownOver(w, fs) \subseteq over \cup w.notices \cup {r \in Runs : fs[r] # NoRequest}
      BY <3>1, GoodKnown
    <3>3. QED
      BY <3>2 DEF over, w, fs
  <2>2. /\ model.notices \subseteq KnownOver(model, fetches)
        /\ {s \in Runs : fetches[s] # NoRequest} \subseteq KnownOver(model, fetches)
    BY DEF KnownOver
  <2>3. QED
    BY <1>1, <2>1, <2>2
<1>4. Good(model', station, KnownOver(model, fetches), Past(station) \ ActiveIn(poll),
           SentCancels(cancels', model'), {})
  BY <1>1, <1>2
<1>5. UNCHANGED <<station, epoch, poll>>
  OBVIOUS
<1>6. QED
  BY <1>1, <1>2, <1>3, <1>4, <1>5, ModelMoves

LEMMA CancelAcceptedKeeps ==
  ASSUME SeqInv, NEW r \in Runs, CancelAccepted(r)
  PROVE  SeqInv'
<1>1. /\ cancels[r].st = "sent" /\ cancels' = [cancels EXCEPT ![r].st = "accepted"]
      /\ UNCHANGED <<station, epoch, model, poll, fetches>>
  BY DEF CancelAccepted
<1>2. /\ model \in Models /\ Boxed(model.panels) /\ cancels \in [Runs -> Intents]
      /\ IntentsOK(cancels, model)
      /\ Good(model, station, KnownOver(model, fetches), Past(station) \ ActiveIn(poll),
              SentCancels(cancels, model), {})
  BY DEF SeqInv, SeqTyped
<1> DEFINE c == [cancels[r] EXCEPT !.st = "accepted"]
<1>3. cancels[r] # NoRequest
  BY <1>1 DEF NoRequest
<1>4. c \in Intents /\ c.source = cancels[r].source
  BY <1>2, <1>3 DEF Intents
<1>5. cancels' = [cancels EXCEPT ![r] = c]
  BY <1>1, <1>2
<1> HIDE DEF c
<1>6. /\ cancels' \in [Runs -> Intents] /\ cancels'[r] = c
      /\ \A s \in Runs : s # r => cancels'[s] = cancels[s]
  BY <1>2, <1>4, <1>5
<1>7. IntentsOK(cancels', model) /\ SentCancels(cancels', model) \subseteq SentCancels(cancels, model)
  BY <1>2, <1>3, <1>4, <1>6 DEF IntentsOK, SentCancels
<1>8. Good(model, station, KnownOver(model, fetches), Past(station) \ ActiveIn(poll),
           SentCancels(cancels', model), {})
  BY <1>2, <1>7, GoodWider
<1>9. QED
  BY <1>1, <1>2, <1>6, <1>7, <1>8, IntentMoves DEF IntentStep

LEMMA CancelRefusedKeeps ==
  ASSUME SeqInv, NEW r \in Runs, CancelRefused(r)
  PROVE  Shows(model, model', {}) /\ SeqInv'
<1> DEFINE ps == [i \in DOMAIN model.panels |->
                    IF model.panels[i].run = r THEN [model.panels[i] EXCEPT !.cancel = FALSE]
                    ELSE model.panels[i]]
<1>1. /\ cancels' = [cancels EXCEPT ![r] = NoRequest]
      /\ model' = model \/ model' = [model EXCEPT !.unavailable = TRUE, !.panels = ps]
      /\ UNCHANGED <<station, epoch, poll, fetches>>
  BY DEF CancelRefused
<1>2. /\ model \in Models /\ Boxed(model.panels) /\ cancels \in [Runs -> Intents]
      /\ IntentsOK(cancels, model) /\ model.panels \in Seq(Panel)
      /\ Good(model, station, KnownOver(model, fetches), Past(station) \ ActiveIn(poll),
              SentCancels(cancels, model), {})
  BY DEF SeqInv, SeqTyped, Boxed
<1>3. /\ cancels' \in [Runs -> Intents] /\ cancels'[r] = NoRequest
      /\ \A s \in Runs : s # r => cancels'[s] = cancels[s]
  BY <1>1, <1>2 DEF Intents
<1>4. /\ IntentsOK(cancels', model)
      /\ SentCancels(cancels', model) \subseteq SentCancels(cancels, model)
      /\ r \notin SentCancels(cancels', model)
  BY <1>2, <1>3 DEF IntentsOK, SentCancels
<1>5. Good(model, station, KnownOver(model, fetches), Past(station) \ ActiveIn(poll),
           SentCancels(cancels', model), {})
  BY <1>2, <1>4, GoodWider
<1> HIDE DEF ps
<1>6. CASE model' = model
  <2>1. Shows(model, model, {})
    BY <1>2 DEF Shows, Good
  <2>2. QED
    BY <1>1, <1>2, <1>3, <1>4, <1>5, <1>6, <2>1, IntentMoves DEF IntentStep
<1>7. CASE r \notin On(model) /\ model' = [model EXCEPT !.unavailable = TRUE, !.panels = ps]
  <2>1. \A i \in DOMAIN model.panels : model.panels[i].run # r
    BY <1>7 DEF On, PanelsIn
  <2>2. ps = [i \in DOMAIN model.panels |-> model.panels[i]]
    BY <2>1 DEF ps
  <2>3. ps = model.panels
    BY <1>2, <2>2
  <2>4. model' \in Models /\ SameView(model, model')
    BY <1>2, <1>7, <2>3 DEF Models, SameView
  <2>5. Good(model', station, KnownOver(model, fetches), Past(station) \ ActiveIn(poll),
             SentCancels(cancels', model), {})
    BY <1>5, <2>4, SameViewIs
  <2>6. Shows(model, model', {})
    BY <1>2, <2>4 DEF Shows, Good, SameView, PanelsIn
  <2>7. QED
    BY <1>1, <1>2, <1>3, <1>4, <2>4, <2>5, <2>6, IntentMoves DEF IntentStep, SameView
<1>8. CASE r \in On(model) /\ model' = [model EXCEPT !.unavailable = TRUE, !.panels = ps]
  <2> DEFINE i == At(model.panels, r)
             q == [model.panels[i] EXCEPT !.cancel = FALSE]
  <2>1. /\ i \in DOMAIN model.panels /\ model.panels[i] \in PanelsIn(model)
        /\ model.panels[i].run = r
    BY <1>2, <1>8, PanelAt
  <2>2. model.panels[i] \in Panel
    BY <1>2, <2>1, PanelsTyped
  <2>3. ~model.panels[i].ended => model.panels[i].visible /\ ~model.panels[i].historical
    BY <1>2, <2>1 DEF Good
  <2> HIDE DEF i
  <2>4. /\ q \in Panel /\ q.run = r /\ q.historical = model.panels[i].historical
        /\ q.visible = model.panels[i].visible
        /\ q.ended = model.panels[i].ended /\ q.rev = model.panels[i].rev
        /\ q.full = model.panels[i].full
    BY <2>1, <2>2 DEF Panel
  <2>5. \A j \in DOMAIN model.panels : model.panels[j].run = r => j = i
    BY <1>2, <2>1 DEF Boxed
  <2>6. ps = [model.panels EXCEPT ![i] = q]
    <3>1. ps = [j \in DOMAIN model.panels |-> IF j = i THEN q ELSE model.panels[j]]
      BY <2>1, <2>5 DEF ps
    <3>2. QED
      BY <1>2, <2>1, <3>1
  <2> HIDE DEF q
  <2>7. ps \in Seq(Panel)
    BY <1>2, <2>1, <2>4, <2>6
  <2>8. /\ model' \in Models /\ model'.panels = [model.panels EXCEPT ![i] = q]
        /\ model'.results = model.results /\ model'.scope = model.scope
        /\ model'.source = model.source /\ model'.notices = model.notices
    BY <1>2, <1>8, <2>6, <2>7 DEF Models
  <2>9. /\ ~q.ended => q.visible /\ ~q.historical
        /\ q.run \notin SentCancels(cancels', model) /\ q.run = model.panels[i].run
        /\ model.panels[i].historical => q.historical
        /\ model.panels[i].cancel => q.cancel \/ q.run \notin SentCancels(cancels', model)
    BY <1>4, <2>1, <2>3, <2>4
  <2>10. /\ Boxed(model'.panels) /\ Shows(model, model', {})
         /\ Good(model', station, KnownOver(model, fetches), Past(station) \ ActiveIn(poll),
                 SentCancels(cancels', model), IF q.historical THEN {} \ {q.run} ELSE {})
    <3> DEFINE sent == SentCancels(cancels', model)
               gone == Past(station) \ ActiveIn(poll)
               over == KnownOver(model, fetches)
    <3>1. Good(model, station, over, gone, sent, {})
      BY <1>5
    <3>2. model.panels[i].cancel => q.cancel \/ q.run \notin sent
      BY <2>9
    <3> HIDE DEF sent, gone, over
    <3>3. /\ Boxed(model'.panels) /\ Shows(model, model', {})
          /\ Good(model', station, over, gone, sent, IF q.historical THEN {} \ {q.run} ELSE {})
      BY <1>2, <2>1, <2>4, <2>8, <2>9, <3>1, <3>2, ChangedIsGood
    <3>4. QED
      BY <3>3 DEF sent, gone, over
  <2>11. (IF q.historical THEN {} \ {q.run} ELSE {}) = {}
    OBVIOUS
  <2>12. QED
    BY <1>1, <1>3, <1>4, <2>8, <2>10, <2>11, IntentMoves DEF IntentStep
<1>9. QED
  BY <1>1, <1>6, <1>7, <1>8

LEMMA NewEpochKeeps ==
  ASSUME SeqInv, NewEpoch
  PROVE  SeqInv'
<1>1. /\ epoch' = epoch + 1 /\ epoch < MaxEpoch /\ UNCHANGED <<station, model, poll, fetches, cancels>>
  BY DEF NewEpoch
<1>2. /\ epoch \in 0..MaxEpoch /\ model \in Models /\ model.source <= epoch
  BY DEF SeqInv, SeqTyped
<1>3. epoch' \in 0..MaxEpoch /\ model.source <= epoch'
  <2>1. model.source \in Nat /\ MaxEpoch \in Nat
    BY <1>2, SequenceAssumption DEF Models
  <2>2. QED
    BY <1>1, <1>2, <2>1
<1>4. SeqTyped'
  BY <1>1, <1>3 DEF SeqInv, SeqTyped
<1>5. QED
  BY <1>1, <1>4 DEF SeqInv

-----------------------------------------------------------------------------
(* The theorems *)

LEMMA SeqStarts == SeqInit => SeqInv
<1> SUFFICES ASSUME SeqInit PROVE SeqInv
  OBVIOUS
<1>1. /\ station = [era |-> 1, runs |-> [r \in Runs |-> [phase |-> "absent", rev |-> 0]]]
      /\ epoch = 0 /\ model = EmptyModel(0, Older) /\ poll = NoRequest
      /\ fetches = [r \in Runs |-> NoRequest] /\ cancels = [r \in Runs |-> NoRequest]
  BY DEF SeqInit
<1>2. 0 \in 0..MaxEpoch /\ 0 \in 0..MaxRevision /\ MaxEpoch \in Nat /\ MaxRevision \in Nat
  BY SequenceAssumption
<1> DEFINE w == EmptyModel(0, Older)
<1>3. /\ w \in Models /\ Boxed(w.panels) /\ PanelsIn(w) = {} /\ On(w) = {}
      /\ w.source = 0 /\ w.scope = Older /\ w.results = {} /\ w.notices = {}
  BY <1>2, EmptyIs
<1> HIDE DEF w
<1>4. model = w
  BY <1>1 DEF w
<1>5. station.era = 1 /\ \A r \in Runs : station.runs[r].phase = "absent" /\ station.runs[r].rev = 0
  BY <1>1
<1>6. SeqTyped
  <2>1. station \in [era : Eras, runs : [Runs -> [phase : Phases, rev : 0..MaxRevision]]]
    BY <1>1, <1>2 DEF Eras, Phases
  <2>2. poll \in Polls /\ fetches \in [Runs -> Fetches] /\ cancels \in [Runs -> Intents]
    BY <1>1 DEF Polls, Fetches, Intents
  <2>3. epoch \in 0..MaxEpoch /\ model.source <= epoch
    BY <1>1, <1>2, <1>3, <1>4
  <2>4. QED
    BY <1>3, <1>4, <2>1, <2>2, <2>3 DEF SeqTyped
<1>7. StationOK(station, model)
  <2>1. model.scope <= station.era
    BY <1>3, <1>4, <1>5 DEF Older
  <2>2. \A r \in Runs : ~(EraOf[r] < station.era)
    <3>1. \A r \in Runs : EraOf[r] \in Nat /\ EraOf[r] # 0
      BY ErasAreNumbers DEF Older
    <3>2. QED
      BY <1>5, <3>1
  <2>3. QED
    BY <1>5, <2>1, <2>2 DEF StationOK
<1>8. KnownOver(model, fetches) = {}
  BY <1>1, <1>3, <1>4 DEF KnownOver
<1>9. SentCancels(cancels, model) = {} /\ IntentsOK(cancels, model)
  BY <1>1 DEF SentCancels, IntentsOK
<1>10. Good(model, station, KnownOver(model, fetches), Past(station) \ ActiveIn(poll), SentCancels(cancels, model), {})
  BY <1>3, <1>4, <1>9 DEF Good
<1>11. PollOK(poll, station, model, fetches) /\ FetchesOK(fetches, model)
  BY <1>1 DEF PollOK, FetchesOK, NoRequest, Items
<1>12. QED
  BY <1>6, <1>7, <1>8, <1>9, <1>10, <1>11 DEF SeqInv

LEMMA SeqSteps == SeqInv /\ [SeqNext]_seqVars => SeqInv'
<1> SUFFICES ASSUME SeqInv, [SeqNext]_seqVars PROVE SeqInv'
  OBVIOUS
<1>1. CASE NewEra
  BY <1>1, NewEraKeeps
<1>2. CASE NewEpoch
  BY <1>2, NewEpochKeeps
<1>3. CASE PollBegins
  BY <1>3, PollBeginsKeeps
<1>4. CASE StationAnswers
  BY <1>4, StationAnswersKeeps
<1>5. CASE PollSuperseded
  BY <1>5, PollSupersededKeeps
<1>6. CASE PollEnds
  BY <1>6, PollEndsKeeps
<1>7. CASE PollFails
  BY <1>7, PollFailsKeeps
<1>8. ASSUME NEW r \in Runs,
             \/ Begins(r) \/ Reports(r, "running") \/ Reports(r, "ended") \/ Ages(r)
             \/ Open(r) \/ FetchEnds(r) \/ FetchFails(r) \/ Closes(r) \/ Dismiss(r)
             \/ Cancel(r) \/ CancelAccepted(r) \/ CancelRefused(r)
      PROVE  SeqInv'
  <2>1. CASE Begins(r)
    BY <2>1, BeginsKeeps
  <2>2. CASE Reports(r, "running") \/ Reports(r, "ended")
    BY <2>2, ReportsKeeps
  <2>3. CASE Ages(r)
    BY <2>3, AgesKeeps
  <2>4. CASE Open(r)
    BY <2>4, OpenKeeps
  <2>5. CASE FetchEnds(r)
    BY <2>5, FetchEndsKeeps
  <2>6. CASE FetchFails(r)
    BY <2>6, FetchFailsShows
  <2>7. CASE Closes(r) \/ Dismiss(r)
    BY <2>7, PutAwayKeeps
  <2>8. CASE Cancel(r)
    BY <2>8, CancelKeeps
  <2>9. CASE CancelAccepted(r)
    BY <2>9, CancelAcceptedKeeps
  <2>10. CASE CancelRefused(r)
    BY <2>10, CancelRefusedKeeps
  <2>11. QED
    BY <1>8, <2>1, <2>2, <2>3, <2>4, <2>5, <2>6, <2>7, <2>8, <2>9, <2>10
<1>9. CASE UNCHANGED seqVars
  <2>1. /\ station' = station /\ epoch' = epoch /\ model' = model /\ poll' = poll
        /\ fetches' = fetches /\ cancels' = cancels
    BY <1>9 DEF seqVars
  <2>2. SeqTyped'
    BY <2>1 DEF SeqInv, SeqTyped
  <2>3. QED
    BY <2>1, <2>2 DEF SeqInv
<1>10. QED
  BY <1>1, <1>2, <1>3, <1>4, <1>5, <1>6, <1>7, <1>8, <1>9 DEF SeqNext

\* Every step keeps what is shown, but for what an answer lists as ended, unless the
\* source or the scope is another one.
LEMMA SeqShows ==
  ASSUME SeqInv, [SeqNext]_seqVars, SameSource
  PROVE  Shows(model, model', Ends(poll))
<1>1. model \in Models /\ Boxed(model.panels) /\ Shows(model, model, {})
  BY PanelsTyped DEF SeqInv, SeqTyped, Shows, Good
<1>2. SUFFICES \/ Shows(model, model', {})
               \/ Shows(model, model', Ends(poll))
  BY DEF Shows
<1>3. CASE model' = model
  BY <1>1, <1>3
<1>4. ASSUME SameView(model, model')
      PROVE  Shows(model, model', {})
  BY <1>1, <1>4 DEF Shows, SameView, PanelsIn
<1>5. CASE PollBegins \/ PollSuperseded
  <2> DEFINE w == SetSource(model, epoch)
  <2>1. w = model \/ w.source # model.source
    BY SetSourceIs
  <2>2. model' = w \/ model' = [w EXCEPT !.api = FALSE]
    BY <1>5 DEF PollBegins, PollSuperseded
  <2>3. w \in Models
    BY SetSourceIs
  <2> HIDE DEF w
  <2>4. SameView(w, model')
    BY <2>2, <2>3 DEF SameView, Models
  <2>5. w = model
    BY <2>1, <2>4 DEF SameSource, SameView
  <2>6. QED
    BY <1>4, <2>4, <2>5
<1>6. CASE PollFails
  <2>1. SameView(model, model')
    BY <1>1, <1>6 DEF PollFails, SameView, Models
  <2>2. QED
    BY <1>4, <2>1
<1>7. CASE PollEnds
  <2> DEFINE w == SetScope(model, poll.era)
             a == AcceptAll(w, poll.list)
  <2>1. /\ a \in [ok : BOOLEAN, m : Models] /\ Boxed(a.m.panels) /\ a.m.scope = poll.era
        /\ Good(a.m, station, Over(station), Past(station), SentCancels(cancels, model), {})
        /\ KeptPanels(w, a.m, Ends(poll)) /\ (model.scope = poll.era => w = model)
    BY <1>7, AnswerIs DEF PollEnds
  <2>2. \/ model' = [a.m EXCEPT !.unavailable = FALSE, !.api = TRUE,
                                !.asked = @ \cup Needed(a.m), !.notices = @ \cup poll.links]
        \/ model' = [a.m EXCEPT !.unavailable = TRUE, !.api = FALSE]
    BY <1>7 DEF PollEnds
  <2> HIDE DEF a, w
  <2>3. model'.panels = a.m.panels /\ model'.scope = a.m.scope
    BY <2>1, <2>2 DEF Models
  <2>4. w = model
    BY <2>1, <2>3 DEF SameSource
  <2>5. PanelsIn(model') = PanelsIn(a.m)
    BY <2>3 DEF PanelsIn
  <2>6. \A q \in PanelsIn(a.m) : ~q.ended => q.visible
    BY <2>1 DEF Good
  <2>7. Shows(model, model', Ends(poll))
    BY <2>1, <2>3, <2>4, <2>5, <2>6 DEF Shows, KeptPanels
  <2>8. QED
    BY <2>7
<1>8. ASSUME NEW r \in Runs, Open(r) \/ FetchEnds(r) \/ FetchFails(r) \/ Closes(r) \/ Dismiss(r)
                             \/ Cancel(r) \/ CancelRefused(r)
      PROVE  Shows(model, model', {})
  BY <1>8, OpenShows, FetchEndsShows, FetchFailsShows, PutAwayKeeps, CancelKeeps,
     CancelRefusedKeeps
     DEF ShowsStep
<1>9. QED
  <2>1. ASSUME NEW r \in Runs, Begins(r) \/ Reports(r, "running") \/ Reports(r, "ended") \/ Ages(r)
                               \/ CancelAccepted(r)
        PROVE  model' = model
    BY <2>1 DEF Begins, Reports, Ages, CancelAccepted
  <2>2. NewEra \/ NewEpoch \/ StationAnswers \/ UNCHANGED seqVars => model' = model
    BY DEF NewEra, NewEpoch, StationAnswers, seqVars
  <2>3. QED
    BY <1>3, <1>5, <1>6, <1>7, <1>8, <2>1, <2>2 DEF SeqNext

\* SeqInv holds in every reachable state: what the panels, the answer under way, the
\* fetches and the cancels hold is borne out by the station, whatever arrives late.
THEOREM SequenceInvariance == SeqSpec => []SeqInv
<1>1. QED
  BY SeqStarts, SeqSteps, PTL DEF SeqSpec

\* The types the runs check are part of the invariant.
LEMMA SeqInvTypes == SeqInv => SeqTypeOK
<1> SUFFICES ASSUME SeqInv PROVE SeqTypeOK
  OBVIOUS
<1>1. SeqTyped
  BY DEF SeqInv
<1>2. station.era \in Eras /\ \A r \in Runs : Phase(r) \in Phases
      /\ station.runs[r].rev \in 0..MaxRevision
  BY <1>1 DEF SeqTyped, Phase
<1>3. epoch \in 0..MaxEpoch /\ model.source \in 0..epoch
  <2>1. epoch \in 0..MaxEpoch /\ model.source \in 0..MaxEpoch /\ model.source <= epoch
    BY <1>1 DEF SeqTyped, Models
  <2>2. QED
    BY <2>1
<1>4. /\ model.scope \in Eras \cup {Older}
      /\ model.panels \in Seq(Panel) /\ Len(model.panels) <= Capacity
      /\ \A i, j \in DOMAIN model.panels : model.panels[i].run = model.panels[j].run => i = j
      /\ model.results \subseteq Runs /\ model.asked \subseteq Runs /\ model.notices \subseteq Runs
  BY <1>1 DEF SeqTyped, Models, Boxed
<1>5. /\ poll.st \in {"none", "asked", "answered"}
      /\ poll.st = "answered" => poll.list \in Seq(Snapshot)
  BY <1>1 DEF SeqTyped, Polls, NoRequest
<1>6. \A r \in Runs : fetches[r].st \in {"none", "details", "open"}
  BY <1>1 DEF SeqTyped, Fetches, NoRequest
<1>7. \A r \in Runs : cancels[r].st \in {"none", "sent", "accepted", "again"}
  BY <1>1 DEF SeqTyped, Intents, NoRequest
<1>8. QED
  BY <1>2, <1>3, <1>4, <1>5, <1>6, <1>7 DEF SeqTypeOK

\* Every variable holds a value of its kind, for every number of runs, connections and
\* revisions: a run has one panel, and the panels keep to their capacity.
THEOREM SequenceTypes == SeqSpec => []SeqTypeOK
<1>1. QED
  BY SequenceInvariance, SeqInvTypes, PTL

\* Nothing shown ran in another reset epoch than the panels' scope, unless the operator
\* opened it as history: neither a late envelope nor a late result brings it.
THEOREM PanelsAreOfThisEra == SeqSpec => []PanelsOfThisEra
<1>1. SeqInv => PanelsOfThisEra
  BY DEF SeqInv, Good, PanelsIn, PanelsOfThisEra
<1>2. QED
  BY <1>1, SequenceInvariance, PTL

\* On one connection one cancel intent is sent for a run, though its panel may be
\* closed, make room or be cleared, and come back.
THEOREM CancelsAreSentOnce == SeqSpec => []CancelOnce
<1>1. SeqInv => CancelOnce
  BY DEF SeqInv, SeqTyped, Intents, NoRequest, CancelOnce
<1>2. QED
  BY <1>1, SequenceInvariance, PTL

\* What a step that keeps the panels means for the panel of one run.
LEMMA ShownAfter ==
  ASSUME SeqInv, SeqInv', NEW r \in Shelved
  PROVE  /\ PanelOf(r) \in PanelsIn(model) /\ PanelOf(r).run = r
         /\ \A q \in PanelsIn(model') : q.run = r => Shown(r)' /\ PanelOf(r)' = q
<1>1. /\ model \in Models /\ Boxed(model.panels) /\ model' \in Models /\ Boxed(model'.panels)
  BY DEF SeqInv, SeqTyped
<1>2. r \in On(model)
  BY DEF Shelved, On, PanelsIn
<1>3. PanelOf(r) \in PanelsIn(model) /\ PanelOf(r).run = r
  BY <1>1, <1>2, PanelAt DEF PanelOf
<1>4. ASSUME NEW q \in PanelsIn(model'), q.run = r
      PROVE  At(model'.panels, r) # 0 /\ model'.panels[At(model'.panels, r)] = q
  <2> DEFINE w == model'
  <2>1. w \in Models /\ Boxed(w.panels) /\ q \in PanelsIn(w)
    BY <1>1
  <2> HIDE DEF w
  <2>2. r \in On(w)
    BY <1>4, <2>1 DEF On
  <2>3. At(w.panels, r) # 0 /\ w.panels[At(w.panels, r)] = q
    BY <1>4, <2>1, <2>2, PanelAt
  <2>4. QED
    BY <2>3 DEF w
<1>5. QED
  BY <1>3, <1>4 DEF Shown, PanelOf

\* A run that is shown as running stays on a visible panel until it is listed as ended,
\* whatever arrives late and whatever needs room.
THEOREM RunningKeepsItsPanel == SeqSpec => RunningStaysShown
<1>1. ASSUME SeqInv, SeqInv', [SeqNext]_seqVars
      PROVE  [\A r \in Shelved : SameSource /\ ~PanelOf(r).ended
                => \/ Shown(r)' /\ PanelOf(r)'.visible
                   \/ poll.st = "answered" /\ \E i \in DOMAIN poll.list : poll.list[i].run = r
                                                                      /\ poll.list[i].ended]_seqVars
  <2>1. ASSUME NEW r \in Shelved, SameSource, ~PanelOf(r).ended
        PROVE  \/ Shown(r)' /\ PanelOf(r)'.visible
               \/ poll.st = "answered" /\ \E i \in DOMAIN poll.list : poll.list[i].run = r
                                                                  /\ poll.list[i].ended
    <3>1. Shows(model, model', Ends(poll))
      BY <1>1, <2>1, SeqShows
    <3>2. /\ PanelOf(r) \in PanelsIn(model) /\ PanelOf(r).run = r
          /\ \A q \in PanelsIn(model') : q.run = r => Shown(r)' /\ PanelOf(r)' = q
      BY <1>1, <2>1, ShownAfter
    <3>3. CASE r \in Ends(poll)
      BY <3>3 DEF Ends, Items
    <3>4. CASE r \notin Ends(poll)
      <4>1. PICK q \in PanelsIn(model') : q.run = r /\ q.visible
        BY <2>1, <3>1, <3>2, <3>4 DEF Shows
      <4>2. QED
        BY <3>2, <4>1
    <3>5. QED
      BY <3>3, <3>4
  <2>2. QED
    BY <2>1
<1>2. QED
  BY <1>1, SequenceInvariance, PTL DEF SeqSpec, RunningStaysShown

\* Details that are shown stay, though the summary of the same result comes after them,
\* but for the room that other runs may need.
THEOREM DetailsAreKept == SeqSpec => DetailsStay
<1>1. ASSUME SeqInv, SeqInv', [SeqNext]_seqVars
      PROVE  [\A r \in Shelved : SameSource /\ PanelOf(r).full /\ Len(model'.panels) < Capacity
                => Shown(r)' /\ PanelOf(r)'.full /\ PanelOf(r)'.ended]_seqVars
  <2>1. ASSUME NEW r \in Shelved, SameSource, PanelOf(r).full, Len(model'.panels) < Capacity
        PROVE  Shown(r)' /\ PanelOf(r)'.full /\ PanelOf(r)'.ended
    <3>1. Shows(model, model', Ends(poll))
      BY <1>1, <2>1, SeqShows
    <3>2. /\ PanelOf(r) \in PanelsIn(model) /\ PanelOf(r).run = r
          /\ \A q \in PanelsIn(model') : q.run = r => Shown(r)' /\ PanelOf(r)' = q
      BY <1>1, <2>1, ShownAfter
    <3>3. PICK q \in PanelsIn(model') : q.run = r /\ q.full /\ q.ended
      BY <2>1, <3>1, <3>2 DEF Shows
    <3>4. QED
      BY <3>2, <3>3
  <2>2. QED
    BY <2>1
<1>2. QED
  BY <1>1, SequenceInvariance, PTL DEF SeqSpec, DetailsStay


=============================================================================
