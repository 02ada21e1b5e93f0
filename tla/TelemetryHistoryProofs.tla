----------------------- MODULE TelemetryHistoryProofs -----------------------
(***************************************************************************)
(* Reseeds lose no history and bring back none that was cleared, for every *)
(* value of the constants.                                                 *)
(*                                                                         *)
(* Whether a row survives is decided when what was loaded is swapped in,   *)
(* long after the request was sent: rows go from the socket to the queue,  *)
(* the buffer and the graphs meanwhile, and the answer was sampled before. *)
(* So the invariant HInv speaks of the request under way: while it is      *)
(* current, every row that must not be lost is somewhere it will be taken  *)
(* from (Coverage), and nothing it holds was cleared (CutOff).  That what  *)
(* is received is newer than all before (LinkAhead, Received) is why the   *)
(* order of application, answer, queue, buffer, keeps the newest row of a  *)
(* bucket; that a request captured before the owner, the station or the    *)
(* authority moved on never becomes current again (Captured) is why the    *)
(* steps of all others need not be looked at.                              *)
(*                                                                         *)
(* WInv, at the end, is about what a display at rest shows: as long as a   *)
(* reseed is awaited nothing is owed, and then every row that is due is    *)
(* promised.                                                               *)
(***************************************************************************)
EXTENDS TelemetryReseedProofs

-----------------------------------------------------------------------------
(* Owners, and what a request or an observation captured *)

\* Owner o was captured no later than p.
NotAfter(o, p) ==
  /\ o.login =< p.login /\ o.mount =< p.mount
  /\ o.graph =< p.graph /\ o.clear =< p.clear

\* Owner q is p, or has come after it.
Moves(p, q) ==
  \/ q = p
  \/ /\ NotAfter(p, q)
     /\ \/ p.login < q.login \/ p.mount < q.mount
        \/ p.graph < q.graph \/ p.clear < q.clear

\* What the request and the observation captured is of the past: the owner was no
\* later than that of now, and a revision that still stands is of that owner.
Captured ==
  /\ cont.revision = 0 => cont.owner = NoOwner
  /\ cont.authority.st \in {cont.owner.base, NoStation}
  /\ seed.pc = "idle" => seed = IdleSeed
  /\ seed.pc # "idle" =>
       /\ NotAfter(seed.owner, here)
       /\ seed.revision \in 1..cont.revision
       /\ seed.revision = cont.revision => cont.owner = seed.owner
  /\ obs # NoObservation =>
       /\ NotAfter(obs.owner, here)
       /\ obs.answer.st = obs.owner.base
       /\ obs.owner = here => cont.owner = here

\* What was captured before an owner that has moved is not the owner of now.
LEMMA MovedOn ==
  ASSUME NEW o \in Owner, NEW p \in Owner, NEW q \in Owner,
         NotAfter(o, p), Moves(p, q)
  PROVE  NotAfter(o, q) /\ (o = q => q = p)
BY DEF NotAfter, Moves, Owner

LEMMA MovesTransitive ==
  ASSUME NEW o \in Owner, NEW p \in Owner, NEW q \in Owner,
         Moves(o, p), Moves(p, q)
  PROVE  Moves(o, q)
BY DEF NotAfter, Moves, Owner

LEMMA OwnerMovesOn ==
  ASSUME NEW o \in Owner
  PROVE  /\ Moves(o, o)
         /\ Moves(o, [o EXCEPT !.graph = @ + 1])
         /\ Moves(o, [o EXCEPT !.clear = @ + 1])
         /\ Moves(o, [o EXCEPT !.graph = @ + 1, !.clear = @ + 1])
         /\ Moves(o, [o EXCEPT !.mount = @ + 1])
         /\ Moves(o, [o EXCEPT !.login = @ + 1])
         /\ Moves(o, [o EXCEPT !.login = @ + 1, !.mount = @ + 1])
<1>1. /\ Moves(o, o)
      /\ Moves(o, [o EXCEPT !.graph = @ + 1])
      /\ Moves(o, [o EXCEPT !.clear = @ + 1])
      /\ Moves(o, [o EXCEPT !.mount = @ + 1])
      /\ Moves(o, [o EXCEPT !.login = @ + 1])
  BY DEF NotAfter, Moves, Owner
<1>2. Moves(o, [o EXCEPT !.graph = @ + 1, !.clear = @ + 1])
  BY DEF NotAfter, Moves, Owner
<1>3. Moves(o, [o EXCEPT !.login = @ + 1, !.mount = @ + 1])
  BY DEF NotAfter, Moves, Owner
<1>4. QED
  BY <1>1, <1>2, <1>3

LEMMA StationMovesOn ==
  ASSUME NEW o \in Owner, NEW st \in Stations
  PROVE  Moves(o, [o EXCEPT !.base = st, !.login = @ + 1, !.clear = @ + 1])
BY DEF NotAfter, Moves, Owner

\* A step back of the clock or a clear moves the owner; a mount moves it further.
LEMMA MovedAgain ==
  ASSUME NEW o \in Owner, NEW p \in Owner, NEW q, Moves(o, p),
         q \in {p, [p EXCEPT !.mount = @ + 1]}
  PROVE  /\ Moves(o, q) /\ q \in Owner /\ q.base = p.base
         /\ o # p => o # q
<1>1. q \in Owner /\ q.base = p.base
  BY DEF Owner
<1>2. Moves(p, q)
  BY OwnerMovesOn
<1>3. Moves(o, q)
  BY <1>1, <1>2, MovesTransitive
<1>4. o # p => o # q
  BY <1>1, <1>2 DEF Moves, NotAfter, Owner
<1>5. QED
  BY <1>1, <1>3, <1>4

-----------------------------------------------------------------------------
(* No wake-up is lost *)

\* How a step treats the watcher: it leaves it alone, wakes it, starts it over,
\* lets it handle the present epoch, or takes the dashboard away.
WakeStep ==
  \/ UNCHANGED <<mounted, watch, epoch>>
  \/ watch'.wake
  \/ ~mounted'
  \/ ~watch'.ready
  \/ watch'.handled = epoch'

LEMMA BumpSeedWakes ==
  ASSUME IInv, BumpSeed
  PROVE  WakeStep
BY DEF BumpSeed, WakeStep, IInv, Typing, Watches

LEMMA RenderedWakes ==
  ASSUME IInv, NEW o, NEW d, NEW f, NEW st, NEW wake \in BOOLEAN, NEW up,
         Rendered(o, d, f, st, wake, up), mounted' = mounted,
         wake \/ epoch' = epoch
  PROVE  WakeStep
<1>1. \/ watch' = FreshWatch
      \/ watch' = [watch EXCEPT !.wake = @ \/ wake]
  BY DEF Rendered, MountInner
<1>2. watch \in Watches
  BY DEF IInv, Typing
<1>3. CASE wake
  BY <1>1, <1>2, <1>3 DEF WakeStep, FreshWatch, Watches
<1>4. CASE ~wake
  <2>1. [watch EXCEPT !.wake = @ \/ wake] = watch
    BY <1>2, <1>4 DEF Watches
  <2>2. QED
    BY <1>1, <1>4, <2>1 DEF WakeStep, FreshWatch
<1>5. QED
  BY <1>3, <1>4

LEMMA EveryStepWakes ==
  ASSUME IInv, [Next]_vars
  PROVE  WakeStep
<1>1. CASE \E st \in Stations : Sample(st) \/ ReplaceInstance(st)
  BY <1>1 DEF Sample, ReplaceInstance, WakeStep
<1>2. CASE \E st \in Stations : StationSweep(st)
  BY <1>2, RenderedWakes DEF StationSweep
<1>3. CASE \E st \in Stations, tested \in BOOLEAN : SelectStation(st, tested)
  BY <1>3, BumpSeedWakes DEF SelectStation
<1>4. CASE \E r \in station.rows, stepped \in BOOLEAN : LiveRow(r, stepped)
  BY <1>4 DEF LiveRow, WakeStep
<1>5. CASE \E k \in 0..QueueCap, persist \in BOOLEAN : Pump(k, persist)
  <2> PICK k \in 0..QueueCap, persist \in BOOLEAN : Pump(k, persist)
    BY <1>5
  <2>1. mounted' = mounted /\ epoch' = epoch
    BY DEF Pump
  <2>2. CASE ClockReset
    <3> DEFINE drained == Drain(PumpDisplay, k)
               d == IF persist THEN Persist(drained, here.base, drained.store) ELSE drained
    <3>1. Rendered(PumpOwner, d, PumpFloor, status, FALSE, TRUE)
      BY <2>2 DEF Pump
    <3> HIDE DEF d
    <3>2. QED
      BY <2>1, <3>1, RenderedWakes
  <2>3. CASE ~ClockReset
    BY <2>1, <2>3 DEF Pump, WakeStep
  <2>4. QED
    BY <2>2, <2>3
<1>6. CASE WsOpen \/ CalibrationChanged \/ Foreground \/ Reconnect \/ HardReload \/ Login \/ Observe
  BY <1>6, BumpSeedWakes
  DEF WsOpen, CalibrationChanged, Foreground, Reconnect, HardReload, Login, Observe
<1>7. CASE WatcherPicksUp
  BY <1>7 DEF WatcherPicksUp, WakeStep, IInv, Typing, Watches
<1>8. CASE WatcherSkips
  BY <1>8 DEF WatcherSkips, WakeStep, IInv, Typing, Watches
<1>9. CASE \/ SeedRequests \/ SeedSuperseded \/ SeedAnswered \/ SeedBuilt
           \/ SeedFailed \/ SeedRetries \/ SeedReturns
  BY <1>9 DEF SeedRequests, SeedSuperseded, SeedAnswered, SeedBuilt,
     SeedFailed, SeedRetries, SeedReturns, WakeStep
<1>10. CASE StartupReady
  BY <1>10 DEF StartupReady, WakeStep, IInv, Typing, Watches
<1>11. CASE ClearCurrent
  BY <1>11, RenderedWakes DEF ClearCurrent
<1>12. CASE ClearAndReseed
  BY <1>12, RenderedWakes DEF ClearAndReseed
<1>13. CASE Leave \/ Logout \/ AccessLost \/ Restart
  BY <1>13 DEF Leave, Logout, AccessLost, Restart, Leaves, WakeStep
<1>14. CASE Mount \/ GrantsRebuild
  BY <1>14 DEF Mount, GrantsRebuild, MountInner, FreshWatch, WakeStep
<1>15. CASE \/ WsDrop \/ StatusTimeout \/ GrantsRefreshed \/ Unauthorized
            \/ BeginObservation \/ ObservationFails \/ UNCHANGED vars
  BY <1>15 DEF WsDrop, StatusTimeout, GrantsRefreshed, Unauthorized,
     BeginObservation, ObservationFails, vars, WakeStep
<1>16. QED
  BY <1>1, <1>2, <1>3, <1>4, <1>5, <1>6, <1>7, <1>8, <1>9, <1>10, <1>11, <1>12,
     <1>13, <1>14, <1>15 DEF Next

-----------------------------------------------------------------------------
(* What was captured, and what has come since *)

\* How a step treats the owner, the continuity, the request and the observation:
\* owners only move forward, the continuity changes by synchronizing or by
\* accepting an observation, a request is for the owner it begins under.
ContStep ==
  \/ cont' = cont
  \/ /\ cont'.revision = cont.revision + 1
     /\ cont'.authority.st \in {cont'.owner.base, NoStation}
     /\ here' = here => cont'.owner = here

SeedStep ==
  \/ seed' \in {seed, IdleSeed}
  \/ /\ seed.pc # "idle" /\ seed'.pc # "idle"
     /\ seed'.owner = seed.owner /\ seed'.revision = seed.revision
  \/ /\ here' = here /\ cont' = SyncedCont(here)
     /\ seed'.pc # "idle" /\ seed'.owner = here /\ seed'.revision = cont'.revision

ObsStep ==
  \/ obs' \in {obs, NoObservation}
  \/ /\ here' = here /\ cont' = SyncedCont(here)
     /\ obs'.owner = here /\ obs'.answer.st = here.base

Advance == Moves(here, here') /\ ContStep /\ SeedStep /\ ObsStep

LEMMA SyncedContStep ==
  ASSUME IInv, NEW o \in Owner, cont' = SyncedCont(o), here' = here => o = here
  PROVE  ContStep
<1>1. CASE cont.owner = o
  BY <1>1 DEF SyncedCont, ContStep
<1>2. CASE cont.owner # o
  <2>1. cont' = [owner |-> o, authority |-> NoAuthority, revision |-> cont.revision + 1]
    BY <1>2 DEF SyncedCont
  <2>2. QED
    BY <2>1 DEF ContStep, NoAuthority
<1>3. QED
  BY <1>1, <1>2

\* The continuity that was synchronized with an owner is that owner's.
LEMMA SyncedContOwner ==
  ASSUME IInv, Captured, cont' = SyncedCont(here)
  PROVE  cont'.owner = here /\ cont'.revision \in Nat \ {0}
<1>1. cont \in Conts /\ cont.revision \in Nat /\ here.base # NoStation
  BY ReseedAssumption DEF IInv, Typing, Conts
<1>2. CASE cont.owner = here
  <2>1. here # NoOwner
    BY <1>1 DEF NoOwner
  <2>2. QED
    BY <1>1, <1>2, <2>1 DEF SyncedCont, Captured
<1>3. CASE cont.owner # here
  BY <1>1, <1>3 DEF SyncedCont
<1>4. QED
  BY <1>2, <1>3

LEMMA RenderedAdvances ==
  ASSUME IInv, NEW o \in Owner, Moves(here, o), here # o,
         NEW d, NEW f, NEW st, NEW wake, NEW up,
         Rendered(o, d, f, st, wake, up)
  PROVE  Moves(here, here') /\ here' # here /\ SeedStep /\ ObsStep
<1>1. here' \in {o, [o EXCEPT !.mount = @ + 1]}
  BY DEF Rendered, MountInner
<1>2. here \in Owner
  BY DEF IInv, Typing
<1>3. Moves(here, here') /\ here' # here
  BY <1>1, <1>2, MovedAgain
<1>4. seed' \in {seed, IdleSeed} /\ obs' \in {obs, NoObservation}
  BY DEF Rendered, MountInner
<1>5. QED
  BY <1>3, <1>4 DEF SeedStep, ObsStep

LEMMA MountInnerAdvances ==
  ASSUME IInv, NEW o, Moves(here, o), NEW d, NEW f, NEW st,
         MountInner(o, d, f, st)
  PROVE  Moves(here, here') /\ SeedStep /\ ObsStep
BY DEF MountInner, SeedStep, ObsStep

LEMMA LeavesAdvances ==
  ASSUME IInv, NEW o, Moves(here, o), Leaves(o)
  PROVE  Moves(here, here') /\ SeedStep /\ ObsStep
BY DEF Leaves, SeedStep, ObsStep

\* The operator, the login and the pump move the owner; an owner changes only so.
LEMMA OwnerChanges ==
  ASSUME NEW o \in Owner
  PROVE  /\ [o EXCEPT !.clear = @ + 1] # o
         /\ [o EXCEPT !.graph = @ + 1] # o
         /\ [o EXCEPT !.graph = @ + 1, !.clear = @ + 1] # o
<1>1. o.clear + 1 # o.clear /\ o.graph + 1 # o.graph
  BY DEF Owner
<1>2. /\ [o EXCEPT !.clear = @ + 1].clear = o.clear + 1
      /\ [o EXCEPT !.graph = @ + 1].graph = o.graph + 1
      /\ [o EXCEPT !.graph = @ + 1, !.clear = @ + 1].graph = o.graph + 1
  BY DEF Owner
<1>3. QED
  BY <1>1, <1>2

LEMMA PumpAdvances ==
  ASSUME IInv, NEW k \in 0..QueueCap, NEW persist \in BOOLEAN, Pump(k, persist)
  PROVE  Advance
<1>1. here \in Owner /\ cont' = SyncedCont(PumpOwner) /\ PumpOwner \in Owner
  BY PumpTyped DEF Pump, IInv, Typing
<1>2. CASE ClockReset
  <2> DEFINE drained == Drain(PumpDisplay, k)
             d == IF persist THEN Persist(drained, here.base, drained.store) ELSE drained
  <2>1. Rendered(PumpOwner, d, PumpFloor, status, FALSE, TRUE)
    BY <1>2 DEF Pump
  <2>2. Moves(here, PumpOwner) /\ here # PumpOwner
    BY <1>1, <1>2, OwnerMovesOn, OwnerChanges DEF PumpOwner
  <2> HIDE DEF d
  <2>3. Moves(here, here') /\ here' # here /\ SeedStep /\ ObsStep
    BY <1>1, <2>1, <2>2, RenderedAdvances
  <2>4. ContStep
    BY <1>1, <2>3, SyncedContStep
  <2>5. QED
    BY <2>3, <2>4 DEF Advance
<1>3. CASE ~ClockReset
  <2>1. PumpOwner = here /\ UNCHANGED <<here, seed, obs>>
    BY <1>3 DEF Pump, PumpOwner
  <2>2. ContStep
    BY <1>1, <2>1, SyncedContStep
  <2>3. QED
    BY <2>1, <2>2 DEF Advance, Moves, SeedStep, ObsStep
<1>4. QED
  BY <1>2, <1>3

\* An observation is accepted for the owner that asked.
LEMMA ObserveAdvances ==
  ASSUME IInv, Captured, Observe
  PROVE  Advance
<1>1. /\ obs.answer.st = obs.owner.base /\ cont.owner = here
      /\ obs.owner = here
  BY DEF Observe, Captured
<1>2. cont \in Conts
  BY DEF IInv, Typing
<1>3. /\ cont'.owner = here /\ cont'.revision = cont.revision + 1
      /\ cont'.authority = obs.answer
  BY <1>1, <1>2 DEF Observe, Conts
<1>4. UNCHANGED <<here, seed>> /\ obs' = NoObservation
  BY DEF Observe
<1>5. QED
  BY <1>1, <1>3, <1>4 DEF Advance, Moves, ContStep, SeedStep, ObsStep

\* Every step but a restart of the process moves on.
LEMMA EveryStepAdvances ==
  ASSUME IInv, Captured, [Next]_vars, ~Restart
  PROVE  Advance
<1>0. here \in Owner /\ seed \in Seeds /\ cont \in Conts
  BY DEF IInv, Typing
<1>1. CASE \E st \in Stations : Sample(st) \/ ReplaceInstance(st)
  BY <1>1 DEF Sample, ReplaceInstance, Advance, Moves, ContStep, SeedStep, ObsStep
<1>2. CASE \E st \in Stations : StationSweep(st)
  <2> PICK st \in Stations : StationSweep(st)
    BY <1>2
  <2> DEFINE o == [here EXCEPT !.base = st, !.login = @ + 1, !.clear = @ + 1]
  <2>1. o \in Owner /\ Moves(here, o) /\ o.base = st
    BY <1>0, OwnerMoves, StationMovesOn DEF Owner
  <2>2. o # here
    BY <2>1 DEF StationSweep
  <2>3. Rendered(o, ClearAll(display), floor, Status("running"), TRUE, FALSE)
    BY DEF StationSweep
  <2> HIDE DEF o
  <2>4. Moves(here, here') /\ SeedStep /\ ObsStep
    BY <2>1, <2>2, <2>3, RenderedAdvances
  <2>5. QED
    BY <2>4 DEF StationSweep, Advance, ContStep
<1>3. CASE \E st \in Stations, tested \in BOOLEAN : SelectStation(st, tested)
  BY <1>0, <1>3, StationMovesOn, OwnerMovesOn
  DEF SelectStation, Advance, ContStep, SeedStep, ObsStep
<1>4. CASE \E r \in station.rows, stepped \in BOOLEAN : LiveRow(r, stepped)
  BY <1>0, <1>4, SyncedContStep DEF LiveRow, Advance, Moves, SeedStep, ObsStep
<1>5. CASE \E k \in 0..QueueCap, persist \in BOOLEAN : Pump(k, persist)
  BY <1>5, PumpAdvances
<1>6. CASE CalibrationChanged
  <2>1. Moves(here, here') /\ here' # here
    BY <1>0, <1>6, OwnerMovesOn, OwnerChanges DEF CalibrationChanged
  <2>2. ContStep
    BY <1>0, <1>6, <2>1, SyncedContStep DEF CalibrationChanged
  <2>3. QED
    BY <1>6, <2>1, <2>2 DEF CalibrationChanged, Advance, SeedStep, ObsStep
<1>7. CASE \/ WsOpen \/ WsDrop \/ WatcherSkips \/ StartupReady \/ StatusTimeout
           \/ Foreground \/ Reconnect \/ HardReload \/ ObservationFails \/ UNCHANGED vars
  BY <1>7
  DEF WsOpen, WsDrop, WatcherSkips, StartupReady, StatusTimeout, Foreground, Reconnect,
      HardReload, ObservationFails, vars, Advance, Moves, ContStep, SeedStep, ObsStep
<1>8. CASE WatcherPicksUp
  <2>1. BeginSeed(epoch, 1) /\ UNCHANGED <<here, obs>>
    BY <1>8 DEF WatcherPicksUp
  <2>2. ContStep
    BY <1>0, <2>1, SyncedContStep DEF BeginSeed
  <2>3. QED
    BY <2>1, <2>2 DEF BeginSeed, Advance, Moves, SeedStep, ObsStep
<1>9. CASE SeedRetries
  <2>1. BeginSeed(seed.epoch, seed.attempt + 1) /\ UNCHANGED <<here, obs>>
    BY <1>9 DEF SeedRetries
  <2>2. ContStep
    BY <1>0, <2>1, SyncedContStep DEF BeginSeed
  <2>3. QED
    BY <2>1, <2>2 DEF BeginSeed, Advance, Moves, SeedStep, ObsStep
<1>10. CASE SeedSuperseded \/ SeedReturns
  BY <1>10 DEF SeedSuperseded, SeedReturns, EndSeed, Advance, Moves, ContStep, SeedStep, ObsStep
<1>11. CASE SeedRequests \/ SeedAnswered \/ SeedBuilt \/ SeedFailed
  <2>1. UNCHANGED <<here, cont, obs>> /\ seed.pc # "idle"
    BY <1>11 DEF SeedRequests, SeedAnswered, SeedBuilt, SeedFailed
  <2>2. \/ seed' = IdleSeed
        \/ /\ seed'.pc # "idle"
           /\ seed'.owner = seed.owner /\ seed'.revision = seed.revision
    BY <1>0, <1>11
    DEF SeedRequests, SeedAnswered, SeedBuilt, SeedFailed, SwapIn, EndSeed, Seeds
  <2>3. QED
    BY <2>1, <2>2 DEF Advance, Moves, ContStep, SeedStep, ObsStep
<1>12. CASE ClearCurrent
  <2> DEFINE o == [here EXCEPT !.graph = @ + 1, !.clear = @ + 1]
             f == [floor EXCEPT !.saved[here.base] = Sampled, !.mem = Sampled,
                                !.cut[here.base] = Sampled]
  <2>1. Rendered(o, ClearAll(display), f, Status("idle"), FALSE, TRUE) /\ cont' = cont
    BY <1>12 DEF ClearCurrent
  <2>2. o \in Owner /\ Moves(here, o) /\ here # o
    <3>1. \E st \in Stations : TRUE
      BY DisplayAssumption
    <3>2. QED
      BY <1>0, <3>1, OwnerMoves, OwnerMovesOn, OwnerChanges
  <2> HIDE DEF o, f
  <2>3. QED
    BY <2>1, <2>2, RenderedAdvances DEF Advance, ContStep
<1>13. CASE ClearAndReseed
  <2> DEFINE o == [here EXCEPT !.clear = @ + 1]
  <2>1. Rendered(o, ClearAll(display), floor, Status("running"), TRUE, FALSE) /\ cont' = cont
    BY <1>13 DEF ClearAndReseed
  <2>2. o \in Owner /\ Moves(here, o) /\ here # o
    <3>1. \E st \in Stations : TRUE
      BY DisplayAssumption
    <3>2. QED
      BY <1>0, <3>1, OwnerMoves, OwnerMovesOn, OwnerChanges
  <2> HIDE DEF o
  <2>3. QED
    BY <2>1, <2>2, RenderedAdvances DEF Advance, ContStep
<1>14. CASE Leave \/ Logout \/ AccessLost
  <2>1. cont' = cont
    BY <1>14 DEF Leave, Logout, AccessLost
  <2>2. QED
    BY <1>0, <1>14, <2>1, OwnerMovesOn, LeavesAdvances
    DEF Leave, Logout, AccessLost, Advance, ContStep
<1>15. CASE Mount \/ GrantsRebuild
  <2>1. cont' = cont
    BY <1>15 DEF Mount, GrantsRebuild
  <2>2. QED
    BY <1>0, <1>15, <2>1, OwnerMovesOn, MountInnerAdvances
    DEF Mount, GrantsRebuild, Advance, ContStep
<1>16. CASE Login \/ GrantsRefreshed \/ Unauthorized
  BY <1>0, <1>16, OwnerMovesOn
  DEF Login, GrantsRefreshed, Unauthorized, Advance, ContStep, SeedStep, ObsStep
<1>17. CASE BeginObservation
  <2>1. ContStep
    BY <1>0, <1>17, SyncedContStep DEF BeginObservation
  <2>2. QED
    BY <1>17, <2>1 DEF BeginObservation, Advance, Moves, SeedStep, ObsStep
<1>18. CASE Observe
  BY <1>18, ObserveAdvances
<1>19. QED
  BY <1>1, <1>2, <1>3, <1>4, <1>5, <1>6, <1>7, <1>8, <1>9, <1>10, <1>11, <1>12,
     <1>13, <1>14, <1>15, <1>16, <1>17, <1>18 DEF Next

LEMMA AdvanceCaptured ==
  ASSUME IInv, IInv', Captured, Advance
  PROVE  Captured'
<1>1. /\ here \in Owner /\ here' \in Owner /\ here.base \in Stations
      /\ cont \in Conts /\ cont' \in Conts /\ seed \in Seeds /\ seed' \in Seeds
      /\ obs \in Observations /\ obs' \in Observations
  BY DEF IInv, Typing
<1>2. /\ cont.revision \in Nat /\ cont'.revision \in Nat
      /\ cont' = cont \/ cont.revision < cont'.revision
  BY <1>1 DEF Advance, ContStep, Conts
<1>3. cont'.revision = 0 => cont'.owner = NoOwner
  BY <1>2 DEF Captured
<1>4. cont'.authority.st \in {cont'.owner.base, NoStation}
  BY DEF Advance, ContStep, Captured
<1>5. seed'.pc = "idle" => seed' = IdleSeed
  BY FreshTyped DEF Advance, SeedStep, Captured
<1>6. ASSUME cont' = SyncedCont(here), here' = here
      PROVE  cont'.owner = here /\ cont'.revision \in 1..cont'.revision
  BY <1>2, <1>6, SyncedContOwner
<1>7. seed'.pc # "idle" =>
        /\ NotAfter(seed'.owner, here')
        /\ seed'.revision \in 1..cont'.revision
        /\ seed'.revision = cont'.revision => cont'.owner = seed'.owner
  <2> SUFFICES ASSUME seed'.pc # "idle"
               PROVE  /\ NotAfter(seed'.owner, here')
                      /\ seed'.revision \in 1..cont'.revision
                      /\ seed'.revision = cont'.revision => cont'.owner = seed'.owner
    OBVIOUS
  <2>1. CASE seed.pc # "idle" /\ seed'.owner = seed.owner /\ seed'.revision = seed.revision
    <3>1. NotAfter(seed.owner, here) /\ seed.revision \in 1..cont.revision
      BY <2>1 DEF Captured
    <3>2. seed.owner \in Owner /\ seed.revision \in Nat
      BY <1>1 DEF Seeds
    <3>3. NotAfter(seed'.owner, here')
      BY <1>1, <2>1, <3>1, <3>2, MovedOn DEF Advance
    <3>4. seed'.revision \in 1..cont'.revision
      BY <1>2, <2>1, <3>1, <3>2
    <3>5. seed'.revision = cont'.revision => cont' = cont
      BY <1>2, <2>1, <3>1, <3>2
    <3>6. QED
      BY <2>1, <3>3, <3>4, <3>5 DEF Captured
  <2>2. CASE /\ here' = here /\ cont' = SyncedCont(here)
             /\ seed'.owner = here /\ seed'.revision = cont'.revision
    <3>1. NotAfter(here, here)
      BY <1>1 DEF NotAfter, Owner
    <3>2. QED
      BY <1>6, <2>2, <3>1
  <2>3. QED
    BY <2>1, <2>2, FreshTyped DEF Advance, SeedStep
<1>8. obs' # NoObservation =>
        /\ NotAfter(obs'.owner, here')
        /\ obs'.answer.st = obs'.owner.base
        /\ obs'.owner = here' => cont'.owner = here'
  <2> SUFFICES ASSUME obs' # NoObservation
               PROVE  /\ NotAfter(obs'.owner, here')
                      /\ obs'.answer.st = obs'.owner.base
                      /\ obs'.owner = here' => cont'.owner = here'
    OBVIOUS
  <2>1. CASE obs' = obs
    <3>1. obs.owner \in Owner
      BY <1>1 DEF Observations
    <3>2. NotAfter(obs'.owner, here') /\ (obs'.owner = here' => here' = here)
      BY <1>1, <2>1, <3>1, MovedOn DEF Captured, Advance
    <3>3. QED
      BY <2>1, <3>2 DEF Captured, Advance, ContStep
  <2>2. CASE /\ here' = here /\ cont' = SyncedCont(here)
             /\ obs'.owner = here /\ obs'.answer.st = here.base
    <3>1. NotAfter(here, here)
      BY <1>1 DEF NotAfter, Owner
    <3>2. QED
      BY <1>6, <2>2, <3>1
  <2>3. QED
    BY <2>1, <2>2 DEF Advance, ObsStep
<1>9. QED
  BY <1>3, <1>4, <1>5, <1>7, <1>8 DEF Captured

LEMMA RestartCaptured ==
  ASSUME Restart
  PROVE  Captured'
BY FreshTyped DEF Restart, Captured, NoAuthority, NoOwner

\* A request that is still current belongs to the present owner, and nothing
\* that a request depends on has changed since it was current.
LEMMA StillCurrent ==
  ASSUME IInv, IInv', Captured, Advance, seed.pc # "idle",
         seed'.owner = seed.owner, seed'.revision = seed.revision, SeedCurrent'
  PROVE  /\ here' = here /\ cont' = cont /\ SeedCurrent /\ cont.owner = here
<1>1. /\ here \in Owner /\ here' \in Owner /\ seed \in Seeds
      /\ cont \in Conts /\ cont' \in Conts
  BY DEF IInv, Typing
<1>2. seed'.owner = here' /\ seed'.revision = cont'.revision
  BY DEF SeedCurrent
<1>3. here' = here
  BY <1>1, <1>2, MovedOn DEF Captured, Advance, Seeds
<1>4. cont' = cont
  BY <1>1, <1>2 DEF Captured, Advance, ContStep, Conts
<1>5. QED
  BY <1>2, <1>3, <1>4 DEF Captured, SeedCurrent

-----------------------------------------------------------------------------
(* No step forgets a row that was received *)

\* Rows are numbered as they are sampled.
Numbered ==
  /\ \A r \in station.rows : r.n \in 1..Sampled
  /\ display.trimmed \subseteq station.rows

\* What the socket will deliver is newer than all that it delivered.
LinkAhead ==
  link.up =>
    /\ mounted
    /\ \A g \in display.got \cup display.trimmed : g.n < link.next

\* Only what the full buffer dropped may be missing, and where the display says that
\* nothing was omitted, not even that.
NoneLost ==
  /\ Kept(display, display.omitted)
  /\ status.state = "ok" /\ status.reported = 0 => Kept(display, {})

\* Display e knows of no other rows than d, and has lost none of them.
Follows(d, e) ==
  /\ Received(d) => Received(e) /\ \A X : Kept(d, X) => Kept(e, X)
  /\ e.got \subseteq d.got /\ e.trimmed = d.trimmed /\ e.omitted = d.omitted

LEMMA FollowsTransitive ==
  ASSUME NEW d, NEW e, NEW f, Follows(d, e), Follows(e, f)
  PROVE  Follows(d, f)
BY DEF Follows

LEMMA LessFollows ==
  ASSUME NEW d, NEW e, Less(d, e)
  PROVE  Follows(d, e)
<1>1. e.got \subseteq d.got /\ e.trimmed = d.trimmed /\ e.omitted = d.omitted
  BY DEF Less
<1>2. QED
  BY <1>1, LessReceived, LessKept DEF Follows

LEMMA SyncedLess ==
  ASSUME NEW R \in SUBSET Row, NEW d \in Held(R), NEW o
  PROVE  Less(d, SyncedDisplay(o, d))
BY LessReflexive, ClearVisibleLess, ClearAllLess DEF SyncedDisplay

LEMMA GuardLess ==
  ASSUME NEW R \in SUBSET Row, NEW d \in Held(R)
  PROVE  Less(d, ReseedGuard(d))
BY LessReflexive, ResetBufferLess DEF ReseedGuard

\* Building the dashboard anew, or only rendering it, forgets no row.
LEMMA MountInnerFollows ==
  ASSUME NEW R \in SUBSET Row, NEW o, NEW d \in Held(R), NEW f, NEW st,
         MountInner(o, d, f, st)
  PROVE  /\ Follows(d, display')
         /\ status' = st \/ status'.state # "ok"
<1> DEFINE g == ReseedGuard(d)
           e == RestoreCache(g, o.base, f.saved[o.base])
<1>1. g \in Held(R) /\ Less(d, g)
  BY ReseedGuardHeld, GuardLess
<1>2. display' = e
  BY DEF MountInner
<1> HIDE DEF g
<1>3. Follows(g, e)
  BY <1>1, RestoreCacheReceived DEF Follows
<1>4. Follows(d, display')
  BY <1>1, <1>2, <1>3, LessFollows, FollowsTransitive
<1>5. status' = st \/ status'.state # "ok"
  BY DEF MountInner, Status
<1>6. QED
  BY <1>4, <1>5

LEMMA RenderedFollows ==
  ASSUME NEW R \in SUBSET Row, NEW o, NEW d \in Held(R), NEW f, NEW st,
         NEW wake, NEW up, Rendered(o, d, f, st, wake, up)
  PROVE  /\ Follows(d, display')
         /\ status' = st \/ status'.state # "ok"
<1>1. CASE mounted /\ Remounts
  BY <1>1, MountInnerFollows DEF Rendered
<1>2. CASE ~(mounted /\ Remounts)
  BY <1>2 DEF Rendered, Follows
<1>3. QED
  BY <1>1, <1>2

\* How most steps treat the display and what is reported of it.
DisplayStep ==
  /\ Follows(display, display')
  /\ status' = status \/ status'.state # "ok"

LEMMA PumpLess ==
  ASSUME IInv
  PROVE  Less(display, PumpDisplay)
<1> DEFINE R == RowsOf(station.rows, here.base)
           k == KeepSince(display, floor.since)
           c == ClearVisible(k)
<1>1. R \in SUBSET Row /\ display \in Held(R) /\ floor.since \in Nat
  BY RowsOfRow DEF IInv, Typing, Floors
<1>2. k \in Held(R) /\ Less(display, k)
  BY <1>1, KeepSinceHeld, KeepSinceLess
<1> HIDE DEF R, k
<1>3. c \in Held(R) /\ Less(k, c)
  BY <1>1, <1>2, ClearVisibleHeld, ClearVisibleLess
<1> HIDE DEF c
<1>4. Less(c, SyncedDisplay(PumpOwner, c)) /\ Less(display, SyncedDisplay(PumpOwner, display))
  BY <1>1, <1>3, SyncedLess
<1>5. Less(display, SyncedDisplay(PumpOwner, c))
  BY <1>2, <1>3, <1>4, LessTransitive
<1>6. PumpDisplay \in {SyncedDisplay(PumpOwner, c), SyncedDisplay(PumpOwner, display)}
  BY DEF PumpDisplay, c, k
<1>7. QED
  BY <1>4, <1>5, <1>6

LEMMA PumpDrains ==
  ASSUME IInv, Received(display), NEW k \in 0..QueueCap, NEW persist \in BOOLEAN,
         Pump(k, persist)
  PROVE  LET drained == Drain(PumpDisplay, k)
             d == IF persist THEN Persist(drained, here.base, drained.store)
                  ELSE drained
         IN  /\ d \in Held(RowsOf(station.rows, here.base))
             /\ Follows(display, d)
             /\ d.store \subseteq PumpDisplay.store \cup Queued(PumpDisplay)
             /\ Queued(d) \subseteq Queued(PumpDisplay)
             /\ d.got = PumpDisplay.got /\ d.buffer = PumpDisplay.buffer
             /\ d.dropped = PumpDisplay.dropped
             /\ \A r : Lodged(PumpDisplay, r) => Lodged(d, r)
<1> DEFINE R == RowsOf(station.rows, here.base)
           drained == Drain(PumpDisplay, k)
           d == IF persist THEN Persist(drained, here.base, drained.store)
                ELSE drained
<1>1. /\ R \in SUBSET Row /\ PumpDisplay \in Held(R) /\ Less(display, PumpDisplay)
      /\ k \in 0..Len(PumpDisplay.queue) /\ here.base \in Stations
  BY RowsOfRow, PumpTyped, PumpLess DEF Pump, IInv, Typing
<1>2. Received(PumpDisplay)
  BY <1>1, LessReceived
<1> HIDE DEF R
<1>3. drained \in Held(R)
  BY <1>1, DrainHeld
<1>4. /\ Follows(PumpDisplay, drained)
      /\ drained.store \subseteq PumpDisplay.store \cup Queued(PumpDisplay)
      /\ Queued(drained) \subseteq Queued(PumpDisplay)
      /\ drained.got = PumpDisplay.got /\ drained.buffer = PumpDisplay.buffer
      /\ drained.dropped = PumpDisplay.dropped
      /\ \A r : Lodged(PumpDisplay, r) => Lodged(drained, r)
  BY <1>1, <1>2, DrainReceived DEF Follows
<1> HIDE DEF drained
<1>5. drained.store \in SUBSET R
  BY <1>3 DEF Held, Fields
<1>6. d \in Held(R)
  BY <1>1, <1>3, <1>5, PersistHeld
<1>7. /\ d.queue = drained.queue /\ d.got = drained.got /\ d.trimmed = drained.trimmed
      /\ d.store = drained.store /\ d.live = drained.live /\ d.omitted = drained.omitted
      /\ d.buffer = drained.buffer /\ d.dropped = drained.dropped
  BY <1>3 DEF Persist, Held, Fields
<1> HIDE DEF d
<1>8. Follows(drained, d) /\ Queued(d) = Queued(drained)
  BY <1>7, SameRows DEF Follows
<1>9. Follows(display, d)
  BY <1>1, <1>4, <1>8, LessFollows, FollowsTransitive
<1>10. \A r : Lodged(PumpDisplay, r) => Lodged(d, r)
  BY <1>4, <1>7, <1>8 DEF Lodged
<1>11. QED
  BY <1>4, <1>6, <1>7, <1>8, <1>9, <1>10 DEF d, drained, R

LEMMA PumpFollows ==
  ASSUME IInv, Received(display), NEW k \in 0..QueueCap, NEW persist \in BOOLEAN,
         Pump(k, persist)
  PROVE  DisplayStep
<1> DEFINE R == RowsOf(station.rows, here.base)
           drained == Drain(PumpDisplay, k)
           d == IF persist THEN Persist(drained, here.base, drained.store)
                ELSE drained
<1>1. d \in Held(R) /\ Follows(display, d)
  BY PumpDrains
<1>2. \/ Rendered(PumpOwner, d, PumpFloor, status, FALSE, TRUE)
      \/ display' = d /\ status' = status
  BY DEF Pump
<1> HIDE DEF d, R
<1>3. CASE Rendered(PumpOwner, d, PumpFloor, status, FALSE, TRUE)
  <2>1. Follows(d, display') /\ (status' = status \/ status'.state # "ok")
    BY <1>1, <1>3, RenderedFollows, RowsOfRow DEF R
  <2>2. QED
    BY <1>1, <2>1, FollowsTransitive DEF DisplayStep
<1>4. CASE display' = d /\ status' = status
  BY <1>1, <1>4 DEF DisplayStep
<1>5. QED
  BY <1>2, <1>3, <1>4

\* A history request begins, ends or fails.
LEMMA BeginSeedLess ==
  ASSUME IInv, NEW e, NEW attempt, BeginSeed(e, attempt)
  PROVE  Less(display, display') /\ (status' = status \/ status'.state # "ok")
<1> DEFINE R == RowsOf(station.rows, here.base)
           d == SyncedDisplay(here, display)
<1>1. /\ R \in SUBSET Row /\ display \in Held(R) /\ d \in Held(R) /\ Less(display, d)
  BY RowsOfRow, SyncedHeld, SyncedLess DEF IInv
<1>2. display' = ResetBuffer(d) /\ (status' = status \/ status'.state # "ok")
  BY DEF BeginSeed, Status
<1> HIDE DEF R, d
<1>3. Less(d, ResetBuffer(d))
  BY <1>1, ResetBufferLess
<1>4. QED
  BY <1>1, <1>2, <1>3, LessTransitive

\* Whether a step replaces what is shown by the rows list.
Swaps(list) ==
  /\ seed.pc \in {"recent", "build"} /\ SeedCurrent
  /\ seed.pc = "recent" => list = Answer
  /\ seed.pc = "build" => list = seed.rows
  /\ SwapIn(list)
  /\ UNCHANGED <<station, here, mounted, cont, floor, epoch, watch, link, obs>>

\* What is left of the display by the steps that only take rows away.
LEMMA QuietLess ==
  ASSUME IInv,
         \/ \E st \in Stations : Sample(st) \/ ReplaceInstance(st)
         \/ \E st \in Stations, tested \in BOOLEAN : SelectStation(st, tested)
         \/ WsOpen \/ WsDrop \/ CalibrationChanged
         \/ WatcherPicksUp \/ WatcherSkips \/ SeedRequests \/ SeedSuperseded
         \/ SeedFailed \/ SeedRetries \/ SeedReturns
         \/ StartupReady \/ StatusTimeout \/ Foreground \/ Reconnect \/ HardReload
         \/ Leave \/ Logout \/ Login \/ AccessLost
         \/ GrantsRefreshed \/ Unauthorized
         \/ BeginObservation \/ ObservationFails \/ Observe \/ UNCHANGED vars
  PROVE  Less(display, display') /\ (status' = status \/ status'.state # "ok")
<1> DEFINE R == RowsOf(station.rows, here.base)
<1>0. R \in SUBSET Row /\ display \in Held(R)
  BY RowsOfRow DEF IInv
<1>1. /\ Less(display, display) /\ Less(display, ClearAll(display))
      /\ Less(display, ResetBuffer(display)) /\ Less(display, ReseedGuard(display))
      /\ Less(display, SyncedDisplay(here, display))
  BY <1>0, LessReflexive, ClearAllLess, ResetBufferLess, GuardLess, SyncedLess
<1> HIDE DEF R
<1>2. CASE \E st \in Stations : Sample(st) \/ ReplaceInstance(st)
  BY <1>1, <1>2 DEF Sample, ReplaceInstance
<1>3. CASE \E st \in Stations, tested \in BOOLEAN : SelectStation(st, tested)
  <2>1. display' \in {display, ClearAll(display)} /\ status' \in {status, Status("running")}
    BY <1>3 DEF SelectStation
  <2>2. Status("running").state # "ok"
    BY DEF Status
  <2>3. QED
    BY <1>1, <2>1, <2>2
<1>4. CASE CalibrationChanged
  <2> DEFINE d == SyncedDisplay(here, display)
  <2>1. d \in Held(R) /\ display' = ClearQueue(d) /\ status' = status
    BY <1>0, <1>4, SyncedHeld DEF CalibrationChanged
  <2> HIDE DEF d
  <2>2. Less(d, display')
    BY <2>1, ClearQueueLess
  <2>3. QED
    BY <1>1, <2>1, <2>2, LessTransitive DEF d
<1>5. CASE WatcherPicksUp \/ SeedRetries
  BY <1>5, BeginSeedLess DEF WatcherPicksUp, SeedRetries
<1>6. CASE SeedSuperseded \/ SeedReturns
  BY <1>1, <1>6 DEF SeedSuperseded, SeedReturns, EndSeed
<1>7. CASE SeedFailed
  BY <1>1, <1>7 DEF SeedFailed, EndSeed, Status
<1>8. CASE \/ WsOpen \/ WsDrop \/ WatcherSkips \/ SeedRequests
           \/ StartupReady \/ StatusTimeout \/ Foreground \/ Reconnect \/ HardReload
  BY <1>1, <1>8 DEF WsOpen, WsDrop, WatcherSkips, SeedRequests, StartupReady,
     StatusTimeout, Foreground, Reconnect, HardReload, Status
<1>9. CASE Leave \/ Logout \/ Login \/ AccessLost \/ GrantsRefreshed \/ Unauthorized
  BY <1>1, <1>9 DEF Leave, Logout, Login, AccessLost, GrantsRefreshed, Unauthorized, Leaves
<1>10. CASE BeginObservation \/ ObservationFails \/ Observe \/ UNCHANGED vars
  BY <1>1, <1>10 DEF BeginObservation, ObservationFails, Observe, vars
<1>11. QED
  BY <1>2, <1>3, <1>4, <1>5, <1>6, <1>7, <1>8, <1>9, <1>10

\* A step delivers a row, swaps in what was loaded, restarts the process, or
\* forgets nothing.
LEMMA EveryStepFollows ==
  ASSUME IInv, Received(display), [Next]_vars, ~Restart,
         \A r \in station.rows, stepped \in BOOLEAN : ~LiveRow(r, stepped),
         \A list : ~Swaps(list)
  PROVE  DisplayStep
<1> DEFINE R == RowsOf(station.rows, here.base)
<1>0. R \in SUBSET Row /\ display \in Held(R)
  BY RowsOfRow DEF IInv
<1>1. Follows(display, ClearAll(display)) /\ ClearAll(display) \in Held(R)
  BY <1>0, ClearAllLess, LessFollows, ClearedHeld
<1> HIDE DEF R
<1>2. CASE Less(display, display') /\ (status' = status \/ status'.state # "ok")
  BY <1>2, LessFollows DEF DisplayStep
<1>3. CASE \E st \in Stations : StationSweep(st)
  <2> PICK st \in Stations : StationSweep(st)
    BY <1>3
  <2> DEFINE o == [here EXCEPT !.base = st, !.login = @ + 1, !.clear = @ + 1]
             c == ClearAll(display)
             s == Status("running")
  <2>1. Rendered(o, c, floor, s, TRUE, FALSE)
    BY DEF StationSweep
  <2>2. s.state # "ok"
    BY DEF Status
  <2> HIDE DEF o, c, s
  <2>3. Follows(c, display') /\ status'.state # "ok"
    BY <1>0, <1>1, <2>1, <2>2, RenderedFollows DEF c
  <2>4. QED
    BY <1>1, <2>3, FollowsTransitive DEF DisplayStep, c
<1>4. CASE \E k \in 0..QueueCap, persist \in BOOLEAN : Pump(k, persist)
  BY <1>4, PumpFollows
<1>5. CASE SeedAnswered
  <2>1. CASE Answer = {}
    <3>1. Swaps(Answer)
      BY <1>5, <2>1 DEF SeedAnswered, Swaps
    <3>2. QED
      BY <3>1
  <2>2. CASE Answer # {}
    BY <1>2, <1>5, <2>2, LessReflexive DEF SeedAnswered
  <2>3. QED
    BY <2>1, <2>2
<1>6. CASE SeedBuilt
  <2>1. Swaps(seed.rows)
    BY <1>6 DEF SeedBuilt, Swaps
  <2>2. QED
    BY <2>1
<1>7. CASE ClearCurrent \/ ClearAndReseed
  <2> DEFINE c == ClearAll(display)
             idle == Status("idle")
             running == Status("running")
  <2>1. idle.state # "ok" /\ running.state # "ok"
    BY DEF Status
  <2>2. \/ \E o, f : Rendered(o, c, f, idle, FALSE, TRUE)
        \/ \E o, f : Rendered(o, c, f, running, TRUE, FALSE)
    BY <1>7 DEF ClearCurrent, ClearAndReseed
  <2> HIDE DEF c, idle, running
  <2>3. Follows(c, display') /\ status'.state # "ok"
    BY <1>0, <1>1, <2>1, <2>2, RenderedFollows DEF c
  <2>4. QED
    BY <1>1, <2>3, FollowsTransitive DEF DisplayStep, c
<1>8. CASE Mount \/ GrantsRebuild
  BY <1>0, <1>8, MountInnerFollows DEF Mount, GrantsRebuild, DisplayStep
<1>9. QED
  BY <1>2, <1>3, <1>4, <1>5, <1>6, <1>7, <1>8, QuietLess DEF Next

-----------------------------------------------------------------------------
(* A row arrives *)

\* Display e is d, or what clearing leaves of it, with the newer row r received.
Receives(d, e, r) ==
  /\ Received(e)
  /\ \A X : Kept(d, X) => Kept(e, X)
  /\ d.omitted \subseteq e.omitted
  /\ e.got \subseteq d.got \cup {r} /\ r \in Queued(e)
  /\ Queued(e) \subseteq Queued(d) \cup {r}
  /\ d.trimmed \subseteq e.trimmed /\ e.trimmed \subseteq d.trimmed \cup d.got
  /\ e.got \cap Queued(d) \subseteq Queued(e) \cup e.trimmed
  /\ e.store \subseteq d.store
  /\ Range(e.buffer) \subseteq Range(d.buffer) \cup {r}

\* Display e is d with the row r recorded for the request under way.
Records(d, e, r) ==
  /\ e.store = d.store
  /\ r \in Range(e.buffer)
  /\ d.omitted \subseteq e.omitted
  /\ d.dropped > 0 => e.dropped > 0
  /\ \A g \in Range(d.buffer) \ Range(e.buffer) : g \in e.omitted /\ e.dropped > 0

\* The socket delivers rows in order, so the row is newer than all before it.
LEMMA ArrivingIsNew ==
  ASSUME IInv, LinkAhead, NEW r \in station.rows, link.up, Arriving(r)
  PROVE  \A g \in display.got \cup display.trimmed : g.n < r.n
<1>1. display.got \subseteq Row /\ display.trimmed \subseteq Row /\ r \in Row /\ link.next \in Nat
  BY RowsOfRow DEF IInv, Typing, Links, Held, Fields
<1>2. r.n >= link.next
  BY DEF Arriving
<1>3. \A g \in display.got \cup display.trimmed : g.n \in Nat /\ g.n < link.next
  BY <1>1 DEF LinkAhead, Row
<1>4. r.n \in Nat
  BY <1>1 DEF Row
<1>5. QED
  BY <1>1, <1>2, <1>3, <1>4

LEMMA LiveRowReceives ==
  ASSUME IInv, Received(display), LinkAhead,
         NEW r \in station.rows, NEW stepped \in BOOLEAN, LiveRow(r, stepped)
  PROVE  \/ /\ ~Allowed(floor', r)
            /\ Less(display, display') /\ display' = SyncedDisplay(here, display)
         \/ /\ Allowed(floor', r) /\ Receives(display, display', r)
            /\ cont.owner = here =>
                 /\ display'.store = display.store
                 /\ Queued(display) \ display'.trimmed \subseteq Queued(display')
            /\ cont.owner = here /\ InProgress => Records(display, display', r)
<1> DEFINE R == RowsOf(station.rows, here.base)
           d == SyncedDisplay(here, display)
           b == IF InProgress THEN PushBuffer(d, r) ELSE d
           e == Enqueue(b, r)
<1>1. /\ R \in SUBSET Row /\ display \in Held(R) /\ d \in Held(R) /\ Less(display, d)
      /\ cont.owner = here => d = display
  BY RowsOfRow, SyncedHeld, SyncedLess DEF IInv, SyncedDisplay
<1>2. r \in R
  BY DEF LiveRow, Arriving, IInv, Typing, RowsOf
<1>3. \A g \in display.got \cup display.trimmed : g.n < r.n
  BY ArrivingIsNew DEF LiveRow
<1>4. display' = IF Allowed(floor', r) THEN e ELSE d
  BY DEF LiveRow
<1> HIDE DEF R, d
<1>5. /\ b \in Held(R)
      /\ b.queue = d.queue /\ b.got = d.got /\ b.trimmed = d.trimmed
      /\ b.store = d.store /\ b.live = d.live /\ d.omitted \subseteq b.omitted
      /\ Range(b.buffer) \subseteq Range(d.buffer) \cup {r}
      /\ InProgress => Records(d, b, r)
  BY <1>1, <1>2, PushBufferHeld, PushBufferReceived DEF Records
<1> HIDE DEF b
<1>6. /\ Received(d) /\ Received(b) /\ Queued(b) = Queued(d)
      /\ \A X : Kept(display, X) => Kept(b, X)
  BY <1>1, <1>5, LessReceived, LessKept, SameRows
<1>7. \A g \in b.got \cup b.trimmed : g.n < r.n
  BY <1>1, <1>3, <1>5 DEF Less
<1>8. /\ Received(e) /\ \A X : Kept(b, X) => Kept(e, X)
      /\ e.got = b.got \cup {r} /\ r \in Queued(e)
      /\ e.trimmed \subseteq b.trimmed \cup b.got /\ b.trimmed \subseteq e.trimmed
      /\ Queued(b) \ e.trimmed \subseteq Queued(e)
      /\ Queued(e) \subseteq Queued(b) \cup {r}
      /\ e.store = b.store /\ e.live = b.live /\ e.buffer = b.buffer
      /\ e.omitted = b.omitted /\ e.dropped = b.dropped
  BY <1>1, <1>2, <1>5, <1>6, <1>7, EnqueueReceived
<1> HIDE DEF e
<1>9. Receives(display, e, r)
  <2>1. d.got \cap Queued(display) \subseteq Queued(d)
    BY <1>1 DEF Less
  <2>2. e.got \cap Queued(display) \subseteq Queued(e) \cup e.trimmed
    BY <1>5, <1>6, <1>8, <2>1
  <2>3. /\ d.omitted = display.omitted /\ d.trimmed = display.trimmed
        /\ d.got \subseteq display.got /\ Queued(d) \subseteq Queued(display)
        /\ d.store \subseteq display.store /\ Range(d.buffer) \subseteq Range(display.buffer)
    BY <1>1 DEF Less
  <2>4. \A X : Kept(display, X) => Kept(e, X)
    BY <1>6, <1>8
  <2>5. QED
    BY <1>5, <1>6, <1>8, <2>2, <2>3, <2>4 DEF Receives
<1>10. cont.owner = here /\ InProgress => Records(display, e, r)
  BY <1>1, <1>5, <1>8 DEF Records
<1>11. cont.owner = here => /\ e.store = display.store
                            /\ Queued(display) \ e.trimmed \subseteq Queued(e)
  BY <1>1, <1>5, <1>6, <1>8
<1>12. QED
  BY <1>1, <1>4, <1>9, <1>10, <1>11 DEF d

-----------------------------------------------------------------------------
(* Rows are numbered as they are sampled, and the socket stays ahead *)

LEMMA SampleNumbered ==
  ASSUME IInv, Numbered, NEW st \in Stations, Sample(st)
  PROVE  Numbered'
<1> DEFINE new == [n |-> Sampled + 1, st |-> st]
<1>1. station'.rows = station.rows \cup {new} /\ display' = display
  BY DEF Sample, IInv, Typing
<1>2. Sampled \in Nat /\ IsFiniteSet(station.rows)
  BY SampledTyped DEF IInv
<1>3. new \notin station.rows
  BY <1>2 DEF Numbered
<1> HIDE DEF new
<1>4. Sampled' = Sampled + 1
  BY <1>1, <1>2, <1>3, FS_AddElement DEF Sampled
<1>5. new.n = Sampled + 1
  BY DEF new
<1>6. \A r \in station'.rows : r.n \in 1..Sampled'
  BY <1>1, <1>2, <1>4, <1>5 DEF Numbered
<1>7. QED
  BY <1>1, <1>6 DEF Numbered

\* The stations sample; nothing else changes the rows they hold.
LEMMA RowsStay ==
  ASSUME [Next]_vars, \A st \in Stations : ~Sample(st)
  PROVE  station'.rows = station.rows \/ \E st \in Stations : ReplaceInstance(st)
<1>1. CASE \E st \in Stations : StationSweep(st)
  BY <1>1 DEF StationSweep
<1>2. CASE \/ \E st \in Stations, tested \in BOOLEAN : SelectStation(st, tested)
           \/ \E r \in station.rows, stepped \in BOOLEAN : LiveRow(r, stepped)
           \/ \E k \in 0..QueueCap, persist \in BOOLEAN : Pump(k, persist)
  BY <1>2 DEF SelectStation, LiveRow, Pump
<1>3. CASE \/ WsOpen \/ WsDrop \/ CalibrationChanged
           \/ WatcherPicksUp \/ WatcherSkips \/ SeedRequests \/ SeedSuperseded
           \/ SeedAnswered \/ SeedBuilt \/ SeedFailed \/ SeedRetries \/ SeedReturns
  BY <1>3 DEF WsOpen, WsDrop, CalibrationChanged, WatcherPicksUp, WatcherSkips,
     SeedRequests, SeedSuperseded, SeedAnswered, SeedBuilt, SeedFailed, SeedRetries,
     SeedReturns
<1>4. CASE \/ StartupReady \/ StatusTimeout
           \/ Foreground \/ Reconnect \/ HardReload \/ ClearCurrent \/ ClearAndReseed
           \/ Leave \/ Logout \/ Login \/ Mount \/ Restart
  BY <1>4 DEF StartupReady, StatusTimeout, Foreground, Reconnect, HardReload,
     ClearCurrent, ClearAndReseed, Leave, Logout, Login, Mount, Restart
<1>5. CASE \/ GrantsRefreshed \/ GrantsRebuild \/ AccessLost \/ Unauthorized
           \/ BeginObservation \/ ObservationFails \/ Observe \/ UNCHANGED vars
  BY <1>5 DEF GrantsRefreshed, GrantsRebuild, AccessLost, Unauthorized,
     BeginObservation, ObservationFails, Observe, vars
<1>6. QED
  BY <1>1, <1>2, <1>3, <1>4, <1>5 DEF Next

LEMMA RowsKept ==
  ASSUME IInv, [Next]_vars, \A st \in Stations : ~Sample(st)
  PROVE  station'.rows = station.rows /\ Sampled' = Sampled
<1>1. station'.rows = station.rows
  BY RowsStay DEF ReplaceInstance, IInv, Typing
<1>2. QED
  BY <1>1 DEF Sampled

\* How a step treats the socket: it leaves it up, closes it or delivers a row.
LEMMA LinkStep ==
  ASSUME [Next]_vars
  PROVE  \/ link' = link /\ mounted' = mounted
         \/ ~link'.up
         \/ WsOpen
         \/ \E r \in station.rows, stepped \in BOOLEAN : LiveRow(r, stepped)
<1>1. CASE \E st \in Stations : Sample(st) \/ ReplaceInstance(st) \/ StationSweep(st)
  BY <1>1 DEF Sample, ReplaceInstance, StationSweep, Rendered, MountInner, Down
<1>2. CASE \E st \in Stations, tested \in BOOLEAN : SelectStation(st, tested)
  BY <1>2 DEF SelectStation
<1>3. CASE \E k \in 0..QueueCap, persist \in BOOLEAN : Pump(k, persist)
  BY <1>3 DEF Pump, Rendered, MountInner, Down
<1>4. CASE \/ WsDrop \/ CalibrationChanged
           \/ WatcherPicksUp \/ WatcherSkips \/ SeedRequests \/ SeedSuperseded
           \/ SeedAnswered \/ SeedBuilt \/ SeedFailed \/ SeedRetries \/ SeedReturns
  BY <1>4 DEF WsDrop, CalibrationChanged, WatcherPicksUp, WatcherSkips,
     SeedRequests, SeedSuperseded, SeedAnswered, SeedBuilt, SeedFailed, SeedRetries,
     SeedReturns, Down
<1>5. CASE \/ StartupReady \/ StatusTimeout \/ Foreground \/ Reconnect \/ HardReload
           \/ ClearCurrent \/ ClearAndReseed
  BY <1>5 DEF StartupReady, StatusTimeout, Foreground, Reconnect, HardReload,
     ClearCurrent, ClearAndReseed, Rendered, MountInner, Down
<1>6. CASE Leave \/ Logout \/ Login \/ Mount \/ Restart
  BY <1>6 DEF Leave, Logout, Login, Mount, Restart, Leaves, MountInner, Down
<1>7. CASE \/ GrantsRefreshed \/ GrantsRebuild \/ AccessLost \/ Unauthorized
           \/ BeginObservation \/ ObservationFails \/ Observe \/ UNCHANGED vars
  BY <1>7 DEF GrantsRefreshed, GrantsRebuild, AccessLost, Unauthorized,
     BeginObservation, ObservationFails, Observe, vars, Leaves, MountInner, Down
<1>8. QED
  BY <1>1, <1>2, <1>3, <1>4, <1>5, <1>6, <1>7 DEF Next

-----------------------------------------------------------------------------
(* What was loaded is swapped in *)

\* The numbers of the rows of a station are bounded.
LEMMA RowsBounded ==
  ASSUME IInv, Numbered
  PROVE  /\ Sampled \in Nat
         /\ \A r \in RowsOf(station.rows, here.base) : r \in Row /\ r.n >= 1 /\ r.n =< Sampled
BY SampledTyped DEF Numbered, RowsOf

LEMMA SwapInShows ==
  ASSUME IInv, Numbered, NEW list \in SUBSET RowsOf(station.rows, here.base), SwapIn(list)
  PROVE  /\ \A g \in Row : \/ Represented(g, list) \/ g \in Queued(display)
                           \/ g \in Range(display.buffer)
                           => Represented(g, display'.store)
         /\ display'.store \subseteq list \cup Queued(display) \cup Range(display.buffer)
         /\ display'.queue = display.queue /\ display'.got = display.got
         /\ display'.trimmed = display.trimmed /\ display'.omitted = display.omitted
         /\ display'.live = display.live \cap display'.store
         /\ Range(display'.buffer) = {}
<1> DEFINE R    == RowsOf(station.rows, here.base)
           Q    == Range(display.queue)
           B    == Range(display.buffer)
           m    == Merge(list, Q)
           rows == Merge(m, B)
           d    == [display EXCEPT !.buffer = <<>>]
<1>1. /\ R \in SUBSET Row /\ display \in Held(R)
      /\ \A r \in R : r \in Row /\ r.n =< Sampled
      /\ Sampled \in Nat
  BY RowsOfRow, RowsBounded DEF IInv
<1>2. Q \in SUBSET R /\ B \in SUBSET R
  BY <1>1, RangeOfSeq DEF Held, Fields
<1>3. display' = Persist(ReplaceFromReseed(d, rows), here.base, rows)
  BY DEF SwapIn
<1>4. /\ display'.store = rows /\ display'.live = display.live \cap rows
      /\ display'.queue = display.queue /\ display'.got = display.got
      /\ display'.trimmed = display.trimmed /\ display'.omitted = display.omitted
      /\ display'.buffer = <<>>
  <2> HIDE DEF rows
  <2>1. QED
    BY <1>1, <1>3 DEF Persist, ReplaceFromReseed, Held, Fields
<1> HIDE DEF R, Q, B
<1>5. m \in SUBSET R /\ m \subseteq list \cup Q
  BY <1>2, MergeHeld DEF Merge, Compact, R
<1>6. rows \subseteq m \cup B
  BY DEF Merge, Compact
<1>7. \A g \in Row : Represented(g, list) \/ Represented(g, Q) => Represented(g, m)
  <2>1. \A q \in list \cup Q : q.n =< Sampled
    BY <1>1, <1>2 DEF R
  <2>2. list \in SUBSET Row /\ Q \in SUBSET Row
    BY <1>1, <1>2 DEF R
  <2>3. QED
    BY <1>1, <2>1, <2>2, MergeRepresents
<1>8. \A g \in Row : Represented(g, m) \/ Represented(g, B) => Represented(g, rows)
  <2>1. \A q \in m \cup B : q.n =< Sampled
    BY <1>1, <1>2, <1>5
  <2>2. m \in SUBSET Row /\ B \in SUBSET Row
    BY <1>1, <1>2, <1>5
  <2> HIDE DEF m
  <2>3. QED
    BY <1>1, <2>1, <2>2, MergeRepresents
<1>9. \A g \in Q : Represented(g, Q)
  BY <1>1, <1>2, RepresentsItself
<1>10. \A g \in B : Represented(g, B)
  BY <1>1, <1>2, RepresentsItself
<1>11. Range(<<>>) = {}
  BY DEF Range
<1> HIDE DEF m, rows
<1>12. \A g \in Row : Represented(g, list) \/ g \in Q \/ g \in B => Represented(g, rows)
  BY <1>7, <1>8, <1>9, <1>10
<1>13. QED
  BY <1>4, <1>5, <1>6, <1>11, <1>12 DEF Q, B, Queued

-----------------------------------------------------------------------------
(* What a clear cut off *)

Cutoff == floor.saved[here.base]
Active == seed.pc # "idle" /\ seed.owner = here

\* Nothing that is shown, buffered, built or received was cleared; until the pump has
\* lifted the cutoff after a step back of the clock, what is drawn may be older, and so
\* may rows that were queued.  The floor in memory is that of the disk where rows are
\* tested against it, or none.
CutOff ==
  /\ floor.since = 0 =>
       \A r \in Shown \cup Range(display.buffer) : r.n > Cutoff
  /\ \A g \in display.got :
       g.n > Cutoff \/ (floor.since # 0 /\ g \in Queued(display) \cup display.trimmed)
  /\ floor.since = 0 /\ (link.up \/ Active) => floor.mem >= Cutoff
  /\ Active => floor.mem \in {0, Cutoff}
  /\ Active /\ floor.since = 0 /\ seed.pc = "build" => \A r \in seed.rows : r.n > Cutoff

\* The answer, cut off, is newer than the cutoff; what the cutoff spares of the
\* rows received and drawn is in it.
LEMMA AnswerCut ==
  ASSUME IInv, Numbered, Received(display), CutOff, seed.pc = "recent", SeedCurrent
  PROVE  /\ Answer \in SUBSET RowsOf(station.rows, here.base)
         /\ floor.since = 0 => \A r \in Answer : r.n > Cutoff
         /\ \A g \in seed.rows :
              \/ g.n > Cutoff
              \/ g \in display.got \ display.trimmed
              \/ floor.since = 0 /\ g \in display.store
              => Represented(g, Answer)
<1> DEFINE R == RowsOf(station.rows, here.base)
           S == {r \in seed.rows : Allowed(floor, r)}
           C == Compact(S)
           Q == Range(display.queue)
           m == Merge(C, display.live)
<1>1. /\ R \in SUBSET Row /\ Sampled \in Nat
      /\ \A r \in R : r \in Row /\ r.n >= 1 /\ r.n =< Sampled
  BY RowsOfRow, RowsBounded
<1>2. /\ S \in SUBSET R /\ C \in SUBSET S
  BY SeedRowsHere DEF Compact
<1>3. display.live \in SUBSET R /\ display.store \in SUBSET R /\ Q \in SUBSET R
  BY RangeOfSeq DEF IInv, Held, Fields
<1>4. m \in SUBSET R /\ m \subseteq C \cup display.live
  BY <1>2, <1>3, MergeHeld DEF Merge, Compact
<1>5. Answer = Merge(m, Q)
  BY DEF Answer
<1>6. Active /\ floor.mem \in Nat /\ Cutoff \in Nat
  BY DEF Active, SeedCurrent, Cutoff, IInv, Typing, Floors
<1>7. floor.since = 0 => floor.mem >= Cutoff
  BY <1>6 DEF CutOff
<1>8. floor.mem \in {0, Cutoff}
  BY <1>6 DEF CutOff
<1>9. \A r \in S : floor.mem = 0 \/ r.n > floor.mem
  BY DEF Allowed
<1>10. \A r \in seed.rows : r.n > Cutoff => r \in S
  BY <1>8 DEF Allowed
<1> HIDE DEF S, R
<1>11. Answer \subseteq m \cup Q
  BY <1>5 DEF Merge, Compact
<1>12. \A g \in S : Represented(g, C)
  BY <1>1, <1>2, CompactRepresents
<1> HIDE DEF C
<1>13. \A g \in Row : Represented(g, C) => Represented(g, m)
  <2>1. \A q \in C \cup display.live : q.n =< Sampled
    BY <1>1, <1>2, <1>3
  <2>2. C \in SUBSET Row /\ display.live \in SUBSET Row
    BY <1>1, <1>2, <1>3
  <2>3. QED
    BY <1>1, <2>1, <2>2, MergeRepresents
<1> HIDE DEF m
<1>14. \A g \in Row : Represented(g, m) \/ Represented(g, Q) => Represented(g, Answer)
  <2>1. \A q \in m \cup Q : q.n =< Sampled
    BY <1>1, <1>3, <1>4
  <2>2. m \in SUBSET Row /\ Q \in SUBSET Row
    BY <1>1, <1>3, <1>4
  <2>3. QED
    BY <1>1, <1>5, <2>1, <2>2, MergeRepresents
<1>15. Answer \in SUBSET R
  BY <1>3, <1>4, <1>11
<1>16. floor.since = 0 => \A r \in Answer : r.n > Cutoff
  <2> SUFFICES ASSUME floor.since = 0, NEW r \in Answer
               PROVE  r.n > Cutoff
    OBVIOUS
  <2>1. CASE r \in C
    <3>1. r \in S /\ r \in R
      BY <1>2, <2>1
    <3>2. r.n >= 1 /\ r.n \in Nat
      BY <1>1, <3>1 DEF Row
    <3>3. QED
      BY <1>6, <1>7, <1>8, <1>9, <3>1, <3>2
  <2>2. CASE r \in display.live \cup Q
    BY <2>2 DEF CutOff, Received, Shown
  <2>3. QED
    BY <1>4, <1>11, <2>1, <2>2
<1>17. ASSUME NEW g \in seed.rows,
              \/ g.n > Cutoff
              \/ g \in display.got \ display.trimmed
              \/ floor.since = 0 /\ g \in display.store
       PROVE  Represented(g, Answer)
  <2>1. g \in S \/ g \in Q
    BY <1>10, <1>17 DEF CutOff, Shown, Queued
  <2>2. g \in Row
    BY <1>1, <1>2, <1>3, <2>1
  <2>3. CASE g \in S
    BY <1>12, <1>13, <1>14, <2>2, <2>3
  <2>4. CASE g \in Q
    <3>1. Represented(g, Q)
      BY <1>1, <1>3, <2>4, RepresentsItself
    <3>2. QED
      BY <1>14, <2>2, <3>1
  <2>5. QED
    BY <2>1, <2>3, <2>4
<1>18. QED
  BY <1>15, <1>16, <1>17 DEF R

\* How a step treats the floor in memory: it is made the one saved, or nothing
\* relies on it, or nothing about it changes.
MemStep ==
  \/ floor'.mem = Cutoff'
  \/ ~link'.up /\ ~Active'
  \/ /\ Cutoff' = Cutoff /\ floor'.mem = floor.mem
     /\ link'.up => link.up
     /\ Active' => Active

BuildStep ==
  Active' /\ seed'.pc = "build" => seed' = seed /\ Active /\ Cutoff' = Cutoff

\* A request that was sent for an owner who has moved is active no longer.
LEMMA StillActive ==
  ASSUME IInv, IInv', Captured, Advance, Active', seed.pc # "idle",
         seed'.owner = seed.owner
  PROVE  here' = here /\ Active
<1>1. here \in Owner /\ here' \in Owner /\ seed.owner \in Owner
  BY DEF IInv, Typing, Seeds
<1>2. here' = here
  BY <1>1, MovedOn DEF Active, Captured, Advance
<1>3. QED
  BY <1>2 DEF Active

LEMMA MovedNotActive ==
  ASSUME IInv, IInv', Captured, Advance, here' # here, seed' \in {seed, IdleSeed}
  PROVE  ~Active'
BY StillActive, FreshTyped DEF Active

LEMMA QuietCut ==
  ASSUME IInv, IInv', CutOff, MemStep, BuildStep,
         Less(display, display'), Cutoff' = Cutoff, floor'.since = floor.since
  PROVE  CutOff'
<1>1. Cutoff \in Nat /\ Cutoff' \in Nat /\ floor'.mem \in Nat
  BY DEF Cutoff, IInv, Typing, Floors
<1>2. /\ Queued(display') \subseteq Queued(display) /\ display'.store \subseteq display.store
      /\ Range(display'.buffer) \subseteq Range(display.buffer)
      /\ display'.got \subseteq display.got /\ display'.trimmed = display.trimmed
      /\ display'.got \cap Queued(display) \subseteq Queued(display')
  BY DEF Less
<1>3. floor'.since = 0 => \A r \in Shown' \cup Range(display'.buffer) : r.n > Cutoff'
  BY <1>2 DEF CutOff, Shown, Queued
<1>4. \A g \in display'.got :
        \/ g.n > Cutoff'
        \/ floor'.since # 0 /\ g \in Queued(display') \cup display'.trimmed
  BY <1>2 DEF CutOff
<1>5. floor'.since = 0 /\ (link'.up \/ Active') => floor'.mem >= Cutoff'
  BY <1>1 DEF CutOff, MemStep
<1>6. Active' => floor'.mem \in {0, Cutoff'}
  <2>1. CASE /\ Cutoff' = Cutoff /\ floor'.mem = floor.mem
             /\ Active' => Active
    BY <2>1 DEF CutOff
  <2>2. QED
    BY <2>1 DEF MemStep
<1>7. Active' /\ floor'.since = 0 /\ seed'.pc = "build" => \A r \in seed'.rows : r.n > Cutoff'
  BY DEF CutOff, BuildStep
<1>8. QED
  BY <1>3, <1>4, <1>5, <1>6, <1>7 DEF CutOff

LEMMA EmptyCut ==
  ASSUME IInv, IInv', CutOff, MemStep, BuildStep,
         Empty(display'), floor'.since = floor.since
  PROVE  CutOff'
<1>1. Cutoff' \in Nat /\ floor'.mem \in Nat
  BY DEF Cutoff, IInv, Typing, Floors
<1>2. floor'.since = 0 => \A r \in Shown' \cup Range(display'.buffer) : r.n > Cutoff'
  BY DEF Empty, Shown, Queued
<1>3. \A g \in display'.got :
        \/ g.n > Cutoff'
        \/ floor'.since # 0 /\ g \in Queued(display') \cup display'.trimmed
  BY DEF Empty
<1>4. floor'.since = 0 /\ (link'.up \/ Active') => floor'.mem >= Cutoff'
  BY <1>1 DEF CutOff, MemStep
<1>5. Active' => floor'.mem \in {0, Cutoff'}
  <2>1. CASE /\ Cutoff' = Cutoff /\ floor'.mem = floor.mem
             /\ Active' => Active
    BY <2>1 DEF CutOff
  <2>2. QED
    BY <2>1 DEF MemStep
<1>6. Active' /\ floor'.since = 0 /\ seed'.pc = "build" => \A r \in seed'.rows : r.n > Cutoff'
  BY DEF CutOff, BuildStep
<1>7. QED
  BY <1>2, <1>3, <1>4, <1>5, <1>6 DEF CutOff

\* What is restored from disk has passed the saved floor.
LEMMA MountCut ==
  ASSUME IInv, IInv', Numbered', CutOff,
         NEW o, NEW R \in SUBSET Row, NEW d \in Held(R), NEW f \in Floors, NEW st,
         MountInner(o, d, f, st), f.since = floor.since,
         (Less(display, d) /\ f.saved[o.base] = Cutoff) \/ Empty(d)
  PROVE  CutOff'
<1> DEFINE g == ReseedGuard(d)
           e == RestoreCache(g, o.base, f.saved[o.base])
<1>1. g \in Held(R) /\ Less(d, g)
  BY ReseedGuardHeld, GuardLess
<1>2. /\ display' = e /\ here' = o /\ seed' = IdleSeed /\ link' = Down
      /\ floor'.since = floor.since /\ Cutoff' = f.saved[o.base]
  BY DEF MountInner, Cutoff, Floors
<1> HIDE DEF g
<1>3. /\ e.got = g.got /\ e.trimmed = g.trimmed /\ e.buffer = g.buffer /\ e.queue = g.queue
      /\ \A r \in e.store \ g.store : f.saved[o.base] = 0 \/ r.n > f.saved[o.base]
  BY <1>1, RestoreCacheReceived
<1>4. ~Active' /\ ~link'.up
  BY <1>2, FreshTyped DEF Active, Down
<1> HIDE DEF e
<1>5. \A r \in e.store : r.n >= 1 /\ r.n \in Nat
  <2>1. e.store \in SUBSET RowsOf(station'.rows, here'.base)
    BY <1>2 DEF IInv, Held, Fields
  <2>2. QED
    BY <2>1 DEF Numbered, RowsOf, Row
<1>6. CASE Less(display, d) /\ f.saved[o.base] = Cutoff
  <2>1. Less(display, g) /\ Cutoff' = Cutoff
    BY <1>1, <1>2, <1>6, LessTransitive
  <2>2. /\ Queued(e) \subseteq Queued(display) /\ g.store \subseteq display.store
        /\ Range(e.buffer) \subseteq Range(display.buffer)
        /\ e.got \subseteq display.got /\ e.trimmed = display.trimmed
        /\ e.got \cap Queued(display) \subseteq Queued(e)
    BY <1>3, <2>1 DEF Less, Queued
  <2>3. floor'.since = 0 => \A r \in Shown' \cup Range(display'.buffer) : r.n > Cutoff'
    <3> SUFFICES ASSUME floor.since = 0,
                        NEW r \in e.store \cup Queued(e) \cup Range(e.buffer)
                 PROVE  r.n > Cutoff
      BY <1>2, <2>1 DEF Shown, Queued
    <3>1. CASE r \in g.store \cup Queued(e) \cup Range(e.buffer)
      BY <2>2, <3>1 DEF CutOff, Shown, Queued
    <3>2. CASE r \in e.store \ g.store
      BY <1>2, <1>3, <1>5, <2>1, <3>2
    <3>3. QED
      BY <3>1, <3>2
  <2>4. \A r \in display'.got :
          \/ r.n > Cutoff'
          \/ floor'.since # 0 /\ r \in Queued(display') \cup display'.trimmed
    BY <1>2, <2>1, <2>2 DEF CutOff
  <2>5. QED
    BY <1>4, <2>3, <2>4 DEF CutOff
<1>7. CASE Empty(d)
  <2>1. /\ g.store = {} /\ e.got = {} /\ Queued(e) = {} /\ Range(e.buffer) = {}
    BY <1>1, <1>3, <1>7 DEF Less, Empty, Queued
  <2>2. \A r \in Shown' \cup Range(display'.buffer) : r.n > Cutoff'
    <3> SUFFICES ASSUME NEW r \in e.store
                 PROVE  r.n > f.saved[o.base]
      BY <1>2, <2>1 DEF Shown, Queued
    <3>1. QED
      BY <1>3, <1>5, <2>1
  <2>3. QED
    BY <1>2, <1>4, <2>1, <2>2 DEF CutOff
<1>8. QED
  BY <1>6, <1>7

\* The display is cleared and rendered for an owner who has moved.
LEMMA RenderedCut ==
  ASSUME IInv, IInv', Numbered', Captured, CutOff, Advance,
         NEW o \in Owner, Moves(here, o), here # o,
         NEW R \in SUBSET Row, NEW d \in Held(R), Empty(d),
         NEW f \in Floors, f.since = floor.since,
         NEW st, NEW wake, NEW up, ~up \/ f.mem = f.saved[o.base],
         Rendered(o, d, f, st, wake, up)
  PROVE  CutOff'
<1>1. CASE mounted /\ Remounts
  BY <1>1, MountCut DEF Rendered
<1>2. CASE ~(mounted /\ Remounts)
  <2>1. here' # here /\ here'.base = o.base
    <3>1. here \in Owner /\ here' \in {o, [o EXCEPT !.mount = @ + 1]}
      BY <1>2 DEF Rendered, IInv, Typing
    <3>2. QED
      BY <3>1, MovedAgain
  <2>2. /\ display' = d /\ floor' = f /\ seed' = seed
        /\ link' = IF up THEN link ELSE Down
    BY <1>2 DEF Rendered
  <2>3. ~Active'
    BY <2>1, <2>2, MovedNotActive
  <2>4. Cutoff' = f.saved[o.base]
    BY <2>1, <2>2 DEF Cutoff
  <2>5. MemStep /\ BuildStep
    BY <2>2, <2>3, <2>4 DEF MemStep, BuildStep, Down
  <2>6. QED
    BY <2>2, <2>5, EmptyCut
<1>3. QED
  BY <1>1, <1>2

\* A row that passes the floor is newer than what was cleared; a row that lifts
\* the floor starts a new epoch, whose rows wait in the queue.
LEMMA LiveRowCut ==
  ASSUME IInv, IInv', Numbered, Captured, Advance, Received(display), LinkAhead, CutOff,
         NEW r \in station.rows, NEW stepped \in BOOLEAN, LiveRow(r, stepped)
  PROVE  CutOff'
<1>1. /\ UNCHANGED <<here, seed>> /\ link.up
      /\ floor.saved = floor'.saved
      /\ \/ floor' = floor
         \/ floor'.mem = 0 /\ floor'.since = r.n
  BY DEF LiveRow, IInv, Typing, Floors
<1>2. /\ Cutoff' = Cutoff /\ (Active' <=> Active)
      /\ Cutoff \in Nat /\ r.n \in Nat /\ r.n >= 1 /\ floor.mem \in Nat
  BY <1>1 DEF Cutoff, Active, IInv, Typing, Floors, Numbered
<1>3. floor' = floor \/ floor'.since # 0
  BY <1>1, <1>2
<1>4. floor'.since = 0 /\ Allowed(floor', r) => r.n > Cutoff
  BY <1>1, <1>2, <1>3 DEF Allowed, CutOff
<1>5. CASE Less(display, display')
  <2>1. /\ Queued(display') \subseteq Queued(display) /\ display'.store \subseteq display.store
        /\ Range(display'.buffer) \subseteq Range(display.buffer)
        /\ display'.got \subseteq display.got /\ display'.trimmed = display.trimmed
        /\ display'.got \cap Queued(display) \subseteq Queued(display')
    BY <1>5 DEF Less
  <2>2. floor'.since = 0 => \A q \in Shown' \cup Range(display'.buffer) : q.n > Cutoff'
    BY <1>2, <1>3, <2>1 DEF CutOff, Shown, Queued
  <2>3. \A g \in display'.got :
          \/ g.n > Cutoff'
          \/ floor'.since # 0 /\ g \in Queued(display') \cup display'.trimmed
    BY <1>2, <1>3, <2>1 DEF CutOff
  <2>4. QED
    BY <1>1, <1>2, <1>3, <2>2, <2>3 DEF CutOff
<1>6. CASE Allowed(floor', r) /\ Receives(display, display', r)
  <2>1. /\ Queued(display') \subseteq Queued(display) \cup {r}
        /\ display'.store \subseteq display.store
        /\ Range(display'.buffer) \subseteq Range(display.buffer) \cup {r}
        /\ display'.got \subseteq display.got \cup {r} /\ r \in Queued(display')
        /\ display.trimmed \subseteq display'.trimmed
        /\ display'.got \cap Queued(display) \subseteq Queued(display') \cup display'.trimmed
    BY <1>6 DEF Receives
  <2>2. floor'.since = 0 => \A q \in Shown' \cup Range(display'.buffer) : q.n > Cutoff'
    <3> SUFFICES ASSUME floor'.since = 0,
                        NEW q \in Shown' \cup Range(display'.buffer)
                 PROVE  q.n > Cutoff
      BY <1>2
    <3>1. CASE q = r
      BY <1>4, <1>6, <3>1
    <3>2. CASE q \in Shown \cup Range(display.buffer)
      BY <1>3, <3>2 DEF CutOff
    <3>3. QED
      BY <2>1, <3>1, <3>2 DEF Shown, Queued
  <2>3. \A g \in display'.got :
          \/ g.n > Cutoff'
          \/ floor'.since # 0 /\ g \in Queued(display') \cup display'.trimmed
    <3> SUFFICES ASSUME NEW g \in display'.got, ~(g.n > Cutoff)
                 PROVE  floor'.since # 0 /\ g \in Queued(display') \cup display'.trimmed
      BY <1>2
    <3>1. CASE g = r
      BY <1>4, <1>6, <2>1, <3>1
    <3>2. CASE g # r
      <4>1. g \in display.got
        BY <2>1, <3>2
      <4>2. floor.since # 0 /\ g \in Queued(display) \cup display.trimmed
        BY <4>1 DEF CutOff
      <4>3. QED
        BY <1>3, <2>1, <4>2
    <3>3. QED
      BY <3>1, <3>2
  <2>4. QED
    BY <1>1, <1>2, <1>3, <2>2, <2>3 DEF CutOff
<1>7. QED
  BY <1>5, <1>6, LiveRowReceives

\* Once the clock reset is applied nothing is cut off any more.
LEMMA PumpCut ==
  ASSUME IInv, IInv', Numbered', Captured, Advance, Received(display), CutOff,
         NEW k \in 0..QueueCap, NEW persist \in BOOLEAN, Pump(k, persist)
  PROVE  CutOff'
<1> DEFINE drained == Drain(PumpDisplay, k)
           d == IF persist THEN Persist(drained, here.base, drained.store)
                ELSE drained
<1>1. here \in Owner /\ PumpOwner \in Owner /\ PumpOwner.base = here.base /\ floor \in Floors
  BY PumpTyped DEF IInv, Typing
<1>2. CASE ClockReset
  <2>1. Rendered(PumpOwner, d, PumpFloor, status, FALSE, TRUE)
    BY <1>2 DEF Pump
  <2>2. /\ PumpFloor.saved = [floor.saved EXCEPT ![here.base] = 0]
        /\ PumpFloor.since = 0 /\ here.base \in Stations
    BY <1>1, <1>2 DEF PumpFloor, Floors, IInv, Typing
  <2>3. Moves(here, PumpOwner) /\ here # PumpOwner
    BY <1>1, <1>2, OwnerMovesOn, OwnerChanges DEF PumpOwner
  <2> HIDE DEF d
  <2>4. here' # here /\ here'.base = here.base
    <3>1. here' \in {PumpOwner, [PumpOwner EXCEPT !.mount = @ + 1]}
      BY <2>1 DEF Rendered, MountInner
    <3>2. QED
      BY <1>1, <2>3, <3>1, MovedAgain
  <2>5. seed' \in {seed, IdleSeed}
    BY <2>1 DEF Rendered, MountInner
  <2>6. ~Active'
    BY <2>4, <2>5, MovedNotActive
  <2>7. floor'.saved = PumpFloor.saved /\ floor'.since = 0
    <3>1. PumpFloor \in Floors
      BY PumpTyped
    <3>2. floor' \in {PumpFloor, [PumpFloor EXCEPT !.mem = PumpFloor.saved[PumpOwner.base]]}
      BY <2>1 DEF Rendered, MountInner
    <3>3. QED
      BY <2>2, <3>1, <3>2 DEF Floors
  <2>8. Cutoff' = 0
    BY <1>1, <2>2, <2>4, <2>7 DEF Cutoff, Floors
  <2>9. floor'.mem \in Nat
    BY DEF IInv, Typing, Floors
  <2>10. \A r \in RowsOf(station'.rows, here'.base) : r.n > 0
    BY DEF Numbered, RowsOf, Row
  <2>11. /\ Shown' \cup Range(display'.buffer) \subseteq RowsOf(station'.rows, here'.base)
         /\ display'.got \subseteq RowsOf(station'.rows, here'.base)
    BY RangeOfSeq DEF IInv, Held, Fields, Shown
  <2>12. QED
    BY <2>6, <2>7, <2>8, <2>9, <2>10, <2>11 DEF CutOff
<1>3. CASE ~ClockReset
  <2>1. display' = d /\ UNCHANGED <<here, floor, seed, link>>
    BY <1>3 DEF Pump
  <2>2. Less(display, PumpDisplay) /\ floor.since = 0
    BY <1>3, PumpLess DEF ClockReset
  <2>3. /\ d.store \subseteq PumpDisplay.store \cup Queued(PumpDisplay)
        /\ Queued(d) \subseteq Queued(PumpDisplay)
        /\ d.got = PumpDisplay.got /\ d.buffer = PumpDisplay.buffer
    BY PumpDrains
  <2> HIDE DEF d
  <2>4. /\ Shown' \cup Range(display'.buffer) \subseteq Shown \cup Range(display.buffer)
        /\ display'.got \subseteq display.got
    BY <2>1, <2>2, <2>3 DEF Less, Shown, Queued
  <2>5. Cutoff' = Cutoff /\ (Active' <=> Active)
    BY <2>1 DEF Cutoff, Active
  <2>6. QED
    BY <2>1, <2>2, <2>4, <2>5 DEF CutOff
<1>4. QED
  BY <1>2, <1>3

\* What was loaded passed the floor, so what is swapped in did.
LEMMA SwapCut ==
  ASSUME IInv, Numbered, Received(display), CutOff, NEW list, Swaps(list)
  PROVE  CutOff'
<1>1. /\ UNCHANGED <<here, floor, link>> /\ seed.pc \in {"recent", "build"}
      /\ seed \in Seeds /\ SeedCurrent /\ SwapIn(list)
  BY DEF Swaps, IInv, Typing
<1>2. Active
  BY <1>1 DEF Active, SeedCurrent
<1>3. /\ list \in SUBSET RowsOf(station.rows, here.base)
      /\ floor.since = 0 => \A r \in list : r.n > Cutoff
  <2>1. CASE seed.pc = "recent"
    BY <1>1, <2>1, AnswerCut DEF Swaps
  <2>2. CASE seed.pc = "build"
    BY <1>1, <1>2, <2>2, SeedRowsHere DEF Swaps, CutOff
  <2>3. QED
    BY <1>1, <2>1, <2>2
<1>4. /\ display'.store \subseteq list \cup Queued(display) \cup Range(display.buffer)
      /\ display'.queue = display.queue /\ display'.got = display.got
      /\ display'.trimmed = display.trimmed /\ Range(display'.buffer) = {}
  BY <1>1, <1>3, SwapInShows
<1>5. seed'.pc = "tail" /\ seed'.owner = seed.owner
  BY <1>1 DEF SwapIn, Seeds
<1>6. Cutoff' = Cutoff /\ Active' /\ Active
  BY <1>1, <1>2, <1>5 DEF Cutoff, Active
<1>7. floor'.since = 0 => \A r \in Shown' \cup Range(display'.buffer) : r.n > Cutoff'
  BY <1>1, <1>3, <1>4, <1>6 DEF CutOff, Shown, Queued
<1>8. QED
  BY <1>1, <1>4, <1>5, <1>6, <1>7 DEF CutOff, Queued

\* The steps that leave the floor and the station alone and close the socket or
\* leave it as it is.
LEMMA QuietStepsCut ==
  ASSUME IInv, IInv', Captured, Advance, CutOff, Less(display, display'),
         floor' = floor, here'.base = here.base, link'.up => link.up,
         seed'.pc = "build" => seed' = seed,
         \/ seed' \in {seed, IdleSeed}
         \/ seed.pc # "idle" /\ seed'.owner = seed.owner
  PROVE  CutOff'
<1>1. Cutoff' = Cutoff
  BY DEF Cutoff
<1>2. Active' => Active
  BY StillActive, FreshTyped DEF Active
<1>3. MemStep /\ BuildStep
  BY <1>1, <1>2 DEF MemStep, BuildStep
<1>4. QED
  BY <1>1, <1>3, QuietCut

\* The steps that read the saved floor into memory.
LEMMA FloorReadCut ==
  ASSUME IInv, IInv', CutOff, Less(display, display'), here' = here,
         floor' = [floor EXCEPT !.mem = floor.saved[here.base]],
         seed' = seed \/ seed'.pc # "build"
  PROVE  CutOff'
<1>1. floor'.saved = floor.saved /\ floor'.since = floor.since /\ floor'.mem = Cutoff
  BY DEF Cutoff, IInv, Typing, Floors
<1>2. Cutoff' = Cutoff
  BY <1>1 DEF Cutoff
<1>3. MemStep /\ BuildStep
  BY <1>1, <1>2 DEF MemStep, BuildStep, Active
<1>4. QED
  BY <1>1, <1>2, <1>3, QuietCut

LEMMA EveryStepCut ==
  ASSUME IInv, IInv', Numbered, Numbered', Captured, Received(display), LinkAhead, CutOff,
         [Next]_vars, ~Restart
  PROVE  CutOff'
<1>0. /\ Advance /\ seed \in Seeds /\ here \in Owner /\ here.base \in Stations
      /\ floor \in Floors
  BY EveryStepAdvances DEF IInv, Typing
<1> DEFINE R == RowsOf(station.rows, here.base)
<1>a. R \in SUBSET Row /\ display \in Held(R)
  BY RowsOfRow DEF IInv
<1>b. /\ Empty(ClearAll(display)) /\ ClearAll(display) \in Held(R)
      /\ Less(display, ClearAll(display))
  BY <1>a, ClearAllLess, ClearedHeld
<1> HIDE DEF R
<1>1. CASE \E st \in Stations : Sample(st) \/ ReplaceInstance(st)
  <2>1. Less(display, display') /\ UNCHANGED <<here, floor, seed, link>>
    BY <1>1, LessReflexive DEF Sample, ReplaceInstance
  <2>2. QED
    BY <1>0, <2>1, QuietStepsCut
<1>2. CASE \E st \in Stations : StationSweep(st)
  <2> PICK st \in Stations : StationSweep(st)
    BY <1>2
  <2> DEFINE o == [here EXCEPT !.base = st, !.login = @ + 1, !.clear = @ + 1]
             c == ClearAll(display)
             s == Status("running")
  <2>1. Rendered(o, c, floor, s, TRUE, FALSE) /\ st # here.base
    BY DEF StationSweep
  <2>2. o \in Owner /\ Moves(here, o) /\ here # o
    <3>1. o \in Owner /\ Moves(here, o) /\ o.base = st
      BY <1>0, OwnerMoves, StationMovesOn DEF Owner
    <3> HIDE DEF o
    <3>2. QED
      BY <2>1, <3>1
  <2> HIDE DEF o, s
  <2>3. QED
    BY <1>0, <1>a, <1>b, <2>1, <2>2, RenderedCut
<1>3. CASE \E st \in Stations, tested \in BOOLEAN : SelectStation(st, tested)
  <2> PICK st \in Stations, tested \in BOOLEAN : SelectStation(st, tested)
    BY <1>3
  <2>1. UNCHANGED <<floor, seed, link>> /\ ~mounted
    BY DEF SelectStation
  <2>2. CASE st = here.base
    <3>1. here' = here /\ Less(display, display')
      BY <1>b, <2>2, LessReflexive DEF SelectStation
    <3>2. QED
      BY <1>0, <2>1, <3>1, QuietStepsCut
  <2>3. CASE st # here.base
    <3>1. /\ here' = [here EXCEPT !.base = st, !.login = @ + 1, !.clear = @ + 1]
          /\ display' = ClearAll(display)
      BY <2>3 DEF SelectStation
    <3>2. here' # here
      BY <1>0, <2>3, <3>1 DEF Owner
    <3>3. ~Active' /\ ~link'.up
      BY <1>0, <2>1, <3>2, MovedNotActive DEF LinkAhead
    <3>4. MemStep /\ BuildStep
      BY <3>3 DEF MemStep, BuildStep
    <3>5. QED
      BY <1>b, <2>1, <3>1, <3>4, EmptyCut
  <2>4. QED
    BY <2>2, <2>3
<1>4. CASE \E r \in station.rows, stepped \in BOOLEAN : LiveRow(r, stepped)
  BY <1>0, <1>4, LiveRowCut
<1>5. CASE \E k \in 0..QueueCap, persist \in BOOLEAN : Pump(k, persist)
  BY <1>0, <1>5, PumpCut
<1>6. CASE WsOpen
  <2>1. Less(display, display') /\ UNCHANGED <<here, seed>>
    BY <1>6, LessReflexive DEF WsOpen
  <2>2. floor' = [floor EXCEPT !.mem = floor.saved[here.base]]
    BY <1>6 DEF WsOpen
  <2>3. QED
    BY <2>1, <2>2, FloorReadCut
<1>7. CASE WatcherPicksUp \/ SeedRetries
  <2>1. \E e, n : BeginSeed(e, n) /\ here' = here
    BY <1>7 DEF WatcherPicksUp, SeedRetries
  <2>2. /\ Less(display, display') /\ seed'.pc # "build" /\ here' = here
        /\ floor' = [floor EXCEPT !.mem = floor.saved[here.base]]
    BY <2>1, BeginSeedLess DEF BeginSeed
  <2>3. QED
    BY <2>2, FloorReadCut
<1>8. CASE \/ WsDrop \/ WatcherSkips \/ SeedSuperseded \/ SeedReturns
           \/ StartupReady \/ StatusTimeout \/ Foreground \/ Reconnect \/ HardReload
           \/ BeginObservation \/ ObservationFails \/ Observe \/ UNCHANGED vars
  <2>1. Less(display, display')
    BY <1>8, QuietLess
  <2>2. UNCHANGED <<here, floor>>
    BY <1>8 DEF WsDrop, WatcherSkips, SeedSuperseded, SeedReturns, StartupReady,
       StatusTimeout, Foreground, Reconnect, HardReload, BeginObservation,
       ObservationFails, Observe, vars
  <2>3. link' = link \/ ~link'.up
    BY <1>8 DEF WsDrop, WatcherSkips, SeedSuperseded, SeedReturns, StartupReady,
       StatusTimeout, Foreground, Reconnect, HardReload, BeginObservation,
       ObservationFails, Observe, vars, Down
  <2>4. seed' \in {seed, IdleSeed}
    BY <1>8 DEF WsDrop, WatcherSkips, SeedSuperseded, SeedReturns, StartupReady,
       StatusTimeout, Foreground, Reconnect, HardReload, BeginObservation,
       ObservationFails, Observe, vars, EndSeed
  <2>5. seed'.pc = "build" => seed' = seed
    BY <2>4, FreshTyped
  <2>6. QED
    BY <1>0, <2>1, <2>2, <2>3, <2>4, <2>5, QuietStepsCut
<1>9. CASE SeedRequests \/ SeedFailed
  <2>1. Less(display, display')
    BY <1>9, QuietLess
  <2>2. UNCHANGED <<here, floor, link>> /\ seed.pc # "idle"
    BY <1>9 DEF SeedRequests, SeedFailed
  <2>3. /\ seed' = IdleSeed \/ seed'.owner = seed.owner
        /\ seed'.pc # "build"
    <3>1. \/ seed' = IdleSeed
          \/ \E rows : seed' = [seed EXCEPT !.pc = "recent", !.rows = rows]
          \/ seed' = [seed EXCEPT !.pc = "tail", !.rows = {}]
          \/ seed' = [seed EXCEPT !.pc = "backoff", !.rows = {}]
      BY <1>9 DEF SeedRequests, SeedFailed, EndSeed
    <3>2. QED
      BY <1>0, <3>1, FreshTyped DEF Seeds
  <2>4. QED
    BY <1>0, <2>1, <2>2, <2>3, QuietStepsCut
<1>10. CASE SeedAnswered \/ SeedBuilt
  <2>1. CASE \E list : Swaps(list)
    BY <2>1, SwapCut
  <2>2. CASE \A list : ~Swaps(list)
    <3>1. SeedAnswered /\ Answer # {}
      BY <1>10, <2>2 DEF SeedAnswered, SeedBuilt, Swaps
    <3>2. /\ UNCHANGED <<here, floor, link, display>>
          /\ seed' = [seed EXCEPT !.pc = "build", !.rows = Answer]
          /\ seed.pc = "recent" /\ SeedCurrent
      BY <3>1 DEF SeedAnswered
    <3>3. floor.since = 0 => \A r \in Answer : r.n > Cutoff
      BY <3>2, AnswerCut
    <3>4. /\ Active /\ Cutoff' = Cutoff /\ Shown' = Shown
          /\ seed'.rows = Answer /\ seed'.owner = seed.owner
      BY <1>0, <3>2 DEF Active, SeedCurrent, Cutoff, Shown, Seeds
    <3>5. QED
      BY <3>2, <3>3, <3>4 DEF CutOff
  <2>3. QED
    BY <2>1, <2>2
<1>11. CASE CalibrationChanged \/ Leave \/ Logout \/ Login \/ AccessLost
            \/ GrantsRefreshed \/ Unauthorized
  <2>1. Less(display, display')
    BY <1>11, QuietLess
  <2>2. here'.base = here.base
    BY <1>0, <1>11 DEF CalibrationChanged, Leave, Logout, Login, AccessLost, GrantsRefreshed,
       Unauthorized, Leaves, Owner
  <2>3. /\ floor' = floor /\ seed' \in {seed, IdleSeed}
        /\ link' = link \/ ~link'.up
    BY <1>11 DEF CalibrationChanged, Leave, Logout, Login, AccessLost, GrantsRefreshed,
       Unauthorized, Leaves, Down
  <2>4. seed'.pc = "build" => seed' = seed
    BY <2>3, FreshTyped
  <2>5. QED
    BY <1>0, <2>1, <2>2, <2>3, <2>4, QuietStepsCut
<1>12. CASE ClearCurrent
  <2> DEFINE o == [here EXCEPT !.graph = @ + 1, !.clear = @ + 1]
             f == [floor EXCEPT !.saved[here.base] = Sampled, !.mem = Sampled,
                                !.cut[here.base] = Sampled]
             c == ClearAll(display)
             s == Status("idle")
  <2>1. Rendered(o, c, f, s, FALSE, TRUE)
    BY <1>12 DEF ClearCurrent
  <2>2. o \in Owner /\ Moves(here, o) /\ here # o /\ o.base = here.base
    <3>1. o \in Owner /\ Moves(here, o) /\ here # o
      BY <1>0, OwnerMoves, OwnerMovesOn, OwnerChanges
    <3>2. QED
      BY <1>0, <3>1 DEF Owner
  <2>3. f \in Floors
    BY <1>0, SampledTyped, ClearFloorTyped
  <2>4. /\ f.since = floor.since /\ f.mem = Sampled
        /\ f.saved = [floor.saved EXCEPT ![here.base] = Sampled]
    BY <1>0 DEF Floors
  <2> HIDE DEF o, f, c, s
  <2>5. f.mem = f.saved[o.base]
    BY <1>0, <2>2, <2>4 DEF Floors
  <2>6. QED
    BY <1>0, <1>a, <1>b, <2>1, <2>2, <2>3, <2>4, <2>5, RenderedCut DEF c
<1>13. CASE ClearAndReseed
  <2> DEFINE o == [here EXCEPT !.clear = @ + 1]
             c == ClearAll(display)
             s == Status("running")
  <2>1. Rendered(o, c, floor, s, TRUE, FALSE)
    BY <1>13 DEF ClearAndReseed
  <2>2. o \in Owner /\ Moves(here, o) /\ here # o
    BY <1>0, OwnerMoves, OwnerMovesOn, OwnerChanges
  <2> HIDE DEF o, c, s
  <2>3. QED
    BY <1>0, <1>a, <1>b, <2>1, <2>2, RenderedCut DEF c
<1>14. CASE Mount
  <2> DEFINE o == [here EXCEPT !.mount = @ + 1]
  <2>1. MountInner(o, display, floor, status) /\ o.base = here.base
    BY <1>0, <1>14 DEF Mount, Owner
  <2> HIDE DEF o
  <2>2. QED
    BY <1>0, <1>a, <2>1, LessReflexive, MountCut DEF Cutoff
<1>15. CASE GrantsRebuild
  <2> DEFINE o == [here EXCEPT !.login = @ + 1, !.mount = @ + 1]
  <2>1. MountInner(o, display, floor, status) /\ o.base = here.base
    BY <1>0, <1>15 DEF GrantsRebuild, Owner
  <2> HIDE DEF o
  <2>2. QED
    BY <1>0, <1>a, <2>1, LessReflexive, MountCut DEF Cutoff
<1>16. QED
  BY <1>1, <1>2, <1>3, <1>4, <1>5, <1>6, <1>7, <1>8, <1>9, <1>10, <1>11, <1>12,
     <1>13, <1>14, <1>15 DEF Next

\* The process restarts with nothing shown and no floor but the saved ones.
LEMMA RestartCut ==
  ASSUME IInv, Restart
  PROVE  CutOff'
<1>1. /\ display'.store = {} /\ display'.got = {}
      /\ Range(display'.queue) = {} /\ Range(display'.buffer) = {}
  BY DEF Restart, FreshDisplay, Range
<1>2. ~Active' /\ ~link'.up
  BY FreshTyped DEF Restart, Active, Down
<1>3. QED
  BY <1>1, <1>2 DEF CutOff, Shown

-----------------------------------------------------------------------------
(* What a request under way covers *)

\* Where the row g is kept for the display that is to replace the present one.
Covered(g) ==
  \/ display.dropped > 0 /\ g \in display.omitted
  \/ g \in Range(display.buffer)
  \/ seed.pc = "recent" /\ g \in seed.rows
  \/ seed.pc = "build" /\ Represented(g, seed.rows)

\* The rows that must not be lost when it does: those received, and what is drawn
\* unless a step back of the clock is about to lift the cutoff.
ToCover ==
  (display.got \ display.trimmed) \cup (IF floor.since = 0 THEN display.store ELSE {})

\* Nothing that must not be lost is out of reach of a request that is current.
Coverage ==
  seed.pc \in {"recent", "build"} /\ SeedCurrent => \A g \in ToCover : Covered(g)

LEMMA ToCoverRows ==
  ASSUME IInv
  PROVE  ToCover \subseteq RowsOf(station.rows, here.base)
BY DEF ToCover, IInv, Held, Fields

\* A row is delivered while a request is under way.
LEMMA LiveRowCovers ==
  ASSUME IInv, IInv', Numbered, Captured, Advance, Received(display), LinkAhead, Coverage,
         NEW r \in station.rows, NEW stepped \in BOOLEAN, LiveRow(r, stepped)
  PROVE  Coverage'
<1> SUFFICES ASSUME seed.pc \in {"recent", "build"}, SeedCurrent',
                    NEW g \in ToCover'
             PROVE  Covered(g)'
  BY DEF Coverage, LiveRow
<1>1. seed' = seed
  BY DEF LiveRow
<1>2. SeedCurrent /\ cont.owner = here
  BY <1>1, StillCurrent
<1>3. \A q \in ToCover : Covered(q)
  BY <1>2 DEF Coverage
<1>4. floor'.since = 0 => floor.since = 0
  BY DEF LiveRow, Numbered, IInv, Typing, Floors
<1>5. CASE display' = display
  BY <1>1, <1>3, <1>4, <1>5 DEF ToCover, Covered
<1>6. CASE Receives(display, display', r) /\ Records(display, display', r)
  <2>1. CASE g = r
    BY <1>6, <2>1 DEF Records, Covered
  <2>2. CASE g # r
    <3>1. g \in ToCover
      BY <1>4, <1>6, <2>2 DEF ToCover, Receives, Records
    <3>2. Covered(g)
      BY <1>3, <3>1
    <3>3. QED
      BY <1>1, <1>6, <3>2 DEF Covered, Records
  <2>3. QED
    BY <2>1, <2>2
<1>7. QED
  BY <1>2, <1>5, <1>6, LiveRowReceives DEF InProgress, SyncedDisplay

\* Rows go from the queue to the graphs while a request is under way.
LEMMA PumpCovers ==
  ASSUME IInv, IInv', Captured, Advance, Received(display), Coverage,
         NEW k \in 0..QueueCap, NEW persist \in BOOLEAN, Pump(k, persist)
  PROVE  Coverage'
<1> DEFINE drained == Drain(PumpDisplay, k)
           d == IF persist THEN Persist(drained, here.base, drained.store)
                ELSE drained
<1> SUFFICES ASSUME seed'.pc \in {"recent", "build"}, SeedCurrent',
                    NEW g \in ToCover'
             PROVE  Covered(g)'
  BY DEF Coverage
<1>1. seed' = seed
  BY FreshTyped DEF Pump, Rendered, MountInner
<1>2. here' = here /\ SeedCurrent /\ cont.owner = here
  BY <1>1, StillCurrent, FreshTyped
<1>3. ~ClockReset
  <2> SUFFICES ASSUME ClockReset
               PROVE  FALSE
    OBVIOUS
  <2>1. Rendered(PumpOwner, d, PumpFloor, status, FALSE, TRUE)
    BY DEF Pump
  <2>2. here \in Owner /\ PumpOwner \in Owner
    BY PumpTyped DEF IInv, Typing
  <2>3. Moves(here, PumpOwner) /\ here # PumpOwner
    BY <2>2, OwnerMovesOn, OwnerChanges DEF PumpOwner
  <2> HIDE DEF d
  <2>4. here' \in {PumpOwner, [PumpOwner EXCEPT !.mount = @ + 1]}
    BY <2>1 DEF Rendered, MountInner
  <2>5. QED
    BY <1>2, <2>2, <2>3, <2>4, MovedAgain
<1>4. PumpDisplay = display /\ display' = d /\ floor' = floor
  BY <1>2, <1>3 DEF PumpDisplay, PumpOwner, SyncedDisplay, Pump
<1>5. /\ d.store \subseteq display.store \cup Queued(display)
      /\ d.got = display.got /\ d.buffer = display.buffer /\ d.dropped = display.dropped
      /\ d.trimmed = display.trimmed /\ d.omitted = display.omitted
  BY <1>4, PumpDrains DEF Follows
<1> HIDE DEF d
<1>6. \A q \in Queued(display) : q \in display.got \ display.trimmed
  <2> SUFFICES ASSUME NEW q \in Queued(display), q \in display.trimmed
               PROVE  FALSE
    BY DEF Received
  <2>1. q.n < q.n
    BY DEF Received
  <2>2. q.n \in Nat
    <3>1. display.trimmed \subseteq Row
      BY RowsOfRow DEF IInv, Held, Fields
    <3>2. QED
      BY <3>1 DEF Row
  <2>3. QED
    BY <2>1, <2>2
<1>7. g \in ToCover
  BY <1>4, <1>5, <1>6 DEF ToCover
<1>8. Covered(g)
  BY <1>1, <1>2, <1>7 DEF Coverage
<1>9. QED
  BY <1>1, <1>4, <1>5, <1>8 DEF Covered

\* What of the rows to cover is in the answer, and so in what is built from it.
LEMMA AnswerCovers ==
  ASSUME IInv, Numbered, Received(display), CutOff, Coverage,
         seed.pc = "recent", SeedCurrent, NEW g \in ToCover
  PROVE  \/ display.dropped > 0 /\ g \in display.omitted
         \/ g \in Range(display.buffer)
         \/ Represented(g, Answer)
<1>1. Covered(g)
  BY DEF Coverage
<1>2. \/ g \in display.got \ display.trimmed
      \/ floor.since = 0 /\ g \in display.store
  BY DEF ToCover
<1>3. CASE g \in seed.rows
  BY <1>2, <1>3, AnswerCut
<1>4. QED
  BY <1>1, <1>3 DEF Covered

\* Nothing that had to be kept is lost when what was loaded is swapped in, what
\* the full buffer dropped aside.
LEMMA SwapCovers ==
  ASSUME IInv, Numbered, Received(display), CutOff, Coverage, NEW list, Swaps(list)
  PROVE  /\ list \in SUBSET RowsOf(station.rows, here.base)
         /\ \A g \in ToCover : \/ display.dropped > 0 /\ g \in display.omitted
                               \/ Represented(g, display'.store)
<1>1. /\ seed.pc \in {"recent", "build"} /\ SeedCurrent /\ SwapIn(list)
  BY DEF Swaps
<1>2. list \in SUBSET RowsOf(station.rows, here.base)
  BY <1>1, AnswerCut, SeedRowsHere DEF Swaps
<1>3. ASSUME NEW g \in ToCover
      PROVE  \/ display.dropped > 0 /\ g \in display.omitted
             \/ Represented(g, display'.store)
  <2>1. \/ display.dropped > 0 /\ g \in display.omitted
        \/ g \in Range(display.buffer)
        \/ Represented(g, list)
    <3>1. CASE seed.pc = "recent"
      BY <1>1, <3>1, AnswerCovers DEF Swaps
    <3>2. CASE seed.pc = "build"
      BY <1>1, <3>2 DEF Coverage, Covered, Swaps
    <3>3. QED
      BY <1>1, <3>1, <3>2
  <2>2. g \in Row
    BY ToCoverRows, RowsBounded
  <2>3. QED
    BY <1>1, <1>2, <2>1, <2>2, SwapInShows
<1>4. QED
  BY <1>2, <1>3

\* The history request asks for every row the station holds.
LEMMA RequestCovers ==
  ASSUME IInv, SeedRequests, NEW g \in ToCover
  PROVE  g \in seed'.rows
<1>1. seed'.rows = {r \in station.rows : r.st = here.base}
  BY DEF SeedRequests, IInv, Typing, Seeds
<1>2. QED
  BY <1>1, ToCoverRows DEF RowsOf

LEMMA EveryStepCovers ==
  ASSUME IInv, IInv', Numbered, Captured, Received(display), LinkAhead, CutOff, Coverage,
         [Next]_vars, ~Restart
  PROVE  Coverage'
<1>0. Advance /\ seed \in Seeds
  BY EveryStepAdvances DEF IInv, Typing
<1>1. CASE \E r \in station.rows, stepped \in BOOLEAN : LiveRow(r, stepped)
  BY <1>0, <1>1, LiveRowCovers
<1>2. CASE \E k \in 0..QueueCap, persist \in BOOLEAN : Pump(k, persist)
  BY <1>0, <1>2, PumpCovers
<1>3. CASE SeedRequests
  <2>1. UNCHANGED <<display, floor>> /\ ToCover' = ToCover
    BY <1>3 DEF SeedRequests, ToCover
  <2>2. seed'.pc = "recent"
    BY <1>0, <1>3 DEF SeedRequests, Seeds
  <2>3. QED
    BY <1>3, <2>1, <2>2, RequestCovers DEF Coverage, Covered
<1>4. CASE SeedAnswered \/ SeedBuilt
  <2>1. CASE \E list : Swaps(list)
    <3>1. seed'.pc = "tail"
      BY <1>0, <2>1 DEF Swaps, SwapIn, Seeds
    <3>2. QED
      BY <3>1 DEF Coverage
  <2>2. CASE \A list : ~Swaps(list)
    <3>1. SeedAnswered /\ Answer # {}
      BY <1>4, <2>2 DEF SeedAnswered, SeedBuilt, Swaps
    <3>2. /\ UNCHANGED <<floor, display>> /\ seed.pc = "recent" /\ SeedCurrent
          /\ seed' = [seed EXCEPT !.pc = "build", !.rows = Answer]
      BY <3>1 DEF SeedAnswered
    <3>3. seed'.pc = "build" /\ seed'.rows = Answer /\ ToCover' = ToCover
      BY <1>0, <3>2 DEF Seeds, ToCover
    <3>4. QED
      BY <3>2, <3>3, AnswerCovers DEF Coverage, Covered
  <2>3. QED
    BY <2>1, <2>2
<1>5. CASE seed'.pc \notin {"recent", "build"}
  BY <1>5 DEF Coverage
<1>6. ASSUME seed' = seed, UNCHANGED <<display, floor>> \/ Empty(display')
      PROVE  Coverage'
  <2> SUFFICES ASSUME seed.pc \in {"recent", "build"}, SeedCurrent', NEW g \in ToCover'
               PROVE  Covered(g)'
    BY <1>6 DEF Coverage
  <2>1. SeedCurrent
    BY <1>0, <1>6, StillCurrent
  <2>2. ~Empty(display')
    BY DEF Empty, ToCover
  <2>3. g \in ToCover
    BY <1>6, <2>2 DEF ToCover
  <2>4. Covered(g)
    BY <2>1, <2>3 DEF Coverage
  <2>5. QED
    BY <1>6, <2>2, <2>4 DEF Covered
<1>7. ASSUME seed' = seed, here' # here
      PROVE  Coverage'
  BY <1>0, <1>7, StillCurrent DEF Coverage
<1>8. Empty(ClearAll(display))
  BY ClearAllLess, RowsOfRow DEF IInv
<1>9. CASE \/ \E st \in Stations : Sample(st) \/ ReplaceInstance(st)
           \/ WsDrop \/ WatcherSkips \/ StartupReady \/ StatusTimeout
           \/ Foreground \/ Reconnect \/ ObservationFails \/ UNCHANGED vars
           \/ Login \/ GrantsRefreshed \/ Unauthorized
  <2>1. seed' = seed /\ UNCHANGED <<display, floor>>
    BY <1>9 DEF Sample, ReplaceInstance, WsDrop, WatcherSkips, StartupReady, StatusTimeout,
       Foreground, Reconnect, ObservationFails, vars, Login, GrantsRefreshed, Unauthorized
  <2>2. QED
    BY <1>6, <2>1
<1>10. CASE WsOpen
  <2>1. /\ seed' = seed /\ display' = display
        /\ floor'.since = floor.since
    BY <1>10 DEF WsOpen, IInv, Typing, Floors
  <2> SUFFICES ASSUME seed.pc \in {"recent", "build"}, SeedCurrent', NEW g \in ToCover'
               PROVE  Covered(g)'
    BY <2>1 DEF Coverage
  <2>2. SeedCurrent /\ g \in ToCover
    BY <1>0, <2>1, StillCurrent DEF ToCover
  <2>3. Covered(g)
    BY <2>2 DEF Coverage
  <2>4. QED
    BY <2>1, <2>3 DEF Covered
<1>11. CASE HardReload \/ Observe
  <2>1. seed' = seed /\ floor' = floor /\ display' \in {display, ClearAll(display)}
    BY <1>11 DEF HardReload, Observe
  <2>2. QED
    BY <1>6, <1>8, <2>1
<1>12. CASE \E st \in Stations, tested \in BOOLEAN : SelectStation(st, tested)
  <2>1. seed' = seed /\ floor' = floor /\ display' \in {display, ClearAll(display)}
    BY <1>12 DEF SelectStation
  <2>2. QED
    BY <1>6, <1>8, <2>1
<1>13. CASE CalibrationChanged
  <2>1. seed' = seed /\ here' # here
    BY <1>13, OwnerChanges DEF CalibrationChanged, IInv, Typing
  <2>2. QED
    BY <1>7, <2>1
<1>14. CASE BeginObservation
  <2>1. seed' = seed /\ floor' = floor /\ display' = SyncedDisplay(here, display)
    BY <1>14 DEF BeginObservation
  <2>2. CASE cont.owner = here
    BY <1>6, <2>1, <2>2 DEF SyncedDisplay
  <2>3. CASE cont.owner # here
    <3>1. ~(seed.pc \in {"recent", "build"} /\ SeedCurrent')
      BY <1>0, <2>1, <2>3, StillCurrent
    <3>2. QED
      BY <2>1, <3>1 DEF Coverage
  <2>4. QED
    BY <2>2, <2>3
<1>15. CASE WatcherPicksUp \/ SeedRetries \/ SeedSuperseded \/ SeedReturns \/ SeedFailed
  <2>1. seed'.pc \in {"clock", "idle", "tail", "backoff"}
    <3>1. CASE WatcherPicksUp \/ SeedRetries
      BY <3>1 DEF WatcherPicksUp, SeedRetries, BeginSeed
    <3>2. CASE SeedSuperseded \/ SeedReturns \/ SeedFailed
      <4>1. \/ seed' = IdleSeed
            \/ seed' = [seed EXCEPT !.pc = "tail", !.rows = {}]
            \/ seed' = [seed EXCEPT !.pc = "backoff", !.rows = {}]
        BY <3>2 DEF SeedSuperseded, SeedReturns, SeedFailed, EndSeed
      <4>2. QED
        BY <1>0, <4>1, FreshTyped DEF Seeds
    <3>3. QED
      BY <1>15, <3>1, <3>2
  <2>2. QED
    BY <1>5, <2>1
<1>16. CASE Leave \/ Logout \/ AccessLost \/ Mount \/ GrantsRebuild
  <2>1. seed' = IdleSeed
    BY <1>16 DEF Leave, Logout, AccessLost, Mount, GrantsRebuild, Leaves, MountInner
  <2>2. QED
    BY <1>5, <2>1, FreshTyped
<1>17. ASSUME NEW o \in Owner, Moves(here, o), here # o, NEW d, NEW f, NEW st, NEW wake, NEW up,
              Rendered(o, d, f, st, wake, up)
       PROVE  Coverage'
  <2>1. here \in Owner
    BY DEF IInv, Typing
  <2>2. here' # here
    BY <1>17, <2>1, RenderedAdvances
  <2>3. seed' \in {seed, IdleSeed}
    BY <1>17 DEF Rendered, MountInner
  <2>4. QED
    BY <1>5, <1>7, <2>2, <2>3, FreshTyped
<1>18. CASE \E st \in Stations : StationSweep(st)
  <2> PICK st \in Stations : StationSweep(st)
    BY <1>18
  <2> DEFINE o == [here EXCEPT !.base = st, !.login = @ + 1, !.clear = @ + 1]
             c == ClearAll(display)
             s == Status("running")
  <2>1. Rendered(o, c, floor, s, TRUE, FALSE) /\ st # here.base
    BY DEF StationSweep
  <2>2. o \in Owner /\ Moves(here, o) /\ here # o
    <3>1. o \in Owner /\ Moves(here, o) /\ o.base = st
      BY OwnerMoves, StationMovesOn DEF IInv, Typing, Owner
    <3> HIDE DEF o
    <3>2. QED
      BY <2>1, <3>1
  <2> HIDE DEF o, c, s
  <2>3. QED
    BY <1>17, <2>1, <2>2
<1>19. CASE ClearCurrent
  <2> DEFINE o == [here EXCEPT !.graph = @ + 1, !.clear = @ + 1]
             f == [floor EXCEPT !.saved[here.base] = Sampled, !.mem = Sampled,
                                !.cut[here.base] = Sampled]
             c == ClearAll(display)
             s == Status("idle")
  <2>1. Rendered(o, c, f, s, FALSE, TRUE)
    BY <1>19 DEF ClearCurrent
  <2>2. o \in Owner /\ Moves(here, o) /\ here # o
    BY OwnerMoves, OwnerMovesOn, OwnerChanges DEF IInv, Typing
  <2> HIDE DEF o, f, c, s
  <2>3. QED
    BY <1>17, <2>1, <2>2
<1>20. CASE ClearAndReseed
  <2> DEFINE o == [here EXCEPT !.clear = @ + 1]
             c == ClearAll(display)
             s == Status("running")
  <2>1. Rendered(o, c, floor, s, TRUE, FALSE)
    BY <1>20 DEF ClearAndReseed
  <2>2. o \in Owner /\ Moves(here, o) /\ here # o
    BY OwnerMoves, OwnerMovesOn, OwnerChanges DEF IInv, Typing
  <2> HIDE DEF o, c, s
  <2>3. QED
    BY <1>17, <2>1, <2>2
<1>21. QED
  BY <1>1, <1>2, <1>3, <1>4, <1>9, <1>10, <1>11, <1>12, <1>13, <1>14, <1>15, <1>16,
     <1>18, <1>19, <1>20 DEF Next

-----------------------------------------------------------------------------
(* The invariant *)

\* Beside the types and the isolation of stations (IInv).
HInv ==
  /\ RequestHasWakeUp
  /\ Captured
  /\ Numbered
  /\ LinkAhead
  /\ Received(display)
  /\ NoneLost
  /\ CutOff
  /\ Coverage

LEMMA InitHInv ==
  ASSUME Init
  PROVE  HInv
<1>1. /\ display.store = {} /\ display.got = {} /\ display.live = {} /\ display.trimmed = {}
      /\ display.queue = <<>> /\ display.buffer = <<>>
  BY DEF Init, FreshDisplay
<1>2. Queued(display) = {} /\ Range(display.buffer) = {} /\ InOrder(display.queue)
  BY <1>1 DEF Queued, Range, InOrder
<1>3. seed = IdleSeed /\ ~link.up /\ obs = NoObservation /\ ~mounted /\ station.rows = {}
  BY DEF Init, Down
<1>4. Captured
  BY <1>3, FreshTyped DEF Init, Captured, NoAuthority, NoOwner
<1>5. CutOff
  BY <1>1, <1>2, <1>3, FreshTyped DEF CutOff, Shown, Queued, Active
<1>6. Coverage
  BY <1>3, FreshTyped DEF Coverage
<1>7. Received(display) /\ NoneLost
  BY <1>1, <1>2 DEF Received, NoneLost, Kept
<1>8. QED
  BY <1>1, <1>3, <1>4, <1>5, <1>6, <1>7 DEF HInv, RequestHasWakeUp, Numbered, LinkAhead

\* A restarted process has received nothing yet.
LEMMA RestartHInv ==
  ASSUME IInv, IInv', Numbered, Restart
  PROVE  HInv'
<1>1. /\ display'.store = {} /\ display'.got = {} /\ display'.live = {}
      /\ display'.trimmed = {} /\ display'.queue = <<>> /\ display'.buffer = <<>>
  BY DEF Restart, FreshDisplay
<1>2. Queued(display') = {} /\ Range(display'.buffer) = {} /\ InOrder(display'.queue)
  BY <1>1 DEF Queued, Range, InOrder
<1>3. seed' = IdleSeed /\ ~link'.up /\ ~mounted' /\ station' = station
  BY DEF Restart, Down
<1>4. Coverage'
  BY <1>3, FreshTyped DEF Coverage
<1>5. Received(display') /\ NoneLost'
  BY <1>1, <1>2 DEF Received, NoneLost, Kept
<1>6. Numbered'
  BY <1>1, <1>3 DEF Numbered, Sampled
<1>7. QED
  BY <1>3, <1>4, <1>5, <1>6, RestartCaptured, RestartCut DEF HInv, RequestHasWakeUp, LinkAhead

\* What the display knows of the rows received survives every other step.
LEMMA ReceivedStays ==
  ASSUME IInv, IInv', HInv, [Next]_vars, ~Restart
  PROVE  /\ Received(display')
         /\ NoneLost'
         /\ \/ display'.got \subseteq display.got /\ display'.trimmed = display.trimmed
            \/ \E r \in station.rows, stepped \in BOOLEAN :
                 LiveRow(r, stepped) /\ Receives(display, display', r)
<1>1. CASE DisplayStep
  <2>1. /\ Received(display') /\ \A X : Kept(display, X) => Kept(display', X)
        /\ display'.got \subseteq display.got
        /\ display'.trimmed = display.trimmed /\ display'.omitted = display.omitted
    BY <1>1 DEF DisplayStep, Follows, HInv
  <2>2. NoneLost'
    BY <1>1, <2>1 DEF DisplayStep, NoneLost, HInv
  <2>3. QED
    BY <2>1, <2>2
<1>2. CASE \E r \in station.rows, stepped \in BOOLEAN : LiveRow(r, stepped)
  <2> PICK r \in station.rows, stepped \in BOOLEAN : LiveRow(r, stepped)
    BY <1>2
  <2>1. status' = status
    BY DEF LiveRow
  <2>2. CASE Less(display, display')
    <3>1. DisplayStep
      BY <2>1, <2>2, LessFollows DEF DisplayStep
    <3>2. QED
      BY <1>1, <3>1
  <2>3. CASE Receives(display, display', r)
    <3>1. Received(display') /\ \A X : Kept(display, X) => Kept(display', X)
      BY <2>3 DEF Receives
    <3>2. display.omitted \subseteq display'.omitted
      BY <2>3 DEF Receives
    <3>3. Kept(display', display'.omitted)
      <4>1. Kept(display', display.omitted)
        BY <3>1 DEF HInv, NoneLost
      <4>2. QED
        BY <3>2, <4>1 DEF Kept
    <3>4. NoneLost'
      BY <2>1, <3>1, <3>3 DEF HInv, NoneLost
    <3>5. QED
      BY <2>3, <3>1, <3>4
  <2>4. QED
    BY <2>2, <2>3, LiveRowReceives DEF HInv
<1>3. CASE \E list : Swaps(list)
  <2> PICK list : Swaps(list)
    BY <1>3
  <2>1. /\ list \in SUBSET RowsOf(station.rows, here.base)
        /\ \A g \in ToCover : \/ display.dropped > 0 /\ g \in display.omitted
                              \/ Represented(g, display'.store)
    BY SwapCovers DEF HInv
  <2>2. /\ display'.queue = display.queue /\ display'.got = display.got
        /\ display'.trimmed = display.trimmed /\ display'.omitted = display.omitted
        /\ display'.live = display.live \cap display'.store
    BY <2>1, SwapInShows DEF Swaps, HInv
  <2>3. status'.reported = display.dropped /\ display.dropped \in Nat
    <3>1. display.dropped \in Nat
      BY DEF IInv, Held, Fields
    <3>2. status' = [state |-> "ok", reported |-> [display EXCEPT !.buffer = <<>>].dropped]
      BY DEF Swaps, SwapIn
    <3>3. [display EXCEPT !.buffer = <<>>].dropped = display.dropped
      BY DEF IInv, Held, Fields
    <3>4. QED
      BY <3>1, <3>2, <3>3
  <2>4. Received(display')
    BY <2>2 DEF HInv, Received, Queued
  <2>5. Kept(display', display'.omitted)
    BY <2>1, <2>2 DEF Kept, ToCover
  <2>6. status'.reported = 0 => Kept(display', {})
    BY <2>1, <2>2, <2>3 DEF Kept, ToCover
  <2>7. QED
    BY <2>2, <2>4, <2>5, <2>6 DEF NoneLost
<1>4. QED
  BY <1>1, <1>2, <1>3, EveryStepFollows DEF HInv

LEMMA NumberedStays ==
  ASSUME IInv, IInv', HInv, [Next]_vars, ~Restart
  PROVE  Numbered'
<1>1. CASE \E st \in Stations : Sample(st)
  BY <1>1, SampleNumbered DEF HInv
<1>2. CASE \A st \in Stations : ~Sample(st)
  <2>1. station'.rows = station.rows /\ Sampled' = Sampled
    BY <1>2, RowsKept
  <2>2. display.got \subseteq station.rows
    BY DEF IInv, Held, Fields, RowsOf
  <2>3. display'.trimmed \subseteq station.rows
    BY <2>2, ReceivedStays DEF HInv, Numbered, Receives
  <2>4. QED
    BY <2>1, <2>3 DEF HInv, Numbered
<1>3. QED
  BY <1>1, <1>2

LEMMA LinkAheadStays ==
  ASSUME IInv, IInv', HInv, [Next]_vars, ~Restart
  PROVE  LinkAhead'
<1>1. /\ display.got \subseteq station.rows /\ display.trimmed \subseteq station.rows
      /\ Sampled \in Nat
  BY SampledTyped DEF IInv, Held, Fields, RowsOf, HInv, Numbered
<1>2. CASE WsOpen
  <2>1. link'.next = Sampled + 1 /\ mounted' /\ display' = display
    BY <1>2 DEF WsOpen
  <2>2. QED
    BY <1>1, <2>1 DEF HInv, Numbered, LinkAhead
<1>3. CASE \E r \in station.rows, stepped \in BOOLEAN : LiveRow(r, stepped)
  <2> PICK r \in station.rows, stepped \in BOOLEAN : LiveRow(r, stepped)
    BY <1>3
  <2>1. link'.next = r.n + 1 /\ link.up /\ mounted' = mounted /\ Arriving(r)
    BY DEF LiveRow, IInv, Typing, Links
  <2>2. \A g \in display.got \cup display.trimmed \cup {r} : g.n \in Nat
    BY <1>1 DEF HInv, Numbered
  <2>3. \A g \in display.got \cup display.trimmed : g.n < r.n
    BY <2>1, ArrivingIsNew DEF HInv
  <2>4. display'.got \cup display'.trimmed \subseteq display.got \cup display.trimmed \cup {r}
    <3>1. Less(display, display') \/ Receives(display, display', r)
      BY LiveRowReceives DEF HInv
    <3>2. QED
      BY <3>1 DEF Less, Receives
  <2>5. QED
    BY <2>1, <2>2, <2>3, <2>4 DEF HInv, LinkAhead
<1>4. CASE /\ link' = link /\ mounted' = mounted
           /\ \A r \in station.rows, stepped \in BOOLEAN : ~LiveRow(r, stepped)
  <2>1. display'.got \subseteq display.got /\ display'.trimmed = display.trimmed
    BY <1>4, ReceivedStays
  <2>2. QED
    BY <1>4, <2>1 DEF HInv, LinkAhead
<1>5. CASE ~link'.up
  BY <1>5 DEF LinkAhead
<1>6. QED
  BY <1>2, <1>3, <1>4, <1>5, LinkStep

LEMMA NextHInv ==
  ASSUME IInv, IInv', HInv, [Next]_vars
  PROVE  HInv'
<1>1. CASE Restart
  BY <1>1, RestartHInv DEF HInv
<1>2. CASE ~Restart
  <2>1. RequestHasWakeUp'
    BY EveryStepWakes DEF HInv, RequestHasWakeUp, WakeStep
  <2>2. Captured'
    BY <1>2, EveryStepAdvances, AdvanceCaptured DEF HInv
  <2>3. Numbered' /\ LinkAhead' /\ Received(display)' /\ NoneLost'
    BY <1>2, NumberedStays, LinkAheadStays, ReceivedStays
  <2>4. CutOff'
    BY <1>2, <2>3, EveryStepCut DEF HInv
  <2>5. Coverage'
    BY <1>2, EveryStepCovers DEF HInv
  <2>6. QED
    BY <2>1, <2>2, <2>3, <2>4, <2>5 DEF HInv
<1>3. QED
  BY <1>1, <1>2

-----------------------------------------------------------------------------
(* The theorems *)

\* The invariant of the history requests holds in every reachable state.
THEOREM HistoryInvariance == Spec => [](IInv /\ HInv)
<1>1. Init => IInv /\ HInv
  BY InitIInv, InitHInv
<1>2. IInv /\ HInv /\ [Next]_vars => (IInv /\ HInv)'
  BY NextIInv, NextHInv
<1>3. QED
  BY <1>1, <1>2, PTL DEF Spec

\* BumpSeed and the notifications of the watcher: no requested reseed is left
\* without the wake-up that has the watcher look at it.
THEOREM NoWakeUpLost == Spec => []RequestHasWakeUp
<1>1. HInv => RequestHasWakeUp
  BY DEF HInv
<1>2. QED
  BY <1>1, HistoryInvariance, PTL

\* "Restored offline/database rows never gain provenance": a stored row marked
\* live arrived on the socket, however clears, mounts and reseeds interleave.
THEOREM LiveRowsArrived == Spec => []LiveMeansReceived
<1>1. HInv => LiveMeansReceived
  BY DEF HInv, Received, LiveMeansReceived
<1>2. QED
  BY <1>1, HistoryInvariance, PTL

\* A row that is queued or represented in the store is represented in what is shown.
LEMMA KeptIsShown ==
  ASSUME IInv, NEW X, Kept(display, X), NEW g \in display.got \ (display.trimmed \cup X)
  PROVE  Represented(g, Shown)
<1>1. g.n >= g.n
  BY RowsOfRow DEF IInv, Held, Fields, Row
<1>2. QED
  BY <1>1 DEF Kept, Represented, Shown, Queued

\* A row accepted by handle_ws_message is shown, or queued to be, through every
\* seed_from_db that overlaps it, unless a full queue or buffer pushed it out.
THEOREM ReceivedRowsKept == Spec => []NoLiveRowLost
<1>1. IInv /\ HInv => NoLiveRowLost
  BY KeptIsShown DEF HInv, NoneLost, NoLiveRowLost
<1>2. QED
  BY <1>1, HistoryInvariance, PTL

\* What "Past data loaded." says is true: without a count of omitted rows, every
\* row received is shown.
THEOREM LoadedIsComplete == Spec => []LoadedMeansComplete
<1>1. IInv /\ HInv => LoadedMeansComplete
  <2> SUFFICES ASSUME IInv, HInv, status.state = "ok" /\ status.reported = 0,
                      NEW r \in display.got \ display.trimmed
               PROVE  Represented(r, Shown)
    BY DEF LoadedMeansComplete
  <2>1. Kept(display, {})
    BY DEF HInv, NoneLost
  <2>2. QED
    BY <2>1, KeptIsShown
<1>2. QED
  BY <1>1, HistoryInvariance, PTL

\* observe and accept: the identity on which the display relies is that of the
\* station it shows.
THEOREM AuthorityIsOwners == Spec => []AuthorityOfOwner
<1>1. HInv => AuthorityOfOwner
  BY DEF HInv, Captured, AuthorityOfOwner
<1>2. QED
  BY <1>1, HistoryInvariance, PTL

\* "Clear Current Data" lasts: no row it excluded comes back from a request, a
\* buffer or the disk.
THEOREM ClearsLast == Spec => []ClearedStaysCleared
<1>1. IInv /\ HInv => ClearedStaysCleared
  <2> SUFFICES ASSUME IInv, HInv, floor.since = 0, NEW r \in Shown \cup Range(display.buffer)
               PROVE  floor.saved[here.base] < r.n
    BY DEF ClearedStaysCleared
  <2>1. r.n > Cutoff
    BY DEF HInv, CutOff
  <2>2. QED
    BY <2>1 DEF Cutoff
<1>2. QED
  BY <1>1, HistoryInvariance, PTL

\* While one owner lasts, a step of a history request leaves what is drawn in the
\* store, but for what the full buffer pushed out.
LEMMA RequestKeepsStore ==
  ASSUME IInv, IInv', HInv, [Next]_vars,
         seed' # seed, here' = here, cont' = cont, floor.since = 0
  PROVE  \/ display'.store = display.store
         \/ \A r \in display.store \ display.omitted : Represented(r, display'.store)
<1>0. /\ here \in Owner /\ here.base \in Stations /\ cont \in Conts
      /\ cont.revision \in Nat /\ display \in Fields(RowsOf(station.rows, here.base))
  BY DEF IInv, Typing, Held, Conts
<1>1. CASE WatcherPicksUp \/ SeedRetries
  <2>1. PICK e, a : BeginSeed(e, a)
    BY <1>1 DEF WatcherPicksUp, SeedRetries
  <2>2. cont.owner = here
    BY <2>1, SyncedContOwner DEF BeginSeed, HInv
  <2>3. display' = ResetBuffer(display)
    BY <2>1, <2>2 DEF BeginSeed, SyncedDisplay
  <2>4. QED
    BY <1>0, <2>3 DEF ResetBuffer, Fields
<1>2. CASE SeedSuperseded \/ SeedReturns \/ SeedFailed
  <2>1. display' \in {display, ResetBuffer(display)}
    BY <1>2 DEF SeedSuperseded, SeedReturns, SeedFailed, EndSeed
  <2>2. QED
    BY <1>0, <2>1 DEF ResetBuffer, Fields
<1>3. CASE SeedRequests
  BY <1>3 DEF SeedRequests
<1>4. CASE SeedAnswered \/ SeedBuilt
  <2>1. CASE \E list : Swaps(list)
    <3>1. PICK list : Swaps(list)
      BY <2>1
    <3>2. \A g \in ToCover : \/ display.dropped > 0 /\ g \in display.omitted
                             \/ Represented(g, display'.store)
      BY <3>1, SwapCovers DEF HInv
    <3>3. QED
      BY <3>2 DEF ToCover
  <2>2. CASE \A list : ~Swaps(list)
    BY <1>4, <2>2 DEF SeedAnswered, SeedBuilt, Swaps
  <2>3. QED
    BY <2>1, <2>2
<1>5. CASE Leave \/ Logout \/ AccessLost \/ Mount \/ GrantsRebuild
  <2>1. here' \in {[here EXCEPT !.mount = @ + 1], [here EXCEPT !.login = @ + 1],
                   [here EXCEPT !.login = @ + 1, !.mount = @ + 1]}
    BY <1>5 DEF Leave, Logout, AccessLost, Mount, GrantsRebuild, Leaves, MountInner
  <2>2. /\ here.mount + 1 # here.mount /\ here.login + 1 # here.login
        /\ [here EXCEPT !.mount = @ + 1].mount = here.mount + 1
        /\ [here EXCEPT !.login = @ + 1].login = here.login + 1
        /\ [here EXCEPT !.login = @ + 1, !.mount = @ + 1].mount = here.mount + 1
    BY <1>0 DEF Owner
  <2>3. QED
    BY <2>1, <2>2
<1>6. CASE Restart
  <2>1. cont'.revision = 0 /\ seed' = IdleSeed
    BY <1>6 DEF Restart
  <2>2. seed.pc = "idle"
    BY <2>1 DEF HInv, Captured
  <2>3. QED
    BY <2>1, <2>2 DEF HInv, Captured
<1>7. ASSUME NEW o \in Owner, Moves(here, o), here # o, NEW d, NEW f, NEW st, NEW wake, NEW up,
             Rendered(o, d, f, st, wake, up)
      PROVE  FALSE
  BY <1>7, RenderedAdvances
<1>8. CASE \E st \in Stations : StationSweep(st)
  <2> PICK st \in Stations : StationSweep(st)
    BY <1>8
  <2> DEFINE o == [here EXCEPT !.base = st, !.login = @ + 1, !.clear = @ + 1]
             c == ClearAll(display)
             s == Status("running")
  <2>1. Rendered(o, c, floor, s, TRUE, FALSE) /\ st # here.base
    BY DEF StationSweep
  <2>2. o \in Owner /\ Moves(here, o) /\ here # o
    <3>1. o \in Owner /\ Moves(here, o) /\ o.base = st
      BY <1>0, OwnerMoves, StationMovesOn DEF Owner
    <3> HIDE DEF o
    <3>2. QED
      BY <2>1, <3>1
  <2> HIDE DEF o, c, s
  <2>3. QED
    BY <1>7, <2>1, <2>2
<1>9. CASE ClearCurrent
  <2> DEFINE o == [here EXCEPT !.graph = @ + 1, !.clear = @ + 1]
             f == [floor EXCEPT !.saved[here.base] = Sampled, !.mem = Sampled,
                                !.cut[here.base] = Sampled]
             c == ClearAll(display)
             s == Status("idle")
  <2>1. Rendered(o, c, f, s, FALSE, TRUE)
    BY <1>9 DEF ClearCurrent
  <2>2. o \in Owner /\ Moves(here, o) /\ here # o
    BY <1>0, OwnerMoves, OwnerMovesOn, OwnerChanges
  <2> HIDE DEF o, f, c, s
  <2>3. QED
    BY <1>7, <2>1, <2>2
<1>10. CASE ClearAndReseed
  <2> DEFINE o == [here EXCEPT !.clear = @ + 1]
             c == ClearAll(display)
             s == Status("running")
  <2>1. Rendered(o, c, floor, s, TRUE, FALSE)
    BY <1>10 DEF ClearAndReseed
  <2>2. o \in Owner /\ Moves(here, o) /\ here # o
    BY <1>0, OwnerMoves, OwnerMovesOn, OwnerChanges
  <2> HIDE DEF o, c, s
  <2>3. QED
    BY <1>7, <2>1, <2>2
<1>11. CASE \E k \in 0..QueueCap, persist \in BOOLEAN : Pump(k, persist)
  <2> PICK k \in 0..QueueCap, persist \in BOOLEAN : Pump(k, persist)
    BY <1>11
  <2>1. seed' = seed
    BY DEF Pump, ClockReset
  <2>2. QED
    BY <2>1
<1>12. CASE \/ \E st \in Stations : Sample(st) \/ ReplaceInstance(st)
            \/ \E st \in Stations, tested \in BOOLEAN : SelectStation(st, tested)
            \/ \E r \in station.rows, stepped \in BOOLEAN : LiveRow(r, stepped)
            \/ WsOpen \/ WsDrop \/ CalibrationChanged \/ WatcherSkips \/ StartupReady
            \/ StatusTimeout \/ Foreground \/ Reconnect \/ HardReload \/ Login
            \/ GrantsRefreshed \/ Unauthorized \/ BeginObservation \/ ObservationFails
            \/ Observe \/ UNCHANGED vars
  <2>1. seed' = seed
    BY <1>12
    DEF Sample, ReplaceInstance, SelectStation, LiveRow, WsOpen, WsDrop, CalibrationChanged,
        WatcherSkips, StartupReady, StatusTimeout, Foreground, Reconnect, HardReload, Login,
        GrantsRefreshed, Unauthorized, BeginObservation, ObservationFails, Observe, vars
  <2>2. QED
    BY <2>1
<1>13. QED
  BY <1>1, <1>2, <1>3, <1>4, <1>5, <1>6, <1>8, <1>9, <1>10, <1>11, <1>12 DEF Next

\* seed_from_db never takes history off the graphs: whether a request succeeds,
\* fails, is retried or is superseded, what was drawn stays.
THEOREM ReseedsKeepHistory == Spec => ReseedKeepsHistory
<1> DEFINE Keeps == seed' # seed /\ here' = here /\ cont' = cont /\ floor.since = 0
                      => \A r \in display.store \ display.omitted :
                           Represented(r, display'.store)
<1>1. IInv /\ HInv /\ (IInv /\ HInv)' /\ [Next]_vars => Keeps
  <2> SUFFICES ASSUME IInv, HInv, IInv', [Next]_vars,
                      seed' # seed, here' = here, cont' = cont, floor.since = 0,
                      NEW r \in display.store \ display.omitted
               PROVE  Represented(r, display'.store)
    OBVIOUS
  <2>1. r.n >= r.n
    BY RowsOfRow DEF IInv, Held, Fields, Row
  <2>2. Represented(r, display.store)
    BY <2>1 DEF Represented
  <2>3. QED
    BY <2>2, RequestKeepsStore
<1>2. IInv /\ HInv /\ (IInv /\ HInv)' /\ [Next]_vars => [Keeps]_vars
  BY <1>1
<1>3. [][Keeps]_vars => ReseedKeepsHistory
  BY PTL DEF ReseedKeepsHistory
<1> HIDE DEF Keeps
<1>4. QED
  BY <1>2, <1>3, HistoryInvariance, PTL DEF Spec

-----------------------------------------------------------------------------
(***************************************************************************)
(* A settled display is whole.                                             *)
(*                                                                         *)
(* HistoryIsWhole is about displays that are at rest, the invariant about  *)
(* those on the way there.  As long as a reseed is awaited nothing is      *)
(* owed, for the request that is to come asks for everything; and the      *)
(* watcher, when it picks the request up, is what ends the wait.  From     *)
(* then on each row that is due is somewhere it will be drawn from         *)
(* (Promised), or the screen says that loading failed.  What takes that    *)
(* promise away, a new owner, another backend or a cleared display, also   *)
(* requests a reseed or excludes the rows it drops; two steps do neither,  *)
(* and the theorems suppose that they are not taken.                       *)
(***************************************************************************)

\* The wall clock does not step back between two rows received.
ClockRunsOn == \A r \in station.rows : ~LiveRow(r, TRUE)

\* No session check refreshes the grants in place and no clock steps back: both end
\* what the request under way is for, and request no other.
Undisturbed == ~GrantsRefreshed /\ ClockRunsOn

\* A reseed is requested, or startup or a connection that requests one is to come.
Awaited == ~mounted \/ ~watch.ready \/ ~link.up \/ watch.handled # epoch

\* A request is under way and still current.
Loading == seed.pc \in {"clock", "recent", "build"} /\ SeedCurrent

Missing == Due \ (display.trimmed \cup display.omitted)

Promised(r) ==
  \/ Loading /\ seed.pc = "clock"
  \/ Loading /\ r \in Range(display.buffer)
  \/ Loading /\ seed.pc = "recent" /\ r \in seed.rows
  \/ Loading /\ seed.pc = "build" /\ InBucket(r, seed.rows)
  \/ ~Loading /\ (Lodged(display, r) \/ status.state = "failed")

\* Only a clear is without an owner that has been told to the display, and then
\* nothing is due yet.
Whole ==
  /\ floor.mem = Cutoff
  /\ cont.owner = here \/ Due = {}
  /\ \A r \in Missing : Promised(r)
  /\ status.state = "running" => Loading \/ seed.pc = "backoff"

WInv ==
  /\ floor.since = 0
  /\ watch.handled =< epoch
  /\ link.up => link.next =< Sampled + 1
  /\ ~Awaited => Whole

LEMMA LoadingOwner ==
  ASSUME HInv, Loading
  PROVE  cont.owner = here
BY DEF HInv, Captured, Loading, SeedCurrent

LEMMA DueStays ==
  ASSUME station'.rows = station.rows, here' = here, link'.next = link.next,
         floor'.saved = floor.saved
  PROVE  Due' = Due /\ Cutoff' = Cutoff
BY DEF Due, Cutoff

\* Nothing the promises rest on changes.
LEMMA QuietWhole ==
  ASSUME Whole, Due' = Due, Cutoff' = Cutoff, floor'.mem = floor.mem,
         UNCHANGED <<here, cont, seed, display>>,
         status' = status \/ (status.state = "ok" /\ status'.state = "idle")
  PROVE  Whole'
<1>1. Missing' = Missing /\ Loading' = Loading
  BY DEF Missing, Loading, SeedCurrent
<1>2. \A r : Promised(r) => Promised(r)'
  BY <1>1 DEF Promised
<1>3. QED
  BY <1>1, <1>2 DEF Whole

\* The display is told its owner, and rows go from the queue to the graphs.
LEMMA SyncWhole ==
  ASSUME IInv, HInv, HInv', Whole, Due' = Due, here' = here, cont' = SyncedCont(here),
         UNCHANGED <<seed, floor, status>>,
         cont.owner = here =>
           /\ \A r : Lodged(display, r) => Lodged(display', r)
           /\ display'.buffer = display.buffer
           /\ display'.trimmed = display.trimmed /\ display'.omitted = display.omitted
  PROVE  Whole'
<1>1. Cutoff' = Cutoff /\ floor'.mem = Cutoff'
  BY DEF Cutoff, Whole
<1>2. CASE cont.owner = here
  <2>1. cont' = cont
    BY <1>2 DEF SyncedCont
  <2>2. Missing' = Missing /\ Loading' = Loading
    BY <1>2, <2>1 DEF Missing, Loading, SeedCurrent
  <2>3. \A r : Promised(r) => Promised(r)'
    BY <1>2, <2>2 DEF Promised
  <2>4. QED
    BY <1>1, <1>2, <2>1, <2>2, <2>3 DEF Whole
<1>3. CASE cont.owner # here
  <2>1. Due' = {} /\ Missing' = {}
    BY <1>3 DEF Whole, Missing
  <2>2. ~Loading
    BY <1>3, LoadingOwner
  <2>3. status'.state = "running" => seed'.pc = "backoff"
    BY <2>2 DEF Whole
  <2>4. QED
    BY <1>1, <2>1, <2>3 DEF Whole
<1>4. QED
  BY <1>2, <1>3

\* A request begins: it is current, and will ask for everything.
LEMMA BeginSeedWhole ==
  ASSUME IInv, HInv, NEW e, NEW attempt, BeginSeed(e, attempt), here' = here
  PROVE  Whole'
<1>1. /\ floor'.mem = floor.saved[here.base] /\ floor'.saved = floor.saved
      /\ cont' = SyncedCont(here)
  BY DEF BeginSeed, IInv, Typing, Floors
<1>2. cont'.owner = here
  BY <1>1, SyncedContOwner DEF HInv
<1>3. /\ seed'.pc = "clock" /\ seed'.owner = here
      /\ seed'.revision = cont'.revision
  BY DEF BeginSeed
<1>4. Loading' /\ floor'.mem = Cutoff'
  BY <1>1, <1>3 DEF Loading, SeedCurrent, Cutoff
<1>5. \A r : Promised(r)'
  BY <1>3, <1>4 DEF Promised
<1>6. QED
  BY <1>2, <1>4, <1>5 DEF Whole

\* The next row arrives: what was due still is promised, and the row is queued.
LEMMA LiveRowWhole ==
  ASSUME IInv, IInv', HInv, HInv', Whole, floor.since = 0, [Next]_vars,
         NEW r \in station.rows, LiveRow(r, FALSE)
  PROVE  Whole'
<1>1. /\ floor' = floor /\ here' = here /\ seed' = seed /\ status' = status
      /\ station' = station /\ cont' = SyncedCont(here)
      /\ link.up /\ Arriving(r) /\ link'.next = r.n + 1
  BY DEF LiveRow, IInv, Typing, Links
<1>2. Cutoff' = Cutoff /\ floor'.mem = Cutoff'
  BY <1>1 DEF Cutoff, Whole
<1>3. Due' \subseteq Due \cup {r}
  <2> SUFFICES ASSUME NEW q \in Due', q \notin Due
               PROVE  q = r
    OBVIOUS
  <2>1. /\ q \in station.rows /\ q.st = here.base /\ q.n < r.n + 1
        /\ ~(q.n < link.next)
    BY <1>1 DEF Due
  <2>2. q \in Row /\ r \in Row /\ link.next \in Nat
    <3>1. station.rows \in SUBSET Row /\ link \in Links
      BY DEF IInv, Typing
    <3>2. QED
      BY <2>1, <3>1 DEF Links
  <2>3. q.n \in Nat /\ r.n \in Nat
    BY <2>2 DEF Row
  <2>4. q.n >= link.next
    BY <2>1, <2>2, <2>3
  <2>5. r.n =< q.n /\ r.st = here.base
    BY <1>1, <2>1, <2>4 DEF Arriving
  <2>6. q.n = r.n /\ q.st = r.st
    BY <2>1, <2>3, <2>5
  <2>7. QED
    BY <2>2, <2>6 DEF Row
<1>4. r \in Due' => Allowed(floor', r)
  BY <1>1 DEF Whole, Due, Allowed, Cutoff
<1>5. \/ /\ ~Allowed(floor', r)
         /\ Less(display, display') /\ display' = SyncedDisplay(here, display)
      \/ /\ Allowed(floor', r) /\ Receives(display, display', r)
         /\ cont.owner = here =>
              /\ display'.store = display.store
              /\ Queued(display) \ display'.trimmed \subseteq Queued(display')
         /\ cont.owner = here /\ InProgress => Records(display, display', r)
  BY LiveRowReceives DEF HInv
<1>6. CASE cont.owner = here
  <2>1. cont' = cont /\ Loading' = Loading
    BY <1>1, <1>6 DEF SyncedCont, Loading, SeedCurrent
  <2>2. ASSUME NEW q \in Missing'
        PROVE  Promised(q)'
    <3>1. CASE ~Allowed(floor', r)
      <4>1. display' = display
        BY <1>5, <1>6, <3>1 DEF SyncedDisplay
      <4>2. q \in Missing
        BY <1>3, <1>4, <2>2, <3>1, <4>1 DEF Missing
      <4>3. Promised(q)
        BY <4>2 DEF Whole
      <4>4. QED
        BY <1>1, <2>1, <4>1, <4>3 DEF Promised
    <3>2. CASE Allowed(floor', r)
      <4>1. /\ Receives(display, display', r) /\ display'.store = display.store
            /\ Queued(display) \ display'.trimmed \subseteq Queued(display')
            /\ InProgress => Records(display, display', r)
        BY <1>5, <1>6, <3>2
      <4>2. Loading => InProgress
        BY DEF Loading, InProgress
      <4>3. CASE q = r
        <5>1. r \in Queued(display') /\ (Loading => r \in Range(display'.buffer))
          BY <4>1, <4>2 DEF Receives, Records
        <5>2. QED
          BY <2>1, <4>3, <5>1 DEF Promised, Lodged
      <4>4. CASE q # r
        <5>1. q \in Missing /\ q \notin display'.trimmed /\ q \notin display'.omitted
          BY <1>3, <2>2, <4>1, <4>4 DEF Missing, Receives
        <5>2. Promised(q)
          BY <5>1 DEF Whole
        <5>3. Loading /\ q \in Range(display.buffer) => q \in Range(display'.buffer)
          BY <4>1, <4>2, <5>1 DEF Records
        <5>4. Lodged(display, q) => Lodged(display', q)
          BY <4>1, <5>1 DEF Lodged
        <5>5. QED
          BY <1>1, <2>1, <5>2, <5>3, <5>4 DEF Promised
      <4>5. QED
        BY <4>3, <4>4
    <3>3. QED
      BY <3>1, <3>2
  <2>3. QED
    BY <1>1, <1>2, <1>6, <2>1, <2>2 DEF Whole
<1>7. CASE cont.owner # here
  <2>1. Due = {} /\ ~Loading
    BY <1>7, LoadingOwner DEF Whole
  <2>2. cont'.owner = here
    BY <1>1, SyncedContOwner DEF HInv
  <2>3. ~Loading'
    <3>1. ContStep
      BY <1>1, SyncedContStep DEF IInv, Typing
    <3>2. obs' = obs
      BY DEF LiveRow
    <3>3. Advance
      BY <1>1, <3>1, <3>2 DEF Advance, Moves, SeedStep, ObsStep
    <3>4. QED
      BY <1>1, <1>7, <3>3, StillCurrent DEF HInv, Loading
  <2>4. \A q \in Missing' : Promised(q)'
    <3> SUFFICES ASSUME NEW q \in Missing'
                 PROVE  Promised(q)'
      OBVIOUS
    <3>1. q = r /\ r \in Due'
      BY <1>3, <2>1 DEF Missing
    <3>2. r \in Queued(display')
      BY <1>4, <1>5, <3>1 DEF Receives
    <3>3. QED
      BY <2>3, <3>1, <3>2 DEF Promised, Lodged
  <2>5. status'.state = "running" => seed'.pc = "backoff"
    BY <1>1, <2>1 DEF Whole
  <2>6. QED
    BY <1>1, <1>2, <2>2, <2>4, <2>5 DEF Whole
<1>8. QED
  BY <1>6, <1>7

\* The pump takes rows out of the queue.
LEMMA PumpWhole ==
  ASSUME IInv, HInv, HInv', Whole, floor.since = 0,
         NEW k \in 0..QueueCap, NEW persist \in BOOLEAN, Pump(k, persist)
  PROVE  Whole'
<1> DEFINE drained == Drain(PumpDisplay, k)
           d == IF persist THEN Persist(drained, here.base, drained.store) ELSE drained
<1>1. ~ClockReset /\ PumpOwner = here
  BY DEF ClockReset, PumpOwner
<1>2. /\ cont' = SyncedCont(here) /\ display' = d
      /\ UNCHANGED <<here, floor, seed, link, status, station>>
  BY <1>1 DEF Pump
<1>3. PumpDisplay = SyncedDisplay(here, display)
  BY <1>1 DEF PumpDisplay
<1>4. /\ Follows(display, d) /\ d.buffer = PumpDisplay.buffer
      /\ \A r : Lodged(PumpDisplay, r) => Lodged(d, r)
  BY PumpDrains DEF HInv
<1> HIDE DEF d
<1>5. cont.owner = here =>
        /\ \A r : Lodged(display, r) => Lodged(display', r)
        /\ display'.buffer = display.buffer
        /\ display'.trimmed = display.trimmed /\ display'.omitted = display.omitted
  BY <1>2, <1>3, <1>4 DEF SyncedDisplay, Follows
<1>6. Due' = Due
  BY <1>2, DueStays
<1>7. QED
  BY <1>2, <1>5, <1>6, SyncWhole

\* The request is sent: the station answers with every row it holds.
LEMMA RequestWhole ==
  ASSUME IInv, HInv, Whole, SeedRequests
  PROVE  Whole'
<1>1. /\ UNCHANGED <<station, here, cont, display, floor, link, status>>
      /\ seed.pc = "clock" /\ seed'.pc = "recent"
      /\ seed'.owner = seed.owner /\ seed'.revision = seed.revision
      /\ seed'.rows = {r \in station.rows : r.st = here.base}
  BY DEF SeedRequests, IInv, Typing, Seeds
<1>2. Due' = Due /\ Cutoff' = Cutoff /\ Missing' = Missing /\ Loading' = Loading
  BY <1>1 DEF Due, Cutoff, Missing, Loading, SeedCurrent
<1>3. ASSUME NEW r \in Missing
      PROVE  Promised(r)'
  <2>1. r \in seed'.rows
    BY <1>1 DEF Missing, Due
  <2>2. Promised(r)
    BY DEF Whole
  <2>3. QED
    BY <1>1, <1>2, <2>1, <2>2 DEF Promised
<1>4. QED
  BY <1>1, <1>2, <1>3 DEF Whole

\* A request that is not current ends: it owed nothing that is not in the display.
LEMMA GivenUpWhole ==
  ASSUME IInv, HInv, Whole, SeedSuperseded \/ SeedReturns
  PROVE  Whole'
<1>1. /\ UNCHANGED <<station, here, cont, floor, link, status>>
      /\ ~Loading /\ seed.pc # "backoff" /\ seed' = IdleSeed
      /\ display' = ResetBuffer(display)
  BY DEF SeedSuperseded, SeedReturns, EndSeed, Loading
<1>2. ~Loading'
  BY <1>1, FreshTyped DEF Loading
<1>3. /\ display'.store = display.store /\ display'.queue = display.queue
      /\ display'.trimmed = display.trimmed /\ display'.omitted = display.omitted
  BY <1>1 DEF ResetBuffer, IInv, Held, Fields
<1>4. Due' = Due /\ Cutoff' = Cutoff /\ Missing' = Missing
  BY <1>1, <1>3 DEF Due, Cutoff, Missing
<1>5. \A r : Promised(r) => Promised(r)'
  BY <1>1, <1>2, <1>3 DEF Promised, Lodged, Queued
<1>6. QED
  BY <1>1, <1>4, <1>5 DEF Whole

\* The answer, cut off at the floor, has the bucket of every row that is due.
LEMMA AnsweredWhole ==
  ASSUME IInv, HInv, Whole, seed.pc = "recent", SeedCurrent,
         NEW r \in Missing
  PROVE  r \in Range(display.buffer) \/ InBucket(r, Answer)
<1>1. Loading
  BY DEF Loading
<1>2. Promised(r)
  BY DEF Whole
<1>3. CASE r \in seed.rows
  <2>1. r.n > Cutoff
    <3>1. floor.saved[here.base] < r.n
      BY DEF Missing, Due
    <3>2. QED
      BY <3>1 DEF Cutoff
  <2>2. Represented(r, Answer)
    BY <1>3, <2>1, AnswerCut DEF HInv
  <2>3. QED
    BY <2>2 DEF Represented, InBucket
<1>4. QED
  BY <1>1, <1>2, <1>3 DEF Promised

LEMMA BuildWhole ==
  ASSUME IInv, HInv, Whole, SeedAnswered, Answer # {}
  PROVE  Whole'
<1>1. /\ UNCHANGED <<station, here, cont, display, floor, link, status>>
      /\ seed.pc = "recent" /\ SeedCurrent /\ seed' = [seed EXCEPT !.pc = "build", !.rows = Answer]
  BY DEF SeedAnswered
<1>2. /\ seed'.pc = "build" /\ seed'.rows = Answer
      /\ seed'.owner = seed.owner /\ seed'.revision = seed.revision
  BY <1>1 DEF IInv, Typing, Seeds
<1>3. Due' = Due /\ Cutoff' = Cutoff /\ Missing' = Missing /\ Loading'
  BY <1>1, <1>2 DEF Due, Cutoff, Missing, Loading, SeedCurrent
<1>4. ASSUME NEW r \in Missing
      PROVE  Promised(r)'
  <2>1. r \in Range(display.buffer) \/ InBucket(r, Answer)
    BY <1>1, AnsweredWhole
  <2>2. QED
    BY <1>1, <1>2, <1>3, <2>1 DEF Promised
<1>5. QED
  BY <1>1, <1>3, <1>4 DEF Whole

\* What was loaded, and recorded meanwhile, is swapped in.
LEMMA SwapWhole ==
  ASSUME IInv, HInv, Whole, NEW list, Swaps(list)
  PROVE  Whole'
<1>1. /\ UNCHANGED <<station, here, cont, floor, link>>
      /\ seed.pc \in {"recent", "build"} /\ SeedCurrent /\ Loading /\ SwapIn(list)
  BY DEF Swaps, Loading
<1>2. seed'.pc = "tail" /\ status'.state = "ok"
  BY <1>1 DEF SwapIn, IInv, Typing, Seeds
<1>3. list \in SUBSET RowsOf(station.rows, here.base)
  BY SwapCovers DEF HInv
<1>4. /\ \A g \in Row : \/ Represented(g, list) \/ g \in Queued(display)
                        \/ g \in Range(display.buffer)
                        => Represented(g, display'.store)
      /\ display'.trimmed = display.trimmed /\ display'.omitted = display.omitted
  BY <1>1, <1>3, SwapInShows DEF HInv
<1>5. Due' = Due /\ Cutoff' = Cutoff /\ Missing' = Missing /\ ~Loading'
  BY <1>1, <1>2, <1>4 DEF Due, Cutoff, Missing, Loading
<1>6. ASSUME NEW r \in Missing
      PROVE  InBucket(r, display'.store)
  <2>1. r \in Range(display.buffer) \/ InBucket(r, list)
    <3>1. CASE seed.pc = "recent"
      BY <1>1, <3>1, AnsweredWhole DEF Swaps
    <3>2. CASE seed.pc = "build"
      <4>1. Promised(r)
        BY DEF Whole
      <4>2. QED
        BY <1>1, <3>2, <4>1 DEF Promised, Swaps
    <3>3. QED
      BY <1>1, <3>1, <3>2
  <2>2. CASE r \in Range(display.buffer)
    <3>1. r \in Row
      BY DEF Missing, Due, IInv, Typing
    <3>2. QED
      BY <1>4, <2>2, <3>1 DEF Represented, InBucket
  <2>3. CASE InBucket(r, list)
    <3>1. PICK q \in list : Bucket(q) = Bucket(r)
      BY <2>3 DEF InBucket
    <3>2. q \in Row /\ list \in SUBSET Row
      BY <1>3 DEF RowsOf
    <3>3. Represented(q, display'.store)
      BY <1>4, <3>2, RepresentsItself
    <3>4. QED
      BY <3>1, <3>3 DEF Represented, InBucket
  <2>4. QED
    BY <2>1, <2>2, <2>3
<1>7. QED
  BY <1>1, <1>2, <1>5, <1>6 DEF Whole, Promised, Lodged

\* A request fails, and the screen says so.
LEMMA FailedWhole ==
  ASSUME IInv, HInv, Whole, SeedFailed
  PROVE  Whole'
<1>1. /\ UNCHANGED <<station, here, cont, floor, link>>
      /\ status'.state = "failed"
  BY DEF SeedFailed, Status
<1>2. seed'.pc \in {"tail", "backoff", "idle"}
  BY FreshTyped DEF SeedFailed, EndSeed, IInv, Typing, Seeds
<1>3. display' \in {display, ResetBuffer(display)}
  BY DEF SeedFailed, EndSeed
<1>4. Missing' = Missing /\ Due' = Due /\ Cutoff' = Cutoff /\ ~Loading'
  <2>1. display'.trimmed = display.trimmed /\ display'.omitted = display.omitted
    BY <1>3 DEF ResetBuffer, IInv, Held, Fields
  <2>2. QED
    BY <1>1, <1>2, <2>1 DEF Missing, Due, Cutoff, Loading
<1>5. QED
  BY <1>1, <1>4 DEF Whole, Promised

\* A clear excludes all that was sampled, so nothing is due.
LEMMA ClearedWhole ==
  ASSUME IInv, IInv', HInv, HInv', ClearCurrent
  PROVE  Awaited' \/ Whole'
<1> DEFINE o == [here EXCEPT !.graph = @ + 1, !.clear = @ + 1]
           f == [floor EXCEPT !.saved[here.base] = Sampled, !.mem = Sampled,
                              !.cut[here.base] = Sampled]
           c == ClearAll(display)
           s == Status("idle")
<1>1. Rendered(o, c, f, s, FALSE, TRUE) /\ station' = station
  BY DEF ClearCurrent
<1>2. s.state = "idle" /\ o.base = here.base
  BY DEF Status, IInv, Typing, Owner
<1>3. [o EXCEPT !.mount = @ + 1].base = o.base
  BY DEF IInv, Typing, Owner
<1>4. f.mem = Sampled /\ f.saved[here.base] = Sampled
  BY DEF IInv, Typing, Floors
<1> HIDE DEF o, f, c, s
<1>5. CASE mounted /\ Remounts
  <2>1. watch' = FreshWatch
    BY <1>1, <1>5 DEF Rendered, MountInner
  <2>2. QED
    BY <2>1 DEF FreshWatch, Awaited
<1>6. CASE ~(mounted /\ Remounts)
  <2>1. floor' = f /\ status' = s /\ here'.base = here.base
    BY <1>1, <1>2, <1>3, <1>6 DEF Rendered
  <2>2. Cutoff' = Sampled /\ floor'.mem = Sampled
    BY <1>4, <2>1 DEF Cutoff
  <2>3. Due' = {}
    <3> SUFFICES ASSUME NEW r \in Due'
                 PROVE  FALSE
      OBVIOUS
    <3>1. r \in station.rows /\ Sampled < r.n
      BY <1>1, <2>2 DEF Due, Cutoff
    <3>2. r.n \in 1..Sampled /\ Sampled \in Nat
      BY <3>1, SampledTyped DEF HInv, Numbered, IInv
    <3>3. QED
      BY <3>1, <3>2
  <2>4. QED
    BY <1>2, <2>1, <2>2, <2>3 DEF Whole, Missing
<1>7. QED
  BY <1>5, <1>6

\* What is sampled is ahead of the socket, so it is not due yet.
LEMMA SampleDue ==
  ASSUME IInv, HInv, link.up => link.next =< Sampled + 1, link.up, NEW st \in Stations, Sample(st)
  PROVE  Due' = Due /\ Cutoff' = Cutoff
<1> DEFINE new == [n |-> Sampled + 1, st |-> st]
<1>1. station'.rows = station.rows \cup {new} /\ UNCHANGED <<here, floor, link>>
  BY DEF Sample, IInv, Typing
<1>2. Sampled \in Nat /\ link.next \in Nat
  BY SampledTyped DEF IInv, Typing, Links
<1>3. ~(new.n < link.next)
  BY <1>2
<1> HIDE DEF new
<1>4. QED
  BY <1>1, <1>3 DEF Due, Cutoff

\* The steps that may be taken while no reseed is awaited.
Calm ==
  \/ \E st \in Stations : Sample(st) \/ ReplaceInstance(st)
  \/ \E r \in station.rows : LiveRow(r, FALSE)
  \/ \E k \in 0..QueueCap, persist \in BOOLEAN : Pump(k, persist)
  \/ WatcherSkips \/ SeedRequests \/ SeedSuperseded \/ SeedAnswered \/ SeedBuilt
  \/ SeedFailed \/ SeedRetries \/ SeedReturns \/ StatusTimeout
  \/ BeginObservation \/ ObservationFails \/ UNCHANGED vars

LEMMA CalmAwaits ==
  ASSUME IInv, floor.since = 0, Calm
  PROVE  /\ Awaited' = Awaited /\ link'.up = link.up
         /\ watch'.handled = watch.handled /\ epoch' = epoch
<1>1. /\ mounted' = mounted /\ link'.up = link.up /\ epoch' = epoch
      /\ watch'.ready = watch.ready /\ watch'.handled = watch.handled
  <2>1. CASE \E st \in Stations : Sample(st) \/ ReplaceInstance(st)
    BY <2>1 DEF Sample, ReplaceInstance
  <2>2. CASE \E r \in station.rows : LiveRow(r, FALSE)
    BY <2>2 DEF LiveRow, IInv, Typing, Links
  <2>3. CASE \E k \in 0..QueueCap, persist \in BOOLEAN : Pump(k, persist)
    BY <2>3 DEF Pump, ClockReset
  <2>4. CASE WatcherSkips
    BY <2>4 DEF WatcherSkips, IInv, Typing, Watches
  <2>5. CASE \/ SeedRequests \/ SeedSuperseded \/ SeedAnswered \/ SeedBuilt
             \/ SeedFailed \/ SeedRetries \/ SeedReturns \/ StatusTimeout
             \/ BeginObservation \/ ObservationFails \/ UNCHANGED vars
    BY <2>5 DEF SeedRequests, SeedSuperseded, SeedAnswered, SeedBuilt, SeedFailed,
       SeedRetries, SeedReturns, StatusTimeout, BeginObservation, ObservationFails, vars
  <2>6. QED
    BY <2>1, <2>2, <2>3, <2>4, <2>5 DEF Calm
<1>2. QED
  BY <1>1 DEF Awaited

\* Every other step but the watcher's and a clear leaves a reseed awaited: it requests
\* one, or takes away what a reseed waits for.
LEMMA RequestsOrAwaits ==
  ASSUME IInv, Next, Undisturbed, watch.handled =< epoch,
         ~Calm, ~WatcherPicksUp, ~ClearCurrent
  PROVE  Awaited'
<1>0. epoch \in Nat /\ watch \in Watches /\ watch.handled \in Nat
  BY DEF IInv, Typing, Watches
<1>1. ASSUME epoch' = epoch + 1, watch'.handled = watch.handled
      PROVE  Awaited'
  <2>1. watch.handled # epoch + 1
    BY <1>0
  <2>2. QED
    BY <1>1, <2>1 DEF Awaited
<1>2. CASE ~mounted' \/ ~link'.up \/ ~watch'.ready
  BY <1>2 DEF Awaited
<1>3. CASE \E st \in Stations : StationSweep(st)
  BY <1>2, <1>3 DEF StationSweep, Rendered, MountInner, Down
<1>4. CASE \/ \E st \in Stations, tested \in BOOLEAN : SelectStation(st, tested)
           \/ Login \/ Leave \/ Logout \/ AccessLost \/ Restart
  BY <1>2, <1>4 DEF SelectStation, Login, Leave, Logout, AccessLost, Restart, Leaves
<1>5. CASE \/ WsOpen \/ CalibrationChanged \/ Foreground \/ Reconnect \/ HardReload
           \/ Observe \/ StartupReady
  <2>1. epoch' = epoch + 1 /\ watch'.handled = watch.handled
    BY <1>0, <1>5 DEF WsOpen, CalibrationChanged, Foreground, Reconnect, HardReload,
       Observe, StartupReady, BumpSeed, Watches
  <2>2. QED
    BY <1>1, <2>1
<1>6. CASE WsDrop \/ Unauthorized
  BY <1>2, <1>6 DEF WsDrop, Unauthorized, Down
<1>7. CASE Mount \/ GrantsRebuild
  BY <1>2, <1>7 DEF Mount, GrantsRebuild, MountInner, FreshWatch
<1>8. CASE ClearAndReseed
  BY <1>2, <1>8 DEF ClearAndReseed, Rendered, MountInner, Down
<1>9. QED
  BY <1>3, <1>4, <1>5, <1>6, <1>7, <1>8 DEF Next, Calm, Undisturbed, ClockRunsOn

\* The watcher has handled no epoch that is yet to come.
LEMMA HandledStays ==
  ASSUME IInv, [Next]_vars, watch.handled =< epoch
  PROVE  watch'.handled =< epoch'
<1>0. epoch \in Nat /\ watch \in Watches /\ watch.handled \in Nat
  BY DEF IInv, Typing, Watches
<1>1. ASSUME watch'.handled = watch.handled, epoch' \in {epoch, epoch + 1}
      PROVE  watch'.handled =< epoch'
  BY <1>0, <1>1
<1>2. ASSUME watch' = FreshWatch, epoch' \in {0, epoch, epoch + 1}
      PROVE  watch'.handled =< epoch'
  BY <1>0, <1>2 DEF FreshWatch
<1>3. ASSUME NEW o, NEW d, NEW f, NEW st, NEW wake, NEW up,
             Rendered(o, d, f, st, wake, up), epoch' \in {epoch, epoch + 1}
      PROVE  watch'.handled =< epoch'
  <2>1. watch' = FreshWatch \/ watch'.handled = watch.handled
    BY <1>0, <1>3 DEF Rendered, MountInner, Watches
  <2>2. QED
    BY <1>1, <1>2, <1>3, <2>1
<1>4. CASE \E st \in Stations : Sample(st) \/ ReplaceInstance(st) \/ StationSweep(st)
  <2>1. CASE \E st \in Stations : StationSweep(st)
    <3>1. /\ epoch' = epoch + 1
          /\ \E o, d, f, st, wake, up : Rendered(o, d, f, st, wake, up)
      BY <2>1 DEF StationSweep
    <3>2. QED
      BY <1>3, <3>1
  <2>2. QED
    BY <1>1, <1>4, <2>1 DEF Sample, ReplaceInstance
<1>5. CASE \/ \E st \in Stations, tested \in BOOLEAN : SelectStation(st, tested)
           \/ WsOpen \/ CalibrationChanged \/ Foreground \/ Reconnect \/ HardReload \/ Login
           \/ Observe \/ StartupReady
  <2>1. epoch' = epoch + 1 /\ watch'.handled = watch.handled
    BY <1>0, <1>5 DEF SelectStation, WsOpen, CalibrationChanged, Foreground, Reconnect,
       HardReload, Login, Observe, StartupReady, BumpSeed, Watches
  <2>2. QED
    BY <1>1, <2>1
<1>6. CASE \E k \in 0..QueueCap, persist \in BOOLEAN : Pump(k, persist)
  <2>1. /\ epoch' = epoch
        /\ watch' = watch \/ \E o, d, f, st, wake, up : Rendered(o, d, f, st, wake, up)
    BY <1>6 DEF Pump
  <2>2. QED
    BY <1>1, <1>3, <2>1
<1>7. CASE ClearCurrent \/ ClearAndReseed
  <2>1. /\ epoch' \in {epoch, epoch + 1}
        /\ \E o, d, f, st, wake, up : Rendered(o, d, f, st, wake, up)
    BY <1>7 DEF ClearCurrent, ClearAndReseed
  <2>2. QED
    BY <1>3, <2>1
<1>8. CASE Leave \/ Logout \/ AccessLost \/ Mount \/ GrantsRebuild \/ Restart
  <2>1. watch' = FreshWatch /\ epoch' \in {0, epoch, epoch + 1}
    BY <1>8 DEF Leave, Logout, AccessLost, Mount, GrantsRebuild, Restart, Leaves, MountInner
  <2>2. QED
    BY <1>2, <2>1
<1>9. CASE WatcherPicksUp
  <2>1. watch'.handled = epoch /\ epoch' = epoch
    BY <1>0, <1>9 DEF WatcherPicksUp, Watches
  <2>2. QED
    BY <1>0, <2>1
<1>10. CASE WatcherSkips
  BY <1>0, <1>1, <1>10 DEF WatcherSkips, Watches
<1>11. CASE \/ \E r \in station.rows, stepped \in BOOLEAN : LiveRow(r, stepped)
            \/ WsDrop \/ SeedRequests \/ SeedSuperseded \/ SeedAnswered \/ SeedBuilt
            \/ SeedFailed \/ SeedRetries \/ SeedReturns \/ StatusTimeout
            \/ GrantsRefreshed \/ Unauthorized
            \/ BeginObservation \/ ObservationFails \/ UNCHANGED vars
  <2>1. UNCHANGED <<watch, epoch>>
    BY <1>11 DEF LiveRow, WsDrop, SeedRequests, SeedSuperseded, SeedAnswered, SeedBuilt,
       SeedFailed, SeedRetries, SeedReturns, StatusTimeout, GrantsRefreshed, Unauthorized,
       BeginObservation, ObservationFails, vars
  <2>2. QED
    BY <1>1, <2>1
<1>12. QED
  BY <1>4, <1>5, <1>6, <1>7, <1>8, <1>9, <1>10, <1>11 DEF Next

\* The socket is at most about to deliver what is sampled next.
LEMMA LinkBoundStays ==
  ASSUME IInv, IInv', HInv, HInv', [Next]_vars, link.up => link.next =< Sampled + 1
  PROVE  link'.up => link'.next =< Sampled' + 1
<1>1. Sampled \in Nat /\ link \in Links /\ link.next \in Nat
  BY SampledTyped DEF IInv, Typing, Links
<1>2. CASE link' = link /\ mounted' = mounted
  <2>1. Sampled' \in Nat /\ Sampled' >= Sampled
    <3>1. CASE \E st \in Stations : Sample(st)
      <4>1. station.rows \subseteq station'.rows
        BY <3>1 DEF Sample, IInv, Typing
      <4>2. IsFiniteSet(station'.rows)
        BY DEF IInv
      <4>3. Cardinality(station.rows) =< Cardinality(station'.rows) /\ Cardinality(station'.rows) \in Nat
        BY <4>1, <4>2, FS_Subset, FS_CardinalityType
      <4>4. QED
        BY <1>1, <4>3 DEF Sampled
    <3>2. CASE \A st \in Stations : ~Sample(st)
      BY <1>1, <3>2, RowsKept
    <3>3. QED
      BY <3>1, <3>2
  <2>2. QED
    BY <1>1, <1>2, <2>1
<1>3. CASE ~link'.up
  BY <1>3
<1>4. CASE WsOpen
  <2>1. link'.next = Sampled + 1 /\ station' = station
    BY <1>4 DEF WsOpen
  <2>2. QED
    BY <1>1, <2>1 DEF Sampled
<1>5. CASE \E r \in station.rows, stepped \in BOOLEAN : LiveRow(r, stepped)
  <2> PICK r \in station.rows, stepped \in BOOLEAN : LiveRow(r, stepped)
    BY <1>5
  <2>1. link'.next = r.n + 1 /\ station' = station
    BY <1>1 DEF LiveRow, Links
  <2>2. r.n \in 1..Sampled
    BY DEF HInv, Numbered
  <2>3. QED
    BY <1>1, <2>1, <2>2 DEF Sampled
<1>6. QED
  BY <1>2, <1>3, <1>4, <1>5, LinkStep

\* The clock has not stepped back: no reset is pending, and none has lifted a cutoff.
Lasting(f) == f.since = 0 /\ f.cut = f.saved

LEMMA FloorLasts ==
  ASSUME IInv, [Next]_vars, ClockRunsOn, floor.since = 0
  PROVE  floor'.since = 0 /\ (Lasting(floor) => Lasting(floor'))
<1>0. floor \in Floors /\ here.base \in Stations
  BY DEF IInv, Typing
<1>1. ASSUME NEW f, floor' \in {f, [f EXCEPT !.mem = f.saved[here'.base]]}, f \in Floors
      PROVE  floor'.since = f.since /\ floor'.cut = f.cut /\ floor'.saved = f.saved
  <2>1. ASSUME NEW x
        PROVE  LET g == [f EXCEPT !.mem = x]
               IN  g.since = f.since /\ g.cut = f.cut /\ g.saved = f.saved
    BY <1>1 DEF Floors
  <2>2. QED
    BY <1>1, <2>1
<1>2. CASE floor' = floor
  BY <1>2 DEF Lasting
<1>3. CASE WsOpen \/ WatcherPicksUp \/ SeedRetries \/ Mount \/ GrantsRebuild \/ Restart
  <2>1. floor'.since = 0 /\ floor'.cut = floor.cut /\ floor'.saved = floor.saved
    BY <1>0, <1>3 DEF WsOpen, WatcherPicksUp, SeedRetries, BeginSeed, Mount, GrantsRebuild,
       MountInner, Restart, Floors
  <2>2. QED
    BY <2>1 DEF Lasting
<1>4. CASE ClearAndReseed \/ \E st \in Stations : StationSweep(st)
  <2>1. \E o, d, st, wake, up : Rendered(o, d, floor, st, wake, up)
    BY <1>4 DEF ClearAndReseed, StationSweep
  <2>2. floor' \in {floor, [floor EXCEPT !.mem = floor.saved[here'.base]]}
    BY <2>1 DEF Rendered, MountInner
  <2>3. QED
    BY <1>0, <1>1, <2>2 DEF Lasting
<1>5. CASE ClearCurrent
  <2> PICK f : f = [floor EXCEPT !.saved[here.base] = Sampled, !.mem = Sampled,
                                 !.cut[here.base] = Sampled]
    OBVIOUS
  <2>1. /\ f.since = 0 /\ f \in Floors
        /\ f.saved = [floor.saved EXCEPT ![here.base] = Sampled]
        /\ f.cut = [floor.cut EXCEPT ![here.base] = Sampled]
    BY <1>0, SampledTyped DEF Floors, IInv
  <2>2. \E o, d, st, wake, up : Rendered(o, d, f, st, wake, up)
    BY <1>5 DEF ClearCurrent
  <2>3. floor' \in {f, [f EXCEPT !.mem = f.saved[here'.base]]}
    BY <2>2 DEF Rendered, MountInner
  <2>4. floor'.since = f.since /\ floor'.cut = f.cut /\ floor'.saved = f.saved
    <3>1. ASSUME NEW x
          PROVE  LET g == [f EXCEPT !.mem = x]
                 IN  g.since = f.since /\ g.cut = f.cut /\ g.saved = f.saved
      BY <2>1 DEF Floors
    <3>2. QED
      BY <2>3, <3>1
  <2>5. QED
    BY <2>1, <2>4 DEF Lasting
<1>6. CASE \E k \in 0..QueueCap, persist \in BOOLEAN : Pump(k, persist)
  BY <1>2, <1>6 DEF Pump, ClockReset
<1>7. CASE \E r \in station.rows, stepped \in BOOLEAN : LiveRow(r, stepped)
  BY <1>2, <1>7 DEF LiveRow, ClockRunsOn
<1>8. CASE \/ \E st \in Stations : Sample(st) \/ ReplaceInstance(st)
           \/ \E st \in Stations, tested \in BOOLEAN : SelectStation(st, tested)
           \/ WsDrop \/ CalibrationChanged \/ WatcherSkips \/ SeedRequests
           \/ SeedSuperseded \/ SeedAnswered \/ SeedBuilt \/ SeedFailed \/ SeedReturns
           \/ StartupReady \/ StatusTimeout \/ Foreground \/ Reconnect \/ HardReload
           \/ Leave \/ Logout \/ Login \/ AccessLost \/ GrantsRefreshed \/ Unauthorized
           \/ BeginObservation \/ ObservationFails \/ Observe \/ UNCHANGED vars
  <2>1. floor' = floor
    BY <1>8
    DEF Sample, ReplaceInstance, SelectStation, WsDrop, CalibrationChanged, WatcherSkips,
        SeedRequests, SeedSuperseded, SeedAnswered, SeedBuilt, SeedFailed, SeedReturns,
        StartupReady, StatusTimeout, Foreground, Reconnect, HardReload, Leave, Logout,
        Login, AccessLost, GrantsRefreshed, Unauthorized, BeginObservation,
        ObservationFails, Observe, vars
  <2>2. QED
    BY <1>2, <2>1
<1>9. QED
  BY <1>3, <1>4, <1>5, <1>6, <1>7, <1>8 DEF Next

\* What is owed stays promised by the steps taken while nothing is awaited.
LEMMA CalmWhole ==
  ASSUME IInv, IInv', HInv, HInv', [Next]_vars, WInv, Whole, ~Awaited, Calm
  PROVE  Whole'
<1>0. floor.since = 0 /\ link.up /\ (link.up => link.next =< Sampled + 1)
  BY DEF WInv, Awaited
<1>1. CASE \E st \in Stations : Sample(st)
  <2>1. Due' = Due /\ Cutoff' = Cutoff
    BY <1>0, <1>1, SampleDue
  <2>2. UNCHANGED <<here, cont, seed, display, floor, status>>
    BY <1>1 DEF Sample
  <2>3. QED
    BY <2>1, <2>2, QuietWhole
<1>2. CASE \/ \E st \in Stations : ReplaceInstance(st)
           \/ WatcherSkips \/ ObservationFails \/ StatusTimeout \/ UNCHANGED vars
  <2>1. /\ station'.rows = station.rows
        /\ UNCHANGED <<here, cont, seed, display, floor, link>>
        /\ status' = status \/ (status.state = "ok" /\ status'.state = "idle")
    BY <1>2 DEF ReplaceInstance, WatcherSkips, ObservationFails, StatusTimeout, Status,
       vars, IInv, Typing
  <2>2. Due' = Due /\ Cutoff' = Cutoff
    BY <2>1, DueStays
  <2>3. QED
    BY <2>1, <2>2, QuietWhole
<1>3. CASE \E r \in station.rows : LiveRow(r, FALSE)
  BY <1>0, <1>3, LiveRowWhole
<1>4. CASE \E k \in 0..QueueCap, persist \in BOOLEAN : Pump(k, persist)
  BY <1>0, <1>4, PumpWhole
<1>5. CASE SeedRequests
  BY <1>5, RequestWhole
<1>6. CASE SeedSuperseded \/ SeedReturns
  BY <1>6, GivenUpWhole
<1>7. CASE SeedAnswered
  <2>1. CASE Answer = {}
    <3>1. Swaps(Answer)
      BY <1>7, <2>1 DEF SeedAnswered, Swaps
    <3>2. QED
      BY <3>1, SwapWhole
  <2>2. CASE Answer # {}
    BY <1>7, <2>2, BuildWhole
  <2>3. QED
    BY <2>1, <2>2
<1>8. CASE SeedBuilt
  <2>1. Swaps(seed.rows)
    BY <1>8 DEF SeedBuilt, Swaps
  <2>2. QED
    BY <2>1, SwapWhole
<1>9. CASE SeedFailed
  BY <1>9, FailedWhole
<1>10. CASE SeedRetries
  BY <1>10, BeginSeedWhole DEF SeedRetries
<1>11. CASE BeginObservation
  <2>1. /\ cont' = SyncedCont(here) /\ display' = SyncedDisplay(here, display)
        /\ UNCHANGED <<station, here, seed, floor, link, status>>
    BY <1>11 DEF BeginObservation
  <2>2. Due' = Due
    BY <2>1, DueStays
  <2>3. cont.owner = here => display' = display
    BY <2>1 DEF SyncedDisplay
  <2>4. QED
    BY <2>1, <2>2, <2>3, SyncWhole
<1>12. QED
  BY <1>1, <1>2, <1>3, <1>4, <1>5, <1>6, <1>7, <1>8, <1>9, <1>10, <1>11 DEF Calm

LEMMA InitWInv ==
  ASSUME Init
  PROVE  WInv
BY DEF Init, FreshWatch, Down, WInv, Awaited

LEMMA NextWInv ==
  ASSUME IInv, IInv', HInv, HInv', WInv, [Next]_vars, [Undisturbed]_vars
  PROVE  WInv'
<1>1. CASE UNCHANGED vars
  <2>1. Calm
    BY <1>1 DEF Calm
  <2>2. Awaited' = Awaited /\ UNCHANGED <<floor, watch, epoch, link, station>>
    BY <1>1, <2>1, CalmAwaits DEF vars, WInv
  <2>3. ~Awaited => Whole'
    BY <2>1, CalmWhole DEF WInv
  <2>4. QED
    BY <2>2, <2>3 DEF WInv, Sampled
<1>2. CASE Next /\ Undisturbed
  <2>1. floor'.since = 0
    BY <1>2, FloorLasts DEF WInv, Undisturbed
  <2>2. watch'.handled =< epoch'
    BY HandledStays DEF WInv
  <2>3. link'.up => link'.next =< Sampled' + 1
    BY LinkBoundStays DEF WInv
  <2>4. ~Awaited' => Whole'
    <3>1. CASE Calm
      BY <3>1, CalmAwaits, CalmWhole DEF WInv
    <3>2. CASE WatcherPicksUp
      BY <3>2, BeginSeedWhole DEF WatcherPicksUp
    <3>3. CASE ClearCurrent
      BY <3>3, ClearedWhole
    <3>4. QED
      BY <1>2, <3>1, <3>2, <3>3, RequestsOrAwaits DEF WInv
  <2>5. QED
    BY <2>1, <2>2, <2>3, <2>4 DEF WInv
<1>3. QED
  BY <1>1, <1>2

\* seed_from_db and the requests for it (BumpSeed): unless grants are refreshed in
\* place or the clock steps back, a display at rest has all that the station sampled
\* up to the row the socket is at, whatever was cleared, dropped or superseded before.
THEOREM SettledIsWhole == Spec /\ [][Undisturbed]_vars => []HistoryIsWhole
<1>1. WInv => HistoryIsWhole
  <2> SUFFICES ASSUME WInv, Settled, NEW r \in Due \ (display.trimmed \cup display.omitted)
               PROVE  InBucket(r, Shown)
    BY DEF HistoryIsWhole
  <2>1. ~Awaited /\ ~Loading
    BY DEF Settled, Awaited, Loading
  <2>2. Promised(r)
    BY <2>1 DEF WInv, Whole, Missing
  <2>3. Lodged(display, r)
    BY <2>1, <2>2 DEF Promised, Settled
  <2>4. QED
    BY <2>3 DEF Lodged, InBucket, Shown, Queued
<1>2. Init => WInv
  BY InitWInv
<1>3. IInv /\ HInv /\ (IInv /\ HInv)' /\ WInv /\ [Next]_vars /\ [Undisturbed]_vars => WInv'
  BY NextWInv
<1>4. QED
  BY <1>1, <1>2, <1>3, HistoryInvariance, PTL DEF Spec

\* The same two steps are all that can leave "Loading past data" on the screen with no
\* reseed under way or requested.
THEOREM RunningIsHonestOtherwise == Spec /\ [][Undisturbed]_vars => []RunningIsHonest
<1>1. WInv => RunningIsHonest
  BY DEF WInv, Whole, Awaited, Loading, RunningIsHonest
<1>2. Init => WInv
  BY InitWInv
<1>3. IInv /\ HInv /\ (IInv /\ HInv)' /\ WInv /\ [Next]_vars /\ [Undisturbed]_vars => WInv'
  BY NextWInv
<1>4. QED
  BY <1>1, <1>2, <1>3, HistoryInvariance, PTL DEF Spec

\* Of finding 4 a step back of the clock is the only cause: without one, nothing a clear
\* excluded is drawn again, whenever the clear was made.
THEOREM LaterClearHoldsOtherwise == Spec /\ [][ClockRunsOn]_vars => []LaterClearHolds
<1> DEFINE Lasts == Lasting(floor)
<1>1. Init => Lasts
  BY DEF Init, Lasting
<1>2. IInv /\ Lasts /\ [Next]_vars /\ [ClockRunsOn]_vars => Lasts'
  BY FloorLasts DEF Lasting, vars
<1>3. Lasts /\ ClearedStaysCleared => LaterClearHolds
  BY DEF Lasting, ClearedStaysCleared, LaterClearHolds
<1> HIDE DEF Lasts
<1>4. QED
  BY <1>1, <1>2, <1>3, HistoryInvariance, ClearsLast, PTL DEF Spec

=============================================================================
