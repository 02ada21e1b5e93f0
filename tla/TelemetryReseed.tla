--------------------------- MODULE TelemetryReseed ---------------------------
(***************************************************************************)
(* How the dashboard keeps its telemetry display current: rows arrive over *)
(* a websocket, a watcher task reloads history over HTTP whenever a reseed *)
(* is requested, and the operator, the login, the station and the clocks   *)
(* change what the display may show while either is under way.             *)
(*                                                                         *)
(* The frontend runs its tasks on one thread, so the code between two      *)
(* awaits is one action.  Native builds are modelled: the socket task      *)
(* hands a row straight to the queue and ends as soon as its station or    *)
(* token is no longer the current one.                                     *)
(***************************************************************************)
EXTENDS TelemetryDisplay

CONSTANTS
  NoStation,    \* stands for "none" where an owner or an authority is optional
  Home,         \* the station the frontend is first pointed at
  Attempts,     \* RESEED_ATTEMPTS
  Budgets       \* bounds: how often each event of the environment may happen

Events == {"row", "drop", "fail", "bump", "reload", "calibrate", "clear",
           "reseed", "clock", "grant", "revoke", "leave", "login", "switch",
           "restart", "observe", "instance", "rebuild"}

ASSUME ReseedAssumption ==
  /\ NoStation \notin Stations
  /\ Home \in Stations
  /\ Attempts \in Nat \ {0}
  /\ Budgets \subseteq [Events -> Nat]

VARIABLES
  station,   \* what the stations hold: every row sampled, backend instances
  here,      \* what a LocalOwner captures: station, login, mount and epochs
  mounted,   \* whether the dashboard is on screen
  cont,      \* CONTINUITY
  display,   \* see TelemetryDisplay
  floor,     \* what "clear current data" excludes: saved per station, in memory,
             \* and the first row received after the clock stepped back (0: none);
             \* cut, a history variable, is what it excludes for the operator
  seed,      \* the history request of the watcher task
  epoch,     \* SEED_EPOCH
  watch,     \* the watcher task: epoch handled, wake-up queued, startup over
  link,      \* the websocket: whether it is up, and the next row it delivers
  status,    \* RESEED_STATUS and the omitted rows its detail reports
  obs,       \* the outstanding observation of the backend's identity
  left       \* what remains of the budget

vars == <<station, here, mounted, cont, display, floor, seed, epoch, watch,
          link, status, obs, left>>

-----------------------------------------------------------------------------
(* State *)

Owner == [base : Stations \cup {NoStation}, login : Nat, mount : Nat,
          graph : Nat, clear : Nat]
NoOwner == [base |-> NoStation, login |-> 0, mount |-> 0, graph |-> 0, clear |-> 0]

Authority == [st : Stations \cup {NoStation}, instance : Nat]
NoAuthority == [st |-> NoStation, instance |-> 0]

IdleSeed == [pc |-> "idle", owner |-> NoOwner, revision |-> 0, empty |-> FALSE,
             rows |-> {}, epoch |-> 0, attempt |-> 0]

NoObservation == [owner |-> NoOwner, answer |-> NoAuthority]

\* handled = 0 is the watcher's None: the epoch is at least 1 once it looks.
FreshWatch == [handled |-> 0, wake |-> TRUE, ready |-> FALSE]

Down == [up |-> FALSE, next |-> 1]

Status(s) == [state |-> s, reported |-> 0]

Sampled == Cardinality(station.rows)

Init ==
  /\ station = [rows |-> {}, instance |-> [s \in Stations |-> 0]]
  /\ here = [base |-> Home, login |-> 0, mount |-> 0, graph |-> 0, clear |-> 0]
  /\ mounted = FALSE
  /\ cont = [owner |-> NoOwner, authority |-> NoAuthority, revision |-> 0]
  /\ display = FreshDisplay(Home, {})
  /\ floor = [saved |-> [s \in Stations |-> 0], mem |-> 0, since |-> 0,
               cut |-> [s \in Stations |-> 0]]
  /\ seed = IdleSeed
  /\ epoch = 0
  /\ watch = FreshWatch
  /\ link = Down
  /\ status = Status("idle")
  /\ obs = NoObservation
  /\ left \in Budgets

Spend(e) == left[e] > 0 /\ left' = [left EXCEPT ![e] = @ - 1]

\* Whether the framework rebuilds the inner dashboard when its key, the clear
\* epoch, changes; otherwise it only rerenders.  Chosen once, with the budget.
Remounts == left["rebuild"] > 0

-----------------------------------------------------------------------------
(* Parts of handlers *)

\* Mutant: live rows are recorded only until the answer arrives.
InProgressUntilAnswer == seed.pc \in {"clock", "recent"}

InProgress == seed.pc \in {"clock", "recent", "build", "tail"}

\* Mutant: only the revision of the continuity is compared.
SeedCurrentRevision == seed.revision = cont.revision

SeedCurrent == seed.owner = here /\ seed.revision = cont.revision

\* synchronize: the continuity takes the owner o, the display d is retired.
SyncedCont(o) ==
  IF cont.owner = o THEN cont
  ELSE [owner |-> o, authority |-> NoAuthority, revision |-> cont.revision + 1]

SameIdentity(o, p) == o.base = p.base /\ o.login = p.login /\ o.mount = p.mount

SyncedDisplay(o, d) ==
  IF cont.owner \in {o, NoOwner} THEN d
  ELSE IF SameIdentity(cont.owner, o) THEN ClearVisible(d)
  ELSE ClearAll(d)

\* Mutant: the epoch moves but the watcher is not woken.
BumpSeedSilently ==
  /\ epoch' = epoch + 1
  /\ UNCHANGED watch

BumpSeed ==
  /\ epoch' = epoch + 1
  /\ watch' = [watch EXCEPT !.wake = TRUE]

\* The guard seed_from_db leaves behind, also when its task is dropped.
ReseedGuard(d) == IF InProgress THEN ResetBuffer(d) ELSE d

\* The inner dashboard is built anew for owner o: its tasks start over.
MountInner(o, d, f, st) ==
  LET restored == RestoreCache(ReseedGuard(d), o.base, f.saved[o.base])
  IN  /\ here' = o
      /\ display' = restored
      /\ floor' = [f EXCEPT !.mem = f.saved[o.base]]
      /\ seed' = IdleSeed
      /\ watch' = FreshWatch
      /\ link' = Down
      /\ obs' = NoObservation
      /\ status' = IF restored.store = {} THEN Status("running") ELSE st

\* The outer dashboard rerenders because the clear epoch it reads changed; it
\* publishes a new lifetime, o, before any task runs again.
Rendered(o, d, f, st, wake, up) ==
  IF mounted /\ Remounts THEN MountInner([o EXCEPT !.mount = @ + 1], d, f, st)
  ELSE /\ here' = IF mounted THEN [o EXCEPT !.mount = @ + 1] ELSE o
       /\ display' = d
       /\ floor' = f
       /\ watch' = [watch EXCEPT !.wake = @ \/ wake]
       /\ link' = IF up THEN link ELSE Down
       /\ status' = st
       /\ UNCHANGED <<seed, obs>>

-----------------------------------------------------------------------------
(* The stations *)

Sample(st) ==
  /\ Spend("row")
  /\ station' = [station EXCEPT !.rows = @ \cup {[n |-> Sampled + 1, st |-> st]}]
  /\ UNCHANGED <<here, mounted, cont, display, floor, seed, epoch, watch, link,
                 status, obs>>

\* The backend process is replaced, or its run history reset; rows stay.
ReplaceInstance(st) ==
  /\ Spend("instance")
  /\ station' = [station EXCEPT !.instance[st] = @ + 1]
  /\ UNCHANGED <<here, mounted, cont, display, floor, seed, epoch, watch, link,
                 status, obs>>

-----------------------------------------------------------------------------
(* The websocket *)

\* Mutant: a connection does not request a reseed.
WsOpenOnly ==
  /\ mounted /\ ~link.up
  /\ link' = [up |-> TRUE, next |-> Sampled + 1]
  /\ floor' = [floor EXCEPT !.mem = floor.saved[here.base]]
  /\ status' = Status("running")
  /\ obs' = NoObservation
  /\ UNCHANGED <<station, here, mounted, cont, display, seed, epoch, watch, left>>

WsOpen ==
  /\ mounted /\ ~link.up
  /\ link' = [up |-> TRUE, next |-> Sampled + 1]
  /\ floor' = [floor EXCEPT !.mem = floor.saved[here.base]]
  /\ status' = Status("running")
  /\ obs' = NoObservation
  /\ BumpSeed
  /\ UNCHANGED <<station, here, mounted, cont, display, seed, left>>

\* The connection is lost; the supervisor connects again.
WsDrop ==
  /\ link.up
  /\ Spend("drop")
  /\ link' = Down
  /\ obs' = NoObservation
  /\ UNCHANGED <<station, here, mounted, cont, display, floor, seed, epoch,
                 watch, status>>

\* r is the next row the socket delivers.
Arriving(r) ==
  /\ r.st = here.base /\ r.n >= link.next
  /\ \A q \in station.rows : q.st = here.base /\ q.n >= link.next => r.n =< q.n

Allowed(f, r) == f.mem = 0 \/ r.n > f.mem

\* stepped: the wall clock has gone back since the row before, which lifts the
\* floor before the row is tested against it.
LiveRow(r, stepped) ==
  LET f == IF stepped THEN [floor EXCEPT !.mem = 0, !.since = r.n,
                                          !.cut[here.base] = 0]
           ELSE floor
      d == SyncedDisplay(here, display)
  IN  /\ link.up /\ Arriving(r)
      /\ IF stepped THEN Spend("clock") ELSE UNCHANGED left
      /\ link' = [link EXCEPT !.next = r.n + 1]
      /\ cont' = SyncedCont(here)
      /\ floor' = f
      /\ display' = IF Allowed(f, r)
                    THEN Enqueue(IF InProgress THEN PushBuffer(d, r) ELSE d, r)
                    ELSE d
      /\ UNCHANGED <<station, here, mounted, seed, epoch, watch, status, obs>>

\* Mutant: a new calibration does not request a reseed.
CalibrationChangedOnly ==
  /\ link.up
  /\ Spend("calibrate")
  /\ cont' = SyncedCont(here)
  /\ display' = ClearQueue(SyncedDisplay(here, display))
  /\ here' = [here EXCEPT !.graph = @ + 1]
  /\ UNCHANGED <<station, mounted, floor, seed, epoch, watch, link, status, obs>>

CalibrationChanged ==
  /\ link.up
  /\ Spend("calibrate")
  /\ cont' = SyncedCont(here)
  /\ display' = ClearQueue(SyncedDisplay(here, display))
  /\ here' = [here EXCEPT !.graph = @ + 1]
  /\ BumpSeed
  /\ UNCHANGED <<station, mounted, floor, seed, link, status, obs>>

-----------------------------------------------------------------------------
(* The runtime pump *)

\* apply_pending_display_clock_reset, before the pump synchronizes.
ClockReset == floor.since # 0

PumpOwner == IF ClockReset THEN [here EXCEPT !.graph = @ + 1, !.clear = @ + 1]
             ELSE here

PumpFloor == IF ClockReset
             THEN [floor EXCEPT !.saved[here.base] = 0, !.since = 0] ELSE floor

PumpDisplay ==
  SyncedDisplay(PumpOwner, IF ClockReset
                           THEN ClearVisible(KeepSince(display, floor.since))
                           ELSE display)

\* k rows are drained; persist: the copy on disk is due.
Pump(k, persist) ==
  LET drained == Drain(PumpDisplay, k)
      d == IF persist THEN Persist(drained, here.base, drained.store) ELSE drained
  IN  /\ mounted
      /\ ClockReset \/ display.queue # <<>>
      /\ k \in 0..Len(PumpDisplay.queue)
      /\ k = 0 => PumpDisplay.queue = <<>> /\ ~persist
      /\ cont' = SyncedCont(PumpOwner)
      /\ IF ClockReset THEN Rendered(PumpOwner, d, PumpFloor, status, FALSE, TRUE)
         ELSE /\ display' = d
              /\ UNCHANGED <<here, floor, seed, watch, link, status, obs>>
      /\ UNCHANGED <<station, mounted, epoch, left>>

-----------------------------------------------------------------------------
(* The seed watcher and seed_from_db *)

\* Mutant: a reseed blanks the graphs before it asks for history.
BeginSeedBlank(e, attempt) ==
  LET d == ClearVisible(SyncedDisplay(here, display))
  IN  /\ floor' = [floor EXCEPT !.mem = floor.saved[here.base]]
      /\ cont' = SyncedCont(here)
      /\ display' = d
      /\ seed' = [pc |-> "clock", owner |-> here, revision |-> SyncedCont(here).revision,
                  empty |-> TRUE, rows |-> {}, epoch |-> e, attempt |-> attempt]
      /\ status' = Status("running")

BeginSeed(e, attempt) ==
  LET d == ResetBuffer(SyncedDisplay(here, display))
  IN  /\ floor' = [floor EXCEPT !.mem = floor.saved[here.base]]
      /\ cont' = SyncedCont(here)
      /\ display' = d
      /\ seed' = [pc |-> "clock", owner |-> here, revision |-> SyncedCont(here).revision,
                  empty |-> d.store = {}, rows |-> {}, epoch |-> e,
                  attempt |-> attempt]
      /\ status' = IF d.store = {} THEN Status("running") ELSE status

EndSeed ==
  /\ seed' = IdleSeed
  /\ display' = ResetBuffer(display)

WatcherPicksUp ==
  /\ mounted /\ watch.ready /\ watch.wake /\ seed.pc = "idle"
  /\ watch.handled # epoch
  /\ watch' = [watch EXCEPT !.handled = epoch, !.wake = FALSE]
  /\ BeginSeed(epoch, 1)
  /\ UNCHANGED <<station, here, mounted, epoch, link, obs, left>>

\* Mutant: the watcher goes back to sleep without looking at the epoch.
WatcherSkipsAlways ==
  /\ mounted /\ watch.wake /\ seed.pc = "idle"
  /\ watch' = [watch EXCEPT !.wake = FALSE]
  /\ UNCHANGED <<station, here, mounted, cont, display, floor, seed, epoch,
                 link, status, obs, left>>

WatcherSkips ==
  /\ mounted /\ watch.wake /\ seed.pc = "idle"
  /\ ~watch.ready \/ watch.handled = epoch
  /\ watch' = [watch EXCEPT !.wake = FALSE]
  /\ UNCHANGED <<station, here, mounted, cont, display, floor, seed, epoch,
                 link, status, obs, left>>

\* /api/system/time has answered or failed; /api/recent goes to whatever
\* station is selected now, which answers with the rows it holds.
SeedRequests ==
  /\ seed.pc = "clock"
  /\ seed' = [seed EXCEPT !.pc = "recent",
                          !.rows = {r \in station.rows : r.st = here.base}]
  /\ UNCHANGED <<station, here, mounted, cont, display, floor, epoch, watch,
                 link, status, obs, left>>

\* Mutant: a build that is out of date is never given up.
SeedSupersededEarly ==
  /\ seed.pc = "recent"
  /\ ~SeedCurrent
  /\ EndSeed
  /\ UNCHANGED <<station, here, mounted, cont, floor, epoch, watch, link,
                 status, obs, left>>

\* The display changed owner while history was loading or being built.
SeedSuperseded ==
  /\ seed.pc \in {"recent", "build"}
  /\ ~SeedCurrent
  /\ EndSeed
  /\ UNCHANGED <<station, here, mounted, cont, floor, epoch, watch, link,
                 status, obs, left>>

\* Mutant: the rows recorded during the reseed are not replayed.
SwapInWithoutBuffer(list) ==
  LET rows == Merge(list, Range(display.queue))
      d    == [display EXCEPT !.buffer = <<>>]
  IN  /\ display' = Persist(ReplaceFromReseed(d, rows), here.base, rows)
      /\ status' = [state |-> "ok", reported |-> d.dropped]
      /\ seed' = [seed EXCEPT !.pc = "tail", !.rows = {}]

\* The queue, then the buffer, go over what was built before it is swapped in.
SwapIn(list) ==
  LET rows == Merge(Merge(list, Range(display.queue)), Range(display.buffer))
      d    == [display EXCEPT !.buffer = <<>>]
  IN  /\ display' = Persist(ReplaceFromReseed(d, rows), here.base, rows)
      /\ status' = [state |-> "ok", reported |-> d.dropped]
      /\ seed' = [seed EXCEPT !.pc = "tail", !.rows = {}]

\* Mutant: the answer is not cut off at the floor.
AnswerWhole == Merge(Merge(Compact(seed.rows), display.live), Range(display.queue))

Answer ==
  Merge(Merge(Compact({r \in seed.rows : Allowed(floor, r)}), display.live),
        Range(display.queue))

SeedAnswered ==
  /\ seed.pc = "recent"
  /\ SeedCurrent
  /\ IF Answer = {} THEN SwapIn({})
     ELSE /\ seed' = [seed EXCEPT !.pc = "build", !.rows = Answer]
          /\ UNCHANGED <<display, status>>
  /\ UNCHANGED <<station, here, mounted, cont, floor, epoch, watch, link, obs,
                 left>>

SeedBuilt ==
  /\ seed.pc = "build"
  /\ SeedCurrent
  /\ SwapIn(seed.rows)
  /\ UNCHANGED <<station, here, mounted, cont, floor, epoch, watch, link, obs,
                 left>>

\* A failure keeps what is shown; only a display that was empty is retried.
SeedFailed ==
  /\ seed.pc = "recent"
  /\ Spend("fail")
  /\ status' = Status("failed")
  /\ IF ~seed.empty THEN /\ seed' = [seed EXCEPT !.pc = "tail", !.rows = {}]
                         /\ UNCHANGED display
     ELSE IF seed.attempt < Attempts
          THEN /\ seed' = [seed EXCEPT !.pc = "backoff", !.rows = {}]
               /\ display' = ResetBuffer(display)
          ELSE EndSeed
  /\ UNCHANGED <<station, here, mounted, cont, floor, epoch, watch, link, obs>>

\* The pause before a retry is skipped when a newer epoch waits.
SeedRetries ==
  /\ seed.pc = "backoff"
  /\ BeginSeed(seed.epoch, seed.attempt + 1)
  /\ UNCHANGED <<station, here, mounted, epoch, watch, link, obs, left>>

\* The snapshots fetched after the telemetry have arrived.
SeedReturns ==
  /\ seed.pc = "tail"
  /\ EndSeed
  /\ UNCHANGED <<station, here, mounted, cont, floor, epoch, watch, link,
                 status, obs, left>>

StartupReady ==
  /\ mounted /\ ~watch.ready
  /\ epoch' = epoch + 1
  /\ watch' = [watch EXCEPT !.ready = TRUE, !.wake = TRUE]
  /\ UNCHANGED <<station, here, mounted, cont, display, floor, seed, link,
                 status, obs, left>>

StatusTimeout ==
  /\ status.state = "ok"
  /\ status' = Status("idle")
  /\ UNCHANGED <<station, here, mounted, cont, display, floor, seed, epoch,
                 watch, link, obs, left>>

-----------------------------------------------------------------------------
(* The operator *)

\* The window comes back to the foreground.
Foreground ==
  /\ mounted /\ watch.ready
  /\ Spend("bump")
  /\ BumpSeed
  /\ UNCHANGED <<station, here, mounted, cont, display, floor, seed, link,
                 status, obs>>

\* reconnect_and_reload_ui: "Reconnect now", or the socket has been silent.
Reconnect ==
  /\ mounted
  /\ Spend("bump")
  /\ link' = Down
  /\ obs' = NoObservation
  /\ BumpSeed
  /\ UNCHANGED <<station, here, mounted, cont, display, floor, seed, status>>

\* hard_reload_dashboard_data: the Reload button.
HardReload ==
  /\ mounted
  /\ Spend("reload")
  /\ display' = ClearAll(display)
  /\ status' = Status("running")
  /\ BumpSeed
  /\ UNCHANGED <<station, here, mounted, cont, floor, seed, link, obs>>

\* "Clear Current Data": rows sampled so far are excluded from now on.
ClearCurrent ==
  /\ mounted
  /\ Spend("clear")
  /\ Rendered([here EXCEPT !.graph = @ + 1, !.clear = @ + 1], ClearAll(display),
              [floor EXCEPT !.saved[here.base] = Sampled, !.mem = Sampled,
                            !.cut[here.base] = Sampled],
              Status("idle"), FALSE, TRUE)
  /\ UNCHANGED <<station, mounted, cont, epoch>>

ClearAndReseed ==
  /\ mounted
  /\ Spend("reseed")
  /\ epoch' = epoch + 1
  /\ Rendered([here EXCEPT !.clear = @ + 1], ClearAll(display), floor,
              Status("running"), TRUE, FALSE)
  /\ UNCHANGED <<station, mounted, cont>>

\* The dashboard leaves the screen for owner o: its tasks are dropped.
Leaves(o) ==
  /\ mounted' = FALSE
  /\ here' = o
  /\ display' = ReseedGuard(display)
  /\ seed' = IdleSeed
  /\ watch' = FreshWatch
  /\ link' = Down
  /\ obs' = NoObservation

\* The Connect button.
Leave ==
  /\ mounted
  /\ Spend("leave")
  /\ Leaves([here EXCEPT !.mount = @ + 1])
  /\ UNCHANGED <<station, cont, floor, epoch, status>>

Logout ==
  /\ mounted
  /\ Spend("login")
  /\ Leaves([here EXCEPT !.login = @ + 1, !.mount = @ + 1])
  /\ epoch' = epoch + 1
  /\ UNCHANGED <<station, cont, floor, status>>

Login ==
  /\ ~mounted
  /\ Spend("login")
  /\ here' = [here EXCEPT !.login = @ + 1]
  /\ BumpSeed
  /\ UNCHANGED <<station, mounted, cont, display, floor, seed, link, status, obs>>

\* Mutant: only a tested connection clears what the last station showed.
SelectStationUntested(st, tested) ==
  /\ ~mounted
  /\ Spend("switch")
  /\ here' = IF st = here.base THEN here
             ELSE [here EXCEPT !.base = st, !.login = @ + 1, !.clear = @ + 1]
  /\ display' = IF tested THEN ClearAll(display) ELSE display
  /\ status' = IF tested THEN Status("running") ELSE status
  /\ BumpSeed
  /\ UNCHANGED <<station, mounted, cont, floor, seed, link, obs>>

\* The station page: tested says whether the connection was tested first.
\* Another station also brings its own saved login.
SelectStation(st, tested) ==
  /\ ~mounted
  /\ Spend("switch")
  /\ here' = IF st = here.base THEN here
             ELSE [here EXCEPT !.base = st, !.login = @ + 1, !.clear = @ + 1]
  /\ display' = IF st = here.base /\ ~tested THEN display ELSE ClearAll(display)
  /\ status' = IF tested THEN Status("running") ELSE status
  /\ BumpSeed
  /\ UNCHANGED <<station, mounted, cont, floor, seed, link, obs>>

Mount ==
  /\ ~mounted
  /\ mounted' = TRUE
  /\ MountInner([here EXCEPT !.mount = @ + 1], display, floor, status)
  /\ UNCHANGED <<station, cont, epoch, left>>

\* The supervisor finds a paired station elsewhere and moves there by itself.
StationSweep(st) ==
  /\ mounted /\ ~link.up /\ st # here.base
  /\ Spend("switch")
  /\ epoch' = epoch + 1
  /\ Rendered([here EXCEPT !.base = st, !.login = @ + 1, !.clear = @ + 1],
              ClearAll(display), floor, Status("running"), TRUE, FALSE)
  /\ UNCHANGED <<station, mounted, cont>>

\* The process ends and starts again: what is on disk remains.
Restart ==
  /\ Spend("restart")
  /\ mounted' = FALSE
  /\ here' = [NoOwner EXCEPT !.base = here.base]
  /\ cont' = [owner |-> NoOwner, authority |-> NoAuthority, revision |-> 0]
  /\ display' = FreshDisplay(display.cacheBase, display.cache)
  /\ floor' = [floor EXCEPT !.mem = 0, !.since = 0]
  /\ seed' = IdleSeed
  /\ epoch' = 0
  /\ watch' = FreshWatch
  /\ link' = Down
  /\ status' = Status("idle")
  /\ obs' = NoObservation
  /\ UNCHANGED station

-----------------------------------------------------------------------------
(* The login and the observed backend *)

\* The periodic session check finds other grants for the same token: other
\* commands or another expiry, or the framework keeps the dashboard it has.
GrantsRefreshed ==
  /\ mounted
  /\ Spend("grant")
  /\ here' = [here EXCEPT !.login = @ + 1]
  /\ UNCHANGED <<station, mounted, cont, display, floor, seed, epoch, watch,
                 link, status, obs>>

\* The user name, roles or permissions changed, and with them the key under which
\* the framework builds the dashboard.
GrantsRebuild ==
  /\ mounted /\ Remounts
  /\ Spend("grant")
  /\ MountInner([here EXCEPT !.login = @ + 1, !.mount = @ + 1], display, floor, status)
  /\ UNCHANGED <<station, mounted, cont, epoch>>

\* The permission to view data is gone: the login card takes the dashboard's place.
AccessLost ==
  /\ mounted
  /\ Spend("grant")
  /\ Leaves([here EXCEPT !.login = @ + 1])
  /\ UNCHANGED <<station, cont, floor, epoch, status>>

\* A request is answered 401, which ends the session and with it the socket.
Unauthorized ==
  /\ mounted
  /\ Spend("revoke")
  /\ here' = [here EXCEPT !.login = @ + 1]
  /\ link' = Down
  /\ obs' = NoObservation
  /\ UNCHANGED <<station, mounted, cont, display, floor, seed, epoch, watch,
                 status>>

\* /api/gse/status is asked which backend instance answers.
BeginObservation ==
  /\ mounted /\ obs = NoObservation
  /\ Spend("observe")
  /\ cont' = SyncedCont(here)
  /\ display' = SyncedDisplay(here, display)
  /\ obs' = [owner |-> here,
             answer |-> [st |-> here.base, instance |-> station.instance[here.base]]]
  /\ UNCHANGED <<station, here, mounted, floor, seed, epoch, watch, link, status>>

\* The answer is invalid, comes for an owner that is gone, or is known already.
ObservationFails ==
  /\ obs # NoObservation
  /\ obs' = NoObservation
  /\ UNCHANGED <<station, here, mounted, cont, display, floor, seed, epoch,
                 watch, link, status, left>>

\* Mutant: the answer is accepted whoever owns the display by now.
ObserveLate ==
  /\ obs # NoObservation
  /\ cont.authority # obs.answer
  /\ cont' = [cont EXCEPT !.authority = obs.answer, !.revision = @ + 1]
  /\ display' = IF cont.authority # NoAuthority THEN ClearAll(display) ELSE display
  /\ obs' = NoObservation
  /\ BumpSeed
  /\ UNCHANGED <<station, here, mounted, floor, seed, link, status, left>>

\* observe and accept.
Observe ==
  /\ obs # NoObservation /\ obs.owner = here
  /\ cont.authority # obs.answer
  /\ cont' = [cont EXCEPT !.authority = obs.answer, !.revision = @ + 1]
  /\ display' = IF cont.authority # NoAuthority THEN ClearAll(display) ELSE display
  /\ obs' = NoObservation
  /\ BumpSeed
  /\ UNCHANGED <<station, here, mounted, floor, seed, link, status, left>>

-----------------------------------------------------------------------------

Next ==
  \/ \E st \in Stations : Sample(st) \/ ReplaceInstance(st) \/ StationSweep(st)
  \/ \E st \in Stations, tested \in BOOLEAN : SelectStation(st, tested)
  \/ \E r \in station.rows, stepped \in BOOLEAN : LiveRow(r, stepped)
  \/ \E k \in 0..QueueCap, persist \in BOOLEAN : Pump(k, persist)
  \/ WsOpen \/ WsDrop \/ CalibrationChanged
  \/ WatcherPicksUp \/ WatcherSkips \/ SeedRequests \/ SeedSuperseded
  \/ SeedAnswered \/ SeedBuilt \/ SeedFailed \/ SeedRetries \/ SeedReturns
  \/ StartupReady \/ StatusTimeout
  \/ Foreground \/ Reconnect \/ HardReload \/ ClearCurrent \/ ClearAndReseed
  \/ Leave \/ Logout \/ Login \/ Mount \/ Restart
  \/ GrantsRefreshed \/ GrantsRebuild \/ AccessLost \/ Unauthorized
  \/ BeginObservation \/ ObservationFails \/ Observe

Spec == Init /\ [][Next]_vars

-----------------------------------------------------------------------------
(* Properties *)

\* Every variable holds a value of its kind, and the queue and the buffer stay
\* within their capacities.
TypeOK ==
  /\ station \in [rows : SUBSET Row, instance : [Stations -> Nat]]
  /\ here \in Owner /\ here.base \in Stations
  /\ mounted \in BOOLEAN
  /\ cont \in [owner : Owner, authority : Authority, revision : Nat]
  /\ display \in Display
  /\ Len(display.queue) =< QueueCap /\ Len(display.buffer) =< BufferCap
  /\ floor \in [saved : [Stations -> Nat], mem : Nat, since : Nat,
               cut : [Stations -> Nat]]
  /\ seed \in [pc : {"idle", "clock", "recent", "build", "tail", "backoff"},
               owner : Owner, revision : Nat, empty : BOOLEAN,
               rows : SUBSET Row, epoch : Nat, attempt : 0..Attempts]
  /\ epoch \in Nat
  /\ watch \in [handled : Nat, wake : BOOLEAN, ready : BOOLEAN]
  /\ link \in [up : BOOLEAN, next : Nat]
  /\ status \in [state : {"idle", "running", "ok", "failed"}, reported : Nat]
  /\ obs \in [owner : Owner, answer : Authority]
  /\ left \in [Events -> Nat]

Shown == display.store \cup Range(display.queue)

\* Only rows of the selected station are shown, queued, buffered for replay or
\* kept on disk, however a switch interleaves with a history request sent to
\* the station before (set_base_url_and_persist against seed_from_db).
StationIsolation ==
  \A r \in Shown \cup Range(display.buffer) \cup display.cache :
    r.st = here.base

\* A stored row is marked as received live only if it arrived on the socket
\* since the display was last retired: "restored offline/database rows never
\* gain provenance", and rows of a retired owner do not come back as live.
LiveMeansReceived ==
  /\ display.live \subseteq display.store
  /\ display.live \subseteq display.got

\* "Clear Current Data" holds: no excluded row is shown, queued or buffered
\* again, whatever reseed was under way and across restarts, as long as no step
\* back of the clock is about to lift the cutoff.
ClearedStaysCleared ==
  mounted /\ floor.since = 0 =>
    \A r \in Shown \cup Range(display.buffer) : floor.saved[here.base] < r.n

\* "Invalidate a previous clear cutoff": a step back of the clock lifts the
\* clears made before it, so what the operator clears later stays cleared.
LaterClearHolds ==
  mounted => \A r \in Shown : floor.cut[here.base] < r.n

\* A row accepted from the socket stays queued or shown, itself or as a newer
\* row of its bucket, through every reseed that overlaps its way to the store,
\* unless the queue or the reseed buffer was full.
NoLiveRowLost ==
  \A r \in display.got \ (display.trimmed \cup display.omitted) :
    Represented(r, Shown)

\* "Past data loaded." without a count of omitted rows means no row accepted
\* from the socket is missing: what the full buffer dropped is always reported.
LoadedMeansComplete ==
  status.state = "ok" /\ status.reported = 0 =>
    \A r \in display.got \ display.trimmed : Represented(r, Shown)

\* The observed backend identity is one of the station it is used for: an
\* answer that outlived its owner is never accepted.
AuthorityOfOwner ==
  cont.owner = here => cont.authority.st \in {here.base, NoStation}

\* A display that says history is being fetched is right: a reseed is under
\* way or requested, or startup or a connection that requests one is to come.
RunningIsHonest ==
  status.state = "running" =>
    \/ ~mounted \/ ~watch.ready \/ ~link.up
    \/ seed.pc # "idle" \/ watch.handled # epoch

\* Some row of the bucket of r is among S.
InBucket(r, S) == \E q \in S : Bucket(q) = Bucket(r)

\* The rows a display owes: those the socket is past, unless a clear excludes them.
Due == {r \in station.rows : /\ r.st = here.base /\ r.n < link.next
                             /\ floor.saved[here.base] < r.n}

Settled ==
  /\ mounted /\ watch.ready /\ link.up /\ watch.handled = epoch
  /\ seed.pc \in {"idle", "tail"} /\ status.state # "failed"

\* "WebSocket reconnects trigger telemetry reseed": once every reseed requested is
\* handled and the last did not fail, each row the socket is past is shown, itself or by
\* another of its bucket, be it sampled before the socket opened, while it was down
\* or while a request was under way, unless a full queue or buffer pushed it out.
HistoryIsWhole ==
  Settled => \A r \in Due \ (display.trimmed \cup display.omitted) : InBucket(r, Shown)

\* A wake-up is never lost: an epoch not yet handled has one queued.
RequestHasWakeUp ==
  mounted /\ watch.ready /\ watch.handled # epoch => watch.wake

\* Reseeding never takes history off the graphs: while one owner lasts, every
\* step of a history request leaves each row that was drawn, or a newer one of
\* its bucket, whether it succeeds, fails or is superseded, unless the reseed
\* buffer was full.
ReseedKeepsHistory ==
  [][seed' # seed /\ here' = here /\ cont' = cont /\ floor.since = 0
     => \A r \in display.store \ display.omitted : Represented(r, display'.store)]_vars

\* Rows received since the clock stepped back stay, once the reset they caused
\* is done and nothing but the lifetime of the dashboard changed since: "Keep
\* rows just received in the new epoch."
NewEpochRowsStay ==
  [][/\ cont.owner # NoOwner /\ floor.since = 0
     /\ here' = here /\ here = [cont.owner EXCEPT !.mount = here.mount]
     => display.live \subseteq display'.store]_vars

-----------------------------------------------------------------------------
(* Liveness.  Every step of the frontend's own tasks is eventually taken, and *)
(* an open socket delivers; nothing is assumed of the operator and the        *)
(* stations.  SeedFailed competes with SeedAnswered and is bounded by Budgets.*)

Fairness ==
  /\ WF_vars(Mount) /\ WF_vars(StartupReady) /\ WF_vars(WsOpen)
  /\ WF_vars(\E r \in station.rows : LiveRow(r, FALSE))
  /\ WF_vars(\E k \in 0..QueueCap : Pump(k, FALSE))
  /\ WF_vars(WatcherPicksUp) /\ WF_vars(WatcherSkips) /\ WF_vars(SeedRequests)
  /\ WF_vars(SeedSuperseded) /\ WF_vars(SeedAnswered) /\ WF_vars(SeedBuilt)
  /\ WF_vars(SeedRetries) /\ WF_vars(SeedReturns)

FairSpec == Spec /\ Fairness

\* Every requested reseed is taken up, and what is taken up ends.
RequestTakenUp == (mounted /\ watch.handled # epoch) ~> (watch.handled = epoch)
SeedEnds == (seed.pc # "idle") ~> (seed.pc = "idle")

\* A display that says history is being fetched eventually says otherwise.
RunningEnds == (status.state = "running") ~> (status.state # "running" \/ ~mounted)

\* "WebSocket reconnects trigger telemetry reseed": whatever was sampled while
\* the socket was down or lost on its way is eventually shown.
HistoryConverges ==
  <>[](\A r \in station.rows :
         r.st = here.base /\ floor.saved[here.base] < r.n
           => Represented(r, display.store))

=============================================================================
