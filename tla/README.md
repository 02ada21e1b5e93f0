# A verification project for the Ground Station frontend

The frontend is a Dioxus application (native and wasm) that shows telemetry of a
ground station, sends it commands, and survives lost connections, changed
stations, changed logins and restarts. This directory holds TLA+ models of its
core logic, the TLC instances that check them and proofs for TLAPS.
Paths are relative to the root of the repository; `td/` abbreviates
`src/telemetry_dashboard/`.

## 1. Inventory

| Component | State it keeps | Operations | Hard behaviour |
|---|---|---|---|
| Telemetry store (`td/telemetry_runtime.rs`, `td/reseed_buffer.rs`) | queue, reseed buffer, compacted rows with live marks, cache on disk | enqueue, trim, drain, compact, merge, replace, restore, persist | provenance through merges, capacity limits, ties in a bucket |
| Continuity (`td/telemetry_reseed_continuity.rs`) | owner and authority of the display, revision | synchronize, begin_seed, current, begin_observation, observe | owner captured before an await and compared after it |
| Reseed (`td/dashboard_transport.rs` `seed_from_db`, `td/dashboard_component.rs` watcher) | SEED_EPOCH, handled epoch, wake channel, RESEED_IN_PROGRESS, status | pick up, request, build in chunks, swap in, fail, retry | live rows during the request, lost wake-ups, silent ends |
| WebSocket session (`connect_ws_supervisor`, `connect_ws_once_*`) | WS_EPOCH, WS_SENDER, connection state | connect, read, close, back off, sweep for a moved station | retired sessions that still run, a supervisor that ends |
| Runtime pump (`td/dashboard_component.rs`) | scheduled flags, hidden pending state | drain, ingest, persist, apply clock reset | wake-ups, rows drained after a swap |
| Clears and clock (`td/dashboard_storage.rs`, `td/dashboard_connection.rs`) | graph floors in memory and on disk, clear epoch, history generation | clear current, clear and reseed, reload, clock reset | clears against requests in flight, restarts, order of clear and clock reset |
| Login and stored sessions (`auth.rs`, `auth_request_identity.rs`, `app.rs`) | current session, status, per-host storage, request revision | log in, log out, refresh, 401, select host | answers for a session that is gone |
| Station selection (`app_connect_page.rs`, `app_connection.rs`, `native_station.rs`) | base URL, paired stations | probe, connect, recover | switching under outstanding requests |
| Command path (`td/actions_tab.rs`, `td/command_confirmation.rs`, `td/dashboard_component.rs`, `td/recording_export_owner.rs`) | press of the supply control, pending confirmation, last activation, error shown | press, release, click, confirm, cancel, submit | policy, login or station changed between two gestures; double dispatch; a channel that closes with a command in it |
| Self-test (`td/self_test_confirmation.rs`, `td/self_test_panel.rs`) | whether the self-test is unlocked: serial, source, floor, evidence; the shared status observation | begin, finish, observe, retire | answers asked for before a post and given after it |
| Sequence progress (`td/sequence_progress_*.rs`) | panels of runs, their details, cached results, cancel intents | poll, accept, fetch a result, open, dismiss, cancel | summaries, details and refusals in any order; a reset history; capacity |
| Board recovery (`td/board_recovery_*.rs`) | status on the screen, dialog with a ticket, phrase, busy work | poll, refresh, prepare, review, confirm, query | everything the ticket was prepared for may change before the click |
| Firmware update (`td/firmware_update_tab.rs`) | targets, board, file, consent, job, owners of the requests | discover, pick, consent, upload, poll, cancel | late answers of an earlier board, file, station or job |
| Settings (`td/paired_settings.rs`, `td/station_settings_request.rs`) | drafts, revisions, request owner | load, edit, save, conflict | conflicting edits, retries |
| Alerts and messages (`td/alert_conditions.rs`, `td/dashboard_messages.rs`) | a view per connection: snapshot, replaced authorities, invalid; lists of events; acknowledged stamps | begin, ingest, disconnect, load the history, project an event | snapshots late, repeated or of another start of the station; an event before, after or without its condition |
| Native storage (`native_storage.rs`, `native_storage/file.rs`, `td/persist.rs`) | files, locks, backups | atomic write, read, transaction | crash between two steps |
| Calibration page (`td/calibration_tab.rs`, `td/calibration_capture.rs`) | the file on the screen, the draft on disk, the selected sensor, dialog of the sequence, requests | load, select, edit, capture, sync, save, discard, apply | late answers over newer edits, a draft of another station or sensor, a capture that replaces |
| Recording export (`td/recording_*.rs`, `td/report_studio.rs`) | list and selection, what is under way, the report's preview and window | refresh, select, import, download, load graphs, export, give up | the owner is gone when the answer or the last chunk comes; who tells the screen |
| Tabs, maps, layout, charts, themes, logging, platform shims | what is drawn | rendering | not models of their own |

What makes them correct, in one sentence each: the display shows rows of the
selected station and login only; a live row is never lost to a reseed; cleared
rows stay cleared; provenance is never laundered; every requested reseed is
taken up and ends, and the status on the graphs says what is going on; an
answer that outlived the owner that asked for it changes nothing; a command that
leaves the frontend is the one the operator chose, goes to the station and under
the login it was chosen for, at most once and in order; a dashboard on screen gets
its socket back.

## 2. Modules

| Module | Models |
|---|---|
| `TelemetryDisplay` | The telemetry a dashboard holds and every operation on it, as operators from display to display: queue, reseed buffer, store, live marks, cache on disk. |
| `TelemetryReseed` | The state machine around it: stations, socket, pump, watcher and history request, operator, login, clocks. Extends `TelemetryDisplay`. |
| `MCTelemetryReseed` | Two stations as model values and the budgets of the runs. |
| `TelemetryReseedProofs` | Lemmas: each operation keeps the display well typed, within capacity, and inside a given set of rows. The invariant of types and stations and its theorems. |
| `TelemetryHistoryProofs` | What reseeds, clears and remounts keep and what they never bring back: the invariant of the requests under way and its theorems. |
| `AccountSession`, `AccountSessionProofs` | The session of the app: address, token, remembered sessions, the shell's gate, and every request that may end a session or move it; its invariant and theorems. |
| `SequenceProgress` | The panels of sequence runs, their poll, results and cancels. |
| `BoardRecovery` | The recovery panel from the status on the screen to a confirmed ticket. |
| `SelfTestConfirmation` | The self-test's unlock, against a clock. |
| `FirmwareUpdate` | The firmware tab. |
| `AlertConditions`, `AlertConditionsProofs` | The conditions a station reports, the events that report them, and when "Nominal" is said; its invariant and theorems. |
| `CalibrationEditor` | The points of the sensors as a draft that outlives the page, against loads, saves of one sensor, discards and captures. |
| `PagesProofs` | The invariants and theorems of recovery, self-test, firmware, calibration and sequences, one part to each; they share nothing. |
| `RecordingExport`, `RecordingExportProofs` | The tab that exports recordings: list, selection, downloads and reports, each under an `ExportOwner`; its invariant and theorems. |
| `MCAccount`, `MCPages` | Three addresses and tokens; the eight components above side by side, one of which moves in each behaviour. |
| `PreferenceStore` | Abstract: preferences as one map on which each call works at once, and which a power failure takes back to no less than what has returned. |
| `NativeStorage` | The file, the lock beside it, the process-wide mutex and the replacement, system call by system call. Implements `PreferenceStore`. |
| `MCStorage`, `NativeStorageProofs` | Three tasks in two processes; the invariant and the refinement. |
| `CommandLine` | Abstract: what the operator may rely on when sending commands. Orders are issued by activations that do not overlap, and carried at most once, in order, as begun. |
| `CommandSession` | The command path and the connection under it: controls, confirmation, sender, channel, socket, supervisors, login, epochs. Implements `CommandLine`. |
| `MCCommandSession` | One or two stations, one token and the budgets of the runs. |
| `CommandSessionProofs` | The inductive invariant, types, the sender of the current socket, the refinement, the supervisors, and what becomes of a queued command. |

`CommandSession` and `TelemetryReseed` share the connection: what the first calls
`here.epoch` and `loops` is the second's `link`, whose socket may come and go at any
time. Neither reads the other's state, so they are checked apart. The same holds of the
account, which the others see as a change of station or login that may come at any
time: `here` in the first two, `epoch` in `SequenceProgress`, `binding` in
`BoardRecovery`, `source` and `OwnerLost` in `SelfTestConfirmation`, `era` in
`FirmwareUpdate`, `identity` in `RecordingExport`, `SessionBegins` in `AlertConditions`, `LosesOwner` and `AddressMoves`
in `CalibrationEditor`. Each of these moves freely there, which allows every order
`AccountSession` can produce.

Two specifications implement an abstract one. `CommandSession` has
`Line == INSTANCE CommandLine`, over the history variables `orders` and `wire`.
`NativeStorage` has `Store == INSTANCE PreferenceStore` with the file for what is
shown and `CallOf(task[t])` for the call: a read is answered by its load, a change
is applied by the rename or unlink and answered by the sync of the directory;
every step before stutters.

### State and code

| Variable | Code |
|---|---|
| `station` | the ground stations: rows sampled, backend instance (environment) |
| `here` | what `LocalOwner::capture` reads: base URL, request revision of the login, dashboard lifetime, `GRAPH_HISTORY_GENERATION`, clear epoch |
| `mounted` | the dashboard is on screen |
| `cont` | `CONTINUITY`: owner, authority, revision |
| `display` | `TELEMETRY_QUEUE`, `RESEED_LIVE_BUFFER`, `UI_TELEMETRY_STORE`, the row cache on disk |
| `floor` | `GRAPH_*_FLOOR_MS` in memory, `graph_history_key()` on disk, `DISPLAY_CLOCK_RESET_PENDING` |
| `seed` | the locals of `seed_from_db` across its awaits, and of the watcher's retry loop |
| `epoch`, `watch` | `SEED_EPOCH`; the watcher's handled epoch, its wake-up channel, `startup_seed_ready` |
| `link` | the socket of the native session |
| `status` | `RESEED_STATUS` and its detail |
| `obs` | the outstanding identity observation |
| `left` | the bound of a run: how often each event of the environment may still happen |

`CommandSession`:

| Variable | Code |
|---|---|
| `here` | base URL, `current_token()`, `WS_EPOCH` |
| `mounted` | the dashboard is on screen and `alive` |
| `policy` | `ACTION_POLICY_SIGNAL` and the permissions of the login, as far as the controls look at them |
| `last` | `LAST_COMMAND_ACTIVATION`, while `COMMAND_ACTIVATION_DEDUP_MS` have not passed |
| `gesture` | `supply_gesture`: the armed press, with what `ExportOwner::capture` read |
| `dialog` | `PENDING` of `command_confirmation.rs` |
| `error` | `COMMAND_SEND_ERROR` |
| `sender` | `WS_SENDER`: whose channel it sends into; `Gone` when the receiver was dropped |
| `loops` | the tasks of `connect_ws_supervisor`, with the `Owner` of the socket, its channel and the message being written |
| `started` | `last_started_epoch` |
| `metrics` | `ws_connected` and `ws_disconnects_total` |
| `orders`, `wire` | history: commands the channel took, with what their activation began with; commands a socket accepted |

`AccountSession`:

| Variable | Code |
|---|---|
| `base` | the configured station, `UrlConfig` |
| `account` | `CURRENT_SESSION`, its host scope, and which station's answer `CURRENT_STATUS` is |
| `entries` | the remembered sessions on disk, pruned to `AUTH_STORAGE_LIMIT` |
| `gate` | what the shell shows: connect page, login page, checking, dashboard open or closed, failed |
| `inFlight` | the requests under way by the task that awaits them: the gate's, the retry's and the refresh's status, the search for a paired station, a data request (`poll`), an owned request of a gesture, login, logout, the supervisor's sweep |
| `server`, `ended` | the tokens the stations accept; history: the tokens signed out or erased |

`SequenceProgress`:

| Variable | Code |
|---|---|
| `station` | the runs of the station and its reset epoch (environment) |
| `epoch` | `WS_EPOCH` |
| `model` | `Model`: source, scope, panels, results, requested details, notices, unavailable, API |
| `poll`, `fetches` | the observation and the result requests of `SequenceProgressHost` across their awaits |
| `cancels` | the cancel request, and whether a second intent was sent |

`BoardRecovery`:

| Variable | Code |
|---|---|
| `binding`, `backend` | `ConnectionBinding::current()`; the station's boards and last ticket |
| `snapshot`, `reads`, `serial` | the status on the screen, the poll and the refresh, `request_serial` |
| `pending`, `phrase`, `work` | the dialog, the typed confirmation, the busy task (prepare, review, confirm, query) |
| `late`, `posted` | whether the ticket's time is over; history: confirmations sent |

`SelfTestConfirmation`:

| Variable | Code |
|---|---|
| `time` | `monotonic_now_ms` |
| `dryStation` | the station: is the self-test unlocked, and when it last was |
| `source`, `owner` | `WS_EPOCH`; `self_test_owner` |
| `unlock` | `Model`: serial, source, busy, confirmed, floor, last observation, evidence |
| `observed`, `status`, `post` | the `StatusObservation`, the status request, the confirmation under way |
| `since` | history: has the station been unlocked since the last post ended? |

`FirmwareUpdate`:

| Variable | Code |
|---|---|
| `era` | what every `ExportOwner` is captured in: station, login, display |
| `jobs` | the jobs of the station |
| `tab` | the signals of the tab: targets, board, file, consent, operation, submitting, update, the job's owner |
| `discovery`, `picking`, `flashing`, `cancelling` | the tasks across their awaits |
| `flashed` | history: the uploads, each with the consent it was sent on |

`AlertConditions`:

| Variable | Code |
|---|---|
| `alertStation` | the station: the snapshot it would give, what it raised, finished and logged (environment) |
| `view` | `View`: connection, connected, snapshot, retired authorities, invalid |
| `socket`, `stray` | the session that feeds the view and what is on the way; a snapshot that comes late or once more |
| `events` | the warnings and errors shown, as links to conditions |
| `history` | the request for the alert history across its await |
| `newest`, `calm` | history: the newest snapshot this connection was given; was there anything to report at every moment of it? |

`CalibrationEditor`:

| Variable | Code |
|---|---|
| `site` | the configured address, and how often it has changed |
| `selected` | `selected_sensor_id`, kept on disk once for all addresses |
| `stored` | the calibration file of each station (environment) |
| `drafts` | `load_calibration_draft`, `save_calibration_draft`: one draft to an address |
| `editor` | the signals of the mounted page: `cfg`, `dirty`, `loaded`, the sequence dialog, saving and capturing; `current` is `settings_owner.current()` |
| `requests` | layout, load, sync, discard, save, the panels' results, and the capture, across their awaits |
| `made` | how many points there are |
| `settled`, `fresh` | history: points some station had or the operator gave up; is there a confirmation no capture has used? |

`RecordingExport`:

| Variable | Code |
|---|---|
| `identity` | what every `ExportOwner` is captured in: station, login, connection, display |
| `exporter` | the signals of `RecordingDownloads`: `selected`, `selection_epoch` (`choice`), `query_epoch`, `list_owner`, `recordings`, `loading`, `downloading` |
| `studio` | the signals of `ReportStudio`: its recording, `query_epoch`, `owner_state`, the window in the fields (`typed`) and the one loaded, `preview`, `busy` |
| `errands` | the list, the download, the preview and the report across their awaits |
| `saved` | history: the last file that got its name |

`NativeStorage`:

| Variable | Code |
|---|---|
| `file` | the content a reader of the preferences finds |
| `kept` | what the medium may hold after a power failure: the content at the last sync of the directory and every replacement since |
| `mutex`, `lock` | `STORE_LOCK` of each process; the OS lock on the sidecar (`transaction_lock`) |
| `task` | where each call is, and the copy it loaded |
| `spent` | the bound of a run: calls, kills and power failures so far |

The frontend runs its tasks on one thread (Dioxus' local executor), so the code
between two awaits is atomic: an action stands for one such stretch and does
everything the stretch does. `seed.pc` names the awaits of `seed_from_db`:
`clock` (`/api/system/time`), `recent` (`/api/recent`), `build` (the chunked merge
yields), `tail` (the snapshots after the telemetry), and `backoff` in the watcher.

### What is abstracted

* A row is a sample of one channel of one station with its place `n` in the order
  of sampling and receipt, which stands for the timestamps compared. The alignment
  of the station's clock to the client's is taken as exact; the copy of a row in
  the history equals the row on the socket. Retention, the byte limit of the
  buffer, the latest-value table and the chart cache are left out.
* Rows of `BucketRows` consecutive `n` share a slot of the store (`UI_ROW_BUCKET_MS`).
* A message of several rows is several steps; the pump drains any number of rows,
  and writes the cache or not (it is due by time).
* The native build: the open handler runs at connect and a retired session stops
  delivering (`native_session::Owner`). The wasm build queues open and message
  events for the pump; see the hazards.
* Dioxus rerenders dirty components before it polls tasks again. An action that
  bumps the clear epoch while mounted therefore includes the rerender of
  `TelemetryDashboard`, which publishes a new lifetime. Whether the inner dashboard
  is rebuilt when the key of the root changes is the framework's doing: `Remounts`
  has both values in the runs.
* Leaving, logging out and switching stations include the unmount of the
  dashboard; `SelectStation` covers both ways the connect page ends
  (`tested` or not), `StationSweep` the supervisor's own move.
* The snapshot `/api/recent` answers with is the station's rows when the request
  is sent; sending and answering are separate steps.
* The history variables `got`, `trimmed`, `omitted` and `floor.cut` are read by
  properties alone.
* Commands. The supply valve has two commands, shown one at a time; one reset
  stands for the two that need a confirmation, `Go` for every other command. A press
  that was cancelled or got too old is no press: `SupplyGesture::current` refuses
  both. The second event of a touch that also is a pointer, and pointerup, change
  nothing. The rerender that follows a policy comes before the next click.
  `PENDING_COMMAND_PRESS` only lights the button and is left out, and so is the inert
  area a closed dialog leaves (`RETIRED`).
* The socket. `loops[i].at` names the awaits of `connect_ws_once_native`:
  `connecting`, `open` (the select), `writing` and `flushing` (the send, before and
  after the socket accepted the message); `sweep` and `ready` are those of the
  supervisor. `await_owned` looks at the owner before it polls, so a task that lost
  its session gets no byte to the socket any more, and `Retire` is its next step.
  Tasks that Dioxus drops with the dashboard do the same.
* The station executes its commands itself: proxying to a primary station is not
  modelled. The browser's sender checks `readyState` and has no channel; the native
  one is modelled. The policy that arrives first after a mount is not counted in the
  budget.
* The account. A token is accepted at its homes: one address, or all peers for an
  installation token (`Paired`). Passwords, the login proof and permissions by command
  are left out; whether a status differs from the one before is a choice, and so is
  what `native_station::find` finds among the peers that prove themselves. Restarts
  happen between two steps: what is on disk is what `NativeStorage` guarantees.
* Sequences. A snapshot is a run, a revision, ended or not, with details or not. A
  revision of a run is made once. The clock is `Ages` and `Closes`; a poll whose
  freshness expired is one that failed. The cold-flow release, the surface that is minimized
  and the bound on cached results are left out.
* Board recovery. What makes a ticket differ from the status under review (boards,
  generations, mode, permissions, operation) is one number, `context`, that the
  station moves; the code compares the fields by value, so that a context that came back to
  what it was would match there, and is a new one here. Which action is eligible is a free choice.
* Self-test. Time is whole ticks; a clock that goes back or is not finite is left out.
  `PostLimit` is the time after which a post is given up, `FRESH_MS` is `Fresh`.
* Firmware. What an owner captures beside board and operation is `era`. The names and
  sizes of files are left out. The unmount of the tab ends its tasks and is left out.
* Alerts. An occurrence has a key of its own, so a record is found by it; the keys,
  stamps and wording of conditions are left out, and so are acknowledgements, which
  concern events without a condition. Links are well formed: an event names the
  revision that has its condition. A relay may delay or repeat one snapshot, in its own
  connection or a later one; what does not parse is `Garbles`. Aborts of the board and
  the clear of a single list are left out.
* Recordings. Whatever an `ExportOwner` compares beside the selection is one number,
  `identity`; no change is undone, since each has a counter or a generation of its own
  (`actual_renderer_owner_retires_each_identity_aba_without_reusing_strings`). A mounted tab
  can capture an owner: there is an address and a login. Effects run with the change they
  react to, before a timer. The key of the tools below the list replaces nothing, as they
  are no members of a list: the report is reset by its own effect. The window is all
  or a part; sliders, channels and formats are left out. In the browser the file is handed
  over as a whole, which is `Parts = 1`.
* Calibration. A file is a set of points, each of a sensor and with a number of its own;
  coefficients and zeros count as points. A draft is a whole file. The buttons that select a
  sensor are disabled while the page has edits (`PicksSensor`), but the sensor on disk is one
  for all addresses and a mount restores whatever draft its address has, so a draft may be of
  another sensor; and the layout of the station selects its first sensor, edits or not, if it
  lacks the selected one (`Mounts`, `LayoutArrives`: any sensor may turn out to be the first).
  The station answers a save by its file with the points of the sensor that was saved (`Saved`).
  Edits are of the selected sensor. A point entered or captured again for the same mass is a
  further point here, where the code replaces the point of that mass (`upsert_point_by_key`), as
  the operator asked. The cached copy, fit and preview, readings that were not entered, the
  capture of a single point and the samples are left out, and so is a layout without any sensor.
  Dioxus polls the tasks before it runs the effects, so the draft is read before the effect that
  keeps it first runs: it never clears a draft nobody saw. The dialogs are modal, hence the
  guard `dialog = "closed"`; the one that asks whether to discard is closed again before its
  request is sent, so the page is edited while that is awaited. A save by another client is
  `OthersSave`, at the configured address. The await of a request looks at the owner before it
  looks at the answer (`ExportOwner::wait`), so the requests of a page end when it loses its
  owner, and only then can the address move; what a station still does with a post that was sent
  before is left out.
* Preferences. A content is a map of keys to values, no file, or `Malformed`. The
  temporary file has a fresh name, so nobody else sees it, and it is part of its task. A power
  failure leaves any content in `kept`; a rename is atomic; the OS frees the lock
  of a dead process. The Windows variant of the replacement and the browser's
  storage are left out.
* An operator named in a comment "Mutant:" is not part of the specification. It
  is a broken variant of the definition after it, used to see that a property
  notices the difference.

## 3. Runs

Constants of the `TelemetryReseed` runs: `Attempts = 2` (code: 3), `QueueCap = 2`, `BufferCap = 1`,
`BucketRows = 2`, so that trimming, omission and sharing a slot all happen with
two or three rows. `Budget` bounds the environment; the frontend's own steps are
not bounded. Deadlock is not checked: an exhausted budget ends a behaviour, and
so may an operator who stops.

| Run | Instance | Checks | Shows |
|---|---|---|---|
| `Display` | 2 stations, under seven budgets: 3 rows, drop, failure, foreground or reconnect; 2 rows, the same, reload and a calibration change; 2 switches, leave, change of grants; an observation twice with three choices among switch, login or logout, 401 and replaced backend; clear, clear-and-reseed, clock step, restart | `NoLiveRowLost`, `LoadedMeansComplete`, `RequestHasWakeUp`, `ReseedKeepsHistory`, `StationIsolation`, `LiveMeansReceived`, `AuthorityOfOwner`, `ClearedStaysCleared` | the reseed keeps live rows and drawn history and reports what it omits; the watcher loses no request; no rows cross stations, late answers are refused, cleared rows stay away, also after a restart |
| `Fair` | 2 rows, drop, foreground, calibration; `BucketRows = 1`, capacities 3 | `HistoryIsWhole`, `RequestTakenUp`, `SeedEnds`, `RunningEnds`, `HistoryConverges` | a settled display shows all the socket is past; liveness |
| `Supply` | 1 station, supply control, 2 commands, 1 each of failure, policy, 401, reconnect or reload | `CurrentSocketHasSender`, `LineSpec` | the supply control implements `CommandLine`; one socket has the sender |
| `Resets` | 2 stations, reset and plain command, 2 commands, 1 each of failure, leave, found | `LineSpec`, `LinkRestored` | so do confirmations; the socket comes back, also at another address |
| `Storage` | 3 tasks in 2 processes, 2 keys, 5 requests, 3 calls, 1 kill, 1 power failure | `StoreSpec`, `CallEnds` | the preferences implement `PreferenceStore`; every call ends |
| `Pages` | the eight components of `MCPages`, see below | the 21 properties below | what each page promises about late and reordered answers |
| `StuckRunning` | 1 row, 1 change of grants | `RunningIsHonest` violated | finding 2 |
| `EpochLost` | 2 rows, 1 clock step | `NewEpochRowsStay` violated | finding 3 |
| `ClearLost` | 1 row, 1 clock step, 1 clear | `LaterClearHolds` violated | finding 4 |
| `SaveForgets` | 2 addresses, 2 sensors, 1 point, 1 change of address | `SaveKeepsOthers` violated | finding 5 |
| `Late401` | 3 addresses, 3 tokens, 2 requests at once | `RefusalEndsItsOwn` violated | finding 1 |
| `StuckExport` | 2 recordings, 1 change of identity | `DownloadEnds` violated | finding 6 |

Two commands are enough to see one overtake, repeat or replace the other, and one
event of each kind puts it between any two steps of an activation or of a socket.
`Supply` needs one station only, since nothing in its budget changes the station;
`Resets` has two, which leaving and the sweep choose from. The supply control and the
confirmation share no state but `last` and the channel, so they are explored in two
runs; the theorem `LineImplemented` covers them together.

`Pages`. The eight components share no state, so `page` chooses which of them moves and
the others stay at an initial state: one search covers them all, and every
interleaving inside a component is explored.

| Component | Bounds | Properties |
|---|---|---|
| `AccountSession` | 3 addresses, an installation token of all and a login of each of two, 2 remembered sessions, 2 requests at once | `TokenStaysHome`, `SignOutLasts`, `RememberedIsCurrent`, `OwnedAnswerIsOurs` |
| `SequenceProgress` | 3 runs in 2 eras, 2 panels, 2 revisions, 1 reconnect, 1 result or cancel at once | `RunningStaysShown`, `PanelsOfThisEra`, `CancelOnce`, `DetailsStay` |
| `BoardRecovery` | 2 logins, 1 change of context, 1 ticket | `TicketOnce`, `ConfirmIsReviewed`, `ScreenNeverBack` |
| `SelfTestConfirmation` | 3 ticks, freshness and post 1 tick, 1 reconnect, 1 post | `UnlockIsRecent`, `OldAnswerNeverUnlocks` |
| `FirmwareUpdate` | 2 boards, 2 files, 2 eras, 3 operations, 1 job | `FlashIsConsented`, `ConsentIsSpent` |
| `AlertConditions` | 1 occurrence, 2 starts of the station, 3 revisions, 2 connections, 1 message under way, 1 replaced authority | `NominalIsHonest`, `QuietEventIsOver` |
| `CalibrationEditor` | 2 addresses, 1 change of address, 2 sensors, 2 points, 1 of which an earlier visit may have left in a draft, 1 request beside a capture; until the layout is there only loads and captures | `EditsStay`, `ReplaceIsConfirmed` |
| `RecordingExport` | 2 recordings, 1 change of identity, 2 tasks, 3 selections or requests, 1 chunk | `ExportIsChosen`, `BusyIsHonest` |

Two requests at once are the race between a late answer and a new request; a third address tells
"another station" from "the one before". Three runs with room for two make one panel give way.
Three operations and two eras let a file be picked, a board be changed and a consent be given
again while the first is under way. With one ticket, a second confirmation can only be of the
same. Two starts and two connections put a snapshot of the first into the view of the second;
with three revisions a condition is raised, ends and is dropped. The first start has all its
evidence at once there; a second start has to wait for it. Two points are one that is in a draft
and one that comes after it; two sensors are the one that is selected and one that is not.
Sensors are alike, and so are addresses, so the first point is always of the same sensor and the
same address is configured at the start. The address moves only to one where an earlier visit
left a draft (`CalBounded`): what goes wrong there goes wrong with that draft. Three selections
are one recording, another and the first again. The theorems of section 5 cover all eight
components for every bound, a second post of the self-test among them. The types of
`TelemetryReseed`, `CommandSession` and `NativeStorage` are the theorems `TypeCorrect`,
`SessionTypes` and `StorageTypes`, those of the pages theorems of section 5, and no run repeats
them.

`Storage`. Two tasks of one process meet at the mutex, the third only at the lock. Three
calls allow a write by each task; of the kill and the power failure each may hit any
step.

`RunningIsHonest` is violated by a change of grants and by a clock step (finding 2);
without those two the status leaves "running", which `RunningEnds` states. `ClearedStaysCleared` says nothing
while a clock reset is pending (that is finding 4) and nothing of the cache, which
is filtered when it is restored. `HistoryConverges` is checked with one row to a
bucket and without failures: with more, rows queued before a reseed are drained
after it and may take the slot of a newer row of the same 20 ms, and a reseed
that fails with rows visible is not repeated. `HistoryIsWhole` is its safety side: it
asks for the bucket of a row, not the row, and is checked here with one row to a bucket and
proved (`SettledIsWhole`) for any number, failures, clears and changes of owner included.

**Fairness.** Weak fairness of every step of the frontend's own tasks (mount,
startup, connect, deliver, pump, watcher, each stage of the request), because the
executor polls every woken task. Nothing is assumed of the operator and the
stations, nor that a request succeeds; failures are bounded by the budget.

In `Resets`, `Spawn` and each supervisor are weakly fair (`FairSpec`): an effect whose
signal changed is rerun, and a woken task is polled. A supervisor's fair steps
include `Opened`: a station that is there accepts the connection, and what prevents
it is a `ConnectFails` of the budget. `MaxLoops` is the number of epochs the budget
allows, so no supervisor is left out.

In `Storage`, each task is weakly fair (`FairStorage`): the thread that makes the call
is scheduled, and a lock that is free is taken by a waiting thread. System calls may
fail instead; kills and power failures are of the budget. Only finitely many calls are
made, so weak fairness is enough although a lock may pass from task to task.

`Pages` states no liveness: its polls and timers are open loops whose answers may
stay away.

## 4. Findings

1. **A late 401 ends a newer session** (`Late401`). `http_get_json` and the other plain
   requests clear whatever session is current when a 401 arrives. A request sent with
   an expired or replaced token that is answered late signs the operator out and forgets the
   newer session on disk. `td/recording_download.rs:185` and
   `td/firmware_update_tab.rs:166` guard exports and firmware against that by hand; the plain
   requests have no such guard.
2. **Status stuck on "running"** (`StuckRunning`). When the periodic session check sees
   other grants, `REQUEST_REVISION` moves, the history request in flight is no longer
   current and returns `Ok(())`; nobody sets the status or requests another reseed.
3. **Rows of the new epoch are dropped** (`EpochLost`). The clock reset keeps the rows
   queued since the step, but the rerender it triggers publishes a new lifetime and
   the next `synchronize` retires the display a second time.
4. **A later clear is forgotten** (`ClearLost`). The pump's clock reset removes the
   saved cutoff whoever saved it; a clear between the step and the pump is lost.
5. **A save forgets the edits of another sensor** (`SaveForgets`). A save posts the edited
   file and the channel of the selected sensor (`td/calibration_tab.rs:2071`), and the station
   keeps the other sensors as they were. The page compares only the file with the one it
   submitted, shows the answer, and clears the draft (2080). But the draft may be of another
   sensor: edit sensor X at one station, pick Y at another, come back, and the draft of
   X is restored with Y selected. Save then posts Y; X's edits are neither at the station nor on
   disk, and the page says "Selected sensor saved; other calibrations preserved" (2084).
   `README.md:409` promises that no remount discards an edit before it is saved. A
   layout that lacks the selected sensor (1435) does the same without a second station.
6. **A download that never ends on the screen** (`StuckExport`). The effect that asks for the
   list captures its owner by reading signals (`WS_EPOCH`, the lifetime, the clear
   epoch, the address), so it runs again when one of them moves: the reload button or the
   sweep is enough. A download under way loses its owner then and ends silently; the timer,
   which would reset the tab, finds the new owner of the list and does nothing. Selecting,
   refreshing and downloading stay disabled until the connection, station or login
   changes once more or the tab is left, while `td/recording_export_owner.rs:92` says to
   select the recording again.

Seen while modelling, without a run of its own:

* `hard_reload_dashboard_data` clears queue, store and cache before it requests the
  reseed (`td/dashboard_connection.rs:545`), while `README.md:393` says an explicit
  reseed keeps the history visible. `ReseedKeepsHistory` holds for every other reseed.
* A session check that finds other grants keeps the dashboard on screen
  (`app.rs:675`, "Refresh grants without tearing down a working dashboard") and moves the
  request revision. The next synchronize retires the display for its new owner, and since
  nobody requests a reseed the graphs stay empty but for what arrives afterwards, until the
  next reseed. This is why `SettledIsWhole` supposes that no grants are refreshed so.
* `fetch_session_status` writes a late answer of another station into the status that
  is shown (`auth.rs:451`); the next refresh, five seconds later, replaces it.
* A firmware consent ticked before any board was chosen goes along to the board the next
  discovery selects (`td/firmware_update_tab.rs:310`); `FlashIsConsented` therefore
  allows that board.
* A cancel that is answered after the poll saw its job end shows the job as running,
  and nobody polls it any more (`td/firmware_update_tab.rs:558`).
* A refresh that fails closes the recovery dialog but leaves the typed phrase, which
  the next dialog then finds filled in (`td/board_recovery_panel.rs:233`).
* With all panels taken, a new run takes the place of the first finished one even while the
  operator reads it (`td/sequence_progress_model.rs:701`); `DetailsStay` excludes
  that.
* Removing a file that is gone returns without syncing the directory
  (`native_storage/file.rs`): after a remover that was killed before its sync, the
  next removal returns at once and a power failure may still bring the file back.
  `PreferenceStore` allows it (`Answer`).
* A retired native session returns without telling the view
  (`td/dashboard_transport.rs:1989`), which stays connected, with its last snapshot, until
  the next session begins.
* The answer of `/api/alerts` replaces the lists (`td/dashboard_transport.rs:1179`); a
  warning that arrived while it was under way is gone until the next answer
  (`HistoryShown`).
* `README.md:413` says captures cannot overlap, but "Capture for Point"
  (`td/calibration_tab.rs:2457`) is not disabled while another capture runs, and one whose
  sensor was deselected meanwhile returns without clearing `manual_capture_busy` (2504).
* The result of the long zero capture, or of the temperature panel, replaces the file on
  the screen (`td/calibration_tab.rs:2812`, 2822), with what was edited while it was under way;
  and so does the answer to "Discard and reload" (2008), which is awaited with its dialog
  closed and the page open to edits. `EditsStay` allows either loss, but of a discard only
  for points that were not there when it was pressed.
* A command can be lost without a word. The native `WS_SENDER` is there before the
  connection is (`td/dashboard_transport.rs:1794`), and its channel takes any number of commands,
  each reported as sent. When the connection fails, or closes with commands in the channel,
  they are dropped and `COMMAND_SEND_ERROR` stays empty. `CommandLine` allows the loss;
  `OnlySocketsLose` says it is the only one.
* An upload whose answer is lost keeps the consent (`td/firmware_update_tab.rs:520`), since
  the tab cannot know whether a job began; `ConsentIsSpent` is about the jobs it knows.

## 5. Proofs

Every theorem holds for every value of the constants that satisfies the assumption of its
module: sizes positive, the home station a station, a budget for each event.

`TelemetryReseedProofs` proves, for every set of stations, capacity, budget and both
values of `Remounts`, from `DisplayAssumption` and `ReseedAssumption`:

* `TypeCorrect`: `Spec => []TypeOK`.
* `StationsIsolated`: `Spec => []StationIsolation`.
* `RequestsLeadOn`: a step leaves the request under way as it is, ends it, or brings it to a
  later await or a later attempt, of which there are at most `Attempts`, whatever is
  received, cleared or switched meanwhile. That is the safety core of `SeedEnds`: what
  `Fair` adds is that the request is not left waiting for ever.

The invariant `IInv` conjoins typing, finiteness of the sampled rows, "every row in
the display is of the selected station" and `SeedOwned`: a history answer held for
an owner that is still the current one has rows of that owner's station.
The last part is what makes isolation inductive: every change of station also moves
the request revision of the login, so an answer for the old station can never be
current again. `StationIsolation` alone is not inductive, since it says nothing of
the answer a request holds. Each action has its lemma; the display's operations are
reasoned about once, as `Held(R)` lemmas ("rows of the result are among R").

`TelemetryHistoryProofs` builds on it and proves every other property of the run
`Display`: `NoWakeUpLost` (`RequestHasWakeUp`), `LiveRowsArrived`
(`LiveMeansReceived`), `ReceivedRowsKept` (`NoLiveRowLost`), `LoadedIsComplete`
(`LoadedMeansComplete`), `AuthorityIsOwners` (`AuthorityOfOwner`), `ClearsLast`
(`ClearedStaysCleared`) and the action property `ReseedsKeepHistory`
(`ReseedKeepsHistory`), and what `Fair` checks of displays at rest, `SettledIsWhole`
(`HistoryIsWhole`). Few of these are inductive: whether a row
survives is decided when what was loaded is swapped in, long after the request
was sent. `HInv` adds what makes them so.

* `Captured`: what a request or an observation captured is no later than now, and one
  that moved on never becomes current again (`Moves`, `MovedOn`). So what is said of a
  request need only hold while it is current, and most actions end that.
* `Numbered`, `LinkAhead`, `Received`: what the socket delivers next is newer than all that
  came, and queue and buffer are in that order. So the order of application (answer,
  then buffer, then queue) keeps the newest row of each bucket.
* `NoneLost` is the property, for the graphs and for the queue together; `Coverage` is its
  counterpart for the request: while it is current, each row that must not be lost is in the answer,
  the buffer or the queue, or will be, since the answer has not been sampled yet.
* `CutOff`: nothing shown, buffered or loaded is below the cutoff, and memory and disk
  agree on it while a request runs.

`SettledIsWhole` is the converse of isolation: what is there is shown. It has a hypothesis,
`Undisturbed`: no grants are refreshed in place (section 4) and no clock steps back (finding 3,
4). Nothing else has to be excluded, neither failures nor clears nor changes of station,
login or backend. `HistoryIsWhole` speaks of displays at rest, so its invariant `WInv` speaks
of those on the way there: nothing is owed while a reseed is `Awaited` (requested, or
startup or a connection that requests one is to come); the watcher's pick-up is what ends that,
and from then on each row due is `Promised`: the request is current and has the row, or will
ask for it, or the live buffer has it, or no request is current and the row is
shown or queued, or the screen says that loading failed. Each step that takes a promise back
requests a reseed (`RequestsOrAwaits`) or excludes the rows (`ClearedWhole`). Of the same
invariant follows `RunningIsHonestOtherwise`: finding 2 has no other cause than those
two steps. `LaterClearHoldsOtherwise` says the same of finding 4: as long as the clock does
not step back, what a clear excludes for the operator is what is saved, and nothing of it
is drawn again.

Steps are summarised before they are reasoned about (`WakeStep`, `Advance`, and one
predicate for each way the display changes), with one lemma for each action and summary.

`CommandSessionProofs` proves, for every set of stations, tokens, controls, number of
commands and budget:

* `SessionTypes`: `Spec => []TypeOK`.
* `SenderKept`: `Spec => []CurrentSocketHasSender`.
* `LineImplemented`: `Spec => LineSpec`, the refinement of `CommandLine` (its variables
  `orders` and `wire` are those of `CommandSession`).
* `LinkIsSupervised`, `FoundMovesOn`: a mounted dashboard has a supervisor that has not ended,
  or the effect that starts one is still to run; and a station found elsewhere always moves the
  epoch.
* `OnlySocketsLose`: a command leaves its channel only onto the wire, or with its socket.

The only assumption is `SessionAssumption`. Beside the types the invariant has two
parts. `Sockets`: an epoch has one supervisor and none is of a later epoch (`Epochs`,
`Alone`: that is why the effect remembers what it started); within an epoch a login
can only be lost (`LoginKept`: so a socket that lost its session never gets it back,
and a 401 leaves no owned socket); the current socket has the sender; and the
channel of the current socket holds, in order, orders made for this station and
login, later than all that was carried (`Channels`, `Carried`). `Begun`: a press or
an open dialog is younger than the last command of its kind, because submitting one
consumes it. The steps of the operator use `SubmitInv`; a new epoch, in which no
socket is current, uses `NewEpoch`; a supervisor that loses or keeps its socket uses
`WithoutSocket` or `WithSocket`.

`LinkIsSupervised` is the safety core of `LinkRestored`. The reload after a found station moves
the epoch only if there is no sender, and without a new epoch no supervisor follows the one
that ends. `SInv` shows that there never is a sender then: a socket that fails takes the sender
along; one that is retired in its own epoch lost its login, never its station (`Placed`), and
without a login nobody sweeps (`Sweeping`). `CommandLine` lets a command be lost at any
time; `OnlySocketsLose` says that the code loses one in a single way. It rests on `Vacant`
(a supervisor without a socket has an empty channel and writes nothing) and `SenderLives`
(who has the sender has a socket that takes from it).

`PagesProofs` has five parts. That of `SelfTestConfirmation` proves `SelfTestTypes`, `UnlockedRecently` and
`UnlockedSince`, from `SelfTestAssumption`. Its invariant `DryInv` says that what the
model holds is borne out (`Founded`): a control shown as unlocked has evidence no later
than `PostLimit` after the station was last unlocked, and has been unlocked since the
last post. The same must hold of everything that may still be learned (`Told`): the
observation and the status request, if they were asked for after the floor. The
properties alone are not inductive, since they say nothing of those.

That of `BoardRecovery` proves `RecoveryTypes`, `TicketsOnce`, `ConfirmsReviewed` and
`ScreenAdvances`, from `RecoveryAssumption`. `RecoveryInv` adds `Sent` (what was
confirmed is a ticket of the past), `DialogOpen` (there is a dialog or a task, never both, and its ticket
is unused; a context that was over when the operator clicked differs from the one
the review reads) and `Screen` (the request asked for last, once served, is not older
than the screen).

That of `FirmwareUpdate` proves `FirmwareInvariance`, `FirmwareTypes`, `FlashesConsented`
and `ConsentsSpent`, from `FirmwareAssumption`. `FirmwareInv` ties what stands on the
screen together: a consent is for the file and board shown and unspent (`Consented`), a
file is of the listed targets (`Filed`), a file that is still being read and may be
used was picked for them (`Picked`), and a job that is known was begun (`Known`).

That of `CalibrationEditor` proves `CalibrationInvariance`, `CalibrationTypes`, `EditsAreKept`
and `ReplacementsConfirmed`, from `CalibrationAssumption`. `CalInv` has `PageOK` (the draft on
disk is the page's as long as the page has its owner; a confirmed dialog is of a capture that
was `fresh` when the operator answered it) and `RequestsOK`, where `Carries` says of every
request under way what its answer will bring: a save that was answered has the points of its
sensor at the station, a capture that replaces was confirmed. The two properties need it because
an edit is lost, or a sensor's points replaced, by an answer that comes steps after the choice
that justifies it; `LostIs`, `DraftsChange` and `CaptureBack` say for each action what becomes
of the edits, the drafts and the capture. `EditsStay` is exact about what the code loses:
`Excused` names, point by point, a discard that drops an edit made after it was pressed, a save
that drops the edits of a sensor it was not of, and the result of a panel; no other step takes
an unsaved edit away.

That of `SequenceProgress` proves `SequenceInvariance`, `SequenceTypes`,
`PanelsAreOfThisEra`, `CancelsAreSentOnce`, `RunningKeepsItsPanel` and `DetailsAreKept`,
from `SequenceAssumption`. None of the four properties is inductive. A panel may be closed,
make room or be cleared with its history while its cancel is spent, and come back with the
next answer, which may have been on its way since before; and a result is opened by what was
asked for long before. `SeqInv` therefore says what the answer under way lists (`PollOK`:
runs of its own era, a running one only if nothing the dashboard holds shows it over), what
may still be fetched (`FetchesOK`), that all the dashboard takes for over is over at the
station (`KnownOver`), that a cancel of this connection is spent (`Spent`: its panel knows,
or shows the end, or the run is gone and not in the answer either), and that no cancel is of
a later connection (`IntentsOK`). `Good` puts what it says of the panels into one predicate,
which an envelope is shown to keep snapshot by snapshot (`TakenIsGood`, `TakenKeeps`). An
envelope has any length: `EnvelopeStays` says that a set of models which every snapshot
keeps has the outcome in it. Its induction is over the least length at which that fails; it
is within the prover's reach because the lemma takes a set and not an operator. The steps of
the operator and of results use `ShowsStep`, those of cancels `IntentStep`, those of the
station `StationMoves`.

`NativeStorageProofs` proves `StorageTypes`, `OneAtWork` and `StoreImplemented`, from
`StorageAssumption`, for every set of tasks, processes, keys, values and requests.
A fourth, `NoDeadlock`, is the safety core of `CallEnds`: as long as a call is under way, some
call can take its next step, for whoever holds the lock waits for nothing (`HolderWorks`) and
a lock nobody holds can be taken. `StorageInv` has `Exclusive` (past the lock a task holds it) and `Fresh` (until it renames, a
writer's copy is what the file holds): that is why the write of a whole map
implements the change of one key. Each action maps to a step of `PreferenceStore` or
to a stutter.

`RecordingExportProofs` proves `ExportInvariance`, `ExportTypes`, `ExportBusy` and
`ExportChosen`, from `ExportAssumption`. Neither property is inductive. `ExportInv` adds
`Bygone` (no owner is later than the tab's numbers, so that an owner that is gone never
holds again: lemma `OwnersAge`), `AsBegun` (a task has the recording and the selection
its owner was taken for and, while the owner holds, they are on the screen) and `Alone`
(at most one task of each kind can still have an effect).

`AccountSessionProofs` proves `AccountTypes`, `TokensStayHome`, `SignedOutForGood`,
`SessionIsRemembered` and `OwnedAnswersAreOurs`, from `AccountAssumption`: all of what
`Pages` checks of the account. `AInv` has `Sound` (the session in use and each one remembered
is of an address that accepts it and not signed out, and the one in use is
remembered if it may be), `Ledger` (a token that a login may still hand out was never
signed out, and no paired token is handed out) and `Flights`: a request of a page
goes to the address in use and lives as long as the page, the search and the sweep
carry a paired token that is not signed out, and an owned request that was moved was
revised. `Flights` is what the properties lack: a token signed out must not come back
with an answer. The store is a sequence that calls filter; `EntriesAt` (the
elements at given positions, in order) has a closed definition, so that what a filter
keeps needs no induction (`Ranked`, `EntriesAtTyped`).

`AlertConditionsProofs` proves `AlertTypes`, `NominalIsDeserved` and
`QuietEventsAreOver`, from `AlertAssumption`. `AlertInv` puts everything the station ever
said into one order (`NotAfter`): what is on the way comes in that order and after the
newest that came (`WireOK`), a copy that comes late is no newer than it, or of an earlier
connection (`StrayOK`), and a connected view has followed it to the newest authority it
had room for (`Follows`). Every snapshot there is carries its own ground
(`Past`): the station has been there, conditions that it evaluated, does not list and that
were reported by then are over (`Explains`), and, if it has nothing to report and is of
this connection, so it was at some time of it (`Ours`). A snapshot of an earlier connection
has no such ground, which is why a stray is told apart by its connection.

Only model-checked: everything under fairness (`CallEnds`, `LinkRestored`, and what `Fair`
checks beside `HistoryIsWhole`), which is out of the prover's reach, as is ENABLED. What is
safe about each of them is proved: that no step stops what must go on
(`NoWakeUpLost`, `RequestsLeadOn`, `NoDeadlock`, `LinkIsSupervised`), and that where it comes to
rest is right (`SettledIsWhole`, `RunningIsHonestOtherwise`). Out of reach, too, are the library's theorems
of induction, which take an operator; where induction is needed, as in `EnvelopeStays`, it is
over the least member of a set.

## 6. Not modelled

* Paired settings: a state machine of its own beside the pages, which shares no state
  with the modelled ones but the owner (`ExportOwner`) that `OwnedAnswerIsOurs` and
  `FirmwareUpdate` cover. So do the exports of a range of time, of checklists and of the
  recovery history: one request under one owner, without a selection.
* Route probes, discovery on the wire, the login proof: cryptography and I/O; what they
  decide is a free choice of `AccountSession`.
* Commands proxied to a primary station, the browser's sender and storage, the pump's
  queues of the browser build: other targets of the same code.
* Tabs, maps, charts, layouts, themes, translations, network metrics: views over state
  kept elsewhere, without an order of events that matters. Most of the repository's
  lines are these, and the vendored windowing library under `vendor-tao`, which is
  third-party code.
* Recorded replay, logging, platform shims: I/O.

## 7. Plan

Done: telemetry (`TelemetryDisplay`, `TelemetryReseed`), commands (`CommandLine`,
`CommandSession`), the account, the seven pages, the preferences. Proved: everything the runs check
but liveness. Left: paired settings as a further page.
