--------------------------- MODULE CommandSession ---------------------------
(***************************************************************************)
(* How a command gets from a control on the actions tab to the socket of   *)
(* the selected ground station.  A supply valve needs a press and a        *)
(* release, a reset needs a confirmation, other commands a click.  The     *)
(* command is queued on the channel in WS_SENDER; the supervisor of the    *)
(* connection epoch owns a socket that takes commands from the channel.    *)
(* Meanwhile the login may expire, the operator may reconnect or leave,    *)
(* and the station may move to another address.                            *)
(*                                                                         *)
(* One thread runs the frontend: the code between two awaits is one        *)
(* action.  The native build is modelled, and a station that executes its  *)
(* own commands (no proxying to a primary station).                        *)
(***************************************************************************)
EXTENDS Integers, Sequences, FiniteSets

CONSTANTS
  Stations,   \* base URLs a frontend can be pointed at
  Tokens,     \* login tokens
  Nobody,     \* no token
  Controls,   \* the kinds of control the layout of the actions tab has
  MaxOrders,  \* bounds the commands issued
  Budget      \* how often each event of the environment may happen

Events == {"fail", "policy", "revoke", "reconnect", "leave", "found"}

ASSUME SessionAssumption ==
  /\ Stations # {}
  /\ Nobody \notin Tokens
  /\ Controls \subseteq {"supply", "Reset", "Go"}
  /\ MaxOrders \in Nat
  /\ Budget \in [Events -> Nat]

Logins == Tokens \cup {Nobody}

\* Opening and closing the supply valve, a command that needs a confirmation,
\* and one that does not.
Commands == {"Open", "Close", "Reset", "Go"}
Kind == [c \in Commands |-> IF c \in {"Open", "Close"} THEN "supply" ELSE c]

VARIABLES
  here,      \* the station, the login and WS_EPOCH
  mounted,   \* whether the dashboard is on screen
  policy,    \* whether the valve is reported closed, and commands are enabled
  last,      \* the command of LAST_COMMAND_ACTIVATION, while it still counts
  gesture,   \* the press on the supply control, while it still counts
  dialog,    \* PENDING, the reset that waits for its confirmation
  error,     \* whether COMMAND_SEND_ERROR tells the operator of a failure
  sender,    \* WS_SENDER: the supervisor whose channel it is, None, or Gone
  loops,     \* the supervisors, each with its socket and the socket's channel
  started,   \* last_started_epoch of the mounted dashboard
  metrics,   \* FRONTEND_NETWORK_METRICS_STATE: connected, connections lost
  orders,    \* history: the commands queued, with the start of the activation
  wire,      \* history: the commands a socket accepted
  left       \* what remains of Budget

vars == <<here, mounted, policy, last, gesture, dialog, error, sender, loops,
          started, metrics, orders, wire, left>>
controls == <<last, gesture, dialog, error>>
line == <<orders, wire>>

None == 0    \* no sender
Gone == -1   \* a sender whose socket task has ended
NoCmd == "none"

-----------------------------------------------------------------------------
(* State *)

Here == [station : Stations, login : Logins, epoch : Nat]
Metrics == [up : BOOLEAN, lost : Nat]

\* What a policy says of a valve without a control is not looked at.
Policies == [closed : IF "supply" \in Controls THEN BOOLEAN ELSE {FALSE}, enabled : BOOLEAN]

\* ActionPolicyMsg::default_locked
Locked == [closed |-> FALSE, enabled |-> FALSE]

\* A press remembers the command shown and what ExportOwner::capture reads.
NoGesture == [cmd |-> NoCmd]
Gesture == [cmd : {"Open", "Close"}, here : Here, metrics : Metrics, begun : Nat]

NoDialog == [open |-> FALSE]
Dialog == [open : {TRUE}, station : Stations, login : Logins, begun : Nat]

\* What is sent, and which of the orders it is sent for.
Message == [order : Nat, cmd : Commands]
NoMessage == [order |-> 0, cmd |-> NoCmd]

\* A supervisor, and its socket when it has one: whose it is (Owner), what is in
\* its channel and what is being written.
Stages == {"ready", "connecting", "open", "writing", "flushing", "sweep", "ended"}
Live == {"connecting", "open", "writing", "flushing"}
Loop == [at : Stages, here : Here, queue : Seq(Message),
         out : {NoMessage} \cup Message]

\* An order is what an activation was begun for, when begun commands had been
\* queued; a packet is what a station received.
Order == [cmd : Commands, station : Stations, login : Logins, begun : Nat]
Packet == [order : Nat, cmd : Commands, station : Stations, login : Logins]

Init ==
  /\ here \in [station : Stations, login : Logins, epoch : {0}]
  /\ mounted = FALSE
  /\ policy = Locked
  /\ last = NoCmd
  /\ gesture = NoGesture
  /\ dialog = NoDialog
  /\ error = FALSE
  /\ sender = None
  /\ loops = <<>>
  /\ started = 0
  /\ metrics = [up |-> FALSE, lost |-> 0]
  /\ orders = <<>>
  /\ wire = <<>>
  /\ left = Budget

Spend(e) == left[e] > 0 /\ left' = [left EXCEPT ![e] = @ - 1]

-----------------------------------------------------------------------------
(* Parts of handlers *)

\* Mutant: the login is not part of what a socket is owned by.
OwnsAnyLogin(i) ==
  /\ mounted
  /\ loops[i].here.station = here.station
  /\ loops[i].here.epoch = here.epoch

\* Owner::is_current.  The dashboard a supervisor was started by is alive
\* exactly while it is mounted and the epoch has not moved.
Owns(i) == mounted /\ loops[i].here = here

Current(i) == mounted /\ loops[i].here.epoch = here.epoch

\* The command of the supply control: it never opens on a guess.
SupplyCommand == IF policy.closed THEN "Open" ELSE "Close"

\* should_send_command_activation
Fresh(c) == last # c

Attached == sender \in DOMAIN loops

\* send_confirmed_cmd for a permitted command c; o is what the activation was
\* begun for.
Submit(c, o, recent) ==
  /\ Len(orders) < MaxOrders
  /\ \/ /\ Attached
        /\ orders' = Append(orders, o)
        /\ loops' = [loops EXCEPT ![sender].queue =
                       Append(@, [order |-> Len(orders) + 1, cmd |-> c])]
        /\ error' = FALSE
        /\ last' = recent
     \/ /\ ~ Attached
        /\ error' = TRUE
        /\ last' = NoCmd
        /\ UNCHANGED <<orders, loops>>

Ordered(c, s, b) == [cmd |-> c, station |-> s.station, login |-> s.login, begun |-> b]

\* What unmounting the dashboard does to a pending confirmation.
DropControls ==
  /\ gesture' = NoGesture
  /\ dialog' = NoDialog
  /\ last' = IF dialog.open THEN NoCmd ELSE last
  /\ error' = error

Steady == UNCHANGED <<here, mounted, policy, sender, started, metrics, wire, left>>

-----------------------------------------------------------------------------
(* The operator *)

\* A primary pointer, a touch or a key arms the supply control.
Press ==
  /\ mounted /\ "supply" \in Controls /\ policy.enabled
  /\ gesture' = [cmd |-> SupplyCommand, here |-> here, metrics |-> metrics,
                 begun |-> Len(orders)]
  /\ Steady
  /\ UNCHANGED <<last, dialog, error, loops, orders>>

\* Pointercancel, mouseleave, blur or Escape, or the press gets too old.
AbandonPress ==
  /\ gesture # NoGesture
  /\ gesture' = NoGesture
  /\ Steady
  /\ UNCHANGED <<last, dialog, error, loops, orders>>

\* Mutant: the command shown now may differ from the one that was pressed.
PressOfAnyCommand == gesture # NoGesture /\ gesture.here = here /\ gesture.metrics = metrics

\* SupplyGesture::current
PressHolds ==
  /\ gesture # NoGesture
  /\ gesture.cmd = SupplyCommand
  /\ gesture.here = here
  /\ gesture.metrics = metrics

ClickSupply ==
  /\ mounted /\ "supply" \in Controls
  /\ gesture' = NoGesture
  /\ \/ /\ ~ PressHolds
        /\ last' = NoCmd
        /\ UNCHANGED <<error, loops, orders>>
     \/ /\ PressHolds
        /\ ~ (policy.enabled /\ Fresh(SupplyCommand))
        /\ UNCHANGED <<last, error, loops, orders>>
     \/ /\ PressHolds
        /\ policy.enabled /\ Fresh(SupplyCommand)
        /\ Submit(SupplyCommand, Ordered(gesture.cmd, gesture.here, gesture.begun),
                  SupplyCommand)
  /\ Steady
  /\ UNCHANGED dialog

ClickGo ==
  /\ mounted /\ "Go" \in Controls
  /\ policy.enabled /\ Fresh("Go")
  /\ Submit("Go", Ordered("Go", here, Len(orders)), "Go")
  /\ Steady
  /\ UNCHANGED <<gesture, dialog>>

\* The first click of a reset opens the dialog, unless one is open.
ClickReset ==
  /\ mounted /\ "Reset" \in Controls
  /\ policy.enabled /\ Fresh("Reset")
  /\ last' = "Reset"
  /\ dialog' = IF dialog.open THEN dialog
               ELSE [open |-> TRUE, station |-> here.station, login |-> here.login,
                     begun |-> Len(orders)]
  /\ Steady
  /\ UNCHANGED <<gesture, error, loops, orders>>

\* Mutant: the confirmation is good for whatever station is selected now.
ConfirmAnywhere ==
  /\ dialog.open
  /\ dialog' = NoDialog
  /\ \/ ~ policy.enabled /\ UNCHANGED <<last, error, loops, orders>>
     \/ policy.enabled /\ Submit("Reset", Ordered("Reset", dialog, dialog.begun), last)
  /\ Steady
  /\ UNCHANGED gesture

\* The second click consumes the request before anything else.
ConfirmReset ==
  /\ dialog.open
  /\ dialog' = NoDialog
  /\ \/ /\ <<dialog.station, dialog.login>> # <<here.station, here.login>>
        /\ error' = TRUE
        /\ UNCHANGED <<last, loops, orders>>
     \/ /\ <<dialog.station, dialog.login>> = <<here.station, here.login>>
        /\ \/ ~ policy.enabled /\ UNCHANGED <<last, error, loops, orders>>
           \/ policy.enabled /\ Submit("Reset", Ordered("Reset", dialog, dialog.begun), last)
  /\ Steady
  /\ UNCHANGED gesture

CancelReset ==
  /\ dialog.open
  /\ dialog' = NoDialog
  /\ last' = NoCmd
  /\ Steady
  /\ UNCHANGED <<gesture, error, loops, orders>>

\* COMMAND_ACTIVATION_DEDUP_MS pass.
DedupElapses ==
  /\ last # NoCmd
  /\ last' = NoCmd
  /\ Steady
  /\ UNCHANGED <<gesture, dialog, error, loops, orders>>

-----------------------------------------------------------------------------
(* The station, the login and the dashboard *)

\* An action policy arrives: on the socket or with the seeding requests, which
\* clears the latches, or as the answer to a resync.  The first is not counted.
PolicyArrives ==
  /\ mounted
  /\ \/ policy = Locked /\ left' = left
     \/ policy # Locked /\ Spend("policy")
  /\ policy' \in Policies
  /\ last' \in {last, NoCmd}
  /\ UNCHANGED <<here, mounted, gesture, dialog, error, sender, loops, started,
                 metrics, line>>

\* An HTTP request is answered with 401: clear_current_session.
Unauthorized ==
  /\ here.login # Nobody /\ Spend("revoke")
  /\ here' = [here EXCEPT !.login = Nobody]
  /\ policy' \in {policy, [policy EXCEPT !.enabled = FALSE]}
  /\ UNCHANGED <<mounted, controls, sender, loops, started, metrics, line>>

\* bump_ws_epoch; the effect that watches WS_EPOCH resets the metrics.
Bump(s, t) ==
  /\ here' = [station |-> s, login |-> t, epoch |-> here.epoch + 1]
  /\ sender' = None
  /\ metrics' = [up |-> FALSE, lost |-> 0]

\* reconnect_and_reload_ui
Reconnect ==
  /\ mounted /\ Spend("reconnect")
  /\ Bump(here.station, here.login)
  /\ UNCHANGED <<mounted, policy, controls, loops, started, line>>

\* hard_reload_dashboard_data moves the epoch only when there is no sender.
HardReload ==
  /\ mounted /\ Spend("reconnect")
  /\ sender = None
  /\ Bump(here.station, here.login)
  /\ UNCHANGED <<mounted, policy, controls, loops, started, line>>

\* The CONNECT button.
Leave ==
  /\ mounted /\ Spend("leave")
  /\ mounted' = FALSE
  /\ Bump(here.station, here.login)
  /\ DropControls
  /\ UNCHANGED <<policy, loops, started, line>>

\* The shell takes the dashboard off the screen, to check a session or to ask
\* for a login.
ShellReplaces ==
  /\ mounted /\ Spend("leave")
  /\ mounted' = FALSE
  /\ DropControls
  /\ UNCHANGED <<here, policy, sender, loops, started, metrics, line>>

\* The dashboard appears for a station and a login: its first effect sets the
\* base URL and moves the epoch.
Enter(s, t) ==
  /\ ~ mounted
  /\ mounted' = TRUE
  /\ Bump(s, t)
  /\ policy' = Locked
  /\ started' = 0
  /\ UNCHANGED <<controls, loops, line, left>>

-----------------------------------------------------------------------------
(* The supervisor of an epoch and its socket *)

\* Mutant: the effect starts a supervisor whenever it runs.
SpawnAgain ==
  /\ mounted /\ Len(loops) <= here.epoch
  /\ started' = here.epoch
  /\ loops' = Append(loops, [at |-> "ready", here |-> here, queue |-> <<>>, out |-> NoMessage])
  /\ UNCHANGED <<here, mounted, policy, controls, sender, metrics, line, left>>

Spawn ==
  /\ mounted /\ started # here.epoch
  /\ started' = here.epoch
  /\ loops' = Append(loops, [at |-> "ready", here |-> here, queue |-> <<>>, out |-> NoMessage])
  /\ UNCHANGED <<here, mounted, policy, controls, sender, metrics, line, left>>

\* connect_ws_once_native starts with a new channel, whose sender is there
\* before the connection is.
Connect(i) ==
  /\ loops[i].at = "ready" /\ Current(i)
  /\ loops' = [loops EXCEPT ![i] =
       [at |-> "connecting", here |-> here, queue |-> <<>>, out |-> NoMessage]]
  /\ sender' = i
  /\ UNCHANGED <<here, mounted, policy, controls, started, metrics, line, left>>

Opened(i) ==
  /\ loops[i].at = "connecting" /\ Owns(i)
  /\ loops' = [loops EXCEPT ![i].at = "open"]
  /\ metrics' = [metrics EXCEPT !.up = TRUE]
  /\ UNCHANGED <<here, mounted, policy, controls, sender, started, line, left>>

Afterwards(i) ==
  IF ~ Current(i) THEN {"ended"}
  ELSE IF here.login = Nobody THEN {"ready"} ELSE {"ready", "sweep"}

\* The socket task of i is over and its channel closed.  The supervisor ends,
\* backs off, or looks for the station elsewhere under the login of now.
EndSocket(i) ==
  \E s \in Afterwards(i) :
    loops' = [loops EXCEPT ![i] = [at |-> s, queue |-> <<>>, out |-> NoMessage,
      here |-> IF Current(i) THEN here ELSE loops[i].here]]

\* Mutant: a task that lost its ownership clears the sender, too.
RetireClears(i) ==
  /\ loops[i].at \in Live /\ ~ Owns(i)
  /\ EndSocket(i)
  /\ sender' = None
  /\ UNCHANGED <<here, mounted, policy, controls, started, metrics, line, left>>

\* The task finds at a suspension point that its session is not the current
\* one: it leaves WS_SENDER and the metrics to whoever owns them now.
Retire(i) ==
  /\ loops[i].at \in Live /\ ~ Owns(i)
  /\ EndSocket(i)
  /\ sender' = IF sender = i THEN Gone ELSE sender
  /\ UNCHANGED <<here, mounted, policy, controls, started, metrics, line, left>>

ConnectFails(i) ==
  /\ loops[i].at = "connecting" /\ Owns(i) /\ Spend("fail")
  /\ EndSocket(i)
  /\ sender' = None
  /\ UNCHANGED <<here, mounted, policy, controls, started, metrics, line>>

\* What every end of an open, owned socket does.
SocketLost(i) ==
  /\ EndSocket(i)
  /\ sender' = None
  /\ metrics' = [up |-> FALSE, lost |-> IF metrics.up THEN metrics.lost + 1 ELSE metrics.lost]

\* The station closes the socket, or nothing arrives for too long.
Dropped(i) ==
  /\ loops[i].at = "open" /\ Owns(i) /\ Spend("fail")
  /\ SocketLost(i)
  /\ UNCHANGED <<here, mounted, policy, controls, started, line>>

\* The task receives the next command of its channel.
Take(i) ==
  /\ loops[i].at = "open" /\ loops[i].queue # <<>> /\ Owns(i)
  /\ loops' = [loops EXCEPT ![i] = [loops[i] EXCEPT !.at = "writing",
       !.out = Head(loops[i].queue), !.queue = Tail(loops[i].queue)]]
  /\ UNCHANGED <<here, mounted, policy, controls, sender, started, metrics, line, left>>

\* The socket accepts the command: what reaches the station is the command, at
\* the address and under the token the socket was opened with.
Accepted(i) ==
  wire' = Append(wire, [order |-> loops[i].out.order, cmd |-> loops[i].out.cmd,
                        station |-> loops[i].here.station, login |-> loops[i].here.login])

Written(i) ==
  /\ loops[i].at = "writing" /\ Owns(i)
  /\ Accepted(i)
  /\ loops' = [loops EXCEPT ![i] = [@ EXCEPT !.at = "flushing", !.out = NoMessage]]
  /\ UNCHANGED <<here, mounted, policy, controls, sender, started, metrics, orders, left>>

Flushed(i) ==
  /\ loops[i].at = "flushing" /\ Owns(i)
  /\ loops' = [loops EXCEPT ![i].at = "open"]
  /\ UNCHANGED <<here, mounted, policy, controls, sender, started, metrics, line, left>>

\* The write fails or takes more than five seconds, before or after the socket
\* accepted the command; the command is not written again.
WriteFails(i) ==
  /\ loops[i].at \in {"writing", "flushing"} /\ Owns(i) /\ Spend("fail")
  /\ SocketLost(i)
  /\ UNCHANGED <<here, mounted, policy, controls, started, line>>

\* Mutant: the supervisor moves to the other address without a new epoch.
MovedSilently(i, s) ==
  /\ loops[i].at = "sweep" /\ Current(i) /\ Spend("found")
  /\ here' = [here EXCEPT !.station = s, !.login = loops[i].here.login]
  /\ loops' = [loops EXCEPT ![i].at = "ended"]
  /\ UNCHANGED <<mounted, policy, controls, sender, started, metrics, line>>

\* The sweep finds the station at the address s, for the login it was given,
\* and the supervisor ends; the reload moves the epoch if there is no sender.
SweepFound(i, s) ==
  /\ loops[i].at = "sweep" /\ Current(i) /\ Spend("found")
  /\ IF sender = None THEN Bump(s, loops[i].here.login)
     ELSE /\ here' = [here EXCEPT !.station = s, !.login = loops[i].here.login]
          /\ UNCHANGED <<sender, metrics>>
  /\ loops' = [loops EXCEPT ![i].at = "ended"]
  /\ UNCHANGED <<mounted, policy, controls, started, line>>

\* The sweep finds nothing, and the supervisor backs off.
SweepEnds(i) ==
  /\ loops[i].at = "sweep" /\ Current(i)
  /\ loops' = [loops EXCEPT ![i].at = "ready"]
  /\ UNCHANGED <<here, mounted, policy, controls, sender, started, metrics, line, left>>

\* The loop's own checks of alive and epoch.
LoopEnds(i) ==
  /\ loops[i].at \in {"ready", "sweep"} /\ ~ Current(i)
  /\ loops' = [loops EXCEPT ![i].at = "ended"]
  /\ UNCHANGED <<here, mounted, policy, controls, sender, started, metrics, line, left>>

-----------------------------------------------------------------------------

Operator ==
  \/ Press \/ AbandonPress \/ ClickSupply \/ ClickGo
  \/ ClickReset \/ ConfirmReset \/ CancelReset \/ DedupElapses

Surroundings ==
  \/ PolicyArrives \/ Unauthorized \/ Reconnect \/ HardReload
  \/ Leave \/ ShellReplaces
  \/ \E s \in Stations, t \in Logins : Enter(s, t)

\* What a supervisor does of itself.
Proceeds(i) ==
  \/ Connect(i) \/ Opened(i) \/ Take(i) \/ Written(i) \/ Flushed(i) \/ Retire(i)
  \/ SweepEnds(i) \/ LoopEnds(i)

Supervisor(i) ==
  \/ Proceeds(i)
  \/ ConnectFails(i) \/ Dropped(i) \/ WriteFails(i)
  \/ \E s \in Stations : SweepFound(i, s)

Next ==
  \/ Operator
  \/ Surroundings
  \/ Spawn
  \/ \E i \in DOMAIN loops : Supervisor(i)

Spec == Init /\ [][Next]_vars

-----------------------------------------------------------------------------
(* Properties *)

\* Every variable holds a value of its kind.
TypeOK ==
  /\ here \in Here
  /\ mounted \in BOOLEAN
  /\ policy \in Policies
  /\ last \in {NoCmd} \cup Commands
  /\ gesture \in {NoGesture} \cup Gesture
  /\ dialog \in {NoDialog} \cup Dialog
  /\ error \in BOOLEAN
  /\ sender \in {None, Gone} \cup DOMAIN loops
  /\ loops \in Seq(Loop)
  /\ started \in Nat
  /\ metrics \in Metrics
  /\ orders \in Seq(Order)
  /\ wire \in Seq(Packet)
  /\ left \in [Events -> Nat]

\* Whatever the order of clicks, expired logins, reconnects and failures, the
\* commands are issued and carried as CommandLine promises: send_cmd, the
\* confirmation, the channel and the socket task together lose commands at
\* worst, and never repeat, reorder, redirect or replace one.
Line == INSTANCE CommandLine WITH orders <- orders, wire <- wire
LineSpec == Line!LineSpec

\* A socket that is the current session's is the one commands are queued on,
\* and there is one at most: no task that is being retired clears the sender of
\* its successor, and no second supervisor of an epoch takes it away.
CurrentSocketHasSender ==
  \A i \in DOMAIN loops : loops[i].at \in Live /\ Owns(i) => sender = i

\* The executor runs the supervisor whenever it can proceed, a station that is
\* there accepts connections, and every event has a bound.
MaxLoops == 1 + Budget["reconnect"] + 2 * Budget["leave"] + Budget["found"]

FairSpec ==
  /\ Spec
  /\ WF_vars(Spawn)
  /\ \A i \in 1..MaxLoops : WF_vars(i \in DOMAIN loops /\ Proceeds(i))

Linked == \E i \in DOMAIN loops : sender = i /\ loops[i].at \in Live \ {"connecting"} /\ Owns(i)

\* Once nothing fails any more, a dashboard on screen gets a socket that takes
\* its commands and keeps it: no supervisor gives up without a successor.
LinkRestored == <>[](mounted => Linked)

=============================================================================
