------------------------ MODULE CommandSessionProofs ------------------------
(***************************************************************************)
(* Proofs about CommandSession: its types, that the socket of the current  *)
(* session is the one commands are queued on, that it implements           *)
(* CommandLine, that a dashboard always has a supervisor, and that a       *)
(* command is lost with its socket only.                                   *)
(***************************************************************************)
EXTENDS CommandSession, TLAPS

USE DEF None, Gone

-----------------------------------------------------------------------------
(* The invariant *)

\* No supervisor is of a later epoch, and one of this epoch is the one started.
Epochs ==
  \A i \in DOMAIN loops :
    /\ loops[i].here.epoch <= here.epoch
    /\ loops[i].here.epoch = here.epoch => started = here.epoch

\* An epoch has one supervisor.
Alone ==
  \A i, j \in DOMAIN loops :
    loops[i].here.epoch = here.epoch /\ loops[j].here.epoch = here.epoch => i = j

\* Within an epoch a login can only be lost.
LoginKept ==
  \A i \in DOMAIN loops :
    loops[i].at \in Live /\ Current(i) => here.login \in {loops[i].here.login, Nobody}

\* A message is what its order was begun for, here and now.
Faithful(m, os, h) ==
  /\ m.order \in DOMAIN os
  /\ os[m.order].cmd = m.cmd
  /\ os[m.order].station = h.station
  /\ os[m.order].login = h.login

\* What the channel q holds is to be carried after all that was, in its order.
Later(q, os, h, ws) ==
  /\ \A k \in DOMAIN q : Faithful(q[k], os, h)
  /\ \A k, l \in DOMAIN q : k < l => q[k].order < q[l].order
  /\ \A k \in DOMAIN q : \A w \in DOMAIN ws : ws[w].order < q[k].order

\* So is the message being written, which comes before those in the channel.
NextOut(m, q, os, h, ws) ==
  /\ Faithful(m, os, h)
  /\ \A k \in DOMAIN q : m.order < q[k].order
  /\ \A w \in DOMAIN ws : ws[w].order < m.order

Channels ==
  \A i \in DOMAIN loops : loops[i].at \in Live /\ Owns(i) =>
    /\ Later(loops[i].queue, orders, here, wire)
    /\ loops[i].at = "writing" => NextOut(loops[i].out, loops[i].queue, orders, here, wire)

Carried == \A w \in DOMAIN wire : wire[w].order \in DOMAIN orders

\* All that is to be known of the supervisors and their sockets.
Sockets ==
  Epochs /\ Alone /\ LoginKept /\ CurrentSocketHasSender /\ Channels /\ Carried

\* An activation under way began after the last one of its kind was over.
Began(b, kind, os) ==
  /\ b <= Len(os)
  /\ \A n \in DOMAIN os : Kind[os[n].cmd] = kind => n <= b

Begun ==
  /\ gesture # NoGesture => Began(gesture.begun, "supply", orders)
  /\ dialog.open => Began(dialog.begun, "Reset", orders)

IInv == TypeOK /\ Sockets /\ Begun

-----------------------------------------------------------------------------
(* Type correctness *)

\* Replacing an element of a sequence, which is what a supervisor's step does.
LEMMA Replaced ==
  ASSUME NEW S, NEW s \in Seq(S), NEW i \in DOMAIN s, NEW e \in S
  PROVE  /\ [s EXCEPT ![i] = e] \in Seq(S)
         /\ DOMAIN [s EXCEPT ![i] = e] = DOMAIN s
         /\ [s EXCEPT ![i] = e][i] = e
         /\ \A j \in DOMAIN s : j # i => [s EXCEPT ![i] = e][j] = s[j]
OBVIOUS

\* Appending an element to a sequence.
LEMMA Appended ==
  ASSUME NEW S, NEW s \in Seq(S), NEW e \in S
  PROVE  /\ Append(s, e) \in Seq(S)
         /\ Len(Append(s, e)) = Len(s) + 1
         /\ DOMAIN Append(s, e) = 1..(Len(s) + 1)
         /\ DOMAIN s = 1..Len(s)
         /\ Append(s, e)[Len(s) + 1] = e
         /\ \A j \in DOMAIN s : Append(s, e)[j] = s[j]
OBVIOUS

\* What is left of an event's budget is still a number.
LEMMA SpendType ==
  ASSUME TypeOK, NEW e \in Events, Spend(e)
  PROVE  left' \in [Events -> Nat]
BY DEF TypeOK, Spend

\* The initial state satisfies the invariant.
LEMMA InitInv == ASSUME Init PROVE IInv
<1> USE SessionAssumption
<1>1. TypeOK
  <2>1. here \in Here /\ metrics \in Metrics
    BY DEF Init, Here, Metrics
  <2>2. policy \in Policies
    BY DEF Init, Locked, Policies
  <2>3. loops \in Seq(Loop) /\ orders \in Seq(Order) /\ wire \in Seq(Packet)
    BY DEF Init
  <2> QED BY <2>1, <2>2, <2>3 DEF Init, TypeOK
<1>2. Epochs /\ Alone /\ LoginKept /\ CurrentSocketHasSender /\ Channels /\ Carried /\ Begun
  BY DEF Init, Epochs, Alone, LoginKept, CurrentSocketHasSender, Channels, Carried, Begun,
         NoGesture, NoDialog
<1> QED BY <1>1, <1>2 DEF IInv, Sockets

\* A command is submitted or refused: the variables it writes keep their types.
LEMMA SubmitType ==
  ASSUME TypeOK, NEW c \in Commands, NEW o \in Order, NEW r \in {NoCmd} \cup Commands,
         Submit(c, o, r)
  PROVE  /\ orders' \in Seq(Order)
         /\ loops' \in Seq(Loop) /\ DOMAIN loops' = DOMAIN loops
         /\ error' \in BOOLEAN
         /\ last' \in {NoCmd} \cup Commands
<1>1. CASE Attached
  <2> DEFINE m == [order |-> Len(orders) + 1, cmd |-> c]
             e == [loops[sender] EXCEPT !.queue = Append(@, m)]
  <2>1. loops[sender] \in Loop
    BY <1>1 DEF TypeOK, Attached
  <2>2. m \in Message
    BY DEF TypeOK, Message
  <2>3. e \in Loop
    BY <2>1, <2>2 DEF Loop
  <2>4. loops' = [loops EXCEPT ![sender] = e]
    BY <1>1 DEF Submit, Attached
  <2>5. loops' \in Seq(Loop) /\ DOMAIN loops' = DOMAIN loops
    <3> HIDE DEF e
    <3> QED BY <1>1, <2>3, <2>4, Replaced DEF TypeOK, Attached
  <2>6. orders' = Append(orders, o) /\ error' = FALSE /\ last' = r
    BY <1>1 DEF Submit
  <2> QED BY <2>5, <2>6, Appended DEF TypeOK
<1>2. CASE ~ Attached
  BY <1>2 DEF Submit, TypeOK
<1> QED BY <1>1, <1>2

\* The order an activation is begun for.
LEMMA OrderedType ==
  ASSUME NEW c \in Commands, NEW s, s.station \in Stations, s.login \in Logins, NEW b \in Nat
  PROVE  Ordered(c, s, b) \in Order
BY DEF Ordered, Order

\* What the operator does keeps the types.
LEMMA OperatorType == ASSUME TypeOK, Operator PROVE TypeOK'
<1> USE DEF TypeOK
<1>0. /\ here.station \in Stations /\ here.login \in Logins
      /\ Len(orders) \in Nat
      /\ SupplyCommand \in {"Open", "Close"}
  BY DEF Here, SupplyCommand
<1>1. CASE Press
  <2>1. gesture' \in Gesture
    BY <1>0, <1>1 DEF Press, Gesture
  <2> QED BY <1>1, <2>1 DEF Press, Steady
<1>2. CASE AbandonPress
  BY <1>2 DEF AbandonPress, Steady
<1>3. CASE ClickSupply
  <2>1. CASE PressHolds /\ Submit(SupplyCommand,
               Ordered(gesture.cmd, gesture.here, gesture.begun), SupplyCommand)
    <3>1. gesture \in Gesture
      BY <2>1 DEF PressHolds
    <3>2. Ordered(gesture.cmd, gesture.here, gesture.begun) \in Order
      BY <3>1, OrderedType DEF Gesture, Here, Commands
    <3>3. SupplyCommand \in Commands
      BY <1>0 DEF Commands
    <3>4. /\ orders' \in Seq(Order)
          /\ loops' \in Seq(Loop) /\ DOMAIN loops' = DOMAIN loops
          /\ error' \in BOOLEAN
          /\ last' \in {NoCmd} \cup Commands
      BY <2>1, <3>2, <3>3, SubmitType
    <3> QED BY <1>3, <3>4 DEF ClickSupply, Steady
  <2>2. CASE UNCHANGED <<error, loops, orders>> /\ last' \in {last, NoCmd}
    BY <1>3, <2>2 DEF ClickSupply, Steady
  <2> QED BY <1>3, <2>1, <2>2 DEF ClickSupply
<1>4. CASE ClickGo
  <2>1. Ordered("Go", here, Len(orders)) \in Order
    BY <1>0, OrderedType DEF Commands
  <2>2. /\ orders' \in Seq(Order)
        /\ loops' \in Seq(Loop) /\ DOMAIN loops' = DOMAIN loops
        /\ error' \in BOOLEAN
        /\ last' \in {NoCmd} \cup Commands
    BY <1>4, <2>1, SubmitType DEF ClickGo, Commands
  <2> QED BY <1>4, <2>2 DEF ClickGo, Steady
<1>5. CASE ClickReset
  <2>1. dialog' \in {NoDialog} \cup Dialog
    BY <1>0, <1>5 DEF ClickReset, Dialog
  <2> QED BY <1>5, <2>1 DEF ClickReset, Steady, Commands
<1>6. CASE ConfirmReset
  <2>1. dialog \in Dialog
    BY <1>6 DEF ConfirmReset, NoDialog
  <2>2. CASE Submit("Reset", Ordered("Reset", dialog, dialog.begun), last)
    <3>1. Ordered("Reset", dialog, dialog.begun) \in Order
      BY <2>1, OrderedType DEF Dialog, Commands
    <3>2. /\ orders' \in Seq(Order)
          /\ loops' \in Seq(Loop) /\ DOMAIN loops' = DOMAIN loops
          /\ error' \in BOOLEAN
          /\ last' \in {NoCmd} \cup Commands
      BY <2>2, <3>1, SubmitType DEF Commands
    <3> QED BY <1>6, <3>2 DEF ConfirmReset, Steady
  <2>3. CASE UNCHANGED <<last, loops, orders>> /\ error' \in BOOLEAN
    BY <1>6, <2>3 DEF ConfirmReset, Steady
  <2> QED BY <1>6, <2>2, <2>3 DEF ConfirmReset
<1>7. CASE CancelReset
  BY <1>7 DEF CancelReset, Steady
<1>8. CASE DedupElapses
  BY <1>8 DEF DedupElapses, Steady
<1> QED BY <1>1, <1>2, <1>3, <1>4, <1>5, <1>6, <1>7, <1>8 DEF Operator

\* A new epoch, for a station and a login.
LEMMA BumpType ==
  ASSUME TypeOK, NEW s \in Stations, NEW t \in Logins, Bump(s, t)
  PROVE  /\ here' \in Here
         /\ here'.epoch = here.epoch + 1
         /\ sender' = None
         /\ metrics' \in Metrics
BY DEF TypeOK, Bump, Here, Metrics

\* What happens around the dashboard keeps the types.
LEMMA SurroundingsType == ASSUME TypeOK, Surroundings PROVE TypeOK'
<1> USE SessionAssumption DEF TypeOK
<1>0. here.station \in Stations /\ here.login \in Logins
  BY DEF Here
<1>1. CASE PolicyArrives
  <2>1. left' \in [Events -> Nat]
    BY <1>1, SpendType DEF PolicyArrives, Events
  <2> QED BY <1>1, <2>1 DEF PolicyArrives, line
<1>2. CASE Unauthorized
  <2>1. left' \in [Events -> Nat]
    BY <1>2, SpendType DEF Unauthorized, Events
  <2>2. here' \in Here
    BY <1>2 DEF Unauthorized, Here, Logins
  <2>3. policy' \in Policies
    BY <1>2 DEF Unauthorized, Policies
  <2> QED BY <1>2, <2>1, <2>2, <2>3 DEF Unauthorized, controls, line
<1>3. CASE Reconnect \/ HardReload
  <2>1. left' \in [Events -> Nat]
    BY <1>3, SpendType DEF Reconnect, HardReload, Events
  <2>2. here' \in Here /\ sender' = None /\ metrics' \in Metrics
    BY <1>0, <1>3, BumpType DEF Reconnect, HardReload
  <2> QED BY <1>3, <2>1, <2>2 DEF Reconnect, HardReload, controls, line
<1>4. CASE Leave
  <2>1. left' \in [Events -> Nat]
    BY <1>4, SpendType DEF Leave, Events
  <2>2. here' \in Here /\ sender' = None /\ metrics' \in Metrics
    BY <1>0, <1>4, BumpType DEF Leave
  <2> QED BY <1>4, <2>1, <2>2 DEF Leave, DropControls, line
<1>5. CASE ShellReplaces
  <2>1. left' \in [Events -> Nat]
    BY <1>5, SpendType DEF ShellReplaces, Events
  <2> QED BY <1>5, <2>1 DEF ShellReplaces, DropControls, line
<1>6. ASSUME NEW s \in Stations, NEW t \in Logins, Enter(s, t) PROVE TypeOK'
  <2>1. here' \in Here /\ sender' = None /\ metrics' \in Metrics
    BY <1>6, BumpType DEF Enter
  <2>2. policy' \in Policies
    BY <1>6 DEF Enter, Locked, Policies
  <2> QED BY <1>6, <2>1, <2>2 DEF Enter, controls, line
<1> QED BY <1>1, <1>2, <1>3, <1>4, <1>5, <1>6 DEF Surroundings

\* The end of a socket leaves a supervisor of the same epoch without one, and the
\* others alone.
LEMMA EndSocketEffect ==
  ASSUME TypeOK, NEW i \in DOMAIN loops, EndSocket(i)
  PROVE  /\ loops' \in Seq(Loop) /\ DOMAIN loops' = DOMAIN loops
         /\ loops'[i].at \notin Live
         /\ loops'[i].here.epoch = loops[i].here.epoch
         /\ \A j \in DOMAIN loops : j # i => loops'[j] = loops[j]
<1>1. PICK s \in Afterwards(i) :
        loops' = [loops EXCEPT ![i] = [at |-> s, queue |-> <<>>, out |-> NoMessage,
                    here |-> IF Current(i) THEN here ELSE loops[i].here]]
  BY DEF EndSocket
<1> DEFINE h == IF Current(i) THEN here ELSE loops[i].here
           e == [at |-> s, queue |-> <<>>, out |-> NoMessage, here |-> h]
<1>2. s \in Stages /\ s \notin Live
  BY DEF Afterwards, Stages, Live
<1>3. loops[i] \in Loop
  BY DEF TypeOK
<1>4. h \in Here /\ h.epoch = loops[i].here.epoch
  BY <1>3 DEF TypeOK, Loop, Current
<1>5. e \in Loop /\ e.at = s /\ e.here = h
  <2> HIDE DEF h
  <2> QED BY <1>2, <1>4 DEF Loop
<1>6. loops' = [loops EXCEPT ![i] = e]
  BY <1>1
<1> HIDE DEF e
<1> QED BY <1>2, <1>4, <1>5, <1>6, Replaced DEF TypeOK

\* A supervisor that goes to another stage keeps everything else.
LEMMA StageEffect ==
  ASSUME TypeOK, NEW i \in DOMAIN loops, NEW s \in Stages,
         loops' = [loops EXCEPT ![i].at = s]
  PROVE  /\ loops' \in Seq(Loop) /\ DOMAIN loops' = DOMAIN loops
         /\ loops'[i].at = s
         /\ loops'[i].here = loops[i].here
         /\ loops'[i].queue = loops[i].queue
         /\ loops'[i].out = loops[i].out
         /\ \A j \in DOMAIN loops : j # i => loops'[j] = loops[j]
<1> DEFINE e == [loops[i] EXCEPT !.at = s]
<1>1. loops[i] \in Loop
  BY DEF TypeOK
<1>2. e \in Loop /\ e.at = s /\ e.here = loops[i].here /\ e.queue = loops[i].queue
        /\ e.out = loops[i].out
  BY <1>1 DEF Loop
<1>3. loops' = [loops EXCEPT ![i] = e]
  OBVIOUS
<1> HIDE DEF e
<1> QED BY <1>2, <1>3, Replaced DEF TypeOK

\* A new channel is empty and belongs to whoever is here now.
LEMMA ConnectEffect ==
  ASSUME TypeOK, NEW i \in DOMAIN loops, Connect(i)
  PROVE  /\ loops' \in Seq(Loop) /\ DOMAIN loops' = DOMAIN loops
         /\ loops'[i] = [at |-> "connecting", here |-> here, queue |-> <<>>,
                         out |-> NoMessage]
         /\ \A j \in DOMAIN loops : j # i => loops'[j] = loops[j]
<1> DEFINE e == [at |-> "connecting", here |-> here, queue |-> <<>>, out |-> NoMessage]
<1>1. e \in Loop
  BY DEF TypeOK, Loop, Stages
<1>2. loops' = [loops EXCEPT ![i] = e]
  BY DEF Connect
<1> HIDE DEF e
<1>3. /\ loops' \in Seq(Loop) /\ DOMAIN loops' = DOMAIN loops
      /\ loops'[i] = e
      /\ \A j \in DOMAIN loops : j # i => loops'[j] = loops[j]
  BY <1>1, <1>2, Replaced DEF TypeOK
<1> QED BY <1>3 DEF e

\* The head of the channel is what is written next.
LEMMA TakeEffect ==
  ASSUME TypeOK, NEW i \in DOMAIN loops, Take(i)
  PROVE  /\ loops' \in Seq(Loop) /\ DOMAIN loops' = DOMAIN loops
         /\ loops'[i].at = "writing"
         /\ loops'[i].here = loops[i].here
         /\ loops'[i].queue = Tail(loops[i].queue)
         /\ loops'[i].out = loops[i].queue[1]
         /\ \A j \in DOMAIN loops : j # i => loops'[j] = loops[j]
<1> DEFINE e == [loops[i] EXCEPT !.at = "writing", !.out = Head(loops[i].queue),
                                 !.queue = Tail(loops[i].queue)]
<1>1. loops[i] \in Loop /\ loops[i].queue # <<>>
  BY DEF TypeOK, Take
<1>2. loops[i].queue \in Seq(Message)
  BY <1>1 DEF Loop
<1>3. /\ Head(loops[i].queue) = loops[i].queue[1]
      /\ Head(loops[i].queue) \in Message
      /\ Tail(loops[i].queue) \in Seq(Message)
  BY <1>1, <1>2
<1>4. /\ e.at = "writing" /\ e.here = loops[i].here
      /\ e.queue = Tail(loops[i].queue) /\ e.out = loops[i].queue[1]
  BY <1>1, <1>3 DEF Loop
<1>5. e \in Loop
  BY <1>1, <1>3 DEF Loop, Stages
<1>6. loops' = [loops EXCEPT ![i] = e]
  BY DEF Take
<1> HIDE DEF e
<1> QED BY <1>4, <1>5, <1>6, Replaced DEF TypeOK

\* The socket has the message, and the channel is as it was.
LEMMA WrittenEffect ==
  ASSUME TypeOK, NEW i \in DOMAIN loops, Written(i)
  PROVE  /\ loops' \in Seq(Loop) /\ DOMAIN loops' = DOMAIN loops
         /\ loops'[i].at = "flushing"
         /\ loops'[i].here = loops[i].here
         /\ loops'[i].queue = loops[i].queue /\ loops'[i].out = NoMessage
         /\ \A j \in DOMAIN loops : j # i => loops'[j] = loops[j]
<1> DEFINE e == [loops[i] EXCEPT !.at = "flushing", !.out = NoMessage]
<1>1. loops[i] \in Loop
  BY DEF TypeOK
<1>2. e \in Loop /\ e.at = "flushing" /\ e.here = loops[i].here /\ e.queue = loops[i].queue
        /\ e.out = NoMessage
  BY <1>1 DEF Loop, Stages
<1>3. loops' = [loops EXCEPT ![i] = e]
  BY DEF Written
<1> HIDE DEF e
<1> QED BY <1>2, <1>3, Replaced DEF TypeOK

\* Another supervisor is there.
LEMMA SpawnEffect ==
  ASSUME TypeOK, Spawn
  PROVE  /\ loops' \in Seq(Loop) /\ DOMAIN loops' = 1..(Len(loops) + 1)
         /\ DOMAIN loops = 1..Len(loops) /\ Len(loops) \in Nat
         /\ loops'[Len(loops) + 1] = [at |-> "ready", here |-> here, queue |-> <<>>,
                                      out |-> NoMessage]
         /\ \A j \in DOMAIN loops : loops'[j] = loops[j]
<1> DEFINE e == [at |-> "ready", here |-> here, queue |-> <<>>, out |-> NoMessage]
<1>1. e \in Loop
  BY DEF TypeOK, Loop, Stages
<1>2. loops' = Append(loops, e)
  BY DEF Spawn
<1> HIDE DEF e
<1>3. /\ loops' \in Seq(Loop) /\ DOMAIN loops' = 1..(Len(loops) + 1)
      /\ DOMAIN loops = 1..Len(loops) /\ Len(loops) \in Nat
      /\ loops'[Len(loops) + 1] = e
      /\ \A j \in DOMAIN loops : loops'[j] = loops[j]
  BY <1>1, <1>2, Appended DEF TypeOK
<1> QED BY <1>3 DEF e

\* A socket is given the message it is writing.
LEMMA AcceptedType ==
  ASSUME TypeOK, NEW i \in DOMAIN loops, loops[i].out \in Message, Accepted(i)
  PROVE  /\ wire' \in Seq(Packet)
         /\ Len(wire') = Len(wire) + 1
         /\ DOMAIN wire = 1..Len(wire) /\ DOMAIN wire' = 1..(Len(wire) + 1)
         /\ wire'[Len(wire) + 1].order = loops[i].out.order
         /\ \A w \in DOMAIN wire : wire'[w] = wire[w]
<1> DEFINE p == [order |-> loops[i].out.order, cmd |-> loops[i].out.cmd,
                 station |-> loops[i].here.station, login |-> loops[i].here.login]
<1>1. loops[i] \in Loop
  BY DEF TypeOK
<1>2. p \in Packet /\ p.order = loops[i].out.order
  BY <1>1 DEF Loop, Here, Message, Packet
<1>3. wire' = Append(wire, p)
  BY DEF Accepted
<1> HIDE DEF p
<1> QED BY <1>2, <1>3, Appended DEF TypeOK

-----------------------------------------------------------------------------
(* The invariant is inductive *)

\* The parts of a supervisor have their types.
LEMMA LoopParts ==
  ASSUME TypeOK, NEW i \in DOMAIN loops
  PROVE  /\ loops[i] \in Loop
         /\ loops[i].at \in Stages
         /\ loops[i].here \in Here
         /\ loops[i].here.epoch \in Nat
         /\ loops[i].queue \in Seq(Message)
<1>1. loops[i] \in Loop
  BY DEF TypeOK
<1> QED BY <1>1 DEF Loop, Here

\* A step that leaves supervisors, epoch and history alone.
LEMMA Quiet ==
  ASSUME Sockets, UNCHANGED <<here, mounted, sender, loops, started, orders, wire>>
  PROVE  Sockets'
<1>1. Epochs' /\ Alone'
  BY DEF Sockets, Epochs, Alone
<1>2. LoginKept' /\ CurrentSocketHasSender'
  BY DEF Sockets, LoginKept, CurrentSocketHasSender, Current, Owns
<1>3. Channels' /\ Carried'
  BY DEF Sockets, Channels, Carried, Owns, Later, NextOut, Faithful
<1> QED BY <1>1, <1>2, <1>3 DEF Sockets

\* In a new epoch no supervisor is current yet.
LEMMA NewEpoch ==
  ASSUME TypeOK, Sockets,
         here'.epoch = here.epoch + 1,
         DOMAIN loops' = DOMAIN loops,
         \A j \in DOMAIN loops : loops'[j].here.epoch = loops[j].here.epoch,
         UNCHANGED <<orders, wire>>
  PROVE  Sockets'
<1>1. \A j \in DOMAIN loops' :
        /\ loops'[j].here.epoch <= here'.epoch
        /\ loops'[j].here.epoch # here'.epoch
  <2>1. \A j \in DOMAIN loops : loops[j].here.epoch \in Nat
    BY LoopParts
  <2>2. \A j \in DOMAIN loops : loops[j].here.epoch <= here.epoch
    BY DEF Sockets, Epochs
  <2>3. here.epoch \in Nat
    BY DEF TypeOK, Here
  <2>4. ASSUME NEW j \in DOMAIN loops
        PROVE  /\ loops'[j].here.epoch <= here'.epoch
               /\ loops'[j].here.epoch # here'.epoch
    <3> DEFINE m == loops[j].here.epoch
               n == here.epoch
    <3>1. m \in Nat /\ n \in Nat /\ m <= n
      BY <2>1, <2>2, <2>3
    <3>2. loops'[j].here.epoch = m /\ here'.epoch = n + 1
      OBVIOUS
    <3> HIDE DEF m, n
    <3> QED BY <3>1, <3>2
  <2> QED BY <2>4
<1>2. Epochs' /\ Alone'
  BY <1>1 DEF Epochs, Alone
<1>3. LoginKept' /\ CurrentSocketHasSender' /\ Channels'
  BY <1>1 DEF LoginKept, CurrentSocketHasSender, Channels, Current, Owns
<1>4. Carried'
  BY DEF Sockets, Carried
<1> QED BY <1>2, <1>3, <1>4 DEF Sockets

\* A command that is submitted goes to the end of its channel.
LEMMA SubmitInv ==
  ASSUME TypeOK, Sockets, NEW c \in Commands, NEW o \in Order, NEW r,
         o.cmd = c, o.station = here.station, o.login = here.login,
         Submit(c, o, r), UNCHANGED <<here, mounted, sender, started, wire>>
  PROVE  Sockets'
<1>1. CASE ~ Attached
  BY <1>1, Quiet DEF Submit
<1>2. CASE Attached
  <2> DEFINE n == Len(orders) + 1
             m == [order |-> n, cmd |-> c]
             e == [loops[sender] EXCEPT !.queue = Append(@, m)]
  <2>1. sender \in DOMAIN loops /\ loops[sender] \in Loop
    BY <1>2 DEF TypeOK, Attached
  <2>2. m \in Message
    BY DEF TypeOK, Message
  <2>3. /\ e \in Loop /\ e.at = loops[sender].at /\ e.here = loops[sender].here
        /\ e.out = loops[sender].out /\ e.queue = Append(loops[sender].queue, m)
    BY <2>1, <2>2 DEF Loop
  <2>4. loops' = [loops EXCEPT ![sender] = e] /\ orders' = Append(orders, o)
    BY <1>2 DEF Submit
  <2>5. /\ DOMAIN loops' = DOMAIN loops
        /\ loops'[sender] = e
        /\ \A j \in DOMAIN loops : j # sender => loops'[j] = loops[j]
    <3> HIDE DEF e
    <3> QED BY <2>1, <2>3, <2>4, Replaced DEF TypeOK
  <2>6. \A j \in DOMAIN loops : /\ loops'[j].at = loops[j].at
                                /\ loops'[j].here = loops[j].here
                                /\ loops'[j].out = loops[j].out
    BY <2>3, <2>5
  <2>7. /\ Len(orders) \in Nat /\ DOMAIN orders = 1..Len(orders)
        /\ DOMAIN orders' = 1..n
        /\ orders'[n] = o
        /\ \A k \in DOMAIN orders : orders'[k] = orders[k]
    BY <2>4, Appended DEF TypeOK
  <2>8. Epochs' /\ Alone'
    BY <2>5, <2>6 DEF Sockets, Epochs, Alone
  <2>9. LoginKept' /\ CurrentSocketHasSender'
    BY <2>5, <2>6 DEF Sockets, LoginKept, CurrentSocketHasSender, Current, Owns
  <2>10. Carried'
    BY <2>7 DEF Sockets, Carried
  <2>11. \A x : Faithful(x, orders, here) => Faithful(x, orders', here')
    BY <2>7 DEF Faithful
  <2>12. Faithful(m, orders', here')
    BY <2>7 DEF Faithful
  <2> SUFFICES ASSUME NEW i \in DOMAIN loops, loops[i].at \in Live, Owns(i)
               PROVE  /\ Later(loops'[i].queue, orders', here', wire')
                      /\ loops'[i].at = "writing"
                           => NextOut(loops'[i].out, loops'[i].queue, orders', here', wire')
    <3>1. Channels'
      BY <2>5, <2>6 DEF Channels, Owns
    <3> QED BY <2>8, <2>9, <2>10, <3>1 DEF Sockets
  <2>14. /\ Later(loops[i].queue, orders, here, wire)
         /\ loops[i].at = "writing"
              => NextOut(loops[i].out, loops[i].queue, orders, here, wire)
    BY DEF Sockets, Channels
  <2>15. CASE i # sender
    <3>1. loops'[i] = loops[i] /\ wire' = wire
      BY <2>5, <2>15
    <3> QED BY <2>11, <2>14, <3>1 DEF Later, NextOut
  <2>16. CASE i = sender
    <3> DEFINE q == loops[i].queue
               p == loops'[i].queue
    <3>1. q \in Seq(Message)
      BY <2>1, <2>16 DEF Loop
    <3>2. p = Append(q, m)
      BY <2>3, <2>5, <2>16
    <3>3. /\ Len(q) \in Nat
          /\ DOMAIN q = 1..Len(q)
          /\ DOMAIN p = 1..(Len(q) + 1)
          /\ p[Len(q) + 1] = m
          /\ \A k \in DOMAIN q : p[k] = q[k]
      <4> HIDE DEF m, p, q
      <4> QED BY <2>2, <3>1, <3>2, Appended
    <3>4. \A k \in DOMAIN q : q[k].order \in Nat /\ q[k].order < n
      BY <2>7, <2>14 DEF Later, Faithful
    <3>5. \A w \in DOMAIN wire : wire[w].order \in Nat /\ wire[w].order < n
      BY <2>7 DEF Sockets, Carried
    <3>6. m.order = n /\ wire' = wire
      OBVIOUS
    <3> HIDE DEF m, n, p, q
    <3>7. Later(p, orders', here', wire')
      <4>1. \A k \in DOMAIN p : Faithful(p[k], orders', here')
        BY <2>11, <2>12, <2>14, <3>3 DEF Later, q
      <4>2. \A k, l \in DOMAIN p : k < l => p[k].order < p[l].order
        BY <2>14, <3>3, <3>4, <3>6 DEF Later, q
      <4>3. \A k \in DOMAIN p : \A w \in DOMAIN wire : wire[w].order < p[k].order
        BY <2>14, <3>3, <3>5, <3>6 DEF Later, q
      <4> QED BY <3>6, <4>1, <4>2, <4>3 DEF Later
    <3>8. ASSUME loops[i].at = "writing"
          PROVE  NextOut(loops[i].out, p, orders', here', wire')
      <4>1. Faithful(loops[i].out, orders', here')
        BY <2>11, <2>14, <3>8 DEF NextOut
      <4>2. loops[i].out.order < n
        BY <2>7, <2>14, <3>8 DEF NextOut, Faithful, n
      <4>3. \A k \in DOMAIN p : loops[i].out.order < p[k].order
        BY <2>14, <3>3, <3>6, <3>8, <4>2 DEF NextOut, q
      <4> QED BY <2>14, <3>6, <3>8, <4>1, <4>3 DEF NextOut
    <3> QED BY <2>6, <3>7, <3>8 DEF p
  <2> QED BY <2>15, <2>16
<1> QED BY <1>1, <1>2

\* An order of another kind does not end an activation.
LEMMA BeganKept ==
  ASSUME NEW os \in Seq(Order), NEW o \in Order, NEW b \in Nat, NEW kind,
         Began(b, kind, os), Kind[o.cmd] # kind
  PROVE  Began(b, kind, Append(os, o))
BY Appended DEF Began

\* What submitting does to the orders.
LEMMA SubmitBegun ==
  ASSUME TypeOK, Begun, NEW c, NEW o \in Order, NEW r, Submit(c, o, r),
         gesture' = gesture \/ gesture' = NoGesture,
         dialog' = dialog \/ dialog' = NoDialog,
         gesture' # NoGesture => Kind[o.cmd] # "supply",
         dialog'.open => Kind[o.cmd] # "Reset"
  PROVE  Begun'
<1>1. orders' = orders \/ orders' = Append(orders, o)
  BY DEF Submit
<1>2. ASSUME gesture' # NoGesture
      PROVE  Began(gesture'.begun, "supply", orders')
  <2>1. gesture' = gesture /\ gesture.begun \in Nat
    BY <1>2 DEF TypeOK, Gesture
  <2>2. Began(gesture.begun, "supply", orders) /\ Kind[o.cmd] # "supply"
    BY <1>2, <2>1 DEF Begun
  <2> QED BY <1>1, <2>1, <2>2, BeganKept DEF TypeOK
<1>3. ASSUME dialog'.open
      PROVE  Began(dialog'.begun, "Reset", orders')
  <2>1. dialog' = dialog /\ dialog.begun \in Nat
    <3>1. NoDialog.open = FALSE
      BY DEF NoDialog
    <3>2. dialog' = dialog /\ dialog # NoDialog
      BY <1>3, <3>1
    <3> QED BY <3>2 DEF TypeOK, Dialog
  <2>2. Began(dialog.begun, "Reset", orders) /\ Kind[o.cmd] # "Reset"
    BY <1>3, <2>1 DEF Begun
  <2> QED BY <1>1, <2>1, <2>2, BeganKept DEF TypeOK
<1> QED BY <1>2, <1>3 DEF Begun

\* A step that leaves the orders alone and begins nothing.
LEMMA NothingBegun ==
  ASSUME Begun, orders' = orders,
         gesture' \in {gesture, NoGesture}, dialog' \in {dialog, NoDialog}
  PROVE  Begun'
BY DEF Begun, NoDialog

\* What an activation begun now is known to have begun after.
LEMMA BeginsNow ==
  ASSUME TypeOK, NEW kind
  PROVE  Began(Len(orders), kind, orders)
<1>1. Len(orders) \in Nat /\ DOMAIN orders = 1..Len(orders)
  BY DEF TypeOK
<1> QED BY <1>1 DEF Began

\* What the operator does preserves the invariant.
LEMMA OperatorInv == ASSUME IInv, Operator PROVE IInv'
<1> USE DEF IInv
<1>0. TypeOK'
  BY OperatorType
<1>q. ASSUME Steady, UNCHANGED <<loops, orders>> PROVE Sockets'
  BY <1>q, Quiet DEF Steady
<1>1. CASE Press
  <2>1. Sockets'
    BY <1>1, <1>q DEF Press
  <2>2. Begun'
    BY <1>1, BeginsNow DEF Press, Begun
  <2> QED BY <1>0, <2>1, <2>2
<1>2. CASE AbandonPress \/ CancelReset \/ DedupElapses
  <2>1. Sockets'
    BY <1>2, <1>q DEF AbandonPress, CancelReset, DedupElapses
  <2>2. Begun'
    BY <1>2, NothingBegun DEF AbandonPress, CancelReset, DedupElapses
  <2> QED BY <1>0, <2>1, <2>2
<1>3. CASE ClickSupply
  <2>1. CASE PressHolds /\ Submit(SupplyCommand,
               Ordered(gesture.cmd, gesture.here, gesture.begun), SupplyCommand)
    <3> DEFINE o == Ordered(gesture.cmd, gesture.here, gesture.begun)
    <3>1. /\ o \in Order /\ o.cmd = SupplyCommand
          /\ o.station = here.station /\ o.login = here.login
      <4>1. gesture \in Gesture
        BY <2>1 DEF PressHolds, TypeOK
      <4> QED BY <2>1, <4>1, OrderedType DEF PressHolds, Ordered, Gesture, Here, Commands
    <3>2. SupplyCommand \in Commands /\ Kind[SupplyCommand] = "supply"
      BY DEF SupplyCommand, Commands, Kind
    <3>3. gesture' = NoGesture /\ dialog' = dialog /\ Steady
      BY <1>3 DEF ClickSupply
    <3> HIDE DEF o
    <3>4. Sockets'
      BY <2>1, <3>1, <3>2, <3>3, SubmitInv DEF Steady, o
    <3>5. Begun'
      BY <2>1, <3>1, <3>2, <3>3, SubmitBegun DEF o
    <3> QED BY <1>0, <3>4, <3>5
  <2>2. CASE UNCHANGED <<loops, orders>>
    <3>1. Sockets'
      BY <1>3, <2>2, <1>q DEF ClickSupply
    <3>2. Begun'
      BY <1>3, <2>2, NothingBegun DEF ClickSupply
    <3> QED BY <1>0, <3>1, <3>2
  <2> QED BY <1>3, <2>1, <2>2 DEF ClickSupply
<1>4. CASE ClickGo
  <2> DEFINE o == Ordered("Go", here, Len(orders))
  <2>1. /\ o \in Order /\ o.cmd = "Go"
        /\ o.station = here.station /\ o.login = here.login
    BY OrderedType DEF Ordered, TypeOK, Here, Commands
  <2>2. "Go" \in Commands /\ Kind["Go"] = "Go"
    BY DEF Commands, Kind
  <2> HIDE DEF o
  <2>3. Submit("Go", o, "Go") /\ Steady /\ UNCHANGED <<gesture, dialog>>
    BY <1>4 DEF ClickGo, o
  <2>4. Sockets'
    BY <2>1, <2>2, <2>3, SubmitInv DEF Steady
  <2>5. Begun'
    BY <2>1, <2>2, <2>3, SubmitBegun
  <2> QED BY <1>0, <2>4, <2>5
<1>5. CASE ClickReset
  <2>1. Sockets'
    BY <1>5, <1>q DEF ClickReset
  <2>2. Begun'
    BY <1>5, BeginsNow DEF ClickReset, Begun
  <2> QED BY <1>0, <2>1, <2>2
<1>6. CASE ConfirmReset
  <2> DEFINE o == Ordered("Reset", dialog, dialog.begun)
  <2>0. dialog' = NoDialog /\ UNCHANGED gesture /\ Steady
    BY <1>6 DEF ConfirmReset
  <2>1. CASE /\ <<dialog.station, dialog.login>> = <<here.station, here.login>>
             /\ Submit("Reset", o, last)
    <3>1. /\ o \in Order /\ o.cmd = "Reset"
          /\ o.station = here.station /\ o.login = here.login
      <4>1. dialog \in Dialog
        BY <1>6 DEF ConfirmReset, NoDialog, TypeOK
      <4> QED BY <2>1, <4>1, OrderedType DEF Ordered, Dialog, Commands
    <3>2. "Reset" \in Commands /\ Kind["Reset"] = "Reset"
      BY DEF Commands, Kind
    <3> HIDE DEF o
    <3>3. Sockets'
      BY <2>0, <2>1, <3>1, <3>2, SubmitInv DEF Steady
    <3>4. Begun'
      BY <2>0, <2>1, <3>1, <3>2, SubmitBegun DEF NoDialog
    <3> QED BY <1>0, <3>3, <3>4
  <2>2. CASE UNCHANGED <<loops, orders>>
    <3>1. Sockets'
      BY <2>0, <2>2, <1>q
    <3>2. Begun'
      BY <2>0, <2>2, NothingBegun
    <3> QED BY <1>0, <3>1, <3>2
  <2> QED BY <1>6, <2>1, <2>2 DEF ConfirmReset
<1> QED BY <1>1, <1>2, <1>3, <1>4, <1>5, <1>6 DEF Operator

\* What happens around the dashboard preserves the invariant: a login lost or a
\* new epoch leaves no socket that is the current session's.
LEMMA SurroundingsInv == ASSUME IInv, Surroundings PROVE IInv'
<1> USE DEF IInv
<1>0. TypeOK'
  BY SurroundingsType
<1>1. CASE PolicyArrives
  <2>1. Sockets'
    BY <1>1, Quiet DEF PolicyArrives, line
  <2>2. Begun'
    BY <1>1, NothingBegun DEF PolicyArrives, line
  <2> QED BY <1>0, <2>1, <2>2
<1>2. CASE Unauthorized
  <2>1. /\ here.login # Nobody
        /\ here'.login = Nobody /\ here'.epoch = here.epoch
        /\ UNCHANGED <<mounted, sender, loops, started, orders, wire, gesture, dialog>>
    BY <1>2 DEF Unauthorized, controls, line, TypeOK, Here
  <2>2. Epochs' /\ Alone' /\ Carried'
    BY <2>1 DEF Sockets, Epochs, Alone, Carried
  <2>3. LoginKept'
    BY <2>1 DEF Sockets, LoginKept, Current
  <2>4. \A i \in DOMAIN loops : loops[i].at \in Live => ~ Owns(i)'
    <3> SUFFICES ASSUME NEW i \in DOMAIN loops, loops[i].at \in Live, Owns(i)'
                 PROVE  FALSE
      OBVIOUS
    <3>1. loops[i].here = here' /\ mounted
      BY <2>1 DEF Owns
    <3>2. here.login \in {loops[i].here.login, Nobody}
      BY <2>1, <3>1 DEF Sockets, LoginKept, Current
    <3> QED BY <2>1, <3>1, <3>2
  <2>5. CurrentSocketHasSender' /\ Channels'
    BY <2>1, <2>4 DEF CurrentSocketHasSender, Channels
  <2>6. Sockets'
    BY <2>2, <2>3, <2>5 DEF Sockets
  <2>7. Begun'
    BY <2>1, NothingBegun
  <2> QED BY <1>0, <2>6, <2>7
<1>3. CASE \/ Reconnect \/ HardReload \/ Leave
           \/ \E s \in Stations, t \in Logins : Enter(s, t)
  <2>1. here'.epoch = here.epoch + 1
    BY <1>3 DEF Reconnect, HardReload, Leave, Enter, Bump
  <2>2. /\ UNCHANGED <<loops, orders, wire>>
        /\ gesture' \in {gesture, NoGesture} /\ dialog' \in {dialog, NoDialog}
    BY <1>3 DEF Reconnect, HardReload, Leave, Enter, DropControls, controls, line
  <2>3. Sockets'
    BY <2>1, <2>2, NewEpoch
  <2>4. Begun'
    BY <2>2, NothingBegun
  <2> QED BY <1>0, <2>3, <2>4
<1>4. CASE ShellReplaces
  <2>1. /\ ~ mounted'
        /\ UNCHANGED <<here, sender, loops, started, orders, wire>>
        /\ gesture' = NoGesture /\ dialog' = NoDialog
    BY <1>4 DEF ShellReplaces, DropControls, line
  <2>2. Epochs' /\ Alone' /\ Carried'
    BY <2>1 DEF Sockets, Epochs, Alone, Carried
  <2>3. LoginKept' /\ CurrentSocketHasSender' /\ Channels'
    BY <2>1 DEF LoginKept, CurrentSocketHasSender, Channels, Current, Owns
  <2>4. Begun'
    BY <2>1, NothingBegun
  <2> QED BY <1>0, <2>2, <2>3, <2>4 DEF Sockets
<1> QED BY <1>1, <1>2, <1>3, <1>4 DEF Surroundings

\* The effect starts a supervisor when its epoch has none.
LEMMA SpawnInv == ASSUME IInv, Spawn PROVE IInv'
<1> USE DEF IInv
<1> DEFINE n == Len(loops) + 1
<1>1. /\ loops' \in Seq(Loop) /\ DOMAIN loops' = 1..n
      /\ DOMAIN loops = 1..Len(loops) /\ Len(loops) \in Nat
      /\ loops'[n].at = "ready" /\ loops'[n].here = here
      /\ \A j \in DOMAIN loops : loops'[j] = loops[j]
  BY SpawnEffect
<1>2. /\ started # here.epoch /\ started' = here.epoch
      /\ UNCHANGED <<here, mounted, policy, last, gesture, dialog, error, sender, metrics,
                     orders, wire, left>>
  BY DEF Spawn, controls, line
<1>3. here.epoch \in Nat
  BY DEF TypeOK, Here
<1>4. TypeOK'
  BY <1>1, <1>2, <1>3 DEF TypeOK
<1>5. \A j \in DOMAIN loops : loops[j].here.epoch # here.epoch
  BY <1>2 DEF Sockets, Epochs
<1> HIDE DEF n
<1>6. \A j \in DOMAIN loops' : j \in DOMAIN loops \/ j = n
  BY <1>1 DEF n
<1>7. Epochs'
  BY <1>1, <1>2, <1>3, <1>6 DEF Sockets, Epochs
<1>8. Alone'
  BY <1>1, <1>2, <1>5, <1>6 DEF Alone
<1>9. LoginKept' /\ CurrentSocketHasSender' /\ Channels'
  <2>1. "ready" \notin Live
    BY DEF Live
  <2>2. \A j \in DOMAIN loops' : loops'[j].at \in Live => loops'[j].here.epoch # here'.epoch
    BY <1>1, <1>2, <1>5, <1>6, <2>1
  <2> QED BY <2>2 DEF LoginKept, CurrentSocketHasSender, Channels, Current, Owns
<1>10. Carried'
  BY <1>2 DEF Sockets, Carried
<1>11. Begun'
  BY <1>2, NothingBegun
<1> QED BY <1>4, <1>7, <1>8, <1>9, <1>10, <1>11 DEF Sockets

\* A supervisor's step leaves the epochs of all supervisors alone.
LEMMA EpochsKept ==
  ASSUME Sockets, NEW i \in DOMAIN loops, DOMAIN loops' = DOMAIN loops,
         \A j \in DOMAIN loops : j # i => loops'[j] = loops[j],
         loops'[i].here.epoch = loops[i].here.epoch,
         here'.epoch = here.epoch, started' = started
  PROVE  Epochs' /\ Alone'
<1>1. \A j \in DOMAIN loops : loops'[j].here.epoch = loops[j].here.epoch
  OBVIOUS
<1> QED BY <1>1 DEF Sockets, Epochs, Alone

\* A supervisor that is left without a socket: if it was of the current epoch, no
\* socket is the session's any more.
LEMMA WithoutSocket ==
  ASSUME Sockets, NEW i \in DOMAIN loops, DOMAIN loops' = DOMAIN loops,
         \A j \in DOMAIN loops : j # i => loops'[j] = loops[j],
         loops'[i].here.epoch = loops[i].here.epoch,
         loops'[i].at \notin Live,
         here'.epoch = here.epoch,
         UNCHANGED <<mounted, started, orders>>,
         Carried',
         \/ Current(i)
         \/ UNCHANGED <<here, wire>> /\ (sender # i => sender' = sender)
  PROVE  Sockets'
<1>1. Epochs' /\ Alone'
  BY EpochsKept
<1>2. ASSUME NEW j \in DOMAIN loops, loops'[j].at \in Live, Current(j)'
      PROVE  /\ j # i /\ loops'[j] = loops[j] /\ Current(j)
             /\ UNCHANGED <<here, wire>> /\ (sender # i => sender' = sender)
  <2>1. j # i /\ loops'[j] = loops[j] /\ Current(j)
    BY <1>2 DEF Current
  <2>2. ~ Current(i)
    BY <2>1 DEF Sockets, Alone, Current
  <2> QED BY <2>1, <2>2
<1>3. LoginKept'
  BY <1>2 DEF Sockets, LoginKept
<1>4. ASSUME NEW j \in DOMAIN loops, loops'[j].at \in Live, Owns(j)'
      PROVE  /\ sender' = j
             /\ Later(loops'[j].queue, orders', here', wire')
             /\ loops'[j].at = "writing"
                  => NextOut(loops'[j].out, loops'[j].queue, orders', here', wire')
  <2>1. Current(j)'
    BY <1>4 DEF Owns, Current
  <2>2. /\ j # i /\ loops'[j] = loops[j]
        /\ UNCHANGED <<here, wire>> /\ (sender # i => sender' = sender)
    BY <1>2, <1>4, <2>1
  <2>3. loops[j].at \in Live /\ Owns(j)
    BY <1>4, <2>2 DEF Owns
  <2>4. sender = j
    BY <2>3 DEF Sockets, CurrentSocketHasSender
  <2> QED BY <2>2, <2>3, <2>4 DEF Sockets, Channels
<1>5. CurrentSocketHasSender' /\ Channels'
  BY <1>4 DEF CurrentSocketHasSender, Channels
<1> QED BY <1>1, <1>3, <1>5 DEF Sockets

\* A supervisor of the current epoch that has the sender: its socket is the only
\* one that may be the session's.
LEMMA WithSocket ==
  ASSUME Sockets, NEW i \in DOMAIN loops, Current(i), DOMAIN loops' = DOMAIN loops,
         \A j \in DOMAIN loops : j # i => loops'[j] = loops[j],
         loops'[i].here.epoch = loops[i].here.epoch,
         here.login \in {loops'[i].here.login, Nobody},
         UNCHANGED <<here, mounted, started, orders>>,
         sender' = i,
         Carried',
         Later(loops'[i].queue, orders, here, wire'),
         loops'[i].at = "writing" => NextOut(loops'[i].out, loops'[i].queue, orders, here, wire')
  PROVE  Sockets'
<1>1. Epochs' /\ Alone'
  BY EpochsKept
<1>2. ASSUME NEW j \in DOMAIN loops, Current(j)' PROVE j = i
  <2>1. loops[j].here.epoch = here.epoch /\ loops[i].here.epoch = here.epoch
    BY <1>2 DEF Current
  <2> QED BY <2>1 DEF Sockets, Alone
<1>3. \A j \in DOMAIN loops : Owns(j)' => j = i
  BY <1>2 DEF Owns, Current
<1>4. LoginKept'
  BY <1>2 DEF LoginKept
<1>5. CurrentSocketHasSender'
  BY <1>3 DEF CurrentSocketHasSender
<1>6. Channels'
  BY <1>3 DEF Channels
<1> QED BY <1>1, <1>4, <1>5, <1>6 DEF Sockets

\* The message an owned socket is writing is one.
LEMMA OutIsMessage ==
  ASSUME TypeOK, Sockets, NEW i \in DOMAIN loops, loops[i].at = "writing", Owns(i)
  PROVE  /\ loops[i].out \in Message
         /\ Later(loops[i].queue, orders, here, wire)
         /\ NextOut(loops[i].out, loops[i].queue, orders, here, wire)
         /\ loops[i].here = here /\ sender = i /\ Current(i)
<1>1. /\ Later(loops[i].queue, orders, here, wire)
      /\ NextOut(loops[i].out, loops[i].queue, orders, here, wire)
      /\ sender = i
  BY DEF Sockets, Channels, CurrentSocketHasSender, Live
<1>2. loops[i].out.order \in 1..Len(orders)
  BY <1>1 DEF NextOut, Faithful, TypeOK
<1>3. loops[i].out # NoMessage
  BY <1>2 DEF NoMessage
<1>4. loops[i].out \in Message
  BY <1>3, LoopParts DEF Loop
<1> QED BY <1>1, <1>4 DEF Owns, Current

\* A socket that accepts its message carries it: an order that was not carried,
\* and no later one was.
LEMMA AcceptedInv ==
  ASSUME TypeOK, Sockets, NEW i \in DOMAIN loops, loops[i].at = "writing", Owns(i),
         Accepted(i), orders' = orders
  PROVE  /\ wire' \in Seq(Packet)
         /\ Carried'
         /\ Later(loops[i].queue, orders, here, wire')
<1> DEFINE n == loops[i].out.order
<1>1. /\ loops[i].out \in Message
      /\ Later(loops[i].queue, orders, here, wire)
      /\ NextOut(loops[i].out, loops[i].queue, orders, here, wire)
  BY OutIsMessage
<1>2. /\ wire' \in Seq(Packet)
      /\ Len(wire) \in Nat
      /\ DOMAIN wire = 1..Len(wire) /\ DOMAIN wire' = 1..(Len(wire) + 1)
      /\ wire'[Len(wire) + 1].order = n
      /\ \A w \in DOMAIN wire : wire'[w] = wire[w]
  BY <1>1, AcceptedType DEF TypeOK
<1>3. \A w \in DOMAIN wire' : w \in DOMAIN wire \/ wire'[w].order = n
  BY <1>2
<1>4. n \in DOMAIN orders /\ \A k \in DOMAIN loops[i].queue : n < loops[i].queue[k].order
  BY <1>1 DEF NextOut, Faithful
<1> HIDE DEF n
<1>5. Carried'
  BY <1>2, <1>3, <1>4 DEF Sockets, Carried
<1>6. Later(loops[i].queue, orders, here, wire')
  BY <1>1, <1>2, <1>3, <1>4 DEF Later
<1> QED BY <1>2, <1>5, <1>6

\* The metrics after a connection was lost, or none.
LEMMA LostType ==
  ASSUME TypeOK
  PROVE  /\ metrics \in Metrics
         /\ [up |-> FALSE, lost |-> IF metrics.up THEN metrics.lost + 1 ELSE metrics.lost]
              \in Metrics
BY DEF TypeOK, Metrics

\* What a supervisor does preserves the invariant.
LEMMA SupervisorInv == ASSUME IInv, NEW i \in DOMAIN loops, Supervisor(i) PROVE IInv'
<1> USE DEF IInv
<1>0. /\ loops[i] \in Loop /\ loops[i].here \in Here /\ loops[i].here.epoch \in Nat
      /\ loops[i].queue \in Seq(Message)
  BY LoopParts
<1>c. Carried /\ {"connecting", "open", "writing", "flushing"} \subseteq Live
  BY DEF Sockets, Live
<1>b. ASSUME UNCHANGED <<orders, gesture, dialog>> PROVE Begun'
  BY <1>b, NothingBegun
<1>1. CASE Connect(i)
  <2>1. /\ loops' \in Seq(Loop) /\ DOMAIN loops' = DOMAIN loops
        /\ loops'[i].here = here /\ loops'[i].queue = <<>> /\ loops'[i].at = "connecting"
        /\ \A j \in DOMAIN loops : j # i => loops'[j] = loops[j]
    BY <1>1, ConnectEffect
  <2>2. /\ Current(i) /\ sender' = i /\ loops[i].here.epoch = here.epoch
        /\ UNCHANGED <<here, mounted, policy, last, gesture, dialog, error, started,
                       metrics, orders, wire, left>>
    BY <1>1 DEF Connect, Current, controls, line
  <2>3. TypeOK'
    BY <2>1, <2>2 DEF TypeOK
  <2>4. Carried'
    BY <1>c, <2>2 DEF Carried
  <2>5. Later(loops'[i].queue, orders, here, wire')
    BY <2>1 DEF Later
  <2>6. Sockets'
    BY <2>1, <2>2, <2>4, <2>5, WithSocket
  <2> QED BY <1>b, <2>2, <2>3, <2>6
<1>2. CASE Opened(i) \/ Flushed(i)
  <2>1. /\ loops' \in Seq(Loop) /\ DOMAIN loops' = DOMAIN loops
        /\ loops'[i].here = loops[i].here /\ loops'[i].queue = loops[i].queue
        /\ loops'[i].at = "open"
        /\ \A j \in DOMAIN loops : j # i => loops'[j] = loops[j]
    BY <1>2, StageEffect DEF Opened, Flushed, Stages
  <2>2. /\ loops[i].at \in {"connecting", "flushing"} /\ Owns(i)
        /\ metrics' \in {metrics, [metrics EXCEPT !.up = TRUE]}
        /\ UNCHANGED <<here, mounted, policy, last, gesture, dialog, error, sender, started,
                       orders, wire, left>>
    BY <1>2 DEF Opened, Flushed, controls, line
  <2>3. TypeOK'
    <3>1. metrics' \in Metrics
      BY <2>2 DEF TypeOK, Metrics
    <3> QED BY <2>1, <2>2, <3>1 DEF TypeOK
  <2>4. Carried'
    BY <1>c, <2>2 DEF Carried
  <2>5. Later(loops'[i].queue, orders, here, wire') /\ sender = i
    BY <1>c, <2>1, <2>2 DEF Sockets, Channels, CurrentSocketHasSender
  <2>6. Current(i) /\ loops'[i].here.login = here.login
    BY <2>1, <2>2 DEF Owns, Current
  <2>7. Sockets'
    BY <2>1, <2>2, <2>4, <2>5, <2>6, WithSocket
  <2> QED BY <1>b, <2>2, <2>3, <2>7
<1>3. CASE Take(i)
  <2> DEFINE q == loops[i].queue
             r == loops'[i].queue
  <2>1. /\ loops' \in Seq(Loop) /\ DOMAIN loops' = DOMAIN loops
        /\ loops'[i].at = "writing" /\ loops'[i].here = loops[i].here
        /\ r = Tail(q) /\ loops'[i].out = q[1]
        /\ \A j \in DOMAIN loops : j # i => loops'[j] = loops[j]
    BY <1>3, TakeEffect
  <2>2. /\ loops[i].at = "open" /\ q # <<>> /\ Owns(i)
        /\ UNCHANGED <<here, mounted, policy, last, gesture, dialog, error, sender, started,
                       metrics, orders, wire, left>>
    BY <1>3 DEF Take, controls, line
  <2>3. TypeOK'
    BY <2>1, <2>2 DEF TypeOK
  <2>4. Later(q, orders, here, wire) /\ sender = i
    BY <1>c, <2>2 DEF Sockets, Channels, CurrentSocketHasSender
  <2>5. q \in Seq(Message) /\ Len(q) \in Nat /\ DOMAIN q = 1..Len(q) /\ 1 \in DOMAIN q
    BY <1>0, <2>2
  <2>6. \A k \in DOMAIN r : k \in Nat /\ k + 1 \in DOMAIN q /\ 1 < k + 1 /\ r[k] = q[k + 1]
    <3> HIDE DEF q, r
    <3> QED BY <2>1, <2>2, <2>5
  <2> HIDE DEF q, r
  <2>7. Later(r, orders, here, wire)
    <3>1. \A k, l \in DOMAIN r : k < l => k + 1 < l + 1
      BY <2>6
    <3> QED BY <2>4, <2>6, <3>1 DEF Later
  <2>8. NextOut(q[1], r, orders, here, wire)
    BY <2>4, <2>5, <2>6 DEF Later, NextOut
  <2>9. Current(i) /\ loops'[i].here.login = here.login
    BY <2>1, <2>2 DEF Owns, Current
  <2>10. Carried'
    BY <1>c, <2>2 DEF Carried
  <2>11. Sockets'
    BY <2>1, <2>2, <2>4, <2>7, <2>8, <2>9, <2>10, WithSocket DEF r
  <2> QED BY <1>b, <2>2, <2>3, <2>11
<1>4. CASE Written(i)
  <2>1. /\ loops' \in Seq(Loop) /\ DOMAIN loops' = DOMAIN loops
        /\ loops'[i].at = "flushing" /\ loops'[i].here = loops[i].here
        /\ loops'[i].queue = loops[i].queue
        /\ \A j \in DOMAIN loops : j # i => loops'[j] = loops[j]
    BY <1>4, WrittenEffect
  <2>2. /\ loops[i].at = "writing" /\ Owns(i) /\ Accepted(i)
        /\ UNCHANGED <<here, mounted, policy, last, gesture, dialog, error, sender, started,
                       metrics, orders, left>>
    BY <1>4 DEF Written, controls
  <2>3. /\ wire' \in Seq(Packet) /\ Carried'
        /\ Later(loops[i].queue, orders, here, wire')
    BY <2>2, AcceptedInv
  <2>4. TypeOK'
    BY <2>1, <2>2, <2>3 DEF TypeOK
  <2>5. sender = i /\ Current(i) /\ loops'[i].here.login = here.login
    BY <2>1, <2>2, OutIsMessage
  <2>6. Sockets'
    BY <2>1, <2>2, <2>3, <2>5, WithSocket
  <2> QED BY <1>b, <2>2, <2>4, <2>6
<1>5. CASE Retire(i)
  <2>1. /\ loops' \in Seq(Loop) /\ DOMAIN loops' = DOMAIN loops
        /\ loops'[i].at \notin Live
        /\ loops'[i].here.epoch = loops[i].here.epoch
        /\ \A j \in DOMAIN loops : j # i => loops'[j] = loops[j]
    BY <1>5, EndSocketEffect DEF Retire
  <2>2. /\ sender' = IF sender = i THEN Gone ELSE sender
        /\ UNCHANGED <<here, mounted, policy, last, gesture, dialog, error, started,
                       metrics, orders, wire, left>>
    BY <1>5 DEF Retire, controls, line
  <2>3. TypeOK'
    BY <2>1, <2>2 DEF TypeOK
  <2>4. Carried'
    BY <1>c, <2>2 DEF Carried
  <2>5. Sockets'
    BY <2>1, <2>2, <2>4, WithoutSocket
  <2> QED BY <1>b, <2>2, <2>3, <2>5
<1>6. CASE ConnectFails(i) \/ Dropped(i) \/ WriteFails(i)
  <2>1. /\ loops' \in Seq(Loop) /\ DOMAIN loops' = DOMAIN loops
        /\ loops'[i].at \notin Live
        /\ loops'[i].here.epoch = loops[i].here.epoch
        /\ \A j \in DOMAIN loops : j # i => loops'[j] = loops[j]
    BY <1>6, EndSocketEffect DEF ConnectFails, Dropped, WriteFails, SocketLost
  <2>2. /\ sender' = None /\ Owns(i) /\ Spend("fail")
        /\ metrics' \in {metrics,
             [up |-> FALSE, lost |-> IF metrics.up THEN metrics.lost + 1 ELSE metrics.lost]}
        /\ UNCHANGED <<here, mounted, policy, last, gesture, dialog, error, started,
                       orders, wire>>
    BY <1>6 DEF ConnectFails, Dropped, WriteFails, SocketLost, controls, line
  <2>3. left' \in [Events -> Nat] /\ metrics' \in Metrics
    <3>1. left' \in [Events -> Nat]
      BY <2>2, SpendType DEF Events
    <3>2. metrics' \in Metrics
      BY <2>2, LostType
    <3> QED BY <3>1, <3>2
  <2>4. TypeOK'
    BY <2>1, <2>2, <2>3 DEF TypeOK
  <2>5. Carried' /\ Current(i)
    BY <1>c, <2>2 DEF Carried, Owns, Current
  <2>6. Sockets'
    BY <2>1, <2>2, <2>5, WithoutSocket
  <2> QED BY <1>b, <2>2, <2>4, <2>6
<1>7. ASSUME NEW s \in Stations, SweepFound(i, s) PROVE IInv'
  <2>1. /\ loops' \in Seq(Loop) /\ DOMAIN loops' = DOMAIN loops
        /\ loops'[i].at = "ended" /\ loops'[i].here = loops[i].here
        /\ \A j \in DOMAIN loops : j # i => loops'[j] = loops[j]
    BY <1>7, StageEffect DEF SweepFound, Stages
  <2>2. /\ Current(i) /\ Spend("found")
        /\ UNCHANGED <<mounted, policy, last, gesture, dialog, error, started, orders, wire>>
    BY <1>7 DEF SweepFound, controls, line
  <2>3. left' \in [Events -> Nat]
    BY <2>2, SpendType DEF Events
  <2>4. loops[i].here.login \in Logins
    BY <1>0 DEF Here
  <2>5. CASE Bump(s, loops[i].here.login)
    <3>1. /\ here' \in Here /\ here'.epoch = here.epoch + 1
          /\ sender' = None /\ metrics' \in Metrics
      BY <2>4, <2>5, BumpType
    <3>2. TypeOK'
      BY <2>1, <2>2, <2>3, <3>1 DEF TypeOK
    <3>3. \A j \in DOMAIN loops : loops'[j].here.epoch = loops[j].here.epoch
      BY <2>1
    <3>4. Sockets'
      BY <2>1, <2>2, <3>1, <3>3, NewEpoch
    <3> QED BY <1>b, <2>2, <3>2, <3>4
  <2>6. CASE /\ here' = [here EXCEPT !.station = s, !.login = loops[i].here.login]
             /\ UNCHANGED <<sender, metrics>>
    <3>1. here' \in Here /\ here'.epoch = here.epoch
      BY <2>4, <2>6 DEF TypeOK, Here
    <3>2. TypeOK'
      BY <2>1, <2>2, <2>3, <2>6, <3>1 DEF TypeOK
    <3>3. "ended" \notin Live
      BY DEF Live
    <3>4. Carried'
      BY <1>c, <2>2 DEF Carried
    <3>5. Sockets'
      BY <2>1, <2>2, <3>1, <3>3, <3>4, WithoutSocket
    <3> QED BY <1>b, <2>2, <3>2, <3>5
  <2> QED BY <1>7, <2>5, <2>6 DEF SweepFound
<1>8. CASE SweepEnds(i) \/ LoopEnds(i)
  <2>1. PICK s \in {"ready", "ended"} : loops' = [loops EXCEPT ![i].at = s]
    BY <1>8 DEF SweepEnds, LoopEnds
  <2>2. /\ loops' \in Seq(Loop) /\ DOMAIN loops' = DOMAIN loops
        /\ loops'[i].at \notin Live /\ loops'[i].here = loops[i].here
        /\ \A j \in DOMAIN loops : j # i => loops'[j] = loops[j]
    <3>1. s \in Stages /\ s \notin Live
      BY DEF Stages, Live
    <3> QED BY <2>1, <3>1, StageEffect
  <2>3. UNCHANGED <<here, mounted, policy, last, gesture, dialog, error, sender, started,
                    metrics, orders, wire, left>>
    BY <1>8 DEF SweepEnds, LoopEnds, controls, line
  <2>4. TypeOK'
    BY <2>2, <2>3 DEF TypeOK
  <2>5. Carried'
    BY <1>c, <2>3 DEF Carried
  <2>6. Sockets'
    BY <2>2, <2>3, <2>5, WithoutSocket
  <2> QED BY <1>b, <2>3, <2>4, <2>6
<1> QED BY <1>1, <1>2, <1>3, <1>4, <1>5, <1>6, <1>7, <1>8 DEF Supervisor, Proceeds

\* The invariant is inductive.
LEMMA NextInv == ASSUME IInv, [Next]_vars PROVE IInv'
<1>1. CASE Operator
  BY <1>1, OperatorInv
<1>2. CASE Surroundings
  BY <1>2, SurroundingsInv
<1>3. CASE Spawn
  BY <1>3, SpawnInv
<1>4. ASSUME NEW i \in DOMAIN loops, Supervisor(i) PROVE IInv'
  BY <1>4, SupervisorInv
<1>5. CASE UNCHANGED vars
  <2>1. TypeOK'
    BY <1>5 DEF vars, IInv, TypeOK
  <2>2. Sockets'
    BY <1>5, Quiet DEF vars, IInv
  <2>3. Begun'
    BY <1>5, NothingBegun DEF vars, IInv
  <2> QED BY <2>1, <2>2, <2>3 DEF IInv
<1> QED BY <1>1, <1>2, <1>3, <1>4, <1>5 DEF Next

\* The invariant holds in every reachable state.
LEMMA Invariance == Spec => []IInv
BY InitInv, NextInv, PTL DEF Spec

-----------------------------------------------------------------------------
(* The theorems *)

\* Every variable of CommandSession holds a value of its kind.
THEOREM SessionTypes == Spec => []TypeOK
<1>1. IInv => TypeOK
  BY DEF IInv
<1> QED BY <1>1, Invariance, PTL

\* Commands are queued on the socket of the current session, of which there is
\* one at most, however supervisors are retired and replaced.
THEOREM SenderKept == Spec => []CurrentSocketHasSender
<1>1. IInv => CurrentSocketHasSender
  BY DEF IInv, Sockets
<1> QED BY <1>1, Invariance, PTL

\* A command that is submitted is one that CommandLine may issue.
LEMMA SubmitIssues ==
  ASSUME TypeOK, NEW c \in Commands, NEW s \in Stations, NEW t \in Logins,
         NEW b \in Nat, NEW r, Began(b, Kind[c], orders), wire' = wire,
         Submit(c, [cmd |-> c, station |-> s, login |-> t, begun |-> b], r)
  PROVE  Line!LineNext \/ UNCHANGED Line!lineVars
<1>1. CASE Attached
  <2>1. b \in 0..Len(orders)
    BY DEF Began, TypeOK
  <2>2. Line!Issue(c, s, t, b)
    BY <1>1 DEF Submit, Began, Line!Issue
  <2> QED BY <2>1, <2>2 DEF Line!LineNext
<1>2. CASE ~ Attached
  BY <1>2 DEF Submit, Line!lineVars
<1> QED BY <1>1, <1>2

\* A message that a socket accepts is one that CommandLine may carry.
LEMMA AcceptedCarries ==
  ASSUME TypeOK, Sockets, NEW i \in DOMAIN loops, loops[i].at = "writing", Owns(i),
         Accepted(i), orders' = orders
  PROVE  Line!LineNext
<1> DEFINE n == loops[i].out.order
<1>1. NextOut(loops[i].out, loops[i].queue, orders, here, wire) /\ loops[i].here = here
  BY OutIsMessage
<1>2. n \in DOMAIN orders /\ Line!Carry(n)
  BY <1>1 DEF NextOut, Faithful, Accepted, Line!Carry
<1> QED BY <1>2 DEF Line!LineNext

\* Every step is one of CommandLine, or leaves the orders and the wire alone.
LEMMA StepRefines == ASSUME IInv, [Next]_vars PROVE [Line!LineNext]_(Line!lineVars)
<1> USE DEF IInv
<1>s. ASSUME UNCHANGED <<orders, wire>> PROVE UNCHANGED Line!lineVars
  BY <1>s DEF Line!lineVars
<1>1. CASE Operator
  <2>0. wire' = wire
    BY <1>1 DEF Operator, Press, AbandonPress, ClickSupply, ClickGo, ClickReset,
                ConfirmReset, CancelReset, DedupElapses, Steady
  <2>1. CASE orders' = orders
    BY <2>0, <2>1, <1>s
  <2>2. CASE /\ PressHolds
             /\ Submit(SupplyCommand,
                   Ordered(gesture.cmd, gesture.here, gesture.begun), SupplyCommand)
    <3>1. /\ gesture \in Gesture /\ gesture.cmd = SupplyCommand
          /\ Began(gesture.begun, "supply", orders)
      BY <2>2 DEF PressHolds, TypeOK, Begun
    <3>2. /\ SupplyCommand \in Commands /\ Kind[SupplyCommand] = "supply"
          /\ gesture.here.station \in Stations /\ gesture.here.login \in Logins
          /\ gesture.begun \in Nat
      BY <3>1 DEF Gesture, Here, SupplyCommand, Commands, Kind
    <3> QED BY <2>0, <2>2, <3>1, <3>2, SubmitIssues DEF Ordered
  <2>3. CASE Submit("Go", Ordered("Go", here, Len(orders)), "Go")
    <3>1. /\ "Go" \in Commands /\ Len(orders) \in Nat
          /\ here.station \in Stations /\ here.login \in Logins
      BY DEF Commands, TypeOK, Here
    <3>2. Began(Len(orders), Kind["Go"], orders)
      BY BeginsNow
    <3> QED BY <2>0, <2>3, <3>1, <3>2, SubmitIssues DEF Ordered
  <2>4. CASE dialog.open /\ Submit("Reset", Ordered("Reset", dialog, dialog.begun), last)
    <3>1. dialog \in Dialog
      BY <2>4 DEF TypeOK, NoDialog
    <3>2. /\ "Reset" \in Commands /\ Kind["Reset"] = "Reset"
          /\ dialog.station \in Stations /\ dialog.login \in Logins /\ dialog.begun \in Nat
      BY <3>1 DEF Commands, Kind, Dialog
    <3>3. Began(dialog.begun, Kind["Reset"], orders)
      BY <2>4, <3>2 DEF Begun
    <3> QED BY <2>0, <2>4, <3>2, <3>3, SubmitIssues DEF Ordered
  <2> QED BY <1>1, <2>1, <2>2, <2>3, <2>4 DEF Operator, Press, AbandonPress, ClickSupply,
             ClickGo, ClickReset, ConfirmReset, CancelReset, DedupElapses
<1>2. CASE Surroundings
  BY <1>2, <1>s DEF Surroundings, PolicyArrives, Unauthorized, Reconnect, HardReload, Leave,
                    ShellReplaces, Enter, line
<1>3. CASE Spawn
  BY <1>3, <1>s DEF Spawn, line
<1>4. ASSUME NEW i \in DOMAIN loops, Supervisor(i)
      PROVE  Line!LineNext \/ UNCHANGED Line!lineVars
  <2>1. CASE UNCHANGED <<orders, wire>>
    BY <2>1, <1>s
  <2>2. CASE /\ loops[i].at = "writing" /\ Owns(i)
             /\ Accepted(i) /\ orders' = orders
    BY <2>2, AcceptedCarries
  <2>3. CASE Written(i)
    BY <2>2, <2>3 DEF Written
  <2>4. CASE ~ Written(i)
    BY <1>4, <2>1, <2>4 DEF Supervisor, Proceeds, Connect, Opened, Take, Flushed, Retire,
       SweepEnds, LoopEnds, ConnectFails, Dropped, WriteFails, SweepFound, line
  <2> QED BY <2>3, <2>4
<1>5. CASE UNCHANGED vars
  BY <1>5, <1>s DEF vars
<1> QED BY <1>1, <1>2, <1>3, <1>4, <1>5 DEF Next

\* The command path implements CommandLine: whatever becomes of the connection,
\* no command is repeated, reordered, redirected or replaced.
THEOREM LineImplemented == Spec => LineSpec
<1>1. Init => Line!LineInit
  BY DEF Init, Line!LineInit
<1> QED BY <1>1, Invariance, StepRefines, PTL DEF Spec, LineSpec, Line!LineSpec

-----------------------------------------------------------------------------
(***************************************************************************)
(* No dashboard without a supervisor.                                      *)
(*                                                                         *)
(* A supervisor that found the station elsewhere ends, and the effect      *)
(* starts another only when the epoch has moved, which the reload does     *)
(* only when nobody has the sender.  That it never is anybody's while the  *)
(* current supervisor sweeps (Sweeping) rests on the ways into the sweep:  *)
(* a socket that fails takes the sender along, and one that is retired in  *)
(* its own epoch has lost its login, never its station (Placed), and       *)
(* without a login nobody sweeps.                                          *)
(***************************************************************************)

\* A supervisor has not ended, or the effect that starts one is yet to run.
LinkSupervised ==
  mounted => \/ started # here.epoch
             \/ \E i \in DOMAIN loops : Current(i) /\ loops[i].at # "ended"

Placed ==
  \A i \in DOMAIN loops :
    Current(i) /\ loops[i].at \in Live => loops[i].here.station = here.station

Sweeping == \A i \in DOMAIN loops : Current(i) /\ loops[i].at = "sweep" => sender = None

SInv == started <= here.epoch /\ LinkSupervised /\ Placed /\ Sweeping

\* The supervisors stay where they are, and the epoch and the station too.
LEMMA StandsStill ==
  ASSUME SInv, DOMAIN loops' = DOMAIN loops,
         \A j \in DOMAIN loops : loops'[j].at = loops[j].at /\ loops'[j].here = loops[j].here,
         here'.epoch = here.epoch, here'.station = here.station,
         UNCHANGED <<mounted, started, sender>>
  PROVE  SInv'
BY DEF SInv, LinkSupervised, Placed, Sweeping, Current

\* In a new epoch the effect is yet to run, and no supervisor is current.
LEMMA StartsAgain ==
  ASSUME TypeOK, Sockets, SInv,
         here'.epoch = here.epoch + 1,
         DOMAIN loops' = DOMAIN loops,
         \A j \in DOMAIN loops : loops'[j].here.epoch = loops[j].here.epoch,
         started' \in {0, started}
  PROVE  SInv'
<1>1. here.epoch \in Nat /\ started \in Nat /\ started <= here.epoch
  BY DEF TypeOK, Here, SInv
<1>2. started' <= here'.epoch /\ started' # here'.epoch
  BY <1>1
<1>3. \A j \in DOMAIN loops' : ~ Current(j)'
  <2> SUFFICES ASSUME NEW j \in DOMAIN loops, loops[j].here.epoch = here.epoch + 1
               PROVE  FALSE
    BY DEF Current
  <2>1. loops[j].here.epoch <= here.epoch
    BY DEF Sockets, Epochs
  <2>2. QED
    BY <1>1, <2>1
<1>4. QED
  BY <1>2, <1>3 DEF SInv, LinkSupervised, Placed, Sweeping

\* A supervisor takes a step that is not its last, or is not current.
LEMMA SupervisorMoves ==
  ASSUME TypeOK, Sockets, SInv, NEW i \in DOMAIN loops, DOMAIN loops' = DOMAIN loops,
         \A j \in DOMAIN loops : j # i => loops'[j] = loops[j],
         loops'[i].here.epoch = loops[i].here.epoch,
         UNCHANGED <<here, mounted, started>>,
         sender # i => sender' \in {sender, None} \/ Current(i),
         Current(i) => /\ loops'[i].at # "ended"
                       /\ loops'[i].at \in Live => loops'[i].here.station = here.station
                       /\ loops'[i].at = "sweep" => sender' = None
  PROVE  SInv'
<1>1. \A j \in DOMAIN loops : Current(j)' <=> Current(j)
  BY DEF Current
<1>2. CASE Current(i)
  <2>1. \A j \in DOMAIN loops : Current(j) => j = i
    BY <1>2 DEF Sockets, Alone, Current
  <2>2. QED
    BY <1>1, <1>2, <2>1 DEF SInv, LinkSupervised, Placed, Sweeping
<1>3. CASE ~ Current(i)
  <2>1. \A j \in DOMAIN loops : Current(j) => loops'[j] = loops[j]
    BY <1>3
  <2>2. LinkSupervised' /\ Placed'
    BY <1>1, <2>1 DEF SInv, LinkSupervised, Placed
  <2>3. Sweeping'
    <3> SUFFICES ASSUME NEW j \in DOMAIN loops, Current(j), loops[j].at = "sweep"
                 PROVE  sender' = None
      BY <1>1, <2>1 DEF Sweeping
    <3>1. sender = None
      BY DEF SInv, Sweeping
    <3>2. None \notin DOMAIN loops
      BY DEF TypeOK
    <3>3. QED
      BY <1>3, <3>1, <3>2
  <2>4. QED
    BY <2>2, <2>3 DEF SInv
<1>4. QED
  BY <1>2, <1>3

\* Where a supervisor goes whose socket has ended.
LEMMA EndSocketStage ==
  ASSUME TypeOK, NEW i \in DOMAIN loops, EndSocket(i), Current(i)
  PROVE  /\ loops'[i].at \in {"ready", "sweep"}
         /\ loops'[i].at = "sweep" => here.login # Nobody
BY DEF EndSocket, Afterwards, TypeOK

\* What the operator does moves no supervisor.
LEMMA OperatorStands == ASSUME TypeOK, Sockets, SInv, Operator PROVE SInv'
<1>1. UNCHANGED <<here, mounted, sender, started>>
  BY DEF Operator, Press, AbandonPress, ClickSupply, ClickGo, ClickReset, ConfirmReset,
     CancelReset, DedupElapses, Steady
<1>2. \/ loops' = loops
      \/ /\ Attached
         /\ \E q : loops' = [loops EXCEPT ![sender].queue = q]
  BY DEF Operator, Press, AbandonPress, ClickSupply, ClickGo, ClickReset, ConfirmReset,
     CancelReset, DedupElapses, Submit
<1>3. /\ DOMAIN loops' = DOMAIN loops
      /\ \A j \in DOMAIN loops : loops'[j].at = loops[j].at /\ loops'[j].here = loops[j].here
  <2>1. CASE loops' = loops
    BY <2>1
  <2>2. ASSUME Attached, NEW q, loops' = [loops EXCEPT ![sender].queue = q]
        PROVE  /\ DOMAIN loops' = DOMAIN loops
               /\ \A j \in DOMAIN loops :
                    loops'[j].at = loops[j].at /\ loops'[j].here = loops[j].here
    <3>1. loops[sender] \in Loop
      BY <2>2 DEF Attached, TypeOK
    <3>2. loops'[sender] = [loops[sender] EXCEPT !.queue = q]
      BY <2>2 DEF Attached
    <3>3. loops'[sender].at = loops[sender].at /\ loops'[sender].here = loops[sender].here
      BY <3>1, <3>2 DEF Loop
    <3>4. DOMAIN loops' = DOMAIN loops /\ \A j \in DOMAIN loops : j # sender => loops'[j] = loops[j]
      BY <2>2
    <3>5. QED
      BY <3>3, <3>4
  <2>3. QED
    BY <1>2, <2>1, <2>2
<1>4. QED
  BY <1>1, <1>3, StandsStill

LEMMA SurroundingsSupervised == ASSUME TypeOK, Sockets, SInv, Surroundings PROVE SInv'
<1>1. CASE PolicyArrives
  BY <1>1, StandsStill DEF PolicyArrives
<1>2. CASE Unauthorized
  <2>1. here'.epoch = here.epoch /\ here'.station = here.station
    BY <1>2 DEF Unauthorized, TypeOK, Here
  <2>2. UNCHANGED <<mounted, sender, loops, started>>
    BY <1>2 DEF Unauthorized
  <2>3. QED
    BY <2>1, <2>2, StandsStill
<1>3. CASE \/ Reconnect \/ HardReload \/ Leave
           \/ \E s \in Stations, t \in Logins : Enter(s, t)
  <2>1. here'.epoch = here.epoch + 1 /\ loops' = loops /\ started' \in {0, started}
    BY <1>3 DEF Reconnect, HardReload, Leave, Enter, Bump
  <2>2. QED
    BY <2>1, StartsAgain
<1>4. CASE ShellReplaces
  <2>1. ~ mounted' /\ here' = here /\ started' = started
    BY <1>4 DEF ShellReplaces
  <2>2. QED
    BY <2>1 DEF SInv, LinkSupervised, Placed, Sweeping, Current
<1>5. QED
  BY <1>1, <1>2, <1>3, <1>4 DEF Surroundings

LEMMA SpawnSupervised == ASSUME TypeOK, Sockets, SInv, Spawn PROVE SInv'
<1>0. Len(loops) + 1 \in Nat
  BY DEF TypeOK
<1> PICK n \in Nat : n = Len(loops) + 1
  BY <1>0
<1>1. /\ DOMAIN loops' = 1..n /\ DOMAIN loops = 1..Len(loops) /\ Len(loops) \in Nat
      /\ loops'[n].at = "ready" /\ loops'[n].here = here
      /\ \A j \in DOMAIN loops : loops'[j] = loops[j]
  BY SpawnEffect
<1>2. /\ mounted /\ started # here.epoch /\ started' = here.epoch
      /\ UNCHANGED <<here, mounted, sender>>
  BY DEF Spawn
<1>3. here.epoch \in Nat
  BY DEF TypeOK, Here
<1>4. n \in DOMAIN loops' /\ \A j \in DOMAIN loops' : j \in DOMAIN loops \/ j = n
  BY <1>1
<1>5. \A j \in DOMAIN loops' : Current(j)' => j = n
  BY <1>1, <1>2, <1>4 DEF Sockets, Epochs, Current
<1>6. Current(n)' /\ "ready" \notin Live
  BY <1>1, <1>2 DEF Current, Live
<1>7. started' <= here'.epoch
  BY <1>2, <1>3
<1>8. QED
  BY <1>1, <1>4, <1>5, <1>6, <1>7 DEF SInv, LinkSupervised, Placed, Sweeping

\* Who finds the station elsewhere moves the epoch.
LEMMA SweepBumps ==
  ASSUME SInv, NEW i \in DOMAIN loops, NEW s \in Stations, SweepFound(i, s)
  PROVE  here'.epoch = here.epoch + 1
BY DEF SInv, Sweeping, SweepFound, Bump

LEMMA SupervisorSupervised ==
  ASSUME TypeOK, Sockets, SInv, NEW i \in DOMAIN loops, Supervisor(i)
  PROVE  SInv'
<1>0. {"connecting", "open", "writing", "flushing"} = Live /\ loops[i] \in Loop
  BY LoopParts DEF Live
<1>1. CASE Connect(i)
  <2>1. /\ DOMAIN loops' = DOMAIN loops
        /\ loops'[i].here = here /\ loops'[i].at = "connecting"
        /\ \A j \in DOMAIN loops : j # i => loops'[j] = loops[j]
    BY <1>1, ConnectEffect
  <2>2. Current(i) /\ loops[i].here.epoch = here.epoch /\ UNCHANGED <<here, mounted, started>>
    BY <1>1 DEF Connect, Current
  <2>3. QED
    BY <2>1, <2>2, SupervisorMoves
<1>2. CASE Opened(i) \/ Flushed(i) \/ Take(i) \/ Written(i)
  <2>1. /\ DOMAIN loops' = DOMAIN loops /\ loops'[i].here = loops[i].here
        /\ loops'[i].at \in {"open", "writing", "flushing"}
        /\ \A j \in DOMAIN loops : j # i => loops'[j] = loops[j]
    <3>1. CASE Opened(i) \/ Flushed(i)
      BY <3>1, StageEffect DEF Opened, Flushed, Stages
    <3>2. CASE Take(i)
      BY <3>2, TakeEffect
    <3>3. CASE Written(i)
      BY <3>3, WrittenEffect
    <3>4. QED
      BY <1>2, <3>1, <3>2, <3>3
  <2>2. Owns(i) /\ UNCHANGED <<here, mounted, started, sender>>
    BY <1>2 DEF Opened, Flushed, Take, Written
  <2>3. loops'[i].here.station = here.station
    BY <2>1, <2>2 DEF Owns
  <2>4. QED
    BY <2>1, <2>2, <2>3, SupervisorMoves
<1>3. CASE Retire(i)
  <2>1. /\ EndSocket(i) /\ loops[i].at \in Live /\ ~ Owns(i)
        /\ sender' = IF sender = i THEN Gone ELSE sender
        /\ UNCHANGED <<here, mounted, started>>
    BY <1>3 DEF Retire
  <2>2. /\ DOMAIN loops' = DOMAIN loops /\ loops'[i].at \notin Live
        /\ loops'[i].here.epoch = loops[i].here.epoch
        /\ \A j \in DOMAIN loops : j # i => loops'[j] = loops[j]
    BY <2>1, EndSocketEffect
  <2>3. Current(i) => loops'[i].at = "ready"
    <3> SUFFICES ASSUME Current(i) PROVE here.login = Nobody
      BY <2>1, EndSocketStage
    <3>1. loops[i].here.station = here.station /\ loops[i].here.epoch = here.epoch /\ mounted
      BY <2>1 DEF SInv, Placed, Current
    <3>2. here.login \in {loops[i].here.login, Nobody}
      BY <2>1 DEF Sockets, LoginKept
    <3>3. here \in Here /\ loops[i].here \in Here
      BY LoopParts DEF TypeOK
    <3>4. here.login = loops[i].here.login => here = loops[i].here
      BY <3>1, <3>3 DEF Here
    <3>5. QED
      BY <2>1, <3>1, <3>2, <3>4 DEF Owns
  <2>4. QED
    BY <2>1, <2>2, <2>3, SupervisorMoves
<1>4. CASE ConnectFails(i) \/ Dropped(i) \/ WriteFails(i)
  <2>1. EndSocket(i) /\ sender' = None /\ UNCHANGED <<here, mounted, started>> /\ Owns(i)
    BY <1>4 DEF ConnectFails, Dropped, WriteFails, SocketLost
  <2>2. /\ DOMAIN loops' = DOMAIN loops /\ loops'[i].at \notin Live
        /\ loops'[i].here.epoch = loops[i].here.epoch
        /\ \A j \in DOMAIN loops : j # i => loops'[j] = loops[j]
    BY <2>1, EndSocketEffect
  <2>3. Current(i) /\ loops'[i].at # "ended"
    BY <2>1, EndSocketStage DEF Owns, Current
  <2>4. QED
    BY <2>1, <2>2, <2>3, SupervisorMoves
<1>5. ASSUME NEW s \in Stations, SweepFound(i, s) PROVE SInv'
  <2>1. /\ DOMAIN loops' = DOMAIN loops /\ loops'[i].here = loops[i].here
        /\ \A j \in DOMAIN loops : j # i => loops'[j] = loops[j]
    BY <1>5, StageEffect DEF SweepFound, Stages
  <2>2. here'.epoch = here.epoch + 1 /\ started' = started
    BY <1>5, SweepBumps DEF SweepFound
  <2>3. QED
    BY <2>1, <2>2, StartsAgain
<1>6. CASE SweepEnds(i)
  <2>1. loops' = [loops EXCEPT ![i].at = "ready"] /\ "ready" \in Stages /\ "ready" \notin Live
    BY <1>6 DEF SweepEnds, Stages, Live
  <2>2. UNCHANGED <<here, mounted, started, sender>>
    BY <1>6 DEF SweepEnds
  <2>3. /\ DOMAIN loops' = DOMAIN loops /\ loops'[i].at = "ready"
        /\ loops'[i].here = loops[i].here
        /\ \A j \in DOMAIN loops : j # i => loops'[j] = loops[j]
    BY <2>1, StageEffect
  <2>4. QED
    BY <2>1, <2>2, <2>3, SupervisorMoves
<1>7. CASE LoopEnds(i)
  <2>1. loops' = [loops EXCEPT ![i].at = "ended"] /\ "ended" \in Stages /\ ~ Current(i)
    BY <1>7 DEF LoopEnds, Stages
  <2>2. UNCHANGED <<here, mounted, started, sender>>
    BY <1>7 DEF LoopEnds
  <2>3. /\ DOMAIN loops' = DOMAIN loops /\ loops'[i].here = loops[i].here
        /\ \A j \in DOMAIN loops : j # i => loops'[j] = loops[j]
    BY <2>1, StageEffect
  <2>4. QED
    BY <2>1, <2>2, <2>3, SupervisorMoves
<1>8. QED
  BY <1>1, <1>2, <1>3, <1>4, <1>5, <1>6, <1>7 DEF Supervisor, Proceeds

LEMMA NextSupervised == ASSUME IInv, SInv, [Next]_vars PROVE SInv'
<1> USE DEF IInv
<1>1. CASE UNCHANGED vars
  BY <1>1, StandsStill DEF vars
<1>2. CASE Next
  BY <1>2, OperatorStands, SurroundingsSupervised, SpawnSupervised, SupervisorSupervised
  DEF Next
<1>3. QED
  BY <1>1, <1>2

LEMMA Supervision == Spec => []SInv
<1>1. Init => SInv
  BY DEF Init, SInv, LinkSupervised, Placed, Sweeping
<1>2. QED
  BY <1>1, Invariance, NextSupervised, PTL DEF Spec

\* connect_ws_supervisor and the effect that starts it: whatever fails, is retired, is
\* moved or found elsewhere, a dashboard on screen has a supervisor that goes on, or the
\* effect has still to start one.  This is the part of LinkRestored that is no liveness.
THEOREM LinkIsSupervised == Spec => []LinkSupervised
<1>1. SInv => LinkSupervised
  BY DEF SInv
<1>2. QED
  BY <1>1, Supervision, PTL

\* clear_and_reconnect_after_connect: a supervisor that ends because it found the station
\* never leaves the sender to anybody, so the reload always moves the epoch.
THEOREM FoundMovesOn ==
  Spec => [][\A i \in DOMAIN loops, s \in Stations :
               SweepFound(i, s) => here'.epoch = here.epoch + 1]_vars
<1>1. SInv => \A i \in DOMAIN loops, s \in Stations :
               SweepFound(i, s) => here'.epoch = here.epoch + 1
  BY SweepBumps
<1>2. QED
  BY <1>1, Supervision, PTL DEF Spec

-----------------------------------------------------------------------------
(***************************************************************************)
(* A command is lost with its socket only.                                 *)
(*                                                                         *)
(* CommandLine allows a command to be lost at any time.  The code does     *)
(* less: what its channel took stays there until it is carried, or until   *)
(* the socket of that channel ends.                                        *)
(***************************************************************************)

\* The commands in the channel of supervisor i, or being written.
Holds(i) ==
  {n \in DOMAIN orders : \/ n = loops[i].out.order
                         \/ \E k \in DOMAIN loops[i].queue : n = loops[i].queue[k].order}

LostWithSocket ==
  \A i \in DOMAIN loops : loops'[i].at \in Live =>
    \A n \in Holds(i) : n \in Holds(i)' \/ \E w \in DOMAIN wire' : wire'[w].order = n

\* Without a socket there is nothing to lose, a command is held only while it is being
\* written, and the sender is a socket's.
Vacant ==
  \A i \in DOMAIN loops : /\ loops[i].at # "writing" => loops[i].out = NoMessage
                          /\ loops[i].at \notin Live => loops[i].queue = <<>>

SenderLives == Attached => loops[sender].at \in Live

\* A supervisor takes a step, the others stay as they are.
LEMMA VacantStep ==
  ASSUME TypeOK, Vacant, SenderLives, NEW i \in DOMAIN loops, DOMAIN loops' = DOMAIN loops,
         \A j \in DOMAIN loops : j # i => loops'[j] = loops[j],
         loops'[i].at # "writing" => loops'[i].out = NoMessage,
         loops'[i].at \notin Live => loops'[i].queue = <<>> /\ sender' # i,
         sender' \in {sender, i, None, Gone}
  PROVE  Vacant' /\ SenderLives'
<1>1. Vacant'
  BY DEF Vacant
<1>2. None \notin DOMAIN loops /\ Gone \notin DOMAIN loops
  BY DEF TypeOK
<1>3. SenderLives'
  BY <1>2 DEF SenderLives, Attached
<1>4. QED
  BY <1>1, <1>3

\* What is left of a supervisor whose socket has ended.
LEMMA EndSocketVacates ==
  ASSUME TypeOK, NEW i \in DOMAIN loops, EndSocket(i)
  PROVE  loops'[i].queue = <<>> /\ loops'[i].out = NoMessage
<1>1. PICK s \in Afterwards(i) :
        loops' = [loops EXCEPT ![i] = [at |-> s, queue |-> <<>>, out |-> NoMessage,
                    here |-> IF Current(i) THEN here ELSE loops[i].here]]
  BY DEF EndSocket
<1>2. loops'[i] = [at |-> s, queue |-> <<>>, out |-> NoMessage,
                    here |-> IF Current(i) THEN here ELSE loops[i].here]
  BY <1>1 DEF TypeOK
<1>3. QED
  BY <1>2

\* A command that is submitted goes to the end of a channel.
LEMMA SubmitQueues ==
  ASSUME TypeOK, NEW c, NEW o, NEW r, Submit(c, o, r), Attached
  PROVE  /\ orders' = Append(orders, o) /\ DOMAIN loops' = DOMAIN loops
         /\ \A j \in DOMAIN loops : j # sender => loops'[j] = loops[j]
         /\ loops'[sender].at = loops[sender].at /\ loops'[sender].out = loops[sender].out
         /\ DOMAIN loops[sender].queue \subseteq DOMAIN loops'[sender].queue
         /\ \A k \in DOMAIN loops[sender].queue :
              loops'[sender].queue[k] = loops[sender].queue[k]
<1> DEFINE m == [order |-> Len(orders) + 1, cmd |-> c]
           q == loops[sender].queue
<1>1. /\ orders' = Append(orders, o)
      /\ loops' = [loops EXCEPT ![sender].queue = Append(q, m)]
  BY DEF Submit
<1>2. sender \in DOMAIN loops /\ loops[sender] \in Loop
  BY DEF TypeOK, Attached
<1>3. q \in Seq(Message)
  BY <1>2 DEF Loop
<1> HIDE DEF m
<1>4. loops'[sender] = [loops[sender] EXCEPT !.queue = Append(q, m)]
  BY <1>1, <1>2
<1>5. /\ loops'[sender].at = loops[sender].at /\ loops'[sender].out = loops[sender].out
      /\ loops'[sender].queue = Append(q, m)
  BY <1>2, <1>4 DEF Loop
<1> HIDE DEF q
<1>6. DOMAIN q \subseteq DOMAIN Append(q, m) /\ \A k \in DOMAIN q : Append(q, m)[k] = q[k]
  BY <1>3
<1>7. /\ DOMAIN loops' = DOMAIN loops
      /\ \A j \in DOMAIN loops : j # sender => loops'[j] = loops[j]
  BY <1>1
<1>8. QED
  BY <1>1, <1>5, <1>6, <1>7 DEF q

\* Orders are only appended, so what a supervisor holds it still does if its channel
\* has lost nothing.
LEMMA HoldsKept ==
  ASSUME NEW i \in DOMAIN loops, DOMAIN orders \subseteq DOMAIN orders',
         loops'[i].out = loops[i].out,
         DOMAIN loops[i].queue \subseteq DOMAIN loops'[i].queue,
         \A k \in DOMAIN loops[i].queue : loops'[i].queue[k] = loops[i].queue[k]
  PROVE  \A n \in Holds(i) : n \in Holds(i)'
BY DEF Holds

LEMMA OperatorKeepsAll ==
  ASSUME TypeOK, Vacant, SenderLives, Operator
  PROVE  LostWithSocket /\ Vacant' /\ SenderLives'
<1>1. UNCHANGED sender
  BY DEF Operator, Press, AbandonPress, ClickSupply, ClickGo, ClickReset, ConfirmReset,
     CancelReset, DedupElapses, Steady
<1>2. UNCHANGED <<orders, loops>> \/ (Attached /\ \E c, o, r : Submit(c, o, r))
  BY DEF Operator, Press, AbandonPress, ClickSupply, ClickGo, ClickReset, ConfirmReset,
     CancelReset, DedupElapses, Submit
<1>3. CASE UNCHANGED <<orders, loops>>
  BY <1>1, <1>3 DEF LostWithSocket, Holds, Vacant, SenderLives, Attached
<1>4. ASSUME Attached, NEW c, NEW o, NEW r, Submit(c, o, r)
      PROVE  LostWithSocket /\ Vacant' /\ SenderLives'
  <2>1. /\ orders' = Append(orders, o) /\ DOMAIN loops' = DOMAIN loops
        /\ \A j \in DOMAIN loops : j # sender => loops'[j] = loops[j]
        /\ loops'[sender].at = loops[sender].at /\ loops'[sender].out = loops[sender].out
        /\ DOMAIN loops[sender].queue \subseteq DOMAIN loops'[sender].queue
        /\ \A k \in DOMAIN loops[sender].queue :
             loops'[sender].queue[k] = loops[sender].queue[k]
    BY <1>4, SubmitQueues
  <2>2. DOMAIN orders \subseteq DOMAIN orders'
    BY <2>1 DEF TypeOK
  <2>3. LostWithSocket
    <3>1. \A i \in DOMAIN loops : \A n \in Holds(i) : n \in Holds(i)'
      <4> SUFFICES ASSUME NEW i \in DOMAIN loops
                   PROVE  \A n \in Holds(i) : n \in Holds(i)'
        OBVIOUS
      <4>1. CASE i = sender
        BY <2>1, <2>2, <4>1, HoldsKept
      <4>2. CASE i # sender
        BY <2>1, <2>2, <4>2, HoldsKept
      <4>3. QED
        BY <4>1, <4>2
    <3>2. QED
      BY <3>1 DEF LostWithSocket
  <2>4. sender \in DOMAIN loops /\ loops'[sender].at \in Live
    BY <1>4, <2>1 DEF SenderLives, Attached
  <2>5. loops'[sender].at # "writing" => loops'[sender].out = NoMessage
    BY <2>1, <2>4 DEF Vacant
  <2>6. Vacant' /\ SenderLives'
    BY <1>1, <2>1, <2>4, <2>5, VacantStep
  <2>7. QED
    BY <2>3, <2>6
<1>5. QED
  BY <1>2, <1>3, <1>4

LEMMA SurroundingsKeepAll ==
  ASSUME TypeOK, Vacant, SenderLives, Surroundings
  PROVE  LostWithSocket /\ Vacant' /\ SenderLives'
<1>1. UNCHANGED <<loops, orders>> /\ sender' \in {sender, None}
  BY DEF Surroundings, PolicyArrives, Unauthorized, Reconnect, HardReload, Leave,
     ShellReplaces, Enter, Bump, line
<1>2. None \notin DOMAIN loops
  BY DEF TypeOK
<1>3. QED
  BY <1>1, <1>2 DEF LostWithSocket, Holds, Vacant, SenderLives, Attached

LEMMA SpawnKeepsAll ==
  ASSUME TypeOK, Vacant, SenderLives, Spawn
  PROVE  LostWithSocket /\ Vacant' /\ SenderLives'
<1>0. Len(loops) + 1 \in Nat
  BY DEF TypeOK
<1> PICK m \in Nat : m = Len(loops) + 1
  BY <1>0
<1>1. /\ DOMAIN loops' = 1..m /\ DOMAIN loops = 1..Len(loops) /\ Len(loops) \in Nat
      /\ loops'[m].queue = <<>> /\ loops'[m].out = NoMessage
      /\ \A j \in DOMAIN loops : loops'[j] = loops[j]
  BY SpawnEffect
<1>2. UNCHANGED <<sender, orders>> /\ \A j \in DOMAIN loops' : j \in DOMAIN loops \/ j = m
  BY <1>1 DEF Spawn, line
<1>3. LostWithSocket
  BY <1>1, <1>2, HoldsKept DEF LostWithSocket
<1>4. Vacant'
  BY <1>1, <1>2 DEF Vacant
<1>5. sender' \in DOMAIN loops' => sender \in DOMAIN loops
  <2>1. sender \in {None, Gone} \cup DOMAIN loops
    BY DEF TypeOK
  <2>2. None \notin DOMAIN loops' /\ Gone \notin DOMAIN loops'
    BY <1>1
  <2>3. QED
    BY <1>2, <2>1, <2>2
<1>6. SenderLives'
  BY <1>1, <1>2, <1>5 DEF SenderLives, Attached
<1>7. QED
  BY <1>3, <1>4, <1>6

\* The socket task takes the first command of its channel and holds it.
LEMMA TakeKeepsAll ==
  ASSUME TypeOK, NEW i \in DOMAIN loops, Take(i), loops[i].out = NoMessage
  PROVE  \A n \in Holds(i) : n \in Holds(i)'
<1> DEFINE q == loops[i].queue
           r == loops'[i].queue
<1>1. r = Tail(q) /\ loops'[i].out = q[1]
  BY TakeEffect
<1>2. q \in Seq(Message) /\ q # <<>> /\ orders' = orders /\ 0 \notin DOMAIN orders
  <2>1. q \in Seq(Message)
    BY LoopParts
  <2>2. QED
    BY <2>1 DEF Take, line, TypeOK
<1>3. \A k \in DOMAIN q : k = 1 \/ (k - 1 \in DOMAIN r /\ r[k - 1] = q[k])
  <2> HIDE DEF q, r
  <2>1. QED
    BY <1>1, <1>2
<1>4. ASSUME NEW n \in Holds(i)
      PROVE  n \in Holds(i)'
  <2>1. n \in DOMAIN orders'
    BY <1>2 DEF Holds
  <2>2. n # loops[i].out.order
    BY <1>2 DEF Holds, NoMessage
  <2>3. PICK k \in DOMAIN q : n = q[k].order
    BY <2>2 DEF Holds
  <2>4. n = loops'[i].out.order \/ \E l \in DOMAIN r : n = r[l].order
    BY <1>1, <1>3, <2>3
  <2>5. QED
    BY <2>1, <2>4 DEF Holds
<1>5. QED
  BY <1>4

\* What a step of supervisor i loses, it loses of its own channel.
LEMMA OwnLoss ==
  ASSUME NEW i \in DOMAIN loops, DOMAIN loops' = DOMAIN loops, orders' = orders,
         \A j \in DOMAIN loops : j # i => loops'[j] = loops[j],
         loops'[i].at \in Live =>
           \A n \in Holds(i) : n \in Holds(i)' \/ \E w \in DOMAIN wire' : wire'[w].order = n
  PROVE  LostWithSocket
<1> SUFFICES ASSUME NEW j \in DOMAIN loops, loops'[j].at \in Live, NEW n \in Holds(j)
             PROVE  n \in Holds(j)' \/ \E w \in DOMAIN wire' : wire'[w].order = n
  BY DEF LostWithSocket
<1>1. CASE j = i
  BY <1>1
<1>2. CASE j # i
  BY <1>2, HoldsKept
<1>3. QED
  BY <1>1, <1>2

\* The command that was being written is on the wire, the others stay in the channel.
LEMMA WrittenKeepsAll ==
  ASSUME TypeOK, NEW i \in DOMAIN loops, Written(i), NEW n \in Holds(i)
  PROVE  n \in Holds(i)' \/ \E w \in DOMAIN wire' : wire'[w].order = n
<1>1. loops'[i].queue = loops[i].queue /\ orders' = orders
  BY WrittenEffect DEF Written
<1>2. CASE n = loops[i].out.order
  <2> DEFINE p == [order |-> loops[i].out.order, cmd |-> loops[i].out.cmd,
                   station |-> loops[i].here.station, login |-> loops[i].here.login]
  <2>1. wire' = Append(wire, p) /\ p.order = n
    BY <1>2 DEF Written, Accepted
  <2>2. wire \in Seq(Packet)
    BY DEF TypeOK
  <2> HIDE DEF p
  <2>3. Len(wire) + 1 \in DOMAIN wire' /\ wire'[Len(wire) + 1] = p
    BY <2>1, <2>2
  <2>4. QED
    BY <2>1, <2>3
<1>3. CASE \E k \in DOMAIN loops[i].queue : n = loops[i].queue[k].order
  BY <1>1, <1>3 DEF Holds
<1>4. QED
  BY <1>2, <1>3 DEF Holds

LEMMA SupervisorKeepsAll ==
  ASSUME TypeOK, Vacant, SenderLives, NEW i \in DOMAIN loops, Supervisor(i)
  PROVE  LostWithSocket /\ Vacant' /\ SenderLives'
<1>0. /\ sender \in {None, Gone} \cup DOMAIN loops
      /\ i # None /\ i # Gone /\ 0 \notin DOMAIN orders
  BY DEF TypeOK, None, Gone
<1>1. CASE Connect(i)
  <2>1. /\ DOMAIN loops' = DOMAIN loops
        /\ loops'[i] = [at |-> "connecting", here |-> here, queue |-> <<>>,
                        out |-> NoMessage]
        /\ \A j \in DOMAIN loops : j # i => loops'[j] = loops[j]
    BY <1>1, ConnectEffect
  <2>2. loops[i].at = "ready" /\ sender' = i /\ orders' = orders
    BY <1>1 DEF Connect, line
  <2>3. loops[i].queue = <<>> /\ loops[i].out = NoMessage
    BY <2>2 DEF Vacant, Live
  <2>4. Holds(i) = {}
    BY <1>0, <2>3 DEF Holds, NoMessage
  <2>5. loops'[i].at = "connecting" /\ loops'[i].out = NoMessage /\ "connecting" \in Live
    BY <2>1 DEF Live
  <2>6. LostWithSocket
    BY <2>1, <2>2, <2>4, OwnLoss
  <2>7. QED
    BY <2>1, <2>2, <2>5, <2>6, VacantStep
<1>2. CASE Opened(i) \/ Flushed(i)
  <2>1. /\ DOMAIN loops' = DOMAIN loops /\ loops'[i].at = "open"
        /\ loops'[i].queue = loops[i].queue /\ loops'[i].out = loops[i].out
        /\ \A j \in DOMAIN loops : j # i => loops'[j] = loops[j]
    BY <1>2, StageEffect DEF Opened, Flushed, Stages
  <2>2. /\ loops[i].at \in {"connecting", "flushing"} /\ sender' = sender
        /\ orders' = orders
    BY <1>2 DEF Opened, Flushed, line
  <2>3. loops'[i].out = NoMessage /\ "open" \in Live
    BY <2>1, <2>2 DEF Vacant, Live
  <2>4. \A n \in Holds(i) : n \in Holds(i)'
    BY <2>1, <2>2, HoldsKept
  <2>5. LostWithSocket
    BY <2>1, <2>2, <2>4, OwnLoss
  <2>6. QED
    BY <2>1, <2>2, <2>3, <2>5, VacantStep
<1>3. CASE Take(i)
  <2>1. /\ DOMAIN loops' = DOMAIN loops /\ loops'[i].at = "writing"
        /\ \A j \in DOMAIN loops : j # i => loops'[j] = loops[j]
    BY <1>3, TakeEffect
  <2>2. loops[i].at = "open" /\ sender' = sender /\ orders' = orders
    BY <1>3 DEF Take, line
  <2>3. loops[i].out = NoMessage /\ "writing" \in Live
    BY <2>2 DEF Vacant, Live
  <2>4. \A n \in Holds(i) : n \in Holds(i)'
    BY <1>3, <2>3, TakeKeepsAll
  <2>5. LostWithSocket
    BY <2>1, <2>2, <2>4, OwnLoss
  <2>6. QED
    BY <2>1, <2>2, <2>3, <2>5, VacantStep
<1>4. CASE Written(i)
  <2>1. /\ DOMAIN loops' = DOMAIN loops /\ loops'[i].at = "flushing"
        /\ loops'[i].out = NoMessage
        /\ \A j \in DOMAIN loops : j # i => loops'[j] = loops[j]
    BY <1>4, WrittenEffect
  <2>2. sender' = sender /\ orders' = orders /\ "flushing" \in Live
    BY <1>4 DEF Written, Live
  <2>3. LostWithSocket
    BY <1>4, <2>1, <2>2, WrittenKeepsAll, OwnLoss
  <2>4. QED
    BY <2>1, <2>2, <2>3, VacantStep
<1>5. CASE Retire(i) \/ ConnectFails(i) \/ Dropped(i) \/ WriteFails(i)
  <2>1. EndSocket(i) /\ orders' = orders
    BY <1>5 DEF Retire, ConnectFails, Dropped, WriteFails, SocketLost, line
  <2>2. sender' \in {sender, None, Gone} /\ sender' # i
    BY <1>0, <1>5 DEF Retire, ConnectFails, Dropped, WriteFails, SocketLost
  <2>3. /\ DOMAIN loops' = DOMAIN loops /\ loops'[i].at \notin Live
        /\ \A j \in DOMAIN loops : j # i => loops'[j] = loops[j]
    BY <2>1, EndSocketEffect
  <2>4. loops'[i].queue = <<>> /\ loops'[i].out = NoMessage
    BY <2>1, EndSocketVacates
  <2>5. LostWithSocket
    BY <2>1, <2>3, OwnLoss
  <2>6. QED
    BY <2>2, <2>3, <2>4, <2>5, VacantStep
<1>6. CASE SweepEnds(i) \/ LoopEnds(i) \/ \E s \in Stations : SweepFound(i, s)
  <2>1. PICK s \in {"ready", "ended"} : loops' = [loops EXCEPT ![i].at = s]
    BY <1>6 DEF SweepEnds, LoopEnds, SweepFound
  <2>2. loops[i].at \in {"ready", "sweep"} /\ sender' \in {sender, None} /\ orders' = orders
    BY <1>6 DEF SweepEnds, LoopEnds, SweepFound, Bump, line
  <2>3. /\ DOMAIN loops' = DOMAIN loops /\ loops'[i].at = s
        /\ loops'[i].queue = loops[i].queue /\ loops'[i].out = loops[i].out
        /\ \A j \in DOMAIN loops : j # i => loops'[j] = loops[j]
    BY <2>1, StageEffect DEF Stages
  <2>4. loops[i].queue = <<>> /\ loops[i].out = NoMessage
    BY <2>2 DEF Vacant, Live
  <2>5. sender' # i
    BY <1>0, <2>2 DEF SenderLives, Attached, Live
  <2>6. s \notin Live
    BY DEF Live
  <2>7. LostWithSocket
    BY <2>2, <2>3, <2>6, OwnLoss
  <2>8. QED
    BY <2>2, <2>3, <2>4, <2>5, <2>7, VacantStep
<1>7. QED
  BY <1>1, <1>2, <1>3, <1>4, <1>5, <1>6 DEF Supervisor, Proceeds

LEMMA NextKeepsAll ==
  ASSUME TypeOK, Vacant, SenderLives, [Next]_vars
  PROVE  [LostWithSocket]_vars /\ Vacant' /\ SenderLives'
<1>1. CASE Next
  BY <1>1, OperatorKeepsAll, SurroundingsKeepAll, SpawnKeepsAll, SupervisorKeepsAll DEF Next
<1>2. CASE UNCHANGED vars
  BY <1>2 DEF vars, Vacant, SenderLives, Attached
<1>3. QED
  BY <1>1, <1>2

\* The channel and the socket task of connect_ws_once_native lose a command in one way
\* only, with their socket: while a socket lives, no failed write, reconnect or new
\* socket takes a command out of its channel that it has not carried.
THEOREM OnlySocketsLose == Spec => [][LostWithSocket]_vars
<1>1. Init => Vacant /\ SenderLives
  BY DEF Init, Vacant, SenderLives, Attached
<1>2. TypeOK /\ Vacant /\ SenderLives /\ [Next]_vars
        => [LostWithSocket]_vars /\ Vacant' /\ SenderLives'
  BY NextKeepsAll
<1>3. QED
  BY <1>1, <1>2, SessionTypes, PTL DEF Spec

=============================================================================
