----------------------------- MODULE CommandLine -----------------------------
(***************************************************************************)
(* What the operator may rely on when sending commands to a ground         *)
(* station, whatever becomes of the connection.  A command is issued by an *)
(* activation: a click, a press and its release, or a reset and its        *)
(* confirmation.  An activation issues one command at most, and a command  *)
(* issued is carried to a station at most once, after every command        *)
(* carried before it, as the command the activation was begun with, to the *)
(* station and under the login it was begun with.  A command may be lost.  *)
(***************************************************************************)
EXTENDS Integers, Sequences

CONSTANTS
  Stations,
  Logins,     \* tokens, and the value that stands for none
  Commands,
  Kind        \* the kind of activation a command needs

VARIABLES
  orders,     \* the commands issued
  wire        \* the commands that reached a socket

lineVars == <<orders, wire>>

LineInit == orders = <<>> /\ wire = <<>>

\* begun is how many commands had been issued when the activation began.
\* Activations of a kind do not overlap: this one began after the last command
\* of its kind had been issued.
Issue(c, s, l, begun) ==
  /\ \A i \in DOMAIN orders : Kind[orders[i].cmd] = Kind[c] => i <= begun
  /\ orders' = Append(orders, [cmd |-> c, station |-> s, login |-> l, begun |-> begun])
  /\ wire' = wire

Carry(n) ==
  /\ \A i \in DOMAIN wire : wire[i].order < n
  /\ wire' = Append(wire, [order |-> n, cmd |-> orders[n].cmd,
                           station |-> orders[n].station, login |-> orders[n].login])
  /\ orders' = orders

LineNext ==
  \/ \E c \in Commands, s \in Stations, l \in Logins, begun \in 0..Len(orders) :
       Issue(c, s, l, begun)
  \/ \E n \in DOMAIN orders : Carry(n)

LineSpec == LineInit /\ [][LineNext]_lineVars

=============================================================================
