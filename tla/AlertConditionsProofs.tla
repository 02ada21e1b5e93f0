----------------------- MODULE AlertConditionsProofs -----------------------
(***************************************************************************)
(* Proofs about AlertConditions: its types, that "Nominal" is never said   *)
(* without a time in this connection at which the station had nothing to   *)
(* report, nor by an older snapshot than the newest one that came, and     *)
(* that an event is only passed over when its condition is listed or over. *)
(***************************************************************************)
EXTENDS AlertConditions, FiniteSetTheorems, TLAPS

-----------------------------------------------------------------------------
(* The inductive invariant *)

View == [connection : 0..MaxConnection, connected : BOOLEAN,
         shown : ConditionSnapshot \cup {NoSnapshot}, retired : SUBSET Authorities,
         invalid : BOOLEAN]
AlertStation == [now : ConditionSnapshot, raised : SUBSET Occurrences,
                 over : SUBSET Occurrences, log : SUBSET Link]
Stray == [connection : 1..MaxConnection, is : ConditionSnapshot]

\* s is of an earlier authority than t, or of no later revision of the same one.
NotAfter(s, t) ==
  s.authority < t.authority \/ (s.authority = t.authority /\ s.revision <= t.revision)

\* A condition that an event known to s reports, and s does not list though it is
\* evaluated, is over.
Explains(b, s) ==
  \A e \in b.log :
    (/\ e.authority = s.authority /\ e.revision <= s.revision
     /\ e.occurrence \in s.evaluated /\ s.record[e.occurrence] = "none")
      => e.occurrence \in b.over

\* The station b has been at s.
Past(b, s) == s \in ConditionSnapshot /\ NotAfter(s, b.now) /\ Explains(b, s)

\* And, if s has nothing to report, so it was in this connection.
Ours(b, c, s) == Past(b, s) /\ (Calm(s) => c)

StationOK(b) ==
  /\ b \in AlertStation
  /\ \A e \in b.log : NotAfter(e, b.now)
  /\ \A o \in Occurrences : b.now.record[o] = "resolved" => o \in b.over
  /\ Explains(b, b.now)

\* What is on the way: events the station has logged, and snapshots of this
\* connection in their order, after n, the newest that has come.
WireOK(b, c, n, q) ==
  /\ q \in Seq(Message)
  /\ \A i \in DOMAIN q :
       /\ q[i].ty = "event" => q[i].is \in b.log
       /\ q[i].ty # "event" =>
            /\ Ours(b, c, q[i].is)
            /\ n # NoSnapshot => NotAfter(n, q[i].is)
            /\ \A j \in DOMAIN q : i < j /\ q[j].ty # "event" => NotAfter(q[i].is, q[j].is)

NewestOK(b, c, n) == n # NoSnapshot => Ours(b, c, n)

\* A copy that comes late is of this connection, and then of one that came, or of
\* an earlier connection.
StrayOK(b, c, v, n, y) ==
  y # NoStray =>
    /\ y \in Stray /\ Past(b, y.is) /\ y.connection <= v.connection
    /\ y.connection = v.connection => Ours(b, c, y.is) /\ n # NoSnapshot /\ NotAfter(y.is, n)

Full(v) == Cardinality(v.retired) >= MaxRetired

\* The authority of s is shown or was, or there was no room for it.
Met(v, s) == s.authority \in v.retired \cup {v.shown.authority} \/ Full(v)

\* What a connected view shows is as new as what came last, where it is of the
\* same authority, and later than all it replaced.
Follows(v, n, y) ==
  /\ n = NoSnapshot <=> v.shown = NoSnapshot
  /\ n # NoSnapshot =>
       /\ NotAfter(v.shown, n)
       /\ \A a \in v.retired : a < v.shown.authority
       /\ Met(v, n)
       /\ n.authority = v.shown.authority => n.revision <= v.shown.revision
       /\ y # NoStray /\ y.connection = v.connection => Met(v, y.is)

ViewOK(b, c, v, n, y) ==
  /\ v \in View
  /\ v.shown # NoSnapshot => Ours(b, c, v.shown) /\ v.shown.authority \notin v.retired
  /\ v.shown = NoSnapshot => v.retired = {}
  /\ v.connected => Follows(v, n, y)

EventsOK(b, es, h) ==
  /\ es \subseteq b.log
  /\ h.st \in {"none", "asked", "served"} /\ (h.st = "served" => h.is \subseteq b.log)

CalmOK(b, c, v, k) ==
  /\ c \in BOOLEAN
  /\ Calm(b.now) /\ v.connection > 0 => c
  /\ k \in [st : {"connecting", "open", "closed"}, wire : Seq(Message)]
  /\ v.connection = 0 => k.st = "closed" /\ k.wire = <<>>

AlertInv ==
  /\ StationOK(alertStation)
  /\ WireOK(alertStation, calm, newest, socket.wire)
  /\ newest \in ConditionSnapshot \cup {NoSnapshot} /\ NewestOK(alertStation, calm, newest)
  /\ StrayOK(alertStation, calm, view, newest, stray)
  /\ ViewOK(alertStation, calm, view, newest, stray)
  /\ EventsOK(alertStation, events, history)
  /\ CalmOK(alertStation, calm, view, socket)

-----------------------------------------------------------------------------
(* Snapshots and their order *)

LEMMA SnapshotIs ==
  ASSUME NEW s \in ConditionSnapshot
  PROVE  /\ s.authority \in Nat /\ s.revision \in Nat /\ s.complete \in BOOLEAN
         /\ s.evaluated \subseteq Occurrences /\ s.record \in [Occurrences -> Records]
         /\ s.authority \in Authorities /\ s.revision \in Revisions
         /\ s # NoSnapshot /\ NotAfter(s, s)
BY AlertAssumption DEF ConditionSnapshot, Authorities, Revisions, NotAfter

LEMMA NotAfterTransitive ==
  ASSUME NEW s, NEW t, NEW u, s.authority \in Nat, s.revision \in Nat, t.authority \in Nat,
         t.revision \in Nat, u.authority \in Nat, u.revision \in Nat,
         NotAfter(s, t), NotAfter(t, u)
  PROVE  NotAfter(s, u)
BY DEF NotAfter

LEMMA LinkIs ==
  ASSUME NEW e \in Link
  PROVE  /\ e.authority \in Nat /\ e.revision \in Nat /\ e.occurrence \in Occurrences
BY DEF Link, Authorities, Revisions

LEMMA MessageIs ==
  ASSUME NEW m \in Message
  PROVE  /\ m.ty = "event" => m.is \in Link
         /\ m.ty # "event" => m.is \in ConditionSnapshot /\ m.ty = "conditions"
BY DEF Message

\* What a later station b2 still knows of an earlier one b1.
Later(b1, b2) ==
  /\ b1.over \subseteq b2.over /\ b1.log \subseteq b2.log
  /\ NotAfter(b1.now, b2.now)
  /\ \A e \in b2.log \ b1.log : e \in Link /\ e.authority = b1.now.authority
                                /\ e.revision > b1.now.revision

LEMMA PastStays ==
  ASSUME NEW b1, NEW b2, StationOK(b1), b2.now \in ConditionSnapshot, Later(b1, b2),
         NEW s, Past(b1, s)
  PROVE  Past(b2, s)
<1>1. s \in ConditionSnapshot /\ b1.now \in ConditionSnapshot
  BY DEF Past, StationOK, AlertStation
<1>2. NotAfter(s, b2.now)
  BY <1>1, NotAfterTransitive, SnapshotIs DEF Past, Later
<1>3. ASSUME NEW e \in b2.log, e.authority = s.authority, e.revision <= s.revision,
             e.occurrence \in s.evaluated, s.record[e.occurrence] = "none"
      PROVE  e.occurrence \in b2.over
  <2>1. CASE e \in b1.log
    BY <1>3, <2>1 DEF Past, Explains, Later
  <2>2. CASE e \notin b1.log
    <3>1. e \in Link /\ e.authority = b1.now.authority /\ e.revision > b1.now.revision
      BY <2>2 DEF Later
    <3>2. NotAfter(s, b1.now)
      BY DEF Past
    <3>3. QED
      BY <1>1, <1>3, <3>1, <3>2, SnapshotIs, LinkIs DEF NotAfter
  <2>3. QED
    BY <2>1, <2>2
<1>4. QED
  BY <1>1, <1>2, <1>3 DEF Past, Explains

-----------------------------------------------------------------------------
(* TakesSnapshot *)

\* A snapshot is passed over, follows one of its authority, or replaces the authority.
Passed(v, s, w) ==
  /\ w.shown = v.shown /\ w.retired = v.retired
  /\ \/ s.authority \in v.retired
     \/ v.shown # NoSnapshot /\ s.authority = v.shown.authority /\ s.revision <= v.shown.revision
     \/ v.shown # NoSnapshot /\ s.authority # v.shown.authority /\ Full(v)

Followed(v, s, w) ==
  /\ w.shown = s /\ w.retired = v.retired /\ s.authority \notin v.retired
  /\ \/ v.shown = NoSnapshot
     \/ v.shown.authority = s.authority /\ v.shown.revision <= s.revision

Replaced(v, s, w) ==
  /\ w.shown = s /\ w.retired = v.retired \cup {v.shown.authority}
  /\ s.authority \notin v.retired
  /\ v.shown # NoSnapshot /\ s.authority # v.shown.authority /\ ~Full(v)

LEMMA TakesWhat ==
  ASSUME NEW v \in View, NEW s \in ConditionSnapshot
  PROVE  LET w == TakesSnapshot(v, s)
         IN  /\ w \in View /\ w.connection = v.connection /\ w.connected = v.connected
             /\ Passed(v, s, w) \/ Followed(v, s, w) \/ Replaced(v, s, w)
<1> DEFINE w == TakesSnapshot(v, s)
           alike == v.shown # NoSnapshot /\ s.authority = v.shown.authority
<1>1. /\ v.shown \in ConditionSnapshot \cup {NoSnapshot}
      /\ v.retired \in SUBSET Authorities
      /\ v = [connection |-> v.connection, connected |-> v.connected, shown |-> v.shown,
              retired |-> v.retired, invalid |-> v.invalid]
  BY DEF View
<1>2. s.authority \in Nat /\ s.revision \in Nat /\ s.authority \in Authorities
  BY SnapshotIs
<1>3. v.shown # NoSnapshot => /\ v.shown.authority \in Nat /\ v.shown.revision \in Nat
                              /\ v.shown.authority \in Authorities
  BY <1>1, SnapshotIs
<1> DEFINE bad == [v EXCEPT !.invalid = TRUE]
           next == [v EXCEPT !.shown = s, !.invalid = FALSE]
           over == [v EXCEPT !.retired = @ \cup {v.shown.authority}, !.shown = s, !.invalid = FALSE]
<1>4. /\ bad \in View /\ bad.connection = v.connection /\ bad.connected = v.connected
      /\ bad.shown = v.shown /\ bad.retired = v.retired
  BY DEF View
<1>5. /\ next \in View /\ next.connection = v.connection /\ next.connected = v.connected
      /\ next.shown = s /\ next.retired = v.retired
  BY DEF View
<1>6. v.shown # NoSnapshot =>
        /\ over \in View /\ over.connection = v.connection /\ over.connected = v.connected
        /\ over.shown = s /\ over.retired = v.retired \cup {v.shown.authority}
  BY <1>3 DEF View
<1>7. w = IF s.authority \in v.retired THEN v
          ELSE IF v.shown = NoSnapshot THEN next
          ELSE IF s.authority = v.shown.authority
               THEN IF s.revision < v.shown.revision THEN v
                    ELSE IF s.revision = v.shown.revision /\ s # v.shown THEN bad
                    ELSE next
          ELSE IF Full(v) THEN bad
          ELSE over
  BY DEF TakesSnapshot, Invalid, Full
<1> HIDE DEF w, bad, next, over
<1>8. CASE s.authority \in v.retired
  BY <1>7, <1>8 DEF Passed, w
<1>9. CASE s.authority \notin v.retired /\ v.shown = NoSnapshot
  BY <1>5, <1>7, <1>9 DEF Followed, w
<1>10. CASE s.authority \notin v.retired /\ alike
  <2>1. CASE s.revision < v.shown.revision
    <3>1. w = v
      BY <1>7, <1>10, <2>1
    <3>2. QED
      BY <1>2, <1>3, <1>10, <2>1, <3>1 DEF Passed, w
  <2>2. CASE s.revision = v.shown.revision /\ s # v.shown
    <3>1. w = bad
      BY <1>2, <1>3, <1>7, <1>10, <2>2
    <3>2. QED
      BY <1>2, <1>3, <1>4, <1>10, <2>2, <3>1 DEF Passed, w
  <2>3. CASE ~(s.revision < v.shown.revision) /\ ~(s.revision = v.shown.revision /\ s # v.shown)
    <3>1. w = next
      BY <1>7, <1>10, <2>3
    <3>2. QED
      BY <1>2, <1>3, <1>5, <1>10, <2>3, <3>1 DEF Followed, w
  <2>4. QED
    BY <2>1, <2>2, <2>3
<1>11. CASE s.authority \notin v.retired /\ v.shown # NoSnapshot /\ s.authority # v.shown.authority
  <2>1. CASE Full(v)
    BY <1>4, <1>7, <1>11, <2>1 DEF Passed, w
  <2>2. CASE ~Full(v)
    BY <1>6, <1>7, <1>11, <2>2 DEF Replaced, w
  <2>3. QED
    BY <2>1, <2>2
<1>12. QED
  BY <1>8, <1>9, <1>10, <1>11

\* The cardinality of what was replaced does not matter to where a snapshot was met.
LEMMA MetStays ==
  ASSUME NEW v \in View, NEW s \in ConditionSnapshot, NEW w, NEW t,
         Passed(v, s, w) \/ Followed(v, s, w) \/ Replaced(v, s, w),
         v.shown # NoSnapshot, Met(v, t)
  PROVE  Met(w, t)
<1>1. CASE Passed(v, s, w)
  BY <1>1 DEF Passed, Met, Full
<1>2. CASE Followed(v, s, w)
  BY <1>2 DEF Followed, Met, Full
<1>3. CASE Replaced(v, s, w)
  BY <1>3 DEF Replaced, Met
<1>4. QED
  BY <1>1, <1>2, <1>3

\* The next snapshot of the connection comes to its view.
LEMMA ViewTakesNext ==
  ASSUME NEW b, NEW c, NEW v, NEW n \in ConditionSnapshot \cup {NoSnapshot}, NEW y,
         ViewOK(b, c, v, n, y), StrayOK(b, c, v, n, y), v.connected,
         NEW s, Ours(b, c, s), n # NoSnapshot => NotAfter(n, s),
         NEW y2 \in {y, [connection |-> v.connection, is |-> s]}
  PROVE  ViewOK(b, c, TakesSnapshot(v, s), s, y2)
<1> DEFINE w == TakesSnapshot(v, s)
<1>1. v \in View /\ s \in ConditionSnapshot /\ Follows(v, n, y) /\ s # NoSnapshot
  BY SnapshotIs DEF ViewOK, Ours, Past
<1>2. /\ w \in View /\ w.connection = v.connection /\ w.connected = v.connected
      /\ Passed(v, s, w) \/ Followed(v, s, w) \/ Replaced(v, s, w)
  BY <1>1, TakesWhat
<1> HIDE DEF w
<1>3. s.authority \in Nat /\ s.revision \in Nat /\ NotAfter(s, s)
  BY <1>1, SnapshotIs
<1>4. n # NoSnapshot => n.authority \in Nat /\ n.revision \in Nat
  BY SnapshotIs
<1>5. v.shown # NoSnapshot => /\ v.shown.authority \in Nat /\ v.shown.revision \in Nat
                              /\ v.shown.authority \notin v.retired
  BY <1>1, SnapshotIs DEF View, ViewOK
<1>6. \A a \in v.retired : a \in Nat
  BY <1>1 DEF View, Authorities
<1>7. v.shown = NoSnapshot => v.retired = {} /\ n = NoSnapshot
  BY <1>1 DEF ViewOK, Follows
<1>8. v.shown # NoSnapshot =>
        /\ n # NoSnapshot /\ NotAfter(v.shown, n) /\ NotAfter(v.shown, s)
        /\ \A a \in v.retired : a < v.shown.authority
  BY <1>1, <1>3, <1>4, <1>5, NotAfterTransitive DEF Follows
<1>9. /\ w.shown # NoSnapshot /\ Ours(b, c, w.shown) /\ w.shown.authority \notin w.retired
  BY <1>1, <1>2, <1>5, <1>7 DEF Passed, Followed, Replaced, ViewOK
<1>10. NotAfter(w.shown, s)
  BY <1>1, <1>2, <1>3, <1>7, <1>8 DEF Passed, Followed, Replaced
<1>11. \A a \in w.retired : a < w.shown.authority
  <2>1. CASE Passed(v, s, w)
    BY <1>7, <1>8, <2>1 DEF Passed
  <2>2. CASE Followed(v, s, w)
    BY <1>7, <1>8, <2>2 DEF Followed
  <2>3. CASE Replaced(v, s, w)
    <3>1. v.shown.authority < s.authority
      BY <1>3, <1>5, <1>8, <2>3 DEF Replaced, NotAfter
    <3>2. QED
      BY <1>3, <1>5, <1>6, <1>8, <2>3, <3>1 DEF Replaced
  <2>4. QED
    BY <1>2, <2>1, <2>2, <2>3
<1>12. Met(w, s)
  BY <1>2 DEF Passed, Followed, Replaced, Met, Full
<1>13. s.authority = w.shown.authority => s.revision <= w.shown.revision
  <2>1. CASE Passed(v, s, w)
    BY <1>3, <1>5, <1>7, <1>8, <2>1 DEF Passed
  <2>2. CASE Followed(v, s, w) \/ Replaced(v, s, w)
    BY <1>3, <2>2 DEF Followed, Replaced
  <2>3. QED
    BY <1>2, <2>1, <2>2
<1>14. y2 # NoStray /\ y2.connection = v.connection => Met(w, y2.is)
  <2>1. CASE y2 = [connection |-> v.connection, is |-> s]
    BY <1>12, <2>1
  <2>2. ASSUME y2 = y, y # NoStray, y.connection = v.connection
        PROVE  Met(w, y.is)
    <3>1. n # NoSnapshot /\ v.shown # NoSnapshot
      BY <1>1, <2>2 DEF StrayOK, Follows
    <3>2. Met(v, y.is)
      BY <1>1, <2>2, <3>1 DEF Follows
    <3>3. QED
      BY <1>1, <1>2, <3>1, <3>2, MetStays
  <2>3. QED
    BY <2>1, <2>2
<1>15. Follows(w, s, y2)
  BY <1>1, <1>2, <1>9, <1>10, <1>11, <1>12, <1>13, <1>14 DEF Follows
<1>16. QED
  BY <1>2, <1>9, <1>15 DEF ViewOK, w

\* A copy of one that came comes once more.
LEMMA ViewTakesCopy ==
  ASSUME NEW b, NEW c, NEW v, NEW n \in ConditionSnapshot \cup {NoSnapshot}, NEW y,
         ViewOK(b, c, v, n, y), StrayOK(b, c, v, n, y), v.connected,
         y # NoStray, y.connection = v.connection
  PROVE  ViewOK(b, c, TakesSnapshot(v, y.is), n, y)
<1> DEFINE s == y.is
           w == TakesSnapshot(v, s)
<1>1. /\ v \in View /\ s \in ConditionSnapshot /\ Follows(v, n, y) /\ s # NoSnapshot
      /\ Ours(b, c, s) /\ n # NoSnapshot /\ NotAfter(s, n)
  BY SnapshotIs DEF ViewOK, StrayOK, Ours, Past
<1>2. v.shown # NoSnapshot /\ Met(v, s)
  BY <1>1 DEF Follows
<1> HIDE DEF s
<1>3. /\ w \in View /\ w.connection = v.connection /\ w.connected = v.connected
      /\ Passed(v, s, w) \/ Followed(v, s, w) \/ Replaced(v, s, w)
  BY <1>1, TakesWhat
<1> HIDE DEF w
<1>4. ~Replaced(v, s, w)
  BY <1>2 DEF Met, Replaced
<1>5. /\ s.authority \in Nat /\ s.revision \in Nat /\ n.authority \in Nat /\ n.revision \in Nat
      /\ v.shown.authority \in Nat /\ v.shown.revision \in Nat
  BY <1>1, <1>2, SnapshotIs DEF View
<1>6. CASE Passed(v, s, w)
  <2>1. w.shown = v.shown /\ w.retired = v.retired
    BY <1>6 DEF Passed
  <2>2. Follows(w, n, y)
    BY <1>1, <1>3, <2>1 DEF Follows, Met, Full
  <2>3. QED
    BY <1>3, <2>1, <2>2 DEF ViewOK, w, s
<1>7. CASE Followed(v, s, w)
  <2>1. /\ w.shown = s /\ w.retired = v.retired /\ s.authority = v.shown.authority
        /\ v.shown.revision <= s.revision /\ s.authority \notin v.retired
    BY <1>2, <1>7 DEF Followed
  <2>2. n.authority = s.authority => n.revision <= s.revision
    BY <1>1, <1>5, <2>1 DEF Follows
  <2>3. Follows(w, n, y)
    BY <1>1, <1>3, <2>1, <2>2 DEF Follows, Met, Full
  <2>4. QED
    BY <1>1, <1>3, <2>1, <2>3 DEF ViewOK, w, s
<1>8. QED
  BY <1>3, <1>4, <1>6, <1>7

\* What is on the way, without its first message.
LEMMA RestOfWire ==
  ASSUME NEW b, NEW c, NEW n, NEW q, WireOK(b, c, n, q), q # <<>>
  PROVE  /\ Head(q) \in Message
         /\ Head(q).ty = "event" => Head(q).is \in b.log /\ WireOK(b, c, n, Tail(q))
         /\ Head(q).ty # "event" =>
              /\ Ours(b, c, Head(q).is)
              /\ n # NoSnapshot => NotAfter(n, Head(q).is)
              /\ WireOK(b, c, Head(q).is, Tail(q))
<1> DEFINE t == Tail(q)
           m == Head(q)
<1>1. q \in Seq(Message)
  BY DEF WireOK
<1>2. /\ t \in Seq(Message) /\ m = q[1] /\ 1 \in DOMAIN q /\ m \in Message
      /\ \A i \in DOMAIN t : i \in Nat \ {0} /\ i + 1 \in DOMAIN q /\ t[i] = q[i + 1]
  BY <1>1
<1> HIDE DEF t, m
<1>3. \A i \in DOMAIN t : /\ t[i].ty = "event" => t[i].is \in b.log
                          /\ t[i].ty # "event" =>
                               /\ Ours(b, c, t[i].is)
                               /\ n # NoSnapshot => NotAfter(n, t[i].is)
  BY <1>2 DEF WireOK
<1>4. \A i \in DOMAIN t : t[i].ty # "event" =>
         \A j \in DOMAIN t : i < j /\ t[j].ty # "event" => NotAfter(t[i].is, t[j].is)
  <2>1. ASSUME NEW i \in DOMAIN t, t[i].ty # "event", NEW j \in DOMAIN t, i < j, t[j].ty # "event"
        PROVE  NotAfter(t[i].is, t[j].is)
    <3>1. i + 1 < j + 1
      BY <1>2, <2>1
    <3>2. QED
      BY <1>2, <2>1, <3>1 DEF WireOK
  <2>2. QED
    BY <2>1
<1>5. m.ty = "event" => m.is \in b.log
  BY <1>2 DEF WireOK
<1>6. m.ty # "event" =>
        /\ Ours(b, c, m.is) /\ (n # NoSnapshot => NotAfter(n, m.is))
        /\ \A i \in DOMAIN t : t[i].ty # "event" => NotAfter(m.is, t[i].is)
  <2>1. ASSUME m.ty # "event", NEW i \in DOMAIN t, t[i].ty # "event"
        PROVE  NotAfter(m.is, t[i].is)
    <3>1. 1 < i + 1
      BY <1>2
    <3>2. QED
      BY <1>2, <2>1, <3>1 DEF WireOK
  <2>2. QED
    BY <1>2, <2>1 DEF WireOK
<1>7. QED
  BY <1>2, <1>3, <1>4, <1>5, <1>6 DEF WireOK, t, m

\* What is on the way, and one message more: an event of the log, or the snapshot
\* of the station.
LEMMA MoreOnTheWire ==
  ASSUME NEW b, NEW c, NEW n, NEW q, WireOK(b, c, n, q), StationOK(b), NewestOK(b, c, n),
         NEW m \in Message,
         m.ty = "event" => m.is \in b.log,
         m.ty # "event" => m.is = b.now /\ (Calm(b.now) => c)
  PROVE  WireOK(b, c, n, Append(q, m))
<1> DEFINE p == Append(q, m)
<1>1. q \in Seq(Message)
  BY DEF WireOK
<1>2. /\ p \in Seq(Message) /\ Len(q) \in Nat /\ DOMAIN p = 1..(Len(q) + 1) /\ DOMAIN q = 1..Len(q)
      /\ p[Len(q) + 1] = m /\ \A i \in DOMAIN q : p[i] = q[i]
  BY <1>1
<1> HIDE DEF p
<1>3. \A i \in DOMAIN p : i \in DOMAIN q \/ i = Len(q) + 1
  BY <1>2
<1>4. b.now \in ConditionSnapshot
  BY DEF StationOK, AlertStation
<1>5. m.ty # "event" => Ours(b, c, m.is) /\ (n # NoSnapshot => NotAfter(n, m.is))
  BY <1>4, SnapshotIs DEF StationOK, Ours, Past, NewestOK
<1>6. \A i \in DOMAIN p : /\ p[i].ty = "event" => p[i].is \in b.log
                          /\ p[i].ty # "event" =>
                               /\ Ours(b, c, p[i].is)
                               /\ n # NoSnapshot => NotAfter(n, p[i].is)
  BY <1>2, <1>3, <1>5 DEF WireOK
<1>7. ASSUME NEW i \in DOMAIN p, p[i].ty # "event", NEW j \in DOMAIN p, i < j, p[j].ty # "event"
      PROVE  NotAfter(p[i].is, p[j].is)
  <2>1. i \in DOMAIN q
    BY <1>2, <1>3, <1>7
  <2>2. CASE j \in DOMAIN q
    BY <1>2, <1>7, <2>1, <2>2 DEF WireOK
  <2>3. CASE j = Len(q) + 1
    BY <1>2, <1>6, <1>7, <2>3 DEF Ours, Past
  <2>4. QED
    BY <1>3, <2>2, <2>3
<1>8. QED
  BY <1>2, <1>6, <1>7 DEF WireOK, p

-----------------------------------------------------------------------------
(* The station *)

\* What holds of a station holds of a later one.
LEMMA LaterKeeps ==
  ASSUME NEW b1, NEW b2, StationOK(b1), b2.now \in ConditionSnapshot, Later(b1, b2),
         NEW c1, NEW c2, c1 => c2, NEW n, NEW v, NEW y, NEW q, NEW es, NEW h
  PROVE  /\ WireOK(b1, c1, n, q) => WireOK(b2, c2, n, q)
         /\ NewestOK(b1, c1, n) => NewestOK(b2, c2, n)
         /\ StrayOK(b1, c1, v, n, y) => StrayOK(b2, c2, v, n, y)
         /\ ViewOK(b1, c1, v, n, y) => ViewOK(b2, c2, v, n, y)
         /\ EventsOK(b1, es, h) => EventsOK(b2, es, h)
<1>1. \A s : Past(b1, s) => Past(b2, s)
  BY PastStays
<1>2. \A s : Ours(b1, c1, s) => Ours(b2, c2, s)
  BY <1>1 DEF Ours
<1>3. b1.log \subseteq b2.log
  BY DEF Later
<1>4. WireOK(b1, c1, n, q) => WireOK(b2, c2, n, q)
  BY <1>2, <1>3 DEF WireOK
<1>5. StrayOK(b1, c1, v, n, y) => StrayOK(b2, c2, v, n, y)
  BY <1>1, <1>2 DEF StrayOK
<1>6. ViewOK(b1, c1, v, n, y) => ViewOK(b2, c2, v, n, y)
  BY <1>2 DEF ViewOK
<1>7. QED
  BY <1>2, <1>3, <1>4, <1>5, <1>6 DEF NewestOK, EventsOK

\* A step of the station, which may say an event of its log.
LEMMA StationStep ==
  ASSUME AlertInv, StationOK(alertStation'), Later(alertStation, alertStation'),
         calm' \in BOOLEAN, calm => calm', view.connection > 0 /\ Calm(alertStation'.now) => calm',
         UNCHANGED <<view, stray, events, history, newest>>,
         \/ socket' = socket
         \/ \E e \in alertStation'.log :
              socket' = [socket EXCEPT !.wire = Append(@, [ty |-> "event", is |-> e])]
              /\ socket.st = "open"
  PROVE  AlertInv'
<1> DEFINE b == alertStation
           d == alertStation'
<1>1. StationOK(b) /\ d \in AlertStation /\ d.now \in ConditionSnapshot
  BY DEF AlertInv, StationOK, AlertStation
<1>2. /\ WireOK(d, calm', newest, socket.wire) /\ NewestOK(d, calm', newest)
      /\ StrayOK(d, calm', view, newest, stray) /\ ViewOK(d, calm', view, newest, stray)
      /\ EventsOK(d, events, history)
  <2> HIDE DEF b, d
  <2>1. QED
    BY <1>1, LaterKeeps DEF AlertInv, b, d
<1>3. socket \in [st : {"connecting", "open", "closed"}, wire : Seq(Message)]
  BY DEF AlertInv, CalmOK
<1>4. CASE socket' = socket
  BY <1>2, <1>4 DEF AlertInv, CalmOK
<1>5. ASSUME NEW e \in d.log, socket.st = "open",
             socket' = [socket EXCEPT !.wire = Append(@, [ty |-> "event", is |-> e])]
      PROVE  AlertInv'
  <2> DEFINE m == [ty |-> "event", is |-> e]
  <2>1. m \in Message /\ m.ty = "event" /\ m.is = e
    BY <1>1 DEF Message, AlertStation
  <2> HIDE DEF m
  <2>2. /\ socket'.wire = Append(socket.wire, m) /\ socket'.st = "open"
        /\ socket' \in [st : {"connecting", "open", "closed"}, wire : Seq(Message)]
    <3>1. socket.wire \in Seq(Message) /\ socket = [st |-> "open", wire |-> socket.wire]
      BY <1>3, <1>5
    <3>2. Append(socket.wire, m) \in Seq(Message)
      BY <2>1, <3>1
    <3>3. socket' = [st |-> "open", wire |-> Append(socket.wire, m)]
      BY <1>5, <3>1 DEF m
    <3>4. QED
      BY <3>2, <3>3
  <2>3. WireOK(d, calm', newest, socket'.wire)
    BY <1>2, <2>1, <2>2, MoreOnTheWire
  <2>4. view.connection # 0
    BY <1>5 DEF AlertInv, CalmOK
  <2>5. CalmOK(d, calm', view, socket')
    BY <2>2, <2>4 DEF CalmOK
  <2>6. QED
    BY <1>2, <2>3, <2>5 DEF AlertInv
<1>6. QED
  BY <1>4, <1>5

\* The station at its next revision: every record it has dropped is over, or of an
\* occurrence it evaluates no more, and a new event is of one it has on record.
LEMMA NextRevision ==
  ASSUME NEW b, NEW d, StationOK(b), d \in AlertStation,
         d.now.authority = b.now.authority, d.now.revision = b.now.revision + 1,
         b.over \subseteq d.over, b.log \subseteq d.log, d.now.evaluated \subseteq b.now.evaluated,
         \A e \in d.log \ b.log : /\ e.authority = d.now.authority /\ e.revision = d.now.revision
                                  /\ d.now.record[e.occurrence] # "none",
         \A o \in Occurrences : d.now.record[o] = "resolved" => o \in d.over,
         \A o \in d.now.evaluated : d.now.record[o] = "none" => b.now.record[o] = "none" \/ o \in d.over
  PROVE  StationOK(d) /\ Later(b, d)
<1>1. /\ b.now \in ConditionSnapshot /\ d.now \in ConditionSnapshot /\ d.log \subseteq Link
      /\ b.log \subseteq Link
  BY DEF StationOK, AlertStation
<1>2. /\ b.now.authority \in Nat /\ b.now.revision \in Nat /\ d.now.revision \in Nat
  BY <1>1, SnapshotIs
<1>3. \A e \in d.log : e.authority \in Nat /\ e.revision \in Nat
  BY <1>1, LinkIs
<1>4. \A e \in b.log : NotAfter(e, b.now)
  BY DEF StationOK
<1>5. ASSUME NEW e \in d.log
      PROVE  NotAfter(e, d.now)
  <2>1. CASE e \in b.log
    BY <1>2, <1>3, <1>4, <2>1 DEF NotAfter
  <2>2. CASE e \notin b.log
    BY <1>2, <1>3, <2>2 DEF NotAfter
  <2>3. QED
    BY <2>1, <2>2
<1>6. ASSUME NEW e \in d.log, e.authority = d.now.authority, e.revision <= d.now.revision,
             e.occurrence \in d.now.evaluated, d.now.record[e.occurrence] = "none"
      PROVE  e.occurrence \in d.over
  <2>1. e \in b.log
    BY <1>6
  <2>2. NotAfter(e, b.now) /\ e.revision <= b.now.revision
    BY <1>2, <1>3, <1>4, <1>6, <2>1 DEF NotAfter
  <2>3. CASE b.now.record[e.occurrence] = "none"
    BY <1>6, <2>1, <2>2, <2>3 DEF StationOK, Explains
  <2>4. CASE b.now.record[e.occurrence] # "none"
    BY <1>6, <2>4
  <2>5. QED
    BY <2>3, <2>4
<1>7. StationOK(d)
  BY <1>5, <1>6 DEF StationOK, Explains
<1>8. NotAfter(b.now, d.now) /\ \A e \in d.log \ b.log : e \in Link /\ e.revision > b.now.revision
  BY <1>1, <1>2, <1>3 DEF NotAfter
<1>9. QED
  BY <1>7, <1>8 DEF Later

LEMMA StationNow ==
  ASSUME AlertInv
  PROVE  LET b == alertStation
         IN  /\ StationOK(b) /\ b \in AlertStation /\ b.now \in ConditionSnapshot
             /\ b.now.revision \in Nat /\ b.now.authority \in Nat
             /\ b.now.record \in [Occurrences -> Records] /\ b.now.evaluated \subseteq Occurrences
             /\ b.now.complete \in BOOLEAN /\ b.now.authority \in Authorities
             /\ b.over \subseteq Occurrences /\ b.raised \subseteq Occurrences /\ b.log \subseteq Link
             /\ b = [now |-> b.now, raised |-> b.raised, over |-> b.over, log |-> b.log]
             /\ b.now = [authority |-> b.now.authority, revision |-> b.now.revision,
                         complete |-> b.now.complete, evaluated |-> b.now.evaluated,
                         record |-> b.now.record]
             /\ calm \in BOOLEAN /\ (Calm(b.now) /\ view.connection > 0 => calm)
             /\ socket \in [st : {"connecting", "open", "closed"}, wire : Seq(Message)]
<1> DEFINE b == alertStation
<1>1. StationOK(b) /\ b \in AlertStation /\ CalmOK(b, calm, view, socket)
  BY DEF AlertInv, StationOK
<1> HIDE DEF b
<1>2. /\ b.now \in ConditionSnapshot /\ b.over \subseteq Occurrences
      /\ b.raised \subseteq Occurrences /\ b.log \subseteq Link
      /\ b = [now |-> b.now, raised |-> b.raised, over |-> b.over, log |-> b.log]
  BY <1>1 DEF AlertStation
<1>3. b.now = [authority |-> b.now.authority, revision |-> b.now.revision,
               complete |-> b.now.complete, evaluated |-> b.now.evaluated,
               record |-> b.now.record]
  BY <1>2 DEF ConditionSnapshot
<1>4. QED
  BY <1>1, <1>2, <1>3, SnapshotIs DEF CalmOK, b

\* The station with a later revision, as its actions write it.
LEMMA RevisedIs ==
  ASSUME AlertInv, NEW ra \in SUBSET Occurrences, NEW ov \in SUBSET Occurrences,
         NEW lg \in SUBSET Link, NEW co \in BOOLEAN, NEW ev \in SUBSET Occurrences,
         NEW re \in [Occurrences -> Records], NEW x,
         x = [now |-> [authority |-> alertStation.now.authority,
                       revision |-> alertStation.now.revision, complete |-> co,
                       evaluated |-> ev, record |-> re],
              raised |-> ra, over |-> ov, log |-> lg],
         Revised(x)
  PROVE  LET d == alertStation'
         IN  /\ d \in AlertStation
             /\ d.now.authority = alertStation.now.authority
             /\ d.now.revision = alertStation.now.revision + 1
             /\ d.now.complete = co /\ d.now.evaluated = ev /\ d.now.record = re
             /\ d.raised = ra /\ d.over = ov /\ d.log = lg
             /\ calm' \in BOOLEAN /\ (calm => calm') /\ (Calm(d.now) => calm')
<1> DEFINE d == alertStation'
           r == alertStation.now.revision + 1
<1>1. r \in Revisions /\ alertStation.now.authority \in Authorities
  <2>1. alertStation.now.revision \in Nat /\ alertStation.now.authority \in Authorities
    BY StationNow
  <2>2. alertStation.now.revision < MaxConditionRevision /\ MaxConditionRevision \in Nat
    BY AlertAssumption DEF Revised
  <2>3. QED
    BY <2>1, <2>2 DEF Revisions
<1>2. d = [now |-> [authority |-> alertStation.now.authority, revision |-> r, complete |-> co,
                    evaluated |-> ev, record |-> re],
           raised |-> ra, over |-> ov, log |-> lg]
  BY DEF Revised
<1> HIDE DEF d, r
<1>3. d.now = [authority |-> alertStation.now.authority, revision |-> r, complete |-> co,
               evaluated |-> ev, record |-> re]
      /\ d.raised = ra /\ d.over = ov /\ d.log = lg
  BY <1>2
<1>4. d.now \in ConditionSnapshot
  BY <1>1, <1>3 DEF ConditionSnapshot
<1>5. d \in AlertStation
  BY <1>2, <1>3, <1>4 DEF AlertStation
<1>6. Calm(d.now) <=> Calm(x.now)
  BY <1>3 DEF Calm, Pressing
<1>7. calm' = (calm \/ Calm(x.now))
  BY DEF Revised
<1>8. calm \in BOOLEAN
  BY StationNow
<1>9. calm' \in BOOLEAN /\ (calm => calm') /\ (Calm(d.now) => calm')
  <2>1. (calm \/ Calm(x.now)) \in BOOLEAN
    OBVIOUS
  <2>2. QED
    BY <1>6, <1>7, <1>8, <2>1
<1>10. QED
  BY <1>3, <1>5, <1>9 DEF d, r

LEMMA RaisesKeeps ==
  ASSUME AlertInv, NEW o \in Occurrences, Raises(o)
  PROVE  AlertInv'
<1> DEFINE b == alertStation
           d == alertStation'
           e == [occurrence |-> o, authority |-> b.now.authority, revision |-> b.now.revision + 1]
           re == [b.now.record EXCEPT ![o] = "active"]
           x == [b EXCEPT !.now.record[o] = "active", !.raised = @ \cup {o}, !.log = @ \cup {e}]
           y == [now |-> [authority |-> b.now.authority, revision |-> b.now.revision,
                          complete |-> b.now.complete, evaluated |-> b.now.evaluated, record |-> re],
                 raised |-> b.raised \cup {o}, over |-> b.over, log |-> b.log \cup {e}]
<1>1. Revised(x) /\ Says([ty |-> "event", is |-> e]) /\ UNCHANGED <<view, stray, events, history, newest>>
  BY DEF Raises
<1>2. x = y
  <2>1. /\ b = [now |-> b.now, raised |-> b.raised, over |-> b.over, log |-> b.log]
        /\ b.now = [authority |-> b.now.authority, revision |-> b.now.revision,
                    complete |-> b.now.complete, evaluated |-> b.now.evaluated,
                    record |-> b.now.record]
    BY StationNow
  <2>2. ASSUME NEW z, z = x
        PROVE  z = [now |-> z.now, raised |-> z.raised, over |-> z.over, log |-> z.log]
    <3>1. PICK n, ra, ov1, lg : b = [now |-> n, raised |-> ra, over |-> ov1, log |-> lg]
      BY <2>1
    <3> HIDE DEF b
    <3>2. QED
      BY <2>2, <3>1
  <2>3. x.raised = y.raised /\ x.over = y.over /\ x.log = y.log
    BY <2>1
  <2>4. x.now = [b.now EXCEPT !.record[o] = "active"]
    BY <2>1
  <2>5. x.now = y.now
    BY <2>1, <2>4
  <2> HIDE DEF x
  <2>6. QED
    BY <2>2, <2>3, <2>5
<1> HIDE DEF x
<1>3. /\ b.raised \cup {o} \in SUBSET Occurrences /\ b.over \in SUBSET Occurrences
      /\ b.now.complete \in BOOLEAN /\ b.now.evaluated \in SUBSET Occurrences
      /\ re \in [Occurrences -> Records] /\ re[o] = "active"
      /\ \A p \in Occurrences \ {o} : re[p] = b.now.record[p]
  BY StationNow DEF Records
<1>4. e \in Link /\ e.occurrence = o /\ e.authority = b.now.authority /\ e.revision = b.now.revision + 1
  <2>1. b.now.revision < MaxConditionRevision /\ MaxConditionRevision \in Nat
    BY <1>1, <1>2, AlertAssumption DEF Revised
  <2>2. b.now.revision + 1 \in Revisions
    BY <2>1, StationNow DEF Revisions
  <2>3. QED
    BY <2>2, StationNow DEF Link
<1>5. b.log \cup {e} \in SUBSET Link
  BY <1>4, StationNow
<1> HIDE DEF e, re
<1>6. /\ d \in AlertStation /\ d.now.authority = b.now.authority
      /\ d.now.revision = b.now.revision + 1 /\ d.now.evaluated = b.now.evaluated
      /\ d.now.record = re /\ d.over = b.over /\ d.log = b.log \cup {e}
      /\ calm' \in BOOLEAN /\ (calm => calm') /\ (Calm(d.now) => calm')
  <2>1. Revised(y)
    BY <1>1, <1>2
  <2>2. QED
    BY <1>3, <1>5, <2>1, RevisedIs
<1>7. StationOK(b)
  BY StationNow
<1>8. \A p \in Occurrences : re[p] = "resolved" => p \in b.over
  BY <1>3, <1>7 DEF StationOK
<1>9. socket' = socket \/ (socket.st = "open" /\ socket' = [socket EXCEPT
                             !.wire = Append(@, [ty |-> "event", is |-> e])])
  BY <1>1 DEF Says, IsOpen
<1> HIDE DEF b, d
<1>10. StationOK(d) /\ Later(b, d)
  <2>1. \A f \in d.log \ b.log : /\ f.authority = d.now.authority /\ f.revision = d.now.revision
                                 /\ d.now.record[f.occurrence] # "none"
    BY <1>3, <1>4, <1>6
  <2>2. b.now.evaluated \subseteq Occurrences
    BY <1>3
  <2>3. \A p \in d.now.evaluated : d.now.record[p] = "none" => b.now.record[p] = "none"
    BY <1>3, <1>6, <2>2
  <2>4. QED
    BY <1>6, <1>7, <1>8, <2>1, <2>3, NextRevision
<1>11. QED
  BY <1>1, <1>6, <1>9, <1>10, StationStep DEF b, d

LEMMA TurnsKeeps ==
  ASSUME AlertInv, NEW o \in Occurrences, NEW r \in Records, Turns(o, r)
  PROVE  AlertInv'
<1> DEFINE b == alertStation
           d == alertStation'
           re == [b.now.record EXCEPT ![o] = r]
           ov == IF r = "resolved" THEN b.over \cup {o} ELSE b.over
           x == [b EXCEPT !.now.record[o] = r, !.over = IF r = "resolved" THEN @ \cup {o} ELSE @]
           y == [now |-> [authority |-> b.now.authority, revision |-> b.now.revision,
                          complete |-> b.now.complete, evaluated |-> b.now.evaluated, record |-> re],
                 raised |-> b.raised, over |-> ov, log |-> b.log]
<1>1. Revised(x) /\ UNCHANGED <<view, socket, stray, events, history, newest>> /\ r # "none"
  BY DEF Turns
<1>2. x = y
  <2>1. /\ b = [now |-> b.now, raised |-> b.raised, over |-> b.over, log |-> b.log]
        /\ b.now = [authority |-> b.now.authority, revision |-> b.now.revision,
                    complete |-> b.now.complete, evaluated |-> b.now.evaluated,
                    record |-> b.now.record]
    BY StationNow
  <2>2. ASSUME NEW z, z = x
        PROVE  z = [now |-> z.now, raised |-> z.raised, over |-> z.over, log |-> z.log]
    <3>1. PICK n, ra, ov1, lg : b = [now |-> n, raised |-> ra, over |-> ov1, log |-> lg]
      BY <2>1
    <3> HIDE DEF b
    <3>2. QED
      BY <2>2, <3>1
  <2>3. x.raised = y.raised /\ x.over = y.over /\ x.log = y.log
    BY <2>1
  <2>4. x.now = [b.now EXCEPT !.record[o] = r]
    BY <2>1
  <2>5. x.now = y.now
    BY <2>1, <2>4
  <2> HIDE DEF x
  <2>6. QED
    BY <2>2, <2>3, <2>5
<1> HIDE DEF x
<1>3. /\ b.raised \in SUBSET Occurrences /\ ov \in SUBSET Occurrences /\ b.log \in SUBSET Link
      /\ b.now.complete \in BOOLEAN /\ b.now.evaluated \in SUBSET Occurrences
      /\ re \in [Occurrences -> Records] /\ re[o] = r
      /\ \A p \in Occurrences \ {o} : re[p] = b.now.record[p]
      /\ b.over \subseteq ov /\ (r = "resolved" => o \in ov)
  BY StationNow
<1> HIDE DEF re, ov
<1>4. /\ d \in AlertStation /\ d.now.authority = b.now.authority
      /\ d.now.revision = b.now.revision + 1 /\ d.now.evaluated = b.now.evaluated
      /\ d.now.record = re /\ d.over = ov /\ d.log = b.log
      /\ calm' \in BOOLEAN /\ (calm => calm') /\ (Calm(d.now) => calm')
  <2>1. Revised(x)
    BY <1>1
  <2>2. QED
    BY <1>2, <1>3, <2>1, RevisedIs
<1>5. StationOK(b)
  BY StationNow
<1>6. \A p \in Occurrences : re[p] = "resolved" => p \in ov
  BY <1>3, <1>5 DEF StationOK
<1> HIDE DEF b, d
<1>7. StationOK(d) /\ Later(b, d)
  <2>1. \A p \in d.now.evaluated : d.now.record[p] = "none" => b.now.record[p] = "none"
    BY <1>1, <1>3, <1>4
  <2>2. \A f \in d.log \ b.log : FALSE
    BY <1>4
  <2>3. QED
    BY <1>3, <1>4, <1>5, <1>6, <2>1, <2>2, NextRevision
<1>8. QED
  BY <1>1, <1>4, <1>7, StationStep DEF b, d

LEMMA DropsKeeps ==
  ASSUME AlertInv, NEW o \in Occurrences, Drops(o)
  PROVE  AlertInv'
<1> DEFINE b == alertStation
           d == alertStation'
           re == [b.now.record EXCEPT ![o] = "none"]
           ev == IF Happening(o) THEN b.now.evaluated \ {o} ELSE b.now.evaluated
           x == [b EXCEPT !.now.record[o] = "none",
                          !.now.evaluated = IF Happening(o) THEN @ \ {o} ELSE @]
           y == [now |-> [authority |-> b.now.authority, revision |-> b.now.revision,
                          complete |-> b.now.complete, evaluated |-> ev, record |-> re],
                 raised |-> b.raised, over |-> b.over, log |-> b.log]
<1>1. /\ Revised(x) /\ UNCHANGED <<view, socket, stray, events, history, newest>>
      /\ b.now.record[o] # "none"
  BY DEF Drops
<1>2. x = y
  <2>1. /\ b = [now |-> b.now, raised |-> b.raised, over |-> b.over, log |-> b.log]
        /\ b.now = [authority |-> b.now.authority, revision |-> b.now.revision,
                    complete |-> b.now.complete, evaluated |-> b.now.evaluated,
                    record |-> b.now.record]
    BY StationNow
  <2>2. ASSUME NEW z, z = x
        PROVE  z = [now |-> z.now, raised |-> z.raised, over |-> z.over, log |-> z.log]
    <3>1. PICK n, ra, ov1, lg : b = [now |-> n, raised |-> ra, over |-> ov1, log |-> lg]
      BY <2>1
    <3> HIDE DEF b
    <3>2. QED
      BY <2>2, <3>1
  <2>3. x.raised = y.raised /\ x.over = y.over /\ x.log = y.log
    BY <2>1
  <2>4. x.now = [b.now EXCEPT !.record[o] = "none", !.evaluated = IF Happening(o) THEN @ \ {o} ELSE @]
    BY <2>1
  <2>5. x.now = y.now
    BY <2>1, <2>4
  <2> HIDE DEF x
  <2>6. QED
    BY <2>2, <2>3, <2>5
<1> HIDE DEF x
<1>3. /\ b.raised \in SUBSET Occurrences /\ b.over \in SUBSET Occurrences /\ b.log \in SUBSET Link
      /\ b.now.complete \in BOOLEAN /\ ev \in SUBSET Occurrences
      /\ re \in [Occurrences -> Records] /\ re[o] = "none"
      /\ \A p \in Occurrences \ {o} : re[p] = b.now.record[p]
      /\ ev \subseteq b.now.evaluated
  BY StationNow DEF Records
<1>4. StationOK(b)
  BY StationNow
<1>5. o \in ev => o \in b.over
  <2>1. ASSUME o \in ev
        PROVE  b.now.record[o] = "resolved"
    <3>1. b.now.record[o] \in Records
      BY StationNow
    <3>2. ~Happening(o)
      BY <2>1
    <3>3. QED
      BY <1>1, <3>1, <3>2 DEF Happening, Records
  <2>2. QED
    BY <1>4, <2>1 DEF StationOK
<1> HIDE DEF re, ev
<1>6. /\ d \in AlertStation /\ d.now.authority = b.now.authority
      /\ d.now.revision = b.now.revision + 1 /\ d.now.evaluated = ev
      /\ d.now.record = re /\ d.over = b.over /\ d.log = b.log
      /\ calm' \in BOOLEAN /\ (calm => calm') /\ (Calm(d.now) => calm')
  <2>1. Revised(x)
    BY <1>1
  <2>2. QED
    BY <1>2, <1>3, <2>1, RevisedIs
<1>7. \A p \in Occurrences : re[p] = "resolved" => p \in b.over
  BY <1>3, <1>4 DEF StationOK
<1> HIDE DEF b, d
<1>8. StationOK(d) /\ Later(b, d)
  <2>1. \A p \in d.now.evaluated : d.now.record[p] = "none" => b.now.record[p] = "none" \/ p \in d.over
    BY <1>3, <1>5, <1>6
  <2>2. \A f \in d.log \ b.log : FALSE
    BY <1>6
  <2>3. QED
    BY <1>3, <1>4, <1>6, <1>7, <2>1, <2>2, NextRevision
<1>9. QED
  BY <1>1, <1>6, <1>8, StationStep DEF b, d

LEMMA CompletesKeeps ==
  ASSUME AlertInv, Completes
  PROVE  AlertInv'
<1> DEFINE b == alertStation
           d == alertStation'
           x == [b EXCEPT !.now.complete = TRUE]
           y == [now |-> [authority |-> b.now.authority, revision |-> b.now.revision,
                          complete |-> TRUE, evaluated |-> b.now.evaluated,
                          record |-> b.now.record],
                 raised |-> b.raised, over |-> b.over, log |-> b.log]
<1>1. Revised(x) /\ UNCHANGED <<view, socket, stray, events, history, newest>>
  BY DEF Completes
<1>2. x = y
  <2>1. /\ b = [now |-> b.now, raised |-> b.raised, over |-> b.over, log |-> b.log]
        /\ b.now = [authority |-> b.now.authority, revision |-> b.now.revision,
                    complete |-> b.now.complete, evaluated |-> b.now.evaluated,
                    record |-> b.now.record]
    BY StationNow
  <2>2. ASSUME NEW z, z = x
        PROVE  z = [now |-> z.now, raised |-> z.raised, over |-> z.over, log |-> z.log]
    <3>1. PICK n, ra, ov1, lg : b = [now |-> n, raised |-> ra, over |-> ov1, log |-> lg]
      BY <2>1
    <3> HIDE DEF b
    <3>2. QED
      BY <2>2, <3>1
  <2>3. x.raised = y.raised /\ x.over = y.over /\ x.log = y.log
    BY <2>1
  <2>4. x.now = [b.now EXCEPT !.complete = TRUE]
    BY <2>1
  <2>5. x.now = y.now
    BY <2>1, <2>4
  <2> HIDE DEF x
  <2>6. QED
    BY <2>2, <2>3, <2>5
<1> HIDE DEF x
<1>3. /\ b.raised \in SUBSET Occurrences /\ b.over \in SUBSET Occurrences /\ b.log \in SUBSET Link
      /\ b.now.evaluated \in SUBSET Occurrences /\ b.now.record \in [Occurrences -> Records]
  BY StationNow
<1>4. /\ d \in AlertStation /\ d.now.authority = b.now.authority
      /\ d.now.revision = b.now.revision + 1 /\ d.now.evaluated = b.now.evaluated
      /\ d.now.record = b.now.record /\ d.over = b.over /\ d.log = b.log
      /\ calm' \in BOOLEAN /\ (calm => calm') /\ (Calm(d.now) => calm')
  <2>1. PICK co \in BOOLEAN : co = TRUE
    OBVIOUS
  <2>2. x = [now |-> [authority |-> b.now.authority, revision |-> b.now.revision,
                      complete |-> co, evaluated |-> b.now.evaluated, record |-> b.now.record],
             raised |-> b.raised, over |-> b.over, log |-> b.log]
    BY <1>2, <2>1
  <2>3. Revised(x)
    BY <1>1
  <2>4. QED
    BY <1>3, <2>2, <2>3, RevisedIs
<1>5. StationOK(b)
  BY StationNow
<1> HIDE DEF b, d
<1>6. StationOK(d) /\ Later(b, d)
  <2>1. \A f \in d.log \ b.log : FALSE
    BY <1>4
  <2>2. \A p \in Occurrences : d.now.record[p] = "resolved" => p \in d.over
    BY <1>4, <1>5 DEF StationOK
  <2>3. QED
    BY <1>4, <1>5, <2>1, <2>2, NextRevision
<1>7. QED
  BY <1>1, <1>4, <1>6, StationStep DEF b, d

\* The station starts again: no event is of its new authority yet.
LEMMA StartsKeeps ==
  ASSUME AlertInv, NEW journal \in BOOLEAN, Starts(journal)
  PROVE  AlertInv'
<1> DEFINE b == alertStation
           d == alertStation'
           re == [p \in Occurrences |->
                    IF ~journal THEN "none"
                    ELSE IF b.now.record[p] = "active" THEN "unknown" ELSE b.now.record[p]]
           now == [authority |-> b.now.authority + 1, revision |-> 1, complete |-> FALSE,
                   evaluated |-> b.now.evaluated, record |-> re]
<1>1. /\ b.now.authority < MaxAuthority
      /\ UNCHANGED <<view, socket, stray, events, history, newest, calm>>
      /\ d = [b EXCEPT !.now.authority = @ + 1, !.now.revision = 1, !.now.complete = FALSE,
                !.now.record = [o \in Occurrences |->
                   IF ~journal THEN "none" ELSE IF @[o] = "active" THEN "unknown" ELSE @[o]]]
  BY DEF Starts
<1>2. d = [now |-> now, raised |-> b.raised, over |-> b.over, log |-> b.log]
  BY <1>1, StationNow
<1>3. re \in [Occurrences -> Records] /\ \A p \in Occurrences : re[p] = "resolved" => b.now.record[p] = "resolved"
  BY StationNow DEF Records
<1> HIDE DEF re
<1>4. now \in ConditionSnapshot
  <2>1. 1 \in Revisions
    BY AlertAssumption DEF Revisions
  <2>2. b.now.authority + 1 \in Authorities
    BY <1>1, AlertAssumption, StationNow DEF Authorities
  <2>3. b.now.evaluated \subseteq Occurrences
    BY StationNow
  <2>4. QED
    BY <1>3, <2>1, <2>2, <2>3 DEF ConditionSnapshot
<1>5. d \in AlertStation
  BY <1>2, <1>4, StationNow DEF AlertStation
<1>6. StationOK(b) /\ b.now.authority \in Nat /\ b.log \subseteq Link /\ calm \in BOOLEAN
  BY StationNow
<1>7. /\ d.now = now /\ d.over = b.over /\ d.log = b.log
      /\ now.authority = b.now.authority + 1 /\ now.record = re /\ now.complete = FALSE
  BY <1>2
<1> HIDE DEF b, d, now
<1>8. \A e \in b.log : /\ e.authority \in Nat /\ e.authority <= b.now.authority
  BY <1>6, LinkIs DEF StationOK, NotAfter
<1>9. StationOK(d)
  <2>1. \A e \in d.log : NotAfter(e, d.now) /\ e.authority # d.now.authority
    BY <1>6, <1>7, <1>8 DEF NotAfter
  <2>2. \A p \in Occurrences : d.now.record[p] = "resolved" => p \in d.over
    BY <1>3, <1>6, <1>7 DEF StationOK
  <2>3. QED
    BY <1>5, <2>1, <2>2 DEF StationOK, Explains
<1>10. Later(b, d)
  BY <1>6, <1>7 DEF Later, NotAfter
<1>11. ~Calm(d.now)
  BY <1>7 DEF Calm
<1>12. QED
  BY <1>1, <1>6, <1>9, <1>10, <1>11, StationStep DEF b, d

-----------------------------------------------------------------------------
(* The socket and the view *)

LEMMA EmptyWire ==
  ASSUME NEW b, NEW c, NEW n
  PROVE  WireOK(b, c, n, <<>>)
BY DEF WireOK

LEMMA ViewNow ==
  ASSUME AlertInv
  PROVE  /\ view \in View /\ view.connection \in 0..MaxConnection /\ MaxConnection \in Nat
         /\ view = [connection |-> view.connection, connected |-> view.connected,
                    shown |-> view.shown, retired |-> view.retired, invalid |-> view.invalid]
         /\ view.connected \in BOOLEAN /\ view.retired \subseteq Authorities
         /\ view.shown \in ConditionSnapshot \cup {NoSnapshot}
         /\ socket.st = "open" \/ socket.wire # <<>> => view.connection > 0
         /\ socket.st \in {"connecting", "open", "closed"} /\ socket.wire \in Seq(Message)
         /\ socket = [st |-> socket.st, wire |-> socket.wire]
<1>1. view \in View /\ CalmOK(alertStation, calm, view, socket)
  BY DEF AlertInv, ViewOK
<1>2. /\ view.connection \in 0..MaxConnection /\ view.connected \in BOOLEAN
      /\ view.retired \subseteq Authorities /\ view.shown \in ConditionSnapshot \cup {NoSnapshot}
      /\ view = [connection |-> view.connection, connected |-> view.connected,
                 shown |-> view.shown, retired |-> view.retired, invalid |-> view.invalid]
  BY <1>1 DEF View
<1>3. MaxConnection \in Nat
  BY AlertAssumption
<1>4. /\ socket.st \in {"connecting", "open", "closed"} /\ socket.wire \in Seq(Message)
      /\ socket = [st |-> socket.st, wire |-> socket.wire]
  BY <1>1 DEF CalmOK
<1>5. view.connection = 0 => socket.st = "closed" /\ socket.wire = <<>>
  BY <1>1 DEF CalmOK
<1>6. QED
  BY <1>1, <1>2, <1>3, <1>4, <1>5

LEMMA PublishesKeeps ==
  ASSUME AlertInv, Publishes
  PROVE  AlertInv'
<1> DEFINE m == [ty |-> "conditions", is |-> alertStation.now]
<1>1. /\ socket.st = "open" /\ socket' = [socket EXCEPT !.wire = Append(@, m)]
      /\ UNCHANGED <<alertStation, view, stray, events, history, newest, calm>>
  BY DEF Publishes, Says, IsOpen
<1>2. m \in Message /\ m.ty # "event" /\ m.is = alertStation.now
  BY StationNow DEF Message
<1> HIDE DEF m
<1>3. view.connection > 0
  BY <1>1, ViewNow
<1>4. /\ socket'.wire = Append(socket.wire, m) /\ socket'.st = "open"
      /\ socket' \in [st : {"connecting", "open", "closed"}, wire : Seq(Message)]
  <2>1. Append(socket.wire, m) \in Seq(Message)
    BY <1>2, ViewNow
  <2>2. socket' = [st |-> "open", wire |-> Append(socket.wire, m)]
    BY <1>1, ViewNow
  <2>3. QED
    BY <2>1, <2>2
<1>5. Calm(alertStation.now) => calm
  BY <1>3, StationNow
<1>6. WireOK(alertStation, calm, newest, socket'.wire)
  BY <1>2, <1>4, <1>5, MoreOnTheWire DEF AlertInv
<1>7. CalmOK(alertStation, calm, view, socket')
  BY <1>3, <1>4 DEF AlertInv, CalmOK
<1>8. QED
  BY <1>1, <1>6, <1>7 DEF AlertInv

LEMMA CopiesAre ==
  ASSUME AlertInv, NEW y \in Copies
  PROVE  /\ socket.wire # <<>> /\ Head(socket.wire).ty # "event"
         /\ y = [connection |-> view.connection, is |-> Head(socket.wire).is]
         /\ y \in Stray /\ Ours(alertStation, calm, y.is) /\ view.connection > 0
         /\ y.connection = view.connection /\ y.is = Head(socket.wire).is
<1>1. PICK i \in {j \in {1} \cap DOMAIN socket.wire : socket.wire[j].ty = "conditions"} :
         y = [connection |-> view.connection, is |-> socket.wire[i].is]
  BY DEF Copies
<1>2. /\ 1 \in DOMAIN socket.wire /\ socket.wire[1].ty = "conditions"
      /\ y = [connection |-> view.connection, is |-> socket.wire[1].is]
  BY <1>1
<1>3. socket.wire # <<>> /\ Head(socket.wire) = socket.wire[1] /\ view.connection > 0
  BY <1>2, ViewNow
<1>4. Head(socket.wire).ty # "event" /\ Ours(alertStation, calm, Head(socket.wire).is)
  BY <1>2, <1>3 DEF AlertInv, WireOK
<1>5. y.is = Head(socket.wire).is /\ y.is \in ConditionSnapshot
  BY <1>2, <1>3, <1>4 DEF Ours, Past
<1>6. y.connection = view.connection /\ view.connection \in 1..MaxConnection
  BY <1>2, <1>3, ViewNow
<1>7. y \in Stray
  BY <1>2, <1>3, <1>5, <1>6 DEF Stray
<1>8. QED
  BY <1>2, <1>3, <1>4, <1>5, <1>6, <1>7

LEMMA SessionBeginsKeeps ==
  ASSUME AlertInv, SessionBegins
  PROVE  AlertInv'
<1>1. /\ view.connection < MaxConnection /\ view' = Begun(view)
      /\ socket' = [st |-> "connecting", wire |-> <<>>] /\ newest' = NoSnapshot
      /\ calm' = Calm(alertStation.now) /\ stray' \in {stray} \cup Copies
      /\ UNCHANGED <<alertStation, events, history>>
  BY DEF SessionBegins
<1>2. /\ view'.connection = view.connection + 1 /\ view'.connected = TRUE
      /\ view'.shown = NoSnapshot /\ view'.retired = {} /\ view' \in View
  BY <1>1, ViewNow DEF Begun, View
<1>3. stray' # NoStray =>
        /\ stray' \in Stray /\ Past(alertStation, stray'.is)
        /\ stray'.connection <= view.connection
  <2>1. CASE stray' = stray
    BY <2>1 DEF AlertInv, StrayOK
  <2>2. CASE stray' \in Copies
    BY <2>2, CopiesAre, ViewNow DEF Ours
  <2>3. QED
    BY <1>1, <2>1, <2>2
<1>4. StrayOK(alertStation, calm', view', newest', stray')
  <2>1. stray' # NoStray => stray'.connection \in Nat
    BY <1>3 DEF Stray
  <2>2. QED
    BY <1>2, <1>3, <2>1, ViewNow DEF StrayOK
<1>5. Follows(view', newest', stray')
  BY <1>1, <1>2 DEF Follows
<1>6. ViewOK(alertStation, calm', view', newest', stray')
  BY <1>2, <1>5 DEF ViewOK
<1>7. socket' \in [st : {"connecting", "open", "closed"}, wire : Seq(Message)] /\ socket'.wire = <<>>
  BY <1>1
<1>8. CalmOK(alertStation, calm', view', socket')
  <2>1. calm' \in BOOLEAN
    BY <1>1 DEF Calm
  <2>2. view'.connection # 0
    BY <1>2, ViewNow
  <2>3. QED
    BY <1>1, <1>7, <2>1, <2>2 DEF CalmOK
<1>9. QED
  BY <1>1, <1>4, <1>6, <1>7, <1>8, EmptyWire DEF AlertInv, NewestOK

\* A step of the socket alone, which loses what was on the way or keeps it.
LEMMA SocketStep ==
  ASSUME AlertInv, UNCHANGED <<alertStation, view, stray, events, history, newest, calm>>,
         NEW st \in {"connecting", "open", "closed"}, NEW q \in {<<>>, socket.wire},
         socket' = [st |-> st, wire |-> q], st = "closed" \/ view.connection > 0
  PROVE  AlertInv'
<1>1. socket'.wire = q /\ socket'.st = st
  OBVIOUS
<1>2. q \in Seq(Message) /\ (view.connection = 0 => q = <<>>)
  <2>1. socket.wire \in Seq(Message) /\ <<>> \in Seq(Message)
    BY ViewNow
  <2>2. view.connection = 0 => socket.wire = <<>>
    BY ViewNow
  <2>3. QED
    BY <2>1, <2>2
<1>3. CalmOK(alertStation, calm, view, socket')
  <2>1. socket' \in [st : {"connecting", "open", "closed"}, wire : Seq(Message)]
    BY <1>2
  <2>2. view.connection = 0 => st = "closed"
    OBVIOUS
  <2>3. QED
    BY <1>1, <1>2, <2>1, <2>2 DEF AlertInv, CalmOK
<1>4. WireOK(alertStation, calm, newest, q)
  BY EmptyWire DEF AlertInv
<1>5. QED
  BY <1>1, <1>3, <1>4 DEF AlertInv

LEMMA SocketOpensKeeps ==
  ASSUME AlertInv, SocketOpens
  PROVE  AlertInv'
<1> DEFINE m == [ty |-> "conditions", is |-> alertStation.now]
<1>1. /\ socket.st = "connecting" /\ socket' = [st |-> "open", wire |-> <<m>>]
      /\ UNCHANGED <<alertStation, view, stray, events, history, newest, calm>>
  BY DEF SocketOpens
<1>2. m \in Message /\ m.ty # "event" /\ m.is = alertStation.now
  BY StationNow DEF Message
<1> HIDE DEF m
<1>3. view.connection > 0
  BY <1>1, ViewNow DEF AlertInv, CalmOK
<1>4. <<m>> \in Seq(Message) /\ <<m>> = Append(<<>>, m)
  BY <1>2
<1>5. Calm(alertStation.now) => calm
  BY <1>3, StationNow
<1>6. WireOK(alertStation, calm, newest, <<m>>)
  BY <1>2, <1>4, <1>5, EmptyWire, MoreOnTheWire DEF AlertInv
<1>7. CalmOK(alertStation, calm, view, socket')
  <2>1. socket' \in [st : {"connecting", "open", "closed"}, wire : Seq(Message)]
    BY <1>1, <1>4
  <2>2. QED
    BY <1>3, <2>1 DEF AlertInv, CalmOK
<1>8. QED
  BY <1>1, <1>6, <1>7 DEF AlertInv

LEMMA ConnectFailsKeeps ==
  ASSUME AlertInv, ConnectFails
  PROVE  AlertInv'
<1>1. /\ socket' = [socket EXCEPT !.st = "closed"]
      /\ UNCHANGED <<alertStation, view, stray, events, history, newest, calm>>
  BY DEF ConnectFails
<1>2. socket' = [st |-> "closed", wire |-> socket.wire]
  BY <1>1, ViewNow
<1>3. QED
  BY <1>1, <1>2, SocketStep

LEMMA SessionRetiresKeeps ==
  ASSUME AlertInv, SessionRetires
  PROVE  AlertInv'
BY SocketStep DEF SessionRetires

\* A step that changes nothing of the view but that it is connected no more, or invalid.
LEMMA ViewDims ==
  ASSUME AlertInv, NEW x \in BOOLEAN, NEW z \in BOOLEAN, x => view.connected,
         view' = [connection |-> view.connection, connected |-> x, shown |-> view.shown,
                  retired |-> view.retired, invalid |-> z],
         NEW q \in {<<>>, socket.wire}, NEW st \in {"open", "closed"},
         socket' = [st |-> st, wire |-> q], st = "closed" \/ view.connection > 0,
         UNCHANGED <<alertStation, stray, events, history, newest, calm>>
  PROVE  AlertInv'
<1>1. /\ view' \in View /\ view'.connection = view.connection /\ view'.connected = x
      /\ view'.shown = view.shown /\ view'.retired = view.retired
  BY ViewNow DEF View
<1>2. ViewOK(alertStation, calm, view', newest, stray)
  <2>1. ViewOK(alertStation, calm, view, newest, stray)
    BY DEF AlertInv
  <2>2. x => Follows(view', newest, stray)
    BY <1>1, <2>1 DEF ViewOK, Follows, Met, Full
  <2>3. QED
    BY <1>1, <2>1, <2>2 DEF ViewOK
<1>3. StrayOK(alertStation, calm, view', newest, stray)
  BY <1>1 DEF AlertInv, StrayOK
<1>4. socket'.wire = q /\ socket'.st = st
  OBVIOUS
<1>5. q \in Seq(Message) /\ (view.connection = 0 => q = <<>>)
  <2>1. socket.wire \in Seq(Message) /\ <<>> \in Seq(Message)
    BY ViewNow
  <2>2. view.connection = 0 => socket.wire = <<>>
    BY ViewNow
  <2>3. QED
    BY <2>1, <2>2
<1>6. CalmOK(alertStation, calm, view', socket')
  <2>1. socket' \in [st : {"connecting", "open", "closed"}, wire : Seq(Message)]
    BY <1>5
  <2>2. view.connection = 0 => st = "closed"
    OBVIOUS
  <2>3. QED
    BY <1>1, <1>4, <1>5, <2>1, <2>2 DEF AlertInv, CalmOK
<1>7. WireOK(alertStation, calm, newest, q)
  BY EmptyWire DEF AlertInv
<1>8. QED
  BY <1>2, <1>3, <1>4, <1>6, <1>7 DEF AlertInv

LEMMA GarblesKeeps ==
  ASSUME AlertInv, Garbles
  PROVE  AlertInv'
<1>1. /\ socket.st = "open" /\ view' = IF view.connected THEN Invalid(view) ELSE view
      /\ UNCHANGED <<alertStation, socket, stray, events, history, newest, calm>>
  BY DEF Garbles, IsOpen
<1>2. socket' = [st |-> "open", wire |-> socket.wire] /\ view.connection > 0
  BY <1>1, ViewNow
<1>3. PICK z \in BOOLEAN : view' = [connection |-> view.connection, connected |-> view.connected,
                                    shown |-> view.shown, retired |-> view.retired, invalid |-> z]
  <2>1. CASE view.connected
    <3>1. view' = [view EXCEPT !.invalid = TRUE]
      BY <1>1, <2>1 DEF Invalid
    <3>2. view' = [connection |-> view.connection, connected |-> view.connected,
                   shown |-> view.shown, retired |-> view.retired, invalid |-> TRUE]
      BY <3>1, ViewNow
    <3>3. QED
      BY <3>2
  <2>2. CASE ~view.connected
    <3>1. view' = view /\ view.invalid \in BOOLEAN
      BY <1>1, <2>2, ViewNow DEF View
    <3>2. QED
      BY <3>1, ViewNow
  <2>3. QED
    BY <2>1, <2>2
<1>4. view.connected \in BOOLEAN
  BY ViewNow
<1>5. QED
  BY <1>1, <1>2, <1>3, <1>4, ViewDims

LEMMA SocketClosesKeeps ==
  ASSUME AlertInv, SocketCloses
  PROVE  AlertInv'
<1>1. PICK q \in {<<>>, socket.wire} : socket' = [st |-> "closed", wire |-> q]
  BY DEF SocketCloses
<1>2. /\ view' = [view EXCEPT !.connected = FALSE]
      /\ UNCHANGED <<alertStation, stray, events, history, newest, calm>>
  BY DEF SocketCloses
<1>3. view' = [connection |-> view.connection, connected |-> FALSE, shown |-> view.shown,
               retired |-> view.retired, invalid |-> view.invalid]
  BY <1>2, ViewNow
<1>4. view.invalid \in BOOLEAN
  BY ViewNow DEF View
<1>5. QED
  BY <1>1, <1>2, <1>3, <1>4, ViewDims

LEMMA DeliversKeeps ==
  ASSUME AlertInv, Delivers
  PROVE  AlertInv'
<1> DEFINE b == alertStation
           m == Head(socket.wire)
<1>1. /\ socket.wire # <<>> /\ socket' = [socket EXCEPT !.wire = Tail(@)]
      /\ UNCHANGED <<alertStation, history, calm>>
  BY DEF Delivers
<1>2. /\ WireOK(b, calm, newest, socket.wire) /\ StrayOK(b, calm, view, newest, stray)
      /\ ViewOK(b, calm, view, newest, stray) /\ NewestOK(b, calm, newest)
      /\ newest \in ConditionSnapshot \cup {NoSnapshot} /\ EventsOK(b, events, history)
  BY DEF AlertInv
<1>3. /\ m \in Message
      /\ m.ty = "event" => m.is \in b.log /\ WireOK(b, calm, newest, Tail(socket.wire))
      /\ m.ty # "event" => /\ Ours(b, calm, m.is)
                           /\ newest # NoSnapshot => NotAfter(newest, m.is)
                           /\ WireOK(b, calm, m.is, Tail(socket.wire))
  BY <1>1, <1>2, RestOfWire
<1>4. socket'.wire = Tail(socket.wire) /\ view.connection > 0 /\ Tail(socket.wire) \in Seq(Message)
      /\ socket' \in [st : {"connecting", "open", "closed"}, wire : Seq(Message)]
  <2>1. Tail(socket.wire) \in Seq(Message) /\ view.connection > 0
    BY <1>1, ViewNow
  <2>2. socket' = [st |-> socket.st, wire |-> Tail(socket.wire)]
    BY <1>1, ViewNow
  <2>3. QED
    BY <2>1, <2>2, ViewNow
<1>5. CASE m.ty = "event"
  <2>1. events' = events \cup {m.is} /\ UNCHANGED <<view, newest, stray>>
    BY <1>5 DEF Delivers
  <2> HIDE DEF b, m
  <2>2. EventsOK(b, events', history)
    BY <1>2, <1>3, <1>5, <2>1 DEF EventsOK
  <2>3. CalmOK(b, calm, view, socket')
    BY <1>4, StationNow DEF CalmOK, b
  <2>4. QED
    BY <1>1, <1>2, <1>3, <1>4, <1>5, <2>1, <2>2, <2>3 DEF AlertInv, b
<1>6. CASE m.ty # "event"
  <2>1. /\ view' = Ingested(view, view.connection, m.is) /\ newest' = m.is
        /\ stray' \in {stray} \cup Copies /\ UNCHANGED events
    BY <1>6 DEF Delivers
  <2>2. stray' \in {stray, [connection |-> view.connection, is |-> m.is]}
    BY <2>1, CopiesAre
  <2> HIDE DEF b, m
  <2>3. m.is \in ConditionSnapshot /\ Ours(b, calm, m.is) /\ Past(b, m.is)
    BY <1>3, <1>6 DEF Ours, Past
  <2>4. view \in View /\ view' = IF view.connected THEN TakesSnapshot(view, m.is) ELSE view
    BY <2>1, ViewNow DEF Ingested
  <2>5. view' \in View /\ view'.connection = view.connection
    BY <2>3, <2>4, TakesWhat
  <2>6. ViewOK(b, calm, view', m.is, stray')
    <3>1. CASE view.connected
      <4>1. view' = TakesSnapshot(view, m.is)
        BY <2>4, <3>1
      <4>2. newest # NoSnapshot => NotAfter(newest, m.is)
        BY <1>3, <1>6
      <4>3. QED
        BY <1>2, <2>2, <2>3, <3>1, <4>1, <4>2, ViewTakesNext
    <3>2. CASE ~view.connected
      BY <1>2, <2>4, <3>2 DEF ViewOK
    <3>3. QED
      BY <3>1, <3>2
  <2>7. StrayOK(b, calm, view', m.is, stray')
    <3>1. m.is # NoSnapshot /\ NotAfter(m.is, m.is)
      BY <2>3, SnapshotIs
    <3>2. CASE stray' = [connection |-> view.connection, is |-> m.is]
      <4>1. stray'.is = m.is /\ stray'.connection = view.connection
        BY <3>2
      <4>2. view.connection \in 1..MaxConnection
        BY <1>4, ViewNow
      <4>3. stray' \in Stray /\ view.connection <= view.connection
        BY <2>3, <3>2, <4>2 DEF Stray
      <4>4. QED
        BY <2>3, <2>5, <3>1, <4>1, <4>3 DEF StrayOK
    <3>3. ASSUME stray' = stray, stray # NoStray, stray.connection = view.connection
          PROVE  NotAfter(stray.is, m.is)
      <4>1. newest # NoSnapshot /\ NotAfter(stray.is, newest) /\ stray.is \in ConditionSnapshot
        BY <1>2, <3>3 DEF StrayOK, Past
      <4>2. NotAfter(newest, m.is)
        BY <1>3, <1>6, <4>1
      <4>3. newest \in ConditionSnapshot
        BY <1>2, <4>1
      <4>4. QED
        BY <2>3, <4>1, <4>2, <4>3, SnapshotIs, NotAfterTransitive
    <3>4. CASE stray' = stray
      BY <1>2, <2>5, <3>1, <3>3, <3>4 DEF StrayOK
    <3>5. QED
      BY <2>2, <3>2, <3>4
  <2>8. CalmOK(b, calm, view', socket')
    BY <1>4, <2>5, StationNow DEF CalmOK, b
  <2>9. QED
    BY <1>1, <1>2, <1>3, <1>4, <1>6, <2>1, <2>3, <2>6, <2>7, <2>8 DEF AlertInv, NewestOK, b
<1>7. QED
  BY <1>5, <1>6

LEMMA ArrivesKeeps ==
  ASSUME AlertInv, Arrives
  PROVE  AlertInv'
<1> DEFINE b == alertStation
           y == stray
<1>1. /\ y # NoStray /\ view' = Ingested(view, y.connection, y.is)
      /\ UNCHANGED <<alertStation, socket, stray, events, history, newest, calm>>
  BY DEF Arrives
<1> HIDE DEF b, y
<1>2. /\ StrayOK(b, calm, view, newest, y) /\ ViewOK(b, calm, view, newest, y)
      /\ newest \in ConditionSnapshot \cup {NoSnapshot} /\ CalmOK(b, calm, view, socket)
  BY DEF AlertInv, b, y
<1>3. CASE view.connected /\ y.connection = view.connection
  <2>1. view' = TakesSnapshot(view, y.is)
    BY <1>1, <1>3 DEF Ingested
  <2>2. ViewOK(b, calm, view', newest, y)
    BY <1>1, <1>2, <1>3, <2>1, ViewTakesCopy
  <2>3. view'.connection = view.connection
    <3>1. y.is \in ConditionSnapshot
      BY <1>1, <1>2 DEF StrayOK, Past
    <3>2. QED
      BY <2>1, <3>1, TakesWhat, ViewNow
  <2>4. StrayOK(b, calm, view', newest, y) /\ CalmOK(b, calm, view', socket)
    BY <1>2, <2>3 DEF StrayOK, CalmOK
  <2>5. QED
    BY <1>1, <2>2, <2>4 DEF AlertInv, b, y
<1>4. CASE ~(view.connected /\ y.connection = view.connection)
  <2>1. view' = view
    BY <1>1, <1>4 DEF Ingested
  <2>2. QED
    BY <1>1, <2>1 DEF AlertInv
<1>5. QED
  BY <1>3, <1>4

\* The lists of events and the alert history.
LEMMA EventStep ==
  ASSUME AlertInv, UNCHANGED <<alertStation, view, socket, stray, newest, calm>>,
         EventsOK(alertStation, events', history')
  PROVE  AlertInv'
BY DEF AlertInv

LEMMA HistoryKeeps ==
  ASSUME AlertInv, Asks \/ HistoryServed \/ HistoryShown \/ HistoryFails \/ ClearsEvents
  PROVE  AlertInv'
<1>1. EventsOK(alertStation, events, history)
  BY DEF AlertInv
<1>2. CASE Asks
  <2>1. history'.st = "asked"
    BY <1>2 DEF Asks
  <2>2. QED
    BY <1>1, <1>2, <2>1, EventStep DEF Asks, EventsOK
<1>3. CASE HistoryServed
  <2>1. history'.st = "served" /\ history'.is = alertStation.log
    BY <1>3 DEF HistoryServed
  <2>2. QED
    BY <1>1, <1>3, <2>1, EventStep DEF HistoryServed, EventsOK
<1>4. CASE HistoryShown
  <2>1. events' \subseteq alertStation.log /\ history'.st = "none"
    BY <1>1, <1>4 DEF HistoryShown, EventsOK, Unrequested
  <2>2. QED
    BY <1>4, <2>1, EventStep DEF HistoryShown, EventsOK
<1>5. CASE HistoryFails
  <2>1. history'.st = "none"
    BY <1>5 DEF HistoryFails, Unrequested
  <2>2. QED
    BY <1>1, <1>5, <2>1, EventStep DEF HistoryFails, EventsOK
<1>6. CASE ClearsEvents
  BY <1>1, <1>6, EventStep DEF ClearsEvents, EventsOK
<1>7. QED
  BY <1>2, <1>3, <1>4, <1>5, <1>6

-----------------------------------------------------------------------------
(* The theorems *)

LEMMA AlertStart ==
  ASSUME AlertInit
  PROVE  AlertInv
<1> DEFINE re == [o \in Occurrences |-> "none"]
<1>1. PICK complete \in BOOLEAN :
         alertStation = [now |-> [authority |-> 1, revision |-> 1, complete |-> complete,
                                  evaluated |-> Occurrences, record |-> re],
                         raised |-> {}, over |-> {}, log |-> {}]
  BY DEF AlertInit
<1>2. re \in [Occurrences -> Records] /\ \A o \in Occurrences : re[o] = "none"
  BY DEF Records
<1> HIDE DEF re
<1>3. 1 \in Authorities /\ 1 \in Revisions
  BY AlertAssumption DEF Authorities, Revisions
<1>4. alertStation.now \in ConditionSnapshot
  BY <1>1, <1>2, <1>3 DEF ConditionSnapshot
<1>5. alertStation \in AlertStation
  BY <1>1, <1>4 DEF AlertStation
<1>6. StationOK(alertStation)
  BY <1>1, <1>2, <1>5 DEF StationOK, Explains
<1>7. /\ view = [connection |-> 0, connected |-> FALSE, shown |-> NoSnapshot, retired |-> {},
                 invalid |-> FALSE]
      /\ socket = [st |-> "closed", wire |-> <<>>] /\ stray = NoStray /\ newest = NoSnapshot
      /\ events = {} /\ history = Unrequested /\ calm = FALSE
  BY DEF AlertInit
<1>8. view \in View
  BY <1>7, AlertAssumption DEF View
<1>9. ViewOK(alertStation, calm, view, newest, stray)
  BY <1>7, <1>8 DEF ViewOK
<1>10. CalmOK(alertStation, calm, view, socket)
  <2>1. ~ (view.connection > 0) /\ view.connection = 0
    BY <1>7
  <2>2. <<>> \in Seq(Message)
    OBVIOUS
  <2>3. socket.st = "closed" /\ socket.wire = <<>>
    BY <1>7
  <2>4. socket \in [st : {"connecting", "open", "closed"}, wire : Seq(Message)]
    BY <1>7, <2>2
  <2>5. calm \in BOOLEAN
    BY <1>7
  <2>6. QED
    BY <2>1, <2>3, <2>4, <2>5 DEF CalmOK
<1>11. EventsOK(alertStation, events, history)
  BY <1>7 DEF EventsOK, Unrequested
<1>12. QED
  BY <1>6, <1>7, <1>9, <1>10, <1>11, EmptyWire DEF AlertInv, NewestOK, StrayOK

LEMMA AlertStep ==
  ASSUME AlertInv, [AlertNext]_alertVars
  PROVE  AlertInv'
<1>1. CASE UNCHANGED alertVars
  <2>1. UNCHANGED <<alertStation, view, socket, stray, events, history, newest, calm>>
    BY <1>1 DEF alertVars
  <2>2. QED
    BY <2>1 DEF AlertInv
<1>2. ASSUME NEW o \in Occurrences, Raises(o) \/ Drops(o) \/ \E r \in Records : Turns(o, r)
      PROVE  AlertInv'
  BY <1>2, RaisesKeeps, DropsKeeps, TurnsKeeps
<1>3. ASSUME NEW journal \in BOOLEAN, Starts(journal)
      PROVE  AlertInv'
  BY <1>3, StartsKeeps
<1>4. CASE Completes \/ Publishes \/ SessionBegins \/ SocketOpens \/ ConnectFails
  BY <1>4, CompletesKeeps, PublishesKeeps, SessionBeginsKeeps, SocketOpensKeeps, ConnectFailsKeeps
<1>5. CASE SocketCloses \/ SessionRetires \/ Delivers \/ Arrives \/ Garbles
  BY <1>5, SocketClosesKeeps, SessionRetiresKeeps, DeliversKeeps, ArrivesKeeps, GarblesKeeps
<1>6. CASE Asks \/ HistoryServed \/ HistoryShown \/ HistoryFails \/ ClearsEvents
  BY <1>6, HistoryKeeps
<1>7. QED
  BY <1>1, <1>2, <1>3, <1>4, <1>5, <1>6 DEF AlertNext

\* In every state the station, what is on the way and what the view shows are in
\* the order in which the station said it.
THEOREM AlertInvariance == AlertSpec => []AlertInv
BY AlertStart, AlertStep, PTL DEF AlertSpec

\* Every variable keeps its type, and what is shown is of no replaced authority.
THEOREM AlertTypes == AlertSpec => []AlertTypeOK
<1>1. AlertInv => AlertTypeOK
  <2>1. ASSUME AlertInv
        PROVE  AlertTypeOK
    <3>1. alertStation \in AlertStation /\ socket.wire \in Seq(Message) /\ calm \in BOOLEAN
          /\ socket.st \in {"connecting", "open", "closed"}
      BY <2>1, StationNow, ViewNow
    <3>2. view \in View /\ (view.shown # NoSnapshot => view.shown.authority \notin view.retired)
      BY <2>1 DEF AlertInv, ViewOK
    <3>3. newest \in ConditionSnapshot \cup {NoSnapshot} /\ (stray # NoStray => stray \in Stray)
      BY <2>1 DEF AlertInv, StrayOK
    <3>4. /\ events \subseteq Link /\ history.st \in {"none", "asked", "served"}
          /\ history.st = "served" => history.is \subseteq Link
      BY <2>1, <3>1 DEF AlertInv, EventsOK, AlertStation
    <3>5. QED
      BY <3>1, <3>2, <3>3, <3>4 DEF AlertTypeOK, View, Stray, AlertStation
  <2>2. QED
    BY <2>1
<1>2. QED
  BY <1>1, AlertInvariance, PTL

\* "Nominal" is said only where the station had nothing to report at some time of
\* this connection, and by nothing older than the newest snapshot that came on it,
\* unless that is of an authority there was no room to accept.
THEOREM NominalIsDeserved == AlertSpec => []NominalIsHonest
<1>1. AlertInv => NominalIsHonest
  <2>1. ASSUME AlertInv, Nominal
        PROVE  /\ calm
               /\ \/ ~OlderThan(view.shown, newest)
                  \/ /\ Cardinality(view.retired) >= MaxRetired
                     /\ newest.authority # view.shown.authority
    <3>1. /\ view.shown # NoSnapshot /\ view.connected /\ view.shown.complete /\ ~Pressing(view.shown)
      BY <2>1 DEF Nominal, SnapshotCurrent
    <3>2. /\ Ours(alertStation, calm, view.shown) /\ Follows(view, newest, stray)
          /\ view.shown.authority \notin view.retired
          /\ newest \in ConditionSnapshot \cup {NoSnapshot} /\ view.shown \in ConditionSnapshot
      BY <2>1, <3>1 DEF AlertInv, ViewOK, Ours, Past
    <3>3. calm
      BY <3>1, <3>2 DEF Ours, Calm
    <3>4. newest \in ConditionSnapshot /\ Met(view, newest) /\ NotAfter(view.shown, newest)
          /\ (\A a \in view.retired : a < view.shown.authority)
          /\ (newest.authority = view.shown.authority => newest.revision <= view.shown.revision)
      BY <3>1, <3>2 DEF Follows
    <3>5. /\ newest.authority \in Nat /\ newest.revision \in Nat
          /\ view.shown.authority \in Nat /\ view.shown.revision \in Nat
      BY <3>2, <3>4, SnapshotIs
    <3>6. CASE newest.authority = view.shown.authority
      BY <3>3, <3>4, <3>5, <3>6 DEF OlderThan
    <3>7. CASE newest.authority # view.shown.authority
      <4>1. newest.authority \notin view.retired
        BY <3>4, <3>5 DEF NotAfter
      <4>2. Full(view)
        BY <3>4, <3>7, <4>1 DEF Met
      <4>3. QED
        BY <3>3, <3>7, <4>2 DEF Full
    <3>8. QED
      BY <3>6, <3>7
  <2>2. QED
    BY <2>1 DEF NominalIsHonest
<1>2. QED
  BY <1>1, AlertInvariance, PTL

\* An event that asks for no attention reports a condition that is listed or over:
\* none that the station stopped evaluating, lost in a restart, or has raised since
\* the snapshot.
THEOREM QuietEventsAreOver == AlertSpec => []QuietEventIsOver
<1>1. AlertInv => QuietEventIsOver
  <2>1. ASSUME AlertInv, NEW e \in events, ~Attention(view, e), ~Represented(view, e)
        PROVE  e.occurrence \in alertStation.over
    <3>1. KnownOver(view, e)
      BY <2>1 DEF Attention
    <3>2. /\ view.shown # NoSnapshot /\ view.shown.authority = e.authority
          /\ view.shown.revision >= e.revision /\ e.occurrence \in view.shown.evaluated
          /\ view.shown.record[e.occurrence] = "none"
      BY <2>1, <3>1 DEF KnownOver, SnapshotCurrent, Represented
    <3>3. e \in alertStation.log /\ alertStation.log \subseteq Link
      BY <2>1, StationNow DEF AlertInv, EventsOK
    <3>4. Explains(alertStation, view.shown) /\ view.shown \in ConditionSnapshot
      BY <2>1, <3>2 DEF AlertInv, ViewOK, Ours, Past
    <3>5. e.revision <= view.shown.revision
      BY <3>2, <3>3, <3>4, LinkIs, SnapshotIs
    <3>6. QED
      BY <3>2, <3>3, <3>4, <3>5 DEF Explains
  <2>2. QED
    BY <2>1 DEF QuietEventIsOver
<1>2. QED
  BY <1>1, AlertInvariance, PTL

=============================================================================
