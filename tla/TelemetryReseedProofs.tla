------------------------ MODULE TelemetryReseedProofs ------------------------
(***************************************************************************)
(* TelemetryReseed keeps its types and never shows a row of a station that *)
(* is not selected, for every value of the constants.                      *)
(*                                                                         *)
(* The first half is about TelemetryDisplay: what the operations on a      *)
(* display preserve, whatever rows it holds.  Held(R) is the set of        *)
(* displays whose rows, wherever they are kept, are all in R; with R = Row *)
(* it is the type of a display, with the rows of one station it says that  *)
(* nothing of another station is shown.  Received, Kept and Less say what  *)
(* a display knows of the rows received, for TelemetryHistoryProofs.       *)
(*                                                                         *)
(* The difficulty of the second half is a history request that outlives a  *)
(* change of station: it may be sent to one station on behalf of the owner *)
(* of another.  The invariant SeedOwned says why its answer is never used: *)
(* a station is only ever left together with a login, logins are numbered  *)
(* upwards, and as long as the login of the request's owner is the present *)
(* one so is its station, and the rows fetched are rows of that station.   *)
(* (Its last part keeps the number of attempts within bounds.)             *)
(***************************************************************************)
EXTENDS TelemetryReseed, FiniteSetTheorems, TLAPS

Fields(R) ==
  [queue : Seq(R), buffer : Seq(R), dropped : Nat,
   store : SUBSET R, live : SUBSET R,
   cacheBase : Stations, cache : SUBSET R,
   got : SUBSET R, trimmed : SUBSET Row, omitted : SUBSET Row]

Held(R) ==
  {d \in Fields(R) : Len(d.queue) =< QueueCap /\ Len(d.buffer) =< BufferCap}

-----------------------------------------------------------------------------
(* Sequences *)

\* The elements of a sequence over R are in R (the queue, the buffer).
LEMMA RangeOfSeq ==
  ASSUME NEW R, NEW q \in Seq(R)
  PROVE  Range(q) \in SUBSET R
BY DEF Range

\* What the queue or the buffer becomes when a row joins it: the oldest row
\* leaves once the capacity is reached.
LEMMA PushBounded ==
  ASSUME NEW R, NEW q \in Seq(R), NEW r \in R, NEW cap \in Nat \ {0},
         Len(q) =< cap
  PROVE  LET p == Append(IF Len(q) >= cap THEN Tail(q) ELSE q, r)
         IN  /\ p \in Seq(R)
             /\ Len(p) =< cap
             /\ Len(q) >= cap => Head(q) \in R
<1>1. CASE Len(q) >= cap
  <2>1. q # <<>> /\ Tail(q) \in Seq(R) /\ Head(q) \in R
    BY <1>1
  <2>2. Len(Tail(q)) = Len(q) - 1
    BY <2>1
  <2>3. QED
    BY <1>1, <2>1, <2>2
<1>2. CASE ~(Len(q) >= cap)
  BY <1>2
<1>3. QED
  BY <1>1, <1>2

-----------------------------------------------------------------------------
(* The queue and the buffer *)

\* A row of R joins the queue (enqueue of handle_ws_message).
LEMMA EnqueueHeld ==
  ASSUME NEW R \in SUBSET Row, NEW d \in Held(R), NEW r \in R
  PROVE  Enqueue(d, r) \in Held(R)
<1>1. d \in Fields(R) /\ Len(d.queue) =< QueueCap /\ Len(d.buffer) =< BufferCap
  BY DEF Held
<1>2. QueueCap \in Nat \ {0}
  BY DisplayAssumption
<1>3. d.queue \in Seq(R)
  BY <1>1 DEF Fields
<1> DEFINE full == Len(d.queue) >= QueueCap
           p == Append(IF full THEN Tail(d.queue) ELSE d.queue, r)
           out == IF full THEN d.trimmed \cup {Head(d.queue)} ELSE d.trimmed
<1>4. /\ p \in Seq(R) /\ Len(p) =< QueueCap
      /\ full => Head(d.queue) \in R
  BY <1>1, <1>2, <1>3, PushBounded
<1>5. out \in SUBSET Row
  BY <1>1, <1>4 DEF Fields
<1>6. Enqueue(d, r) = [d EXCEPT !.queue = p, !.got = d.got \cup {r}, !.trimmed = out]
  BY DEF Enqueue
<1>7. d.got \cup {r} \in SUBSET R
  BY <1>1 DEF Fields
<1> HIDE DEF full, p, out
<1>8. QED
  BY <1>1, <1>4, <1>5, <1>6, <1>7 DEF Fields, Held

\* A row of R joins the reseed buffer (ReseedLiveBuffer::push).
LEMMA PushBufferHeld ==
  ASSUME NEW R \in SUBSET Row, NEW d \in Held(R), NEW r \in R
  PROVE  PushBuffer(d, r) \in Held(R)
<1>1. d \in Fields(R) /\ Len(d.queue) =< QueueCap /\ Len(d.buffer) =< BufferCap
  BY DEF Held
<1>2. BufferCap \in Nat \ {0}
  BY DisplayAssumption
<1>3. d.buffer \in Seq(R)
  BY <1>1 DEF Fields
<1> DEFINE full == Len(d.buffer) >= BufferCap
           p == Append(IF full THEN Tail(d.buffer) ELSE d.buffer, r)
           drops == IF full THEN d.dropped + 1 ELSE d.dropped
           out == IF full THEN d.omitted \cup {Head(d.buffer)} ELSE d.omitted
<1>4. /\ p \in Seq(R) /\ Len(p) =< BufferCap
      /\ full => Head(d.buffer) \in R
  BY <1>1, <1>2, <1>3, PushBounded
<1>5. out \in SUBSET Row
  BY <1>1, <1>4 DEF Fields
<1>6. drops \in Nat
  BY <1>1 DEF Fields
<1>7. PushBuffer(d, r) = [d EXCEPT !.buffer = p, !.dropped = drops, !.omitted = out]
  BY DEF PushBuffer
<1> HIDE DEF full, p, drops, out
<1>8. QED
  BY <1>1, <1>4, <1>5, <1>6, <1>7 DEF Fields, Held

\* Emptying the buffer or the queue adds no row.
LEMMA ResetBufferHeld ==
  ASSUME NEW R \in SUBSET Row, NEW d \in Held(R)
  PROVE  ResetBuffer(d) \in Held(R)
<1> DEFINE none == <<>>
           e == [d EXCEPT !.buffer = none]
<1>1. none \in Seq(R) /\ Len(none) =< BufferCap
  BY DisplayAssumption
<1>2. ResetBuffer(d) = [e EXCEPT !.dropped = 0]
  BY DEF ResetBuffer
<1> HIDE DEF none
<1>3. e \in Held(R)
  BY <1>1 DEF Held, Fields
<1> HIDE DEF e
<1>4. 0 \in Nat
  OBVIOUS
<1>5. QED
  BY <1>2, <1>3, <1>4 DEF Held, Fields

LEMMA ClearQueueHeld ==
  ASSUME NEW R \in SUBSET Row, NEW d \in Held(R)
  PROVE  ClearQueue(d) \in Held(R)
<1> DEFINE none == <<>>
<1>1. none \in Seq(R) /\ Len(none) =< QueueCap
  BY DisplayAssumption
<1>2. ClearQueue(d) = [d EXCEPT !.queue = none, !.got = d.got \ Range(d.queue)]
  BY DEF ClearQueue
<1> HIDE DEF none
<1>3. QED
  BY <1>1, <1>2 DEF Held, Fields

\* The end of a queue is a queue of rows of R, no longer than the whole: what
\* the clock reset keeps and what a drain leaves.
LEMMA SuffixHeld ==
  ASSUME NEW R, NEW q \in Seq(R), NEW k \in 0..Len(q)
  PROVE  /\ SubSeq(q, k + 1, Len(q)) \in Seq(R)
         /\ Len(SubSeq(q, k + 1, Len(q))) =< Len(q)
OBVIOUS

LEMMA KeepSinceHeld ==
  ASSUME NEW R \in SUBSET Row, NEW d \in Held(R), NEW s \in Nat
  PROVE  KeepSince(d, s) \in Held(R)
<1>1. d \in Fields(R) /\ Len(d.queue) =< QueueCap /\ Len(d.buffer) =< BufferCap
  BY DEF Held
<1>2. d.queue \in Seq(R) /\ Len(d.queue) \in Nat
  BY <1>1 DEF Fields
<1> DEFINE I    == {i \in DOMAIN d.queue : d.queue[i].n < s}
           kept == SubSeq(d.queue, Cardinality(I) + 1, Len(d.queue))
<1>3. Cardinality(I) \in 0..Len(d.queue)
  <2>1. I \in SUBSET (1..Len(d.queue))
    BY <1>2
  <2>2. IsFiniteSet(1..Len(d.queue)) /\ Cardinality(1..Len(d.queue)) = Len(d.queue)
    BY <1>2, FS_Interval
  <2>3. IsFiniteSet(I) /\ Cardinality(I) =< Len(d.queue)
    BY <2>1, <2>2, FS_Subset
  <2>4. QED
    BY <1>2, <2>3, FS_CardinalityType
<1>4. kept \in Seq(R) /\ Len(kept) =< Len(d.queue)
  BY <1>2, <1>3, SuffixHeld
<1>5. KeepSince(d, s) = [d EXCEPT !.queue = kept,
                           !.got = d.got \ (Range(d.queue) \ Range(kept))]
  BY DEF KeepSince
<1>6. Len(kept) =< QueueCap
  BY <1>1, <1>2, <1>4, DisplayAssumption
<1> HIDE DEF I, kept
<1>7. QED
  BY <1>1, <1>4, <1>5, <1>6 DEF Fields, Held

-----------------------------------------------------------------------------
(* The store *)

LEMMA MergeHeld ==
  ASSUME NEW R, NEW A \in SUBSET R, NEW B \in SUBSET R
  PROVE  Merge(A, B) \in SUBSET R
BY DEF Merge, Compact

LEMMA ApplyLiveHeld ==
  ASSUME NEW R \in SUBSET Row, NEW d \in Held(R), NEW q \in Seq(R)
  PROVE  ApplyLive(d, q) \in Held(R)
<1>1. LastPerBucket(q) \in SUBSET R
  BY DEF LastPerBucket
<1> DEFINE last      == LastPerBucket(q)
           Beside(S) == {r \in S : \A p \in last : Bucket(p) # Bucket(r)}
<1>2. ApplyLive(d, q) = [d EXCEPT !.store = Beside(d.store) \cup last,
                                  !.live  = Beside(d.live) \cup last]
  BY DEF ApplyLive
<1>3. d.store \in SUBSET R /\ d.live \in SUBSET R
  BY DEF Held, Fields
<1>4. /\ Beside(d.store) \cup last \in SUBSET R
      /\ Beside(d.live) \cup last \in SUBSET R
  BY <1>1, <1>3
<1> HIDE DEF last, Beside
<1>5. QED
  BY <1>2, <1>4 DEF Held, Fields

LEMMA DrainHeld ==
  ASSUME NEW R \in SUBSET Row, NEW d \in Held(R), NEW k \in 0..Len(d.queue)
  PROVE  Drain(d, k) \in Held(R)
<1>1. d.queue \in Seq(R) /\ Len(d.queue) =< QueueCap
  BY DEF Held, Fields
<1> DEFINE e == [d EXCEPT !.queue = SubSeq(d.queue, k + 1, Len(d.queue))]
<1>2. /\ SubSeq(d.queue, k + 1, Len(d.queue)) \in Seq(R)
      /\ Len(SubSeq(d.queue, k + 1, Len(d.queue))) =< QueueCap
  BY <1>1, SuffixHeld, DisplayAssumption
<1>3. e \in Held(R)
  BY <1>2 DEF Held, Fields
<1>4. SubSeq(d.queue, 1, k) \in Seq(R)
  BY <1>1
<1>5. Drain(d, k) = ApplyLive(e, SubSeq(d.queue, 1, k))
  BY DEF Drain
<1> HIDE DEF e
<1>6. QED
  BY <1>3, <1>4, <1>5, ApplyLiveHeld

LEMMA ReplaceFromReseedHeld ==
  ASSUME NEW R \in SUBSET Row, NEW d \in Held(R), NEW rows \in SUBSET R
  PROVE  ReplaceFromReseed(d, rows) \in Held(R)
BY DEF ReplaceFromReseed, Held, Fields

LEMMA PersistHeld ==
  ASSUME NEW R \in SUBSET Row, NEW d \in Held(R), NEW base \in Stations,
         NEW rows \in SUBSET R
  PROVE  Persist(d, base, rows) \in Held(R)
BY DEF Persist, Held, Fields

LEMMA RestoreCacheHeld ==
  ASSUME NEW R \in SUBSET Row, NEW d \in Held(R), NEW base, NEW cut
  PROVE  RestoreCache(d, base, cut) \in Held(R)
<1> DEFINE rows == {r \in d.cache : cut = 0 \/ r.n > cut}
<1>1. Compact(rows) \in SUBSET R
  BY DEF Compact, Held, Fields
<1>2. \/ RestoreCache(d, base, cut) = d
      \/ RestoreCache(d, base, cut) = [d EXCEPT !.cache = {}]
      \/ RestoreCache(d, base, cut) = [d EXCEPT !.store = Compact(rows), !.live = {}]
  BY DEF RestoreCache
<1> HIDE DEF rows
<1>3. QED
  BY <1>1, <1>2 DEF Held, Fields

-----------------------------------------------------------------------------
(* Clearing *)

LEMMA ClearVisibleHeld ==
  ASSUME NEW R \in SUBSET Row, NEW d \in Held(R)
  PROVE  ClearVisible(d) \in Held(R)
<1> DEFINE e == ResetBuffer(d)
<1>1. e \in Held(R)
  BY ResetBufferHeld
<1>2. ClearVisible(d) = [e EXCEPT !.store = {}, !.live = {}, !.cache = {},
                                  !.got = e.got \cap Range(d.queue)]
  BY DEF ClearVisible
<1> HIDE DEF e
<1>3. QED
  BY <1>1, <1>2 DEF Held, Fields

\* Once everything is cleared nothing is left of the rows held before, so the
\* display can be handed to another owner.
LEMMA ClearAllHeld ==
  ASSUME NEW R \in SUBSET Row, NEW d \in Held(Row)
  PROVE  ClearAll(d) \in Held(R)
<1> DEFINE none == <<>>
<1>1. /\ none \in Seq(R)
      /\ Len(none) =< QueueCap /\ Len(none) =< BufferCap
  BY DisplayAssumption
<1>2. ClearAll(d) \in Held(Row)
  BY ClearVisibleHeld, ClearQueueHeld DEF ClearAll
<1>3. /\ ClearAll(d).queue = none /\ ClearAll(d).buffer = none
      /\ ClearAll(d).store = {} /\ ClearAll(d).live = {} /\ ClearAll(d).cache = {}
      /\ ClearAll(d).got = {}
  <2>1. Range(none) = {}
    BY DEF Range
  <2>2. QED
    BY <2>1 DEF ClearAll, ClearVisible, ClearQueue, ResetBuffer, Held, Fields
<1> DEFINE e == ClearAll(d)
<1> HIDE DEF none, e
<1>4. QED
  BY <1>1, <1>2, <1>3 DEF Held, Fields

\* More rows allowed, more displays.
LEMMA HeldMonotonic ==
  ASSUME NEW S, NEW R \in SUBSET S
  PROVE  Held(R) \subseteq Held(S)
<1>1. Seq(R) \subseteq Seq(S)
  OBVIOUS
<1>2. QED
  BY <1>1 DEF Held, Fields

LEMMA FreshDisplayHeld ==
  ASSUME NEW R \in SUBSET Row, NEW b \in Stations, NEW c \in SUBSET R
  PROVE  FreshDisplay(b, c) \in Held(R)
<1>1. /\ <<>> \in Seq(R) /\ Len(<<>>) = 0
      /\ BufferCap \in Nat /\ QueueCap \in Nat
  BY DisplayAssumption
<1>2. QED
  BY <1>1 DEF FreshDisplay, Held, Fields

-----------------------------------------------------------------------------
(* Compaction keeps the newest row of every bucket *)

\* A set of numbers with a bound has a greatest one.  (The library's induction
\* theorems cannot be instantiated, so this goes through the well-foundedness of
\* strict inclusion on finite sets.)
LEMMA MaxOfBounded ==
  ASSUME NEW T \in SUBSET Nat, T # {}, NEW m \in Nat, \A t \in T : t =< m
  PROVE  \E x \in T : \A y \in T : y =< x
<1> DEFINE Above(x) == {y \in T : y > x}
           F == {Above(x) : x \in T}
<1>1. IsFiniteSet(T)
  BY FS_BoundedSetOfNaturals
<1>2. \A x \in T : Above(x) \in SUBSET T /\ IsFiniteSet(Above(x))
  <2>1. \A x \in T : Above(x) \in SUBSET T
    OBVIOUS
  <2> HIDE DEF Above
  <2>2. QED
    BY <1>1, <2>1, FS_Subset
<1>3. F \subseteq FiniteSubsetsOf(T) /\ F # {}
  BY <1>2 DEF FiniteSubsetsOf
<1>4. IsWellFoundedOn(StrictSubsetOrdering(T), FiniteSubsetsOf(T))
  BY FS_StrictSubsetOrderingWellFounded
<1>5. PICK A \in F : \A B \in F : ~ (<<B, A>> \in StrictSubsetOrdering(T))
  <2> HIDE DEF F
  <2>1. QED
    BY <1>3, <1>4, WFMin
<1>6. PICK x \in T : A = Above(x)
  OBVIOUS
<1>7. Above(x) = {}
  <2> SUFFICES ASSUME NEW y \in T, y > x
               PROVE  FALSE
    OBVIOUS
  <2>1. \A z \in Above(y) : z \in Above(x)
    <3> SUFFICES ASSUME NEW z \in T, z > y
                 PROVE  z > x
      OBVIOUS
    <3>1. x \in Nat /\ y \in Nat /\ z \in Nat
      OBVIOUS
    <3>2. QED
      BY <3>1
  <2>2. y \in Above(x) /\ y \notin Above(y)
    OBVIOUS
  <2>3. Above(y) \in F /\ Above(x) \in SUBSET T /\ Above(y) \in SUBSET T
    OBVIOUS
  <2> HIDE DEF Above
  <2>4. <<Above(y), Above(x)>> \in StrictSubsetOrdering(T)
    BY <2>1, <2>2, <2>3 DEF StrictSubsetOrdering
  <2>5. QED
    BY <1>5, <1>6, <2>3, <2>4
<1>8. QED
  BY <1>7

\* Compact leaves, for every row, that row or a newer one of its bucket.
LEMMA CompactRepresents ==
  ASSUME NEW S \in SUBSET Row, NEW m \in Nat, \A q \in S : q.n =< m, NEW r \in S
  PROVE  Represented(r, Compact(S))
<1> DEFINE T == {n \in Nat : \E q \in S : Bucket(q) = Bucket(r) /\ q.n = n}
<1>1. r.n \in T /\ \A t \in T : t =< m
  BY DEF Row
<1>2. PICK x \in T : \A y \in T : y =< x
  <2>1. T \in SUBSET Nat /\ T # {}
    BY <1>1
  <2> HIDE DEF T
  <2>2. QED
    BY <1>1, <2>1, MaxOfBounded
<1>3. PICK p \in S : Bucket(p) = Bucket(r) /\ p.n = x
  OBVIOUS
<1>4. \A q \in S : Bucket(q) = Bucket(p) => q.n =< p.n
  BY <1>2, <1>3 DEF Row
<1>5. r.n =< p.n
  BY <1>1, <1>2, <1>3
<1>6. p.n \in Nat /\ r.n \in Nat
  BY DEF Row
<1>7. QED
  BY <1>3, <1>4, <1>5, <1>6 DEF Compact, Represented

\* Being represented carries over from a set to one that represents it.
LEMMA RepresentedBy ==
  ASSUME NEW S \in SUBSET Row, NEW T \in SUBSET Row, NEW r \in Row,
         Represented(r, S), \A q \in S : Represented(q, T)
  PROVE  Represented(r, T)
<1>1. PICK q \in S : Bucket(q) = Bucket(r) /\ q.n >= r.n
  BY DEF Represented
<1>2. PICK p \in T : Bucket(p) = Bucket(q) /\ p.n >= q.n
  BY DEF Represented
<1>3. p.n \in Nat /\ q.n \in Nat /\ r.n \in Nat
  BY DEF Row
<1>4. QED
  BY <1>1, <1>2, <1>3 DEF Represented

\* Merging two sets of rows (merge_telemetry_rows) loses neither.
LEMMA MergeRepresents ==
  ASSUME NEW A \in SUBSET Row, NEW B \in SUBSET Row, NEW m \in Nat,
         \A q \in A \cup B : q.n =< m, NEW r \in Row,
         Represented(r, A) \/ Represented(r, B)
  PROVE  Represented(r, Merge(A, B))
<1>1. A \cup B \in SUBSET Row /\ Merge(A, B) \in SUBSET Row
  BY DEF Merge, Compact
<1>2. \A q \in A \cup B : Represented(q, Merge(A, B))
  BY <1>1, CompactRepresents DEF Merge
<1>3. Represented(r, A \cup B)
  BY DEF Represented
<1>4. QED
  BY <1>1, <1>2, <1>3, RepresentedBy

LEMMA RepresentsItself ==
  ASSUME NEW S \in SUBSET Row, NEW r \in S
  PROVE  Represented(r, S)
<1>1. r.n >= r.n
  BY DEF Row
<1>2. QED
  BY <1>1 DEF Represented

\* Rows applied one after the other leave, for every row, it or a later one.
LEMMA LastOfBucket ==
  ASSUME NEW q \in Seq(Row), NEW i \in DOMAIN q
  PROVE  \E j \in DOMAIN q : /\ j >= i /\ Bucket(q[j]) = Bucket(q[i])
                             /\ q[j] \in LastPerBucket(q)
<1> DEFINE T == {k \in DOMAIN q : k >= i /\ Bucket(q[k]) = Bucket(q[i])}
<1>1. DOMAIN q = 1..Len(q) /\ Len(q) \in Nat /\ i \in T
  OBVIOUS
<1>2. PICK j \in T : \A k \in T : k =< j
  <2>1. T \in SUBSET Nat /\ T # {} /\ \A k \in T : k =< Len(q)
    BY <1>1
  <2> HIDE DEF T
  <2>2. QED
    BY <1>1, <2>1, MaxOfBounded
<1>3. \A k \in DOMAIN q : k > j => Bucket(q[k]) # Bucket(q[j])
  BY <1>1, <1>2
<1>4. QED
  BY <1>2, <1>3 DEF LastPerBucket

-----------------------------------------------------------------------------
(***************************************************************************)
(* What a display knows of the rows received.  Received says how the queue,*)
(* the live marks and the history of the rows received hang together: the  *)
(* queue is in the order of reception and newer than all that left it.     *)
(* Kept(d, X) says that every row received is still queued or represented  *)
(* in the store, those the full queue pushed out and those of X aside.     *)
(***************************************************************************)
Queued(d) == Range(d.queue)

InOrder(q) == \A i, j \in DOMAIN q : i < j => q[i].n < q[j].n

Received(d) ==
  /\ InOrder(d.queue)
  /\ Queued(d) \subseteq d.got
  /\ \A g \in (d.got \ Queued(d)) \cup d.trimmed, q \in Queued(d) : g.n < q.n
  /\ d.live \subseteq d.store
  /\ d.live \subseteq d.got \ Queued(d)

Kept(d, X) ==
  \A g \in d.got \ (d.trimmed \cup X) : g \in Queued(d) \/ Represented(g, d.store)

\* Row r waits in the queue, or its bucket is drawn.
Lodged(d, r) == r \in Queued(d) \/ InBucket(r, d.store)

\* e is what clearing leaves of d: the end of the queue, and the store as it was
\* or nothing of it; what leaves the display unseen is no longer owed.
Less(d, e) ==
  /\ e.trimmed = d.trimmed /\ e.omitted = d.omitted
  /\ InOrder(d.queue) => InOrder(e.queue)
  /\ Queued(e) \subseteq Queued(d)
  /\ Queued(d) \subseteq d.got => Queued(e) \subseteq e.got
  /\ e.got \subseteq d.got
  /\ e.got \cap Queued(d) \subseteq Queued(e)
  /\ \/ e.store = d.store /\ e.live = d.live /\ d.got \ Queued(d) \subseteq e.got
     \/ e.store = {} /\ e.live = {} /\ e.got \subseteq Queued(e)
  /\ Range(e.buffer) \subseteq Range(d.buffer)

\* Nothing is shown, waits to be shown or is owed.
Empty(d) ==
  /\ d.store = {} /\ d.live = {} /\ d.got = {}
  /\ Queued(d) = {} /\ Range(d.buffer) = {}

LEMMA LessReflexive ==
  ASSUME NEW d
  PROVE  Less(d, d)
BY DEF Less

LEMMA LessTransitive ==
  ASSUME NEW d, NEW e, NEW f, Less(d, e), Less(e, f)
  PROVE  Less(d, f)
<1>1. /\ f.trimmed = d.trimmed /\ f.omitted = d.omitted
      /\ InOrder(d.queue) => InOrder(f.queue)
      /\ Queued(f) \subseteq Queued(d)
      /\ f.got \subseteq d.got
      /\ Range(f.buffer) \subseteq Range(d.buffer)
  BY DEF Less
<1>2. Queued(d) \subseteq d.got => Queued(f) \subseteq f.got
  BY DEF Less
<1>3. f.got \cap Queued(d) \subseteq Queued(f)
  BY DEF Less
<1>4. \/ f.store = d.store /\ f.live = d.live /\ d.got \ Queued(d) \subseteq f.got
      \/ f.store = {} /\ f.live = {} /\ f.got \subseteq Queued(f)
  <2>1. CASE f.store = e.store /\ f.live = e.live /\ e.got \ Queued(e) \subseteq f.got
    BY <2>1 DEF Less
  <2>2. CASE f.store = {} /\ f.live = {} /\ f.got \subseteq Queued(f)
    BY <2>2
  <2>3. QED
    BY <2>1, <2>2 DEF Less
<1>5. QED
  BY <1>1, <1>2, <1>3, <1>4 DEF Less

LEMMA LessReceived ==
  ASSUME NEW d, NEW e, Less(d, e), Received(d)
  PROVE  Received(e)
<1>1. Queued(e) \subseteq e.got /\ InOrder(e.queue)
  BY DEF Less, Received
<1>2. \A g \in (e.got \ Queued(e)) \cup e.trimmed, q \in Queued(e) : g.n < q.n
  <2> SUFFICES ASSUME NEW g \in (e.got \ Queued(e)) \cup e.trimmed, NEW q \in Queued(e)
               PROVE  g.n < q.n
    OBVIOUS
  <2>1. g \in (d.got \ Queued(d)) \cup d.trimmed /\ q \in Queued(d)
    BY DEF Less
  <2>2. QED
    BY <2>1 DEF Received
<1>3. e.live \subseteq e.store /\ e.live \subseteq e.got \ Queued(e)
  BY DEF Less, Received
<1>4. QED
  BY <1>1, <1>2, <1>3 DEF Received

LEMMA LessKept ==
  ASSUME NEW d, NEW e, NEW X, Less(d, e), Kept(d, X)
  PROVE  Kept(e, X)
<1> SUFFICES ASSUME NEW g \in e.got \ (e.trimmed \cup X)
             PROVE  g \in Queued(e) \/ Represented(g, e.store)
  BY DEF Kept
<1>1. g \in d.got \ (d.trimmed \cup X)
  BY DEF Less
<1>2. g \in Queued(d) => g \in Queued(e)
  BY DEF Less
<1>3. CASE e.store = d.store
  BY <1>1, <1>2, <1>3 DEF Kept
<1>4. CASE e.got \subseteq Queued(e)
  BY <1>4
<1>5. QED
  BY <1>3, <1>4 DEF Less

\* Emptying the buffer, the queue or the graphs only takes rows away.
LEMMA ResetBufferLess ==
  ASSUME NEW R, NEW d \in Held(R)
  PROVE  Less(d, ResetBuffer(d))
<1> DEFINE e == ResetBuffer(d)
<1>1. /\ e.queue = d.queue /\ e.got = d.got /\ e.store = d.store /\ e.live = d.live
      /\ e.trimmed = d.trimmed /\ e.omitted = d.omitted /\ e.buffer = <<>>
  BY DEF ResetBuffer, Held, Fields
<1>2. Range(e.buffer) = {}
  BY <1>1 DEF Range
<1> HIDE DEF e
<1>3. Less(d, e)
  BY <1>1, <1>2 DEF Less, Queued
<1>4. QED
  BY <1>3 DEF e

LEMMA ClearQueueLess ==
  ASSUME NEW R, NEW d \in Held(R)
  PROVE  Less(d, ClearQueue(d)) /\ Queued(ClearQueue(d)) = {}
<1> DEFINE e == ClearQueue(d)
<1>1. /\ e.queue = <<>> /\ e.got = d.got \ Range(d.queue)
      /\ e.store = d.store /\ e.live = d.live /\ e.buffer = d.buffer
      /\ e.trimmed = d.trimmed /\ e.omitted = d.omitted
  BY DEF ClearQueue, Held, Fields
<1>2. Queued(e) = {} /\ InOrder(e.queue)
  BY <1>1 DEF Queued, Range, InOrder
<1> HIDE DEF e
<1>3. Less(d, e)
  BY <1>1, <1>2 DEF Less, Queued
<1>4. QED
  BY <1>2, <1>3 DEF e

\* The end of a sequence in order is in order, and its elements are elements.
LEMMA SuffixInOrder ==
  ASSUME NEW R \in SUBSET Row, NEW q \in Seq(R), NEW k \in 0..Len(q)
  PROVE  LET p == SubSeq(q, k + 1, Len(q))
         IN  /\ InOrder(q) => InOrder(p)
             /\ Range(p) = {q[i] : i \in (k + 1)..Len(q)}
             /\ Range(p) \subseteq Range(q)
<1> DEFINE p == SubSeq(q, k + 1, Len(q))
<1>1. /\ DOMAIN p = 1..(Len(q) - k) /\ DOMAIN q = 1..Len(q) /\ Len(q) \in Nat
      /\ \A i \in 1..(Len(q) - k) : p[i] = q[k + i]
  OBVIOUS
<1>2. \A i \in 1..(Len(q) - k) : k + i \in (k + 1)..Len(q)
  BY <1>1
<1>3. \A i \in (k + 1)..Len(q) : i - k \in 1..(Len(q) - k) /\ k + (i - k) = i /\ i \in 1..Len(q)
  BY <1>1
<1> HIDE DEF p
<1>4. Range(p) = {q[i] : i \in (k + 1)..Len(q)}
  <2>1. \A x \in Range(p) : \E i \in (k + 1)..Len(q) : x = q[i]
    BY <1>1, <1>2 DEF Range
  <2>2. \A i \in (k + 1)..Len(q) : q[i] = p[i - k] /\ i - k \in DOMAIN p
    BY <1>1, <1>3
  <2>3. \A i \in (k + 1)..Len(q) : q[i] \in Range(p)
    BY <2>2 DEF Range
  <2>4. QED
    BY <2>1, <2>3
<1>5. InOrder(q) => InOrder(p)
  <2> SUFFICES ASSUME InOrder(q), NEW i \in DOMAIN p, NEW j \in DOMAIN p, i < j
               PROVE  p[i].n < p[j].n
    BY DEF InOrder
  <2>1. k + i \in DOMAIN q /\ k + j \in DOMAIN q /\ k + i < k + j
    BY <1>1
  <2>2. q[k + i].n < q[k + j].n
    BY <2>1 DEF InOrder
  <2>3. QED
    BY <1>1, <2>2
<1>6. Range(p) \subseteq Range(q)
  BY <1>1, <1>3, <1>4 DEF Range
<1>7. QED
  BY <1>4, <1>5, <1>6 DEF p

LEMMA KeepSinceLess ==
  ASSUME NEW R \in SUBSET Row, NEW d \in Held(R), NEW s \in Nat
  PROVE  Less(d, KeepSince(d, s))
<1>1. d \in Fields(R) /\ d.queue \in Seq(R) /\ Len(d.queue) \in Nat
  BY DEF Held, Fields
<1> DEFINE I    == {i \in DOMAIN d.queue : d.queue[i].n < s}
           kept == SubSeq(d.queue, Cardinality(I) + 1, Len(d.queue))
           e    == KeepSince(d, s)
<1>2. Cardinality(I) \in 0..Len(d.queue)
  <2>1. I \in SUBSET (1..Len(d.queue))
    BY <1>1
  <2>2. IsFiniteSet(1..Len(d.queue)) /\ Cardinality(1..Len(d.queue)) = Len(d.queue)
    BY <1>1, FS_Interval
  <2>3. IsFiniteSet(I) /\ Cardinality(I) =< Len(d.queue)
    BY <2>1, <2>2, FS_Subset
  <2>4. QED
    BY <1>1, <2>3, FS_CardinalityType
<1>3. /\ InOrder(d.queue) => InOrder(kept)
      /\ Range(kept) \subseteq Range(d.queue)
  BY <1>1, <1>2, SuffixInOrder
<1>4. KeepSince(d, s) = [d EXCEPT !.queue = kept,
                           !.got = d.got \ (Range(d.queue) \ Range(kept))]
  BY DEF KeepSince
<1> HIDE DEF I, kept
<1>5. /\ e.queue = kept /\ e.got = d.got \ (Range(d.queue) \ Range(kept))
      /\ e.store = d.store /\ e.live = d.live /\ e.buffer = d.buffer
      /\ e.trimmed = d.trimmed /\ e.omitted = d.omitted
  BY <1>1, <1>4 DEF Fields
<1> HIDE DEF e
<1>6. Less(d, e)
  BY <1>3, <1>5 DEF Less, Queued
<1>7. QED
  BY <1>6 DEF e

LEMMA ClearVisibleLess ==
  ASSUME NEW R, NEW d \in Held(R)
  PROVE  /\ Less(d, ClearVisible(d))
         /\ ClearVisible(d).store = {} /\ Range(ClearVisible(d).buffer) = {}
<1> DEFINE e == ClearVisible(d)
<1>1. /\ e.queue = d.queue /\ e.got = d.got \cap Range(d.queue)
      /\ e.store = {} /\ e.live = {} /\ e.buffer = <<>>
      /\ e.trimmed = d.trimmed /\ e.omitted = d.omitted
  BY DEF ClearVisible, ResetBuffer, Held, Fields
<1>2. Range(e.buffer) = {}
  BY <1>1 DEF Range
<1> HIDE DEF e
<1>3. Less(d, e)
  BY <1>1, <1>2 DEF Less, Queued
<1>4. QED
  BY <1>1, <1>2, <1>3 DEF e

LEMMA ClearAllLess ==
  ASSUME NEW R \in SUBSET Row, NEW d \in Held(R)
  PROVE  Less(d, ClearAll(d)) /\ Empty(ClearAll(d))
<1> DEFINE c == ClearQueue(d)
           e == ClearVisible(c)
<1>1. c \in Held(R) /\ Less(d, c) /\ Queued(c) = {}
  BY ClearQueueHeld, ClearQueueLess
<1> HIDE DEF c
<1>2. Less(c, e) /\ e.store = {} /\ Range(e.buffer) = {}
  BY <1>1, ClearVisibleLess
<1> HIDE DEF e
<1>3. Queued(e) = {} /\ (e.live = {} /\ e.got = {})
  <2>1. e.queue = c.queue /\ e.live = {} /\ e.got = c.got \cap Range(c.queue)
    BY <1>1 DEF e, ClearVisible, ResetBuffer, Held, Fields
  <2>2. QED
    BY <1>1, <2>1 DEF Queued
<1>4. Less(d, e) /\ Empty(e)
  BY <1>1, <1>2, <1>3, LessTransitive DEF Empty
<1>5. QED
  BY <1>4 DEF ClearAll, c, e

-----------------------------------------------------------------------------
(* Reception and display of rows *)

\* A row newer than all that was received joins the queue.
LEMMA EnqueueReceived ==
  ASSUME NEW R \in SUBSET Row, NEW d \in Held(R), NEW r \in R, Received(d),
         \A g \in d.got \cup d.trimmed : g.n < r.n
  PROVE  LET e == Enqueue(d, r)
         IN  /\ Received(e)
             /\ \A X : Kept(d, X) => Kept(e, X)
             /\ e.got = d.got \cup {r} /\ r \in Queued(e)
             /\ e.trimmed \subseteq d.trimmed \cup d.got
             /\ d.trimmed \subseteq e.trimmed
             /\ Queued(d) \ e.trimmed \subseteq Queued(e)
             /\ Queued(e) \subseteq Queued(d) \cup {r}
             /\ e.store = d.store /\ e.live = d.live /\ e.buffer = d.buffer
             /\ e.omitted = d.omitted /\ e.dropped = d.dropped
<1> DEFINE full == Len(d.queue) >= QueueCap
           base == IF full THEN Tail(d.queue) ELSE d.queue
           p    == Append(base, r)
           out  == IF full THEN d.trimmed \cup {Head(d.queue)} ELSE d.trimmed
           e    == Enqueue(d, r)
<1>1. d \in Fields(R) /\ d.queue \in Seq(R) /\ Len(d.queue) \in Nat
  BY DEF Held, Fields
<1>2. QueueCap \in Nat \ {0}
  BY DisplayAssumption
<1>3. e = [d EXCEPT !.queue = p, !.got = d.got \cup {r}, !.trimmed = out]
  BY DEF Enqueue
<1>4. /\ base \in Seq(R) /\ InOrder(base) /\ Range(base) \subseteq Queued(d)
      /\ Queued(d) \ out \subseteq Range(base)
      /\ out \subseteq d.trimmed \cup Queued(d) /\ d.trimmed \subseteq out
      /\ \A g \in out \cap Queued(d), q \in Range(base) : g.n < q.n
  <2>1. CASE full
    <3>1. d.queue # <<>>
      BY <1>1, <1>2, <2>1
    <3>2. /\ Tail(d.queue) \in Seq(R) /\ Head(d.queue) = d.queue[1]
          /\ DOMAIN Tail(d.queue) = 1..(Len(d.queue) - 1)
          /\ \A i \in 1..(Len(d.queue) - 1) : Tail(d.queue)[i] = d.queue[i + 1]
          /\ DOMAIN d.queue = 1..Len(d.queue) /\ Len(d.queue) >= 1
      BY <1>1, <3>1
    <3>3. InOrder(Tail(d.queue))
      BY <3>2 DEF InOrder, Received
    <3>4. Range(Tail(d.queue)) \subseteq Queued(d)
      BY <3>2 DEF Range, Queued
    <3>5. \A q \in Queued(d) : q = Head(d.queue) \/ q \in Range(Tail(d.queue))
      <4> SUFFICES ASSUME NEW i \in 1..Len(d.queue), i # 1
                   PROVE  d.queue[i] \in Range(Tail(d.queue))
        BY <3>2 DEF Range, Queued
      <4>1. i - 1 \in 1..(Len(d.queue) - 1) /\ (i - 1) + 1 = i
        BY <3>2
      <4>2. QED
        BY <3>2, <4>1 DEF Range
    <3>6. Head(d.queue) \in Queued(d)
      BY <3>2 DEF Range, Queued
    <3>7. \A g \in out \cap Queued(d), q \in Range(base) : g.n < q.n
      <4> SUFFICES ASSUME NEW g \in out \cap Queued(d), NEW q \in Range(base)
                   PROVE  g.n < q.n
        OBVIOUS
      <4>1. CASE g \in d.trimmed
        BY <2>1, <3>4, <4>1 DEF Received
      <4>2. CASE g = Head(d.queue)
        <5>1. PICK i \in 1..(Len(d.queue) - 1) : q = d.queue[i + 1]
          BY <2>1, <3>2 DEF Range
        <5>2. 1 \in DOMAIN d.queue /\ i + 1 \in DOMAIN d.queue /\ 1 < i + 1
          BY <3>2
        <5>3. QED
          BY <3>2, <4>2, <5>1, <5>2 DEF Received, InOrder
      <4>3. QED
        BY <2>1, <4>1, <4>2
    <3>8. QED
      BY <2>1, <3>2, <3>3, <3>4, <3>5, <3>6, <3>7
  <2>2. CASE ~full
    BY <1>1, <2>2 DEF Received, Queued
  <2>3. QED
    BY <2>1, <2>2
<1>5. /\ e.queue = p /\ e.got = d.got \cup {r} /\ e.trimmed = out
      /\ e.store = d.store /\ e.live = d.live /\ e.buffer = d.buffer
      /\ e.omitted = d.omitted /\ e.dropped = d.dropped
  BY <1>1, <1>3 DEF Fields
<1>6. Range(p) = Range(base) \cup {r} /\ InOrder(p)
  <2>1. /\ DOMAIN base = 1..Len(base) /\ Len(base) \in Nat
        /\ DOMAIN p = 1..(Len(base) + 1) /\ p[Len(base) + 1] = r
        /\ \A i \in 1..Len(base) : p[i] = base[i]
    BY <1>4
  <2> HIDE DEF base, p
  <2>2. \A i \in 1..(Len(base) + 1) : i \in 1..Len(base) \/ i = Len(base) + 1
    BY <2>1
  <2>3. Range(p) = Range(base) \cup {r}
    BY <2>1, <2>2 DEF Range
  <2>4. InOrder(p)
    <3> SUFFICES ASSUME NEW i \in DOMAIN p, NEW j \in DOMAIN p, i < j
                 PROVE  p[i].n < p[j].n
      BY DEF InOrder
    <3>1. i \in 1..Len(base)
      BY <2>1
    <3>2. CASE j \in 1..Len(base)
      BY <1>4, <2>1, <3>1, <3>2 DEF InOrder
    <3>3. CASE j = Len(base) + 1
      <4>1. base[i] \in d.got
        BY <1>4, <2>1, <3>1 DEF Range, Received
      <4>2. QED
        BY <2>1, <3>1, <3>3, <4>1
    <3>4. QED
      BY <2>1, <2>2, <3>2, <3>3
  <2>5. QED
    BY <2>3, <2>4
<1> HIDE DEF full, base, p, out, e
<1>7. r \notin d.got
  BY DEF Row
<1>8. Queued(e) = Range(base) \cup {r}
  BY <1>5, <1>6 DEF Queued
<1>9. Received(e)
  <2>1. Queued(e) \subseteq e.got
    BY <1>4, <1>5, <1>8 DEF Received
  <2>2. \A g \in (e.got \ Queued(e)) \cup e.trimmed, q \in Queued(e) : g.n < q.n
    <3> SUFFICES ASSUME NEW g \in (e.got \ Queued(e)) \cup e.trimmed, NEW q \in Queued(e)
                 PROVE  g.n < q.n
      OBVIOUS
    <3>1. g \in d.got \cup d.trimmed
      BY <1>4, <1>5, <1>8 DEF Received
    <3>2. CASE q = r
      BY <3>1, <3>2
    <3>3. CASE q \in Range(base)
      <4>1. q \in Queued(d)
        BY <1>4, <3>3
      <4>2. CASE g \in (d.got \ Queued(d)) \cup d.trimmed
        BY <4>1, <4>2 DEF Received
      <4>3. CASE g \in Queued(d)
        <5>1. g \in out
          BY <1>4, <1>5, <1>8, <4>3
        <5>2. QED
          BY <1>4, <3>3, <4>3, <5>1
      <4>4. QED
        BY <3>1, <4>2, <4>3
    <3>4. QED
      BY <1>8, <3>2, <3>3
  <2>3. e.live \subseteq e.store /\ e.live \subseteq e.got \ Queued(e)
    BY <1>4, <1>5, <1>7, <1>8 DEF Received
  <2>4. InOrder(e.queue)
    BY <1>5, <1>6
  <2>5. QED
    BY <2>1, <2>2, <2>3, <2>4 DEF Received
<1>10. \A X : Kept(d, X) => Kept(e, X)
  <2> SUFFICES ASSUME NEW X, Kept(d, X), NEW g \in e.got \ (e.trimmed \cup X)
               PROVE  g \in Queued(e) \/ Represented(g, e.store)
    BY DEF Kept
  <2>1. CASE g = r
    BY <1>8, <2>1
  <2>2. CASE g # r
    <3>1. g \in d.got \ (d.trimmed \cup X) /\ g \notin out
      BY <1>4, <1>5, <2>2
    <3>2. CASE g \in Queued(d)
      BY <1>4, <1>8, <3>1, <3>2
    <3>3. CASE Represented(g, d.store)
      BY <1>5, <3>3
    <3>4. QED
      BY <3>1, <3>2, <3>3 DEF Kept
  <2>3. QED
    BY <2>1, <2>2
<1>11. /\ e.trimmed \subseteq d.trimmed \cup d.got
       /\ Queued(d) \ e.trimmed \subseteq Queued(e)
       /\ Queued(e) \subseteq Queued(d) \cup {r} /\ r \in Queued(e)
       /\ d.trimmed \subseteq e.trimmed
  BY <1>4, <1>5, <1>8 DEF Received
<1>12. QED
  BY <1>5, <1>9, <1>10, <1>11 DEF e

\* Nothing else of a display matters to what it knows of the rows received.
LEMMA SameRows ==
  ASSUME NEW d, NEW e,
         e.queue = d.queue, e.got = d.got, e.trimmed = d.trimmed,
         e.store = d.store, e.live = d.live
  PROVE  /\ Received(d) => Received(e)
         /\ \A X : Kept(d, X) => Kept(e, X)
         /\ Queued(e) = Queued(d)
BY DEF Received, Kept, Queued

\* A row recorded during a reseed: what the full buffer drops is counted.
LEMMA PushBufferReceived ==
  ASSUME NEW R \in SUBSET Row, NEW d \in Held(R), NEW r \in R
  PROVE  LET e == PushBuffer(d, r)
         IN  /\ e.queue = d.queue /\ e.got = d.got /\ e.trimmed = d.trimmed
             /\ e.store = d.store /\ e.live = d.live
             /\ d.omitted \subseteq e.omitted
             /\ d.dropped > 0 => e.dropped > 0
             /\ r \in Range(e.buffer)
             /\ Range(e.buffer) \subseteq Range(d.buffer) \cup {r}
             /\ \A g \in Range(d.buffer) \ Range(e.buffer) :
                  g \in e.omitted /\ e.dropped > 0
<1> DEFINE full  == Len(d.buffer) >= BufferCap
           base  == IF full THEN Tail(d.buffer) ELSE d.buffer
           p     == Append(base, r)
           drops == IF full THEN d.dropped + 1 ELSE d.dropped
           out   == IF full THEN d.omitted \cup {Head(d.buffer)} ELSE d.omitted
           e     == PushBuffer(d, r)
<1>1. /\ d \in Fields(R) /\ d.buffer \in Seq(R) /\ Len(d.buffer) \in Nat
      /\ d.dropped \in Nat /\ BufferCap \in Nat \ {0}
  BY DisplayAssumption DEF Held, Fields
<1>2. e = [d EXCEPT !.buffer = p, !.dropped = drops, !.omitted = out]
  BY DEF PushBuffer
<1>3. /\ base \in Seq(R) /\ Range(base) \subseteq Range(d.buffer)
      /\ d.omitted \subseteq out /\ (d.dropped > 0 => drops > 0)
      /\ \A g \in Range(d.buffer) \ Range(base) : g \in out /\ drops > 0
  <2>1. CASE full
    <3>1. d.buffer # <<>>
      BY <1>1, <2>1
    <3>2. /\ Tail(d.buffer) \in Seq(R) /\ Head(d.buffer) = d.buffer[1]
          /\ DOMAIN Tail(d.buffer) = 1..(Len(d.buffer) - 1)
          /\ \A i \in 1..(Len(d.buffer) - 1) : Tail(d.buffer)[i] = d.buffer[i + 1]
          /\ DOMAIN d.buffer = 1..Len(d.buffer) /\ Len(d.buffer) >= 1
      BY <1>1, <3>1
    <3>3. Range(Tail(d.buffer)) \subseteq Range(d.buffer)
      BY <3>2 DEF Range
    <3>4. \A g \in Range(d.buffer) : g = Head(d.buffer) \/ g \in Range(Tail(d.buffer))
      <4> SUFFICES ASSUME NEW i \in 1..Len(d.buffer), i # 1
                   PROVE  d.buffer[i] \in Range(Tail(d.buffer))
        BY <3>2 DEF Range
      <4>1. i - 1 \in 1..(Len(d.buffer) - 1) /\ (i - 1) + 1 = i
        BY <3>2
      <4>2. QED
        BY <3>2, <4>1 DEF Range
    <3>5. drops > 0
      BY <1>1, <2>1
    <3>6. QED
      BY <2>1, <3>2, <3>3, <3>4, <3>5
  <2>2. CASE ~full
    BY <1>1, <2>2
  <2>3. QED
    BY <2>1, <2>2
<1>4. /\ e.buffer = p /\ e.dropped = drops /\ e.omitted = out
      /\ e.queue = d.queue /\ e.got = d.got /\ e.trimmed = d.trimmed
      /\ e.store = d.store /\ e.live = d.live
  BY <1>1, <1>2 DEF Fields
<1>5. Range(p) = Range(base) \cup {r}
  <2>1. /\ DOMAIN base = 1..Len(base) /\ Len(base) \in Nat
        /\ DOMAIN p = 1..(Len(base) + 1) /\ p[Len(base) + 1] = r
        /\ \A i \in 1..Len(base) : p[i] = base[i]
    BY <1>3
  <2> HIDE DEF base, p
  <2>2. \A i \in 1..(Len(base) + 1) : i \in 1..Len(base) \/ i = Len(base) + 1
    BY <2>1
  <2>3. QED
    BY <2>1, <2>2 DEF Range
<1> HIDE DEF full, base, p, drops, out, e
<1>6. QED
  BY <1>3, <1>4, <1>5 DEF e

\* Rows that leave the queue for the graphs: each is shown from now on, or a
\* later one of its bucket is, and no row shown before is lost by it.
LEMMA DrainReceived ==
  ASSUME NEW R \in SUBSET Row, NEW d \in Held(R), NEW k \in 0..Len(d.queue),
         Received(d)
  PROVE  LET e == Drain(d, k)
         IN  /\ Received(e)
             /\ \A X : Kept(d, X) => Kept(e, X)
             /\ e.got = d.got /\ e.trimmed = d.trimmed /\ e.omitted = d.omitted
             /\ e.buffer = d.buffer /\ e.dropped = d.dropped
             /\ e.store \subseteq d.store \cup Queued(d)
             /\ Queued(e) \subseteq Queued(d)
             /\ \A r : Lodged(d, r) => Lodged(e, r)
<1> DEFINE rest == SubSeq(d.queue, k + 1, Len(d.queue))
           gone == SubSeq(d.queue, 1, k)
           last == LastPerBucket(gone)
           Beside(S) == {r \in S : \A p \in last : Bucket(p) # Bucket(r)}
           e == Drain(d, k)
<1>1. d \in Fields(R) /\ d.queue \in Seq(R) /\ Len(d.queue) \in Nat
  BY DEF Held, Fields
<1>2. e = [[d EXCEPT !.queue = rest] EXCEPT !.store = Beside(d.store) \cup last,
                                            !.live  = Beside(d.live) \cup last]
  BY <1>1 DEF Drain, ApplyLive, Fields
<1>3. /\ InOrder(rest) /\ Range(rest) \subseteq Queued(d)
      /\ Range(rest) = {d.queue[i] : i \in (k + 1)..Len(d.queue)}
  BY <1>1, SuffixInOrder DEF Received, Queued
<1>4. /\ gone \in Seq(R) /\ DOMAIN gone = 1..k
      /\ \A i \in 1..k : gone[i] = d.queue[i] /\ i \in DOMAIN d.queue
  BY <1>1
<1>5. last \subseteq {d.queue[i] : i \in 1..k}
  BY <1>4 DEF LastPerBucket
<1>6. /\ e.queue = rest /\ e.got = d.got /\ e.trimmed = d.trimmed
      /\ e.omitted = d.omitted /\ e.buffer = d.buffer /\ e.dropped = d.dropped
      /\ e.store = Beside(d.store) \cup last /\ e.live = Beside(d.live) \cup last
  BY <1>1, <1>2 DEF Fields
<1>7. \A i \in 1..k : /\ d.queue[i] \in Queued(d)
                      /\ \A q \in Range(rest) : d.queue[i].n < q.n
  <2> SUFFICES ASSUME NEW i \in 1..k
               PROVE  /\ d.queue[i] \in Queued(d)
                      /\ \A q \in Range(rest) : d.queue[i].n < q.n
    OBVIOUS
  <2>1. d.queue[i] \in Queued(d)
    BY <1>4 DEF Queued, Range
  <2>2. ASSUME NEW j \in (k + 1)..Len(d.queue)
        PROVE  d.queue[i].n < d.queue[j].n
    <3>1. j \in DOMAIN d.queue /\ i \in DOMAIN d.queue /\ i < j
      BY <1>1, <1>4
    <3>2. QED
      BY <3>1 DEF Received, InOrder
  <2>3. QED
    BY <1>3, <2>1, <2>2
<1>8. \A q \in Queued(d) : q \in Range(rest) \/ \E i \in 1..k : q = d.queue[i]
  <2> SUFFICES ASSUME NEW j \in DOMAIN d.queue
               PROVE  d.queue[j] \in Range(rest) \/ \E i \in 1..k : d.queue[j] = d.queue[i]
    BY DEF Queued, Range
  <2>1. j \in 1..k \/ j \in (k + 1)..Len(d.queue)
    BY <1>1
  <2>2. QED
    BY <1>3, <2>1
<1>9. \A q \in R : q.n \in Nat
  BY DEF Row
<1>10. Queued(d) \subseteq R /\ d.got \subseteq R /\ d.store \subseteq R
  BY <1>1 DEF Fields, Queued, Range
<1>11. ASSUME NEW i \in 1..k
       PROVE  Represented(d.queue[i], last)
  <2>1. gone \in Seq(Row)
    BY <1>4
  <2>2. PICK j \in DOMAIN gone : /\ j >= i /\ Bucket(gone[j]) = Bucket(gone[i])
                                 /\ gone[j] \in last
    <3>1. i \in DOMAIN gone
      BY <1>4
    <3> HIDE DEF gone
    <3>2. QED
      BY <2>1, <3>1, LastOfBucket
  <2>3. j \in 1..k /\ gone[j] = d.queue[j] /\ gone[i] = d.queue[i]
    BY <1>4, <2>2
  <2>4. d.queue[j].n >= d.queue[i].n
    <3>1. i = j \/ i < j
      BY <2>2, <2>3
    <3>2. d.queue[i] \in R /\ d.queue[j] \in R
      BY <1>7, <1>10, <2>3
    <3>3. i < j => d.queue[i].n < d.queue[j].n
      BY <1>4, <2>3 DEF Received, InOrder
    <3>4. QED
      BY <1>9, <3>1, <3>2, <3>3
  <2>5. QED
    BY <2>2, <2>3, <2>4 DEF Represented
<1>12. last \subseteq Queued(d)
  BY <1>5, <1>7
<1>13. Queued(e) = Range(rest)
  BY <1>6 DEF Queued
<1>14. Received(e)
  <2>1. \A g \in (e.got \ Queued(e)) \cup e.trimmed, q \in Queued(e) : g.n < q.n
    <3> SUFFICES ASSUME NEW g \in (d.got \ Range(rest)) \cup d.trimmed,
                        NEW q \in Range(rest)
                 PROVE  g.n < q.n
      BY <1>6, <1>13
    <3>1. CASE g \in Queued(d) /\ g \notin Range(rest)
      BY <1>7, <1>8, <3>1
    <3>2. CASE g \in (d.got \ Queued(d)) \cup d.trimmed
      BY <1>3, <3>2 DEF Received
    <3>3. QED
      BY <3>1, <3>2
  <2>2. last \cap Range(rest) = {}
    <3> SUFFICES ASSUME NEW q \in Range(rest), q \in last
                 PROVE  FALSE
      OBVIOUS
    <3>1. q.n < q.n
      BY <1>5, <1>7
    <3>2. q.n \in Nat
      BY <1>9, <1>10, <1>12
    <3>3. QED
      BY <3>1, <3>2
  <2>3. e.live \subseteq e.store
    BY <1>6 DEF Received
  <2>4. e.live \subseteq e.got \ Queued(e)
    BY <1>3, <1>6, <1>12, <1>13, <2>2 DEF Received
  <2>5. InOrder(e.queue) /\ Queued(e) \subseteq e.got
    BY <1>3, <1>6, <1>13 DEF Received
  <2>6. QED
    BY <2>1, <2>3, <2>4, <2>5 DEF Received
<1>15. \A X : Kept(d, X) => Kept(e, X)
  <2> SUFFICES ASSUME NEW X, Kept(d, X), NEW g \in d.got \ (d.trimmed \cup X)
               PROVE  g \in Queued(e) \/ Represented(g, e.store)
    BY <1>6 DEF Kept
  <2>1. CASE g \in Queued(d)
    <3>1. CASE g \in Range(rest)
      BY <1>13, <3>1
    <3>2. CASE \E i \in 1..k : g = d.queue[i]
      BY <1>6, <1>11, <3>2 DEF Represented
    <3>3. QED
      BY <1>8, <2>1, <3>1, <3>2
  <2>2. CASE g \notin Queued(d)
    <3>1. PICK s \in d.store : Bucket(s) = Bucket(g) /\ s.n >= g.n
      BY <2>2 DEF Kept, Represented
    <3>2. CASE s \in Beside(d.store)
      BY <1>6, <3>1, <3>2 DEF Represented
    <3>3. CASE s \notin Beside(d.store)
      <4>1. PICK p \in last : Bucket(p) = Bucket(s)
        BY <3>3
      <4>2. g.n < p.n
        BY <1>12, <2>2 DEF Received
      <4>3. p.n >= g.n
        BY <1>9, <1>10, <1>12, <4>2
      <4>4. QED
        BY <1>6, <3>1, <4>1, <4>3 DEF Represented
    <3>4. QED
      BY <3>2, <3>3
  <2>3. QED
    BY <2>1, <2>2
<1>16. e.store \subseteq d.store \cup Queued(d)
  BY <1>6, <1>12
<1>17. ASSUME NEW r, Lodged(d, r)
       PROVE  Lodged(e, r)
  <2>1. CASE r \in Queued(d)
    <3>1. CASE r \in Range(rest)
      BY <1>13, <3>1 DEF Lodged
    <3>2. CASE \E i \in 1..k : r = d.queue[i]
      BY <1>6, <1>11, <3>2 DEF Lodged, InBucket, Represented
    <3>3. QED
      BY <1>8, <2>1, <3>1, <3>2
  <2>2. CASE InBucket(r, d.store)
    <3>1. PICK s \in d.store : Bucket(s) = Bucket(r)
      BY <2>2 DEF InBucket
    <3>2. s \in Beside(d.store) \/ \E p \in last : Bucket(p) = Bucket(s)
      OBVIOUS
    <3>3. QED
      BY <1>6, <3>1, <3>2 DEF Lodged, InBucket
  <2>3. QED
    BY <1>17, <2>1, <2>2 DEF Lodged
<1> HIDE DEF e
<1>18. QED
  BY <1>3, <1>6, <1>13, <1>14, <1>15, <1>16, <1>17 DEF e

\* Rows read from disk take no row's place: they are read into an empty store.
LEMMA RestoreCacheReceived ==
  ASSUME NEW R \in SUBSET Row, NEW d \in Held(R), NEW base, NEW cut
  PROVE  LET e == RestoreCache(d, base, cut)
         IN  /\ Received(d) => Received(e)
             /\ \A X : Kept(d, X) => Kept(e, X)
             /\ e.got = d.got /\ e.trimmed = d.trimmed /\ e.omitted = d.omitted
             /\ e.buffer = d.buffer /\ e.dropped = d.dropped /\ e.queue = d.queue
             /\ \A r \in e.store \ d.store : cut = 0 \/ r.n > cut
<1> DEFINE rows == {r \in d.cache : cut = 0 \/ r.n > cut}
           e    == RestoreCache(d, base, cut)
<1>1. \/ e = d
      \/ e = [d EXCEPT !.cache = {}]
      \/ d.store = {} /\ e = [d EXCEPT !.store = Compact(rows), !.live = {}]
  BY DEF RestoreCache
<1>2. \A r \in Compact(rows) : cut = 0 \/ r.n > cut
  BY DEF Compact
<1> HIDE DEF rows, e
<1>3. /\ e.got = d.got /\ e.trimmed = d.trimmed /\ e.omitted = d.omitted
      /\ e.buffer = d.buffer /\ e.dropped = d.dropped /\ e.queue = d.queue
      /\ \/ e.store = d.store /\ e.live = d.live
         \/ d.store = {} /\ e.live = {} /\ e.store = Compact(rows)
  BY <1>1 DEF Held, Fields
<1>4. Received(d) => Received(e)
  BY <1>3 DEF Received, Queued
<1>5. \A X : Kept(d, X) => Kept(e, X)
  BY <1>3 DEF Kept, Queued, Represented
<1>6. QED
  BY <1>2, <1>3, <1>4, <1>5 DEF e

-----------------------------------------------------------------------------
(* The invariant *)

\* Of the rows S, those sampled by station b.
RowsOf(S, b) == {r \in S \cap Row : r.st = b}

SeedOwned ==
  /\ seed.pc # "idle" =>
       /\ seed.owner.login =< here.login
       /\ seed.owner.login = here.login =>
            seed.owner.base = here.base /\ seed.rows \in SUBSET RowsOf(station.rows, here.base)
  /\ seed.pc = "backoff" => seed.attempt < Attempts

\* The kinds of values TypeOK names, for the lemmas.
Conts == [owner : Owner, authority : Authority, revision : Nat]
Floors == [saved : [Stations -> Nat], mem : Nat, since : Nat,
           cut : [Stations -> Nat]]
Seeds == [pc : {"idle", "clock", "recent", "build", "tail", "backoff"},
          owner : Owner, revision : Nat, empty : BOOLEAN,
          rows : SUBSET Row, epoch : Nat, attempt : 0..Attempts]
Watches == [handled : Nat, wake : BOOLEAN, ready : BOOLEAN]
Links == [up : BOOLEAN, next : Nat]
Statuses == [state : {"idle", "running", "ok", "failed"}, reported : Nat]
Observations == [owner : Owner, answer : Authority]

Typing ==
  /\ station \in [rows : SUBSET Row, instance : [Stations -> Nat]]
  /\ here \in Owner /\ here.base \in Stations
  /\ mounted \in BOOLEAN
  /\ cont \in Conts
  /\ floor \in Floors
  /\ seed \in Seeds
  /\ epoch \in Nat
  /\ watch \in Watches
  /\ link \in Links
  /\ status \in Statuses
  /\ obs \in Observations
  /\ left \in [Events -> Nat]

IInv ==
  /\ Typing
  /\ IsFiniteSet(station.rows)
  /\ display \in Held(RowsOf(station.rows, here.base))
  /\ SeedOwned

-----------------------------------------------------------------------------
(* What the parts of handlers do *)

\* The types of the parts of a state, one by one.
LEMMA SpendTyped ==
  ASSUME left \in [Events -> Nat], NEW e \in Events, Spend(e)
  PROVE  left' \in [Events -> Nat]
<1>1. left[e] \in Nat /\ left[e] > 0
  BY DEF Spend
<1>2. QED
  BY <1>1 DEF Spend

LEMMA SampledTyped ==
  ASSUME IInv
  PROVE  Sampled \in Nat
BY FS_CardinalityType DEF IInv, Sampled

\* Rows of a station are rows.
LEMMA RowsOfRow == \A S, b : RowsOf(S, b) \in SUBSET Row
BY DEF RowsOf

\* synchronize keeps the continuity well typed and shows nothing new.
LEMMA SyncedTyped ==
  ASSUME IInv, NEW o \in Owner
  PROVE  SyncedCont(o) \in Conts
<1>1. NoAuthority \in Authority
  BY DEF NoAuthority, Authority
<1>2. QED
  BY <1>1 DEF IInv, Typing, Conts, SyncedCont

LEMMA SyncedHeld ==
  ASSUME NEW R \in SUBSET Row, NEW d \in Held(R), NEW o
  PROVE  SyncedDisplay(o, d) \in Held(R)
<1>1. d \in Held(Row)
  BY HeldMonotonic
<1>2. QED
  BY <1>1, ClearVisibleHeld, ClearAllHeld DEF SyncedDisplay

LEMMA ReseedGuardHeld ==
  ASSUME NEW R \in SUBSET Row, NEW d \in Held(R)
  PROVE  ReseedGuard(d) \in Held(R)
BY ResetBufferHeld DEF ReseedGuard

LEMMA DisplayTyped ==
  ASSUME NEW R \in SUBSET Row, NEW d \in Held(R)
  PROVE  /\ d \in Display
         /\ Len(d.queue) =< QueueCap /\ Len(d.buffer) =< BufferCap
<1>1. d \in Held(Row)
  BY HeldMonotonic
<1>2. QED
  BY <1>1 DEF Held, Fields, Display

\* The values the tasks start over with.
LEMMA FreshTyped ==
  /\ NoOwner \in Owner
  /\ IdleSeed \in Seeds /\ IdleSeed.pc = "idle"
  /\ FreshWatch \in Watches
  /\ Down \in Links
  /\ NoObservation \in Observations
  /\ \A s \in {"idle", "running", "ok", "failed"} : Status(s) \in Statuses
<1>1. NoOwner \in Owner
  BY DEF NoOwner, Owner
<1>2. NoAuthority \in Authority
  BY DEF NoAuthority, Authority
<1>3. Attempts \in Nat
  BY ReseedAssumption
<1>4. IdleSeed \in Seeds /\ IdleSeed.pc = "idle"
  BY <1>1, <1>3 DEF IdleSeed, Seeds
<1>5. NoObservation \in Observations
  BY <1>1, <1>2 DEF NoObservation, Observations
<1>6. QED
  BY <1>1, <1>4, <1>5 DEF FreshWatch, Down, Status, Watches, Links, Statuses

\* How an owner changes: its epochs, its mount, its login, its station.
LEMMA OwnerMoves ==
  ASSUME NEW o \in Owner, NEW st \in Stations
  PROVE  /\ [o EXCEPT !.clear = @ + 1] \in Owner
         /\ [o EXCEPT !.graph = @ + 1, !.clear = @ + 1] \in Owner
         /\ [o EXCEPT !.mount = @ + 1] \in Owner
         /\ [o EXCEPT !.login = @ + 1] \in Owner
         /\ [o EXCEPT !.login = @ + 1, !.mount = @ + 1] \in Owner
         /\ [o EXCEPT !.base = st, !.login = @ + 1, !.clear = @ + 1] \in Owner
<1> DEFINE g == [o EXCEPT !.graph = @ + 1]
           i == [o EXCEPT !.login = @ + 1]
           b == [o EXCEPT !.base = st]
           l == [b EXCEPT !.login = o.login + 1]
<1>1. /\ [o EXCEPT !.clear = @ + 1] \in Owner
      /\ [o EXCEPT !.mount = @ + 1] \in Owner
      /\ [o EXCEPT !.login = @ + 1] \in Owner
  BY DEF Owner
<1>2. g \in Owner /\ g.clear = o.clear
  BY DEF Owner
<1>3. [o EXCEPT !.graph = @ + 1, !.clear = @ + 1] = [g EXCEPT !.clear = o.clear + 1]
  OBVIOUS
<1>4. i \in Owner /\ i.mount = o.mount
  BY DEF Owner
<1>5. [o EXCEPT !.login = @ + 1, !.mount = @ + 1] = [i EXCEPT !.mount = o.mount + 1]
  OBVIOUS
<1>6. b \in Owner
  BY DEF Owner
<1>7. o.login + 1 \in Nat /\ o.clear + 1 \in Nat
  BY DEF Owner
<1>8. [o EXCEPT !.base = st, !.login = @ + 1, !.clear = @ + 1]
        = [l EXCEPT !.clear = o.clear + 1]
  OBVIOUS
<1> HIDE DEF g, b, i
<1>9. [i EXCEPT !.mount = o.mount + 1] \in Owner
  BY <1>4 DEF Owner
<1>10. l \in Owner
  BY <1>6, <1>7 DEF Owner
<1> HIDE DEF l
<1>11. QED
  BY <1>1, <1>2, <1>3, <1>5, <1>7, <1>8, <1>9, <1>10 DEF Owner

\* A new mount for an owner that comes no earlier: every task starts over.
LEMMA MountInnerTyped ==
  ASSUME NEW o \in Owner, o.base \in Stations,
         NEW d \in Held(RowsOf(station.rows, o.base)), NEW f \in Floors, NEW st \in Statuses,
         MountInner(o, d, f, st)
  PROVE  /\ here' \in Owner /\ here'.base \in Stations
         /\ display' \in Held(RowsOf(station.rows, here'.base))
         /\ floor' \in Floors /\ seed' \in Seeds /\ watch' \in Watches
         /\ link' \in Links /\ status' \in Statuses /\ obs' \in Observations
         /\ SeedOwned'
<1>1. display' \in Held(RowsOf(station.rows, o.base))
  BY RestoreCacheHeld, ReseedGuardHeld, RowsOfRow DEF MountInner
<1>2. floor' \in Floors
  BY DEF MountInner, Floors
<1>3. status' \in Statuses
  BY FreshTyped DEF MountInner
<1>4. QED
  BY <1>1, <1>2, <1>3, FreshTyped DEF MountInner, SeedOwned

LEMMA RenderedTyped ==
  ASSUME IInv, NEW o \in Owner, o.base \in Stations,
         here.login =< o.login, here.login = o.login => here.base = o.base,
         NEW d \in Held(RowsOf(station.rows, o.base)), NEW f \in Floors, NEW st \in Statuses,
         NEW wake \in BOOLEAN, NEW up \in BOOLEAN,
         Rendered(o, d, f, st, wake, up), station' = station
  PROVE  /\ here' \in Owner /\ here'.base \in Stations
         /\ display' \in Held(RowsOf(station.rows, here'.base))
         /\ floor' \in Floors /\ seed' \in Seeds /\ watch' \in Watches
         /\ link' \in Links /\ status' \in Statuses /\ obs' \in Observations
         /\ SeedOwned'
<1> DEFINE p == [o EXCEPT !.mount = @ + 1]
<1>1. p \in Owner /\ p.base = o.base /\ p.login = o.login
  BY DEF Owner
<1>2. CASE mounted /\ Remounts
  <2>1. MountInner(p, d, f, st)
    BY <1>2 DEF Rendered
  <2> HIDE DEF p
  <2>2. QED
    BY <1>1, <2>1, MountInnerTyped
<1>3. CASE ~(mounted /\ Remounts)
  <2>1. /\ here' \in {o, p} /\ display' = d /\ floor' = f /\ status' = st
        /\ watch' = [watch EXCEPT !.wake = @ \/ wake]
        /\ link' \in {link, Down} /\ seed' = seed /\ obs' = obs
    BY <1>3 DEF Rendered
  <2> HIDE DEF p
  <2>2. here' \in Owner /\ here'.base = o.base /\ here'.login = o.login
    BY <1>1, <2>1
  <2>3. /\ watch \in Watches /\ link \in Links /\ seed \in Seeds
        /\ obs \in Observations /\ here \in Owner
    BY DEF IInv, Typing
  <2>4. watch' \in Watches
    BY <2>1, <2>3 DEF Watches
  <2>5. SeedOwned'
    BY <2>1, <2>2, <2>3 DEF IInv, SeedOwned, Owner, Seeds
  <2>6. QED
    BY <2>1, <2>2, <2>3, <2>4, <2>5, FreshTyped
<1>4. QED
  BY <1>2, <1>3

-----------------------------------------------------------------------------
(* Init *)

LEMMA InitIInv ==
  ASSUME Init
  PROVE  IInv
<1>1. display \in Held(RowsOf(station.rows, here.base))
  BY FreshDisplayHeld, RowsOfRow, ReseedAssumption DEF Init
<1>2. here \in Owner /\ here.base \in Stations
  BY ReseedAssumption DEF Init, Owner
<1>3. Typing
  <2>1. cont \in Conts
    BY FreshTyped DEF Init, NoAuthority, Authority, Conts
  <2>2. left \in [Events -> Nat]
    BY ReseedAssumption DEF Init
  <2>3. floor \in Floors
    BY DEF Init, Floors
  <2>4. QED
    BY <1>1, <1>2, <2>1, <2>2, <2>3, FreshTyped DEF Init, Typing
<1>4. IsFiniteSet(station.rows)
  BY FS_EmptySet DEF Init
<1>5. SeedOwned
  BY DEF Init, SeedOwned, IdleSeed
<1>6. QED
  BY <1>1, <1>3, <1>4, <1>5 DEF IInv

-----------------------------------------------------------------------------
(* The stations and the websocket *)

LEMMA SampleStep ==
  ASSUME IInv, NEW st \in Stations, Sample(st)
  PROVE  IInv'
<1>1. /\ station'.rows = station.rows \cup {[n |-> Sampled + 1, st |-> st]}
      /\ station' \in [rows : SUBSET Row, instance : [Stations -> Nat]]
  BY SampledTyped DEF Sample, IInv, Typing, Row
<1>2. IsFiniteSet(station.rows \cup {[n |-> Sampled + 1, st |-> st]})
  BY FS_AddElement DEF IInv
<1>3. left' \in [Events -> Nat]
  BY SpendTyped DEF Sample, Events, IInv, Typing
<1>4. QED
  <2>1. RowsOf(station.rows, here.base) \in SUBSET RowsOf(station'.rows, here.base)
    BY <1>1 DEF RowsOf
  <2>2. Held(RowsOf(station.rows, here.base)) \subseteq Held(RowsOf(station'.rows, here.base))
    BY <2>1, HeldMonotonic
  <2>3. QED
    BY <1>1, <1>2, <1>3, <2>1, <2>2 DEF Sample, IInv, Typing, SeedOwned

LEMMA ReplaceInstanceStep ==
  ASSUME IInv, NEW st \in Stations, ReplaceInstance(st)
  PROVE  IInv'
<1>1. /\ station' \in [rows : SUBSET Row, instance : [Stations -> Nat]]
      /\ station'.rows = station.rows
  BY DEF ReplaceInstance, IInv, Typing
<1>2. left' \in [Events -> Nat]
  BY SpendTyped DEF ReplaceInstance, Events, IInv, Typing
<1>3. QED
  BY <1>1, <1>2 DEF ReplaceInstance, IInv, Typing, SeedOwned

\* A reseed is requested.
LEMMA BumpSeedTyped ==
  ASSUME epoch \in Nat, watch \in Watches, BumpSeed
  PROVE  epoch' \in Nat /\ watch' \in Watches
<1>1. epoch' = epoch + 1 /\ watch' = [watch EXCEPT !.wake = TRUE]
  BY DEF BumpSeed
<1>2. epoch' \in Nat
  BY <1>1
<1>3. watch' \in Watches
  BY <1>1 DEF Watches
<1>4. QED
  BY <1>2, <1>3

LEMMA WsOpenStep ==
  ASSUME IInv, WsOpen
  PROVE  IInv'
<1>1. link' \in Links
  BY SampledTyped DEF WsOpen, Links
<1>2. floor' \in Floors
  BY DEF WsOpen, IInv, Typing, Floors
<1>3. epoch' \in Nat /\ watch' \in Watches
  BY BumpSeedTyped DEF WsOpen, IInv, Typing
<1>4. QED
  BY <1>1, <1>2, <1>3, FreshTyped DEF WsOpen, IInv, Typing, SeedOwned

LEMMA WsDropStep ==
  ASSUME IInv, WsDrop
  PROVE  IInv'
<1>1. left' \in [Events -> Nat]
  BY SpendTyped DEF WsDrop, Events, IInv, Typing
<1>2. QED
  BY <1>1, FreshTyped DEF WsDrop, IInv, Typing, SeedOwned

LEMMA LiveRowStep ==
  ASSUME IInv, NEW r \in station.rows, NEW stepped \in BOOLEAN,
         LiveRow(r, stepped)
  PROVE  IInv'
<1> DEFINE R == RowsOf(station.rows, here.base)
           d == SyncedDisplay(here, display)
<1>1. r \in R
  BY DEF LiveRow, Arriving, IInv, Typing, RowsOf
<1>2. d \in Held(R)
  BY SyncedHeld, RowsOfRow DEF IInv
<1>3. display' \in Held(R)
  <2>1. PushBuffer(d, r) \in Held(R)
    BY <1>1, <1>2, PushBufferHeld, RowsOfRow
  <2>2. /\ Enqueue(d, r) \in Held(R)
        /\ Enqueue(PushBuffer(d, r), r) \in Held(R)
    BY <1>1, <1>2, <2>1, EnqueueHeld, RowsOfRow
  <2>3. display' \in {d, Enqueue(d, r), Enqueue(PushBuffer(d, r), r)}
    BY DEF LiveRow
  <2> HIDE DEF R, d
  <2>4. QED
    BY <1>2, <2>2, <2>3
<1>4. left' \in [Events -> Nat]
  BY SpendTyped DEF LiveRow, Events, IInv, Typing
<1>5. r.n \in Nat
  BY <1>1 DEF RowsOf, Row
<1>6. floor' \in Floors
  <2> DEFINE cut == [floor.cut EXCEPT ![here.base] = 0]
  <2>1. cut \in [Stations -> Nat] /\ floor \in Floors
    BY DEF IInv, Typing, Floors
  <2>2. \/ floor' = floor
        \/ floor' = [floor EXCEPT !.mem = 0, !.since = r.n, !.cut = cut]
    BY DEF LiveRow
  <2>3. \/ floor' = floor
        \/ floor' = [saved |-> floor.saved, mem |-> 0, since |-> r.n, cut |-> cut]
    BY <2>1, <2>2 DEF Floors
  <2> HIDE DEF cut
  <2>4. QED
    BY <1>5, <2>1, <2>3 DEF Floors
<1>7. link' \in Links
  BY <1>5 DEF LiveRow, IInv, Typing, Links
<1>8. cont' \in Conts
  BY SyncedTyped DEF LiveRow, IInv, Typing
<1> HIDE DEF R, d
<1>9. here' = here /\ seed' = seed /\ station' = station
  BY DEF LiveRow
<1>10. UNCHANGED <<mounted, epoch, watch, status, obs>>
  BY DEF LiveRow
<1>11. QED
  BY <1>3, <1>4, <1>6, <1>7, <1>8, <1>9, <1>10
  DEF IInv, Typing, SeedOwned, R

LEMMA CalibrationChangedStep ==
  ASSUME IInv, CalibrationChanged
  PROVE  IInv'
<1>1. display' \in Held(RowsOf(station.rows, here.base))
  BY SyncedHeld, ClearQueueHeld, RowsOfRow DEF CalibrationChanged, IInv
<1>2. /\ here' \in Owner
      /\ here'.base = here.base /\ here'.login = here.login
  BY DEF CalibrationChanged, IInv, Typing, Owner
<1>3. cont' \in Conts
  BY SyncedTyped DEF CalibrationChanged, IInv, Typing
<1>4. epoch' \in Nat /\ watch' \in Watches
  BY BumpSeedTyped DEF CalibrationChanged, IInv, Typing
<1>5. left' \in [Events -> Nat]
  BY SpendTyped DEF CalibrationChanged, Events, IInv, Typing
<1>6. QED
  BY <1>1, <1>2, <1>3, <1>4, <1>5
  DEF CalibrationChanged, IInv, Typing, SeedOwned

-----------------------------------------------------------------------------
(* The runtime pump *)

LEMMA PumpTyped ==
  ASSUME IInv
  PROVE  /\ PumpOwner \in Owner
         /\ PumpOwner.base = here.base /\ PumpOwner.login = here.login
         /\ PumpFloor \in Floors
         /\ PumpDisplay \in Held(RowsOf(station.rows, here.base))
<1>1. here \in Owner /\ here.base \in Stations /\ floor \in Floors
  BY DEF IInv, Typing
<1>2. /\ PumpOwner \in Owner
      /\ PumpOwner.base = here.base /\ PumpOwner.login = here.login
  BY <1>1, OwnerMoves DEF PumpOwner, Owner
<1>3. PumpFloor \in Floors
  <2> DEFINE saved == [floor.saved EXCEPT ![here.base] = 0]
  <2>1. saved \in [Stations -> Nat]
    BY <1>1 DEF Floors
  <2>2. \/ PumpFloor = floor
        \/ PumpFloor = [saved |-> saved, mem |-> floor.mem, since |-> 0,
                        cut |-> floor.cut]
    BY <1>1 DEF PumpFloor, Floors
  <2> HIDE DEF saved
  <2>3. QED
    BY <1>1, <2>1, <2>2 DEF Floors
<1>4. PumpDisplay \in Held(RowsOf(station.rows, here.base))
  <2>1. display \in Held(RowsOf(station.rows, here.base)) /\ floor.since \in Nat
    BY <1>1 DEF IInv, Floors
  <2>2. ClearVisible(KeepSince(display, floor.since)) \in Held(RowsOf(station.rows, here.base))
    BY <2>1, KeepSinceHeld, ClearVisibleHeld, RowsOfRow
  <2>3. QED
    BY <2>1, <2>2, SyncedHeld, RowsOfRow DEF PumpDisplay
<1>5. QED
  BY <1>2, <1>3, <1>4

LEMMA PumpStep ==
  ASSUME IInv, NEW k \in 0..QueueCap, NEW persist \in BOOLEAN, Pump(k, persist)
  PROVE  IInv'
<1> DEFINE R == RowsOf(station.rows, here.base)
           drained == Drain(PumpDisplay, k)
           d == IF persist THEN Persist(drained, here.base, drained.store)
                ELSE drained
<1>1. drained \in Held(R)
  BY PumpTyped, DrainHeld, RowsOfRow DEF Pump
<1>2. d \in Held(R)
  <2>1. drained.store \in SUBSET R
    BY <1>1 DEF Held, Fields
  <2>2. QED
    BY <1>1, <2>1, PersistHeld, RowsOfRow DEF IInv, Typing
<1>3. cont' \in Conts
  BY PumpTyped, SyncedTyped DEF Pump
<1>4. UNCHANGED <<station, mounted, epoch, left>>
  BY DEF Pump
<1>5. CASE ClockReset
  <2>1. Rendered(PumpOwner, d, PumpFloor, status, FALSE, TRUE)
    BY <1>5 DEF Pump
  <2>2. /\ status \in Statuses /\ here.login \in Nat
        /\ PumpOwner \in Owner /\ PumpOwner.base \in Stations
        /\ PumpFloor \in Floors
        /\ here.login =< PumpOwner.login
        /\ here.login = PumpOwner.login => here.base = PumpOwner.base
        /\ d \in Held(RowsOf(station.rows, PumpOwner.base))
    BY <1>2, PumpTyped DEF IInv, Typing, Owner
  <2> HIDE DEF d, R
  <2>3. /\ here' \in Owner /\ here'.base \in Stations
        /\ display' \in Held(RowsOf(station.rows, here'.base))
        /\ floor' \in Floors /\ seed' \in Seeds /\ watch' \in Watches
        /\ link' \in Links /\ status' \in Statuses /\ obs' \in Observations
        /\ SeedOwned'
    BY <1>4, <2>1, <2>2, RenderedTyped
  <2>4. QED
    BY <1>3, <1>4, <2>3 DEF IInv, Typing
<1>6. CASE ~ClockReset
  <2>1. display' = d /\ UNCHANGED <<here, floor, seed, watch, link, status, obs>>
    BY <1>6 DEF Pump
  <2> HIDE DEF d
  <2>2. QED
    BY <1>2, <1>3, <1>4, <2>1 DEF IInv, Typing, SeedOwned
<1>7. QED
  BY <1>5, <1>6

-----------------------------------------------------------------------------
(* The seed watcher and seed_from_db *)

\* A request begins for the present owner.
LEMMA BeginSeedTyped ==
  ASSUME IInv, NEW e \in Nat, NEW attempt \in 0..Attempts, BeginSeed(e, attempt),
         here' = here
  PROVE  /\ floor' \in Floors /\ cont' \in Conts
         /\ display' \in Held(RowsOf(station.rows, here.base))
         /\ seed' \in Seeds /\ status' \in Statuses /\ SeedOwned'
<1> DEFINE d == ResetBuffer(SyncedDisplay(here, display))
<1>1. d \in Held(RowsOf(station.rows, here.base))
  BY SyncedHeld, ResetBufferHeld, RowsOfRow DEF IInv
<1>2. SyncedCont(here) \in Conts
  BY SyncedTyped DEF IInv, Typing
<1>3. here \in Owner /\ here.base \in Stations /\ floor \in Floors /\ status \in Statuses
  BY DEF IInv, Typing
<1>4. floor' \in Floors
  BY <1>3 DEF BeginSeed, Floors
<1>5. /\ seed' \in Seeds
      /\ seed'.owner = here /\ seed'.rows = {} /\ seed'.pc = "clock"
  BY <1>2, <1>3 DEF BeginSeed, Seeds, Conts
<1>6. SeedOwned'
  BY <1>3, <1>5 DEF SeedOwned, Owner
<1>7. status' \in Statuses
  BY <1>3, FreshTyped DEF BeginSeed
<1>8. QED
  BY <1>1, <1>2, <1>4, <1>5, <1>6, <1>7 DEF BeginSeed

LEMMA EndSeedTyped ==
  ASSUME IInv, EndSeed
  PROVE  /\ display' \in Held(RowsOf(station.rows, here.base))
         /\ seed' \in Seeds /\ SeedOwned'
<1>1. display' \in Held(RowsOf(station.rows, here.base))
  BY ResetBufferHeld, RowsOfRow DEF EndSeed, IInv
<1>2. QED
  BY <1>1, FreshTyped DEF EndSeed, SeedOwned

LEMMA WatcherPicksUpStep ==
  ASSUME IInv, WatcherPicksUp
  PROVE  IInv'
<1>1. epoch \in Nat /\ 1 \in 0..Attempts
  BY ReseedAssumption DEF IInv, Typing
<1>2. BeginSeed(epoch, 1) /\ here' = here
  BY DEF WatcherPicksUp
<1>3. watch' \in Watches
  BY DEF WatcherPicksUp, Watches, IInv, Typing
<1>4. QED
  BY <1>1, <1>2, <1>3, BeginSeedTyped DEF WatcherPicksUp, IInv, Typing

LEMMA WatcherSkipsStep ==
  ASSUME IInv, WatcherSkips
  PROVE  IInv'
<1>1. watch' \in Watches
  BY DEF WatcherSkips, Watches, IInv, Typing
<1>2. QED
  BY <1>1 DEF WatcherSkips, IInv, Typing, SeedOwned

\* The rows are those of the station selected now, whoever owns the request.
LEMMA SeedRequestsStep ==
  ASSUME IInv, SeedRequests
  PROVE  IInv'
<1> DEFINE rows == {r \in station.rows : r.st = here.base}
<1>1. rows \in SUBSET RowsOf(station.rows, here.base)
  BY DEF IInv, Typing, RowsOf
<1>2. seed \in Seeds /\ seed' = [seed EXCEPT !.pc = "recent", !.rows = rows]
  BY DEF SeedRequests, IInv, Typing
<1>3. seed.pc # "idle"
  BY DEF SeedRequests
<1>4. here' = here /\ station' = station
  BY DEF SeedRequests
<1> HIDE DEF rows
<1>5. /\ seed' \in Seeds /\ seed'.pc = "recent"
      /\ seed'.owner = seed.owner /\ seed'.rows = rows
  BY <1>1, <1>2, RowsOfRow DEF Seeds
<1>6. SeedOwned'
  BY <1>1, <1>3, <1>4, <1>5 DEF IInv, SeedOwned
<1>7. QED
  BY <1>5, <1>6 DEF SeedRequests, IInv, Typing

LEMMA SeedSupersededStep ==
  ASSUME IInv, SeedSuperseded
  PROVE  IInv'
BY EndSeedTyped DEF SeedSuperseded, IInv, Typing

\* What a request of the present owner swaps in is of the present station.
LEMMA SwapInTyped ==
  ASSUME IInv, NEW list \in SUBSET RowsOf(station.rows, here.base), SwapIn(list), here' = here
  PROVE  /\ display' \in Held(RowsOf(station.rows, here.base))
         /\ seed' \in Seeds /\ status' \in Statuses
         /\ seed.pc # "idle" => SeedOwned'
<1> DEFINE R    == RowsOf(station.rows, here.base)
           none == <<>>
           d    == [display EXCEPT !.buffer = none]
           rows == Merge(Merge(list, Range(display.queue)), Range(display.buffer))
<1>1. display \in Held(R) /\ R \in SUBSET Row /\ here.base \in Stations
  BY RowsOfRow DEF IInv, Typing
<1>2. none \in Seq(R) /\ Len(none) =< BufferCap
  BY DisplayAssumption
<1>3. /\ display' = Persist(ReplaceFromReseed(d, rows), here.base, rows)
      /\ status' = [state |-> "ok", reported |-> d.dropped]
      /\ seed' = [seed EXCEPT !.pc = "tail", !.rows = {}]
  BY DEF SwapIn
<1> HIDE DEF none
<1>4. d \in Held(R)
  BY <1>1, <1>2 DEF Held, Fields
<1>5. rows \in SUBSET R
  <2>1. Range(display.queue) \in SUBSET R /\ Range(display.buffer) \in SUBSET R
    BY <1>1, RangeOfSeq DEF Held, Fields
  <2>2. QED
    BY <2>1, MergeHeld
<1>6. d.dropped \in Nat
  BY <1>4 DEF Held, Fields
<1> HIDE DEF R, d, rows
<1>7. display' \in Held(R)
  BY <1>1, <1>3, <1>4, <1>5, ReplaceFromReseedHeld, PersistHeld
<1>8. seed' \in Seeds /\ seed'.owner = seed.owner /\ seed'.rows = {}
  BY <1>3 DEF IInv, Typing, Seeds
<1>9. QED
  BY <1>3, <1>6, <1>7, <1>8 DEF R, Statuses, IInv, SeedOwned

\* The rows of a current request are of the present station.
LEMMA SeedRowsHere ==
  ASSUME IInv, SeedCurrent, seed.pc # "idle"
  PROVE  seed.rows \in SUBSET RowsOf(station.rows, here.base)
BY DEF IInv, SeedOwned, SeedCurrent

LEMMA SeedAnsweredStep ==
  ASSUME IInv, SeedAnswered
  PROVE  IInv'
<1> DEFINE R == RowsOf(station.rows, here.base)
<1>1. Answer \in SUBSET R
  <2>1. seed.rows \in SUBSET R
    BY SeedRowsHere DEF SeedAnswered
  <2>2. Compact({r \in seed.rows : Allowed(floor, r)}) \in SUBSET R
    BY <2>1 DEF Compact
  <2>3. display.live \in SUBSET R /\ Range(display.queue) \in SUBSET R
    BY RangeOfSeq DEF IInv, Held, Fields
  <2>4. QED
    BY <2>2, <2>3, MergeHeld DEF Answer
<1>2. here' = here /\ seed.pc # "idle"
  BY DEF SeedAnswered
<1>3. CASE Answer = {}
  <2>1. SwapIn({})
    BY <1>3 DEF SeedAnswered
  <2>2. QED
    BY <1>2, <2>1, SwapInTyped DEF SeedAnswered, IInv, Typing
<1>4. CASE Answer # {}
  <2>1. /\ seed' = [seed EXCEPT !.pc = "build", !.rows = Answer]
        /\ UNCHANGED <<display, status>>
    BY <1>4 DEF SeedAnswered
  <2>2. /\ seed' \in Seeds /\ seed'.pc = "build"
        /\ seed'.owner = seed.owner /\ seed'.rows = Answer
    BY <1>1, <2>1, RowsOfRow DEF IInv, Typing, Seeds
  <2>3. SeedOwned'
    BY <1>1, <1>2, <2>2 DEF IInv, SeedOwned, SeedAnswered
  <2>4. QED
    BY <2>1, <2>2, <2>3 DEF SeedAnswered, IInv, Typing
<1>5. QED
  BY <1>3, <1>4

LEMMA SeedBuiltStep ==
  ASSUME IInv, SeedBuilt
  PROVE  IInv'
<1>1. seed.rows \in SUBSET RowsOf(station.rows, here.base)
  BY SeedRowsHere DEF SeedBuilt
<1>2. SwapIn(seed.rows) /\ here' = here /\ seed.pc # "idle"
  BY DEF SeedBuilt
<1>3. QED
  BY <1>1, <1>2, SwapInTyped DEF SeedBuilt, IInv, Typing

LEMMA SeedFailedStep ==
  ASSUME IInv, SeedFailed
  PROVE  IInv'
<1>1. left' \in [Events -> Nat]
  BY SpendTyped DEF SeedFailed, Events, IInv, Typing
<1>2. status' \in Statuses
  BY FreshTyped DEF SeedFailed
<1>3. here' = here /\ UNCHANGED <<station, mounted, cont, floor, epoch, watch, link, obs>>
  BY DEF SeedFailed
<1>4. \/ EndSeed
      \/ /\ seed' = [seed EXCEPT !.pc = "tail", !.rows = {}]
         /\ display' \in {display, ResetBuffer(display)}
      \/ /\ seed' = [seed EXCEPT !.pc = "backoff", !.rows = {}]
         /\ seed.attempt < Attempts
         /\ display' \in {display, ResetBuffer(display)}
  BY DEF SeedFailed
<1>5. display' \in Held(RowsOf(station.rows, here.base)) /\ seed' \in Seeds /\ SeedOwned'
  <2>1. CASE EndSeed
    BY <2>1, EndSeedTyped
  <2>2. CASE ~EndSeed
    <3>1. display' \in Held(RowsOf(station.rows, here.base))
      BY <1>4, <2>2, ResetBufferHeld, RowsOfRow DEF IInv
    <3>2. /\ seed' \in Seeds /\ seed'.owner = seed.owner /\ seed'.rows = {}
          /\ seed'.pc = "backoff" => seed'.attempt < Attempts
      BY <1>4, <2>2 DEF IInv, Typing, Seeds
    <3>3. seed.pc # "idle"
      BY DEF SeedFailed
    <3>4. QED
      BY <1>3, <3>1, <3>2, <3>3 DEF IInv, SeedOwned
  <2>3. QED
    BY <2>1, <2>2
<1>6. QED
  BY <1>1, <1>2, <1>3, <1>5 DEF IInv, Typing

LEMMA SeedRetriesStep ==
  ASSUME IInv, SeedRetries
  PROVE  IInv'
<1>1. seed.epoch \in Nat /\ seed.attempt + 1 \in 0..Attempts
  BY ReseedAssumption DEF SeedRetries, IInv, Typing, Seeds, SeedOwned
<1>2. BeginSeed(seed.epoch, seed.attempt + 1) /\ here' = here
  BY DEF SeedRetries
<1>3. QED
  BY <1>1, <1>2, BeginSeedTyped DEF SeedRetries, IInv, Typing

LEMMA SeedReturnsStep ==
  ASSUME IInv, SeedReturns
  PROVE  IInv'
BY EndSeedTyped DEF SeedReturns, IInv, Typing

LEMMA StartupReadyStep ==
  ASSUME IInv, StartupReady
  PROVE  IInv'
<1>1. watch' \in Watches
  BY DEF StartupReady, IInv, Typing, Watches
<1>2. epoch' \in Nat
  BY DEF StartupReady, IInv, Typing
<1>3. QED
  BY <1>1, <1>2 DEF StartupReady, IInv, Typing, SeedOwned

LEMMA StatusTimeoutStep ==
  ASSUME IInv, StatusTimeout
  PROVE  IInv'
BY FreshTyped DEF StatusTimeout, IInv, Typing, SeedOwned

-----------------------------------------------------------------------------
(* The operator *)

LEMMA ForegroundStep ==
  ASSUME IInv, Foreground
  PROVE  IInv'
<1>1. epoch' \in Nat /\ watch' \in Watches
  BY BumpSeedTyped DEF Foreground, IInv, Typing
<1>2. left' \in [Events -> Nat]
  BY SpendTyped DEF Foreground, Events, IInv, Typing
<1>3. QED
  BY <1>1, <1>2 DEF Foreground, IInv, Typing, SeedOwned

LEMMA ReconnectStep ==
  ASSUME IInv, Reconnect
  PROVE  IInv'
<1>1. epoch' \in Nat /\ watch' \in Watches
  BY BumpSeedTyped DEF Reconnect, IInv, Typing
<1>2. left' \in [Events -> Nat]
  BY SpendTyped DEF Reconnect, Events, IInv, Typing
<1>3. QED
  BY <1>1, <1>2, FreshTyped DEF Reconnect, IInv, Typing, SeedOwned

\* Whatever station is next, a cleared display shows nothing of the last.
LEMMA ClearedHeld ==
  ASSUME IInv, NEW b
  PROVE  ClearAll(display) \in Held(RowsOf(station.rows, b))
<1>1. display \in Held(Row)
  BY HeldMonotonic, RowsOfRow DEF IInv
<1>2. QED
  BY <1>1, ClearAllHeld, RowsOfRow

LEMMA HardReloadStep ==
  ASSUME IInv, HardReload
  PROVE  IInv'
<1>1. epoch' \in Nat /\ watch' \in Watches
  BY BumpSeedTyped DEF HardReload, IInv, Typing
<1>2. left' \in [Events -> Nat]
  BY SpendTyped DEF HardReload, Events, IInv, Typing
<1>3. display' \in Held(RowsOf(station.rows, here.base))
  BY ClearedHeld DEF HardReload
<1>4. QED
  BY <1>1, <1>2, <1>3, FreshTyped DEF HardReload, IInv, Typing, SeedOwned

\* What "Clear Current Data" makes of the floor.
LEMMA ClearFloorTyped ==
  ASSUME NEW f \in Floors, NEW b \in Stations, NEW n \in Nat
  PROVE  [f EXCEPT !.saved[b] = n, !.mem = n, !.cut[b] = n] \in Floors
<1> DEFINE saved == [f.saved EXCEPT ![b] = n]
           cut   == [f.cut EXCEPT ![b] = n]
           g     == [f EXCEPT !.saved = saved]
           h     == [g EXCEPT !.mem = n]
<1>1. saved \in [Stations -> Nat] /\ cut \in [Stations -> Nat]
  BY DEF Floors
<1>2. [f EXCEPT !.saved[b] = n, !.mem = n, !.cut[b] = n] = [h EXCEPT !.cut = cut]
  BY DEF Floors
<1> HIDE DEF saved, cut
<1>3. g \in Floors
  BY <1>1 DEF Floors
<1> HIDE DEF g
<1>4. h \in Floors
  BY <1>3 DEF Floors
<1> HIDE DEF h
<1>5. [h EXCEPT !.cut = cut] \in Floors
  BY <1>1, <1>4 DEF Floors
<1>6. QED
  BY <1>2, <1>5

LEMMA ClearCurrentStep ==
  ASSUME IInv, ClearCurrent
  PROVE  IInv'
<1> DEFINE o == [here EXCEPT !.graph = @ + 1, !.clear = @ + 1]
           f == [floor EXCEPT !.saved[here.base] = Sampled, !.mem = Sampled,
                              !.cut[here.base] = Sampled]
           d == ClearAll(display)
<1>1. left' \in [Events -> Nat]
  BY SpendTyped DEF ClearCurrent, Events, IInv, Typing
<1>2. here \in Owner /\ here.base \in Stations /\ floor \in Floors
  BY DEF IInv, Typing
<1>3. o \in Owner /\ o.base = here.base /\ o.login = here.login /\ here.login \in Nat
  BY <1>2, OwnerMoves DEF Owner
<1>4. f \in Floors
  BY <1>2, SampledTyped, ClearFloorTyped
<1>5. d \in Held(RowsOf(station.rows, o.base))
  BY ClearedHeld
<1>6. Rendered(o, d, f, Status("idle"), FALSE, TRUE)
  BY DEF ClearCurrent
<1>7. UNCHANGED <<station, mounted, cont, epoch>>
  BY DEF ClearCurrent
<1>8. Status("idle") \in Statuses /\ here.login =< o.login /\ o.base \in Stations
  BY <1>2, <1>3, FreshTyped
<1> HIDE DEF o, f, d
<1>9. /\ here' \in Owner /\ here'.base \in Stations
      /\ display' \in Held(RowsOf(station.rows, here'.base))
      /\ floor' \in Floors /\ seed' \in Seeds /\ watch' \in Watches
      /\ link' \in Links /\ status' \in Statuses /\ obs' \in Observations
      /\ SeedOwned'
  BY <1>3, <1>4, <1>5, <1>6, <1>7, <1>8, RenderedTyped
<1>10. QED
  BY <1>1, <1>7, <1>9 DEF IInv, Typing

LEMMA ClearAndReseedStep ==
  ASSUME IInv, ClearAndReseed
  PROVE  IInv'
<1> DEFINE o == [here EXCEPT !.clear = @ + 1]
           d == ClearAll(display)
<1>1. left' \in [Events -> Nat]
  BY SpendTyped DEF ClearAndReseed, Events, IInv, Typing
<1>2. here \in Owner /\ here.base \in Stations /\ floor \in Floors
  BY DEF IInv, Typing
<1>3. o \in Owner /\ o.base = here.base /\ o.login = here.login
  BY <1>2, OwnerMoves DEF Owner
<1>4. d \in Held(RowsOf(station.rows, o.base)) /\ Status("running") \in Statuses
  BY ClearedHeld, FreshTyped
<1>5. Rendered(o, d, floor, Status("running"), TRUE, FALSE)
  BY DEF ClearAndReseed
<1>6. UNCHANGED <<station, mounted, cont>> /\ epoch' \in Nat
  BY DEF ClearAndReseed, IInv, Typing
<1>7. o.base \in Stations /\ here.login =< o.login
  BY <1>2, <1>3 DEF Owner
<1> HIDE DEF o, d
<1>8. /\ here' \in Owner /\ here'.base \in Stations
      /\ display' \in Held(RowsOf(station.rows, here'.base))
      /\ floor' \in Floors /\ seed' \in Seeds /\ watch' \in Watches
      /\ link' \in Links /\ status' \in Statuses /\ obs' \in Observations
      /\ SeedOwned'
  BY <1>2, <1>3, <1>4, <1>5, <1>6, <1>7, RenderedTyped
<1>9. QED
  BY <1>1, <1>6, <1>8 DEF IInv, Typing

\* The dashboard leaves the screen for an owner of the same station.
LEMMA LeavesTyped ==
  ASSUME IInv, NEW o \in Owner, o.base = here.base, Leaves(o)
  PROVE  /\ mounted' \in BOOLEAN
         /\ here' \in Owner /\ here'.base = here.base
         /\ display' \in Held(RowsOf(station.rows, here.base))
         /\ seed' \in Seeds /\ watch' \in Watches /\ link' \in Links
         /\ obs' \in Observations /\ SeedOwned'
<1>2. here' \in Owner /\ here'.base = here.base
  BY DEF Leaves
<1>3. display' \in Held(RowsOf(station.rows, here.base))
  BY ReseedGuardHeld, RowsOfRow DEF Leaves, IInv
<1>4. QED
  BY <1>2, <1>3, FreshTyped DEF Leaves, SeedOwned

LEMMA LeaveStep ==
  ASSUME IInv, Leave
  PROVE  IInv'
<1> DEFINE o == [here EXCEPT !.mount = @ + 1]
<1>1. left' \in [Events -> Nat]
  BY SpendTyped DEF Leave, Events, IInv, Typing
<1>2. o \in Owner /\ o.base = here.base
  BY OwnerMoves DEF IInv, Typing, Owner
<1>3. Leaves(o) /\ UNCHANGED <<station, cont, floor, epoch, status>>
  BY DEF Leave
<1> HIDE DEF o
<1>4. QED
  BY <1>1, <1>2, <1>3, LeavesTyped DEF IInv, Typing

LEMMA LogoutStep ==
  ASSUME IInv, Logout
  PROVE  IInv'
<1> DEFINE o == [here EXCEPT !.login = @ + 1, !.mount = @ + 1]
<1>1. left' \in [Events -> Nat]
  BY SpendTyped DEF Logout, Events, IInv, Typing
<1>2. o \in Owner /\ o.base = here.base
  BY OwnerMoves DEF IInv, Typing, Owner
<1>3. Leaves(o) /\ epoch' \in Nat /\ UNCHANGED <<station, cont, floor, status>>
  BY DEF Logout, IInv, Typing
<1> HIDE DEF o
<1>4. QED
  BY <1>1, <1>2, <1>3, LeavesTyped DEF IInv, Typing

LEMMA LoginStep ==
  ASSUME IInv, Login
  PROVE  IInv'
<1>1. left' \in [Events -> Nat]
  BY SpendTyped DEF Login, Events, IInv, Typing
<1>2. epoch' \in Nat /\ watch' \in Watches
  BY BumpSeedTyped DEF Login, IInv, Typing
<1>3. /\ here' \in Owner
      /\ here'.base = here.base /\ here'.login = here.login + 1
  BY OwnerMoves DEF Login, IInv, Typing, Owner
<1>4. SeedOwned'
  BY <1>3 DEF Login, IInv, Typing, SeedOwned, Owner, Seeds
<1>5. QED
  BY <1>1, <1>2, <1>3, <1>4 DEF Login, IInv, Typing

LEMMA SelectStationStep ==
  ASSUME IInv, NEW st \in Stations, NEW tested \in BOOLEAN,
         SelectStation(st, tested)
  PROVE  IInv'
<1>1. left' \in [Events -> Nat]
  BY SpendTyped DEF SelectStation, Events, IInv, Typing
<1>2. epoch' \in Nat /\ watch' \in Watches
  BY BumpSeedTyped DEF SelectStation, IInv, Typing
<1>3. status' \in Statuses
  BY FreshTyped DEF SelectStation, IInv, Typing
<1>4. UNCHANGED <<station, mounted, cont, floor, seed, link, obs>>
  BY DEF SelectStation
<1>5. CASE st = here.base
  <2>1. here' = here /\ display' \in {display, ClearAll(display)}
    BY <1>5 DEF SelectStation
  <2>2. display' \in Held(RowsOf(station.rows, here.base))
    BY <2>1, ClearedHeld DEF IInv
  <2>3. QED
    BY <1>1, <1>2, <1>3, <1>4, <2>1, <2>2 DEF IInv, Typing, SeedOwned
<1>6. CASE st # here.base
  <2>1. /\ here' = [here EXCEPT !.base = st, !.login = @ + 1, !.clear = @ + 1]
        /\ display' = ClearAll(display)
    BY <1>6 DEF SelectStation
  <2>2. /\ here \in Owner /\ here' \in Owner
        /\ here'.base = st /\ here'.login = here.login + 1
    BY <2>1, OwnerMoves DEF IInv, Typing, Owner
  <2>3. display' \in Held(RowsOf(station.rows, st))
    BY <2>1, ClearedHeld
  <2>4. SeedOwned'
    BY <1>4, <2>2 DEF IInv, Typing, SeedOwned, Owner, Seeds
  <2>5. QED
    BY <1>1, <1>2, <1>3, <1>4, <2>2, <2>3, <2>4 DEF IInv, Typing
<1>7. QED
  BY <1>5, <1>6

LEMMA MountStep ==
  ASSUME IInv, Mount
  PROVE  IInv'
<1> DEFINE o == [here EXCEPT !.mount = @ + 1]
<1>1. o \in Owner /\ o.base = here.base /\ o.base \in Stations
  BY OwnerMoves DEF IInv, Typing, Owner
<1>2. /\ MountInner(o, display, floor, status)
      /\ mounted' \in BOOLEAN /\ UNCHANGED <<station, cont, epoch, left>>
  BY DEF Mount
<1>3. display \in Held(RowsOf(station.rows, o.base)) /\ floor \in Floors /\ status \in Statuses
  BY <1>1 DEF IInv, Typing
<1> HIDE DEF o
<1>4. /\ here' \in Owner /\ here'.base \in Stations
      /\ display' \in Held(RowsOf(station.rows, here'.base))
      /\ floor' \in Floors /\ seed' \in Seeds /\ watch' \in Watches
      /\ link' \in Links /\ status' \in Statuses /\ obs' \in Observations
      /\ SeedOwned'
  BY <1>1, <1>2, <1>3, MountInnerTyped
<1>5. QED
  BY <1>2, <1>4 DEF IInv, Typing

LEMMA StationSweepStep ==
  ASSUME IInv, NEW st \in Stations, StationSweep(st)
  PROVE  IInv'
<1> DEFINE o == [here EXCEPT !.base = st, !.login = @ + 1, !.clear = @ + 1]
           d == ClearAll(display)
<1>1. left' \in [Events -> Nat]
  BY SpendTyped DEF StationSweep, Events, IInv, Typing
<1>2. /\ o \in Owner /\ o.base = st /\ floor \in Floors
      /\ o.login = here.login + 1 /\ here.login \in Nat
  BY OwnerMoves DEF IInv, Typing, Owner
<1>3. d \in Held(RowsOf(station.rows, st)) /\ Status("running") \in Statuses
  BY ClearedHeld, FreshTyped
<1>4. Rendered(o, d, floor, Status("running"), TRUE, FALSE)
  BY DEF StationSweep
<1>5. UNCHANGED <<station, mounted, cont>> /\ epoch' \in Nat
  BY DEF StationSweep, IInv, Typing
<1> HIDE DEF o, d
<1>6. /\ here' \in Owner /\ here'.base \in Stations
      /\ display' \in Held(RowsOf(station.rows, here'.base))
      /\ floor' \in Floors /\ seed' \in Seeds /\ watch' \in Watches
      /\ link' \in Links /\ status' \in Statuses /\ obs' \in Observations
      /\ SeedOwned'
  <2>1. here.login =< o.login /\ here.login # o.login
    BY <1>2
  <2>2. QED
    BY <1>2, <1>3, <1>4, <1>5, <2>1, RenderedTyped
<1>7. QED
  BY <1>1, <1>5, <1>6 DEF IInv, Typing

\* The cache on disk is of the station that was selected, and still is.
LEMMA RestartStep ==
  ASSUME IInv, Restart
  PROVE  IInv'
<1>1. left' \in [Events -> Nat]
  BY SpendTyped DEF Restart, Events, IInv, Typing
<1>2. here' \in Owner /\ here'.base = here.base
  BY DEF Restart, IInv, Typing, NoOwner, Owner
<1>3. display.cacheBase \in Stations /\ display.cache \in SUBSET RowsOf(station.rows, here.base)
  BY DEF IInv, Held, Fields
<1>4. display' \in Held(RowsOf(station.rows, here.base))
  BY <1>3, FreshDisplayHeld, RowsOfRow DEF Restart
<1>5. floor' \in Floors
  BY DEF Restart, IInv, Typing, Floors
<1>6. cont' \in Conts
  BY FreshTyped DEF Restart, NoAuthority, Authority, Conts
<1>7. QED
  BY <1>1, <1>2, <1>4, <1>5, <1>6, FreshTyped
  DEF Restart, IInv, Typing, SeedOwned

-----------------------------------------------------------------------------
(* The login and the observed backend *)

LEMMA GrantsRefreshedStep ==
  ASSUME IInv, GrantsRefreshed
  PROVE  IInv'
<1>1. left' \in [Events -> Nat]
  BY SpendTyped DEF GrantsRefreshed, Events, IInv, Typing
<1>2. /\ here' \in Owner
      /\ here'.base = here.base /\ here'.login = here.login + 1
  BY OwnerMoves DEF GrantsRefreshed, IInv, Typing, Owner
<1>3. SeedOwned'
  BY <1>2 DEF GrantsRefreshed, IInv, Typing, SeedOwned, Owner, Seeds
<1>4. QED
  BY <1>1, <1>2, <1>3 DEF GrantsRefreshed, IInv, Typing

LEMMA GrantsRebuildStep ==
  ASSUME IInv, GrantsRebuild
  PROVE  IInv'
<1> DEFINE o == [here EXCEPT !.login = @ + 1, !.mount = @ + 1]
<1>1. left' \in [Events -> Nat]
  BY SpendTyped DEF GrantsRebuild, Events, IInv, Typing
<1>2. o \in Owner /\ o.base = here.base /\ o.base \in Stations
  BY OwnerMoves DEF IInv, Typing, Owner
<1>3. /\ MountInner(o, display, floor, status)
      /\ UNCHANGED <<station, mounted, cont, epoch>>
  BY DEF GrantsRebuild
<1>4. display \in Held(RowsOf(station.rows, o.base)) /\ floor \in Floors /\ status \in Statuses
  BY <1>2 DEF IInv, Typing
<1> HIDE DEF o
<1>5. /\ here' \in Owner /\ here'.base \in Stations
      /\ display' \in Held(RowsOf(station.rows, here'.base))
      /\ floor' \in Floors /\ seed' \in Seeds /\ watch' \in Watches
      /\ link' \in Links /\ status' \in Statuses /\ obs' \in Observations
      /\ SeedOwned'
  BY <1>2, <1>3, <1>4, MountInnerTyped
<1>6. QED
  BY <1>1, <1>3, <1>5 DEF IInv, Typing

LEMMA AccessLostStep ==
  ASSUME IInv, AccessLost
  PROVE  IInv'
<1> DEFINE o == [here EXCEPT !.login = @ + 1]
<1>1. left' \in [Events -> Nat]
  BY SpendTyped DEF AccessLost, Events, IInv, Typing
<1>2. o \in Owner /\ o.base = here.base
  BY OwnerMoves DEF IInv, Typing, Owner
<1>3. Leaves(o) /\ UNCHANGED <<station, cont, floor, epoch, status>>
  BY DEF AccessLost
<1> HIDE DEF o
<1>4. QED
  BY <1>1, <1>2, <1>3, LeavesTyped DEF IInv, Typing

LEMMA UnauthorizedStep ==
  ASSUME IInv, Unauthorized
  PROVE  IInv'
<1>1. left' \in [Events -> Nat]
  BY SpendTyped DEF Unauthorized, Events, IInv, Typing
<1>2. /\ here' \in Owner
      /\ here'.base = here.base /\ here'.login = here.login + 1
  BY OwnerMoves DEF Unauthorized, IInv, Typing, Owner
<1>3. SeedOwned'
  BY <1>2 DEF Unauthorized, IInv, Typing, SeedOwned, Owner, Seeds
<1>4. QED
  BY <1>1, <1>2, <1>3, FreshTyped DEF Unauthorized, IInv, Typing

LEMMA BeginObservationStep ==
  ASSUME IInv, BeginObservation
  PROVE  IInv'
<1>1. left' \in [Events -> Nat]
  BY SpendTyped DEF BeginObservation, Events, IInv, Typing
<1>2. cont' \in Conts
  BY SyncedTyped DEF BeginObservation, IInv, Typing
<1>3. display' \in Held(RowsOf(station.rows, here.base))
  BY SyncedHeld, RowsOfRow DEF BeginObservation, IInv
<1>4. obs' \in Observations
  BY DEF BeginObservation, IInv, Typing, Observations, Authority
<1>5. QED
  BY <1>1, <1>2, <1>3, <1>4 DEF BeginObservation, IInv, Typing, SeedOwned

LEMMA ObservationFailsStep ==
  ASSUME IInv, ObservationFails
  PROVE  IInv'
BY FreshTyped DEF ObservationFails, IInv, Typing, SeedOwned

LEMMA ObserveStep ==
  ASSUME IInv, Observe
  PROVE  IInv'
<1>1. epoch' \in Nat /\ watch' \in Watches
  BY BumpSeedTyped DEF Observe, IInv, Typing
<1>2. display' \in Held(RowsOf(station.rows, here.base))
  BY ClearedHeld DEF Observe, IInv
<1>3. cont' \in Conts
  <2> DEFINE c == [cont EXCEPT !.authority = obs.answer]
  <2>1. cont \in Conts /\ obs.answer \in Authority
    BY DEF IInv, Typing, Observations
  <2>2. cont' = [c EXCEPT !.revision = cont.revision + 1]
    BY DEF Observe
  <2>3. c \in Conts /\ cont.revision + 1 \in Nat
    BY <2>1 DEF Conts
  <2> HIDE DEF c
  <2>4. QED
    BY <2>2, <2>3 DEF Conts
<1>4. QED
  BY <1>1, <1>2, <1>3, FreshTyped DEF Observe, IInv, Typing, SeedOwned

-----------------------------------------------------------------------------
(* The theorems *)

LEMMA StutterStep ==
  ASSUME IInv, UNCHANGED vars
  PROVE  IInv'
BY DEF vars, IInv, Typing, SeedOwned

\* Every step keeps the invariant.
LEMMA NextIInv ==
  ASSUME IInv, [Next]_vars
  PROVE  IInv'
<1>1. CASE \E st \in Stations : Sample(st) \/ ReplaceInstance(st) \/ StationSweep(st)
  BY <1>1, SampleStep, ReplaceInstanceStep, StationSweepStep
<1>2. CASE \E st \in Stations, tested \in BOOLEAN : SelectStation(st, tested)
  BY <1>2, SelectStationStep
<1>3. CASE \E r \in station.rows, stepped \in BOOLEAN : LiveRow(r, stepped)
  BY <1>3, LiveRowStep
<1>4. CASE \E k \in 0..QueueCap, persist \in BOOLEAN : Pump(k, persist)
  BY <1>4, PumpStep
<1>5. CASE WsOpen \/ WsDrop \/ CalibrationChanged
  BY <1>5, WsOpenStep, WsDropStep, CalibrationChangedStep
<1>6. CASE \/ WatcherPicksUp \/ WatcherSkips \/ SeedRequests \/ SeedSuperseded
           \/ SeedAnswered \/ SeedBuilt \/ SeedFailed \/ SeedRetries \/ SeedReturns
  BY <1>6, WatcherPicksUpStep, WatcherSkipsStep, SeedRequestsStep,
     SeedSupersededStep, SeedAnsweredStep, SeedBuiltStep, SeedFailedStep,
     SeedRetriesStep, SeedReturnsStep
<1>7. CASE \/ StartupReady \/ StatusTimeout
           \/ Foreground \/ Reconnect \/ HardReload \/ ClearCurrent \/ ClearAndReseed
  BY <1>7, StartupReadyStep, StatusTimeoutStep, ForegroundStep, ReconnectStep,
     HardReloadStep, ClearCurrentStep, ClearAndReseedStep
<1>8. CASE Leave \/ Logout \/ Login \/ Mount \/ Restart
  BY <1>8, LeaveStep, LogoutStep, LoginStep, MountStep, RestartStep
<1>9. CASE \/ GrantsRefreshed \/ GrantsRebuild \/ AccessLost \/ Unauthorized
           \/ BeginObservation \/ ObservationFails \/ Observe
  BY <1>9, GrantsRefreshedStep, GrantsRebuildStep, AccessLostStep,
     UnauthorizedStep, BeginObservationStep,
     ObservationFailsStep, ObserveStep
<1>10. CASE UNCHANGED vars
  BY <1>10, StutterStep
<1>11. QED
  BY <1>1, <1>2, <1>3, <1>4, <1>5, <1>6, <1>7, <1>8, <1>9, <1>10 DEF Next

\* The inductive invariant holds in every reachable state.
THEOREM Invariance == Spec => []IInv
<1>1. Init => IInv
  BY InitIInv
<1>2. IInv /\ [Next]_vars => IInv'
  BY NextIInv
<1>3. QED
  BY <1>1, <1>2, PTL DEF Spec

\* Every variable holds a value of its kind, and the queue and the reseed
\* buffer never grow beyond telemetry_queue_capacity() and MAX_ROWS.
THEOREM TypeCorrect == Spec => []TypeOK
<1>1. IInv => TypeOK
  BY DisplayTyped, RowsOfRow
  DEF IInv, Typing, TypeOK, Conts, Floors, Seeds, Watches, Links, Statuses, Observations
<1>2. QED
  BY <1>1, Invariance, PTL

\* No row of a station that is not selected is ever drawn, queued, buffered or
\* on disk, however a switch of stations (set_base_url_and_persist, the sweep
\* of connect_ws_supervisor) interleaves with the requests of seed_from_db.
THEOREM StationsIsolated == Spec => []StationIsolation
<1>1. IInv => StationIsolation
  <2> SUFFICES ASSUME IInv
               PROVE  StationIsolation
    OBVIOUS
  <2> DEFINE R == RowsOf(station.rows, here.base)
  <2>1. /\ display.store \in SUBSET R /\ display.cache \in SUBSET R
        /\ display.queue \in Seq(R) /\ display.buffer \in Seq(R)
    BY DEF IInv, Held, Fields
  <2>2. Range(display.queue) \in SUBSET R /\ Range(display.buffer) \in SUBSET R
    BY <2>1, RangeOfSeq
  <2>3. QED
    BY <2>1, <2>2 DEF StationIsolation, Shown, RowsOf
<1>2. QED
  BY <1>1, Invariance, PTL

-----------------------------------------------------------------------------
(* A request under way goes on until it ends *)

\* The awaits of seed_from_db in their order; the pause comes after a failure.
Stage == [clock |-> 3, recent |-> 2, build |-> 1, tail |-> 0, backoff |-> 0, idle |-> 0]

\* It stays as it is, ends, comes to a later await, or begins a further attempt.
RequestGoesOn ==
  seed.pc # "idle" =>
    \/ seed' = seed \/ seed'.pc = "idle"
    \/ seed.pc # "backoff" /\ seed'.attempt = seed.attempt /\ Stage[seed'.pc] < Stage[seed.pc]
    \/ seed.pc = "backoff" /\ seed'.attempt = seed.attempt + 1 /\ seed'.attempt <= Attempts

\* A rerender drops the request with the inner dashboard, or leaves it alone.
LEMMA RenderedRequest ==
  ASSUME NEW o, NEW d, NEW f, NEW st, NEW wake, NEW up, Rendered(o, d, f, st, wake, up)
  PROVE  seed' \in {seed, IdleSeed}
BY DEF Rendered, MountInner

LEMMA NextRequest == ASSUME IInv, [Next]_vars PROVE RequestGoesOn
<1>0. seed \in Seeds /\ IdleSeed.pc = "idle"
  BY DEF IInv, Typing, IdleSeed
<1>1. ASSUME seed' \in {seed, IdleSeed}
      PROVE  RequestGoesOn
  BY <1>0, <1>1 DEF RequestGoesOn
<1>2. CASE \/ \E st \in Stations : Sample(st) \/ ReplaceInstance(st)
           \/ \E r \in station.rows, stepped \in BOOLEAN : LiveRow(r, stepped)
           \/ WsOpen \/ WsDrop \/ CalibrationChanged \/ WatcherSkips
           \/ StartupReady \/ StatusTimeout \/ Foreground \/ Reconnect \/ HardReload
           \/ Login \/ GrantsRefreshed \/ Unauthorized
           \/ BeginObservation \/ ObservationFails \/ UNCHANGED vars
  <2>1. seed' = seed
    BY <1>2
    DEF Sample, ReplaceInstance, LiveRow, WsOpen, WsDrop, CalibrationChanged, WatcherSkips,
        StartupReady, StatusTimeout, Foreground, Reconnect, HardReload, Login,
        GrantsRefreshed, Unauthorized, BeginObservation, ObservationFails, vars
  <2>2. QED
    BY <1>1, <2>1
<1>3. CASE \/ \E st \in Stations : StationSweep(st)
           \/ ClearCurrent \/ ClearAndReseed
           \/ \E k \in 0..QueueCap, persist \in BOOLEAN : Pump(k, persist)
  <2>1. seed' = seed \/ \E o, d, f, st, wake, up : Rendered(o, d, f, st, wake, up)
    BY <1>3 DEF StationSweep, ClearCurrent, ClearAndReseed, Pump
  <2>2. QED
    BY <1>1, <2>1, RenderedRequest
<1>4. CASE \/ \E st \in Stations, tested \in BOOLEAN : SelectStation(st, tested)
           \/ Leave \/ Logout \/ AccessLost \/ Restart \/ Mount \/ GrantsRebuild
           \/ SeedSuperseded \/ SeedReturns
  <2>1. seed' \in {seed, IdleSeed}
    BY <1>4
    DEF SelectStation, Leave, Logout, AccessLost, Restart, Mount, GrantsRebuild, MountInner,
        Leaves, SeedSuperseded, SeedReturns, EndSeed
  <2>2. QED
    BY <1>1, <2>1
<1>5. CASE Observe
  <2>1. seed' \in {seed, IdleSeed}
    BY <1>5 DEF Observe
  <2>2. QED
    BY <1>1, <2>1
<1>6. CASE WatcherPicksUp
  BY <1>6 DEF WatcherPicksUp, RequestGoesOn
<1>7. CASE SeedRequests
  <2>1. seed.pc = "clock" /\ seed'.pc = "recent" /\ seed'.attempt = seed.attempt
    BY <1>0, <1>7 DEF SeedRequests, Seeds
  <2>2. QED
    BY <2>1 DEF RequestGoesOn, Stage
<1>8. CASE SeedAnswered \/ SeedBuilt
  <2>1. /\ seed'.attempt = seed.attempt
        /\ \/ seed.pc = "recent" /\ seed'.pc \in {"build", "tail"}
           \/ seed.pc = "build" /\ seed'.pc = "tail"
    BY <1>0, <1>8 DEF SeedAnswered, SeedBuilt, SwapIn, Seeds
  <2>2. QED
    BY <2>1 DEF RequestGoesOn, Stage
<1>9. CASE SeedFailed
  <2>1. CASE seed' = IdleSeed
    BY <1>1, <2>1
  <2>2. CASE seed' # IdleSeed
    <3>1. /\ seed.pc = "recent" /\ seed'.attempt = seed.attempt
          /\ seed'.pc \in {"tail", "backoff"}
      BY <1>0, <1>9, <2>2 DEF SeedFailed, EndSeed, Seeds
    <3>2. QED
      BY <3>1 DEF RequestGoesOn, Stage
  <2>3. QED
    BY <2>1, <2>2
<1>10. CASE SeedRetries
  <2>1. seed.pc = "backoff" /\ seed'.attempt = seed.attempt + 1
    BY <1>10 DEF SeedRetries, BeginSeed
  <2>2. seed.attempt < Attempts /\ seed.attempt \in Nat /\ Attempts \in Nat
    BY <1>0, <2>1, ReseedAssumption DEF IInv, SeedOwned, Seeds
  <2>3. QED
    BY <2>1, <2>2 DEF RequestGoesOn
<1>11. QED
  BY <1>2, <1>3, <1>4, <1>5, <1>6, <1>7, <1>8, <1>9, <1>10 DEF Next

\* seed_from_db and the watcher's retries: nobody begins a request anew while one is under
\* way, and each of its steps brings it closer to its end, in at most Attempts attempts.
\* This is the part of SeedEnds that is no liveness.
THEOREM RequestsLeadOn == Spec => [][RequestGoesOn]_vars
BY Invariance, NextRequest, PTL DEF Spec

=============================================================================
