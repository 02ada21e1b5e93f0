-------------------------- MODULE TelemetryDisplay --------------------------
(***************************************************************************)
(* The telemetry a dashboard holds: the queue of rows received and not yet *)
(* drawn, the buffer that records rows while a history request is          *)
(* outstanding, the compacted store the graphs are drawn from, the marks   *)
(* that say which stored rows were received live, and the copy of the      *)
(* store kept on disk.  Every operator takes a display and returns the     *)
(* display the Rust function of the same purpose leaves behind.            *)
(*                                                                         *)
(* A row is one sample of one channel.  n is its place in the order in     *)
(* which samples are taken and received, so it stands for the timestamps   *)
(* the code compares; st is the station that took it.  Rows of one bucket  *)
(* share one slot of the store.  Retention pruning, the byte limit of the  *)
(* buffer and rows of several channels are left out: they remove rows by   *)
(* age and size alone, and no two channels share a slot.                   *)
(***************************************************************************)
EXTENDS Integers, Sequences, FiniteSets, Functions

CONSTANTS
  Stations,     \* the ground stations a frontend can be pointed at
  BucketRows,   \* samples per UI_ROW_BUCKET_MS
  QueueCap,     \* telemetry_queue_capacity()
  BufferCap     \* MAX_ROWS of the reseed buffer

ASSUME DisplayAssumption ==
  /\ Stations # {}
  /\ BucketRows \in Nat \ {0}
  /\ QueueCap \in Nat \ {0}
  /\ BufferCap \in Nat \ {0}

Row == [n : Nat, st : Stations]

(***************************************************************************)
(* The last three fields are history variables: no operator reads them.    *)
(* got holds the rows accepted from the socket since the display was last  *)
(* cleared; trimmed those the full queue pushed out, omitted those the     *)
(* full buffer pushed out.                                                 *)
(***************************************************************************)
Display ==
  [queue : Seq(Row), buffer : Seq(Row), dropped : Nat,
   store : SUBSET Row, live : SUBSET Row,
   cacheBase : Stations, cache : SUBSET Row,
   got : SUBSET Row, trimmed : SUBSET Row, omitted : SUBSET Row]

\* The display of a fresh process that finds the rows c of station b on disk.
FreshDisplay(b, c) ==
  [queue |-> <<>>, buffer |-> <<>>, dropped |-> 0,
   store |-> {}, live |-> {}, cacheBase |-> b, cache |-> c,
   got |-> {}, trimmed |-> {}, omitted |-> {}]

-----------------------------------------------------------------------------
(* Compaction *)

Bucket(r) == (r.n - 1) \div BucketRows

\* The newest row of every bucket.
Compact(S) == {r \in S : \A q \in S : Bucket(q) = Bucket(r) => q.n =< r.n}

Merge(A, B) == Compact(A \cup B)

\* Rows applied in the order of a sequence: the last of a bucket stays.
LastPerBucket(q) ==
  {q[i] : i \in {k \in DOMAIN q :
                   \A j \in DOMAIN q : j > k => Bucket(q[j]) # Bucket(q[k])}}

\* Row r, or a newer row of its bucket, is among S.
Represented(r, S) == \E q \in S : Bucket(q) = Bucket(r) /\ q.n >= r.n

-----------------------------------------------------------------------------
(* The queue and the buffer *)

Enqueue(d, r) ==
  LET full == Len(d.queue) >= QueueCap
  IN  [d EXCEPT !.queue   = Append(IF full THEN Tail(@) ELSE @, r),
                !.got     = @ \cup {r},
                !.trimmed = IF full THEN @ \cup {Head(d.queue)} ELSE @]

\* Mutant: the rows the full buffer drops are not counted.
PushBufferSilently(d, r) ==
  LET full == Len(d.buffer) >= BufferCap
  IN  [d EXCEPT !.buffer  = Append(IF full THEN Tail(@) ELSE @, r),
                !.omitted = IF full THEN @ \cup {Head(d.buffer)} ELSE @]

PushBuffer(d, r) ==
  LET full == Len(d.buffer) >= BufferCap
  IN  [d EXCEPT !.buffer  = Append(IF full THEN Tail(@) ELSE @, r),
                !.dropped = IF full THEN @ + 1 ELSE @,
                !.omitted = IF full THEN @ \cup {Head(d.buffer)} ELSE @]

ResetBuffer(d) == [d EXCEPT !.buffer = <<>>, !.dropped = 0]

ClearQueue(d) == [d EXCEPT !.queue = <<>>, !.got = @ \ Range(d.queue)]

\* The rows received before row number s leave the queue.  Rows are queued in
\* the order of n, so the ones that stay are the end of it.
KeepSince(d, s) ==
  LET old  == Cardinality({i \in DOMAIN d.queue : d.queue[i].n < s})
      kept == SubSeq(d.queue, old + 1, Len(d.queue))
  IN  [d EXCEPT !.queue = kept,
                !.got   = @ \ (Range(d.queue) \ Range(kept))]

-----------------------------------------------------------------------------
(* The store and its copy on disk *)

\* Rows from the socket take the slots of their buckets, marked live.
ApplyLive(d, q) ==
  LET last      == LastPerBucket(q)
      Beside(S) == {r \in S : \A p \in last : Bucket(p) # Bucket(r)}
  IN  [d EXCEPT !.store = Beside(@) \cup last,
                !.live  = Beside(@) \cup last]

Drain(d, k) ==
  ApplyLive([d EXCEPT !.queue = SubSeq(@, k + 1, Len(@))],
            SubSeq(d.queue, 1, k))

\* Mutant: every row of the answer counts as received live.
ReplaceFromReseedAllLive(d, rows) == [d EXCEPT !.store = rows, !.live = rows]

\* A stored row keeps its live mark only where it wins its own slot again.
ReplaceFromReseed(d, rows) == [d EXCEPT !.store = rows, !.live = @ \cap rows]

\* Mutant: the live marks outlive the rows they mark.
ClearVisibleKeepsMarks(d) ==
  [ResetBuffer(d) EXCEPT !.store = {}, !.cache = {},
                         !.got = @ \cap Range(d.queue)]

\* Everything drawn, and its copy on disk; the queue stays.
ClearVisible(d) ==
  [ResetBuffer(d) EXCEPT !.store = {}, !.live = {}, !.cache = {},
                         !.got = @ \cap Range(d.queue)]

ClearAll(d) == ClearVisible(ClearQueue(d))

Persist(d, base, rows) == [d EXCEPT !.cacheBase = base, !.cache = rows]

\* Mutant: rows restored from disk count as received live.
RestoreCacheLive(d, base, floor) ==
  LET rows == {r \in d.cache : floor = 0 \/ r.n > floor}
  IN  IF d.store # {} \/ d.cache = {} THEN d
      ELSE IF d.cacheBase # base THEN [d EXCEPT !.cache = {}]
      ELSE [d EXCEPT !.store = Compact(rows), !.live = Compact(rows)]

\* Rows restored from disk are never live; another station's are discarded.
RestoreCache(d, base, floor) ==
  LET rows == {r \in d.cache : floor = 0 \/ r.n > floor}
  IN  IF d.store # {} \/ d.cache = {} THEN d
      ELSE IF d.cacheBase # base THEN [d EXCEPT !.cache = {}]
      ELSE [d EXCEPT !.store = Compact(rows), !.live = {}]

=============================================================================
